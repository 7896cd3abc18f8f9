------------------------- MODULE TcpTransportProofs -------------------------
(***************************************************************************)
(* TcpTransport implements FIFO channels, and its byte count is exact, for *)
(* any number of processes, any frames, any queue limit, send budget,      *)
(* receive buffer and socket size.                                         *)
(***************************************************************************)
EXTENDS TcpTransport, SequenceTheorems, WellFoundedInduction, TLAPS

-----------------------------------------------------------------------------
(***************************************************************************)
(* Sums of frame sizes.                                                    *)
(***************************************************************************)
LEMMA NatLeast == ASSUME NEW T, T \subseteq Nat, T # {} PROVE \E x \in T : \A y \in T : x =< y
<1> DEFINE R == OpToRel(<, Nat)
<1>1. IsWellFoundedOn(R, Nat)
  BY NatLessThanWellFounded, Zenon
<1>2. PICK x \in T : \A y \in T : ~ (<<y, x>> \in R)
  <2> HIDE DEF R
  <2> QED BY <1>1, WFMin
<1>3. ASSUME NEW y \in T PROVE x =< y
  <2>1. <<y, x>> \notin R /\ x \in Nat /\ y \in Nat
    BY <1>2
  <2>2. ~(y < x)
    BY <2>1, Zenon DEF OpToRel
  <2> HIDE DEF R
  <2> QED BY <2>1, <2>2
<1> QED BY <1>3

Sized == [number : Nat, size : Nat]
\* f gives the sum of the sizes of the first i frames, for every i up to n.
Adds(f, s, n) == \A i \in 1..n : f[i] = f[i - 1] + s[i].size
Sums(f, s, n) == f \in [0..n -> Nat] /\ f[0] = 0 /\ Adds(f, s, n)

LEMMA SumsExist ==
    ASSUME NEW s \in Seq(Sized), NEW n \in 0..Len(s)
    PROVE  \E f : Sums(f, s, n)
<1> DEFINE T == {k \in 0..Len(s) : ~ \E f : Sums(f, s, k)}
<1>0. Len(s) \in Nat
  BY LenProperties
<1>1. SUFFICES ASSUME T # {} PROVE FALSE
  BY <1>0
<1>2. PICK k \in T : \A j \in T : k =< j
  <2>1. T \subseteq Nat
    BY <1>0
  <2> HIDE DEF T
  <2> QED BY <1>1, <2>1, NatLeast
<1>3. k # 0
  <2> SUFFICES ASSUME k = 0 PROVE FALSE
    OBVIOUS
  <2>1. Sums([i \in 0..0 |-> 0], s, 0)
    BY DEF Sums, Adds
  <2> QED BY <1>2, <2>1
<1>4. k \in Nat /\ k =< Len(s) /\ k - 1 \in 0..Len(s) /\ k - 1 \notin T /\ k >= 1
  BY <1>0, <1>2, <1>3
<1>5. PICK f : Sums(f, s, k - 1)
  BY <1>4
<1> DEFINE g == [i \in 0..k |-> IF i = k THEN f[k - 1] + s[k].size ELSE f[i]]
<1>6. s[k] \in Sized
  BY <1>0, <1>4, ElementOfSeq
<1>7. Sums(g, s, k)
  <2>1. g \in [0..k -> Nat]
    <3>1. f[k - 1] \in Nat /\ s[k].size \in Nat /\ k - 1 \in 0..(k - 1)
      BY <1>4, <1>5, <1>6 DEF Sums, Adds, Sized
    <3>2. \A i \in 0..k : i # k => i \in 0..(k - 1) /\ f[i] \in Nat
      BY <1>4, <1>5 DEF Sums, Adds
    <3> QED BY <3>1, <3>2
  <2>2. g[0] = 0
    BY <1>3, <1>4, <1>5 DEF Sums, Adds
  <2>3. ASSUME NEW i \in 1..k PROVE g[i] = g[i - 1] + s[i].size
    <3>1. CASE i = k
      BY <1>4, <3>1
    <3>2. CASE i # k
      <4>1. i \in 1..(k - 1) /\ i \in 0..k /\ i - 1 \in 0..k /\ i - 1 # k
        BY <1>4, <3>2
      <4>2. g[i] = f[i] /\ g[i - 1] = f[i - 1]
        BY <3>2, <4>1
      <4> QED BY <1>5, <4>1, <4>2 DEF Sums, Adds
    <3> QED BY <3>1, <3>2
  <2> HIDE DEF g
  <2> QED BY <2>1, <2>2, <2>3 DEF Sums, Adds
<1> QED BY <1>2, <1>7

LEMMA SumsAgree ==
    ASSUME NEW s, NEW n \in Nat, NEW f, NEW g, f[0] = g[0],
           Adds(f, s, n), Adds(g, s, n)
    PROVE  \A k \in 0..n : f[k] = g[k]
<1> DEFINE T == {k \in 0..n : f[k] # g[k]}
<1>1. SUFFICES ASSUME T # {} PROVE FALSE
  OBVIOUS
<1>2. PICK k \in T : \A j \in T : k =< j
  <2>1. T \subseteq Nat
    OBVIOUS
  <2> HIDE DEF T
  <2> QED BY <1>1, <2>1, NatLeast
<1>3. k \in 0..n /\ f[k] # g[k] /\ k # 0
  BY <1>2
<1>4. k \in 1..n /\ k - 1 \in 0..n /\ k - 1 \notin T
  BY <1>2, <1>3
<1>5. f[k - 1] = g[k - 1]
  BY <1>4
<1> QED BY <1>3, <1>4, <1>5 DEF Adds

LEMMA TotalIsSum ==
    ASSUME NEW s \in Seq(Sized), NEW f, Sums(f, s, Len(s))
    PROVE  Total(s) = f[Len(s)]
<1> DEFINE P(h) == h = [i \in 0..Len(s) |-> IF i = 0 THEN 0 ELSE h[i - 1] + s[i].size]
           sum == CHOOSE h : P(h)
<1>0. Len(s) \in Nat
  BY LenProperties
<1>1. P(f)
  BY <1>0 DEF Sums, Adds
<1>2. P(sum)
  BY <1>1
<1>3. Total(s) = sum[Len(s)]
  BY DEF Total
<1> HIDE DEF sum
<1>4. ASSUME NEW i \in 0..Len(s) PROVE sum[i] = IF i = 0 THEN 0 ELSE sum[i - 1] + s[i].size
  BY <1>2
<1>5. sum[0] = 0 /\ Adds(sum, s, Len(s))
  BY <1>0, <1>4 DEF Adds
<1>6. f[0] = 0 /\ Adds(f, s, Len(s))
  BY DEF Sums, Adds
<1>7. \A k \in 0..Len(s) : sum[k] = f[k]
  BY <1>0, <1>5, <1>6, SumsAgree
<1> QED BY <1>0, <1>3, <1>7

LEMMA TotalType ==
    ASSUME NEW s \in Seq(Sized)
    PROVE  Total(s) \in Nat
<1>0. Len(s) \in Nat
  BY LenProperties
<1>1. PICK f : Sums(f, s, Len(s))
  BY <1>0, SumsExist
<1> QED BY <1>0, <1>1, TotalIsSum DEF Sums, Adds

LEMMA TotalEmpty == Total(<< >>) = 0
<1>1. << >> \in Seq(Sized) /\ Len(<< >>) = 0
  OBVIOUS
<1> DEFINE s == << >>
<1> HIDE DEF s
<1>2. s \in Seq(Sized) /\ Len(s) = 0
  BY <1>1 DEF s
<1>3. PICK f : Sums(f, s, Len(s))
  <2>1. Len(s) \in 0..Len(s)
    BY <1>2
  <2> QED BY <1>2, <2>1, SumsExist
<1>4. Total(s) = f[Len(s)]
  BY <1>2, <1>3, TotalIsSum
<1> QED BY <1>2, <1>3, <1>4 DEF Sums, Adds, s

LEMMA TotalAppend ==
    ASSUME NEW s \in Seq(Sized), NEW m \in Sized
    PROVE  Total(Append(s, m)) = Total(s) + m.size
<1> DEFINE t == Append(s, m)
<1>0. /\ Len(s) \in Nat /\ t \in Seq(Sized) /\ Len(t) = Len(s) + 1 /\ t[Len(s) + 1] = m
      /\ \A i \in 1..Len(s) : t[i] = s[i]
  BY LenProperties, AppendProperties
<1> HIDE DEF t
<1>1. PICK f : Sums(f, t, Len(t))
  BY <1>0, SumsExist
<1>2. PICK g : Sums(g, s, Len(s))
  BY <1>0, SumsExist
<1>3. f[0] = g[0] /\ Adds(g, s, Len(s))
  BY <1>1, <1>2 DEF Sums, Adds
<1>x. Adds(f, s, Len(s))
  BY <1>0, <1>1 DEF Sums, Adds
<1>4. \A k \in 0..Len(s) : f[k] = g[k]
  BY <1>0, <1>3, <1>x, SumsAgree
<1>5. f[Len(s) + 1] = f[Len(s)] + m.size
  BY <1>0, <1>1 DEF Sums, Adds
<1>6. Total(t) = f[Len(s) + 1] /\ Total(s) = g[Len(s)]
  BY <1>0, <1>1, <1>2, TotalIsSum
<1> QED BY <1>0, <1>4, <1>5, <1>6 DEF t

LEMMA TotalTail ==
    ASSUME NEW s \in Seq(Sized), s # << >>
    PROVE  Total(Tail(s)) = Total(s) - Head(s).size
<1> DEFINE t == Tail(s)
<1>0. /\ Len(s) \in Nat /\ Len(s) > 0 /\ t \in Seq(Sized) /\ Len(t) = Len(s) - 1
      /\ Head(s) = s[1] /\ s[1] \in Sized
      /\ \A i \in 1..Len(t) : t[i] = s[i + 1]
  BY LenProperties, HeadTailProperties, EmptySeq
<1> HIDE DEF t
<1>1. PICK f : Sums(f, s, Len(s))
  BY <1>0, SumsExist
<1>2. PICK g : Sums(g, t, Len(t))
  BY <1>0, SumsExist
<1> DEFINE h == [i \in 0..Len(t) |-> f[i + 1] - f[1]]
<1>3. f[1] = s[1].size /\ \A i \in 0..Len(s) : f[i] \in Nat
  <2>1. \A i \in 0..Len(s) : f[i] \in Nat
    BY <1>1 DEF Sums, Adds
  <2>2. 1 \in 1..Len(s) /\ 1 - 1 = 0
    BY <1>0
  <2>3. f[1] = f[1 - 1] + s[1].size /\ f[0] = 0
    BY <1>1, <2>2 DEF Sums, Adds
  <2>4. s[1].size \in Nat
    BY <1>0 DEF Sized
  <2> QED BY <2>1, <2>3, <2>4
<1>4. h[0] = g[0]
  BY <1>0, <1>2, <1>3 DEF Sums, Adds
<1>5. ASSUME NEW i \in 1..Len(t) PROVE h[i] = h[i - 1] + t[i].size
  <2>1. i + 1 \in 1..Len(s) /\ i \in 0..Len(t) /\ i - 1 \in 0..Len(t) /\ (i + 1) - 1 = i
        /\ (i - 1) + 1 = i /\ i \in 0..Len(s) /\ 1 \in 0..Len(s)
    BY <1>0
  <2>2. f[i + 1] = f[i] + s[i + 1].size
    BY <1>1, <2>1 DEF Sums, Adds
  <2>3. h[i] = f[i + 1] - f[1] /\ h[i - 1] = f[i] - f[1]
    BY <2>1
  <2>4. f[i] \in Nat /\ f[1] \in Nat /\ s[i + 1].size \in Nat
    <3>1. s[i + 1] \in Sized
      BY <2>1, ElementOfSeq
    <3> QED BY <1>3, <2>1, <3>1 DEF Sized
  <2> HIDE DEF h
  <2> QED BY <1>0, <2>2, <2>3, <2>4
<1>6. Adds(g, t, Len(t))
  BY <1>2 DEF Sums, Adds
<1>7. \A k \in 0..Len(t) : h[k] = g[k]
  <2> HIDE DEF h
  <2>1. Adds(h, t, Len(t))
    BY <1>5 DEF Adds
  <2>2. Len(t) \in Nat
    BY <1>0
  <2> QED BY <1>4, <1>6, <2>1, <2>2, SumsAgree
<1>8. h[Len(t)] = f[Len(s)] - s[1].size
  BY <1>0, <1>3
<1>9. Total(t) = g[Len(t)] /\ Total(s) = f[Len(s)]
  BY <1>0, <1>1, <1>2, TotalIsSum
<1> QED BY <1>0, <1>7, <1>8, <1>9 DEF t
-----------------------------------------------------------------------------
(***************************************************************************)
(* Streams of bytes, cut anywhere.                                         *)
(***************************************************************************)
\* Bytes of frames that are known by their numbers.
Legal(S) == /\ \A b \in S : /\ b.at \in Nat /\ b.message.size \in Nat /\ b.message.number \in Nat
                            /\ 1 =< b.at /\ b.at =< b.message.size
                            /\ b = [message |-> b.message, at |-> b.at]
            /\ \A a, b \in S : a.message.number = b.message.number => a.message = b.message

\* Where a byte is in the stream, and where the next one is.
Pos(b) == <<b.message.number, b.at>>
NextPos(b) == IF b.at = b.message.size THEN <<b.message.number + 1, 1>>
              ELSE <<b.message.number, b.at + 1>>
EndOf(c, s) == IF s = << >> THEN c ELSE NextPos(s[Len(s)])

\* From any byte of s the rest of its frame follows in s, as far as s goes.
Runs(s) == \A i, j \in 1..Len(s) :
              i =< j /\ s[i].at + (j - i) =< s[i].message.size =>
                  s[j] = [message |-> s[i].message, at |-> s[i].at + (j - i)]
Chain(c, s) == /\ s # << >> => Pos(s[1]) = c
               /\ \A i \in 1..(Len(s) - 1) : Pos(s[i + 1]) = NextPos(s[i])
               /\ Runs(s)

LEMMA RunsTo ==
    ASSUME NEW s, Runs(s), NEW i \in 1..Len(s), NEW j \in 1..Len(s), i =< j,
           s[i].at + (j - i) =< s[i].message.size
    PROVE  s[j] = [message |-> s[i].message, at |-> s[i].at + (j - i)]
  BY DEF Runs

LEMMA ChainConcat ==
    ASSUME NEW S, Legal(S), NEW s \in Seq(S), NEW t \in Seq(S), NEW c,
           Chain(c, s), Chain(EndOf(c, s), t)
    PROVE  Chain(c, s \o t) /\ EndOf(c, s \o t) = EndOf(EndOf(c, s), t)
<1> DEFINE u == s \o t
<1>1. /\ Len(s) \in Nat /\ Len(t) \in Nat /\ u \in Seq(S) /\ Len(u) = Len(s) + Len(t)
      /\ \A i \in 1..Len(s) : u[i] = s[i] /\ s[i] \in S
      /\ \A i \in 1..Len(t) : u[Len(s) + i] = t[i] /\ t[i] \in S
      /\ (s = << >> <=> Len(s) = 0) /\ (t = << >> <=> Len(t) = 0) /\ (u = << >> <=> Len(u) = 0)
  BY ConcatProperties, LenProperties, EmptySeq, ElementOfSeq
<1> HIDE DEF u
<1>2. EndOf(c, u) = EndOf(EndOf(c, s), t)
  <2>1. CASE t = << >>
    BY <1>1, <2>1 DEF EndOf
  <2>2. CASE t # << >>
    <3>1. Len(t) \in 1..Len(t) /\ Len(u) # 0
      BY <1>1, <2>2
    <3>2. u[Len(u)] = t[Len(t)]
      BY <1>1, <3>1
    <3> QED BY <1>1, <2>2, <3>1, <3>2 DEF EndOf
  <2> QED BY <2>1, <2>2
<1>3. u # << >> => Pos(u[1]) = c
  <2>1. CASE s = << >>
    BY <1>1, <2>1 DEF Chain, EndOf
  <2>2. CASE s # << >>
    BY <1>1, <2>2 DEF Chain
  <2> QED BY <2>1, <2>2
<1>4. ASSUME Len(s) > 0, Len(t) > 0 PROVE Pos(t[1]) = NextPos(s[Len(s)])
  BY <1>1, <1>4 DEF Chain, EndOf
<1>5. ASSUME NEW i \in 1..(Len(u) - 1) PROVE Pos(u[i + 1]) = NextPos(u[i])
  <2>1. CASE i < Len(s)
    <3>1. i \in 1..(Len(s) - 1) /\ i \in 1..Len(s) /\ i + 1 \in 1..Len(s)
      BY <1>1, <2>1
    <3> QED BY <1>1, <3>1 DEF Chain
  <2>2. CASE i = Len(s)
    <3>1. 1 \in 1..Len(t) /\ i \in 1..Len(s) /\ Len(s) > 0 /\ Len(t) > 0
      BY <1>1, <2>2
    <3> QED BY <1>1, <1>4, <2>2, <3>1
  <2>3. CASE i > Len(s)
    <3>1. PICK j \in 1..(Len(t) - 1) : i = Len(s) + j
      <4>1. i - Len(s) \in 1..(Len(t) - 1) /\ i = Len(s) + (i - Len(s))
        BY <1>1, <2>3
      <4> QED BY <4>1
    <3>2. j \in 1..Len(t) /\ j + 1 \in 1..Len(t) /\ i + 1 = Len(s) + (j + 1)
      BY <1>1, <3>1
    <3> QED BY <1>1, <3>1, <3>2 DEF Chain
  <2> QED BY <1>1, <2>1, <2>2, <2>3
<1>6. Runs(u)
  <2> SUFFICES ASSUME NEW i \in 1..Len(u), NEW j \in 1..Len(u), i =< j,
                      u[i].at + (j - i) =< u[i].message.size
               PROVE  u[j] = [message |-> u[i].message, at |-> u[i].at + (j - i)]
    BY DEF Runs
  <2>1. CASE j =< Len(s)
    <3>1. i \in 1..Len(s) /\ j \in 1..Len(s)
      BY <1>1, <2>1
    <3>2. u[i] = s[i] /\ u[j] = s[j]
      BY <1>1, <3>1
    <3> QED BY <3>1, <3>2, RunsTo DEF Chain
  <2>2. CASE i > Len(s)
    <3>1. PICK a \in 1..Len(t) : i = Len(s) + a
      <4>1. i - Len(s) \in 1..Len(t) /\ i = Len(s) + (i - Len(s))
        BY <1>1, <2>2
      <4> QED BY <4>1
    <3>2. PICK b \in 1..Len(t) : j = Len(s) + b
      <4>1. j - Len(s) \in 1..Len(t) /\ j = Len(s) + (j - Len(s))
        BY <1>1, <2>2
      <4> QED BY <4>1
    <3>3. j - i = b - a /\ a =< b /\ u[i] = t[a] /\ u[j] = t[b]
      BY <1>1, <3>1, <3>2
    <3> QED BY <3>3 DEF Chain, Runs
  <2>3. CASE i =< Len(s) /\ j > Len(s)
    <3>1. PICK n \in Nat : n = Len(s)
      BY <1>1
    <3>2. PICK b \in 1..Len(t) : j = n + b
      <4>1. j - n \in 1..Len(t) /\ j = n + (j - n)
        BY <1>1, <2>3, <3>1
      <4> QED BY <4>1
    <3>3. /\ i \in 1..n /\ n \in 1..n /\ 1 \in 1..Len(t) /\ i =< n /\ n > 0 /\ Len(t) > 0
          /\ b \in Nat /\ 1 =< b /\ i \in Nat /\ j \in Nat
      BY <1>1, <2>3, <3>1, <3>2
    <3>4. u[i] = s[i] /\ s[i] \in S /\ s[n] \in S /\ t[1] \in S /\ u[j] = t[b]
      BY <1>1, <3>1, <3>2, <3>3
    <3>5. PICK x \in Nat : x = s[i].at
      BY <3>4 DEF Legal
    <3>6. PICK m : m = s[i].message
      OBVIOUS
    <3>7. m.size \in Nat /\ m.number \in Nat
      BY <3>4, <3>6 DEF Legal
    <3>8. x + (j - i) =< m.size
      BY <3>4, <3>5, <3>6
    <3>9. x + (n - i) < m.size /\ x + (n - i) =< m.size
      BY <3>2, <3>3, <3>7, <3>8
    <3>10. s[n] = [message |-> m, at |-> x + (n - i)]
      BY <3>1, <3>3, <3>5, <3>6, <3>9, RunsTo DEF Chain
    <3>11. NextPos(s[n]) = <<m.number, x + (n - i) + 1>>
      <4>1. s[n].at = x + (n - i) /\ s[n].message = m
        BY <3>10
      <4>2. x + (n - i) # m.size
        BY <3>3, <3>7, <3>9
      <4> QED BY <4>1, <4>2 DEF NextPos
    <3>12. t[1].message.number = m.number /\ t[1].at = x + (n - i) + 1
      BY <1>4, <3>1, <3>3, <3>11 DEF Pos
    <3>13. t[1].message = m
      BY <3>4, <3>6, <3>12 DEF Legal
    <3>14. t[1].at + (b - 1) = x + (j - i)
      <4>1. PICK y : y = t[1].at
        OBVIOUS
      <4>2. y = x + (n - i) + 1
        BY <3>12, <4>1
      <4>3. y + (b - 1) = x + (j - i)
        BY <3>2, <3>3, <4>2
      <4> QED BY <4>1, <4>3
    <3>15. t[b] = [message |-> m, at |-> x + (j - i)]
      <4>1. t[1].at + (b - 1) =< t[1].message.size /\ Runs(t)
        BY <3>8, <3>13, <3>14 DEF Chain
      <4>2. t[b] = [message |-> t[1].message, at |-> t[1].at + (b - 1)]
        BY <3>3, <4>1, RunsTo
      <4> QED BY <3>13, <3>14, <4>2
    <3> QED BY <3>4, <3>5, <3>6, <3>15
  <2> QED BY <1>1, <2>1, <2>2, <2>3
<1> QED BY <1>2, <1>3, <1>5, <1>6 DEF Chain, u

LEMMA ChainSplit ==
    ASSUME NEW S, NEW s \in Seq(S), NEW c, Chain(c, s), NEW k \in 0..Len(s)
    PROVE  LET a == SubSeq(s, 1, k)
               b == SubSeq(s, k + 1, Len(s))
           IN  /\ a \in Seq(S) /\ b \in Seq(S) /\ Len(a) = k /\ Len(b) = Len(s) - k
               /\ Chain(c, a) /\ Chain(EndOf(c, a), b) /\ EndOf(EndOf(c, a), b) = EndOf(c, s)
<1> DEFINE a == SubSeq(s, 1, k)
           b == SubSeq(s, k + 1, Len(s))
<1>1. Len(s) \in Nat /\ k \in Nat /\ \A i \in 1..Len(s) : s[i] \in S
  BY LenProperties, ElementOfSeq
<1>2. /\ a \in Seq(S) /\ Len(a) = k /\ \A i \in 1..k : a[i] = s[i]
  <2>1. \A i \in 1..k : s[i] \in S
    BY <1>1
  <2>2. /\ SubSeq(s, 1, k) \in Seq(S) /\ Len(SubSeq(s, 1, k)) = IF 1 <= k THEN k - 1 + 1 ELSE 0
        /\ \A i \in 1..(k - 1 + 1) : SubSeq(s, 1, k)[i] = s[1 + i - 1]
    BY <1>1, <2>1, SubSeqProperties
  <2> QED BY <1>1, <2>2
<1>3. /\ b \in Seq(S) /\ Len(b) = Len(s) - k /\ \A i \in 1..(Len(s) - k) : b[i] = s[k + i]
  <2>1. \A i \in (k + 1)..Len(s) : s[i] \in S
    BY <1>1
  <2>2. k + 1 \in Int /\ Len(s) \in Int
    BY <1>1
  <2>3. /\ SubSeq(s, k + 1, Len(s)) \in Seq(S)
        /\ Len(SubSeq(s, k + 1, Len(s))) = IF k + 1 <= Len(s) THEN Len(s) - (k + 1) + 1 ELSE 0
        /\ \A i \in 1..(Len(s) - (k + 1) + 1) : SubSeq(s, k + 1, Len(s))[i] = s[(k + 1) + i - 1]
    BY <2>1, <2>2, SubSeqProperties
  <2> QED BY <1>1, <2>3
<1> HIDE DEF a, b
<1>4. (a = << >> <=> k = 0) /\ (b = << >> <=> Len(s) = k) /\ (s = << >> <=> Len(s) = 0)
  BY <1>1, <1>2, <1>3, EmptySeq
<1>5. Chain(c, a)
  <2>1. a # << >> => Pos(a[1]) = c
    BY <1>1, <1>2, <1>4 DEF Chain
  <2>2. \A i \in 1..(Len(a) - 1) : Pos(a[i + 1]) = NextPos(a[i])
    BY <1>1, <1>2 DEF Chain
  <2>3. Runs(a)
    <3> SUFFICES ASSUME NEW i \in 1..Len(a), NEW j \in 1..Len(a), i =< j,
                        a[i].at + (j - i) =< a[i].message.size
                 PROVE  a[j] = [message |-> a[i].message, at |-> a[i].at + (j - i)]
      BY DEF Runs
    <3>1. i \in 1..Len(s) /\ j \in 1..Len(s) /\ a[i] = s[i] /\ a[j] = s[j]
      BY <1>1, <1>2
    <3> QED BY <3>1, RunsTo DEF Chain
  <2> QED BY <2>1, <2>2, <2>3 DEF Chain
<1>6. Chain(EndOf(c, a), b)
  <2>1. b # << >> => Pos(b[1]) = EndOf(c, a)
    <3>1. CASE k = 0
      BY <1>1, <1>3, <1>4, <3>1 DEF Chain, EndOf
    <3>2. CASE k # 0 /\ k # Len(s)
      <4>1. k \in 1..(Len(s) - 1) /\ 1 \in 1..(Len(s) - k) /\ k \in 1..k
        BY <1>1, <3>2
      <4>2. b[1] = s[k + 1] /\ a[k] = s[k]
        BY <1>2, <1>3, <4>1
      <4> QED BY <1>2, <1>4, <3>2, <4>1, <4>2 DEF Chain, EndOf
    <3> QED BY <1>4, <3>1, <3>2
  <2>2. ASSUME NEW i \in 1..(Len(b) - 1) PROVE Pos(b[i + 1]) = NextPos(b[i])
    <3>1. k + i \in 1..(Len(s) - 1) /\ i \in 1..(Len(s) - k) /\ i + 1 \in 1..(Len(s) - k)
          /\ k + (i + 1) = (k + i) + 1
      BY <1>1, <1>3
    <3>2. Pos(s[(k + i) + 1]) = NextPos(s[k + i])
      BY <3>1 DEF Chain
    <3>3. b[i + 1] = s[(k + i) + 1] /\ b[i] = s[k + i]
      BY <1>3, <3>1
    <3> QED BY <3>2, <3>3
  <2>3. Runs(b)
    <3> SUFFICES ASSUME NEW i \in 1..Len(b), NEW j \in 1..Len(b), i =< j,
                        b[i].at + (j - i) =< b[i].message.size
                 PROVE  b[j] = [message |-> b[i].message, at |-> b[i].at + (j - i)]
      BY DEF Runs
    <3>1. /\ k + i \in 1..Len(s) /\ k + j \in 1..Len(s) /\ k + i =< k + j
          /\ (k + j) - (k + i) = j - i /\ b[i] = s[k + i] /\ b[j] = s[k + j]
      BY <1>1, <1>3
    <3> QED BY <3>1 DEF Chain, Runs
  <2> QED BY <2>1, <2>2, <2>3 DEF Chain
<1>7. EndOf(EndOf(c, a), b) = EndOf(c, s)
  <2>1. CASE k = Len(s)
    BY <1>1, <1>2, <1>4, <2>1 DEF EndOf
  <2>2. CASE k # Len(s)
    <3>1. b[Len(b)] = s[Len(s)]
      BY <1>1, <1>3, <2>2
    <3> QED BY <1>1, <1>4, <2>2, <3>1 DEF EndOf
  <2> QED BY <2>1, <2>2
<1> QED BY <1>2, <1>3, <1>5, <1>6, <1>7 DEF a, b

\* The bytes of one frame, and what follows them.
LEMMA FrameChain ==
    ASSUME NEW S, Legal(S), NEW m, NEW i \in Nat, NEW j \in Nat, 1 =< i, i =< j, j =< m.size,
           m.size \in Nat, \A x \in 1..m.size : [message |-> m, at |-> x] \in S
    PROVE  LET f == Frame(m, i, j)
           IN  /\ f \in Seq(S) /\ Len(f) = j - i + 1
               /\ Chain(<<m.number, i>>, f)
               /\ \A c : EndOf(c, f) = IF j = m.size THEN <<m.number + 1, 1>> ELSE <<m.number, j + 1>>
<1> DEFINE n == j - i + 1
           f == Frame(m, i, j)
<1>1. n \in Nat /\ n >= 1 /\ f = [k \in 1..n |-> [message |-> m, at |-> i + k - 1]]
  BY DEF Frame
<1>2. ASSUME NEW k \in 1..n PROVE f[k] = [message |-> m, at |-> i + k - 1] /\ f[k] \in S
  <2>1. i + k - 1 \in 1..m.size
    OBVIOUS
  <2> QED BY <1>1, <2>1
<1> HIDE DEF f
<1>3. f \in Seq(S) /\ Len(f) = n
  <2>1. f \in [1..n -> S]
    BY <1>1, <1>2
  <2> HIDE DEF n
  <2>2. f \in Seq(S)
    <3>1. \E k \in Nat : f \in [1..k -> S]
      BY <1>1, <2>1
    <3> QED BY <3>1, SeqDef, Zenon
  <2>3. 1..Len(f) = 1..n /\ Len(f) \in Nat
    BY <2>1, <2>2, LenProperties
  <2>4. n \in 1..Len(f) /\ n =< Len(f)
    <3>1. n \in 1..n
      BY <1>1
    <3> QED BY <2>3, <3>1
  <2>5. Len(f) \in 1..n
    <3>1. Len(f) \in 1..Len(f)
      BY <1>1, <2>3, <2>4
    <3> QED BY <2>3, <3>1
  <2>6. n \in Nat /\ Len(f) \in Nat
    BY <1>1, <2>3
  <2>7. Len(f) = n
    BY <2>4, <2>5, <2>6
  <2> QED BY <2>2, <2>7
<1>4. f # << >> /\ f[1] = [message |-> m, at |-> i] /\ f[n] = [message |-> m, at |-> j]
  BY <1>1, <1>2, <1>3
<1>5. \A c : EndOf(c, f) = IF j = m.size THEN <<m.number + 1, 1>> ELSE <<m.number, j + 1>>
  BY <1>3, <1>4 DEF EndOf, NextPos
<1>6. ASSUME NEW k \in 1..(Len(f) - 1) PROVE Pos(f[k + 1]) = NextPos(f[k])
  <2>1. k \in 1..n /\ k + 1 \in 1..n /\ i + k - 1 # m.size /\ i + (k + 1) - 1 = (i + k - 1) + 1
    BY <1>3
  <2>2. f[k] = [message |-> m, at |-> i + k - 1] /\ f[k + 1] = [message |-> m, at |-> (i + k - 1) + 1]
    BY <1>2, <2>1
  <2> QED BY <2>1, <2>2 DEF Pos, NextPos
<1>7. Runs(f)
  <2> SUFFICES ASSUME NEW k \in 1..Len(f), NEW l \in 1..Len(f), k =< l
               PROVE  f[l] = [message |-> f[k].message, at |-> f[k].at + (l - k)]
    BY DEF Runs
  <2>1. f[l] = [message |-> m, at |-> i + l - 1] /\ f[k] = [message |-> m, at |-> i + k - 1]
    BY <1>2, <1>3
  <2>2. (i + k - 1) + (l - k) = i + l - 1
    BY <1>3
  <2> QED BY <2>1, <2>2
<1>8. Chain(<<m.number, i>>, f)
  BY <1>4, <1>6, <1>7 DEF Chain, Pos
<1> QED BY <1>3, <1>5, <1>8 DEF f

\* A byte string that begins with a first byte and is long enough begins with its frame.
LEMMA WholeFrameChain ==
    ASSUME NEW S, Legal(S), NEW s \in Seq(S), NEW i, Chain(<<i, 1>>, s), s # << >>,
           Len(s) >= s[1].message.size
    PROVE  LET m == s[1].message
           IN  /\ m.number = i /\ m.size \in 1..Len(s)
               /\ SubSeq(s, 1, m.size) = Frame(m, 1, m.size)
               /\ \A c : EndOf(c, SubSeq(s, 1, m.size)) = <<i + 1, 1>>
<1>1. PICK m : m = s[1].message
  OBVIOUS
<1>2. Len(s) \in Nat /\ Len(s) > 0 /\ \A k \in 1..Len(s) : s[k] \in S
  BY LenProperties, EmptySeq, ElementOfSeq
<1>3. s[1] \in S /\ m.number = i /\ s[1].at = 1 /\ m.size \in Nat /\ 1 =< m.size /\ m.size =< Len(s)
  BY <1>1, <1>2 DEF Chain, Pos, Legal
<1>4. ASSUME NEW k \in 1..m.size PROVE s[k] = [message |-> m, at |-> k]
  <2>1. 1 \in 1..Len(s) /\ k \in 1..Len(s) /\ 1 =< k /\ 1 + (k - 1) = k /\ k =< m.size /\ Runs(s)
    BY <1>2, <1>3 DEF Chain
  <2>2. s[1].at + (k - 1) =< s[1].message.size
    BY <1>1, <1>3, <2>1
  <2> QED BY <1>1, <1>3, <2>1, <2>2, RunsTo
<1> DEFINE f == Frame(m, 1, m.size)
           a == SubSeq(s, 1, m.size)
<1>5. /\ a \in Seq(S) /\ Len(a) = m.size /\ \A k \in 1..m.size : a[k] = s[k]
  <2>1. \A k \in 1..m.size : s[k] \in S
    BY <1>2, <1>3
  <2>2. /\ a \in Seq(S) /\ Len(a) = IF 1 <= m.size THEN m.size - 1 + 1 ELSE 0
        /\ \A k \in 1..(m.size - 1 + 1) : a[k] = s[1 + k - 1]
    BY <1>3, <2>1, SubSeqProperties
  <2> QED BY <1>3, <2>2
<1> HIDE DEF a
<1>6. f = [k \in 1..m.size |-> [message |-> m, at |-> k]]
  BY <1>3 DEF Frame
<1>7. a = f
  <2>1. a = [k \in 1..m.size |-> a[k]]
    BY <1>5, LenProperties
  <2> QED BY <1>4, <1>5, <1>6, <2>1
<1>8. \A c : EndOf(c, a) = <<i + 1, 1>>
  <2>1. a[m.size] = [message |-> m, at |-> m.size] /\ a # << >>
    BY <1>3, <1>4, <1>5, EmptySeq
  <2> QED BY <1>3, <1>5, <2>1 DEF EndOf, NextPos
<1> QED BY <1>1, <1>3, <1>7, <1>8 DEF a
-----------------------------------------------------------------------------
(***************************************************************************)
(* Tables with an entry per node and peer.                                 *)
(***************************************************************************)
IsTable(v) == /\ v = [n \in Nodes |-> v[n]]
              /\ \A n \in Nodes : v[n] = [p \in Peers(n) |-> v[n][p]]

Put(v, n, p, e) == [v EXCEPT ![n][p] = e]

LEMMA TableUpdate ==
    ASSUME NEW v, IsTable(v), NEW n \in Nodes, NEW p \in Peers(n), NEW e, NEW w,
           w = Put(v, n, p, e)
    PROVE  /\ IsTable(w) /\ w[n][p] = e
           /\ \A a \in Nodes : \A b \in Peers(a) : a # n \/ b # p => w[a][b] = v[a][b]
<1>1. w = [a \in Nodes |-> IF a = n THEN [v[n] EXCEPT ![p] = e] ELSE v[a]]
  BY DEF IsTable, Put
<1>2. [v[n] EXCEPT ![p] = e] = [b \in Peers(n) |-> IF b = p THEN e ELSE v[n][b]]
  BY DEF IsTable
<1>3. ASSUME NEW a \in Nodes PROVE w[a] = IF a = n THEN [v[n] EXCEPT ![p] = e] ELSE v[a]
  BY <1>1
<1>4. w[n] = [b \in Peers(n) |-> IF b = p THEN e ELSE v[n][b]]
  BY <1>2, <1>3
<1>5. w = [a \in Nodes |-> w[a]]
  BY <1>1
<1>6. ASSUME NEW a \in Nodes PROVE w[a] = [b \in Peers(a) |-> w[a][b]]
  <2>1. CASE a = n
    BY <1>4, <2>1
  <2>2. CASE a # n
    BY <1>3, <2>2 DEF IsTable
  <2> QED BY <2>1, <2>2
<1>7. IsTable(w)
  BY <1>5, <1>6 DEF IsTable
<1> QED BY <1>3, <1>4, <1>7

LEMMA EmptyTable ==
    ASSUME NEW v
    PROVE  IsTable(ForPeers(v)) /\ \A n \in Nodes : \A p \in Peers(n) : ForPeers(v)[n][p] = v
  BY DEF IsTable, ForPeers

-----------------------------------------------------------------------------
(***************************************************************************)
(* The inductive invariant, channel by channel.                            *)
(***************************************************************************)
\* The bytes of the first k frames that n sends to p.
Bytes(n, p, k) == {b \in [message : {Numbered(n, p, i) : i \in 1..k}, at : Nat] :
                     1 =< b.at /\ b.at =< b.message.size}

\* The frames queued are those of the workload, in order; some are still in
\* the output, the first of them sent in part.
SentOK(n, p) ==
    /\ sent[n][p] \in Seq(Sized) /\ Len(sent[n][p]) =< Len(Workload[n][p])
    /\ \A i \in 1..Len(sent[n][p]) : sent[n][p][i] = Numbered(n, p, i)

OutputOK(n, p) ==
    /\ output[n][p] \in Seq(Sized) /\ Len(output[n][p]) =< Len(sent[n][p])
    /\ \A i \in 1..Len(output[n][p]) :
          output[n][p][i] = Numbered(n, p, Len(sent[n][p]) - Len(output[n][p]) + i)
    /\ front_offset[n][p] \in Nat
    /\ output[n][p] = << >> => front_offset[n][p] = 0
    /\ output[n][p] # << >> => front_offset[n][p] < Head(output[n][p]).size
    /\ queued_bytes[n][p] = Total(output[n][p]) - front_offset[n][p]
    /\ queued_bytes[n][p] \in 0..QueueLimit

\* Where the receiver's input begins, and where the sender goes on.
StartPos(n, p) == <<Len(delivered[n][p]) + 1, 1>>
SendPos(n, p) == <<Len(sent[n][p]) - Len(output[n][p]) + 1, front_offset[n][p] + 1>>

\* What p has received from n but not decoded, and what is under way, are the
\* bytes that follow the last frame delivered; unless n has failed they reach
\* to the byte n sends next.
StreamOK(n, p) ==
    /\ input[p][n] \in Seq(Bytes(n, p, Len(sent[n][p])))
    /\ wire[n][p] \in Seq(Bytes(n, p, Len(sent[n][p])))
    /\ Len(wire[n][p]) =< SocketCapacity
    /\ delivered[n][p] \in Seq(Sized)
    /\ Chain(StartPos(n, p), input[p][n])
    /\ Chain(EndOf(StartPos(n, p), input[p][n]), wire[n][p])
    /\ status[n] \in {"ok", "done"} =>
          EndOf(EndOf(StartPos(n, p), input[p][n]), wire[n][p]) = SendPos(n, p)

ChannelOK(n, p) == SentOK(n, p) /\ OutputOK(n, p) /\ StreamOK(n, p)

PollRecords == [stage : {"idle", "send", "receive", "decode", "callback"}, todo : SUBSET Nodes,
                out : SUBSET Nodes, in : SUBSET Nodes, budget : 0..SendBudget]

PollOK(n) == /\ poll[n].todo \cup poll[n].out \cup poll[n].in \subseteq Peers(n)
             /\ poll[n].stage # "idle" => poll[n].todo # {}

ShapeOK == /\ IsTable(output) /\ IsTable(front_offset) /\ IsTable(queued_bytes)
           /\ IsTable(input) /\ IsTable(wire) /\ IsTable(sent) /\ IsTable(delivered)
           /\ poll \in [Nodes -> PollRecords]
           /\ status \in [Nodes -> Statuses] /\ gone \subseteq Nodes /\ deaths \in 0..MaxDeaths

IInv == /\ ShapeOK
        /\ \A n \in Nodes : PollOK(n) /\ status[n] # "frame"
        /\ \A n \in Nodes : \A p \in Peers(n) : ChannelOK(n, p)

\* A process returns only when it is finished; sockets are closed after that.
Ends == \A n \in Nodes : /\ status[n] = "done" => Finished(n)
                         /\ n \in gone => status[n] # "ok"

LEMMA BytesLegal ==
    ASSUME NEW n \in Nodes, NEW p \in Peers(n), NEW k \in Nat, k =< Len(Workload[n][p])
    PROVE  /\ Legal(Bytes(n, p, k))
           /\ \A i \in 1..k : \A j \in 1..Numbered(n, p, i).size :
                 [message |-> Numbered(n, p, i), at |-> j] \in Bytes(n, p, k)
           /\ \A b \in Bytes(n, p, k) : \E i \in 1..k : b.message = Numbered(n, p, i)
<1>1. ASSUME NEW i \in 1..k
      PROVE  /\ Numbered(n, p, i).number = i /\ Numbered(n, p, i).size = Workload[n][p][i]
             /\ Workload[n][p][i] \in Nat /\ Workload[n][p][i] > 0
  <2>1. Workload[n][p] \in Seq(Nat \ {0})
    BY TransportAssumption DEF Peers
  <2>2. Len(Workload[n][p]) \in Nat /\ i \in 1..Len(Workload[n][p])
    BY <2>1, LenProperties
  <2> QED BY <2>1, <2>2, ElementOfSeq DEF Numbered
<1>2. ASSUME NEW b \in Bytes(n, p, k)
      PROVE  /\ b = [message |-> b.message, at |-> b.at] /\ b.at \in Nat /\ 1 =< b.at
             /\ b.at =< b.message.size
             /\ \E i \in 1..k : b.message = Numbered(n, p, i)
  BY DEF Bytes
<1>3. ASSUME NEW b \in Bytes(n, p, k) PROVE b.message.size \in Nat /\ b.message.number \in Nat
                                            /\ b.message = Numbered(n, p, b.message.number)
  <2>1. PICK i \in 1..k : b.message = Numbered(n, p, i)
    BY <1>2
  <2> QED BY <1>1, <2>1
<1>4. Legal(Bytes(n, p, k))
  BY <1>2, <1>3 DEF Legal
<1>5. ASSUME NEW i \in 1..k, NEW j \in 1..Numbered(n, p, i).size
      PROVE  [message |-> Numbered(n, p, i), at |-> j] \in Bytes(n, p, k)
  <2>1. Numbered(n, p, i).size \in Nat
    BY <1>1
  <2>2. j \in Nat /\ 1 =< j /\ j =< Numbered(n, p, i).size
    BY <2>1
  <2> QED BY <2>2 DEF Bytes
<1> QED BY <1>2, <1>4, <1>5

LEMMA BytesGrow ==
    ASSUME NEW n, NEW p, NEW k \in Nat
    PROVE  Bytes(n, p, k) \subseteq Bytes(n, p, k + 1)
  BY DEF Bytes

\* A channel whose variables do not change keeps its invariant.
LEMMA ChannelFrame ==
    ASSUME NEW a \in Nodes, NEW b \in Peers(a), ChannelOK(a, b),
           output'[a][b] = output[a][b], front_offset'[a][b] = front_offset[a][b],
           queued_bytes'[a][b] = queued_bytes[a][b], sent'[a][b] = sent[a][b],
           wire'[a][b] = wire[a][b], input'[b][a] = input[b][a],
           delivered'[a][b] = delivered[a][b], status'[a] \in {"ok", "done"} => status[a] \in {"ok", "done"}
    PROVE  ChannelOK(a, b)'
  BY DEF ChannelOK, SentOK, OutputOK, StreamOK, StartPos, SendPos, EndOf

LEMMA PeerIsPeer ==
    ASSUME NEW n \in Nodes, PollOK(n), poll[n].stage # "idle"
    PROVE  Peer(n) \in poll[n].todo /\ Peer(n) \in Peers(n)
<1>1. poll[n].todo \subseteq Nat /\ poll[n].todo # {}
  BY TransportAssumption DEF PollOK, Peers
<1>2. PICK x \in poll[n].todo : \A y \in poll[n].todo : x =< y
  BY <1>1, NatLeast
<1>3. Peer(n) \in poll[n].todo
  BY <1>2 DEF Peer, Min
<1> QED BY <1>3 DEF PollOK

-----------------------------------------------------------------------------
(***************************************************************************)
(* The invariant holds initially and is preserved by every step.           *)
(***************************************************************************)
LEMMA Limits == /\ QueueLimit \in Nat /\ SendBudget \in Nat /\ ReceiveBuffer \in Nat
                /\ SocketCapacity \in Nat /\ MaxDeaths \in Nat
                /\ \A n \in Nodes : \A p \in Peers(n) : n \in Peers(p) /\ p \in Nodes
  BY TransportAssumption DEF Peers

LEMMA InitInv == Init => IInv
<1> SUFFICES ASSUME Init PROVE IInv
  OBVIOUS
<1> USE Limits
<1>1. ShapeOK
  <2>1. Idle \in PollRecords
    BY DEF Idle, PollRecords
  <2>2. poll \in [Nodes -> PollRecords] /\ status \in [Nodes -> Statuses]
    BY <2>1 DEF Init, Statuses
  <2>3. gone \subseteq Nodes /\ deaths \in 0..MaxDeaths
    BY DEF Init
  <2> QED BY <2>2, <2>3, EmptyTable DEF ShapeOK, Init
<1>2. ASSUME NEW n \in Nodes PROVE PollOK(n) /\ status[n] # "frame"
  BY DEF Init, PollOK, Idle
<1>3. ASSUME NEW n \in Nodes, NEW p \in Peers(n) PROVE ChannelOK(n, p)
  <2>1. /\ output[n][p] = << >> /\ front_offset[n][p] = 0 /\ queued_bytes[n][p] = 0
        /\ input[p][n] = << >> /\ wire[n][p] = << >> /\ sent[n][p] = << >>
        /\ delivered[n][p] = << >>
    BY EmptyTable DEF Init
  <2>2. Len(Workload[n][p]) \in Nat
    <3>1. Workload[n][p] \in Seq(Nat \ {0})
      BY TransportAssumption DEF Peers
    <3> QED BY <3>1, LenProperties
  <2>3. SentOK(n, p)
    BY <2>1, <2>2 DEF SentOK
  <2>4. OutputOK(n, p)
    BY <2>1, TotalEmpty DEF OutputOK
  <2>5. Chain(<<1, 1>>, << >>) /\ EndOf(<<1, 1>>, << >>) = <<1, 1>>
    BY DEF Chain, Runs, EndOf
  <2>6. StartPos(n, p) = <<1, 1>> /\ SendPos(n, p) = <<1, 1>>
    BY <2>1 DEF StartPos, SendPos
  <2>7. StreamOK(n, p)
    BY <2>1, <2>5, <2>6 DEF StreamOK
  <2> QED BY <2>3, <2>4, <2>7 DEF ChannelOK
<1> QED BY <1>1, <1>2, <1>3 DEF IInv

\* What has not failed had not failed before.
Stays(n) == status'[n] \in {"ok", "done"} => status[n] \in {"ok", "done"}

\* Steps that leave every channel alone.
LEMMA ControlStep ==
    ASSUME IInv, UNCHANGED <<output, front_offset, queued_bytes, input, wire, sent, delivered>>,
           poll' \in [Nodes -> PollRecords], \A n \in Nodes : PollOK(n)',
           status' \in [Nodes -> Statuses], gone' \subseteq Nodes, deaths' \in 0..MaxDeaths,
           \A n \in Nodes : status'[n] # "frame" /\ Stays(n)
    PROVE  IInv'
<1>1. ShapeOK'
  BY DEF IInv, ShapeOK, IsTable
<1>2. ASSUME NEW n \in Nodes, NEW p \in Peers(n) PROVE ChannelOK(n, p)'
  BY ChannelFrame DEF IInv, Stays
<1> QED BY <1>1, <1>2 DEF IInv, Peers

LEMMA PollStage ==
    ASSUME IInv, NEW n \in Nodes, NEW stage \in {"send", "receive", "decode", "callback"},
           poll[n].stage # "idle", Stage(n, stage)
    PROVE  poll' \in [Nodes -> PollRecords] /\ \A a \in Nodes : PollOK(a)'
<1>1. poll \in [Nodes -> PollRecords]
  BY DEF IInv, ShapeOK
<1>2. poll[n] \in PollRecords /\ [poll[n] EXCEPT !.stage = stage] \in PollRecords
  BY <1>1 DEF PollRecords
<1>3. poll' = [poll EXCEPT ![n] = [poll[n] EXCEPT !.stage = stage]]
  BY DEF Stage
<1>4. /\ poll'[n].todo = poll[n].todo /\ poll'[n].out = poll[n].out /\ poll'[n].in = poll[n].in
      /\ poll'[n].stage = stage
  BY <1>1, <1>2, <1>3 DEF PollRecords
<1>5. poll' \in [Nodes -> PollRecords]
  BY <1>1, <1>2, <1>3
<1>6. ASSUME NEW a \in Nodes PROVE PollOK(a)'
  <2>1. CASE a = n
    BY <1>4, <2>1 DEF IInv, PollOK
  <2>2. CASE a # n
    <3>1. poll'[a] = poll[a]
      BY <1>1, <1>3, <2>2
    <3> QED BY <3>1 DEF IInv, PollOK
  <2> QED BY <2>1, <2>2
<1> QED BY <1>5, <1>6

LEMMA PollNext ==
    ASSUME IInv, NEW n \in Nodes, poll[n].stage # "idle", NextPeer(n)
    PROVE  poll' \in [Nodes -> PollRecords] /\ \A a \in Nodes : PollOK(a)'
<1> DEFINE left == poll[n].todo \ {Peer(n)}
           r == IF left = {} THEN Idle
                ELSE [stage |-> "send", todo |-> left, out |-> poll[n].out,
                      in |-> poll[n].in, budget |-> SendBudget]
<1>1. poll \in [Nodes -> PollRecords] /\ PollOK(n) /\ poll' = [poll EXCEPT ![n] = r]
  <2>1. poll \in [Nodes -> PollRecords] /\ PollOK(n)
    BY DEF IInv, ShapeOK
  <2>2. poll' = [poll EXCEPT ![n] = r]
    BY DEF NextPeer
  <2> QED BY <2>1, <2>2
<1>2. poll[n] \in PollRecords /\ SendBudget \in 0..SendBudget /\ left \subseteq Peers(n)
  BY <1>1, Limits DEF PollOK
<1>3. r \in PollRecords
  <2>1. Idle \in PollRecords
    BY Limits DEF Idle, PollRecords
  <2> QED BY <1>2, <2>1 DEF PollRecords, Peers
<1>4. /\ r.todo \cup r.out \cup r.in \subseteq Peers(n)
      /\ r.stage # "idle" => r.todo # {}
  BY <1>1, <1>2 DEF Idle, PollOK
<1> HIDE DEF r
<1>5. poll' \in [Nodes -> PollRecords] /\ poll'[n] = r /\ \A a \in Nodes : a # n => poll'[a] = poll[a]
  BY <1>1, <1>3
<1>6. ASSUME NEW a \in Nodes PROVE PollOK(a)'
  <2>1. CASE a = n
    BY <1>4, <1>5, <2>1 DEF PollOK
  <2>2. CASE a # n
    BY <1>5, <2>2 DEF IInv, PollOK
  <2> QED BY <2>1, <2>2
<1> QED BY <1>5, <1>6

LEMMA StatusStep ==
    ASSUME IInv, NEW n \in Nodes,
           NEW why \in {"overflow", "disconnected", "done", "killed"}, Fail(n, why), status[n] = "ok"
    PROVE  /\ status' \in [Nodes -> Statuses]
           /\ \A a \in Nodes : status'[a] # "frame" /\ Stays(a)
<1>1. status \in [Nodes -> Statuses] /\ \A a \in Nodes : status[a] # "frame"
  BY DEF IInv, ShapeOK
<1> QED BY <1>1 DEF Fail, Statuses, Stays

\* The steps that change only what poll() reported, the stage or the status.
LEMMA QuietInv ==
    ASSUME IInv, NEW n \in Nodes,
           \/ PollOnce(n) \/ SendEnds(n) \/ SendFails(n) \/ ReceiveFails(n) \/ ReceiveNothing(n)
           \/ CallbackReturns(n) \/ DecodeEnds(n) \/ Return(n) \/ Kill(n)
    PROVE  IInv'
<1>0. /\ poll \in [Nodes -> PollRecords] /\ status \in [Nodes -> Statuses] /\ gone \subseteq Nodes
      /\ deaths \in 0..MaxDeaths /\ \A a \in Nodes : PollOK(a) /\ status[a] # "frame"
  BY DEF IInv, ShapeOK
<1>1. CASE PollOnce(n)
  <2> DEFINE out == {p \in Peers(n) : output[n][p] # << >> /\ (Room(n, p) > 0 \/ p \in gone)}
             in == {p \in Peers(n) : wire[p][n] # << >> \/ p \in gone}
             r == [stage |-> "send", todo |-> Peers(n), out |-> out, in |-> in,
                   budget |-> SendBudget]
  <2>1. poll' = [poll EXCEPT ![n] = r] /\ out \cup in # {}
    BY <1>1 DEF PollOnce
  <2>2. out \subseteq Peers(n) /\ in \subseteq Peers(n) /\ Peers(n) \subseteq Nodes
    BY DEF Peers
  <2>3. Peers(n) # {} /\ SendBudget \in 0..SendBudget
    BY <2>1, <2>2, Limits
  <2> HIDE DEF out, in
  <2>4. r \in PollRecords
    BY <2>2, <2>3 DEF PollRecords
  <2>5. poll' \in [Nodes -> PollRecords] /\ poll'[n] = r /\ \A a \in Nodes : a # n => poll'[a] = poll[a]
    BY <1>0, <2>1, <2>4
  <2>6. ASSUME NEW a \in Nodes PROVE PollOK(a)'
    <3>1. CASE a = n
      BY <2>2, <2>3, <2>5, <3>1 DEF PollOK
    <3>2. CASE a # n
      BY <1>0, <2>5, <3>2 DEF PollOK
    <3> QED BY <3>1, <3>2
  <2>7. UNCHANGED <<output, front_offset, queued_bytes, input, wire, sent, delivered, status, gone,
                    deaths>>
    BY <1>1 DEF PollOnce, channel
  <2> QED BY <1>0, <2>5, <2>6, <2>7, ControlStep DEF Stays
<1>2. CASE SendEnds(n) \/ CallbackReturns(n)
  <2>1. poll' \in [Nodes -> PollRecords] /\ \A a \in Nodes : PollOK(a)'
    BY <1>2, PollStage DEF SendEnds, CallbackReturns, Up
  <2>2. UNCHANGED <<output, front_offset, queued_bytes, input, wire, sent, delivered, status, gone,
                    deaths>>
    BY <1>2 DEF SendEnds, CallbackReturns, channel
  <2> QED BY <1>0, <2>1, <2>2, ControlStep DEF Stays
<1>3. CASE ReceiveNothing(n) \/ DecodeEnds(n)
  <2>1. poll' \in [Nodes -> PollRecords] /\ \A a \in Nodes : PollOK(a)'
    BY <1>3, PollNext DEF ReceiveNothing, DecodeEnds, Up
  <2>2. UNCHANGED <<output, front_offset, queued_bytes, input, wire, sent, delivered, status, gone,
                    deaths>>
    BY <1>3 DEF ReceiveNothing, DecodeEnds, channel
  <2> QED BY <1>0, <2>1, <2>2, ControlStep DEF Stays
<1>4. CASE SendFails(n) \/ ReceiveFails(n) \/ Return(n) \/ Kill(n)
  <2>1. /\ status' \in [Nodes -> Statuses]
        /\ \A a \in Nodes : status'[a] # "frame" /\ Stays(a)
    BY <1>4, StatusStep DEF SendFails, ReceiveFails, Return, Kill, Up
  <2>2. /\ UNCHANGED <<output, front_offset, queued_bytes, input, wire, sent, delivered, poll>>
        /\ gone' = gone
    BY <1>4 DEF SendFails, ReceiveFails, Return, Kill, channel
  <2>3. deaths' \in 0..MaxDeaths
    BY <1>0, <1>4, Limits DEF SendFails, ReceiveFails, Return, Kill
  <2>4. poll' \in [Nodes -> PollRecords] /\ gone' \subseteq Nodes /\ \A a \in Nodes : PollOK(a)'
    BY <1>0, <2>2 DEF PollOK
  <2> QED BY <2>1, <2>2, <2>3, <2>4, ControlStep
<1> QED BY <1>1, <1>2, <1>3, <1>4

LEMMA NumberedSized ==
    ASSUME NEW n \in Nodes, NEW p \in Peers(n), NEW i \in 1..Len(Workload[n][p])
    PROVE  /\ Numbered(n, p, i) \in Sized /\ Numbered(n, p, i).number = i
           /\ Numbered(n, p, i).size > 0 /\ Numbered(n, p, i) \in Message
<1>1. Workload[n][p] \in Seq(Nat \ {0})
  BY TransportAssumption DEF Peers
<1>2. Workload[n][p][i] \in Nat \ {0} /\ i \in Nat /\ i \in DOMAIN Workload[n][p]
  BY <1>1, ElementOfSeq, LenProperties
<1> QED BY <1>2 DEF Numbered, Sized, Message

\* A step that changes one channel and none of the others.
LEMMA OneChannel ==
    ASSUME IInv, NEW n \in Nodes, NEW p \in Peers(n), ShapeOK', ChannelOK(n, p)',
           \A a \in Nodes : PollOK(a)' /\ status'[a] # "frame" /\ Stays(a),
           \A a \in Nodes : \A b \in Peers(a) : a # n \/ b # p =>
               /\ output'[a][b] = output[a][b] /\ front_offset'[a][b] = front_offset[a][b]
               /\ queued_bytes'[a][b] = queued_bytes[a][b] /\ sent'[a][b] = sent[a][b]
               /\ wire'[a][b] = wire[a][b] /\ input'[b][a] = input[b][a]
               /\ delivered'[a][b] = delivered[a][b]
    PROVE  IInv'
<1>1. ASSUME NEW a \in Nodes, NEW b \in Peers(a) PROVE ChannelOK(a, b)'
  <2>1. CASE a = n /\ b = p
    BY <2>1
  <2>2. CASE a # n \/ b # p
    BY <2>2, ChannelFrame DEF IInv, Stays
  <2> QED BY <2>1, <2>2
<1> QED BY <1>1 DEF IInv, Peers

LEMMA QueueInv ==
    ASSUME IInv, NEW n \in Nodes, NEW p \in Peers(n), Queue(n, p)
    PROVE  IInv'
<1>0. /\ poll \in [Nodes -> PollRecords] /\ status \in [Nodes -> Statuses] /\ gone \subseteq Nodes
      /\ deaths \in 0..MaxDeaths /\ \A a \in Nodes : PollOK(a) /\ status[a] # "frame"
  BY DEF IInv, ShapeOK
<1>1. SentOK(n, p) /\ OutputOK(n, p) /\ StreamOK(n, p) /\ p \in Nodes /\ n \in Peers(p)
  BY Limits DEF IInv, ChannelOK
<1>2. PICK k : k = Len(sent[n][p])
  OBVIOUS
<1>3. k \in Nat /\ k + 1 \in 1..Len(Workload[n][p]) /\ Len(Workload[n][p]) \in Nat
  <2>1. Workload[n][p] \in Seq(Nat \ {0})
    BY TransportAssumption DEF Peers
  <2>2. Len(Workload[n][p]) \in Nat /\ k \in Nat
    BY <1>1, <1>2, <2>1, LenProperties DEF SentOK
  <2>3. k < Len(Workload[n][p])
    BY <1>2 DEF Queue
  <2> QED BY <2>2, <2>3
<1>4. PICK m : m = Numbered(n, p, k + 1)
  OBVIOUS
<1>5. m \in Sized /\ m.size \in Nat /\ m.size > 0
  <2>1. m \in Sized /\ m.size > 0
    BY <1>3, <1>4, NumberedSized
  <2> QED BY <2>1 DEF Sized
<1>6. UNCHANGED <<poll, front_offset, input, wire, gone, deaths, delivered>>
  BY DEF Queue
<1>7. CASE ~Fits(n, p, m.size)
  <2>1. Fail(n, "overflow") /\ UNCHANGED <<output, queued_bytes, sent>>
    BY <1>2, <1>4, <1>7 DEF Queue
  <2>2. /\ status' \in [Nodes -> Statuses]
        /\ \A a \in Nodes : status'[a] # "frame" /\ Stays(a)
    BY <2>1, StatusStep DEF Queue, Up
  <2>3. \A a \in Nodes : PollOK(a)'
    BY <1>0, <1>6 DEF PollOK
  <2>4. poll' \in [Nodes -> PollRecords] /\ gone' \subseteq Nodes /\ deaths' \in 0..MaxDeaths
    BY <1>0, <1>6
  <2> QED BY <1>6, <2>1, <2>2, <2>3, <2>4, ControlStep
<1>8. CASE Fits(n, p, m.size)
  <2>1. /\ output' = Put(output, n, p, Append(output[n][p], m))
        /\ queued_bytes' = Put(queued_bytes, n, p, queued_bytes[n][p] + m.size)
        /\ sent' = Put(sent, n, p, Append(sent[n][p], m))
        /\ UNCHANGED status
    BY <1>2, <1>4, <1>8 DEF Queue, Put
  <2>2. /\ IsTable(output') /\ output'[n][p] = Append(output[n][p], m)
        /\ \A a \in Nodes : \A b \in Peers(a) : a # n \/ b # p => output'[a][b] = output[a][b]
    <3>1. PICK e : e = Append(output[n][p], m)
      OBVIOUS
    <3>2. IsTable(output) /\ output' = Put(output, n, p, e)
      BY <2>1, <3>1 DEF IInv, ShapeOK
    <3>3. /\ IsTable(output') /\ output'[n][p] = e
          /\ \A a \in Nodes : \A b \in Peers(a) : a # n \/ b # p => output'[a][b] = output[a][b]
      BY <3>2, TableUpdate
    <3> QED BY <3>1, <3>3
  <2>3. /\ IsTable(queued_bytes') /\ queued_bytes'[n][p] = queued_bytes[n][p] + m.size
        /\ \A a \in Nodes : \A b \in Peers(a) :
              a # n \/ b # p => queued_bytes'[a][b] = queued_bytes[a][b]
    BY <2>1, TableUpdate DEF IInv, ShapeOK
  <2>4. /\ IsTable(sent') /\ sent'[n][p] = Append(sent[n][p], m)
        /\ \A a \in Nodes : \A b \in Peers(a) : a # n \/ b # p => sent'[a][b] = sent[a][b]
    <3>1. PICK e : e = Append(sent[n][p], m)
      OBVIOUS
    <3>2. IsTable(sent) /\ sent' = Put(sent, n, p, e)
      BY <2>1, <3>1 DEF IInv, ShapeOK
    <3>3. /\ IsTable(sent') /\ sent'[n][p] = e
          /\ \A a \in Nodes : \A b \in Peers(a) : a # n \/ b # p => sent'[a][b] = sent[a][b]
      BY <3>2, TableUpdate
    <3> QED BY <3>1, <3>3
  <2>5. ShapeOK'
    <3>1. IsTable(output)' /\ IsTable(queued_bytes)' /\ IsTable(sent)'
      BY <2>2, <2>3, <2>4 DEF IsTable
    <3>2. IsTable(front_offset)' /\ IsTable(input)' /\ IsTable(wire)' /\ IsTable(delivered)'
      BY <1>6 DEF IInv, ShapeOK, IsTable
    <3> QED BY <1>0, <1>6, <2>1, <3>1, <3>2 DEF ShapeOK
  <2>6. PICK s, o : s = sent[n][p] /\ o = output[n][p]
    OBVIOUS
  <2>7. /\ s \in Seq(Sized) /\ o \in Seq(Sized) /\ Len(s) = k /\ Len(o) \in Nat /\ Len(o) =< k
        /\ \A i \in 1..k : s[i] = Numbered(n, p, i)
        /\ \A i \in 1..Len(o) : o[i] = Numbered(n, p, k - Len(o) + i)
    BY <1>1, <1>2, <2>6, LenProperties DEF SentOK, OutputOK
  <2>8. /\ Append(s, m) \in Seq(Sized) /\ Len(Append(s, m)) = k + 1
        /\ \A i \in 1..k : Append(s, m)[i] = s[i]
        /\ Append(s, m)[k + 1] = m
    BY <1>5, <2>7, AppendProperties
  <2>9. /\ Append(o, m) \in Seq(Sized) /\ Len(Append(o, m)) = Len(o) + 1 /\ Append(o, m) # << >>
        /\ \A i \in 1..Len(o) : Append(o, m)[i] = o[i]
        /\ Append(o, m)[Len(o) + 1] = m
    BY <1>5, <2>7, AppendProperties
  <2>10. SentOK(n, p)'
    <3>1. ASSUME NEW i \in 1..(k + 1) PROVE Append(s, m)[i] = Numbered(n, p, i)
      BY <1>3, <1>4, <2>7, <2>8
    <3>2. k + 1 =< Len(Workload[n][p])
      BY <1>3
    <3> QED BY <2>4, <2>6, <2>8, <3>1, <3>2 DEF SentOK
  <2>11. OutputOK(n, p)'
    <3>1. PICK f, q : f = front_offset[n][p] /\ q = queued_bytes[n][p]
      OBVIOUS
    <3>2. /\ f \in Nat /\ (o = << >> => f = 0) /\ (o # << >> => f < Head(o).size)
          /\ q = Total(o) - f /\ q \in 0..QueueLimit
      BY <1>1, <2>6, <3>1 DEF OutputOK
    <3>3. ASSUME NEW i \in 1..(Len(o) + 1)
          PROVE  Append(o, m)[i] = Numbered(n, p, (k + 1) - (Len(o) + 1) + i)
      <4>1. CASE i = Len(o) + 1
        BY <1>3, <1>4, <2>7, <2>9, <4>1
      <4>2. CASE i # Len(o) + 1
        <5>1. i \in 1..Len(o) /\ (k + 1) - (Len(o) + 1) + i = k - Len(o) + i
          BY <1>3, <2>7, <4>2
        <5> QED BY <2>7, <2>9, <5>1
      <4> QED BY <4>1, <4>2
    <3>4. f < Head(Append(o, m)).size
      <4>1. Head(Append(o, m)) = Append(o, m)[1]
        BY <2>9
      <4>2. CASE o = << >>
        BY <1>5, <2>9, <3>2, <4>1, <4>2
      <4>3. CASE o # << >>
        <5>1. Len(o) > 0 /\ Head(o) = o[1]
          BY <2>7, <4>3
        <5> QED BY <2>7, <2>9, <3>2, <4>1, <4>3, <5>1
      <4> QED BY <4>2, <4>3
    <3>5. Total(Append(o, m)) = Total(o) + m.size /\ Total(o) \in Nat
      BY <1>5, <2>7, TotalAppend, TotalType
    <3>6. q + m.size \in 0..QueueLimit
      BY <1>5, <1>8, <3>1, <3>2, Limits DEF Fits
    <3>7. q + m.size = Total(Append(o, m)) - f
      BY <1>5, <3>2, <3>5
    <3>8. Len(o) + 1 =< k + 1
      BY <1>3, <2>7
    <3>9. /\ output'[n][p] = Append(o, m) /\ queued_bytes'[n][p] = q + m.size
          /\ front_offset'[n][p] = f /\ Len(sent'[n][p]) = k + 1
      BY <1>6, <2>2, <2>3, <2>4, <2>6, <2>8, <3>1
    <3> QED BY <2>9, <3>2, <3>3, <3>4, <3>6, <3>7, <3>8, <3>9 DEF OutputOK
  <2>12. StreamOK(n, p)'
    <3>1. Bytes(n, p, k) \subseteq Bytes(n, p, k + 1)
      BY <1>3, BytesGrow
    <3>2. input[p][n] \in Seq(Bytes(n, p, k + 1)) /\ wire[n][p] \in Seq(Bytes(n, p, k + 1))
      BY <1>1, <1>2, <3>1, SeqMonotonic DEF StreamOK
    <3>3. SendPos(n, p)' = SendPos(n, p) /\ StartPos(n, p)' = StartPos(n, p)
      <4>1. Len(sent'[n][p]) - Len(output'[n][p]) + 1 = Len(sent[n][p]) - Len(output[n][p]) + 1
        BY <1>3, <2>2, <2>4, <2>6, <2>7, <2>8, <2>9
      <4> QED BY <1>6, <4>1 DEF SendPos, StartPos
    <3>4. Len(sent'[n][p]) = k + 1 /\ input'[p][n] = input[p][n] /\ wire'[n][p] = wire[n][p]
          /\ delivered'[n][p] = delivered[n][p] /\ status'[n] = status[n]
      BY <1>6, <2>1, <2>4, <2>6, <2>8
    <3> QED BY <1>1, <3>2, <3>3, <3>4 DEF StreamOK, EndOf
  <2>13. \A a \in Nodes : PollOK(a)' /\ status'[a] # "frame" /\ Stays(a)
    BY <1>0, <1>6, <2>1 DEF PollOK, Stays
  <2>14. ChannelOK(n, p)'
    BY <2>10, <2>11, <2>12 DEF ChannelOK
  <2>15. ASSUME NEW a \in Nodes, NEW b \in Peers(a), a # n \/ b # p
         PROVE  /\ output'[a][b] = output[a][b] /\ front_offset'[a][b] = front_offset[a][b]
                /\ queued_bytes'[a][b] = queued_bytes[a][b] /\ sent'[a][b] = sent[a][b]
                /\ wire'[a][b] = wire[a][b] /\ input'[b][a] = input[b][a]
                /\ delivered'[a][b] = delivered[a][b]
    BY <1>6, <2>2, <2>3, <2>4, <2>15
  <2> QED BY <2>5, <2>13, <2>14, <2>15, OneChannel
<1> QED BY <1>7, <1>8

LEMMA MinOfThree ==
    ASSUME NEW a \in Int, NEW b \in Int, NEW c \in Int
    PROVE  /\ Min({a, b, c}) \in Int
           /\ Min({a, b, c}) =< a /\ Min({a, b, c}) =< b /\ Min({a, b, c}) =< c
<1>1. \E x \in {a, b, c} : \A y \in {a, b, c} : x =< y
  <2>1. CASE a =< b /\ a =< c
    BY <2>1
  <2>2. CASE b =< a /\ b =< c
    BY <2>2
  <2>3. CASE c =< a /\ c =< b
    BY <2>3
  <2> QED BY <2>1, <2>2, <2>3
<1>2. Min({a, b, c}) \in {a, b, c} /\ \A y \in {a, b, c} : Min({a, b, c}) =< y
  BY <1>1 DEF Min
<1> QED BY <1>2

LEMMA LenConcat ==
    ASSUME NEW S, NEW s \in Seq(S), NEW t \in Seq(S)
    PROVE  s \o t \in Seq(S) /\ Len(s \o t) = Len(s) + Len(t) /\ Len(s) \in Nat
  BY ConcatProperties, LenProperties

\* k bytes of the first frame of a queue move on.
LEMMA SendChannel ==
    ASSUME IInv, NEW n \in Nodes, NEW p \in Peers(n), status[n] = "ok", output[n][p] # << >>,
           NEW k \in Nat, 1 =< k, k =< Head(output[n][p]).size - front_offset[n][p], k =< Room(n, p),
           status'[n] = status[n],
           sent'[n][p] = sent[n][p], input'[p][n] = input[p][n], delivered'[n][p] = delivered[n][p],
           wire'[n][p] = wire[n][p] \o Frame(Head(output[n][p]), front_offset[n][p] + 1,
                                             front_offset[n][p] + k),
           queued_bytes'[n][p] = queued_bytes[n][p] - k,
           IF front_offset[n][p] + k = Head(output[n][p]).size
           THEN output'[n][p] = Tail(output[n][p]) /\ front_offset'[n][p] = 0
           ELSE output'[n][p] = output[n][p] /\ front_offset'[n][p] = front_offset[n][p] + k
    PROVE  ChannelOK(n, p)' /\ wire'[n][p] # << >>
<1>1. SentOK(n, p) /\ OutputOK(n, p) /\ StreamOK(n, p)
  BY DEF IInv, ChannelOK
<1>2. PICK o, f, q, l, m : /\ o = output[n][p] /\ f = front_offset[n][p] /\ q = queued_bytes[n][p]
                           /\ l = Len(sent[n][p]) /\ m = Head(o)
  OBVIOUS
<1>3. /\ o \in Seq(Sized) /\ Len(o) \in Nat /\ 1 =< Len(o) /\ Len(o) =< l /\ l \in Nat
      /\ \A i \in 1..Len(o) : o[i] = Numbered(n, p, l - Len(o) + i)
      /\ f \in Nat /\ q = Total(o) - f /\ q \in 0..QueueLimit /\ o # << >> /\ m = o[1]
      /\ f < m.size
  <2>1. /\ o \in Seq(Sized) /\ sent[n][p] \in Seq(Sized) /\ Len(o) =< l /\ o # << >>
        /\ f \in Nat /\ q = Total(o) - f /\ q \in 0..QueueLimit /\ f < m.size
    BY <1>1, <1>2 DEF SentOK, OutputOK
  <2>2. \A i \in 1..Len(o) : o[i] = Numbered(n, p, l - Len(o) + i)
    BY <1>1, <1>2 DEF OutputOK
  <2>3. Len(o) \in Nat /\ l \in Nat /\ Len(o) # 0
    BY <1>2, <2>1, LenProperties, EmptySeq
  <2>4. 1 =< Len(o)
    BY <2>3
  <2>5. m = o[1]
    BY <1>2, <2>1
  <2> QED BY <2>1, <2>2, <2>3, <2>4, <2>5
<1>4. PICK j \in Nat : j = l - Len(o) + 1
  <2>1. l - Len(o) + 1 \in Nat
    BY <1>3
  <2> QED BY <2>1
<1>5. /\ m = Numbered(n, p, j) /\ j \in 1..l /\ m \in Sized /\ m.number = j /\ m.size \in Nat
  <2>1. l =< Len(Workload[n][p]) /\ Len(Workload[n][p]) \in Nat
    <3>1. Workload[n][p] \in Seq(Nat \ {0})
      BY TransportAssumption DEF Peers
    <3> QED BY <1>1, <1>2, <3>1, LenProperties DEF SentOK
  <2>2. m = Numbered(n, p, j) /\ j \in 1..l
    BY <1>3, <1>4
  <2>3. j \in 1..Len(Workload[n][p])
    BY <1>3, <2>1, <2>2
  <2>4. m \in Sized /\ m.number = j
    BY <2>2, <2>3, NumberedSized
  <2> QED BY <2>2, <2>4 DEF Sized
<1>6. f + k =< m.size /\ f + k \in Nat
  BY <1>2, <1>3, <1>5
<1>7. SentOK(n, p)'
  BY <1>1 DEF SentOK
<1>8. /\ Tail(o) \in Seq(Sized) /\ Len(Tail(o)) = Len(o) - 1
      /\ \A i \in 1..(Len(o) - 1) : Tail(o)[i] = o[i + 1]
  BY <1>3, HeadTailProperties
<1>9. OutputOK(n, p)'
  <2>1. q - k \in 0..QueueLimit
    <3>1. Total(o) >= m.size
      <4>1. Total(Tail(o)) = Total(o) - m.size
        BY <1>2, <1>3, TotalTail
      <4>2. Total(Tail(o)) \in Nat /\ Total(o) \in Nat
        BY <1>3, <1>8, TotalType
      <4> QED BY <1>5, <4>1, <4>2
    <3>2. Total(o) \in Nat
      BY <1>3, TotalType
    <3> QED BY <1>3, <1>5, <1>6, <3>1, <3>2, Limits
  <2>2. CASE f + k = m.size
    <3>1. output'[n][p] = Tail(o) /\ front_offset'[n][p] = 0 /\ queued_bytes'[n][p] = q - k
          /\ Len(sent'[n][p]) = l
      BY <1>2, <2>2
    <3>2. q - k = Total(Tail(o)) - 0
      <4>1. Total(Tail(o)) = Total(o) - m.size
        BY <1>2, <1>3, TotalTail
      <4>2. Total(o) \in Nat
        BY <1>3, TotalType
      <4> QED BY <1>3, <1>5, <2>2, <4>1, <4>2
    <3>3. ASSUME NEW i \in 1..(Len(o) - 1)
          PROVE  Tail(o)[i] = Numbered(n, p, l - Len(Tail(o)) + i)
      <4>1. i + 1 \in 1..Len(o) /\ l - Len(o) + (i + 1) = l - (Len(o) - 1) + i
        BY <1>3
      <4> QED BY <1>3, <1>8, <4>1
    <3>4. Tail(o) # << >> => 0 < Head(Tail(o)).size
      <4> SUFFICES ASSUME Tail(o) # << >> PROVE 0 < Head(Tail(o)).size
        OBVIOUS
      <4>1. 1 \in 1..(Len(o) - 1) /\ Head(Tail(o)) = Tail(o)[1]
        BY <1>3, <1>8, EmptySeq
      <4>2. PICK i : i = l - Len(Tail(o)) + 1
        OBVIOUS
      <4>3. Head(Tail(o)) = Numbered(n, p, i) /\ i \in 1..Len(Workload[n][p])
        <5>1. Head(Tail(o)) = Numbered(n, p, i)
          BY <3>3, <4>1, <4>2
        <5>2. Workload[n][p] \in Seq(Nat \ {0}) /\ l =< Len(Workload[n][p])
          BY <1>1, <1>2, TransportAssumption DEF Peers, SentOK
        <5>3. Len(Workload[n][p]) \in Nat
          BY <5>2, LenProperties
        <5>4. i = l - (Len(o) - 1) + 1
          BY <1>8, <4>2
        <5>5. Len(o) \in Nat /\ l \in Nat /\ 2 =< Len(o) /\ Len(o) =< l
          BY <1>3, <4>1
        <5>6. i \in 1..Len(Workload[n][p])
          BY <5>2, <5>3, <5>4, <5>5
        <5> QED BY <5>1, <5>6
      <4> QED BY <4>3, NumberedSized
    <3>5. Len(Tail(o)) =< l
      BY <1>3, <1>8
    <3> QED BY <1>8, <2>1, <3>1, <3>2, <3>3, <3>4, <3>5 DEF OutputOK
  <2>3. CASE f + k # m.size
    <3>1. output'[n][p] = o /\ front_offset'[n][p] = f + k /\ queued_bytes'[n][p] = q - k
          /\ Len(sent'[n][p]) = l
      BY <1>2, <2>3
    <3>2. f + k < m.size /\ f + k \in Nat
      BY <1>5, <1>6, <2>3
    <3>3. q - k = Total(o) - (f + k)
      <4>1. Total(o) \in Nat
        BY <1>3, TotalType
      <4> QED BY <1>3, <4>1
    <3> QED BY <1>2, <1>3, <2>1, <3>1, <3>2, <3>3 DEF OutputOK
  <2> QED BY <2>2, <2>3
<1>10. StreamOK(n, p)' /\ wire'[n][p] # << >>
  <2>1. PICK S, c, w : S = Bytes(n, p, l) /\ c = EndOf(StartPos(n, p), input[p][n]) /\ w = wire[n][p]
    OBVIOUS
  <2>2. Legal(S) /\ \A x \in 1..m.size : [message |-> m, at |-> x] \in S
    <3>1. l =< Len(Workload[n][p])
      BY <1>1, <1>2 DEF SentOK
    <3> QED BY <1>3, <1>5, <2>1, <3>1, BytesLegal
  <2>3. /\ w \in Seq(S) /\ Chain(c, w) /\ EndOf(c, w) = <<j, f + 1>> /\ Len(w) =< SocketCapacity
    <3>1. SendPos(n, p) = <<j, f + 1>>
      BY <1>2, <1>4 DEF SendPos
    <3> QED BY <1>1, <1>2, <2>1, <3>1 DEF StreamOK
  <2>4. PICK t : t = Frame(m, f + 1, f + k)
    OBVIOUS
  <2>5. /\ t \in Seq(S) /\ Len(t) = k /\ Chain(<<j, f + 1>>, t)
        /\ \A x : EndOf(x, t) = IF f + k = m.size THEN <<j + 1, 1>> ELSE <<j, f + k + 1>>
    <3>a. f \in Nat /\ k \in Nat /\ 1 =< k
      BY <1>3, <1>6
    <3>b. m.size \in Nat
      BY <1>5 DEF Sized
    <3>c. f + k =< m.size
      BY <1>5, <1>6
    <3>1. f + 1 \in Nat /\ f + k \in Nat /\ 1 =< f + 1 /\ f + 1 =< f + k /\ f + k =< m.size
          /\ (f + k) - (f + 1) + 1 = k
      BY <3>a, <3>b, <3>c
    <3>2. PICK a \in Nat, b \in Nat : a = f + 1 /\ b = f + k
      BY <3>1
    <3>3. 1 =< a /\ a =< b /\ b =< m.size /\ b - a + 1 = k
      BY <3>1, <3>2
    <3>4. /\ Frame(m, a, b) \in Seq(S) /\ Len(Frame(m, a, b)) = b - a + 1
          /\ Chain(<<m.number, a>>, Frame(m, a, b))
          /\ \A x : EndOf(x, Frame(m, a, b)) =
                      IF b = m.size THEN <<m.number + 1, 1>> ELSE <<m.number, b + 1>>
      BY <1>5, <2>2, <3>3, FrameChain
    <3> QED BY <1>5, <2>4, <3>2, <3>3, <3>4
  <2>6. Chain(c, w \o t) /\ EndOf(c, w \o t) = EndOf(<<j, f + 1>>, t)
    <3>1. PICK d : d = EndOf(c, w)
      OBVIOUS
    <3>2. Chain(EndOf(c, w), t) /\ t \in Seq(S) /\ w \in Seq(S) /\ Chain(c, w)
      BY <2>3, <2>5
    <3>3. Chain(c, w \o t) /\ EndOf(c, w \o t) = EndOf(EndOf(c, w), t)
      BY <2>2, <3>2, ChainConcat
    <3> QED BY <2>3, <3>3
  <2>7. w \o t \in Seq(S) /\ Len(w \o t) =< SocketCapacity /\ Len(w \o t) # 0
    <3>1. w \o t \in Seq(S) /\ Len(w \o t) = Len(w) + k /\ Len(w) \in Nat
      <4>1. w \in Seq(S) /\ t \in Seq(S)
        BY <2>3, <2>5
      <4>2. w \o t \in Seq(S) /\ Len(w \o t) = Len(w) + Len(t) /\ Len(w) \in Nat
        BY <4>1, LenConcat
      <4> QED BY <2>5, <4>2
    <3>2. k =< SocketCapacity - Len(w)
      BY <2>1 DEF Room
    <3> QED BY <3>1, <3>2, Limits
  <2>8. EndOf(c, w \o t) = SendPos(n, p)'
    <3>1. CASE f + k = m.size
      <4>1. l - Len(Tail(o)) + 1 = j + 1
        BY <1>3, <1>4, <1>8
      <4>2. SendPos(n, p)' = <<l - Len(Tail(o)) + 1, 0 + 1>>
        BY <1>2, <3>1 DEF SendPos
      <4> QED BY <2>5, <2>6, <3>1, <4>1, <4>2
    <3>2. CASE f + k # m.size
      <4>1. SendPos(n, p)' = <<j, f + k + 1>>
        BY <1>2, <1>4, <3>2 DEF SendPos
      <4> QED BY <2>5, <2>6, <3>2, <4>1
    <3> QED BY <3>1, <3>2
  <2>9. wire'[n][p] = w \o t
    BY <1>2, <2>1, <2>4
  <2>10. /\ StartPos(n, p)' = StartPos(n, p) /\ input'[p][n] = input[p][n]
         /\ delivered'[n][p] = delivered[n][p] /\ Len(sent'[n][p]) = l
    BY <1>2 DEF StartPos
  <2>11. EndOf(StartPos(n, p), input[p][n])' = c
    BY <2>1, <2>10 DEF EndOf
  <2>12. EndOf(EndOf(StartPos(n, p), input[p][n]), wire[n][p])' = EndOf(c, w \o t)
    BY <2>9, <2>11 DEF EndOf
  <2>13. Chain(EndOf(StartPos(n, p), input[p][n]), wire[n][p])'
    BY <2>6, <2>9, <2>11 DEF EndOf, Chain, Runs
  <2>14. Chain(StartPos(n, p), input[p][n])'
    BY <1>1, <2>10 DEF Chain, Runs, StreamOK
  <2>15. wire'[n][p] # << >>
    <3>1. PICK x : x = w \o t
      OBVIOUS
    <3>2. Len(x) # 0
      BY <2>7, <3>1
    <3>3. x # << >>
      BY <3>2
    <3> QED BY <2>9, <3>1, <3>3
  <2> QED BY <1>1, <2>1, <2>7, <2>8, <2>9, <2>10, <2>12, <2>13, <2>14, <2>15 DEF StreamOK
<1> QED BY <1>7, <1>9, <1>10 DEF ChannelOK

LEMMA SendSomeInv ==
    ASSUME IInv, NEW n \in Nodes, SendSome(n)
    PROVE  IInv' /\ \A a \in Nodes : \A b \in Peers(a) : wire[a][b] # << >> => wire'[a][b] # << >>
<1>0. /\ poll \in [Nodes -> PollRecords] /\ status \in [Nodes -> Statuses] /\ gone \subseteq Nodes
      /\ deaths \in 0..MaxDeaths /\ \A a \in Nodes : PollOK(a) /\ status[a] # "frame"
  BY DEF IInv, ShapeOK
<1>1. PICK p : p = Peer(n)
  OBVIOUS
<1>2. p \in Peers(n) /\ p \in Nodes /\ n \in Peers(p)
  BY <1>0, <1>1, PeerIsPeer, Limits DEF SendSome, Up
<1>3. /\ status[n] = "ok" /\ output[n][p] # << >>
      /\ UNCHANGED <<input, status, gone, deaths, sent, delivered>>
  BY <1>1 DEF SendSome, Up, CanSend
<1>4. PICK k \in 1..Min({poll[n].budget, Head(output[n][p]).size - front_offset[n][p], Room(n, p)}) :
         /\ wire' = Put(wire, n, p, wire[n][p] \o Frame(Head(output[n][p]), front_offset[n][p] + 1,
                                                        front_offset[n][p] + k))
         /\ AfterSend(n, p, k)
         /\ queued_bytes' = Put(queued_bytes, n, p, queued_bytes[n][p] - k)
         /\ poll' = [poll EXCEPT ![n].budget = poll[n].budget - k]
  BY <1>1 DEF SendSome, Put
<1>5. OutputOK(n, p) /\ StreamOK(n, p)
  BY <1>2 DEF IInv, ChannelOK
<1>6. /\ k \in Nat /\ 1 =< k /\ k =< Head(output[n][p]).size - front_offset[n][p] /\ k =< Room(n, p)
      /\ k =< poll[n].budget
  <2>1. PICK b, h, r : /\ b = poll[n].budget /\ h = Head(output[n][p]).size - front_offset[n][p]
                       /\ r = Room(n, p)
    OBVIOUS
  <2>2. b \in Int
    <3>1. poll[n] \in PollRecords
      BY <1>0
    <3>2. poll[n].budget \in 0..SendBudget
      BY <3>1 DEF PollRecords
    <3> QED BY <2>1, <3>2, Limits
  <2>3. h \in Int
    <3>1. Head(output[n][p]) \in Sized /\ front_offset[n][p] \in Nat
      BY <1>3, <1>5, HeadTailProperties DEF OutputOK
    <3> QED BY <2>1, <3>1 DEF Sized
  <2>4. r \in Int
    <3>1. Len(wire[n][p]) \in Nat
      BY <1>5, LenProperties DEF StreamOK
    <3> QED BY <2>1, <3>1, Limits DEF Room
  <2>5. Min({b, h, r}) \in Int /\ Min({b, h, r}) =< b /\ Min({b, h, r}) =< h /\ Min({b, h, r}) =< r
    BY <2>2, <2>3, <2>4, MinOfThree
  <2>6. k \in 1..Min({b, h, r})
    BY <1>4, <2>1
  <2>7. k \in Nat /\ 1 =< k /\ k =< b /\ k =< h /\ k =< r
    BY <2>2, <2>3, <2>4, <2>5, <2>6
  <2> QED BY <2>1, <2>7
<1>7. poll' \in [Nodes -> PollRecords] /\ \A a \in Nodes : PollOK(a)'
  <2>1. poll[n] \in PollRecords /\ poll[n].budget \in 0..SendBudget
    BY <1>0 DEF PollRecords
  <2>2. poll[n].budget - k \in 0..SendBudget
    BY <1>6, <2>1, Limits
  <2>3. PICK r : r = [poll[n] EXCEPT !.budget = poll[n].budget - k]
    OBVIOUS
  <2>4. /\ r \in PollRecords /\ r.todo = poll[n].todo /\ r.out = poll[n].out /\ r.in = poll[n].in
        /\ r.stage = poll[n].stage
    BY <2>1, <2>2, <2>3 DEF PollRecords
  <2>5. poll' = [poll EXCEPT ![n] = r]
    BY <1>4, <2>3
  <2>6. poll' \in [Nodes -> PollRecords] /\ poll'[n] = r /\ \A a \in Nodes : a # n => poll'[a] = poll[a]
    BY <1>0, <2>4, <2>5
  <2>7. ASSUME NEW a \in Nodes PROVE PollOK(a)'
    <3>1. CASE a = n
      BY <1>0, <2>4, <2>6, <3>1 DEF PollOK
    <3>2. CASE a # n
      BY <1>0, <2>6, <3>2 DEF PollOK
    <3> QED BY <3>1, <3>2
  <2> QED BY <2>6, <2>7
<1>8. /\ IsTable(wire')
      /\ wire'[n][p] = wire[n][p] \o Frame(Head(output[n][p]), front_offset[n][p] + 1,
                                           front_offset[n][p] + k)
      /\ \A a \in Nodes : \A b \in Peers(a) : a # n \/ b # p => wire'[a][b] = wire[a][b]
  <2>1. PICK e : e = wire[n][p] \o Frame(Head(output[n][p]), front_offset[n][p] + 1,
                                         front_offset[n][p] + k)
    OBVIOUS
  <2>2. IsTable(wire) /\ wire' = Put(wire, n, p, e)
    BY <1>4, <2>1 DEF IInv, ShapeOK
  <2>3. /\ IsTable(wire') /\ wire'[n][p] = e
        /\ \A a \in Nodes : \A b \in Peers(a) : a # n \/ b # p => wire'[a][b] = wire[a][b]
    BY <1>2, <2>2, TableUpdate
  <2> QED BY <2>1, <2>3
<1>9. /\ IsTable(queued_bytes') /\ queued_bytes'[n][p] = queued_bytes[n][p] - k
      /\ \A a \in Nodes : \A b \in Peers(a) :
            a # n \/ b # p => queued_bytes'[a][b] = queued_bytes[a][b]
  BY <1>2, <1>4, TableUpdate DEF IInv, ShapeOK
<1>10. /\ IsTable(output') /\ IsTable(front_offset')
       /\ \A a \in Nodes : \A b \in Peers(a) :
             a # n \/ b # p => output'[a][b] = output[a][b] /\ front_offset'[a][b] = front_offset[a][b]
       /\ IF front_offset[n][p] + k = Head(output[n][p]).size
          THEN output'[n][p] = Tail(output[n][p]) /\ front_offset'[n][p] = 0
          ELSE output'[n][p] = output[n][p] /\ front_offset'[n][p] = front_offset[n][p] + k
  <2>1. IsTable(output) /\ IsTable(front_offset)
    BY DEF IInv, ShapeOK
  <2>2. CASE front_offset[n][p] + k = Head(output[n][p]).size
    <3>1. PICK e : e = Tail(output[n][p])
      OBVIOUS
    <3>2. output' = Put(output, n, p, e) /\ front_offset' = Put(front_offset, n, p, 0)
      BY <1>4, <2>2, <3>1 DEF AfterSend, Put
    <3>3. /\ IsTable(output') /\ output'[n][p] = e
          /\ \A a \in Nodes : \A b \in Peers(a) : a # n \/ b # p => output'[a][b] = output[a][b]
      BY <1>2, <2>1, <3>2, TableUpdate
    <3>4. /\ IsTable(front_offset') /\ front_offset'[n][p] = 0
          /\ \A a \in Nodes : \A b \in Peers(a) :
                a # n \/ b # p => front_offset'[a][b] = front_offset[a][b]
      BY <1>2, <2>1, <3>2, TableUpdate
    <3> QED BY <2>2, <3>1, <3>3, <3>4
  <2>3. CASE front_offset[n][p] + k # Head(output[n][p]).size
    <3>1. PICK e : e = front_offset[n][p] + k
      OBVIOUS
    <3>2. output' = output /\ front_offset' = Put(front_offset, n, p, e)
      BY <1>4, <2>3, <3>1 DEF AfterSend, Put
    <3>3. /\ IsTable(front_offset') /\ front_offset'[n][p] = e
          /\ \A a \in Nodes : \A b \in Peers(a) :
                a # n \/ b # p => front_offset'[a][b] = front_offset[a][b]
      BY <1>2, <2>1, <3>2, TableUpdate
    <3> QED BY <2>1, <2>3, <3>1, <3>2, <3>3
  <2> QED BY <2>2, <2>3
<1>11. ShapeOK'
  <2>1. IsTable(wire)' /\ IsTable(queued_bytes)' /\ IsTable(output)' /\ IsTable(front_offset)'
    BY <1>8, <1>9, <1>10 DEF IsTable
  <2>2. IsTable(input)' /\ IsTable(sent)' /\ IsTable(delivered)'
    BY <1>3 DEF IInv, ShapeOK, IsTable
  <2> QED BY <1>0, <1>3, <1>7, <2>1, <2>2 DEF ShapeOK
<1>12. ChannelOK(n, p)' /\ wire'[n][p] # << >>
  BY <1>2, <1>3, <1>6, <1>8, <1>9, <1>10, SendChannel
<1>13. \A a \in Nodes : Stays(a)
  BY <1>3 DEF Stays
<1>14. ASSUME NEW a \in Nodes, NEW b \in Peers(a), a # n \/ b # p
       PROVE  /\ output'[a][b] = output[a][b] /\ front_offset'[a][b] = front_offset[a][b]
              /\ queued_bytes'[a][b] = queued_bytes[a][b] /\ sent'[a][b] = sent[a][b]
              /\ wire'[a][b] = wire[a][b] /\ input'[b][a] = input[b][a]
              /\ delivered'[a][b] = delivered[a][b]
  <2>1. wire'[a][b] = wire[a][b] /\ queued_bytes'[a][b] = queued_bytes[a][b]
    BY <1>8, <1>9, <1>14
  <2>2. output'[a][b] = output[a][b] /\ front_offset'[a][b] = front_offset[a][b]
    BY <1>10, <1>14
  <2> QED BY <1>3, <2>1, <2>2
<1>15. \A a \in Nodes : PollOK(a)' /\ status'[a] # "frame" /\ Stays(a)
  BY <1>0, <1>3, <1>7, <1>13
<1>16. IInv'
  BY <1>2, <1>11, <1>12, <1>14, <1>15, OneChannel
<1>17. ASSUME NEW a \in Nodes, NEW b \in Peers(a), wire[a][b] # << >> PROVE wire'[a][b] # << >>
  <2>1. CASE a = n /\ b = p
    BY <1>12, <2>1
  <2>2. CASE a # n \/ b # p
    BY <1>14, <1>17, <2>2
  <2> QED BY <2>1, <2>2
<1> QED BY <1>16, <1>17

\* The first k bytes under way arrive.
LEMMA ReceiveChannel ==
    ASSUME IInv, NEW n \in Nodes, NEW p \in Peers(n), NEW k \in Nat, k =< Len(wire[n][p]),
           status'[n] = status[n], UNCHANGED <<output, front_offset, queued_bytes, sent, delivered>>,
           input'[p][n] = input[p][n] \o SubSeq(wire[n][p], 1, k),
           wire'[n][p] = SubSeq(wire[n][p], k + 1, Len(wire[n][p]))
    PROVE  ChannelOK(n, p)'
<1>1. SentOK(n, p) /\ OutputOK(n, p) /\ StreamOK(n, p)
  BY DEF IInv, ChannelOK
<1>2. SentOK(n, p)' /\ OutputOK(n, p)'
  BY <1>1 DEF SentOK, OutputOK
<1>3. PICK S, c, i, w : /\ S = Bytes(n, p, Len(sent[n][p])) /\ c = StartPos(n, p)
                        /\ i = input[p][n] /\ w = wire[n][p]
  OBVIOUS
<1>4. /\ i \in Seq(S) /\ w \in Seq(S) /\ Chain(c, i) /\ Chain(EndOf(c, i), w)
      /\ Len(w) =< SocketCapacity /\ delivered[n][p] \in Seq(Sized)
      /\ status[n] \in {"ok", "done"} => EndOf(EndOf(c, i), w) = SendPos(n, p)
  BY <1>1, <1>3 DEF StreamOK
<1>5. Legal(S)
  <2>1. Len(sent[n][p]) =< Len(Workload[n][p]) /\ Len(sent[n][p]) \in Nat
    BY <1>1, LenProperties DEF SentOK
  <2> QED BY <1>3, <2>1, BytesLegal
<1>6. PICK a, b, d : a = SubSeq(w, 1, k) /\ b = SubSeq(w, k + 1, Len(w)) /\ d = EndOf(c, i)
  OBVIOUS
<1>7. /\ a \in Seq(S) /\ b \in Seq(S) /\ Len(b) = Len(w) - k
      /\ Chain(d, a) /\ Chain(EndOf(d, a), b) /\ EndOf(EndOf(d, a), b) = EndOf(d, w)
  <2>1. Len(w) \in Nat /\ k \in 0..Len(w)
    BY <1>3, <1>4, LenProperties
  <2> QED BY <1>4, <1>6, <2>1, ChainSplit
<1>8. Chain(c, i \o a) /\ EndOf(c, i \o a) = EndOf(d, a)
  <2>1. Chain(EndOf(c, i), a) /\ a \in Seq(S) /\ i \in Seq(S) /\ Chain(c, i)
    BY <1>4, <1>6, <1>7
  <2>2. Chain(c, i \o a) /\ EndOf(c, i \o a) = EndOf(EndOf(c, i), a)
    BY <1>5, <2>1, ChainConcat
  <2> QED BY <1>6, <2>2
<1>9. i \o a \in Seq(S)
  BY <1>4, <1>7
<1>10. Len(b) =< SocketCapacity
  <2>1. Len(w) \in Nat
    BY <1>4, LenProperties
  <2> QED BY <1>4, <1>7, <2>1, Limits
<1>11. input'[p][n] = i \o a /\ wire'[n][p] = b
  BY <1>3, <1>6
<1>12. StartPos(n, p)' = c /\ SendPos(n, p)' = SendPos(n, p)
  BY <1>3 DEF StartPos, SendPos
<1>13. EndOf(StartPos(n, p), input[p][n])' = EndOf(d, a)
  BY <1>8, <1>11, <1>12 DEF EndOf
<1>14. EndOf(EndOf(StartPos(n, p), input[p][n]), wire[n][p])' = EndOf(EndOf(c, i), w)
  BY <1>6, <1>7, <1>11, <1>13 DEF EndOf
<1>15. Chain(EndOf(StartPos(n, p), input[p][n]), wire[n][p])'
  BY <1>7, <1>11, <1>13 DEF EndOf, Chain, Runs
<1>16. Chain(StartPos(n, p), input[p][n])'
  BY <1>8, <1>11, <1>12 DEF Chain, Runs
<1>17. StreamOK(n, p)'
  <2>1. sent'[n][p] = sent[n][p] /\ delivered'[n][p] = delivered[n][p]
    OBVIOUS
  <2> QED BY <1>3, <1>4, <1>7, <1>9, <1>10, <1>11, <1>12, <1>14, <1>15, <1>16, <2>1 DEF StreamOK
<1> QED BY <1>2, <1>17 DEF ChannelOK

LEMMA ReceiveSomeInv ==
    ASSUME IInv, NEW n \in Nodes, ReceiveSome(n)
    PROVE  IInv'
<1>0. /\ poll \in [Nodes -> PollRecords] /\ status \in [Nodes -> Statuses] /\ gone \subseteq Nodes
      /\ deaths \in 0..MaxDeaths /\ \A a \in Nodes : PollOK(a) /\ status[a] # "frame"
  BY DEF IInv, ShapeOK
<1>1. PICK p : p = Peer(n)
  OBVIOUS
<1>2. p \in Peers(n) /\ p \in Nodes /\ n \in Peers(p)
  BY <1>0, <1>1, PeerIsPeer, Limits DEF ReceiveSome, Up
<1>3. UNCHANGED <<output, front_offset, queued_bytes, status, gone, deaths, sent, delivered>>
  BY DEF ReceiveSome
<1>4. PICK k \in 1..Min({ReceiveBuffer, Len(wire[p][n])}) :
         /\ input' = Put(input, n, p, input[n][p] \o SubSeq(wire[p][n], 1, k))
         /\ wire' = Put(wire, p, n, SubSeq(wire[p][n], k + 1, Len(wire[p][n])))
  BY <1>1 DEF ReceiveSome, Put
<1>5. k \in Nat /\ k =< Len(wire[p][n])
  <2>1. StreamOK(p, n)
    BY <1>2 DEF IInv, ChannelOK
  <2>2. PICK l \in Nat : l = Len(wire[p][n])
    BY <2>1, LenProperties DEF StreamOK
  <2>3. {ReceiveBuffer, l} = {ReceiveBuffer, l, l} /\ ReceiveBuffer \in Int /\ l \in Int
    BY Limits
  <2>4. Min({ReceiveBuffer, l, l}) \in Int /\ Min({ReceiveBuffer, l, l}) =< l
    BY <2>3, MinOfThree
  <2>5. k \in 1..Min({ReceiveBuffer, l, l})
    BY <1>4, <2>2, <2>3
  <2>6. k \in Nat /\ k =< l
    BY <2>4, <2>5
  <2> QED BY <2>2, <2>6
<1>6. poll' \in [Nodes -> PollRecords] /\ \A a \in Nodes : PollOK(a)'
  BY PollStage DEF ReceiveSome, Up
<1>7. /\ IsTable(input') /\ input'[n][p] = input[n][p] \o SubSeq(wire[p][n], 1, k)
      /\ \A a \in Nodes : \A b \in Peers(a) : a # n \/ b # p => input'[a][b] = input[a][b]
  <2>1. PICK e : e = input[n][p] \o SubSeq(wire[p][n], 1, k)
    OBVIOUS
  <2>2. IsTable(input) /\ input' = Put(input, n, p, e)
    BY <1>4, <2>1 DEF IInv, ShapeOK
  <2>3. /\ IsTable(input') /\ input'[n][p] = e
        /\ \A a \in Nodes : \A b \in Peers(a) : a # n \/ b # p => input'[a][b] = input[a][b]
    BY <1>2, <2>2, TableUpdate
  <2> QED BY <2>1, <2>3
<1>8. /\ IsTable(wire') /\ wire'[p][n] = SubSeq(wire[p][n], k + 1, Len(wire[p][n]))
      /\ \A a \in Nodes : \A b \in Peers(a) : a # p \/ b # n => wire'[a][b] = wire[a][b]
  <2>1. PICK e : e = SubSeq(wire[p][n], k + 1, Len(wire[p][n]))
    OBVIOUS
  <2>2. IsTable(wire) /\ wire' = Put(wire, p, n, e)
    BY <1>4, <2>1 DEF IInv, ShapeOK
  <2>3. /\ IsTable(wire') /\ wire'[p][n] = e
        /\ \A a \in Nodes : \A b \in Peers(a) : a # p \/ b # n => wire'[a][b] = wire[a][b]
    BY <1>2, <2>2, TableUpdate
  <2> QED BY <2>1, <2>3
<1>9. ShapeOK'
  <2>1. IsTable(wire)' /\ IsTable(input)'
    BY <1>7, <1>8 DEF IsTable
  <2>2. /\ IsTable(output)' /\ IsTable(front_offset)' /\ IsTable(queued_bytes)' /\ IsTable(sent)'
        /\ IsTable(delivered)'
    BY <1>3 DEF IInv, ShapeOK, IsTable
  <2> QED BY <1>0, <1>3, <1>6, <2>1, <2>2 DEF ShapeOK
<1>10. ChannelOK(p, n)'
  <2>1. status'[p] = status[p]
    BY <1>3
  <2> QED BY <1>2, <1>3, <1>5, <1>7, <1>8, <2>1, ReceiveChannel
<1>11. ASSUME NEW a \in Nodes, NEW b \in Peers(a), a # p \/ b # n
       PROVE  /\ output'[a][b] = output[a][b] /\ front_offset'[a][b] = front_offset[a][b]
              /\ queued_bytes'[a][b] = queued_bytes[a][b] /\ sent'[a][b] = sent[a][b]
              /\ wire'[a][b] = wire[a][b] /\ input'[b][a] = input[b][a]
              /\ delivered'[a][b] = delivered[a][b]
  BY <1>3, <1>7, <1>8, <1>11, Limits
<1> QED BY <1>0, <1>2, <1>3, <1>6, <1>9, <1>10, <1>11, OneChannel DEF Stays

\* A complete frame of the input is the next message that was queued.
LEMMA NextFrame ==
    ASSUME IInv, NEW n \in Nodes, NEW p \in Peers(n), WholeFrame(input[p][n])
    PROVE  LET bytes == input[p][n]
               m == bytes[1].message
           IN  /\ Decodes(bytes)
               /\ Len(delivered[n][p]) + 1 \in 1..Len(sent[n][p])
               /\ m = Numbered(n, p, Len(delivered[n][p]) + 1) /\ m \in Sized
               /\ m.size \in 0..Len(bytes)
               /\ \A c : EndOf(c, SubSeq(bytes, 1, m.size)) = <<Len(delivered[n][p]) + 2, 1>>
<1>1. SentOK(n, p) /\ StreamOK(n, p)
  BY DEF IInv, ChannelOK
<1>2. PICK S, d, s, l : /\ S = Bytes(n, p, l) /\ d = Len(delivered[n][p]) /\ s = input[p][n]
                        /\ l = Len(sent[n][p])
  OBVIOUS
<1>3. PICK m : m = s[1].message
  OBVIOUS
<1>4. /\ s \in Seq(S) /\ Chain(<<d + 1, 1>>, s) /\ d \in Nat /\ s # << >> /\ Len(s) >= s[1].message.size
  BY <1>1, <1>2, LenProperties DEF StreamOK, StartPos, WholeFrame
<1>5. l \in Nat /\ l =< Len(Workload[n][p])
  BY <1>1, <1>2, LenProperties DEF SentOK
<1>6. Legal(S) /\ \A b \in S : \E i \in 1..l : b.message = Numbered(n, p, i)
  BY <1>2, <1>5, BytesLegal
<1>7. /\ m.number = d + 1 /\ m.size \in 1..Len(s)
      /\ SubSeq(s, 1, m.size) = Frame(m, 1, m.size)
      /\ \A c : EndOf(c, SubSeq(s, 1, m.size)) = <<(d + 1) + 1, 1>>
  BY <1>3, <1>4, <1>6, WholeFrameChain
<1>8. Len(s) \in Nat /\ s[1] \in S
  BY <1>4, LenProperties, ElementOfSeq, EmptySeq
<1>9. PICK i \in 1..l : m = Numbered(n, p, i)
  BY <1>3, <1>6, <1>8
<1>10. i \in 1..Len(Workload[n][p])
  <2>1. Workload[n][p] \in Seq(Nat \ {0})
    BY TransportAssumption DEF Peers
  <2>2. Len(Workload[n][p]) \in Nat
    BY <2>1, LenProperties
  <2> QED BY <1>5, <2>2
<1>11. m \in Sized /\ m.number = i
  BY <1>9, <1>10, NumberedSized
<1>12. i = d + 1
  BY <1>7, <1>11
<1>13. Decodes(s)
  BY <1>3, <1>4, <1>7 DEF Decodes
<1>14. m.size \in 0..Len(s) /\ (d + 1) + 1 = d + 2
  BY <1>4, <1>7, <1>8
<1> QED BY <1>2, <1>3, <1>7, <1>9, <1>11, <1>12, <1>13, <1>14

LEMMA DecodeInv ==
    ASSUME IInv, NEW n \in Nodes, Decode(n)
    PROVE  IInv'
<1>0. /\ poll \in [Nodes -> PollRecords] /\ status \in [Nodes -> Statuses] /\ gone \subseteq Nodes
      /\ deaths \in 0..MaxDeaths /\ \A a \in Nodes : PollOK(a) /\ status[a] # "frame"
  BY DEF IInv, ShapeOK
<1>1. PICK p : p = Peer(n)
  OBVIOUS
<1>2. p \in Peers(n) /\ p \in Nodes /\ n \in Peers(p)
  BY <1>0, <1>1, PeerIsPeer, Limits DEF Decode, Up
<1>3. PICK s, d, m : s = input[n][p] /\ d = delivered[p][n] /\ m = s[1].message
  OBVIOUS
<1>4. /\ Decodes(s) /\ m \in Sized /\ m.size \in 0..Len(s)
      /\ \A c : EndOf(c, SubSeq(s, 1, m.size)) = <<Len(d) + 2, 1>>
  BY <1>1, <1>2, <1>3, NextFrame DEF Decode
<1>5. /\ input' = Put(input, n, p, AfterFrame(s, m.size))
      /\ delivered' = Put(delivered, p, n, Append(d, m))
      /\ Stage(n, "callback")
      /\ UNCHANGED <<status, output, front_offset, queued_bytes, wire, gone, deaths, sent>>
  BY <1>1, <1>3, <1>4 DEF Decode, Put
<1>6. poll' \in [Nodes -> PollRecords] /\ \A a \in Nodes : PollOK(a)'
  BY <1>5, PollStage DEF Decode, Up
<1>7. /\ IsTable(input') /\ input'[n][p] = AfterFrame(s, m.size)
      /\ \A a \in Nodes : \A b \in Peers(a) : a # n \/ b # p => input'[a][b] = input[a][b]
  <2>1. IsTable(input)
    BY DEF IInv, ShapeOK
  <2> QED BY <1>2, <1>5, <2>1, TableUpdate
<1>8. /\ IsTable(delivered') /\ delivered'[p][n] = Append(d, m)
      /\ \A a \in Nodes : \A b \in Peers(a) : a # p \/ b # n => delivered'[a][b] = delivered[a][b]
  <2>1. PICK e : e = Append(d, m)
    OBVIOUS
  <2>2. IsTable(delivered) /\ delivered' = Put(delivered, p, n, e)
    BY <1>5, <2>1 DEF IInv, ShapeOK
  <2>3. /\ IsTable(delivered') /\ delivered'[p][n] = e
        /\ \A a \in Nodes : \A b \in Peers(a) : a # p \/ b # n => delivered'[a][b] = delivered[a][b]
    BY <1>2, <2>2, TableUpdate
  <2> QED BY <2>1, <2>3
<1>9. ShapeOK'
  <2>1. IsTable(delivered)' /\ IsTable(input)'
    BY <1>7, <1>8 DEF IsTable
  <2>2. /\ IsTable(output)' /\ IsTable(front_offset)' /\ IsTable(queued_bytes)' /\ IsTable(sent)'
        /\ IsTable(wire)'
    BY <1>5 DEF IInv, ShapeOK, IsTable
  <2> QED BY <1>0, <1>5, <1>6, <2>1, <2>2 DEF ShapeOK
<1>10. SentOK(p, n) /\ OutputOK(p, n) /\ StreamOK(p, n)
  BY <1>2 DEF IInv, ChannelOK
<1>11. SentOK(p, n)' /\ OutputOK(p, n)'
  BY <1>5, <1>10 DEF SentOK, OutputOK
<1>12. StreamOK(p, n)'
  <2>1. PICK S, c, w : /\ S = Bytes(p, n, Len(sent[p][n])) /\ c = StartPos(p, n) /\ w = wire[p][n]
    OBVIOUS
  <2>2. /\ s \in Seq(S) /\ w \in Seq(S) /\ Chain(c, s) /\ Chain(EndOf(c, s), w)
        /\ Len(w) =< SocketCapacity /\ d \in Seq(Sized)
        /\ status[p] \in {"ok", "done"} => EndOf(EndOf(c, s), w) = SendPos(p, n)
    BY <1>3, <1>10, <2>1 DEF StreamOK
  <2>3. PICK a, b : a = SubSeq(s, 1, m.size) /\ b = AfterFrame(s, m.size)
    OBVIOUS
  <2>4. PICK e : e = <<Len(d) + 2, 1>>
    OBVIOUS
  <2>5. b \in Seq(S) /\ Chain(EndOf(c, a), b) /\ EndOf(EndOf(c, a), b) = EndOf(c, s)
    <3>1. PICK k \in 0..Len(s) : k = m.size
      BY <1>4
    <3>2. LET x == SubSeq(s, 1, k)
              y == SubSeq(s, k + 1, Len(s))
          IN  y \in Seq(S) /\ Chain(EndOf(c, x), y) /\ EndOf(EndOf(c, x), y) = EndOf(c, s)
      BY <2>2, ChainSplit
    <3> QED BY <2>3, <3>1, <3>2 DEF AfterFrame
  <2>6. EndOf(c, a) = e
    BY <1>4, <2>3, <2>4
  <2>7. Append(d, m) \in Seq(Sized) /\ Len(Append(d, m)) = Len(d) + 1 /\ Len(d) \in Nat
    BY <1>4, <2>2, AppendProperties, LenProperties
  <2>8. StartPos(p, n)' = e
    <3>1. (Len(d) + 1) + 1 = Len(d) + 2
      BY <2>7
    <3> QED BY <1>8, <2>4, <2>7, <3>1 DEF StartPos
  <2>9. /\ input'[n][p] = b /\ wire'[p][n] = w /\ delivered'[p][n] = Append(d, m)
        /\ sent'[p][n] = sent[p][n] /\ status'[p] = status[p] /\ SendPos(p, n)' = SendPos(p, n)
    BY <1>5, <1>7, <1>8, <2>1, <2>3 DEF SendPos
  <2>10. EndOf(StartPos(p, n), input[n][p])' = EndOf(c, s)
    BY <2>5, <2>6, <2>8, <2>9 DEF EndOf
  <2>11. EndOf(EndOf(StartPos(p, n), input[n][p]), wire[p][n])' = EndOf(EndOf(c, s), w)
    BY <2>9, <2>10 DEF EndOf
  <2>12. Chain(EndOf(StartPos(p, n), input[n][p]), wire[p][n])'
    BY <2>2, <2>9, <2>10 DEF EndOf, Chain, Runs
  <2>13. Chain(StartPos(p, n), input[n][p])'
    BY <2>5, <2>6, <2>8, <2>9 DEF Chain, Runs
  <2> QED BY <2>1, <2>2, <2>5, <2>7, <2>9, <2>11, <2>12, <2>13 DEF StreamOK
<1>13. ChannelOK(p, n)'
  BY <1>11, <1>12 DEF ChannelOK
<1>14. ASSUME NEW a \in Nodes, NEW b \in Peers(a), a # p \/ b # n
       PROVE  /\ output'[a][b] = output[a][b] /\ front_offset'[a][b] = front_offset[a][b]
              /\ queued_bytes'[a][b] = queued_bytes[a][b] /\ sent'[a][b] = sent[a][b]
              /\ wire'[a][b] = wire[a][b] /\ input'[b][a] = input[b][a]
              /\ delivered'[a][b] = delivered[a][b]
  BY <1>5, <1>7, <1>8, <1>14, Limits
<1> QED BY <1>0, <1>2, <1>5, <1>6, <1>9, <1>13, <1>14, OneChannel DEF Stays

\* Nothing follows the last frame of a workload.
LEMMA NothingBeyond ==
    ASSUME IInv, NEW n \in Nodes, NEW p \in Peers(n),
           Len(delivered[n][p]) = Len(Workload[n][p])
    PROVE  input[p][n] = << >> /\ wire[n][p] = << >>
<1>1. SentOK(n, p) /\ StreamOK(n, p)
  BY DEF IInv, ChannelOK
<1>2. PICK S, l, k : S = Bytes(n, p, l) /\ l = Len(sent[n][p]) /\ k = Len(Workload[n][p])
  OBVIOUS
<1>3. l \in Nat /\ l =< k /\ k \in Nat
  <2>1. Workload[n][p] \in Seq(Nat \ {0})
    BY TransportAssumption DEF Peers
  <2> QED BY <1>1, <1>2, <2>1, LenProperties DEF SentOK
<1>4. ASSUME NEW s \in Seq(S), Chain(<<k + 1, 1>>, s) PROVE s = << >>
  <2> SUFFICES ASSUME s # << >> PROVE FALSE
    OBVIOUS
  <2>1. s[1] \in S /\ s[1].message.number = k + 1
    <3>1. Len(s) \in Nat /\ Len(s) # 0
      BY LenProperties, EmptySeq
    <3>2. s[1] \in S
      BY <3>1, ElementOfSeq
    <3> QED BY <1>4, <3>2 DEF Chain, Pos
  <2>2. PICK i \in 1..l : s[1].message = Numbered(n, p, i)
    BY <1>2, <1>3, <2>1, BytesLegal
  <2>3. i \in 1..k
    BY <1>3
  <2>4. s[1].message.number = i
    BY <1>2, <2>2, <2>3, NumberedSized
  <2> QED BY <1>3, <2>1, <2>3, <2>4
<1>5. StartPos(n, p) = <<k + 1, 1>>
  BY <1>2 DEF StartPos
<1>6. input[p][n] = << >>
  BY <1>1, <1>2, <1>4, <1>5 DEF StreamOK
<1>7. wire[n][p] = << >>
  BY <1>1, <1>2, <1>4, <1>5, <1>6 DEF StreamOK, EndOf
<1> QED BY <1>6, <1>7

LEMMA SubSeqAll == ASSUME NEW S, NEW s \in Seq(S) PROVE SubSeq(s, 1, Len(s)) = s
  BY LenProperties

\* A process that has returned has read all there was: its sockets close in
\* order, and nothing it sent is lost.
LEMMA CloseSocketsInv ==
    ASSUME IInv, Ends, NEW n \in Nodes, CloseSockets(n)
    PROVE  IInv' /\ \A a \in Nodes : \A b \in Peers(a) :
                       status[a] \in {"ok", "done"} => wire'[a][b] = wire[a][b]
<1>0. /\ poll \in [Nodes -> PollRecords] /\ status \in [Nodes -> Statuses] /\ gone \subseteq Nodes
      /\ deaths \in 0..MaxDeaths /\ \A a \in Nodes : PollOK(a) /\ status[a] # "frame"
  BY DEF IInv, ShapeOK
<1>1. /\ status[n] # "ok" /\ gone' = gone \cup {n}
      /\ UNCHANGED <<poll, output, front_offset, queued_bytes, input, status, deaths, sent, delivered>>
  BY DEF CloseSockets, channel
<1>2. PICK kept \in [Peers(n) -> 0..SocketCapacity] :
         /\ \A p \in Peers(n) :
               kept[p] \in IF wire[p][n] = << >> THEN {Len(wire[n][p])} ELSE 0..Len(wire[n][p])
         /\ wire' = [wire EXCEPT ![n] = [p \in Peers(n) |-> SubSeq(wire[n][p], 1, kept[p])]]
  BY DEF CloseSockets
<1>3. IsTable(wire)
  BY DEF IInv, ShapeOK
<1>4. /\ IsTable(wire') /\ \A p \in Peers(n) : wire'[n][p] = SubSeq(wire[n][p], 1, kept[p])
      /\ \A a \in Nodes : a # n => wire'[a] = wire[a]
  <2>1. PICK e : e = [p \in Peers(n) |-> SubSeq(wire[n][p], 1, kept[p])]
    OBVIOUS
  <2>2. wire' = [wire EXCEPT ![n] = e]
    BY <1>2, <2>1
  <2>3. wire' = [a \in Nodes |-> IF a = n THEN e ELSE wire[a]]
    BY <1>3, <2>2 DEF IsTable
  <2>4. e = [p \in Peers(n) |-> e[p]]
    BY <2>1
  <2>5. \A p \in Peers(n) : e[p] = SubSeq(wire[n][p], 1, kept[p])
    BY <2>1
  <2>6. wire'[n] = e /\ \A a \in Nodes : a # n => wire'[a] = wire[a]
    BY <2>3
  <2>7. wire' = [a \in Nodes |-> wire'[a]]
    BY <2>3
  <2>8. ASSUME NEW a \in Nodes PROVE wire'[a] = [p \in Peers(a) |-> wire'[a][p]]
    <3>1. CASE a = n
      BY <2>4, <2>6, <3>1
    <3>2. CASE a # n
      BY <1>3, <2>6, <3>2 DEF IsTable
    <3> QED BY <3>1, <3>2
  <2>9. IsTable(wire')
    BY <2>7, <2>8 DEF IsTable
  <2> QED BY <2>5, <2>6, <2>9
<1>5. ShapeOK'
  <2>1. IsTable(wire)'
    BY <1>4 DEF IsTable
  <2>2. /\ IsTable(output)' /\ IsTable(front_offset)' /\ IsTable(queued_bytes)' /\ IsTable(sent)'
        /\ IsTable(input)' /\ IsTable(delivered)'
    BY <1>1 DEF IInv, ShapeOK, IsTable
  <2> QED BY <1>0, <1>1, <2>1, <2>2 DEF ShapeOK
<1>6. ASSUME NEW a \in Nodes, NEW b \in Peers(a)
      PROVE  ChannelOK(a, b)' /\ (status[a] \in {"ok", "done"} => wire'[a][b] = wire[a][b])
  <2>1. SentOK(a, b) /\ OutputOK(a, b) /\ StreamOK(a, b) /\ ChannelOK(a, b)
    BY DEF IInv, ChannelOK
  <2>2. CASE a # n
    <3>1. wire'[a][b] = wire[a][b]
      BY <1>4, <2>2
    <3> QED BY <1>1, <2>1, <3>1, ChannelFrame
  <2>4. CASE a = n /\ status[n] = "done"
    <3>1. Len(delivered[b][a]) = Len(Workload[b][a]) /\ b \in Nodes /\ a \in Peers(b)
      BY <2>4, Limits DEF Ends, Finished
    <3>2. wire[b][a] = << >>
      BY <3>1, NothingBeyond
    <3>3. kept[b] = Len(wire[a][b])
      BY <1>2, <2>4, <3>2
    <3>4. wire'[a][b] = wire[a][b]
      BY <1>4, <2>1, <2>4, <3>3, SubSeqAll DEF StreamOK
    <3> QED BY <1>1, <2>1, <3>4, ChannelFrame
  <2>3. CASE a = n /\ status[n] # "done"
    <3>1. SentOK(a, b)' /\ OutputOK(a, b)'
      BY <1>1, <2>1 DEF SentOK, OutputOK
    <3>2. PICK S, c, w, k : /\ S = Bytes(a, b, Len(sent[a][b])) /\ w = wire[a][b] /\ k = kept[b]
                            /\ c = EndOf(StartPos(a, b), input[b][a])
      OBVIOUS
    <3>3. w \in Seq(S) /\ Chain(c, w) /\ Len(w) =< SocketCapacity /\ Len(w) \in Nat
      BY <2>1, <3>2, LenProperties DEF StreamOK
    <3>4. k \in 0..Len(w)
      <4>1. k \in IF wire[b][a] = << >> THEN {Len(w)} ELSE 0..Len(w)
        BY <1>2, <2>3, <3>2
      <4> QED BY <3>3, <4>1
    <3>5. PICK x : x = SubSeq(w, 1, k)
      OBVIOUS
    <3>6. x \in Seq(S) /\ Len(x) = k /\ Chain(c, x)
      BY <3>3, <3>4, <3>5, ChainSplit
    <3>7. Len(x) =< SocketCapacity
      BY <3>3, <3>4, <3>6, Limits
    <3>8. wire'[a][b] = x
      BY <1>4, <2>3, <3>2, <3>5
    <3>9. StartPos(a, b)' = StartPos(a, b) /\ input'[b][a] = input[b][a] /\ sent'[a][b] = sent[a][b]
          /\ delivered'[a][b] = delivered[a][b] 
          /\ status'[a] \notin {"ok", "done"} /\ status[a] \notin {"ok", "done"}
      BY <1>1, <2>3 DEF StartPos
    <3>10. EndOf(StartPos(a, b), input[b][a])' = c
      BY <3>2, <3>9 DEF EndOf
    <3>11. Chain(EndOf(StartPos(a, b), input[b][a]), wire[a][b])'
      BY <3>6, <3>8, <3>10 DEF EndOf, Chain, Runs
    <3>12. Chain(StartPos(a, b), input[b][a])'
      BY <2>1, <3>9 DEF Chain, Runs, StreamOK
    <3>13. StreamOK(a, b)'
      BY <2>1, <3>2, <3>6, <3>7, <3>8, <3>9, <3>11, <3>12 DEF StreamOK
    <3> QED BY <3>1, <3>9, <3>13 DEF ChannelOK
  <2> QED BY <2>2, <2>3, <2>4
<1>7. \A a \in Nodes : PollOK(a)' /\ status'[a] # "frame"
  BY <1>0, <1>1 DEF PollOK
<1> QED BY <1>5, <1>6, <1>7 DEF IInv, Peers

LEMMA NextInv == IInv /\ Ends /\ [Next]_vars => IInv'
<1> SUFFICES ASSUME IInv, Ends, [Next]_vars PROVE IInv'
  OBVIOUS
<1>1. CASE UNCHANGED vars
  <2>1. UNCHANGED <<output, front_offset, queued_bytes, input, wire, sent, delivered, poll, status,
                    gone, deaths>>
    BY <1>1 DEF vars, channel
  <2>2. poll' \in [Nodes -> PollRecords] /\ status' \in [Nodes -> Statuses] /\ gone' \subseteq Nodes
        /\ deaths' \in 0..MaxDeaths
    BY <2>1 DEF IInv, ShapeOK
  <2>3. \A n \in Nodes : PollOK(n)' /\ status'[n] # "frame" /\ Stays(n)
    BY <2>1 DEF IInv, PollOK, Stays
  <2> QED BY <2>1, <2>2, <2>3, ControlStep
<1>2. CASE Next
  <2>1. PICK n \in Nodes : \/ PollStep(n) \/ (\E p \in Peers(n) : Queue(n, p))
                           \/ Return(n) \/ Kill(n) \/ CloseSockets(n)
    BY <1>2 DEF Next
  <2>2. CASE \E p \in Peers(n) : Queue(n, p)
    BY <2>2, QueueInv
  <2>3. CASE SendSome(n)
    BY <2>3, SendSomeInv
  <2>4. CASE ReceiveSome(n)
    BY <2>4, ReceiveSomeInv
  <2>5. CASE Decode(n)
    BY <2>5, DecodeInv
  <2>6. CASE CloseSockets(n)
    BY <2>6, CloseSocketsInv
  <2>7. CASE \/ PollOnce(n) \/ SendEnds(n) \/ SendFails(n) \/ ReceiveFails(n) \/ ReceiveNothing(n)
             \/ CallbackReturns(n) \/ DecodeEnds(n) \/ Return(n) \/ Kill(n)
    BY <2>7, QuietInv
  <2> QED BY <2>1, <2>2, <2>3, <2>4, <2>5, <2>6, <2>7 DEF PollStep
<1> QED BY <1>1, <1>2

LEMMA EndsStep == IInv /\ Ends /\ [Next]_vars => Ends'
<1> SUFFICES ASSUME IInv, Ends, [Next]_vars, NEW a \in Nodes
             PROVE  (status'[a] = "done" => Finished(a)') /\ (a \in gone' => status'[a] # "ok")
  BY DEF Ends
<1>1. (status[a] = "done" => Finished(a)) /\ (a \in gone => status[a] # "ok")
  BY DEF Ends
<1>2. /\ status \in [Nodes -> Statuses] /\ IsTable(sent) /\ IsTable(output) /\ IsTable(delivered)
  BY DEF IInv, ShapeOK
<1>3. CASE UNCHANGED vars
  BY <1>1, <1>3 DEF vars, channel, Finished, Drained
<1>4. CASE Next
  <2>1. PICK n \in Nodes : \/ PollStep(n) \/ (\E p \in Peers(n) : Queue(n, p))
                           \/ Return(n) \/ Kill(n) \/ CloseSockets(n)
    BY <1>4 DEF Next
  <2>2. CASE CloseSockets(n)
    <3>1. /\ status[n] # "ok" /\ gone' = gone \cup {n} /\ UNCHANGED <<sent, output, delivered, status>>
      BY <2>2 DEF CloseSockets, channel
    <3> QED BY <1>1, <3>1 DEF Finished, Drained
  <2>3. CASE Return(n)
    <3>1. /\ Finished(n) /\ UNCHANGED <<sent, output, delivered, gone>>
          /\ status' = [status EXCEPT ![n] = "done"]
      BY <2>3 DEF Return, channel, Fail
    <3>2. CASE a = n
      BY <1>2, <3>1, <3>2 DEF Finished, Drained
    <3>3. CASE a # n
      <4>1. status'[a] = status[a]
        BY <1>2, <3>1, <3>3
      <4> QED BY <1>1, <3>1, <4>1 DEF Finished, Drained
    <3> QED BY <3>2, <3>3
  <2>4. ASSUME status[n] = "ok", gone' = gone, status'[n] # "done",
               \A b \in Nodes : b # n => status'[b] = status[b],
               \A b \in Nodes : b # n => \A p \in Peers(b) :
                   /\ sent'[b][p] = sent[b][p] /\ output'[b][p] = output[b][p]
                   /\ delivered'[p][b] = delivered[p][b]
        PROVE  (status'[a] = "done" => Finished(a)') /\ (a \in gone' => status'[a] # "ok")
    <3>1. CASE a = n
      BY <1>1, <2>4, <3>1
    <3>2. CASE a # n
      <4>1. status'[a] = status[a]
        BY <2>4, <3>2
      <4>2. ASSUME status[a] = "done" PROVE Finished(a)'
        <5>1. Finished(a)
          BY <1>1, <4>2
        <5>2. ASSUME NEW p \in Peers(a)
              PROVE  /\ Len(sent'[a][p]) = Len(Workload[a][p])
                     /\ Len(delivered'[p][a]) = Len(Workload[p][a]) /\ output'[a][p] = << >>
          BY <2>4, <3>2, <5>1 DEF Finished, Drained
        <5> QED BY <5>2 DEF Finished, Drained
      <4> QED BY <1>1, <2>4, <4>1, <4>2
    <3> QED BY <3>1, <3>2
  <2>6. ASSUME NEW p \in Peers(n), Queue(n, p)
        PROVE  (status'[a] = "done" => Finished(a)') /\ (a \in gone' => status'[a] # "ok")
    <3>1. status[n] = "ok" /\ gone' = gone /\ delivered' = delivered
      BY <2>6 DEF Queue, Up
    <3>2. status'[n] # "done" /\ \A b \in Nodes : b # n => status'[b] = status[b]
      BY <1>2, <2>6, <3>1 DEF Queue, Fail
    <3>3. ASSUME NEW b \in Nodes, b # n PROVE sent'[b] = sent[b] /\ output'[b] = output[b]
      BY <1>2, <2>6, <3>3 DEF Queue, IsTable
    <3> QED BY <2>4, <3>1, <3>2, <3>3
  <2>7. CASE Decode(n)
    <3>1. PICK p : p = Peer(n)
      OBVIOUS
    <3>2. p \in Peers(n) /\ p \in Nodes /\ n \in Peers(p)
      BY <2>7, <3>1, PeerIsPeer, Limits DEF Decode, Up, IInv
    <3>3. /\ status[n] = "ok" /\ gone' = gone /\ sent' = sent /\ output' = output
      BY <2>7 DEF Decode, Up
    <3>4. status'[n] # "done" /\ \A b \in Nodes : b # n => status'[b] = status[b]
      BY <1>2, <2>7, <3>3 DEF Decode, Fail
    <3>5. ASSUME NEW b \in Nodes, b # n, NEW q \in Peers(b) PROVE delivered'[q][b] = delivered[q][b]
      <4>1. PICK e : delivered' = Put(delivered, p, n, e) \/ delivered' = delivered
        BY <2>7, <3>1 DEF Decode, Put
      <4>2. q \in Nodes /\ b \in Peers(q)
        BY Limits
      <4> QED BY <1>2, <3>2, <3>5, <4>1, <4>2, TableUpdate
    <3> QED BY <2>4, <3>3, <3>4, <3>5
  <2>8. CASE SendSome(n)
    <3>1. PICK p, k : p = Peer(n) /\ AfterSend(n, p, k)
      BY <2>8 DEF SendSome
    <3>2. /\ status[n] = "ok" /\ gone' = gone /\ sent' = sent /\ status' = status
          /\ delivered' = delivered
      BY <2>8 DEF SendSome, Up
    <3>3. ASSUME NEW b \in Nodes, b # n PROVE output'[b] = output[b]
      BY <1>2, <3>1, <3>3 DEF AfterSend, IsTable
    <3> QED BY <2>4, <3>2, <3>3
  <2>9. CASE SendFails(n) \/ ReceiveFails(n) \/ Kill(n)
    <3>1. /\ status[n] = "ok" /\ gone' = gone /\ UNCHANGED <<sent, output, delivered>>
      BY <2>9 DEF SendFails, ReceiveFails, Kill, channel, Up
    <3>2. status'[n] # "done" /\ \A b \in Nodes : b # n => status'[b] = status[b]
      BY <1>2, <2>9 DEF SendFails, ReceiveFails, Kill, Fail
    <3> QED BY <2>4, <3>1, <3>2
  <2>10. CASE \/ PollOnce(n) \/ SendEnds(n) \/ ReceiveSome(n) \/ ReceiveNothing(n)
              \/ CallbackReturns(n) \/ DecodeEnds(n)
    <3>1. status[n] = "ok" /\ UNCHANGED <<sent, output, delivered, status, gone>>
      BY <2>10 DEF PollOnce, SendEnds, ReceiveSome, ReceiveNothing, CallbackReturns, DecodeEnds,
                   channel, Up
    <3> QED BY <2>4, <3>1
  <2> QED BY <2>1, <2>2, <2>3, <2>6, <2>7, <2>8, <2>9, <2>10 DEF PollStep
<1> QED BY <1>3, <1>4

(***************************************************************************)
(* The bytes received and not decoded, and those under way, continue the   *)
(* messages delivered; unless a process fails they reach to where its next *)
(* send begins, and a process that returns leaves nothing behind           *)
(* (TcpTransport::PollOnce, Queue).                                        *)
(***************************************************************************)
THEOREM Invariance == Spec => [](IInv /\ Ends)
<1>1. Init => Ends
  BY DEF Init, Ends
<1> QED BY <1>1, InitInv, NextInv, EndsStep, PTL DEF Spec

(***************************************************************************)
(* The count of bytes that limits the output is exact through all partial  *)
(* sends and never above the limit, whatever the sizes of frames, sockets  *)
(* and budgets (Queue, PollOnce).                                          *)
(***************************************************************************)
THEOREM CountExact == Spec => []QueueExact
<1>1. IInv => QueueExact
  BY DEF IInv, ChannelOK, OutputOK, QueueExact
<1> QED BY <1>1, Invariance, PTL

\* What is complete in an input is the message that was queued next.
FramesWhole ==
    \A n \in Nodes : /\ status[n] # "frame"
                     /\ \A p \in Peers(n) :
                           WholeFrame(input[p][n]) =>
                               /\ Decodes(input[p][n])
                               /\ Len(delivered[n][p]) < Len(sent[n][p])
                               /\ input[p][n][1].message = sent[n][p][Len(delivered[n][p]) + 1]

LEMMA InvFrames == IInv => FramesWhole
<1> SUFFICES ASSUME IInv, NEW n \in Nodes, NEW p \in Peers(n), WholeFrame(input[p][n])
             PROVE  /\ Decodes(input[p][n])
                    /\ Len(delivered[n][p]) < Len(sent[n][p])
                    /\ input[p][n][1].message = sent[n][p][Len(delivered[n][p]) + 1]
  BY DEF IInv, FramesWhole
<1>1. PICK d, l : d = Len(delivered[n][p]) /\ l = Len(sent[n][p])
  OBVIOUS
<1>2. SentOK(n, p) /\ StreamOK(n, p)
  BY DEF IInv, ChannelOK
<1>3. d \in Nat /\ l \in Nat
  BY <1>1, <1>2, LenProperties DEF SentOK, StreamOK
<1>4. /\ Decodes(input[p][n]) /\ d + 1 \in 1..l
      /\ input[p][n][1].message = Numbered(n, p, d + 1)
  BY <1>1, NextFrame
<1>5. sent[n][p][d + 1] = Numbered(n, p, d + 1)
  BY <1>1, <1>2, <1>4 DEF SentOK
<1>6. d < l
  BY <1>3, <1>4
<1> QED BY <1>1, <1>4, <1>5, <1>6

(***************************************************************************)
(* No process ever reads a broken frame: what is complete decodes to the   *)
(* message that was queued next, however sends and receives cut it         *)
(* (PollOnce, Decode).                                                     *)
(***************************************************************************)
THEOREM FramesStayWhole == Spec => []FramesWhole
  BY InvFrames, Invariance, PTL

-----------------------------------------------------------------------------
(***************************************************************************)
(* Every step is a step of FIFO channels, or changes nothing they show.    *)
(***************************************************************************)
\* A process that ends, for whatever reason, leaves the channels as they are.
LEMMA FailStep ==
    ASSUME IInv, NEW n \in Nodes, status[n] = "ok", NEW why, why # "ok", Fail(n, why),
           UNCHANGED <<sent, delivered>>
    PROVE  Fifo!Next
<1>1. status \in [Nodes -> Statuses]
  BY DEF IInv, ShapeOK
<1>2. status'[n] = why /\ \A a \in Nodes : a # n => status'[a] = status[a]
  BY <1>1 DEF Fail
<1>3. {a \in Nodes : status'[a] = "ok"} = {a \in Nodes : status[a] = "ok"} \ {n}
  BY <1>2
<1>4. Fifo!Fail(n)
  BY <1>3 DEF Fifo!Fail
<1> QED BY <1>4 DEF Fifo!Next

LEMMA FifoStep == IInv /\ [Next]_vars => [Fifo!Next]_(Fifo!vars)
<1> SUFFICES ASSUME IInv, [Next]_vars PROVE Fifo!Next \/ UNCHANGED <<sent, delivered, status>>
  BY DEF Fifo!vars
<1>1. CASE UNCHANGED vars
  BY <1>1 DEF vars
<1>2. CASE Next
  <2>1. PICK n \in Nodes : \/ PollStep(n) \/ (\E p \in Peers(n) : Queue(n, p))
                           \/ Return(n) \/ Kill(n) \/ CloseSockets(n)
    BY <1>2 DEF Next
  <2>2. ASSUME NEW p \in Peers(n), Queue(n, p) PROVE Fifo!Next \/ UNCHANGED <<sent, delivered, status>>
    <3>1. PICK m : m = Numbered(n, p, Len(sent[n][p]) + 1)
      OBVIOUS
    <3>2. status[n] = "ok" /\ UNCHANGED delivered
      BY <2>2 DEF Queue, Up
    <3>3. CASE Fits(n, p, m.size)
      <4>1. sent' = [sent EXCEPT ![n][p] = Append(@, m)] /\ UNCHANGED status
        BY <2>2, <3>1, <3>3 DEF Queue
      <4>2. m \in Message
        <5>1. Workload[n][p] \in Seq(Nat \ {0}) /\ sent[n][p] \in Seq(Sized)
          BY TransportAssumption DEF Peers, IInv, ChannelOK, SentOK
        <5>2. Len(sent[n][p]) < Len(Workload[n][p])
          BY <2>2 DEF Queue
        <5>3. Len(sent[n][p]) \in Nat /\ Len(Workload[n][p]) \in Nat
          BY <5>1, LenProperties
        <5>4. Len(sent[n][p]) + 1 \in 1..Len(Workload[n][p])
          BY <5>2, <5>3
        <5> QED BY <3>1, <5>4, NumberedSized
      <4>3. Fifo!Send(n, p)
        BY <3>2, <4>1, <4>2 DEF Fifo!Send
      <4> QED BY <4>3 DEF Fifo!Next, Peers
    <3>4. CASE ~Fits(n, p, m.size)
      <4>1. Fail(n, "overflow") /\ UNCHANGED sent
        BY <2>2, <3>1, <3>4 DEF Queue
      <4> QED BY <3>2, <4>1, FailStep
    <3> QED BY <3>3, <3>4
  <2>3. CASE Decode(n)
    <3>1. PICK p : p = Peer(n)
      OBVIOUS
    <3>2. p \in Peers(n) /\ p \in Nodes /\ n \in Peers(p)
      BY <2>3, <3>1, PeerIsPeer, Limits DEF Decode, Up, IInv
    <3>3. PICK m : m = input[n][p][1].message
      OBVIOUS
    <3>4. /\ Decodes(input[n][p]) /\ Len(delivered[p][n]) < Len(sent[p][n])
          /\ m = sent[p][n][Len(delivered[p][n]) + 1]
      BY <2>3, <3>1, <3>2, <3>3, InvFrames DEF Decode, FramesWhole
    <3>5. /\ delivered' = [delivered EXCEPT ![p][n] = Append(@, m)]
          /\ UNCHANGED <<sent, status>> /\ status[n] = "ok"
      BY <2>3, <3>1, <3>3, <3>4 DEF Decode, Up
    <3>6. Fifo!Deliver(p, n)
      BY <3>4, <3>5 DEF Fifo!Deliver
    <3> QED BY <3>2, <3>6 DEF Fifo!Next, Peers
  <2>4. CASE SendFails(n) \/ ReceiveFails(n) \/ Return(n) \/ Kill(n)
    BY <2>4, FailStep DEF SendFails, ReceiveFails, Return, Kill, Up
  <2>5. CASE \/ PollOnce(n) \/ SendSome(n) \/ SendEnds(n) \/ ReceiveSome(n) \/ ReceiveNothing(n)
             \/ CallbackReturns(n) \/ DecodeEnds(n) \/ CloseSockets(n)
    BY <2>5 DEF PollOnce, SendSome, SendEnds, ReceiveSome, ReceiveNothing, CallbackReturns,
                DecodeEnds, CloseSockets
  <2> QED BY <2>1, <2>2, <2>3, <2>4, <2>5 DEF PollStep
<1> QED BY <1>1, <1>2

(***************************************************************************)
(* For any number of processes, any frames and any sizes of the queue, the *)
(* budget, the receive buffer and the sockets, with processes killed at    *)
(* any moment, the transport is FIFO channels (tcp_transport.cpp).         *)
(***************************************************************************)
THEOREM TransportIsFifo == Spec => ImplementsFifo
<1>1. Init => Fifo!Init
  <2> SUFFICES ASSUME Init PROVE Fifo!Init
    OBVIOUS
  <2>1. sent = Fifo!NoMessages /\ delivered = Fifo!NoMessages
    BY DEF Init, ForPeers, Peers, Fifo!NoMessages
  <2>2. {n \in Nodes : status[n] = "ok"} = Nodes
    BY DEF Init
  <2> QED BY <2>1, <2>2 DEF Fifo!Init
<1> QED BY <1>1, FifoStep, Invariance, PTL DEF Spec, ImplementsFifo, Fifo!Spec

-----------------------------------------------------------------------------
(***************************************************************************)
(* Two processes with one connection.  With more, one that is finished     *)
(* closes its sockets while the others still exchange messages, and they   *)
(* take that for a failure (PollOnce fails on the first end of stream).    *)
(***************************************************************************)
Pair == \E x, y : x # y /\ Nodes = {x, y}
Calm == \A n \in Nodes : status[n] \notin {"killed", "overflow"}

\* Outside the decoding loop no whole frame is left in an input, and a peer
\* that poll() reported has sent something.
Reads(n, p) ==
    /\ poll[n].stage \in {"idle", "send", "receive"} => ~WholeFrame(input[n][p])
    /\ poll[n].stage \in {"send", "receive"} /\ p \in poll[n].in => wire[p][n] # << >>

PairInv == Calm => \A n \in Nodes : \A p \in Peers(n) : status[n] # "disconnected" /\ Reads(n, p)

LEMMA PairPeers ==
    ASSUME Pair, NEW n \in Nodes, NEW p \in Peers(n)
    PROVE  Peers(n) = {p} /\ Peers(p) = {n} /\ Nodes = {n, p} /\ n # p
  BY DEF Pair, Peers

\* What p has received in full, n has sent in full.
LEMMA AllSent ==
    ASSUME IInv, NEW n \in Nodes, NEW p \in Peers(n), status[n] \in {"ok", "done"},
           Len(delivered[n][p]) = Len(Workload[n][p])
    PROVE  output[n][p] = << >> /\ Len(sent[n][p]) = Len(Workload[n][p])
<1>1. SentOK(n, p) /\ StreamOK(n, p) /\ OutputOK(n, p)
  BY DEF IInv, ChannelOK
<1>2. PICK o, l, k, f : /\ o = output[n][p] /\ l = Len(sent[n][p]) /\ k = Len(Workload[n][p])
                        /\ f = front_offset[n][p]
  OBVIOUS
<1>3. l \in Nat /\ l =< k /\ k \in Nat /\ Len(o) \in Nat /\ o \in Seq(Sized)
  <2>1. Workload[n][p] \in Seq(Nat \ {0})
    BY TransportAssumption DEF Peers
  <2> QED BY <1>1, <1>2, <2>1, LenProperties DEF SentOK, OutputOK
<1>4. input[p][n] = << >> /\ wire[n][p] = << >>
  BY NothingBeyond
<1>5. StartPos(n, p) = SendPos(n, p)
  BY <1>1, <1>4 DEF StreamOK, EndOf
<1>6. k + 1 = l - Len(o) + 1
  BY <1>2, <1>5 DEF StartPos, SendPos
<1>7. Len(o) = 0 /\ l = k
  BY <1>3, <1>6
<1> QED BY <1>2, <1>3, <1>7, EmptySeq

\* When n has sent all and nothing is under way, p has received all.
LEMMA AllReceived ==
    ASSUME IInv, NEW n \in Nodes, NEW p \in Peers(n), status[n] = "done", output[n][p] = << >>,
           Len(sent[n][p]) = Len(Workload[n][p]), wire[n][p] = << >>, ~WholeFrame(input[p][n])
    PROVE  Len(delivered[n][p]) = Len(Workload[n][p])
<1>1. SentOK(n, p) /\ StreamOK(n, p) /\ OutputOK(n, p)
  BY DEF IInv, ChannelOK
<1>2. PICK S, s, d, k : /\ S = Bytes(n, p, k) /\ s = input[p][n] /\ k = Len(sent[n][p])
                        /\ d = Len(delivered[n][p])
  OBVIOUS
<1>3. k \in Nat /\ d \in Nat /\ s \in Seq(S) /\ Len(s) \in Nat /\ Chain(<<d + 1, 1>>, s)
  BY <1>1, <1>2, LenProperties DEF SentOK, StreamOK, StartPos
<1>4. EndOf(<<d + 1, 1>>, s) = <<k + 1, 1>>
  <2>1. SendPos(n, p) = <<k + 1, 1>>
    <3>1. k - 0 + 1 = k + 1 /\ front_offset[n][p] = 0
      BY <1>1, <1>3 DEF OutputOK
    <3> QED BY <1>2, <3>1 DEF SendPos
  <2> QED BY <1>1, <1>2, <2>1 DEF StreamOK, StartPos, EndOf
<1>5. CASE s = << >>
  <2>1. <<d + 1, 1>> = <<k + 1, 1>>
    BY <1>4, <1>5 DEF EndOf
  <2>2. d + 1 = k + 1
    BY <2>1
  <2> QED BY <1>2, <1>3, <2>2
<1>6. CASE s # << >>
  <2>1. PICK m, x : m = s[1].message /\ x = Len(s)
    OBVIOUS
  <2>2. x # 0 /\ x \in Nat /\ x >= 1
    BY <1>3, <1>6, <2>1, EmptySeq
  <2>3. s[1] \in S /\ Legal(S)
    <3>1. s[1] \in S
      BY <1>3, <2>1, <2>2, ElementOfSeq
    <3> QED BY <1>1, <1>2, <1>3, <3>1, BytesLegal DEF SentOK
  <2>4. m.size \in Nat /\ s[1].at = 1 /\ ~(x >= m.size)
    BY <1>2, <1>3, <1>6, <2>1, <2>3 DEF Legal, Chain, Pos, WholeFrame
  <2>5. s[x] = [message |-> m, at |-> 1 + (x - 1)]
    <3>1. 1 \in 1..x /\ x \in 1..x /\ 1 =< x /\ 1 + (x - 1) =< m.size
      BY <2>2, <2>4
    <3>2. s[1].at + (x - 1) =< s[1].message.size /\ Runs(s)
      BY <1>3, <2>1, <2>4, <3>1 DEF Chain
    <3> QED BY <2>1, <2>4, <3>1, <3>2, RunsTo
  <2>6. s[x].at = x /\ s[x].message = m /\ x # m.size
    BY <2>2, <2>4, <2>5
  <2>7. EndOf(<<d + 1, 1>>, s) = <<m.number, x + 1>>
    BY <1>6, <2>1, <2>6 DEF EndOf, NextPos
  <2>8. x + 1 = 1
    BY <1>4, <2>7
  <2> QED BY <2>2, <2>8
<1> QED BY <1>5, <1>6

\* A peer of a pair that is gone has finished: there is something to read from
\* it until this process has finished, and nothing to send to it.
LEMMA GonePeer ==
    ASSUME IInv, Ends, Pair, Calm, PairInv, NEW n \in Nodes, NEW p \in Peers(n), p \in gone,
           status[n] = "ok"
    PROVE  /\ status[p] = "done" /\ output[n][p] = << >>
           /\ poll[n].stage = "idle" /\ wire[p][n] = << >> => Finished(n)
<1>1. p \in Nodes /\ n \in Peers(p) /\ Peers(n) = {p}
  BY Limits, PairPeers
<1>2. status[p] = "done"
  <2>1. status[p] \in Statuses /\ status[p] # "frame" /\ status[p] # "ok" /\ status[p] # "disconnected"
    BY <1>1 DEF IInv, ShapeOK, Ends, PairInv
  <2> QED BY <1>1, <2>1 DEF Statuses, Calm
<1>3. /\ Len(sent[p][n]) = Len(Workload[p][n]) /\ Len(delivered[n][p]) = Len(Workload[n][p])
      /\ output[p][n] = << >>
  BY <1>1, <1>2 DEF Ends, Finished, Drained
<1>4. output[n][p] = << >> /\ Len(sent[n][p]) = Len(Workload[n][p])
  BY <1>3, AllSent
<1>5. ASSUME poll[n].stage = "idle", wire[p][n] = << >> PROVE Finished(n)
  <2>1. ~WholeFrame(input[n][p])
    BY <1>5 DEF PairInv, Reads
  <2>2. Len(delivered[p][n]) = Len(Workload[p][n])
    BY <1>1, <1>2, <1>3, <1>5, <2>1, AllReceived
  <2> QED BY <1>1, <1>4, <2>2 DEF Finished, Drained
<1> QED BY <1>2, <1>4, <1>5

LEMMA PairStep == Pair /\ IInv /\ Ends /\ PairInv /\ [Next]_vars => PairInv'
<1> SUFFICES ASSUME Pair, IInv, Ends, PairInv, [Next]_vars, Calm', NEW a \in Nodes, NEW b \in Peers(a)
             PROVE  status'[a] # "disconnected" /\ Reads(a, b)'
  BY DEF PairInv, Peers
<1>1. /\ status \in [Nodes -> Statuses] /\ poll \in [Nodes -> PollRecords] /\ IsTable(input)
      /\ IsTable(wire) /\ b \in Nodes /\ a \in Peers(b)
  BY Limits DEF IInv, ShapeOK
<1>2. CASE UNCHANGED vars
  <2>1. Calm
    BY <1>2 DEF vars, Calm
  <2> QED BY <1>2, <2>1 DEF vars, channel, PairInv, Reads
<1>3. CASE Next
  <2>1. PICK n \in Nodes : \/ PollStep(n) \/ (\E p \in Peers(n) : Queue(n, p))
                           \/ Return(n) \/ Kill(n) \/ CloseSockets(n)
    BY <1>3 DEF Next
  <2>2. Calm
    <3>1. ASSUME NEW x \in Nodes PROVE status'[x] = status[x] \/ status[x] = "ok"
      <4>1. status' = status \/ (status[n] = "ok" /\ \E why : status' = [status EXCEPT ![n] = why])
        BY <2>1 DEF PollStep, PollOnce, SendSome, SendEnds, SendFails, ReceiveSome, ReceiveFails,
             ReceiveNothing, Decode, CallbackReturns, DecodeEnds, Queue, Return, Kill, CloseSockets,
             Up, Fail
      <4> QED BY <1>1, <4>1
    <3> QED BY <3>1 DEF Calm
  <2>3. status[a] # "disconnected" /\ Reads(a, b)
    BY <2>2 DEF PairInv
  <2>4. PICK p : p \in Peers(n) /\ Peers(n) = {p} /\ Peers(p) = {n} /\ p \in Nodes /\ n # p
                 /\ Nodes = {n, p}
    <3>1. PICK p : p \in Peers(n)
      BY <1>1 DEF Pair, Peers
    <3> QED BY <3>1, PairPeers, Limits
  <2>5. (a = n /\ b = p) \/ (a = p /\ b = n)
    BY <2>4
  <2>6. poll[n].stage # "idle" => Peer(n) = p /\ poll[n].todo = {p}
    BY <2>4, PeerIsPeer DEF IInv, PollOK
  <2>7. ASSUME status' = status, poll'[a] = poll[a], input'[a][b] = input[a][b],
               wire[b][a] # << >> => wire'[b][a] # << >>
        PROVE  status'[a] # "disconnected" /\ Reads(a, b)'
    BY <2>3, <2>7 DEF Reads
  <2>8. CASE \E q \in Peers(n) : Queue(n, q)
    BY <1>1, <2>3, <2>8 DEF Queue, Fail, Reads
  <2>9. CASE PollOnce(n)
    <3>1. UNCHANGED <<status, input, wire>>
      BY <2>9 DEF PollOnce, channel
    <3>2. CASE a # n
      BY <1>1, <2>7, <2>9, <3>1, <3>2 DEF PollOnce
    <3>3. CASE a = n
      <4>1. poll'[n].stage = "send" /\ (p \in poll'[n].in => wire[p][n] # << >> \/ p \in gone)
        BY <1>1, <2>4, <2>9 DEF PollOnce
      <4>2. p \in poll'[n].in => wire[p][n] # << >>
        BY <2>2, <2>4, <2>9, <4>1, GonePeer DEF PollOnce, Up
      <4>3. ~WholeFrame(input[a][b])
        BY <2>3, <2>9, <3>3 DEF Reads, PollOnce, Up
      <4> QED BY <2>3, <2>5, <3>1, <3>3, <4>2, <4>3 DEF Reads
    <3> QED BY <3>2, <3>3
  <2>10. CASE SendSome(n)
    <3>1. UNCHANGED <<status, input>>
      BY <2>10 DEF SendSome
    <3>2. wire[b][a] # << >> => wire'[b][a] # << >>
      BY <1>1, <2>10, SendSomeInv
    <3>3. poll'[a].stage = poll[a].stage /\ poll'[a].in = poll[a].in
      <4>1. PICK k : poll' = [poll EXCEPT ![n].budget = @ - k]
        BY <2>10 DEF SendSome
      <4>2. poll[a] \in PollRecords
        BY <1>1
      <4> QED BY <1>1, <4>1, <4>2 DEF PollRecords
    <3> QED BY <2>3, <3>1, <3>2, <3>3 DEF Reads
  <2>11. CASE SendEnds(n)
    <3>1. UNCHANGED <<status, input, wire>> /\ poll[n].stage = "send"
      BY <2>11 DEF SendEnds, channel, Up
    <3>2. poll'[a].in = poll[a].in
          /\ (poll'[a].stage = poll[a].stage \/ (a = n /\ poll'[a].stage = "receive"))
      <4>1. poll[a] \in PollRecords
        BY <1>1
      <4> QED BY <1>1, <2>11, <4>1 DEF PollRecords, SendEnds, Stage
    <3> QED BY <2>3, <3>1, <3>2 DEF Reads
  <2>12. CASE SendFails(n)
    <3>1. p \in gone /\ output[n][p] # << >> /\ status[n] = "ok"
      BY <2>6, <2>12 DEF SendFails, CanSend, Up
    <3> QED BY <2>2, <2>4, <3>1, GonePeer
  <2>13. CASE ReceiveSome(n)
    <3>1. UNCHANGED status
      BY <2>13 DEF ReceiveSome
    <3>2. CASE a = n
      <4>1. poll'[n].stage = "decode"
        BY <1>1, <2>13 DEF ReceiveSome, Stage, PollRecords
      <4> QED BY <2>3, <3>1, <3>2, <4>1 DEF Reads
    <3>3. CASE a # n
      <4>1. a = p /\ b = n
        BY <2>5, <3>3
      <4>2. PICK x : wire' = [wire EXCEPT ![p][n] = x]
        BY <2>6, <2>13 DEF ReceiveSome, Up
      <4>3. PICK y : input' = [input EXCEPT ![n][p] = y]
        BY <2>6, <2>13 DEF ReceiveSome, Up
      <4>4. wire'[b] = wire[b] /\ input'[a] = input[a] /\ poll'[a] = poll[a]
        BY <1>1, <2>4, <2>13, <4>1, <4>2, <4>3 DEF IsTable, ReceiveSome, Stage
      <4> QED BY <2>7, <3>1, <4>4
    <3> QED BY <3>2, <3>3
  <2>14. CASE ReceiveFails(n)
    <3>1. p \in poll[n].in /\ wire[p][n] = << >> /\ poll[n].stage = "receive"
      BY <2>6, <2>14 DEF ReceiveFails, Up
    <3> QED BY <2>2, <2>4, <3>1 DEF PairInv, Reads
  <2>15. CASE ReceiveNothing(n) \/ DecodeEnds(n)
    <3>1. UNCHANGED <<status, input, wire>>
      BY <2>15 DEF ReceiveNothing, DecodeEnds, channel
    <3>2. ~WholeFrame(input[n][p])
      BY <2>2, <2>4, <2>6, <2>15 DEF ReceiveNothing, DecodeEnds, Up, PairInv, Reads
    <3>3. poll'[n] = Idle /\ (a # n => poll'[a] = poll[a])
      BY <1>1, <2>6, <2>15 DEF ReceiveNothing, DecodeEnds, NextPeer, Up
    <3>4. CASE a = n
      BY <2>3, <2>5, <3>1, <3>2, <3>3, <3>4 DEF Reads, Idle
    <3>5. CASE a # n
      BY <2>7, <3>1, <3>3, <3>5
    <3> QED BY <3>4, <3>5
  <2>16. CASE Decode(n)
    <3>1. WholeFrame(input[n][p]) /\ Peer(n) = p
      BY <2>6, <2>16 DEF Decode, Up
    <3>2. Decodes(input[n][p])
      BY <2>4, <3>1, NextFrame
    <3>3. /\ UNCHANGED <<status, wire>> /\ Stage(n, "callback")
          /\ \E x : input' = [input EXCEPT ![n][p] = x]
      BY <2>16, <3>1, <3>2 DEF Decode
    <3>4. CASE a = n
      <4>1. poll'[n].stage = "callback"
        BY <1>1, <3>3 DEF Stage, PollRecords
      <4> QED BY <2>3, <3>3, <3>4, <4>1 DEF Reads
    <3>5. CASE a # n
      <4>1. input'[a] = input[a] /\ poll'[a] = poll[a]
        BY <1>1, <3>3, <3>5 DEF IsTable, Stage
      <4> QED BY <2>7, <3>3, <4>1
    <3> QED BY <3>4, <3>5
  <2>17. CASE CallbackReturns(n)
    <3>1. UNCHANGED <<status, input, wire>>
      BY <2>17 DEF CallbackReturns, channel
    <3>2. poll'[n].stage = "decode" /\ (a # n => poll'[a] = poll[a])
      BY <1>1, <2>17 DEF CallbackReturns, Stage, PollRecords
    <3>3. CASE a = n
      BY <2>3, <3>1, <3>2, <3>3 DEF Reads
    <3>4. CASE a # n
      BY <2>7, <3>1, <3>2, <3>4
    <3> QED BY <3>3, <3>4
  <2>18. CASE Return(n) \/ Kill(n)
    BY <1>1, <2>3, <2>18 DEF Return, Kill, Fail, Reads, channel
  <2>19. CASE CloseSockets(n)
    <3>1. UNCHANGED <<status, input, poll>>
      BY <2>19 DEF CloseSockets, channel
    <3>2. status[b] \in {"ok", "done"}
      <4>1. status[b] # "disconnected" /\ status[b] # "frame" /\ status[b] \in Statuses
        BY <1>1, <2>2 DEF PairInv, IInv
      <4> QED BY <1>1, <2>2, <4>1 DEF Statuses, Calm
    <3>3. wire'[b][a] = wire[b][a]
      BY <1>1, <2>19, <3>2, CloseSocketsInv
    <3> QED BY <2>7, <3>1, <3>3
  <2> QED BY <2>1, <2>8, <2>9, <2>10, <2>11, <2>12, <2>13, <2>14, <2>15, <2>16, <2>17, <2>18, <2>19
          DEF PollStep
<1> QED BY <1>2, <1>3

(***************************************************************************)
(* Between two processes a failure always has a cause: whatever the order  *)
(* of partial sends, partial receives and closing sockets, neither sees    *)
(* the connection lost unless one was killed or overran its queue          *)
(* (TcpTransport::PollOnce).                                               *)
(***************************************************************************)
THEOREM PairsEndWell ==
    ASSUME Pair
    PROVE  Spec => []NoSpuriousFailure
<1>1. Init => PairInv
  <2> SUFFICES ASSUME Init, NEW n \in Nodes, NEW p \in Peers(n)
               PROVE  status[n] # "disconnected" /\ Reads(n, p)
    BY DEF PairInv
  <2>1. input[n][p] = << >> /\ poll[n].stage = "idle" /\ status[n] = "ok"
    BY DEF Init, ForPeers, Idle
  <2> QED BY <2>1 DEF Reads, WholeFrame
<1>2. IInv /\ PairInv => NoSpuriousFailure
  <2> SUFFICES ASSUME IInv, PairInv PROVE NoSpuriousFailure
    OBVIOUS
  <2>1. \A n \in Nodes : \E p : p \in Peers(n)
    BY DEF Pair, Peers
  <2> QED BY <2>1 DEF IInv, PairInv, NoSpuriousFailure, Calm
<1> QED BY <1>1, <1>2, PairStep, Invariance, PTL DEF Spec

-----------------------------------------------------------------------------
(***************************************************************************)
(* The variables keep their types; a socket never holds more than its      *)
(* buffer and the output never more than the queue limit.                  *)
(***************************************************************************)
THEOREM TypesHold == Spec => []TypeOK
<1> SUFFICES ASSUME IInv PROVE TypeOK
  BY Invariance, PTL
<1>1. gone \subseteq Nodes /\ deaths \in 0..MaxDeaths
  BY DEF IInv, ShapeOK
<1>2. ASSUME NEW n \in Nodes
      PROVE  /\ poll[n].stage \in {"idle", "send", "receive", "decode", "callback"}
             /\ poll[n].todo \cup poll[n].out \cup poll[n].in \subseteq Peers(n)
             /\ poll[n].budget \in 0..SendBudget /\ status[n] \in Statuses
  <2>1. poll[n] \in PollRecords /\ status[n] \in Statuses /\ PollOK(n)
    BY DEF IInv, ShapeOK
  <2> QED BY <2>1 DEF PollRecords, PollOK
<1>3. ASSUME NEW n \in Nodes, NEW p \in Peers(n)
      PROVE  /\ output[n][p] \in Seq(Message) /\ front_offset[n][p] \in Nat
             /\ queued_bytes[n][p] \in 0..QueueLimit
             /\ input[p][n] \in ByteStrings /\ wire[n][p] \in ByteStrings
             /\ Len(wire[n][p]) =< SocketCapacity
  <2>1. SentOK(n, p) /\ OutputOK(n, p) /\ StreamOK(n, p)
    BY DEF IInv, ChannelOK
  <2>2. PICK o, l, k : o = output[n][p] /\ l = Len(sent[n][p]) /\ k = Len(Workload[n][p])
    OBVIOUS
  <2>3. /\ l \in Nat /\ k \in Nat /\ l =< k /\ o \in Seq(Sized) /\ Len(o) \in Nat /\ Len(o) =< l
        /\ \A i \in 1..Len(o) : o[i] = Numbered(n, p, l - Len(o) + i)
    <3>1. Workload[n][p] \in Seq(Nat \ {0})
      BY TransportAssumption DEF Peers
    <3> QED BY <2>1, <2>2, <3>1, LenProperties DEF SentOK, OutputOK
  <2>4. \A i \in 1..k : Numbered(n, p, i) \in Message /\ Numbered(n, p, i) \in Sized
    BY <2>2, NumberedSized
  <2>5. output[n][p] \in Seq(Message)
    <3>1. ASSUME NEW i \in 1..Len(o) PROVE o[i] \in Message
      <4>1. l - Len(o) + i \in 1..k
        BY <2>3
      <4> QED BY <2>3, <2>4, <4>1
    <3>2. o = [i \in 1..Len(o) |-> o[i]]
      BY <2>3, LenProperties
    <3>3. o \in [1..Len(o) -> Message]
      BY <3>1, <3>2
    <3>4. o \in Seq(Message)
      BY <2>3, <3>3, SeqDef, Zenon
    <3> QED BY <2>2, <3>4
  <2> DEFINE B == UNION {{[message |-> m, at |-> i] : i \in 1..m.size} : m \in Message}
  <2>6. Bytes(n, p, l) \subseteq B
    <3> SUFFICES ASSUME NEW b \in Bytes(n, p, l) PROVE b \in B
      OBVIOUS
    <3>1. PICK i \in 1..l : b.message = Numbered(n, p, i)
      BY <2>2, <2>3, BytesLegal
    <3>2. i \in 1..k
      BY <2>3
    <3>3. b.message \in Message /\ b.message \in Sized
      BY <2>4, <3>1, <3>2
    <3>4. b = [message |-> b.message, at |-> b.at] /\ b.at \in Nat /\ 1 =< b.at /\ b.at =< b.message.size
      BY DEF Bytes
    <3>5. b.at \in 1..b.message.size
      BY <3>3, <3>4 DEF Sized
    <3> QED BY <3>3, <3>4, <3>5
  <2> HIDE DEF B
  <2>7. input[p][n] \in Seq(B) /\ wire[n][p] \in Seq(B)
    BY <2>1, <2>2, <2>6, SeqMonotonic DEF StreamOK
  <2> QED BY <2>1, <2>5, <2>7 DEF OutputOK, StreamOK, ByteStrings, B
<1> QED BY <1>1, <1>2, <1>3, Limits DEF TypeOK
=============================================================================
