---------------------------- MODULE ReplayProofs ----------------------------
(***************************************************************************)
(* Facts about checkpoints and replay that do not depend on the job: what  *)
(* a checkpoint captures is what it restores, a record and its watermark   *)
(* keep a state well formed, and a slot that waits to be fired stays so    *)
(* until it is emitted.                                                    *)
(***************************************************************************)
EXTENDS Replay, SequenceTheorems, FiniteSetTheorems, WellFoundedInduction, TLAPS

-----------------------------------------------------------------------------
(***************************************************************************)
(* Greatest elements.                                                      *)
(***************************************************************************)
LEMMA NatLeast == ASSUME NEW T, T \subseteq Nat, T # {} PROVE \E x \in T : \A y \in T : x =< y
<1> DEFINE R == OpToRel(<, Nat)
<1>1. IsWellFoundedOn(R, Nat)
  BY NatLessThanWellFounded, Zenon
<1>2. PICK x \in T : \A y \in T : ~ (<<y, x>> \in R)
  <2> HIDE DEF R
  <2> QED BY <1>1, WFMin
<1>3. ASSUME NEW y \in T PROVE x =< y
  <2>1. <<y, x>> \notin R /\ x \in Nat /\ y \in Nat
    BY <1>2
  <2>2. ~(y < x)
    BY <2>1, Zenon DEF OpToRel
  <2> HIDE DEF R
  <2> QED BY <2>1, <2>2
<1> QED BY <1>3

\* A nonempty set of integers with an upper bound has a greatest element.
LEMMA IntGreatest ==
    ASSUME NEW S, S \subseteq Int, S # {}, NEW b \in Int, \A x \in S : x =< b
    PROVE  \E x \in S : \A y \in S : y =< x
<1> DEFINE T == {b - x : x \in S}
<1>0. \A x \in S : b - x \in Nat
  OBVIOUS
<1>1. T \subseteq Nat /\ T # {}
  BY <1>0, Zenon
<1>2. PICK t \in T : \A u \in T : t =< u
  <2> HIDE DEF T
  <2> QED BY <1>1, NatLeast
<1>3. PICK x \in S : t = b - x
  BY <1>2
<1>4. ASSUME NEW y \in S PROVE y =< x
  <2>1. b - y \in T
    OBVIOUS
  <2>2. t =< b - y
    BY <1>2, <2>1
  <2> QED BY <1>3, <2>2
<1> QED BY <1>4

\* Max of such a set is that element.
LEMMA MaxGreatest ==
    ASSUME NEW S, S \subseteq Int, S # {}, NEW b \in Int, \A x \in S : x =< b
    PROVE  Max(S) \in S /\ \A y \in S : y =< Max(S)
<1>1. PICK x \in S : \A y \in S : y =< x
  BY IntGreatest
<1>2. \A y \in S : x >= y
  BY <1>1
<1>3. Max(S) \in S /\ \A y \in S : Max(S) >= y
  BY <1>2, Zenon DEF Max
<1> QED BY <1>3

LEMMA MaxOfTwo ==
    ASSUME NEW a \in Int, NEW b \in Int
    PROVE  Max({a, b}) = IF a >= b THEN a ELSE b
<1>1. PICK c \in Int : a =< c /\ b =< c
  <2>1. a =< a /\ b =< b
    OBVIOUS
  <2> QED BY <2>1
<1>2. Max({a, b}) \in {a, b} /\ a =< Max({a, b}) /\ b =< Max({a, b})
  <2>1. {a, b} \subseteq Int /\ {a, b} # {} /\ \A x \in {a, b} : x =< c
    BY <1>1
  <2>2. Max({a, b}) \in {a, b} /\ \A y \in {a, b} : y =< Max({a, b})
    BY <2>1, MaxGreatest
  <2> QED BY <2>2
<1> QED BY <1>2

LEMMA MinOfTwo ==
    ASSUME NEW a \in Int, NEW b \in Int
    PROVE  Min({a, b}) = IF a =< b THEN a ELSE b
<1> DEFINE c == IF a =< b THEN a ELSE b
<1>1. c \in {a, b} /\ \A y \in {a, b} : c =< y
  OBVIOUS
<1>2. Min({a, b}) \in {a, b} /\ \A y \in {a, b} : Min({a, b}) =< y
  <2> HIDE DEF c
  <2> QED BY <1>1, Zenon DEF Min
<1>3. Min({a, b}) \in {a, b} /\ Min({a, b}) =< a /\ Min({a, b}) =< b
  BY <1>2
<1> QED BY <1>3

-----------------------------------------------------------------------------
(***************************************************************************)
(* The source's generator.                                                 *)
(***************************************************************************)
LEMMA ModUnique ==
    ASSUME NEW c \in Nat \ {0}, NEW q \in Int, NEW r \in 0..(c - 1), NEW n \in Int,
           n = c * q + r
    PROVE  n % c = r
<1>1. n % c \in 0..(c - 1) /\ n = c * (n \div c) + (n % c) /\ n \div c \in Int
  OBVIOUS
<1>2. PICK p \in Int, m \in 0..(c - 1) : p = n \div c /\ m = n % c
  BY <1>1
<1>3. c * (p - q) = r - m
  BY <1>1, <1>2
<1>4. p - q < 1
  <2> SUFFICES ASSUME p - q >= 1 PROVE FALSE
    OBVIOUS
  <2>1. c * (p - q) >= c
    OBVIOUS
  <2> QED BY <1>2, <1>3, <2>1
<1>5. p - q > -1
  <2> SUFFICES ASSUME p - q =< -1 PROVE FALSE
    OBVIOUS
  <2>1. c * (p - q) =< -c
    OBVIOUS
  <2> QED BY <1>2, <1>3, <2>1
<1>6. p = q
  BY <1>4, <1>5
<1> QED BY <1>2, <1>3, <1>6

\* A counter that starts at 0 is the number of records counted, modulo the interval.
LEMMA SinceLastCounts ==
    ASSUME NEW c \in Nat \ {0}, NEW n \in Nat
    PROVE  0 % c = 0 /\ SinceLast(n % c, c) = (n + 1) % c
<1>0. 0 % c = 0
  <2>1. 0 \in 0..(c - 1) /\ 0 = c * 0 + 0
    OBVIOUS
  <2> QED BY <2>1, ModUnique
<1>1. PICK q \in Int, r \in 0..(c - 1) : n = c * q + r /\ r = n % c
  <2>1. n % c \in 0..(c - 1) /\ n = c * (n \div c) + (n % c) /\ n \div c \in Int
    OBVIOUS
  <2> QED BY <2>1
<1>2. CASE r + 1 >= c
  <2>1. n + 1 = c * (q + 1) + 0
    BY <1>1, <1>2
  <2>2. 0 \in 0..(c - 1) /\ q + 1 \in Int /\ n + 1 \in Int
    OBVIOUS
  <2>3. (n + 1) % c = 0
    BY <2>1, <2>2, ModUnique
  <2> QED BY <1>0, <1>1, <1>2, <2>3 DEF SinceLast
<1>3. CASE ~(r + 1 >= c)
  <2>1. n + 1 = c * q + (r + 1) /\ r + 1 \in 0..(c - 1) /\ n + 1 \in Int
    BY <1>1, <1>3
  <2>2. PICK e \in 0..(c - 1), z \in Int : e = r + 1 /\ z = n + 1
    BY <2>1
  <2>3. z = c * q + e
    BY <2>1, <2>2
  <2>4. z % c = e
    BY <2>3, ModUnique
  <2>5. (n + 1) % c = r + 1
    BY <2>2, <2>4
  <2> QED BY <1>0, <1>1, <1>3, <2>5 DEF SinceLast
<1> QED BY <1>2, <1>3

LEMMA NewGeneratorType == NewGenerator \in Generators /\ NewGenerator.offset = 0
<1>1. /\ 0 \in 0..(WatermarkInterval - 1) /\ 0 \in 0..(CheckpointInterval - 1)
      /\ MinTime \in Int
  BY SourceAssumption, WindowAssumption
<1> QED BY <1>1 DEF NewGenerator, Generators

LEMMA SinceLastType ==
    ASSUME NEW i \in Nat \ {0}, NEW c \in 0..(i - 1) PROVE SinceLast(c, i) \in 0..(i - 1)
  BY DEF SinceLast

LEMMA DrawnType ==
    ASSUME NEW g \in Generators, NEW r \in Records
    PROVE  /\ Drawn(g, r) \in Generators /\ Drawn(g, r).offset = g.offset + 1
           /\ Drawn(g, r).since_checkpoint = SinceLast(g.since_checkpoint, CheckpointInterval)
<1>1. /\ g.offset \in Nat /\ g.max_time \in Int
      /\ g.since_watermark \in 0..(WatermarkInterval - 1)
      /\ g.since_checkpoint \in 0..(CheckpointInterval - 1)
  BY DEF Generators
<1>2. r.time \in Int
  BY WindowAssumption DEF Records
<1>3. PICK o, w, c, t :
        /\ o = g.offset + 1 /\ t = Max({g.max_time, r.time})
        /\ w = SinceLast(g.since_watermark, WatermarkInterval)
        /\ c = SinceLast(g.since_checkpoint, CheckpointInterval)
  OBVIOUS
<1>4. o \in Nat /\ t \in Int
  <2>1. PICK a \in Int, b \in Int : a = g.max_time /\ b = r.time
    BY <1>1, <1>2
  <2> QED BY <1>1, <1>3, <2>1, MaxOfTwo
<1>5. w \in 0..(WatermarkInterval - 1) /\ c \in 0..(CheckpointInterval - 1)
  BY <1>1, <1>3, SinceLastType, SourceAssumption
<1>6. Drawn(g, r) = [offset |-> o, since_watermark |-> w, since_checkpoint |-> c,
                     max_time |-> t]
  BY <1>3 DEF Drawn
<1>7. /\ Drawn(g, r) \in Generators /\ Drawn(g, r).offset = o
      /\ Drawn(g, r).since_checkpoint = c
  BY <1>4, <1>5, <1>6 DEF Generators
<1> QED BY <1>3, <1>7

LEMMA SourceWatermarkType == ASSUME NEW g \in Generators PROVE SourceWatermark(g) \in Int
<1>1. PICK z \in Int : z = g.max_time - MaxDisorder
  BY SourceAssumption DEF Generators
<1> QED BY <1>1, MaxOfTwo DEF SourceWatermark

\* g is the generator after 0, 1, ..., m records, none left out; barriers are due
\* at fixed offsets.
At(x, n) == x \in Generators /\ x.offset = n /\ x.since_checkpoint = n % CheckpointInterval

Chain(g, records, m) ==
    /\ g \in Seq(Generators) /\ Len(g) = m + 1 /\ g[1] = NewGenerator
    /\ \A n \in 1..m : g[n + 1] = Drawn(g[n], records[n])
    /\ \A n \in 1..(m + 1) : At(g[n], n - 1)

LEMMA ChainStarts == ASSUME NEW records PROVE Chain(<<NewGenerator>>, records, 0)
<1>1. PICK x : x = NewGenerator /\ x \in Generators /\ At(x, 0)
  <2>1. 0 % CheckpointInterval = 0
    BY SinceLastCounts, SourceAssumption
  <2> QED BY <2>1, NewGeneratorType DEF NewGenerator, At
<1>2. <<x>> \in Seq(Generators) /\ Len(<<x>>) = 0 + 1 /\ <<x>>[1] = x
  BY <1>1
<1>3. \A n \in 1..(0 + 1) : At(<<x>>[n], n - 1)
  <2>1. \A n \in 1..(0 + 1) : n = 1 /\ n - 1 = 0 /\ <<x>>[n] = x
    OBVIOUS
  <2> QED BY <1>1, <2>1
<1> QED BY <1>1, <1>2, <1>3 DEF Chain

LEMMA ChainReads ==
    ASSUME NEW g, NEW records, NEW longer, NEW m \in Nat, Chain(g, records, m),
           \A i \in 1..m : longer[i] = records[i]
    PROVE  Chain(g, longer, m)
  BY DEF Chain

\* CurrentOffset is the number of records drawn, and barriers keep their cadence.
LEMMA ChainOffset ==
    ASSUME NEW g, NEW records, NEW m \in Nat, Chain(g, records, m)
    PROVE  /\ CurrentOffset(g) = m
           /\ \A n \in 0..m : /\ g[n + 1] \in Generators /\ g[n + 1].offset = n
                              /\ BarrierDue(g[n + 1]) <=> n % CheckpointInterval = 0
<1>1. ASSUME NEW n \in 0..m PROVE At(g[n + 1], n)
  <2>1. n + 1 \in 1..(m + 1) /\ (n + 1) - 1 = n
    OBVIOUS
  <2>2. At(g[n + 1], (n + 1) - 1)
    BY <2>1 DEF Chain
  <2> QED BY <2>1, <2>2
<1>2. Len(g) = m + 1 /\ m \in 0..m
  BY DEF Chain
<1> QED BY <1>1, <1>2 DEF CurrentOffset, At, BarrierDue

\* The recursive function behind Draw.
Draws(f, past, records, m) ==
    f = [n \in 1..(m + 1) |-> IF n <= Len(past) THEN past[n]
                                                ELSE Drawn(f[n - 1], records[n - 1])]

LEMMA DrawIsChosen ==
    ASSUME NEW past, NEW records, NEW m
    PROVE  Draw(past, records, m) = CHOOSE f : Draws(f, past, records, m)
  BY DEF Draw, Draws

LEMMA DrawsExist ==
    ASSUME NEW past, NEW records, Len(past) \in Nat, Len(past) >= 1, NEW m \in Nat
    PROVE  \E f : Draws(f, past, records, m)
<1> DEFINE T == {j \in Nat : ~ \E f : Draws(f, past, records, j)}
<1> SUFFICES ASSUME T # {} PROVE FALSE
  OBVIOUS
<1>1. PICK j \in T : \A y \in T : j =< y
  BY NatLeast
<1>2. j \in Nat /\ \A f : ~Draws(f, past, records, j)
  OBVIOUS
<1>3. CASE j = 0
  <2>1. PICK f : f = [n \in 1..(0 + 1) |-> past[n]]
    OBVIOUS
  <2>2. \A n \in 1..(0 + 1) : n <= Len(past)
    OBVIOUS
  <2>3. Draws(f, past, records, 0)
    BY <2>1, <2>2 DEF Draws
  <2> QED BY <1>2, <1>3, <2>3
<1>4. CASE j # 0
  <2>1. PICK l : l = j - 1 /\ l \in Nat /\ j = l + 1
    BY <1>2, <1>4
  <2>2. l \notin T
    BY <1>1, <1>2, <2>1
  <2>3. PICK f : Draws(f, past, records, l)
    BY <2>1, <2>2
  <2>4. PICK z : z = IF j + 1 <= Len(past) THEN past[j + 1] ELSE Drawn(f[j], records[j])
    OBVIOUS
  <2>5. PICK g : g = [n \in 1..(j + 1) |-> IF n = j + 1 THEN z ELSE f[n]]
    OBVIOUS
  <2>6. g[j + 1] = z /\ \A n \in 1..j : n \in 1..(j + 1) /\ g[n] = f[n]
    BY <1>2, <2>5
  <2>7. ASSUME NEW n \in 1..(j + 1)
        PROVE  g[n] = IF n <= Len(past) THEN past[n] ELSE Drawn(g[n - 1], records[n - 1])
    <3>1. CASE n = j + 1
      <4>1. n - 1 = j /\ j \in 1..j
        BY <1>2, <1>4, <3>1
      <4> QED BY <2>4, <2>6, <3>1, <4>1
    <3>2. CASE n # j + 1
      <4>1. n \in 1..(l + 1) /\ n \in 1..j /\ (~(n <= Len(past)) => n - 1 \in 1..j)
        BY <1>2, <2>1, <3>2
      <4>2. f[n] = IF n <= Len(past) THEN past[n] ELSE Drawn(f[n - 1], records[n - 1])
        BY <2>3, <4>1 DEF Draws
      <4> QED BY <2>6, <4>1, <4>2
    <3> QED BY <3>1, <3>2
  <2>8. g = [n \in 1..(j + 1) |-> g[n]]
    BY <2>5
  <2>9. Draws(g, past, records, j)
    BY <2>7, <2>8 DEF Draws
  <2> QED BY <1>2, <2>9
<1> QED BY <1>3, <1>4

\* Next and Seek hand out the same records' generators: Draw goes on from where
\* the source is.
LEMMA DrawChain ==
    ASSUME NEW past, NEW records \in Seq(Records), NEW k \in Nat, NEW m \in Nat, k =< m,
           m =< Len(records), Chain(past, records, k), NEW g, g = Draw(past, records, m)
    PROVE  Chain(g, records, m) /\ \A n \in 1..(k + 1) : g[n] = past[n]
<1>0. /\ past \in Seq(Generators) /\ Len(past) = k + 1 /\ past[1] = NewGenerator
      /\ \A n \in 1..k : past[n + 1] = Drawn(past[n], records[n])
      /\ \A n \in 1..(k + 1) : At(past[n], n - 1)
  BY DEF Chain
<1>1. Draws(g, past, records, m)
  <2>1. Len(past) \in Nat /\ Len(past) >= 1
    BY <1>0
  <2>2. \E f : Draws(f, past, records, m)
    BY <2>1, DrawsExist
  <2>3. g = CHOOSE f : Draws(f, past, records, m)
    BY DrawIsChosen
  <2> QED BY <2>2, <2>3, Zenon
<1>2. \A n \in 1..(m + 1) :
         g[n] = IF n <= k + 1 THEN past[n] ELSE Drawn(g[n - 1], records[n - 1])
  BY <1>0, <1>1 DEF Draws
<1>3. \A n \in 1..(k + 1) : g[n] = past[n]
  BY <1>2
<1>4. ASSUME NEW n \in 1..m PROVE g[n + 1] = Drawn(g[n], records[n])
  <2>1. CASE n <= k
    <3>1. n \in 1..k /\ n \in 1..(k + 1) /\ n + 1 \in 1..(k + 1)
      BY <2>1
    <3> QED BY <1>0, <1>3, <3>1
  <2>2. CASE ~(n <= k)
    <3>1. n + 1 \in 1..(m + 1) /\ ~(n + 1 <= k + 1) /\ (n + 1) - 1 = n
      BY <2>2
    <3> QED BY <1>2, <3>1
  <2> QED BY <2>1, <2>2
<1>5. Len(records) \in Nat /\ \A n \in 1..Len(records) : records[n] \in Records
  BY LenProperties, ElementOfSeq
<1>6. ASSUME NEW n \in 1..(m + 1) PROVE At(g[n], n - 1)
  <2> DEFINE T == {j \in 1..(m + 1) : ~At(g[j], j - 1)}
  <2> SUFFICES ASSUME T # {} PROVE FALSE
    OBVIOUS
  <2>1. PICK j \in T : \A y \in T : j =< y
    <3>1. T \subseteq Nat
      OBVIOUS
    <3> HIDE DEF T
    <3> QED BY <3>1, NatLeast
  <2>2. j \in 1..(m + 1) /\ ~At(g[j], j - 1)
    OBVIOUS
  <2>3. CASE j <= k + 1
    <3>1. j \in 1..(k + 1) /\ g[j] = past[j]
      BY <1>3, <2>2, <2>3
    <3> QED BY <1>0, <2>2, <3>1
  <2>4. CASE ~(j <= k + 1)
    <3>1. PICK i \in 1..m : j = i + 1 /\ ~(j =< i) /\ i \in 1..(m + 1)
      BY <2>2, <2>4
    <3>2. i \notin T
      BY <2>1, <3>1
    <3>3. At(g[i], i - 1)
      BY <3>1, <3>2
    <3>4. records[i] \in Records
      BY <1>5
    <3>5. g[j] = Drawn(g[i], records[i])
      BY <1>4, <3>1
    <3>6. /\ g[j] \in Generators /\ g[j].offset = g[i].offset + 1
          /\ g[j].since_checkpoint = SinceLast(g[i].since_checkpoint, CheckpointInterval)
      BY <3>3, <3>4, <3>5, DrawnType DEF At
    <3>7. PICK l \in Nat : l = i - 1 /\ i = l + 1 /\ j - 1 = l + 1
      BY <3>1
    <3>8. SinceLast(l % CheckpointInterval, CheckpointInterval) = (l + 1) % CheckpointInterval
      BY SinceLastCounts, SourceAssumption
    <3> QED BY <2>2, <3>3, <3>6, <3>7, <3>8 DEF At
  <2> QED BY <2>3, <2>4
<1>7. g \in Seq(Generators) /\ Len(g) = m + 1
  <2>1. g = [n \in 1..(m + 1) |-> g[n]]
    BY <1>1 DEF Draws
  <2> QED BY <1>6, <2>1 DEF At
<1>8. g[1] = NewGenerator
  BY <1>0, <1>3
<1> QED BY <1>3, <1>4, <1>6, <1>7, <1>8 DEF Chain

LEMMA SeekChain ==
    ASSUME NEW records \in Seq(Records), NEW o \in Nat, o =< Len(records)
    PROVE  Chain(Seek(records, o), records, o)
<1>1. Chain(<<NewGenerator>>, records, 0)
  BY ChainStarts
<1> QED BY <1>1, DrawChain DEF Seek

-----------------------------------------------------------------------------
(***************************************************************************)
(* Well-formed states of an operator instance: an absent pane is NoPane,   *)
(* and only fired windows wait for a re-fire.                              *)
(***************************************************************************)
Counted == [sum : Int, count : Nat]

Sound(st) ==
    /\ st \in [panes : [Slots -> Counted], fired : SUBSET Windows, refired : SUBSET Windows]
    /\ \A s \in Slots : st.panes[s].count = 0 => st.panes[s] = NoPane
    /\ st.refired \subseteq st.fired

LEMMA SoundFields ==
    ASSUME NEW st, Sound(st)
    PROVE  /\ st = [panes |-> st.panes, fired |-> st.fired, refired |-> st.refired]
           /\ st.panes \in [Slots -> Counted]
           /\ st.fired \subseteq Windows /\ st.refired \subseteq st.fired
           /\ \A s \in Slots : /\ st.panes[s] \in Counted /\ st.panes[s].count \in Nat
                               /\ st.panes[s].count = 0 => st.panes[s] = NoPane
<1>1. /\ st = [panes |-> st.panes, fired |-> st.fired, refired |-> st.refired]
      /\ st.panes \in [Slots -> Counted]
      /\ st.fired \subseteq Windows /\ st.refired \subseteq st.fired
  BY DEF Sound
<1>2. \A s \in Slots : st.panes[s] \in Counted
  BY <1>1
<1>3. \A p \in Counted : p.count \in Nat
  BY DEF Counted
<1> QED BY <1>1, <1>2, <1>3 DEF Sound

LEMMA SoundMade ==
    ASSUME NEW panes \in [Slots -> Counted], NEW fired \in SUBSET Windows,
           NEW refired \in SUBSET fired, \A s \in Slots : panes[s].count = 0 => panes[s] = NoPane
    PROVE  Sound([panes |-> panes, fired |-> fired, refired |-> refired])
  BY DEF Sound

LEMMA EmptySound == Sound(EmptyState) /\ NoPane \in Counted /\ NoPane.count = 0
<1>1. NoPane \in Counted /\ NoPane.count = 0
  BY DEF NoPane, Counted
<1>2. [s \in Slots |-> NoPane] \in [Slots -> Counted]
  BY <1>1
<1>3. \A s \in Slots : [t \in Slots |-> NoPane][s] = NoPane
  OBVIOUS
<1>4. Sound([panes |-> [s \in Slots |-> NoPane], fired |-> {}, refired |-> {}])
  BY <1>2, <1>3, SoundMade
<1> QED BY <1>1, <1>4 DEF EmptyState

(***************************************************************************)
(* What CheckpointWriter writes is what TryLoad accepts and TryRestore     *)
(* rebuilds: the round trip through a checkpoint loses nothing of the      *)
(* state, pending re-fires included.                                       *)
(***************************************************************************)
THEOREM RoundTrip ==
    ASSUME NEW st, Sound(st), NEW wm, NEW o
    PROVE  /\ RestoreState(Capture(st, wm, o)) = st
           /\ Loadable(File(Capture(st, wm, o)))
<1> DEFINE d == Capture(st, wm, o)
           P == {[slot |-> s, pane |-> st.panes[s]] : s \in LiveSlots(st)}
<1>1. d.panes = P /\ d.fired = st.fired /\ d.refired = st.refired
  BY DEF Capture
<1>2. ASSUME NEW s \in Slots, st.panes[s].count > 0
      PROVE  (\E e \in P : e.slot = s) /\ (CHOOSE e \in P : e.slot = s).pane = st.panes[s]
  <2>1. s \in LiveSlots(st)
    BY <1>2 DEF LiveSlots
  <2>2. [slot |-> s, pane |-> st.panes[s]] \in P
    BY <2>1
  <2>3. \E e \in P : e.slot = s
    BY <2>2
  <2>4. \A e \in P : e.slot = s => e.pane = st.panes[s]
    OBVIOUS
  <2>5. (CHOOSE e \in P : e.slot = s) \in P /\ (CHOOSE e \in P : e.slot = s).slot = s
    <3> HIDE DEF P
    <3> QED BY <2>3
  <2> HIDE DEF P
  <2> QED BY <2>3, <2>4, <2>5
<1>3. ASSUME NEW s \in Slots, ~(st.panes[s].count > 0)
      PROVE  ~(\E e \in P : e.slot = s) /\ st.panes[s] = NoPane
  <2>1. st.panes[s] = NoPane
    BY <1>3, SoundFields
  <2>2. \A e \in P : e.slot \in LiveSlots(st)
    OBVIOUS
  <2>3. s \notin LiveSlots(st)
    BY <1>3 DEF LiveSlots
  <2> HIDE DEF P
  <2> QED BY <2>1, <2>2, <2>3
<1>4. [s \in Slots |-> IF \E e \in P : e.slot = s
                       THEN (CHOOSE e \in P : e.slot = s).pane ELSE NoPane] = st.panes
  <2> DEFINE g == [s \in Slots |-> IF \E e \in P : e.slot = s
                                   THEN (CHOOSE e \in P : e.slot = s).pane ELSE NoPane]
  <2>1. \A s \in Slots : g[s] = st.panes[s]
    <3> SUFFICES ASSUME NEW s \in Slots PROVE g[s] = st.panes[s]
      OBVIOUS
    <3>1. g[s] = IF \E e \in P : e.slot = s
                 THEN (CHOOSE e \in P : e.slot = s).pane ELSE NoPane
      OBVIOUS
    <3> HIDE DEF P, g
    <3>2. CASE st.panes[s].count > 0
      BY <1>2, <3>1, <3>2
    <3>3. CASE ~(st.panes[s].count > 0)
      BY <1>3, <3>1, <3>3
    <3> QED BY <3>2, <3>3
  <2>2. st.panes = [s \in Slots |-> st.panes[s]]
    BY SoundFields
  <2>3. g = [s \in Slots |-> g[s]]
    OBVIOUS
  <2>4. [s \in Slots |-> g[s]] = [s \in Slots |-> st.panes[s]]
    <3> HIDE DEF g
    <3> QED BY <2>1, Zenon
  <2> HIDE DEF g
  <2>5. g = st.panes
    BY <2>2, <2>3, <2>4, Zenon
  <2> QED BY <2>5 DEF g
<1>5. RestoreState(d) = [panes |-> st.panes, fired |-> st.fired, refired |-> st.refired]
  <2> HIDE DEF d, P
  <2> QED BY <1>1, <1>4 DEF RestoreState
<1>6. RestoreState(d) = st
  BY <1>5, SoundFields
<1>7. Loadable(File(d))
  BY <1>1, SoundFields DEF Loadable, File
<1> QED BY <1>6, <1>7

(***************************************************************************)
(* AddWithLateness keeps a state well formed, and what is to be fired at   *)
(* the end stays so.                                                       *)
(***************************************************************************)
LEMMA AddSound ==
    ASSUME NEW st, Sound(st), NEW key, NEW ws, NEW v \in Int, NEW wm, NEW a,
           a = AddWithLateness(st, key, ws, v, wm)
    PROVE  /\ Sound(a) /\ a.fired = st.fired /\ st.refired \subseteq a.refired
           /\ LiveSlots(st) \subseteq LiveSlots(a)
<1> DEFINE acc == Accepting(ws, wm)
<1>1. /\ a = [panes |-> AddToPanes(st.panes, key, acc, v), fired |-> st.fired,
              refired |-> st.refired \cup (acc \cap st.fired)]
  BY DEF AddWithLateness
<1> HIDE DEF acc
<1>2. ASSUME NEW s \in Slots
      PROVE  /\ AddToPanes(st.panes, key, acc, v)[s] \in Counted
             /\ AddToPanes(st.panes, key, acc, v)[s].count = 0 =>
                   AddToPanes(st.panes, key, acc, v)[s] = NoPane
             /\ st.panes[s].count > 0 => AddToPanes(st.panes, key, acc, v)[s].count > 0
  <2>1. st.panes[s] \in Counted /\ st.panes[s].count \in Nat /\ st.panes[s].sum \in Int
    BY SoundFields DEF Counted
  <2>2. CASE s[1] \in acc /\ s[2] = key
    <3>1. AddToPanes(st.panes, key, acc, v)[s] =
             [sum |-> st.panes[s].sum + v, count |-> st.panes[s].count + 1]
      BY <2>2 DEF AddToPanes, PaneAdd
    <3>2. [sum |-> st.panes[s].sum + v, count |-> st.panes[s].count + 1] \in Counted
      BY <2>1 DEF Counted
    <3> QED BY <2>1, <3>1, <3>2
  <2>3. CASE ~(s[1] \in acc /\ s[2] = key)
    <3>1. AddToPanes(st.panes, key, acc, v)[s] = st.panes[s]
      BY <2>3 DEF AddToPanes
    <3> QED BY <2>1, <3>1, SoundFields
  <2> QED BY <2>2, <2>3
<1>3. AddToPanes(st.panes, key, acc, v) \in [Slots -> Counted]
  BY <1>2 DEF AddToPanes
<1>4. Sound(a)
  <2>1. st.fired \in SUBSET Windows /\ st.refired \cup (acc \cap st.fired) \in SUBSET st.fired
    BY SoundFields
  <2> QED BY <1>1, <1>2, <1>3, <2>1, SoundMade
<1>5. LiveSlots(st) \subseteq LiveSlots(a)
  BY <1>1, <1>2 DEF LiveSlots
<1>6. a.fired = st.fired /\ st.refired \subseteq a.refired
  <2>1. PICK p, r : p = AddToPanes(st.panes, key, acc, v) /\ r = st.refired \cup (acc \cap st.fired)
    OBVIOUS
  <2>2. a = [panes |-> p, fired |-> st.fired, refired |-> r] /\ st.refired \subseteq r
    BY <1>1, <2>1
  <2> QED BY <2>2
<1> QED BY <1>4, <1>5, <1>6

(***************************************************************************)
(* What a watermark that advances leaves of a state (ProcessControl).      *)
(***************************************************************************)
Emitted(st, wm) == ExpiredWindows(st, wm) \cup (IF UseLateness THEN st.refired ELSE {})

LEMMA WatermarkLate ==
    ASSUME NEW st, Sound(st), NEW wm, AllowedLateness # 0, UseLateness
    PROVE  \E gone, fired :
              /\ gone \subseteq fired /\ fired \subseteq Windows
              /\ fired \subseteq st.fired \cup Emitted(st, wm)
              /\ AfterWatermark(st, wm) = [panes |-> ErasePanes(st.panes, gone),
                                           fired |-> fired \ gone, refired |-> {}]
<1> DEFINE x == ExpiredWindows(st, wm)
           f == FireWindow(st, x)
           fired == st.fired \cup x \cup (st.refired \cap AllWindows(st))
           c == ClearRefired(FireWindow(f, f.refired))
           gone == GarbageCollectable(c, wm)
<1>1. x \subseteq AllWindows(st) /\ x \subseteq Windows
  BY DEF ExpiredWindows, AllWindows
<1>2. f = [panes |-> st.panes, fired |-> st.fired \cup x, refired |-> st.refired]
  <2>1. x \cap AllWindows(st) = x
    BY <1>1
  <2> HIDE DEF x
  <2> QED BY <2>1 DEF FireWindow
<1>3. AllWindows(f) = AllWindows(st)
  BY <1>2 DEF AllWindows
<1>4. c = [panes |-> st.panes, fired |-> fired, refired |-> {}]
  <2>1. f.panes = st.panes /\ f.fired = st.fired \cup x /\ f.refired = st.refired
    BY <1>2
  <2> HIDE DEF f, x
  <2> QED BY <1>3, <2>1 DEF FireWindow, ClearRefired
<1>5. AfterWatermark(st, wm) = GarbageCollect(c, gone)
  BY DEF AfterWatermark
<1>6. gone \subseteq fired
  <2>1. c.fired = fired
    BY <1>4
  <2> HIDE DEF c, fired
  <2> QED BY <2>1 DEF GarbageCollectable
<1>7. fired \subseteq Windows /\ fired \subseteq st.fired \cup Emitted(st, wm)
  BY <1>1, SoundFields DEF Emitted
<1>8. AfterWatermark(st, wm) = [panes |-> ErasePanes(st.panes, gone),
                                fired |-> fired \ gone, refired |-> {}]
  <2>1. c.panes = st.panes /\ c.fired = fired /\ c.refired = {} /\ {} \ gone = {}
    BY <1>4
  <2> HIDE DEF c, gone, fired
  <2> QED BY <1>5, <2>1 DEF GarbageCollect
<1> HIDE DEF x, f, fired, c, gone
<1> QED BY <1>6, <1>7, <1>8

LEMMA WatermarkZero ==
    ASSUME NEW st, Sound(st), NEW wm, AllowedLateness = 0, ~UseLateness
    PROVE  AfterWatermark(st, wm) =
             [panes |-> ErasePanes(st.panes, ExpiredWindows(st, wm)),
              fired |-> st.fired, refired |-> st.refired]
  BY DEF AfterWatermark, FireWindow

LEMMA EraseFields ==
    ASSUME NEW st, Sound(st), NEW ws
    PROVE  /\ ErasePanes(st.panes, ws) \in [Slots -> Counted]
           /\ \A s \in Slots : /\ s[1] \in ws => ErasePanes(st.panes, ws)[s] = NoPane
                               /\ s[1] \notin ws => ErasePanes(st.panes, ws)[s] = st.panes[s]
                               /\ ErasePanes(st.panes, ws)[s].count = 0 =>
                                     ErasePanes(st.panes, ws)[s] = NoPane
<1>1. ASSUME NEW s \in Slots
      PROVE  /\ s[1] \in ws => ErasePanes(st.panes, ws)[s] = NoPane
             /\ s[1] \notin ws => ErasePanes(st.panes, ws)[s] = st.panes[s]
  BY DEF ErasePanes
<1>2. ASSUME NEW s \in Slots
      PROVE  /\ ErasePanes(st.panes, ws)[s] \in Counted
             /\ ErasePanes(st.panes, ws)[s].count = 0 => ErasePanes(st.panes, ws)[s] = NoPane
  BY <1>1, SoundFields, EmptySound
<1>3. ErasePanes(st.panes, ws) \in [Slots -> Counted]
  BY <1>2 DEF ErasePanes
<1> QED BY <1>1, <1>2, <1>3

LEMMA LatenessCases == (AllowedLateness # 0 /\ UseLateness) \/ (AllowedLateness = 0 /\ ~UseLateness)
  BY WindowAssumption DEF UseLateness

\* A watermark keeps a state well formed; a slot that waits to be fired is
\* emitted or still waits.
LEMMA WatermarkSound ==
    ASSUME NEW st, Sound(st), NEW wm
    PROVE  /\ Sound(AfterWatermark(st, wm))
           /\ \A s \in FlushEmits(st) : \/ s \in WatermarkEmits(st, wm)
                                        \/ s \in FlushEmits(AfterWatermark(st, wm))
<1>0. PICK b : b = AfterWatermark(st, wm)
  OBVIOUS
<1>1. \A s \in Slots : s[1] \in Windows /\ s[2] \in Keys /\ s = <<s[1], s[2]>>
  BY DEF Slots
<1>2. ASSUME NEW s \in LiveSlots(st), s[1] \notin Emitted(st, wm) PROVE s \notin WatermarkEmits(st, wm)
  BY <1>2 DEF WatermarkEmits, ResultSlots, Emitted
<1>3. ASSUME NEW s \in LiveSlots(st), s[1] \in Emitted(st, wm) PROVE s \in WatermarkEmits(st, wm)
  BY <1>3 DEF WatermarkEmits, ResultSlots, Emitted
<1>4. CASE AllowedLateness # 0 /\ UseLateness
  <2>1. PICK gone, fired :
              /\ gone \subseteq fired /\ fired \subseteq Windows
              /\ fired \subseteq st.fired \cup Emitted(st, wm)
              /\ b = [panes |-> ErasePanes(st.panes, gone),
                      fired |-> fired \ gone, refired |-> {}]
    BY <1>0, <1>4, WatermarkLate
  <2>2. Sound(b)
    <3>1. fired \ gone \in SUBSET Windows /\ {} \in SUBSET (fired \ gone)
      BY <2>1
    <3>a. /\ ErasePanes(st.panes, gone) \in [Slots -> Counted]
          /\ \A s \in Slots : ErasePanes(st.panes, gone)[s].count = 0 =>
                               ErasePanes(st.panes, gone)[s] = NoPane
      BY EraseFields
    <3>2. PICK p \in [Slots -> Counted] :
             p = ErasePanes(st.panes, gone) /\ \A s \in Slots : p[s].count = 0 => p[s] = NoPane
      BY <3>a
    <3>3. Sound([panes |-> p, fired |-> fired \ gone, refired |-> {}])
      BY <3>1, <3>2, SoundMade
    <3> QED BY <2>1, <3>2, <3>3
  <2>3. ASSUME NEW s \in FlushEmits(st), s \notin WatermarkEmits(st, wm)
        PROVE  s \in FlushEmits(b)
    <3>1. /\ s \in LiveSlots(st) /\ s \in Slots /\ st.panes[s].count > 0
          /\ s[1] \in st.refired \cup (AllWindows(st) \ st.fired)
      BY <1>4 DEF FlushEmits, ResultSlots, LiveSlots
    <3>2. s[1] \notin Emitted(st, wm)
      BY <1>3, <2>3, <3>1
    <3>3. s[1] \notin st.refired
      BY <1>4, <3>2 DEF Emitted
    <3>4. s[1] \notin fired /\ s[1] \notin gone
      BY <2>1, <3>1, <3>2, <3>3
    <3>5. b.panes[s].count > 0 /\ b.fired = fired \ gone
      BY <2>1, <3>1, <3>4, EraseFields
    <3>6. s[1] \in AllWindows(b) \ b.fired
      <4>1. b.panes[<<s[1], s[2]>>].count > 0
        BY <1>1, <3>1, <3>5
      <4> QED BY <1>1, <3>1, <3>4, <3>5, <4>1 DEF AllWindows
    <3> QED BY <1>4, <3>1, <3>5, <3>6 DEF FlushEmits, ResultSlots, LiveSlots
  <2> QED BY <1>0, <2>2, <2>3
<1>5. CASE AllowedLateness = 0 /\ ~UseLateness
  <2>1. b = [panes |-> ErasePanes(st.panes, ExpiredWindows(st, wm)),
             fired |-> st.fired, refired |-> st.refired]
    BY <1>0, <1>5, WatermarkZero
  <2>2. Sound(b)
    <3>1. st.fired \in SUBSET Windows /\ st.refired \in SUBSET st.fired
      BY SoundFields
    <3>2. PICK p \in [Slots -> Counted] :
             /\ p = ErasePanes(st.panes, ExpiredWindows(st, wm))
             /\ \A s \in Slots : p[s].count = 0 => p[s] = NoPane
      BY EraseFields
    <3>3. Sound([panes |-> p, fired |-> st.fired, refired |-> st.refired])
      BY <3>1, <3>2, SoundMade
    <3> QED BY <2>1, <3>2, <3>3
  <2>3. ASSUME NEW s \in FlushEmits(st), s \notin WatermarkEmits(st, wm)
        PROVE  s \in FlushEmits(b)
    <3>1. s \in LiveSlots(st) /\ s \in Slots /\ st.panes[s].count > 0
      BY DEF FlushEmits, ResultSlots, LiveSlots
    <3>2. s[1] \notin ExpiredWindows(st, wm)
      BY <1>3, <2>3, <3>1 DEF Emitted
    <3>3. b.panes[s].count > 0
      BY <2>1, <3>1, <3>2, EraseFields
    <3>4. s[1] \in AllWindows(b)
      <4>1. b.panes[<<s[1], s[2]>>].count > 0
        BY <1>1, <3>1, <3>3
      <4> QED BY <1>1, <3>1, <4>1 DEF AllWindows
    <3> QED BY <1>5, <3>1, <3>3, <3>4 DEF FlushEmits, ResultSlots, LiveSlots
  <2> QED BY <1>0, <2>2, <2>3
<1> QED BY <1>4, <1>5, LatenessCases

\* A record marks its fired windows and never takes a slot off the list.
LEMMA AddPending ==
    ASSUME NEW st, Sound(st), NEW a, Sound(a), a.fired = st.fired,
           st.refired \subseteq a.refired, LiveSlots(st) \subseteq LiveSlots(a)
    PROVE  FlushEmits(st) \subseteq FlushEmits(a)
<1>1. AllWindows(st) \subseteq AllWindows(a)
  <2> SUFFICES ASSUME NEW w \in Windows, NEW k \in Keys, st.panes[<<w, k>>].count > 0
               PROVE  a.panes[<<w, k>>].count > 0
    BY DEF AllWindows
  <2>1. <<w, k>> \in Slots
    BY DEF Slots
  <2> QED BY <2>1 DEF LiveSlots
<1> QED BY <1>1 DEF FlushEmits, ResultSlots

-----------------------------------------------------------------------------
(***************************************************************************)
(* A record and the watermark behind it.                                   *)
(***************************************************************************)
LEMMA RunItemsSound ==
    ASSUME NEW st, Sound(st), NEW wm \in Int, NEW r \in Records, NEW g \in Generators,
           NEW keys, NEW a, a = RunItems(st, wm, r, g, keys)
    PROVE  /\ Sound(a.state) /\ a.watermark \in Int /\ a.watermark >= wm
           /\ a.results \in [Slots -> Counted]
           /\ \A s \in FlushEmits(st) : a.results[s].count > 0 \/ s \in FlushEmits(a.state)
<1>1. r.value \in Int
  BY WindowAssumption DEF Records
<1>2. PICK added : added = IF r.key \in keys
                           THEN AddWithLateness(st, r.key, WindowsOf(r.time), r.value, wm)
                           ELSE st
  OBVIOUS
<1>3. PICK next \in Int : next = SourceWatermark(g)
  BY SourceWatermarkType
<1>4. Sound(added) /\ FlushEmits(st) \subseteq FlushEmits(added)
  <2>1. CASE r.key \in keys
    <3>1. added = AddWithLateness(st, r.key, WindowsOf(r.time), r.value, wm)
      BY <1>2, <2>1
    <3>2. /\ Sound(added) /\ added.fired = st.fired /\ st.refired \subseteq added.refired
          /\ LiveSlots(st) \subseteq LiveSlots(added)
      BY <1>1, <3>1, AddSound
    <3> QED BY <3>2, AddPending
  <2>2. CASE r.key \notin keys
    BY <1>2, <2>2
  <2> QED BY <2>1, <2>2
<1>5. CASE WatermarkDue(g) /\ next > wm
  <2>1. PICK res : res = [s \in Slots |-> IF s \in WatermarkEmits(added, next)
                                          THEN added.panes[s] ELSE NoPane]
    OBVIOUS
  <2>2. a = [state |-> AfterWatermark(added, next), watermark |-> next, results |-> res]
    BY <1>1, <1>2, <1>3, <1>5, <2>1 DEF RunItems
  <2>3. PICK after : after = AfterWatermark(added, next)
    OBVIOUS
  <2>4. /\ Sound(after)
        /\ \A s \in FlushEmits(added) : s \in WatermarkEmits(added, next) \/ s \in FlushEmits(after)
    BY <1>4, <2>3, WatermarkSound
  <2>5. res \in [Slots -> Counted]
    BY <1>4, <2>1, SoundFields, EmptySound
  <2>6. ASSUME NEW s \in WatermarkEmits(added, next) PROVE res[s].count > 0
    <3>1. s \in Slots /\ added.panes[s].count > 0
      BY DEF WatermarkEmits, ResultSlots, LiveSlots
    <3> QED BY <2>1, <3>1
  <2>7. a.state = after /\ a.watermark = next /\ a.results = res
    BY <2>2, <2>3
  <2> QED BY <1>4, <1>5, <2>4, <2>5, <2>6, <2>7
<1>6. CASE ~(WatermarkDue(g) /\ next > wm)
  <2>1. a = [state |-> added, watermark |-> wm, results |-> NoResults]
    BY <1>1, <1>2, <1>3, <1>6 DEF RunItems
  <2>2. NoResults \in [Slots -> Counted]
    BY EmptySound DEF NoResults
  <2>3. a.state = added /\ a.watermark = wm /\ a.results = NoResults
    BY <2>1
  <2> QED BY <1>4, <2>2, <2>3
<1> QED BY <1>5, <1>6

-----------------------------------------------------------------------------
(***************************************************************************)
(* The uninterrupted run.                                                  *)
(***************************************************************************)
Points == {h \in [state : [panes : [Slots -> Counted], fired : SUBSET Windows,
                           refired : SUBSET Windows],
                  watermark : Int, latest : [Slots -> Counted], source : Generators] :
              Sound(h.state) /\ h.watermark >= MinTime}

LEMMA PointFields ==
    ASSUME NEW h \in Points
    PROVE  /\ Sound(h.state) /\ h.watermark \in Int /\ h.watermark >= MinTime
           /\ h.latest \in [Slots -> Counted] /\ h.source \in Generators
  BY DEF Points

\* The point of the run after the next record.
Point(h, r) ==
    LET g == Drawn(h.source, r)
        after == RunItems(h.state, h.watermark, r, g, Keys)
    IN  [state |-> after.state, watermark |-> after.watermark,
         latest |-> Overlay(after.results, h.latest), source |-> g]

LEMMA PointIsPoint == ASSUME NEW h \in Points, NEW r \in Records PROVE Point(h, r) \in Points
<1>1. PICK g : g = Drawn(h.source, r)
  OBVIOUS
<1>2. PICK a : a = RunItems(h.state, h.watermark, r, g, Keys)
  OBVIOUS
<1>3. /\ Sound(h.state) /\ h.watermark \in Int /\ h.watermark >= MinTime
      /\ h.latest \in [Slots -> Counted] /\ g \in Generators
  BY <1>1, PointFields, DrawnType
<1>4. /\ Sound(a.state) /\ a.watermark \in Int /\ a.watermark >= h.watermark
      /\ a.results \in [Slots -> Counted]
  BY <1>2, <1>3, RunItemsSound
<1>5. Overlay(a.results, h.latest) \in [Slots -> Counted]
  BY <1>3, <1>4 DEF Overlay
<1>6. a.state \in [panes : [Slots -> Counted], fired : SUBSET Windows, refired : SUBSET Windows]
  BY <1>4 DEF Sound
<1>7. a.watermark >= MinTime
  BY <1>3, <1>4, WindowAssumption
<1>8. PICK x, w, o : x = a.state /\ w = a.watermark /\ o = Overlay(a.results, h.latest)
  OBVIOUS
<1>9. [state |-> x, watermark |-> w, latest |-> o, source |-> g] \in Points
  BY <1>3, <1>4, <1>5, <1>6, <1>7, <1>8 DEF Points
<1> QED BY <1>1, <1>2, <1>8, <1>9 DEF Point

\* h is the uninterrupted run on the first of the records.
Past(h, records) ==
    /\ h \in Seq(Points) /\ Len(h) >= 1 /\ Len(h) =< Len(records) + 1
    /\ h[1] = NewHistory[1]
    /\ \A n \in 1..(Len(h) - 1) : h[n + 1] = Point(h[n], records[n])

LEMMA PastStarts == Past(NewHistory, << >>)
<1>1. PICK x : x = [state |-> EmptyState, watermark |-> MinTime, latest |-> NoResults,
                   source |-> NewGenerator]
  OBVIOUS
<1>2. NewHistory = << x >>
  BY <1>1 DEF NewHistory
<1>3. NoResults \in [Slots -> Counted]
  BY EmptySound DEF NoResults
<1>4. x \in Points
  BY <1>1, <1>3, EmptySound, NewGeneratorType, WindowAssumption DEF Points, Sound
<1>5. << x >> \in Seq(Points) /\ Len(<< x >>) = 1
  BY <1>4
<1> QED BY <1>2, <1>5 DEF Past

LEMMA PastGrows ==
    ASSUME NEW h, NEW records \in Seq(Records), NEW new \in Seq(Records), Past(h, records)
    PROVE  Past(h, records \o new)
<1>1. PICK l : l = records \o new
  OBVIOUS
<1>2. /\ l \in Seq(Records) /\ Len(l) = Len(records) + Len(new)
      /\ \A i \in 1..Len(records) : l[i] = records[i]
  BY <1>1
<1>3. Len(records) \in Nat /\ Len(new) \in Nat /\ Len(h) \in Nat
  BY LenProperties DEF Past
<1>4. h \in Seq(Points) /\ Len(h) >= 1 /\ Len(h) =< Len(records) + 1 /\ h[1] = NewHistory[1]
  BY DEF Past
<1>5. ASSUME NEW n \in 1..(Len(h) - 1) PROVE h[n + 1] = Point(h[n], l[n])
  <2>1. h[n + 1] = Point(h[n], records[n])
    BY DEF Past
  <2>2. l[n] = records[n]
    BY <1>2, <1>3, <1>4
  <2> QED BY <2>1, <2>2
<1>6. Len(h) =< Len(l) + 1
  BY <1>2, <1>3, <1>4
<1>7. Past(h, l)
  BY <1>4, <1>5, <1>6 DEF Past
<1> QED BY <1>1, <1>7

LEMMA PastExtends ==
    ASSUME NEW h, NEW records \in Seq(Records), Past(h, records), Len(h) =< Len(records),
           NEW g, g = Extend(h, records, Len(h))
    PROVE  /\ Past(g, records) /\ Len(g) = Len(h) + 1
           /\ \A i \in 1..Len(h) : g[i] = h[i]
<1>1. PICK k \in Nat : k = Len(h)
  BY LenProperties DEF Past
<1>2. h \in Seq(Points) /\ k >= 1 /\ h[1] = NewHistory[1]
  BY <1>1 DEF Past
<1>3. PICK x : x = Point(h[k], records[k])
  OBVIOUS
<1>4. g = Append(h, x)
  BY <1>1, <1>3 DEF Extend, Point
<1>5. x \in Points
  <2>1. h[k] \in Points
    BY <1>1, <1>2, ElementOfSeq
  <2>2. Len(records) \in Nat /\ \A i \in 1..Len(records) : records[i] \in Records
    BY LenProperties, ElementOfSeq
  <2>3. records[k] \in Records
    BY <1>1, <1>2, <2>2
  <2> QED BY <1>2, <1>3, <2>1, <2>3, PointIsPoint
<1>6. /\ g \in Seq(Points) /\ Len(g) = k + 1 /\ g[k + 1] = x
      /\ \A i \in 1..k : g[i] = h[i]
  BY <1>1, <1>2, <1>4, <1>5, AppendProperties
<1>7. ASSUME NEW n \in 1..(Len(g) - 1) PROVE g[n + 1] = Point(g[n], records[n])
  <2>1. n \in 1..k /\ g[n] = h[n]
    BY <1>6
  <2>2. CASE n = k
    BY <1>3, <1>6, <2>1, <2>2
  <2>3. CASE n # k
    <3>1. n \in 1..(k - 1) /\ n + 1 \in 1..k
      BY <2>1, <2>3
    <3>2. g[n + 1] = h[n + 1]
      BY <1>6, <3>1
    <3>3. h[n + 1] = Point(h[n], records[n])
      BY <1>1, <3>1 DEF Past
    <3> QED BY <2>1, <3>2, <3>3
  <2> QED BY <2>2, <2>3
<1>8. g[1] = NewHistory[1]
  <2>1. 1 \in 1..k
    BY <1>2
  <2> QED BY <1>2, <1>6, <2>1
<1>9. Len(records) \in Nat /\ Len(g) >= 1 /\ Len(g) =< Len(records) + 1
  BY <1>1, <1>2, <1>6, LenProperties
<1>10. Past(g, records)
  BY <1>6, <1>7, <1>8, <1>9 DEF Past
<1> QED BY <1>1, <1>6, <1>10

\* Every point of the run is well formed.
LEMMA PastPoints ==
    ASSUME NEW h, NEW records, Past(h, records), NEW n \in Nat, n < Len(h)
    PROVE  /\ Sound(h[n + 1].state) /\ h[n + 1].watermark \in Int
           /\ h[n + 1].watermark >= MinTime /\ h[n + 1].latest \in [Slots -> Counted]
           /\ h[n + 1].source \in Generators
<1>1. h \in Seq(Points) /\ Len(h) \in Nat
  BY LenProperties DEF Past
<1>2. n + 1 \in 1..Len(h)
  BY <1>1
<1>3. h[n + 1] \in Points
  BY <1>1, <1>2, ElementOfSeq
<1> QED BY <1>3, PointFields

\* Whatever was sought in between, the source stands where that of the run does.
LEMMA PastChain ==
    ASSUME NEW h, NEW records, Past(h, records), NEW g, NEW m \in Nat, Chain(g, records, m),
           NEW n \in Nat, n < Len(h), n =< m
    PROVE  g[n + 1] = h[n + 1].source
<1> DEFINE T == {j \in 0..n : g[j + 1] # h[j + 1].source}
<1> SUFFICES ASSUME T # {} PROVE FALSE
  <2>1. n \in 0..n
    OBVIOUS
  <2> QED BY <2>1
<1>1. PICK j \in T : \A y \in T : j =< y
  <2>1. T \subseteq Nat
    OBVIOUS
  <2> HIDE DEF T
  <2> QED BY <2>1, NatLeast
<1>2. j \in 0..n /\ g[j + 1] # h[j + 1].source
  OBVIOUS
<1>3. Len(h) \in Nat
  BY LenProperties DEF Past
<1>4. CASE j = 0
  <2>1. g[1] = NewGenerator /\ h[1] = NewHistory[1]
    BY DEF Chain, Past
  <2>2. NewHistory[1].source = NewGenerator
    BY DEF NewHistory
  <2> QED BY <1>2, <1>4, <2>1, <2>2
<1>5. CASE j # 0
  <2>1. PICK i \in Nat : i = j - 1 /\ j = i + 1
    BY <1>2, <1>5
  <2>2. i \in 0..n /\ ~(j =< i) /\ j \in 1..m /\ j \in 1..(Len(h) - 1)
    BY <1>2, <1>3, <2>1
  <2>3. g[j] = h[j].source
    <3>1. i \notin T
      BY <1>1, <2>2
    <3> QED BY <2>1, <2>2, <3>1
  <2>4. g[j + 1] = Drawn(g[j], records[j]) /\ h[j + 1] = Point(h[j], records[j])
    BY <2>2 DEF Chain, Past
  <2>5. h[j + 1].source = Drawn(h[j].source, records[j])
    BY <2>4 DEF Point
  <2> QED BY <1>2, <2>3, <2>4, <2>5
<1> QED BY <1>4, <1>5

-----------------------------------------------------------------------------
(***************************************************************************)
(* What a sink shows for a slot is not behind point n of the run: it is    *)
(* what the run shows there or later, unless the slot is to be fired there *)
(* or later.                                                               *)
(***************************************************************************)
Shows(h, shown, s, n) ==
    \E m \in n..(Len(h) - 1) : s \in FlushEmits(h[m + 1].state) \/ shown[s] = h[m + 1].latest[s]

\* A step of the run emits what it shows next, or leaves it to the next point.
LEMMA ShowsAdvances ==
    ASSUME NEW h, NEW records \in Seq(Records), Past(h, records),
           NEW n \in Nat, n + 1 < Len(h), NEW shown, NEW s \in Slots, NEW a,
           a = RunItems(h[n + 1].state, h[n + 1].watermark, records[n + 1],
                        h[n + 2].source, Keys)
    PROVE  /\ a.results[s].count > 0 => a.results[s] = h[n + 2].latest[s]
           /\ ~(a.results[s].count > 0) /\ Shows(h, shown, s, n) => Shows(h, shown, s, n + 1)
<1>1. PICK k \in Nat : k = Len(h)
  BY LenProperties DEF Past
<1>2. PICK x, y, r : x = h[n + 1] /\ y = h[n + 2] /\ r = records[n + 1]
  OBVIOUS
<1>3. y = Point(x, r)
  <2>1. n + 1 \in 1..(Len(h) - 1) /\ (n + 1) + 1 = n + 2
    BY <1>1
  <2> QED BY <1>2, <2>1 DEF Past
<1>4. y.state = a.state /\ y.latest = Overlay(a.results, x.latest)
  <2>1. y.source = Drawn(x.source, r)
    BY <1>3 DEF Point
  <2>2. a = RunItems(x.state, x.watermark, r, Drawn(x.source, r), Keys)
    BY <1>2, <2>1
  <2> QED BY <1>3, <2>2 DEF Point
<1>5. y.latest[s] = IF a.results[s].count > 0 THEN a.results[s] ELSE x.latest[s]
  BY <1>4 DEF Overlay
<1>6. \A t \in FlushEmits(x.state) : a.results[t].count > 0 \/ t \in FlushEmits(y.state)
  <2>0. n < Len(h) /\ (n + 1) + 1 = n + 2
    BY <1>1
  <2>1. Sound(x.state) /\ x.watermark \in Int
    BY <1>2, <2>0, PastPoints
  <2>2. Len(records) \in Nat /\ \A i \in 1..Len(records) : records[i] \in Records
    BY LenProperties, ElementOfSeq
  <2>3. n + 1 \in 1..Len(records)
    BY <1>1, <2>2 DEF Past
  <2>4. r \in Records
    BY <1>2, <2>2, <2>3
  <2>5. y.source \in Generators
    <3>1. h[(n + 1) + 1].source \in Generators
      BY PastPoints
    <3> QED BY <1>2, <2>0, <3>1
  <2>6. PICK z, w, g : z = x.state /\ w = x.watermark /\ g = y.source
    OBVIOUS
  <2>7. \A t \in FlushEmits(z) : a.results[t].count > 0 \/ t \in FlushEmits(a.state)
    BY <1>2, <2>1, <2>4, <2>5, <2>6, RunItemsSound
  <2> QED BY <1>4, <2>6, <2>7
<1>7. ASSUME ~(a.results[s].count > 0), Shows(h, shown, s, n) PROVE Shows(h, shown, s, n + 1)
  <2>1. PICK m \in n..(Len(h) - 1) : \/ s \in FlushEmits(h[m + 1].state)
                                     \/ shown[s] = h[m + 1].latest[s]
    BY <1>7 DEF Shows
  <2>2. CASE m = n
    <3>1. s \in FlushEmits(x.state) \/ shown[s] = x.latest[s]
      BY <1>2, <2>1, <2>2
    <3>2. s \in FlushEmits(y.state) \/ shown[s] = y.latest[s]
      BY <1>5, <1>6, <1>7, <3>1
    <3>3. n + 1 \in (n + 1)..(Len(h) - 1) /\ (n + 1) + 1 = n + 2
      BY <1>1
    <3> QED BY <1>2, <3>2, <3>3 DEF Shows
  <2>3. CASE m # n
    <3>1. m \in (n + 1)..(Len(h) - 1)
      BY <1>1, <2>1, <2>3
    <3> QED BY <2>1, <3>1 DEF Shows
  <2> QED BY <2>2, <2>3
<1> QED BY <1>2, <1>5, <1>7

\* It is so at earlier points, and as the run goes on.
LEMMA ShowsEarlier ==
    ASSUME NEW h, NEW shown, NEW s, NEW n \in Nat, NEW m \in Nat, m =< n, Len(h) \in Nat,
           Shows(h, shown, s, n)
    PROVE  Shows(h, shown, s, m)
<1>1. PICK i \in n..(Len(h) - 1) : \/ s \in FlushEmits(h[i + 1].state)
                                   \/ shown[s] = h[i + 1].latest[s]
  BY DEF Shows
<1>2. i \in m..(Len(h) - 1)
  BY <1>1
<1> QED BY <1>1, <1>2 DEF Shows

LEMMA ShowsLonger ==
    ASSUME NEW h, NEW g, NEW shown, NEW s, NEW n \in Nat, Len(h) \in Nat, Len(g) = Len(h) + 1,
           \A i \in 1..Len(h) : g[i] = h[i], Shows(h, shown, s, n)
    PROVE  Shows(g, shown, s, n)
<1>1. PICK i \in n..(Len(h) - 1) : \/ s \in FlushEmits(h[i + 1].state)
                                   \/ shown[s] = h[i + 1].latest[s]
  BY DEF Shows
<1>2. i \in n..(Len(g) - 1) /\ i + 1 \in 1..Len(h)
  BY <1>1
<1>3. g[i + 1] = h[i + 1]
  BY <1>2
<1> QED BY <1>1, <1>2, <1>3 DEF Shows

\* A result of the run's point m, or any result for a slot to be fired there,
\* is not behind an earlier point.
LEMMA ShowsEmitted ==
    ASSUME NEW h, NEW shown, NEW s, NEW n \in Nat, NEW m \in Nat, n =< m, Len(h) \in Nat,
           m < Len(h), s \in FlushEmits(h[m + 1].state) \/ shown[s] = h[m + 1].latest[s]
    PROVE  Shows(h, shown, s, n)
<1>1. m \in n..(Len(h) - 1)
  OBVIOUS
<1> QED BY <1>1 DEF Shows

LEMMA ShowsSame ==
    ASSUME NEW h, NEW shown, NEW other, NEW s, NEW n, other[s] = shown[s], Shows(h, shown, s, n)
    PROVE  Shows(h, other, s, n)
  BY DEF Shows
=============================================================================
