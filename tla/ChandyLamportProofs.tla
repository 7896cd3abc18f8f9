------------------------ MODULE ChandyLamportProofs ------------------------
(***************************************************************************)
(* What is proved of the global snapshots (ChandyLamport): for every set   *)
(* of nodes, every symmetric topology, every limit and every number of     *)
(* epochs, crashes and damaged files,                                      *)
(*   - no message is lost or duplicated, restarts included                 *)
(*     (MessagesConserved);                                                *)
(*   - the local snapshots of an epoch, once all are saved, are one        *)
(*     consistent cut (CutsConsistent), and a committed one stays loadable *)
(*     (CommitsLoad);                                                      *)
(*   - no protocol check of the code ever fails (ProtocolHolds);           *)
(* and, when the inputs send records that the operator accepts,            *)
(*   - the aggregator has counted and combined what it has received and    *)
(*     nothing else, and its snapshots bring that back (OperatorTheorem);  *)
(*   - nothing but the size limit poisons a node (NeverPoisonedTheorem).   *)
(* The first part treats the application as opaque, whatever Deliver,      *)
(* Capture and RestoreApp do.  The second part opens it.                   *)
(***************************************************************************)
EXTENDS ChandyLamport, SequenceTheorems, FiniteSetTheorems, WellFoundedInduction, TLAPS

(***************************************************************************)
(* What the proof says of a state.                                         *)
(*                                                                         *)
(* The argument of the marker algorithm is made once, on what it is about: *)
(* what each node has received (rec) and sent (snt), the nodes that have   *)
(* taken the cut of the current epoch e (st), their cuts (cut), the        *)
(* channels a marker has closed (mb), the channels (ch) and the nodes that *)
(* still take messages (live).  The state of the specification is then     *)
(* read that way (RecOf, SentOf, ...).                                     *)
(***************************************************************************)
IsSeq(q) == q \in Seq({q[i] : i \in 1..Len(q)})

\* A message is data or a marker; data takes the next number, a marker none.
Step(m) == IF m.kind = "data" THEN 1 ELSE 0

\* The messages of q are numbered on from r and end with s.
Numbered(q, r, s) ==
    /\ IsSeq(q) /\ r \in Nat /\ s \in Nat
    /\ \A i \in 1..Len(q) : q[i].kind \in {"data", "marker"} /\ q[i].sequence \in Nat
    /\ \A i \in 1..Len(q) :
          q[i].sequence = (IF i = 1 THEN r ELSE q[i - 1].sequence) + Step(q[i])
    /\ s = IF Len(q) = 0 THEN r ELSE q[Len(q)].sequence
    /\ s = r + DataIn(q)

NoMarker(q) == \A i \in 1..Len(q) : q[i].kind # "marker"

\* q has at most one marker: that of epoch e, with the number k.
OneMarker(q, e, k) ==
    /\ \A i \in 1..Len(q) : q[i].kind = "marker" => q[i].epoch = e /\ q[i].sequence = k
    /\ \A i, j \in 1..Len(q) : q[i].kind = "marker" /\ q[j].kind = "marker" => i = j

\* A local snapshot of n.
SnapShape(n, c) ==
    /\ DOMAIN c = {"epoch", "state", "received", "sent", "markers", "channels"}
    /\ c.epoch \in Epochs
    /\ c.received \in [Peers[n] -> Nat] /\ c.sent \in [Peers[n] -> Nat]
    /\ IsSeq(c.channels)
    /\ c.markers = [p \in DOMAIN c.markers |-> c.markers[p]]
    /\ DOMAIN c.markers \subseteq Peers[n]

\* A channel is recorded up to its marker, and the marker stands where its
\* sender took its own cut; an unmarked channel is recorded up to now.
CutOK(n, rec, st, cut, mb) ==
    /\ SnapShape(n, cut[n]) /\ ContiguousLog(cut[n]) /\ DOMAIN cut[n].markers = mb[n]
    /\ \A p \in Peers[n] :
          IF p \in mb[n]
          THEN /\ p \in st /\ cut[n].markers[p] = Frontier(cut[n], p)
               /\ cut[p].sent[n] = Frontier(cut[n], p)
          ELSE rec[n][p] = Frontier(cut[n], p)

\* The channel from p to n, whose node still takes messages.
LinkOK(p, n, rec, snt, st, cut, mb, ch, e) ==
    /\ Numbered(ch[p][n], rec[n][p], snt[p][n])
    /\ \/ NoMarker(ch[p][n])
       \/ p \in st /\ p \notin mb[n] /\ OneMarker(ch[p][n], e, cut[p].sent[n])

Core(rec, snt, st, cut, mb, ch, live, e) ==
    /\ \A n \in Nodes : /\ rec[n] \in [Peers[n] -> Nat] /\ snt[n] \in [Peers[n] -> Nat]
                        /\ mb[n] \subseteq Peers[n]
                        /\ n \in st => CutOK(n, rec, st, cut, mb)
                        /\ n \notin st => mb[n] = {}
    /\ \A n \in Nodes : n \in live =>
          \A p \in Peers[n] : LinkOK(p, n, rec, snt, st, cut, mb, ch, e)


(***************************************************************************)
(* The state of the specification, read that way                           *)
(***************************************************************************)
IsNode(n, s) ==
    /\ DOMAIN s = {"up", "failed", "received", "sent", "app", "active", "completed",
                   "marked", "last_epoch"}
    /\ s.up \in BOOLEAN /\ s.failed # "protocol"
    /\ s.received \in [Peers[n] -> Nat] /\ s.sent \in [Peers[n] -> Nat]
    /\ s.marked \subseteq Peers[n]

\* The snapshot of the current epoch is being taken, waits to be saved, is saved.
Open(n) == node[n].active # None
Done(n) == node[n].completed # None
SavedNow(n) == epoch > floor /\ saved[epoch][n] # None
Started(n) == Open(n) \/ Done(n) \/ SavedNow(n)

RecOf == [n \in Nodes |-> View(n).received]
SentOf == [n \in Nodes |-> View(n).sent]
StartedSet == {n \in Nodes : Started(n)}
CutOf == [n \in Nodes |-> IF Open(n) THEN node[n].active
                          ELSE IF Done(n) THEN node[n].completed ELSE saved[epoch][n]]
MarkedOf == [n \in Nodes |-> IF Open(n) THEN node[n].marked
                             ELSE IF Started(n) THEN Peers[n] ELSE {}]
LiveSet == {n \in Nodes : Running(n) \/ ~node[n].up}

\* A node is in one phase of the current epoch, which it has finished exactly
\* when it is its last one; a process not started yet has done nothing.
NodeOK(n) ==
    /\ IsNode(n, node[n]) /\ node[n].last_epoch \in 0..epoch
    /\ ~(Open(n) /\ Done(n)) /\ ~(Open(n) /\ SavedNow(n)) /\ ~(Done(n) /\ SavedNow(n))
    /\ Started(n) => epoch > floor /\ node[n].up /\ CutOf[n].epoch = epoch
    /\ epoch > floor => (node[n].last_epoch = epoch <=> Done(n) \/ SavedNow(n))

\* Local snapshots are kept under their epoch; those of an epoch that is over
\* and complete are consistent, the one this run restores among them.
StoreOK ==
    /\ epoch \in 0..MaxEpoch /\ floor \in 0..epoch
    /\ saved = [e \in Epochs |-> [n \in Nodes |-> saved[e][n]]]
    /\ \A e \in Epochs : \A n \in Nodes :
          /\ saved[e][n] # None => SnapShape(n, saved[e][n]) /\ saved[e][n].epoch = e
          /\ e > epoch => saved[e][n] = None
    /\ \A e \in Epochs : e < epoch \/ e =< floor => (AllSaved(e) => ValidateGlobal(saved[e]))
    /\ committed \subseteq Epochs
    /\ \A e \in committed : e =< epoch /\ AllSaved(e) /\ ValidateGlobal(saved[e])
    /\ restored = 0 \/ (restored \in committed /\ restored =< floor)

TablesOK == /\ node = [n \in Nodes |-> node[n]]
            /\ chan = [p \in Nodes |-> [n \in Peers[p] |-> chan[p][n]]]

CoreOK == Core(RecOf, SentOf, StartedSet, CutOf, MarkedOf, chan, LiveSet, epoch)

IInv == StoreOK /\ TablesOK /\ (\A n \in Nodes : NodeOK(n)) /\ CoreOK

-----------------------------------------------------------------------------
(***************************************************************************)
(* Sequences of anything: Append, Tail and Head                            *)
(***************************************************************************)
\* A sequence stays one when a message is put behind it.
LEMMA AppendAny ==
    ASSUME NEW q, NEW m, IsSeq(q)
    PROVE  /\ IsSeq(Append(q, m)) /\ Len(q) \in Nat /\ Len(Append(q, m)) = Len(q) + 1
           /\ \A i \in 1..Len(q) : Append(q, m)[i] = q[i]
           /\ Append(q, m)[Len(q) + 1] = m
<1> DEFINE S == {q[i] : i \in 1..Len(q)} \cup {m}
<1>1. q \in Seq({q[i] : i \in 1..Len(q)})
  BY DEF IsSeq
<1>2. q \in Seq(S) /\ m \in S /\ Len(q) \in Nat
  BY <1>1
<1>3. Append(q, m) \in Seq(S) /\ Len(Append(q, m)) = Len(q) + 1
      /\ (\A i \in 1..Len(q) : Append(q, m)[i] = q[i]) /\ Append(q, m)[Len(q) + 1] = m
  BY <1>2, AppendProperties
<1> HIDE DEF S
<1>4. PICK a : a = Append(q, m)
  OBVIOUS
<1>5. a \in Seq(S)
  BY <1>3, <1>4
<1>6. IsSeq(a)
  BY <1>5 DEF IsSeq
<1> QED
  BY <1>2, <1>3, <1>4, <1>6

\* A sequence stays one when its front is taken.
LEMMA TailAny ==
    ASSUME NEW q, IsSeq(q), q # << >>
    PROVE  /\ IsSeq(Tail(q)) /\ Len(q) \in Nat \ {0} /\ Len(Tail(q)) = Len(q) - 1
           /\ \A i \in 1..(Len(q) - 1) : Tail(q)[i] = q[i + 1]
           /\ Head(q) = q[1]
<1> DEFINE S == {q[i] : i \in 1..Len(q)}
<1>1. q \in Seq(S)
  BY DEF IsSeq
<1> HIDE DEF S
<1>2. Tail(q) \in Seq(S) /\ Len(Tail(q)) = Len(q) - 1
      /\ (\A i \in 1..(Len(q) - 1) : Tail(q)[i] = q[i + 1]) /\ Head(q) = q[1]
      /\ Len(q) \in Nat \ {0}
  BY <1>1, HeadTailProperties, EmptySeq, LenProperties
<1>4. PICK a : a = Tail(q)
  OBVIOUS
<1>5. a \in Seq(S)
  BY <1>2, <1>4
<1>6. IsSeq(a)
  BY <1>5 DEF IsSeq
<1> QED
  BY <1>2, <1>4, <1>6

\* An empty sequence.
LEMMA EmptyAny == IsSeq(<< >>) /\ Len(<< >>) = 0
  BY DEF IsSeq

\* What a sequence's domain is.
LEMMA DomainAny == ASSUME NEW q, IsSeq(q) PROVE DOMAIN q = 1..Len(q) /\ Len(q) \in Nat
  BY DEF IsSeq

-----------------------------------------------------------------------------
(***************************************************************************)
(* How many messages of a channel are data                                 *)
(***************************************************************************)
\* The places of the data in a channel are finitely many.
LEMMA DataFinite ==
    ASSUME NEW q, IsSeq(q)
    PROVE  /\ IsFiniteSet({i \in DOMAIN q : q[i].kind = "data"})
           /\ DataIn(q) \in Nat
<1>1. DOMAIN q = 1..Len(q) /\ Len(q) \in Nat
  BY DomainAny
<1>2. IsFiniteSet(1..Len(q))
  BY <1>1, FS_Interval
<1>3. IsFiniteSet({i \in DOMAIN q : q[i].kind = "data"})
  BY <1>1, <1>2, FS_Subset
<1> QED
  BY <1>3, FS_CardinalityType DEF DataIn

\* An empty channel has none.
LEMMA DataEmpty == DataIn(<< >>) = 0
<1>1. {i \in DOMAIN << >> : << >>[i].kind = "data"} = {}
  OBVIOUS
<1> QED
  BY <1>1, FS_EmptySet DEF DataIn

\* A data message sent is one more, a marker is not.
LEMMA DataAppend ==
    ASSUME NEW q, NEW m, IsSeq(q)
    PROVE  DataIn(Append(q, m)) = DataIn(q) + Step(m)
<1> DEFINE D == {i \in DOMAIN q : q[i].kind = "data"}
<1>1. PICK a : a = Append(q, m)
  OBVIOUS
<1>2. /\ IsSeq(a) /\ Len(q) \in Nat /\ Len(a) = Len(q) + 1
      /\ \A i \in 1..Len(q) : a[i] = q[i]
      /\ a[Len(q) + 1] = m
  BY <1>1, AppendAny
<1>3. DOMAIN q = 1..Len(q) /\ DOMAIN a = 1..(Len(q) + 1)
  BY <1>2, DomainAny
<1>4. IsFiniteSet(D) /\ DataIn(q) = Cardinality(D) /\ DataIn(q) \in Nat
  BY DataFinite DEF DataIn
<1>5. Len(q) + 1 \notin D
  BY <1>2, <1>3
<1>6. CASE m.kind = "data"
  <2>1. {i \in DOMAIN a : a[i].kind = "data"} = D \cup {Len(q) + 1}
    BY <1>2, <1>3, <1>6
  <2>2. Cardinality(D \cup {Len(q) + 1}) = Cardinality(D) + 1
    BY <1>4, <1>5, FS_AddElement
  <2> QED
    BY <1>1, <1>4, <1>6, <2>1, <2>2 DEF DataIn, Step
<1>7. CASE m.kind # "data"
  <2>1. {i \in DOMAIN a : a[i].kind = "data"} = D
    BY <1>2, <1>3, <1>7
  <2>2. DataIn(a) = DataIn(q)
    BY <1>4, <2>1 DEF DataIn
  <2>3. Step(m) = 0
    BY <1>7 DEF Step
  <2> QED
    BY <1>1, <1>4, <2>2, <2>3
<1> QED
  BY <1>6, <1>7

\* The front of a channel taken is one less if it is data.
LEMMA DataTail ==
    ASSUME NEW q, IsSeq(q), q # << >>
    PROVE  DataIn(q) = DataIn(Tail(q)) + Step(q[1])
<1>1. PICK t : t = Tail(q)
  OBVIOUS
<1>2. /\ IsSeq(t) /\ Len(q) \in Nat \ {0} /\ Len(t) = Len(q) - 1
      /\ \A i \in 1..(Len(q) - 1) : t[i] = q[i + 1]
  BY <1>1, TailAny
<1>3. DOMAIN q = 1..Len(q) /\ DOMAIN t = 1..(Len(q) - 1)
  BY <1>2, DomainAny
<1> DEFINE D == {i \in DOMAIN q : q[i].kind = "data"}
           E == {i \in DOMAIN t : t[i].kind = "data"}
           F == D \ {1}
           f == [i \in E |-> i + 1]
<1>4. IsFiniteSet(E) /\ DataIn(t) = Cardinality(E) /\ DataIn(t) \in Nat
  BY <1>2, DataFinite DEF DataIn
<1>5. IsFiniteSet(D) /\ DataIn(q) = Cardinality(D) /\ DataIn(q) \in Nat
  BY DataFinite DEF DataIn
<1>6. Cardinality(E) = Cardinality(F)
  <2>1. \A i \in E : i + 1 \in F
    BY <1>2, <1>3
  <2>2. \A k \in F : k - 1 \in E /\ k - 1 + 1 = k
    BY <1>2, <1>3
  <2>3. E \subseteq Int
    BY <1>2, <1>3
  <2>4. f \in Bijection(E, F)
    <3>1. f \in Injection(E, F)
      BY <2>1, <2>3 DEF Injection, IsInjective
    <3>2. f \in Surjection(E, F)
      BY <2>1, <2>2 DEF Surjection
    <3> QED
      BY <3>1, <3>2 DEF Bijection
  <2>5. ExistsBijection(E, F)
    BY <2>4 DEF ExistsBijection
  <2> QED
    BY <1>4, <2>5, FS_Bijection
<1>7. CASE q[1].kind = "data"
  <2>1. 1 \in D
    BY <1>2, <1>3, <1>7
  <2>2. Cardinality(F) = Cardinality(D) - 1
    BY <1>5, <2>1, FS_RemoveElement
  <2>3. Step(q[1]) = 1
    BY <1>7 DEF Step
  <2> HIDE DEF D, E, F
  <2> QED
    BY <1>1, <1>4, <1>5, <1>6, <2>2, <2>3
<1>8. CASE q[1].kind # "data"
  <2>1. F = D
    BY <1>2, <1>3, <1>8
  <2>3. Step(q[1]) = 0
    BY <1>8 DEF Step
  <2> HIDE DEF D, E, F
  <2> QED
    BY <1>1, <1>4, <1>5, <1>6, <2>1, <2>3
<1> QED
  BY <1>7, <1>8

-----------------------------------------------------------------------------
(***************************************************************************)
(* A numbered channel                                                      *)
(***************************************************************************)
\* An empty channel: everything sent is received.
LEMMA NumberedEmpty ==
    ASSUME NEW r, r \in Nat
    PROVE  Numbered(<< >>, r, r) /\ NoMarker(<< >>)
  BY EmptyAny, DataEmpty DEF Numbered, NoMarker

\* A message sent with the next number (TcpTransport's Queue).
LEMMA NumberedAppend ==
    ASSUME NEW q, NEW r, NEW s, NEW m, Numbered(q, r, s),
           m.kind \in {"data", "marker"}, m.sequence = s + Step(m)
    PROVE  Numbered(Append(q, m), r, m.sequence)
<1>1. IsSeq(q) /\ r \in Nat /\ s \in Nat /\ s = r + DataIn(q)
  BY DEF Numbered
<1>2. PICK a : a = Append(q, m)
  OBVIOUS
<1>3. /\ IsSeq(a) /\ Len(q) \in Nat /\ Len(a) = Len(q) + 1
      /\ \A i \in 1..Len(q) : a[i] = q[i]
      /\ a[Len(q) + 1] = m
  BY <1>1, <1>2, AppendAny
<1>4. Step(m) \in {0, 1}
  BY DEF Step
<1>5. DataIn(a) = DataIn(q) + Step(m) /\ DataIn(q) \in Nat
  BY <1>1, <1>2, DataAppend, DataFinite
<1>6. m.sequence \in Nat /\ m.sequence = r + DataIn(a)
  BY <1>1, <1>4, <1>5
<1>7. \A i \in 1..Len(a) : a[i].kind \in {"data", "marker"} /\ a[i].sequence \in Nat
  BY <1>3, <1>6 DEF Numbered
<1>8. \A i \in 1..Len(a) :
          a[i].sequence = (IF i = 1 THEN r ELSE a[i - 1].sequence) + Step(a[i])
  <2> TAKE i \in 1..Len(a)
  <2>1. CASE i \in 1..Len(q)
    <3>1. a[i] = q[i] /\ (i # 1 => a[i - 1] = q[i - 1])
      BY <1>3, <2>1
    <3> QED
      BY <2>1, <3>1 DEF Numbered
  <2>2. CASE i = Len(q) + 1
    <3>1. a[i] = m /\ (i # 1 => a[i - 1] = q[Len(q)])
      BY <1>3, <2>2
    <3>2. s = IF Len(q) = 0 THEN r ELSE q[Len(q)].sequence
      BY DEF Numbered
    <3> QED
      BY <1>3, <2>2, <3>1, <3>2
  <2> QED
    BY <1>3, <2>1, <2>2
<1>9. m.sequence = IF Len(a) = 0 THEN r ELSE a[Len(a)].sequence
  BY <1>3
<1>10. Numbered(a, r, m.sequence)
  BY <1>1, <1>3, <1>6, <1>7, <1>8, <1>9 DEF Numbered
<1> QED
  BY <1>2, <1>10

\* The front of a numbered channel carries the next number, and the rest is
\* numbered on from it.
LEMMA NumberedTail ==
    ASSUME NEW q, NEW r, NEW s, Numbered(q, r, s), q # << >>
    PROVE  /\ Head(q) = q[1] /\ q[1].kind \in {"data", "marker"}
           /\ q[1].sequence = r + Step(q[1]) /\ q[1].sequence \in Nat
           /\ Numbered(Tail(q), q[1].sequence, s)
<1>1. IsSeq(q) /\ r \in Nat /\ s \in Nat /\ s = r + DataIn(q)
  BY DEF Numbered
<1>2. PICK t : t = Tail(q)
  OBVIOUS
<1>3. /\ IsSeq(t) /\ Len(q) \in Nat \ {0} /\ Len(t) = Len(q) - 1
      /\ \A i \in 1..(Len(q) - 1) : t[i] = q[i + 1]
      /\ Head(q) = q[1]
  BY <1>1, <1>2, TailAny
<1>4. q[1].kind \in {"data", "marker"} /\ q[1].sequence \in Nat
      /\ q[1].sequence = r + Step(q[1])
  BY <1>3 DEF Numbered
<1>5. DataIn(q) = DataIn(t) + Step(q[1]) /\ DataIn(t) \in Nat /\ Step(q[1]) \in {0, 1}
  BY <1>1, <1>2, <1>3, DataTail, DataFinite DEF Step
<1>6. s = q[1].sequence + DataIn(t)
  BY <1>1, <1>4, <1>5
<1>7. \A i \in 1..Len(t) : t[i].kind \in {"data", "marker"} /\ t[i].sequence \in Nat
  <2> TAKE i \in 1..Len(t)
  <2>1. i + 1 \in 1..Len(q) /\ t[i] = q[i + 1]
    BY <1>3
  <2> QED
    BY <2>1 DEF Numbered
<1>8. \A i \in 1..Len(t) :
          t[i].sequence = (IF i = 1 THEN q[1].sequence ELSE t[i - 1].sequence) + Step(t[i])
  <2> TAKE i \in 1..Len(t)
  <2>1. i + 1 \in 1..Len(q) /\ i + 1 # 1 /\ i \in 1..Len(q) /\ (i + 1) - 1 = i
    BY <1>3
  <2>2. q[i + 1].sequence = q[i].sequence + Step(q[i + 1])
    BY <2>1 DEF Numbered
  <2>3. t[i] = q[i + 1] /\ (i # 1 => t[i - 1] = q[i])
    BY <1>3
  <2> QED
    BY <2>2, <2>3
<1>9. s = IF Len(t) = 0 THEN q[1].sequence ELSE t[Len(t)].sequence
  <2>1. s = q[Len(q)].sequence
    BY <1>3 DEF Numbered
  <2> QED
    BY <1>3, <2>1
<1>10. Numbered(t, q[1].sequence, s)
  BY <1>1, <1>3, <1>4, <1>6, <1>7, <1>8, <1>9 DEF Numbered
<1> QED
  BY <1>2, <1>3, <1>4, <1>10

\* A data message behind a channel changes nothing about its marker; a marker
\* behind a channel without one is its only one.
LEMMA MarkerAppend ==
    ASSUME NEW q, NEW m, NEW e, NEW k, IsSeq(q)
    PROVE  /\ m.kind = "data" /\ NoMarker(q) => NoMarker(Append(q, m))
           /\ m.kind = "data" /\ OneMarker(q, e, k) => OneMarker(Append(q, m), e, k)
           /\ m.epoch = e /\ m.sequence = k /\ NoMarker(q) => OneMarker(Append(q, m), e, k)
<1>2. PICK a : a = Append(q, m)
  OBVIOUS
<1>3. /\ IsSeq(a) /\ Len(q) \in Nat /\ Len(a) = Len(q) + 1
      /\ \A i \in 1..Len(q) : a[i] = q[i]
      /\ a[Len(q) + 1] = m
  BY <1>2, AppendAny
<1>4. \A i \in 1..Len(a) : i \in 1..Len(q) \/ i = Len(q) + 1
  BY <1>3
<1>5. m.kind = "data" /\ NoMarker(q) => NoMarker(a)
  BY <1>3, <1>4 DEF NoMarker
<1>6. m.kind = "data" /\ OneMarker(q, e, k) => OneMarker(a, e, k)
  <2> HAVE m.kind = "data" /\ OneMarker(q, e, k)
  <2>1. \A i \in 1..Len(a) : a[i].kind = "marker" => i \in 1..Len(q) /\ a[i] = q[i]
    BY <1>3, <1>4
  <2> QED
    BY <2>1 DEF OneMarker
<1>7. m.epoch = e /\ m.sequence = k /\ NoMarker(q) => OneMarker(a, e, k)
  <2> HAVE m.epoch = e /\ m.sequence = k /\ NoMarker(q)
  <2>1. \A i \in 1..Len(a) : a[i].kind = "marker" => i = Len(q) + 1 /\ a[i] = m
    BY <1>3, <1>4 DEF NoMarker
  <2> QED
    BY <2>1 DEF OneMarker
<1> QED
  BY <1>2, <1>5, <1>6, <1>7

\* Taking the front leaves at most the marker there was, and none when the
\* front was it.
LEMMA MarkerTail ==
    ASSUME NEW q, NEW e, NEW k, IsSeq(q), q # << >>
    PROVE  /\ NoMarker(q) => NoMarker(Tail(q)) /\ q[1].kind # "marker"
           /\ OneMarker(q, e, k) => OneMarker(Tail(q), e, k)
           /\ OneMarker(q, e, k) /\ q[1].kind = "marker" =>
                  NoMarker(Tail(q)) /\ q[1].epoch = e /\ q[1].sequence = k
<1>2. PICK t : t = Tail(q)
  OBVIOUS
<1>3. /\ IsSeq(t) /\ Len(q) \in Nat \ {0} /\ Len(t) = Len(q) - 1
      /\ \A i \in 1..(Len(q) - 1) : t[i] = q[i + 1]
      /\ Head(q) = q[1]
  BY <1>2, TailAny
<1>4. /\ \A i \in 1..Len(t) : i + 1 \in 1..Len(q) /\ t[i] = q[i + 1] /\ i + 1 # 1
      /\ \A i, j \in 1..Len(t) : i + 1 = j + 1 => i = j
      /\ 1 \in 1..Len(q)
  BY <1>3
<1>5. NoMarker(q) => NoMarker(t) /\ q[1].kind # "marker"
  BY <1>4 DEF NoMarker
<1>6. OneMarker(q, e, k) => OneMarker(t, e, k)
  <2> HAVE OneMarker(q, e, k)
  <2>1. \A i \in 1..Len(t) : t[i].kind = "marker" => t[i].epoch = e /\ t[i].sequence = k
    BY <1>4 DEF OneMarker
  <2>2. ASSUME NEW i \in 1..Len(t), NEW j \in 1..Len(t),
               t[i].kind = "marker", t[j].kind = "marker"
        PROVE  i = j
    <3>1. i + 1 = j + 1
      BY <1>4, <2>2 DEF OneMarker
    <3> QED
      BY <1>4, <3>1
  <2> QED
    BY <2>1, <2>2 DEF OneMarker
<1>7. OneMarker(q, e, k) /\ q[1].kind = "marker" =>
          NoMarker(t) /\ q[1].epoch = e /\ q[1].sequence = k
  BY <1>4 DEF OneMarker, NoMarker
<1> QED
  BY <1>2, <1>5, <1>6, <1>7

-----------------------------------------------------------------------------
(***************************************************************************)
(* The channel log of a local snapshot                                     *)
(***************************************************************************)
\* The number of a peer's messages in a log grows with that peer's messages.
LEMMA LogGrows ==
    ASSUME NEW c, NEW p, NEW k, k \in Nat
    PROVE  /\ LogFrom(c, p, k) \in Nat
           /\ LogFrom(c, p, 0) = 0
           /\ LogFrom(c, p, k + 1) =
                  LogFrom(c, p, k) + (IF c.channels[k + 1].peer = p THEN 1 ELSE 0)
<1> DEFINE D == {i \in 1..k : c.channels[i].peer = p}
<1>1. IsFiniteSet(1..k)
  BY FS_Interval
<1>2. IsFiniteSet(D)
  BY <1>1, FS_Subset
<1>3. Cardinality(D) \in Nat /\ LogFrom(c, p, k) = Cardinality(D)
  BY <1>2, FS_CardinalityType DEF LogFrom
<1>4. LogFrom(c, p, 0) = 0
  <2>1. {i \in 1..0 : c.channels[i].peer = p} = {}
    OBVIOUS
  <2> QED
    BY <2>1, FS_EmptySet DEF LogFrom
<1>5. k + 1 \notin D
  OBVIOUS
<1>6. CASE c.channels[k + 1].peer = p
  <2>1. {i \in 1..(k + 1) : c.channels[i].peer = p} = D \cup {k + 1}
    BY <1>6
  <2>2. Cardinality(D \cup {k + 1}) = Cardinality(D) + 1
    BY <1>2, <1>5, FS_AddElement
  <2>3. LogFrom(c, p, k + 1) = LogFrom(c, p, k) + 1
    BY <1>3, <2>1, <2>2 DEF LogFrom
  <2> QED
    BY <1>3, <1>4, <1>6, <2>3
<1>7. CASE c.channels[k + 1].peer # p
  <2>1. {i \in 1..(k + 1) : c.channels[i].peer = p} = D
    BY <1>7
  <2>3. LogFrom(c, p, k + 1) = LogFrom(c, p, k)
    BY <2>1 DEF LogFrom
  <2> QED
    BY <1>3, <1>4, <1>7, <2>3
<1> QED
  BY <1>6, <1>7

\* It depends on the log up to there only.
LEMMA LogSame ==
    ASSUME NEW c, NEW c2, NEW p, NEW k,
           \A i \in 1..k : c2.channels[i] = c.channels[i]
    PROVE  LogFrom(c2, p, k) = LogFrom(c, p, k)
<1>1. {i \in 1..k : c2.channels[i].peer = p} = {i \in 1..k : c.channels[i].peer = p}
  OBVIOUS
<1> QED
  BY <1>1 DEF LogFrom

\* c2 is the cut c with the record r behind its log.
Logs(c, c2, r) == c2.received = c.received /\ c2.channels = Append(c.channels, r)

\* A message recorded with the next number of its channel (ReceiveData).
LEMMA LogAppend ==
    ASSUME NEW c, NEW c2, NEW r, IsSeq(c.channels), ContiguousLog(c),
           c.received[r.peer] \in Nat, r.sequence = Frontier(c, r.peer) + 1, Logs(c, c2, r)
    PROVE  /\ ContiguousLog(c2)
           /\ Frontier(c2, r.peer) = Frontier(c, r.peer) + 1
           /\ \A p : p # r.peer => Frontier(c2, p) = Frontier(c, p)
<1>1. PICK k : k = Len(c.channels)
  OBVIOUS
<1>0. c2.received = c.received /\ c2.channels = Append(c.channels, r)
  BY DEF Logs
<1>2. /\ IsSeq(c2.channels) /\ k \in Nat /\ Len(c2.channels) = k + 1
      /\ \A i \in 1..k : c2.channels[i] = c.channels[i]
      /\ c2.channels[k + 1] = r
  BY <1>0, <1>1, AppendAny
<1>3. DOMAIN c2.channels = 1..(k + 1) /\ DOMAIN c.channels = 1..k
  BY <1>1, <1>2, DomainAny
<1>4. \A p : \A i \in 1..k : LogFrom(c2, p, i) = LogFrom(c, p, i)
  BY <1>2, LogSame
<1>5. \A p : LogFrom(c2, p, k) = LogFrom(c, p, k)
  BY <1>2, LogSame
<1>6. \A p : LogFrom(c, p, k) \in Nat /\ LogFrom(c2, p, k + 1) =
                 LogFrom(c, p, k) + (IF r.peer = p THEN 1 ELSE 0)
  BY <1>2, <1>5, LogGrows
<1>7. Frontier(c2, r.peer) = Frontier(c, r.peer) + 1
  BY <1>0, <1>1, <1>2, <1>6 DEF Frontier
<1>8. \A p : p # r.peer => Frontier(c2, p) = Frontier(c, p)
  <2> TAKE p
  <2> HAVE p # r.peer
  <2>1. LogFrom(c2, p, k + 1) = LogFrom(c, p, k)
    BY <1>6
  <2> QED
    BY <1>0, <1>1, <1>2, <2>1 DEF Frontier
<1>9. ContiguousLog(c2)
  <2> SUFFICES ASSUME NEW i \in 1..(k + 1)
               PROVE  c2.channels[i].sequence =
                          c2.received[c2.channels[i].peer] + LogFrom(c2, c2.channels[i].peer, i)
    BY <1>3 DEF ContiguousLog
  <2>1. CASE i \in 1..k
    <3>1. c.channels[i].sequence =
              c.received[c.channels[i].peer] + LogFrom(c, c.channels[i].peer, i)
      BY <1>3, <2>1 DEF ContiguousLog
    <3> QED
      BY <1>0, <1>2, <1>4, <2>1, <3>1
  <2>2. CASE i = k + 1
    <3>1. c2.channels[i] = r
      BY <1>2, <2>2
    <3>2. Frontier(c2, r.peer) = c2.received[r.peer] + LogFrom(c2, r.peer, i)
      BY <1>2, <2>2 DEF Frontier
    <3> QED
      BY <1>7, <3>1, <3>2
  <2> QED
    BY <1>2, <2>1, <2>2
<1> QED
  BY <1>7, <1>8, <1>9

\* The cut of a node that has just started: nothing is recorded yet.
LEMMA LogEmpty ==
    ASSUME NEW c, c.channels = << >>
    PROVE  /\ ContiguousLog(c)
           /\ \A p : c.received[p] \in Nat => Frontier(c, p) = c.received[p]
<1>1. \A p : LogFrom(c, p, 0) = 0
  BY LogGrows
<1>2. DOMAIN c.channels = {}
  BY EmptyAny, DomainAny
<1> QED
  BY <1>1, <1>2, EmptyAny DEF ContiguousLog, Frontier

\* A recorded channel is counted with a number.
LEMMA FrontierNat ==
    ASSUME NEW c, NEW p, IsSeq(c.channels), c.received[p] \in Nat
    PROVE  Frontier(c, p) \in Nat
  BY DomainAny, LogGrows DEF Frontier

-----------------------------------------------------------------------------
(***************************************************************************)
(* The marker algorithm                                                    *)
(***************************************************************************)
\* A cut stays right while its node, its log and its senders' cuts stay.
LEMMA CutFrame ==
    ASSUME NEW n, NEW rec, NEW st, NEW cut, NEW mb, NEW rec2, NEW st2, NEW cut2, NEW mb2,
           CutOK(n, rec, st, cut, mb),
           cut2[n] = cut[n], mb2[n] = mb[n],
           \A p \in Peers[n] : p \in st => p \in st2 /\ cut2[p].sent[n] = cut[p].sent[n],
           \A p \in Peers[n] : p \notin mb[n] => rec2[n][p] = rec[n][p]
    PROVE  CutOK(n, rec2, st2, cut2, mb2)
  BY DEF CutOK

\* A channel stays right while its messages and both its ends stay.
LEMMA LinkFrame ==
    ASSUME NEW p, NEW n, NEW rec, NEW snt, NEW st, NEW cut, NEW mb, NEW ch, NEW e,
           NEW rec2, NEW snt2, NEW st2, NEW cut2, NEW mb2, NEW ch2,
           LinkOK(p, n, rec, snt, st, cut, mb, ch, e),
           ch2[p][n] = ch[p][n], rec2[n][p] = rec[n][p], snt2[p][n] = snt[p][n],
           p \in st => p \in st2 /\ cut2[p].sent[n] = cut[p].sent[n],
           p \in mb2[n] => p \in mb[n]
    PROVE  LinkOK(p, n, rec2, snt2, st2, cut2, mb2, ch2, e)
  BY DEF LinkOK

\* A step that changes nothing of it but the nodes that still take messages.
LEMMA CoreFrame ==
    ASSUME NEW rec, NEW snt, NEW st, NEW cut, NEW mb, NEW ch, NEW live, NEW e,
           NEW rec2, NEW snt2, NEW st2, NEW cut2, NEW mb2, NEW ch2, NEW live2,
           Core(rec, snt, st, cut, mb, ch, live, e),
           \A a \in Nodes : /\ rec2[a] = rec[a] /\ snt2[a] = snt[a] /\ mb2[a] = mb[a]
                            /\ a \in st2 <=> a \in st
                            /\ a \in st => cut2[a] = cut[a]
                            /\ a \in live2 => a \in live
           ,
           \A a \in Nodes : a \in live2 => \A b \in Peers[a] : ch2[b][a] = ch[b][a]
    PROVE  Core(rec2, snt2, st2, cut2, mb2, ch2, live2, e)
<1>0. \A a \in Nodes : Peers[a] \subseteq Nodes
  BY TopologyAssumption
<1>1. ASSUME NEW a \in Nodes
      PROVE  /\ rec2[a] \in [Peers[a] -> Nat] /\ snt2[a] \in [Peers[a] -> Nat]
             /\ mb2[a] \subseteq Peers[a]
             /\ a \in st2 => CutOK(a, rec2, st2, cut2, mb2)
             /\ a \notin st2 => mb2[a] = {}
  <2>1. a \in st2 => CutOK(a, rec2, st2, cut2, mb2)
    <3> HAVE a \in st2
    <3>1. CutOK(a, rec, st, cut, mb)
      BY <1>1 DEF Core
    <3>2. \A p \in Peers[a] : p \in st => p \in st2 /\ cut2[p].sent[a] = cut[p].sent[a]
      BY <1>0, <1>1
    <3> QED
      BY <1>1, <3>1, <3>2, CutFrame
  <2> QED
    BY <1>1, <2>1 DEF Core
<1>2. ASSUME NEW a \in Nodes, a \in live2, NEW b \in Peers[a]
      PROVE  LinkOK(b, a, rec2, snt2, st2, cut2, mb2, ch2, e)
  <2>1. LinkOK(b, a, rec, snt, st, cut, mb, ch, e)
    BY <1>2 DEF Core
  <2>2. b \in Nodes
    BY <1>0, <1>2
  <2> QED
    BY <1>2, <2>1, <2>2, LinkFrame
<1> QED
  BY <1>1, <1>2 DEF Core

\* Steps on the channels and on the counters: a message m from n behind the
\* channel to p; the front of p's channel to n taken; a marker from n behind
\* each of its channels; counter f of n and p set to k.
Sends(ch, ch2, n, p, m) ==
    /\ ch2[n][p] = Append(ch[n][p], m)
    /\ \A a \in Nodes : \A b \in Peers[a] : a # n \/ b # p => ch2[a][b] = ch[a][b]
Polls(ch, ch2, p, n) ==
    /\ ch2[p][n] = Tail(ch[p][n])
    /\ \A a \in Nodes : \A b \in Peers[a] : a # p \/ b # n => ch2[a][b] = ch[a][b]
SendsMarkers(ch, ch2, n, snt, e) ==
    /\ \A b \in Peers[n] : ch2[n][b] = Append(ch[n][b], Marker(snt[n][b], e))
    /\ \A a \in Nodes : \A b \in Peers[a] : a # n => ch2[a][b] = ch[a][b]
Counts(f, f2, n, p, k) ==
    /\ f2[n] \in [Peers[n] -> Nat] /\ f2[n][p] = k
    /\ \A b \in Peers[n] : b # p => f2[n][b] = f[n][b]
    /\ \A a \in Nodes : a # n => f2[a] = f[a]

\* n sends p a data message.
LEMMA CoreSend ==
    ASSUME NEW rec, NEW snt, NEW st, NEW cut, NEW mb, NEW ch, NEW live, NEW e,
           NEW snt2, NEW ch2, NEW n \in Nodes, NEW p \in Peers[n], NEW m,
           Core(rec, snt, st, cut, mb, ch, live, e),
           m.kind = "data", m.sequence = snt[n][p] + 1,
           Counts(snt, snt2, n, p, m.sequence), Sends(ch, ch2, n, p, m)
    PROVE  Core(rec, snt2, st, cut, mb, ch2, live, e)
<1> USE DEF Counts, Sends
<1>0. \A a \in Nodes : Peers[a] \subseteq Nodes /\ \A b \in Peers[a] : a \in Peers[b]
  BY TopologyAssumption
<1>1. \A a \in Nodes : /\ rec[a] \in [Peers[a] -> Nat] /\ snt2[a] \in [Peers[a] -> Nat]
                       /\ mb[a] \subseteq Peers[a]
                       /\ a \in st => CutOK(a, rec, st, cut, mb)
                       /\ a \notin st => mb[a] = {}
  BY DEF Core
<1>2. ASSUME NEW a \in Nodes, a \in live, NEW b \in Peers[a]
      PROVE  LinkOK(b, a, rec, snt2, st, cut, mb, ch2, e)
  <2>1. LinkOK(b, a, rec, snt, st, cut, mb, ch, e)
    BY <1>2 DEF Core
  <2>2. b \in Nodes /\ a \in Peers[b]
    BY <1>0, <1>2
  <2>3. CASE b = n /\ a = p
    <3>1. PICK q : q = ch[b][a]
      OBVIOUS
    <3>2. Numbered(q, rec[a][b], snt[b][a]) /\ IsSeq(q)
      BY <2>1, <3>1 DEF LinkOK, Numbered
    <3>3. Step(m) = 1
      BY DEF Step
    <3>4. Numbered(Append(q, m), rec[a][b], m.sequence)
      BY <2>3, <3>2, <3>3, NumberedAppend
    <3>5. PICK k : k = cut[b].sent[a]
      OBVIOUS
    <3>6. NoMarker(q) => NoMarker(Append(q, m))
      BY <3>2, MarkerAppend
    <3>7. OneMarker(q, e, k) => OneMarker(Append(q, m), e, k)
      BY <3>2, MarkerAppend
    <3>8. ch2[b][a] = Append(q, m) /\ snt2[b][a] = m.sequence
      BY <2>3, <3>1
    <3> QED
      BY <2>1, <3>1, <3>4, <3>5, <3>6, <3>7, <3>8 DEF LinkOK
  <2>4. CASE b # n \/ a # p
    <3>1. ch2[b][a] = ch[b][a] /\ snt2[b][a] = snt[b][a]
      BY <2>2, <2>4
    <3> QED
      BY <2>1, <3>1, LinkFrame
  <2> QED
    BY <2>3, <2>4
<1> QED
  BY <1>1, <1>2 DEF Core

\* n takes a data message of p; it goes into n's cut while p's channel is open.
LEMMA CoreReceive ==
    ASSUME NEW rec, NEW snt, NEW st, NEW cut, NEW mb, NEW ch, NEW live, NEW e,
           NEW rec2, NEW cut2, NEW ch2, NEW n \in Nodes, NEW p \in Peers[n], NEW r,
           Core(rec, snt, st, cut, mb, ch, live, e),
           n \in live, ch[p][n] # << >>, ch[p][n][1].kind = "data",
           Counts(rec, rec2, n, p, rec[n][p] + 1), Polls(ch, ch2, p, n),
           \A a \in st : a # n => cut2[a] = cut[a],
           n \in st /\ p \in mb[n] => cut2[n] = cut[n],
           n \in st /\ p \notin mb[n] =>
               /\ SnapShape(n, cut2[n]) /\ r.peer = p /\ r.sequence = rec[n][p] + 1
               /\ cut2[n].sent = cut[n].sent /\ cut2[n].markers = cut[n].markers
               /\ Logs(cut[n], cut2[n], r)
    PROVE  Core(rec2, snt, st, cut2, mb, ch2, live, e)
<1> USE DEF Counts, Polls
<1>0. \A a \in Nodes : Peers[a] \subseteq Nodes /\ \A b \in Peers[a] : a \in Peers[b] /\ b # a
  BY TopologyAssumption
<1>1. \A a \in st : \A b : cut2[a].sent[b] = cut[a].sent[b]
  OBVIOUS
<1>2. ASSUME NEW a \in Nodes
      PROVE  /\ rec2[a] \in [Peers[a] -> Nat] /\ snt[a] \in [Peers[a] -> Nat]
             /\ mb[a] \subseteq Peers[a]
             /\ a \in st => CutOK(a, rec2, st, cut2, mb)
             /\ a \notin st => mb[a] = {}
  <2>1. /\ rec[a] \in [Peers[a] -> Nat] /\ snt[a] \in [Peers[a] -> Nat]
        /\ mb[a] \subseteq Peers[a]
        /\ a \in st => CutOK(a, rec, st, cut, mb)
        /\ a \notin st => mb[a] = {}
    BY <1>2 DEF Core
  <2>2. rec2[a] \in [Peers[a] -> Nat]
    BY <1>2, <2>1
  <2>3. ASSUME a \in st PROVE CutOK(a, rec2, st, cut2, mb)
    <3>1. CASE a # n
      BY <1>1, <1>2, <2>1, <2>3, <3>1, CutFrame
    <3>2. CASE a = n /\ p \in mb[n]
      <4>1. cut2[a] = cut[a] /\ CutOK(a, rec, st, cut, mb)
        BY <2>1, <2>3, <3>2
      <4>2. \A b \in Peers[a] : b \notin mb[a] => rec2[a][b] = rec[a][b]
        BY <3>2
      <4>3. \A b \in Peers[a] : b \in st => b \in st /\ cut2[b].sent[a] = cut[b].sent[a]
        BY <1>1
      <4> QED
        BY <4>1, <4>2, <4>3, CutFrame
    <3>3. CASE a = n /\ p \notin mb[n]
      <4>1. PICK c : c = cut[n]
        OBVIOUS
      <4>2. PICK c2 : c2 = cut2[n]
        OBVIOUS
      <4>3. CutOK(n, rec, st, cut, mb)
        BY <2>1, <2>3, <3>3
      <4>4. IsSeq(c.channels) /\ ContiguousLog(c) /\ c.received[p] \in Nat
            /\ DOMAIN c.markers = mb[n] /\ rec[n][p] = Frontier(c, p)
        BY <3>3, <4>1, <4>3 DEF CutOK, SnapShape
      <4>5. /\ r.peer = p /\ r.sequence = rec[n][p] + 1 /\ SnapShape(n, c2)
            /\ c2.sent = c.sent /\ c2.markers = c.markers /\ Logs(c, c2, r)
        BY <2>3, <3>3, <4>1, <4>2
      <4>6. /\ ContiguousLog(c2) /\ Frontier(c2, p) = Frontier(c, p) + 1
            /\ \A b : b # p => Frontier(c2, b) = Frontier(c, b)
        <5>1. c.received[r.peer] \in Nat /\ r.sequence = Frontier(c, r.peer) + 1
          BY <4>4, <4>5
        <5>2. /\ ContiguousLog(c2) /\ Frontier(c2, r.peer) = Frontier(c, r.peer) + 1
              /\ \A b : b # r.peer => Frontier(c2, b) = Frontier(c, b)
          <6>1. IsSeq(c.channels) /\ ContiguousLog(c)
            BY <4>4
          <6>2. Logs(c, c2, r)
            BY <4>5
          <6> QED
            BY <5>1, <6>1, <6>2, LogAppend
        <5> QED
          BY <4>5, <5>2
      <4>7. ASSUME NEW b \in Peers[n]
            PROVE  IF b \in mb[n]
                   THEN /\ b \in st /\ c2.markers[b] = Frontier(c2, b)
                        /\ cut2[b].sent[n] = Frontier(c2, b)
                   ELSE rec2[n][b] = Frontier(c2, b)
        <5>1. IF b \in mb[n]
              THEN /\ b \in st /\ c.markers[b] = Frontier(c, b)
                   /\ cut[b].sent[n] = Frontier(c, b)
              ELSE rec[n][b] = Frontier(c, b)
          BY <4>1, <4>3, <4>7 DEF CutOK
        <5>2. CASE b = p
          BY <3>3, <4>4, <4>6, <5>2
        <5>3. CASE b # p
          BY <1>1, <4>5, <4>6, <4>7, <5>1, <5>3
        <5> QED
          BY <5>2, <5>3
      <4> QED
        BY <3>3, <4>2, <4>4, <4>5, <4>6, <4>7 DEF CutOK
    <3> QED
      BY <3>1, <3>2, <3>3
  <2> QED
    BY <2>1, <2>2, <2>3
<1>3. ASSUME NEW a \in Nodes, a \in live, NEW b \in Peers[a]
      PROVE  LinkOK(b, a, rec2, snt, st, cut2, mb, ch2, e)
  <2>1. LinkOK(b, a, rec, snt, st, cut, mb, ch, e)
    BY <1>3 DEF Core
  <2>2. b \in Nodes /\ a \in Peers[b]
    BY <1>0, <1>3
  <2>3. CASE b = p /\ a = n
    <3>1. PICK q : q = ch[b][a]
      OBVIOUS
    <3>2. Numbered(q, rec[a][b], snt[b][a]) /\ IsSeq(q) /\ q # << >> /\ q[1].kind = "data"
      BY <2>1, <2>3, <3>1 DEF LinkOK, Numbered
    <3>3. Step(q[1]) = 1
      BY <3>2 DEF Step
    <3>4. q[1].sequence = rec[a][b] + 1 /\ Numbered(Tail(q), q[1].sequence, snt[b][a])
      BY <3>2, <3>3, NumberedTail
    <3>5. PICK k : k = cut[b].sent[a]
      OBVIOUS
    <3>6. NoMarker(q) => NoMarker(Tail(q))
      BY <3>2, MarkerTail
    <3>7. OneMarker(q, e, k) => OneMarker(Tail(q), e, k)
      BY <3>2, MarkerTail
    <3>8. ch2[b][a] = Tail(q) /\ rec2[a][b] = q[1].sequence /\ (b \in st => k = cut2[b].sent[a])
      BY <1>1, <2>3, <3>1, <3>4, <3>5
    <3> QED
      BY <2>1, <3>1, <3>4, <3>5, <3>6, <3>7, <3>8 DEF LinkOK
  <2>4. CASE b # p \/ a # n
    <3>1. ch2[b][a] = ch[b][a] /\ rec2[a][b] = rec[a][b]
      BY <1>3, <2>2, <2>4
    <3> QED
      BY <1>1, <2>1, <3>1, LinkFrame
  <2> QED
    BY <2>3, <2>4
<1> QED
  BY <1>2, <1>3 DEF Core

\* n takes its cut and sends a marker to all peers, behind everything sent.
LEMMA CoreTake ==
    ASSUME NEW rec, NEW snt, NEW st, NEW cut, NEW mb, NEW ch, NEW live, NEW e,
           NEW st2, NEW cut2, NEW ch2, NEW n \in Nodes,
           Core(rec, snt, st, cut, mb, ch, live, e),
           n \notin st, \A a \in Nodes : a \in st2 <=> (a \in st \/ a = n),
           \A a \in st : cut2[a] = cut[a],
           SnapShape(n, cut2[n]), cut2[n].channels = << >>, DOMAIN cut2[n].markers = {},
           cut2[n].received = rec[n], cut2[n].sent = snt[n],
           SendsMarkers(ch, ch2, n, snt, e)
    PROVE  Core(rec, snt, st2, cut2, mb, ch2, live, e)
<1> USE DEF SendsMarkers
<1>0. \A a \in Nodes : Peers[a] \subseteq Nodes /\ \A b \in Peers[a] : a \in Peers[b] /\ b # a
  BY TopologyAssumption
<1>1. \A a \in Nodes : n \notin mb[a] /\ mb[n] = {}
  <2> TAKE a \in Nodes
  <2>1. a \in st => CutOK(a, rec, st, cut, mb)
    BY DEF Core
  <2>2. mb[a] \subseteq Peers[a] /\ (a \notin st => mb[a] = {}) /\ mb[n] = {}
    BY DEF Core
  <2> QED
    BY <2>1, <2>2 DEF CutOK
<1>2. ASSUME NEW a \in Nodes
      PROVE  /\ rec[a] \in [Peers[a] -> Nat] /\ snt[a] \in [Peers[a] -> Nat]
             /\ mb[a] \subseteq Peers[a]
             /\ a \in st2 => CutOK(a, rec, st2, cut2, mb)
             /\ a \notin st2 => mb[a] = {}
  <2>1. /\ rec[a] \in [Peers[a] -> Nat] /\ snt[a] \in [Peers[a] -> Nat]
        /\ mb[a] \subseteq Peers[a]
        /\ a \in st => CutOK(a, rec, st, cut, mb)
        /\ a \notin st => mb[a] = {}
    BY <1>2 DEF Core
  <2>2. CASE a \in st
    <3>1. a # n /\ CutOK(a, rec, st, cut, mb) /\ cut2[a] = cut[a]
      BY <2>1, <2>2
    <3>2. \A p \in Peers[a] : p \in st => p \in st2 /\ cut2[p].sent[a] = cut[p].sent[a]
      BY <1>0, <1>2
    <3>3. CutOK(a, rec, st2, cut2, mb)
      BY <3>1, <3>2, CutFrame
    <3> QED
      BY <1>2, <2>1, <2>2, <3>3
  <2>3. CASE a = n
    <3>1. PICK c : c = cut2[n]
      OBVIOUS
    <3>2. ContiguousLog(c) /\ \A b \in Peers[n] : rec[n][b] = Frontier(c, b)
      BY <2>1, <2>3, <3>1, LogEmpty
    <3>3. CutOK(n, rec, st2, cut2, mb)
      BY <1>1, <3>1, <3>2 DEF CutOK
    <3> QED
      BY <2>1, <2>3, <3>3
  <2>4. CASE a \notin st /\ a # n
    BY <1>2, <2>1, <2>4
  <2> QED
    BY <2>2, <2>3, <2>4
<1>3. ASSUME NEW a \in Nodes, a \in live, NEW b \in Peers[a]
      PROVE  LinkOK(b, a, rec, snt, st2, cut2, mb, ch2, e)
  <2>1. LinkOK(b, a, rec, snt, st, cut, mb, ch, e)
    BY <1>3 DEF Core
  <2>2. b \in Nodes /\ a \in Peers[b]
    BY <1>0, <1>3
  <2>3. CASE b = n
    <3>1. PICK q : q = ch[b][a]
      OBVIOUS
    <3>2. Numbered(q, rec[a][b], snt[b][a]) /\ IsSeq(q) /\ NoMarker(q) /\ snt[b][a] \in Nat
      BY <2>1, <2>3, <3>1 DEF LinkOK, Numbered
    <3>3. PICK m : m = Marker(snt[b][a], e)
      OBVIOUS
    <3>4. m.kind = "marker" /\ m.sequence = snt[b][a] /\ m.epoch = e
      BY <3>3 DEF Marker
    <3>5. m.sequence = snt[b][a] + Step(m)
      BY <3>2, <3>4 DEF Step
    <3>6. Numbered(Append(q, m), rec[a][b], snt[b][a])
      BY <3>2, <3>4, <3>5, NumberedAppend
    <3>7. OneMarker(Append(q, m), e, snt[b][a])
      BY <3>2, <3>4, MarkerAppend
    <3>8. ch2[b][a] = Append(q, m) /\ cut2[b].sent[a] = snt[b][a] /\ b \in st2 /\ b \notin mb[a]
      BY <1>1, <1>3, <2>2, <2>3, <3>1, <3>3
    <3> QED
      BY <3>6, <3>7, <3>8 DEF LinkOK
  <2>4. CASE b # n
    <3>1. ch2[b][a] = ch[b][a] /\ (b \in st => b \in st2 /\ cut2[b].sent[a] = cut[b].sent[a])
      BY <2>2, <2>4
    <3> QED
      BY <2>1, <3>1, LinkFrame
  <2> QED
    BY <2>3, <2>4
<1> QED
  BY <1>2, <1>3 DEF Core

\* What n finds when the front of a channel is a marker: it carries the number
\* of the last message received and the current epoch, and is p's first.
LEMMA MarkerAtFront ==
    ASSUME NEW rec, NEW snt, NEW st, NEW cut, NEW mb, NEW ch, NEW live, NEW e,
           NEW n \in Nodes, NEW p \in Peers[n],
           Core(rec, snt, st, cut, mb, ch, live, e),
           n \in live, ch[p][n] # << >>, ch[p][n][1].kind = "marker"
    PROVE  /\ ch[p][n][1].sequence = rec[n][p] /\ ch[p][n][1].epoch = e
           /\ p \in st /\ p \notin mb[n] /\ cut[p].sent[n] = rec[n][p]
           /\ Numbered(Tail(ch[p][n]), rec[n][p], snt[p][n]) /\ NoMarker(Tail(ch[p][n]))
<1>1. PICK q : q = ch[p][n]
  OBVIOUS
<1>2. LinkOK(p, n, rec, snt, st, cut, mb, ch, e)
  BY DEF Core
<1>3. Numbered(q, rec[n][p], snt[p][n]) /\ IsSeq(q) /\ q # << >> /\ q[1].kind = "marker"
      /\ rec[n][p] \in Nat
  BY <1>1, <1>2 DEF LinkOK, Numbered
<1>4. Step(q[1]) = 0
  BY <1>3 DEF Step
<1>5. q[1].sequence = rec[n][p] /\ Numbered(Tail(q), rec[n][p], snt[p][n])
  BY <1>3, <1>4, NumberedTail
<1>6. ~NoMarker(q)
  BY <1>3, MarkerTail
<1>7. PICK k : k = cut[p].sent[n]
  OBVIOUS
<1>8. p \in st /\ p \notin mb[n] /\ OneMarker(q, e, k)
  BY <1>1, <1>2, <1>6, <1>7 DEF LinkOK
<1>9. NoMarker(Tail(q)) /\ q[1].epoch = e /\ q[1].sequence = k
  BY <1>3, <1>8, MarkerTail
<1> QED
  BY <1>1, <1>5, <1>7, <1>8, <1>9

\* n counts the marker of p, which closes p's channel in n's cut.
LEMMA CoreMark ==
    ASSUME NEW rec, NEW snt, NEW st, NEW cut, NEW mb, NEW ch, NEW live, NEW e,
           NEW cut2, NEW mb2, NEW ch2, NEW n \in Nodes, NEW p \in Peers[n],
           Core(rec, snt, st, cut, mb, ch, live, e),
           n \in live, ch[p][n] # << >>, ch[p][n][1].kind = "marker", n \in st,
           Polls(ch, ch2, p, n),
           \A a \in st : a # n => cut2[a] = cut[a],
           SnapShape(n, cut2[n]),
           cut2[n].received = cut[n].received, cut2[n].sent = cut[n].sent,
           cut2[n].channels = cut[n].channels,
           DOMAIN cut2[n].markers = mb[n] \cup {p}, cut2[n].markers[p] = rec[n][p],
           \A b \in mb[n] : b # p => cut2[n].markers[b] = cut[n].markers[b],
           \A a \in Nodes : a # n => mb2[a] = mb[a],
           mb2[n] = mb[n] \cup {p}
    PROVE  Core(rec, snt, st, cut2, mb2, ch2, live, e)
<1> USE DEF Polls
<1>0. \A a \in Nodes : Peers[a] \subseteq Nodes /\ \A b \in Peers[a] : a \in Peers[b] /\ b # a
  BY TopologyAssumption
<1>1. \A a \in st : \A b : cut2[a].sent[b] = cut[a].sent[b]
  OBVIOUS
<1>2. /\ p \in st /\ p \notin mb[n] /\ cut[p].sent[n] = rec[n][p]
      /\ Numbered(Tail(ch[p][n]), rec[n][p], snt[p][n]) /\ NoMarker(Tail(ch[p][n]))
  BY MarkerAtFront
<1>3. ASSUME NEW a \in Nodes
      PROVE  /\ rec[a] \in [Peers[a] -> Nat] /\ snt[a] \in [Peers[a] -> Nat]
             /\ mb2[a] \subseteq Peers[a]
             /\ a \in st => CutOK(a, rec, st, cut2, mb2)
             /\ a \notin st => mb2[a] = {}
  <2>1. /\ rec[a] \in [Peers[a] -> Nat] /\ snt[a] \in [Peers[a] -> Nat]
        /\ mb[a] \subseteq Peers[a]
        /\ a \in st => CutOK(a, rec, st, cut, mb)
        /\ a \notin st => mb[a] = {}
    BY <1>3 DEF Core
  <2>2. CASE a # n
    <3>1. a \in st => CutOK(a, rec, st, cut2, mb2)
      BY <1>1, <1>3, <2>1, <2>2, CutFrame
    <3> QED
      BY <1>3, <2>1, <2>2, <3>1
  <2>3. CASE a = n
    <3>1. CutOK(n, rec, st, cut, mb)
      BY <2>1, <2>3
    <3>2. PICK c : c = cut[n]
      OBVIOUS
    <3>3. PICK c2 : c2 = cut2[n]
      OBVIOUS
    <3>4. ContiguousLog(c2) /\ \A b : Frontier(c2, b) = Frontier(c, b)
      <4>1. c2.received = c.received /\ c2.channels = c.channels /\ ContiguousLog(c)
        BY <3>1, <3>2, <3>3 DEF CutOK
      <4>2. \A b, k : LogFrom(c2, b, k) = LogFrom(c, b, k)
        BY <4>1 DEF LogFrom
      <4> QED
        BY <4>1, <4>2 DEF ContiguousLog, Frontier
    <3>5. ASSUME NEW b \in Peers[n]
          PROVE  IF b \in mb2[n]
                 THEN /\ b \in st /\ c2.markers[b] = Frontier(c2, b)
                      /\ cut2[b].sent[n] = Frontier(c2, b)
                 ELSE rec[n][b] = Frontier(c2, b)
      <4>1. IF b \in mb[n]
            THEN /\ b \in st /\ c.markers[b] = Frontier(c, b)
                 /\ cut[b].sent[n] = Frontier(c, b)
            ELSE rec[n][b] = Frontier(c, b)
        BY <3>1, <3>2, <3>5 DEF CutOK
      <4>2. CASE b = p
        BY <1>1, <1>2, <3>3, <3>4, <4>1, <4>2
      <4>3. CASE b # p
        BY <1>1, <3>2, <3>3, <3>4, <4>1, <4>3
      <4> QED
        BY <4>2, <4>3
    <3>6. CutOK(n, rec, st, cut2, mb2)
      BY <3>3, <3>4, <3>5 DEF CutOK
    <3> QED
      BY <2>1, <2>3, <3>6
  <2> QED
    BY <2>2, <2>3
<1>4. ASSUME NEW a \in Nodes, a \in live, NEW b \in Peers[a]
      PROVE  LinkOK(b, a, rec, snt, st, cut2, mb2, ch2, e)
  <2>1. LinkOK(b, a, rec, snt, st, cut, mb, ch, e)
    BY <1>4 DEF Core
  <2>2. b \in Nodes /\ a \in Peers[b]
    BY <1>0, <1>4
  <2>3. CASE b = p /\ a = n
    BY <1>2, <2>3 DEF LinkOK
  <2>4. CASE b # p \/ a # n
    <3>1. ch2[b][a] = ch[b][a] /\ (b \in mb2[a] => b \in mb[a])
      BY <1>4, <2>2, <2>4
    <3> QED
      BY <1>1, <2>1, <3>1, LinkFrame
  <2> QED
    BY <2>3, <2>4
<1> QED
  BY <1>3, <1>4 DEF Core

\* A new epoch: no cut of it is taken and no marker is on its way.
LEMMA CoreBegin ==
    ASSUME NEW rec, NEW snt, NEW st, NEW cut, NEW mb, NEW ch, NEW live, NEW e,
           NEW st2, NEW cut2, NEW mb2, NEW e2,
           Core(rec, snt, st, cut, mb, ch, live, e),
           (\A a \in Nodes : a \notin st) \/ (\A a \in Nodes : mb[a] = Peers[a]),
           \A a \in Nodes : a \notin st2 /\ mb2[a] = {}
    PROVE  Core(rec, snt, st2, cut2, mb2, ch, live, e2)
<1>0. \A a \in Nodes : Peers[a] \subseteq Nodes
  BY TopologyAssumption
<1>1. ASSUME NEW a \in Nodes, a \in live, NEW b \in Peers[a]
      PROVE  LinkOK(b, a, rec, snt, st2, cut2, mb2, ch, e2)
  <2>1. LinkOK(b, a, rec, snt, st, cut, mb, ch, e)
    BY <1>1 DEF Core
  <2>2. NoMarker(ch[b][a])
    BY <1>0, <1>1, <2>1 DEF LinkOK
  <2> QED
    BY <2>1, <2>2 DEF LinkOK
<1> QED
  BY <1>1 DEF Core

\* Once every node has its cut and every channel is closed, the cuts are one
\* consistent global snapshot.
LEMMA CoreGlobal ==
    ASSUME NEW rec, NEW snt, NEW st, NEW cut, NEW mb, NEW ch, NEW live, NEW e, NEW snapshots,
           Core(rec, snt, st, cut, mb, ch, live, e),
           \A a \in Nodes : a \in st /\ mb[a] = Peers[a] /\ snapshots[a] = cut[a]
    PROVE  ValidateGlobal(snapshots)
<1>0. \A a \in Nodes : Peers[a] \subseteq Nodes
  BY TopologyAssumption
<1>1. ASSUME NEW a \in Nodes
      PROVE  /\ ContiguousLog(snapshots[a])
             /\ \A p \in Peers[a] :
                    /\ snapshots[p].sent[a] = Frontier(snapshots[a], p)
                    /\ DOMAIN snapshots[a].markers = Peers[a]
                    /\ snapshots[a].markers[p] = Frontier(snapshots[a], p)
  <2>1. CutOK(a, rec, st, cut, mb)
    BY <1>1 DEF Core
  <2> QED
    BY <1>0, <1>1, <2>1 DEF CutOK
<1> QED
  BY <1>1 DEF ValidateGlobal

\* Nodes restored from a global snapshot that was validated: what one has sent
\* is what the other receives, its log included.
LEMMA CoreRestored ==
    ASSUME NEW rec, NEW snt, NEW st, NEW cut, NEW mb, NEW ch, NEW live, NEW e,
           \A a \in Nodes : /\ rec[a] \in [Peers[a] -> Nat] /\ snt[a] \in [Peers[a] -> Nat]
                            /\ a \notin st /\ mb[a] = {}
                            /\ \A b \in Peers[a] : snt[b][a] = rec[a][b] /\ ch[b][a] = << >>
    PROVE  Core(rec, snt, st, cut, mb, ch, live, e)
<1>1. ASSUME NEW a \in Nodes, NEW b \in Peers[a]
      PROVE  LinkOK(b, a, rec, snt, st, cut, mb, ch, e)
  <2>1. Numbered(<< >>, rec[a][b], rec[a][b]) /\ NoMarker(<< >>)
    BY <1>1, NumberedEmpty
  <2> QED
    BY <1>1, <2>1 DEF LinkOK
<1> QED
  BY <1>1 DEF Core

-----------------------------------------------------------------------------
(***************************************************************************)
(* The state of a node                                                     *)
(***************************************************************************)
\* A snapshot is not the absence of one.
LEMMA SnapNotNone == ASSUME NEW n, NEW c, SnapShape(n, c) PROVE c # None
<1>1. MaxEpoch \in Nat
  BY TopologyAssumption
<1>2. c.epoch # 0
  BY <1>1 DEF SnapShape, Epochs
<1>3. None.epoch = 0
  BY DEF None
<1> QED
  BY <1>2, <1>3

\* What a validated snapshot restores to (RestoreSnapshot): each channel at its
\* frontier, no protocol error.
LEMMA RestoreShape ==
    ASSUME NEW n \in Nodes, NEW s, SnapShape(n, s), ContiguousLog(s),
           \A p \in Peers[n] : DOMAIN s.markers = Peers[n] /\ s.markers[p] = Frontier(s, p)
    PROVE  /\ IsNode(n, RestoreSnapshot(n, s)) /\ RestoreSnapshot(n, s).up
           /\ RestoreSnapshot(n, s).active = None /\ RestoreSnapshot(n, s).completed = None
           /\ RestoreSnapshot(n, s).marked = {}
           /\ RestoreSnapshot(n, s).last_epoch = s.epoch
           /\ RestoreSnapshot(n, s).sent = s.sent
           /\ RestoreSnapshot(n, s).received = [p \in Peers[n] |-> Frontier(s, p)]
<1>1. PICK k : k = Len(s.channels)
  OBVIOUS
<1>2. k \in Nat
  BY <1>1, DomainAny DEF SnapShape
<1>3. PICK app : app = Replayed(n, s, k)
  OBVIOUS
<1>4. PICK rcv : rcv = [p \in Peers[n] |-> Frontier(s, p)]
  OBVIOUS
<1>5. rcv = [p \in Peers[n] |-> s.received[p] + LogFrom(s, p, k)]
  BY <1>1, <1>4 DEF Frontier
<1>6. rcv \in [Peers[n] -> Nat]
  <2>1. \A p \in Peers[n] : Frontier(s, p) \in Nat
    BY FrontierNat DEF SnapShape
  <2> QED
    BY <1>4, <2>1
<1>7. s.markers = rcv
  <2>1. DOMAIN s.markers = Peers[n] /\ s.markers = [p \in DOMAIN s.markers |-> s.markers[p]]
    BY DEF SnapShape
  <2>2. \A p \in Peers[n] : s.markers[p] = rcv[p]
    BY <1>4
  <2> QED
    BY <1>4, <2>1, <2>2
<1>8. PICK f : f = IF app = Thrown THEN "application" ELSE "no"
  OBVIOUS
<1>9. PICK r : r = RestoreSnapshot(n, s)
  OBVIOUS
<1>11. f # "protocol"
  BY <1>8
<1>12. /\ DOMAIN r = {"up", "failed", "received", "sent", "app", "active", "completed",
                      "marked", "last_epoch"}
       /\ r.up = TRUE /\ r.failed = f /\ r.received = rcv /\ r.sent = s.sent /\ r.app = app
       /\ r.active = None /\ r.completed = None /\ r.marked = {} /\ r.last_epoch = s.epoch
  <2>1. PICK fr : fr = FreshNode(n)
    OBVIOUS
  <2>2. DOMAIN fr = {"up", "failed", "received", "sent", "app", "active", "completed",
                     "marked", "last_epoch"}
        /\ fr.active = None /\ fr.completed = None /\ fr.marked = {}
    BY <2>1 DEF FreshNode
  <2>3. r = [fr EXCEPT !.up = TRUE, !.sent = s.sent, !.last_epoch = s.epoch,
                       !.received = rcv, !.app = app, !.failed = f]
    BY <1>1, <1>3, <1>4, <1>5, <1>7, <1>8, <1>9, <2>1 DEF RestoreSnapshot, RestoredFrom
  <2> HIDE <1>9
  <2> QED
    BY <2>2, <2>3
<1>13. IsNode(n, r)
  BY <1>6, <1>11, <1>12 DEF IsNode, SnapShape
<1> QED
  BY <1>4, <1>9, <1>12, <1>13

\* What a process that starts becomes (RestoredNode).
LEMMA RestoredShape ==
    ASSUME StoreOK, NEW n \in Nodes
    PROVE  /\ IsNode(n, RestoredNode(n)) /\ RestoredNode(n).up
           /\ RestoredNode(n).active = None /\ RestoredNode(n).completed = None
           /\ RestoredNode(n).marked = {}
           /\ RestoredNode(n).last_epoch \in 0..floor
<1>0. floor \in Nat
  BY TopologyAssumption DEF StoreOK
<1>1. CASE restored = 0
  <2>1. PICK z : z = Zero(n)
    OBVIOUS
  <2>2. z \in [Peers[n] -> Nat]
    BY <2>1 DEF Zero
  <2>3. PICK app : app = FreshApp(n)
    OBVIOUS
  <2>4. PICK r : r = RestoredNode(n)
    OBVIOUS
  <2>5. PICK fr : fr = FreshNode(n)
    OBVIOUS
  <2>6. /\ DOMAIN r = {"up", "failed", "received", "sent", "app", "active", "completed",
                       "marked", "last_epoch"}
        /\ r.up = TRUE /\ r.failed = "no" /\ r.received = z /\ r.sent = z /\ r.app = app
        /\ r.active = None /\ r.completed = None /\ r.marked = {} /\ r.last_epoch = 0
    <3>1. /\ DOMAIN fr = {"up", "failed", "received", "sent", "app", "active", "completed",
                          "marked", "last_epoch"}
          /\ fr.failed = "no" /\ fr.received = z /\ fr.sent = z /\ fr.app = app
          /\ fr.active = None /\ fr.completed = None /\ fr.marked = {} /\ fr.last_epoch = 0
      BY <2>1, <2>3, <2>5 DEF FreshNode
    <3>2. r = [fr EXCEPT !.up = TRUE]
      BY <1>1, <2>4, <2>5 DEF RestoredNode
    <3> QED
      BY <3>1, <3>2
  <2>7. IsNode(n, r)
    BY <2>2, <2>6 DEF IsNode
  <2> QED
    BY <1>0, <2>4, <2>6, <2>7
<1>2. CASE restored # 0
  <2>1. restored \in committed /\ restored =< floor /\ restored \in Epochs
        /\ AllSaved(restored) /\ ValidateGlobal(saved[restored])
    BY <1>2 DEF StoreOK
  <2>2. PICK s : s = saved[restored][n]
    OBVIOUS
  <2>3. SnapShape(n, s) /\ s.epoch = restored
    BY <2>1, <2>2 DEF StoreOK, AllSaved
  <2>4. ContiguousLog(s) /\ \A p \in Peers[n] : DOMAIN s.markers = Peers[n]
                                                /\ s.markers[p] = Frontier(s, p)
    BY <2>1, <2>2 DEF ValidateGlobal
  <2>5. RestoredNode(n) = RestoreSnapshot(n, s)
    BY <1>2, <2>2 DEF RestoredNode
  <2>6. s.epoch \in 0..floor
    BY <1>0, <2>1, <2>3, TopologyAssumption DEF Epochs
  <2>7. PICK r : r = RestoreSnapshot(n, s)
    OBVIOUS
  <2>8. /\ IsNode(n, r) /\ r.up /\ r.active = None /\ r.completed = None
        /\ r.marked = {} /\ r.last_epoch = s.epoch
    BY <2>3, <2>4, <2>7, RestoreShape
  <2> QED
    BY <2>5, <2>6, <2>7, <2>8
<1> QED
  BY <1>1, <1>2

\* The fresh cut of n.
NewCut(n, s, e) ==
    [epoch |-> e, state |-> Capture(n, s.app), received |-> s.received,
     sent |-> s.sent, markers |-> << >>, channels |-> << >>]

\* Its shape.
LEMMA NewCutShape ==
    ASSUME NEW n, NEW s, NEW e \in Epochs, IsNode(n, s)
    PROVE  /\ SnapShape(n, NewCut(n, s, e)) /\ NewCut(n, s, e).epoch = e
           /\ NewCut(n, s, e).received = s.received /\ NewCut(n, s, e).sent = s.sent
           /\ NewCut(n, s, e).channels = << >> /\ DOMAIN NewCut(n, s, e).markers = {}
<1>1. PICK x : x = Capture(n, s.app)
  OBVIOUS
<1>2. PICK z : z = << >>
  OBVIOUS
<1>3. IsSeq(z) /\ DOMAIN z = {} /\ z = [p \in DOMAIN z |-> z[p]]
  BY <1>2, EmptyAny
<1>4. PICK c : c = [epoch |-> e, state |-> x, received |-> s.received,
                    sent |-> s.sent, markers |-> z, channels |-> z]
  OBVIOUS
<1>5. /\ DOMAIN c = {"epoch", "state", "received", "sent", "markers", "channels"}
      /\ c.epoch = e /\ c.state = x /\ c.received = s.received /\ c.sent = s.sent
      /\ c.markers = z /\ c.channels = z
  BY <1>4
<1>6. SnapShape(n, c)
  BY <1>3, <1>5 DEF SnapShape, IsNode
<1>7. NewCut(n, s, e) = c
  BY <1>1, <1>2, <1>4 DEF NewCut
<1> QED
  BY <1>2, <1>3, <1>5, <1>6, <1>7

\* Start: the cut is open, nothing is marked, the rest is as it was.
LEMMA StartShape ==
    ASSUME NEW n, NEW s, NEW e \in Epochs, NEW s1, s1 = Start(n, s, e), IsNode(n, s)
    PROVE  /\ IsNode(n, s1) /\ s1.active = NewCut(n, s, e) /\ s1.marked = {}
           /\ s1.up = s.up /\ s1.failed = s.failed /\ s1.received = s.received
           /\ s1.sent = s.sent /\ s1.completed = s.completed
           /\ s1.last_epoch = s.last_epoch
<1>1. PICK c : c = NewCut(n, s, e)
  OBVIOUS
<1>2. PICK r : r = Start(n, s, e)
  OBVIOUS
<1>3. DOMAIN s = {"up", "failed", "received", "sent", "app", "active", "completed",
                  "marked", "last_epoch"}
  BY DEF IsNode
<1>4. r = [s EXCEPT !.active = c, !.marked = {}]
  BY <1>1, <1>2 DEF Start, NewCut
<1>5. /\ DOMAIN r = DOMAIN s
      /\ r.up = s.up /\ r.failed = s.failed /\ r.received = s.received /\ r.sent = s.sent
      /\ r.app = s.app /\ r.active = c /\ r.completed = s.completed /\ r.marked = {}
      /\ r.last_epoch = s.last_epoch
  BY <1>3, <1>4
<1>6. IsNode(n, r)
  BY <1>5 DEF IsNode
<1> QED
  BY <1>1, <1>2, <1>5, <1>6

\* FinishIfReady: the snapshot is complete when every channel is marked.
LEMMA FinishShape ==
    ASSUME NEW n, NEW s, NEW s2, s2 = FinishIfReady(n, s),
           IsNode(n, s), s.active # None, s.completed = None
    PROVE  /\ IsNode(n, s2) /\ s2.up = s.up /\ s2.failed = s.failed
           /\ s2.received = s.received /\ s2.sent = s.sent /\ s2.marked = s.marked
           /\ s.marked = Peers[n] => /\ s2.active = None /\ s2.completed = s.active
                                     /\ s2.last_epoch = s.active.epoch
           /\ s.marked # Peers[n] => /\ s2.active = s.active /\ s2.completed = None
                                     /\ s2.last_epoch = s.last_epoch
<1>1. CASE s.marked = Peers[n]
  <2>1. PICK r : r = FinishIfReady(n, s)
    OBVIOUS
  <2>2. DOMAIN s = {"up", "failed", "received", "sent", "app", "active", "completed",
                    "marked", "last_epoch"}
    BY DEF IsNode
  <2>3. r = [s EXCEPT !.completed = s.active, !.active = None, !.last_epoch = s.active.epoch]
    BY <1>1, <2>1 DEF FinishIfReady
  <2>4. /\ DOMAIN r = DOMAIN s
        /\ r.up = s.up /\ r.failed = s.failed /\ r.received = s.received /\ r.sent = s.sent
        /\ r.app = s.app /\ r.active = None /\ r.completed = s.active
        /\ r.marked = s.marked /\ r.last_epoch = s.active.epoch
    BY <2>2, <2>3
  <2>5. IsNode(n, r)
    BY <2>4 DEF IsNode
  <2> QED
    BY <1>1, <2>1, <2>4, <2>5
<1>2. CASE s.marked # Peers[n]
  BY <1>2 DEF FinishIfReady
<1> QED
  BY <1>1, <1>2

\* s2 is s with the marker of p, number k, counted in its cut.
Counted(p, k, s, s2) ==
    /\ s2.marked = s.marked \cup {p}
    /\ s2.active.epoch = s.active.epoch /\ s2.active.received = s.active.received
    /\ s2.active.sent = s.active.sent /\ s2.active.channels = s.active.channels
    /\ DOMAIN s2.active.markers = DOMAIN s.active.markers \cup {p}
    /\ s2.active.markers[p] = k
    /\ \A b \in DOMAIN s.active.markers : b # p => s2.active.markers[b] = s.active.markers[b]

\* The marker counted, before FinishIfReady.
WithMarker(p, m, s) ==
    [s EXCEPT !.marked = @ \cup {p},
              !.active.markers = [q \in {p} \cup DOMAIN @ |->
                                      IF q = p THEN m.sequence ELSE @[q]]]

\* What counting a marker does to a node.
LEMMA WithMarkerShape ==
    ASSUME NEW n, NEW p \in Peers[n], NEW m, NEW s, IsNode(n, s), SnapShape(n, s.active)
    PROVE  LET s2 == WithMarker(p, m, s)
           IN  /\ IsNode(n, s2) /\ s2.up = s.up /\ s2.failed = s.failed
               /\ s2.received = s.received /\ s2.sent = s.sent
               /\ s2.completed = s.completed /\ s2.last_epoch = s.last_epoch
               /\ Counted(p, m.sequence, s, s2) /\ SnapShape(n, s2.active)
<1>1. PICK c : c = s.active
  OBVIOUS
<1>2. PICK k : k = m.sequence
  OBVIOUS
<1>3. PICK g : g = [q \in {p} \cup DOMAIN c.markers |-> IF q = p THEN k ELSE c.markers[q]]
  OBVIOUS
<1>4. PICK r : r = WithMarker(p, m, s)
  OBVIOUS
<1>5. PICK c2 : c2 = r.active
  OBVIOUS
<1>6. DOMAIN s = {"up", "failed", "received", "sent", "app", "active", "completed",
                  "marked", "last_epoch"}
  BY DEF IsNode
<1>7. DOMAIN c = {"epoch", "state", "received", "sent", "markers", "channels"}
  BY <1>1 DEF SnapShape
<1>8. r = [s EXCEPT !.marked = s.marked \cup {p}, !.active.markers = g]
  BY <1>1, <1>2, <1>3, <1>4 DEF WithMarker
<1>9. /\ DOMAIN r = DOMAIN s
      /\ r.up = s.up /\ r.failed = s.failed /\ r.received = s.received /\ r.sent = s.sent
      /\ r.app = s.app /\ r.active = [c EXCEPT !.markers = g] /\ r.completed = s.completed
      /\ r.marked = s.marked \cup {p} /\ r.last_epoch = s.last_epoch
  BY <1>1, <1>6, <1>8
<1>10. /\ DOMAIN c2 = DOMAIN c
       /\ c2.epoch = c.epoch /\ c2.state = c.state /\ c2.received = c.received
       /\ c2.sent = c.sent /\ c2.markers = g /\ c2.channels = c.channels
  BY <1>5, <1>7, <1>9
<1>11. /\ DOMAIN g = DOMAIN c.markers \cup {p} /\ g[p] = k
       /\ \A b \in DOMAIN c.markers : b # p => g[b] = c.markers[b]
       /\ g = [q \in DOMAIN g |-> g[q]]
  BY <1>3
<1>12. IsNode(n, r)
  BY <1>9 DEF IsNode
<1>13. SnapShape(n, c2)
  <2>1. /\ c.epoch \in Epochs /\ c.received \in [Peers[n] -> Nat]
        /\ c.sent \in [Peers[n] -> Nat] /\ IsSeq(c.channels) /\ DOMAIN c.markers \subseteq Peers[n]
    BY <1>1 DEF SnapShape
  <2> QED
    BY <1>7, <1>10, <1>11, <2>1 DEF SnapShape
<1>14. Counted(p, k, s, r)
  BY <1>1, <1>5, <1>9, <1>10, <1>11 DEF Counted
<1> QED
  BY <1>2, <1>4, <1>5, <1>9, <1>12, <1>13, <1>14

-----------------------------------------------------------------------------
(***************************************************************************)
(* The actions, on what the proof says of a state                          *)
(***************************************************************************)
\* Nothing the algorithm is about has changed for a.
Same(a) ==
    /\ RecOf'[a] = RecOf[a] /\ SentOf'[a] = SentOf[a] /\ MarkedOf'[a] = MarkedOf[a]
    /\ (a \in StartedSet' <=> a \in StartedSet)
    /\ (a \in StartedSet => CutOf'[a] = CutOf[a])
    /\ (a \in LiveSet' <=> a \in LiveSet)

\* A node that is not touched.
LEMMA OtherNode ==
    ASSUME NEW a \in Nodes, NodeOK(a), node'[a] = node[a], epoch' = epoch, floor' = floor,
           saved'[epoch][a] = saved[epoch][a], RestoredNode(a)' = RestoredNode(a)
    PROVE  NodeOK(a)' /\ Same(a)
<1>1. View(a)' = View(a) /\ Running(a)' = Running(a)
  BY DEF View, Running
<1>2. /\ Open(a)' = Open(a) /\ Done(a)' = Done(a) /\ SavedNow(a)' = SavedNow(a)
      /\ Started(a)' = Started(a)
  BY DEF Open, Done, SavedNow, Started
<1>3. CutOf'[a] = CutOf[a]
  BY <1>2 DEF CutOf
<1>4. MarkedOf'[a] = MarkedOf[a]
  BY <1>2 DEF MarkedOf
<1>5. RecOf'[a] = RecOf[a] /\ SentOf'[a] = SentOf[a]
  BY <1>1 DEF RecOf, SentOf
<1>6. (a \in StartedSet' <=> a \in StartedSet) /\ (a \in LiveSet' <=> a \in LiveSet)
  BY <1>1, <1>2 DEF StartedSet, LiveSet
<1>7. NodeOK(a)'
  BY <1>2, <1>3 DEF NodeOK
<1> QED
  BY <1>3, <1>4, <1>5, <1>6, <1>7 DEF Same

\* The store is as it was, and so is what a process would restore.
LEMMA StoreFrame ==
    ASSUME StoreOK, UNCHANGED <<saved, committed, epoch, restored, floor>>
    PROVE  StoreOK' /\ \A a \in Nodes : /\ RestoredNode(a)' = RestoredNode(a)
                                        /\ saved'[epoch][a] = saved[epoch][a]
  BY DEF StoreOK, AllSaved, RestoredNode

\* Reading a node whose process is up.
LEMMA UpReads ==
    ASSUME NEW n \in Nodes, node[n].up
    PROVE  /\ RecOf[n] = node[n].received /\ SentOf[n] = node[n].sent
           /\ (n \in LiveSet <=> node[n].failed = "no")
  BY DEF RecOf, SentOf, LiveSet, View, Running

\* The same, after the step.
LEMMA UpReadsNext ==
    ASSUME NEW n \in Nodes, node'[n].up
    PROVE  /\ RecOf'[n] = node'[n].received /\ SentOf'[n] = node'[n].sent
           /\ (n \in LiveSet' <=> node'[n].failed = "no")
  BY DEF RecOf, SentOf, LiveSet, View, Running

\* n has the same cut as before, in the same phase.
SamePhase(n) ==
    /\ node'[n].active = node[n].active /\ node'[n].completed = node[n].completed
    /\ node'[n].marked = node[n].marked /\ node'[n].last_epoch = node[n].last_epoch

\* Then all that reads the phase is the same.
LEMMA PhaseReads ==
    ASSUME NEW n \in Nodes, SamePhase(n), epoch' = epoch, floor' = floor,
           saved'[epoch][n] = saved[epoch][n]
    PROVE  /\ MarkedOf'[n] = MarkedOf[n] /\ CutOf'[n] = CutOf[n]
           /\ (n \in StartedSet' <=> n \in StartedSet)
           /\ NodeOK(n) /\ IsNode(n, node'[n]) /\ node'[n].up => NodeOK(n)'
<1>1. /\ Open(n)' = Open(n) /\ Done(n)' = Done(n) /\ SavedNow(n)' = SavedNow(n)
      /\ Started(n)' = Started(n)
  BY DEF Open, Done, SavedNow, Started, SamePhase
<1>2. CutOf'[n] = CutOf[n]
  BY <1>1 DEF CutOf, SamePhase
<1>3. MarkedOf'[n] = MarkedOf[n]
  BY <1>1 DEF MarkedOf, SamePhase
<1>4. (n \in StartedSet' <=> n \in StartedSet)
  BY <1>1 DEF StartedSet
<1>5. NodeOK(n) /\ IsNode(n, node'[n]) /\ node'[n].up => NodeOK(n)'
  BY <1>1, <1>2 DEF NodeOK, SamePhase
<1> QED
  BY <1>2, <1>3, <1>4, <1>5

\* The algorithm's part of the invariant, from one that reads the same.
LEMMA CoreReads ==
    ASSUME NEW rec, NEW snt, NEW st, NEW cut, NEW mb, NEW ch, NEW live, NEW e,
           Core(rec, snt, st, cut, mb, ch, live, e), e = epoch',
           \A a \in Nodes : /\ RecOf'[a] = rec[a] /\ SentOf'[a] = snt[a] /\ MarkedOf'[a] = mb[a]
                            /\ a \in StartedSet' <=> a \in st
                            /\ a \in st => CutOf'[a] = cut[a]
                            /\ a \in LiveSet' => a \in live
           ,
           \A a \in Nodes : a \in LiveSet' => \A b \in Peers[a] : chan'[b][a] = ch[b][a]
    PROVE  CoreOK'
<1>1. PICK rec2 : rec2 = RecOf'
  OBVIOUS
<1>2. PICK snt2 : snt2 = SentOf'
  OBVIOUS
<1>3. PICK st2 : st2 = StartedSet'
  OBVIOUS
<1>4. PICK cut2 : cut2 = CutOf'
  OBVIOUS
<1>5. PICK mb2 : mb2 = MarkedOf'
  OBVIOUS
<1>6. PICK live2 : live2 = LiveSet'
  OBVIOUS
<1>7. PICK ch2 : ch2 = chan'
  OBVIOUS
<1>8. \A a \in Nodes : /\ rec2[a] = rec[a] /\ snt2[a] = snt[a] /\ mb2[a] = mb[a]
                       /\ a \in st2 <=> a \in st
                       /\ a \in st => cut2[a] = cut[a]
                       /\ a \in live2 => a \in live
  BY <1>1, <1>2, <1>3, <1>4, <1>5, <1>6
<1>9. \A a \in Nodes : a \in live2 => \A b \in Peers[a] : ch2[b][a] = ch[b][a]
  BY <1>6, <1>7
<1>10. Core(rec2, snt2, st2, cut2, mb2, ch2, live2, e)
  BY <1>8, <1>9, CoreFrame
<1> QED
  BY <1>1, <1>2, <1>3, <1>4, <1>5, <1>6, <1>7, <1>10 DEF CoreOK

\* Send
LEMMA SendKeeps ==
    ASSUME IInv, NEW n \in Nodes, NEW p \in Peers[n], Send(n, p)
    PROVE  IInv'
<1>0. \A a \in Nodes : Peers[a] \subseteq Nodes
  BY TopologyAssumption
<1>1. StoreOK /\ TablesOK /\ (\A a \in Nodes : NodeOK(a)) /\ CoreOK
  BY DEF IInv
<1>2. UNCHANGED <<saved, committed, epoch, restored, floor>>
  BY DEF Send
<1>3. StoreOK' /\ \A a \in Nodes : /\ RestoredNode(a)' = RestoredNode(a)
                                   /\ saved'[epoch][a] = saved[epoch][a]
  BY <1>1, <1>2, StoreFrame
<1>4. PICK s : s = node[n]
  OBVIOUS
<1>5. IsNode(n, s) /\ s.up /\ s.failed = "no"
  BY <1>1, <1>4 DEF NodeOK, Send, Running
<1>6. PICK x : x = AfterSend(n, s.app)
  OBVIOUS
<1>7. PICK m : m = DataMessage(s.sent[p] + 1, Payload(n, s.app))
  OBVIOUS
<1>8. m.kind = "data" /\ m.sequence = s.sent[p] + 1
  BY <1>7 DEF DataMessage
<1>9. node' = [node EXCEPT ![n].sent[p] = @ + 1, ![n].app = x]
  BY <1>4, <1>6 DEF Send
<1>10. chan' = [chan EXCEPT ![n][p] = Append(chan[n][p], m)]
  BY <1>4, <1>7 DEF Send, Queue
<1>11. DOMAIN node = Nodes /\ DOMAIN s = {"up", "failed", "received", "sent", "app", "active",
                                          "completed", "marked", "last_epoch"}
       /\ s.sent \in [Peers[n] -> Nat]
  BY <1>1, <1>5 DEF TablesOK, IsNode
<1>12. PICK s2 : s2 = node'[n]
  OBVIOUS
<1>13. s2 = [s EXCEPT !.sent[p] = @ + 1, !.app = x]
  BY <1>4, <1>9, <1>11, <1>12
<1>14. /\ DOMAIN s2 = DOMAIN s
       /\ s2.up = s.up /\ s2.failed = s.failed /\ s2.received = s.received
       /\ s2.sent = [s.sent EXCEPT ![p] = @ + 1]
       /\ s2.active = s.active /\ s2.completed = s.completed /\ s2.marked = s.marked
       /\ s2.last_epoch = s.last_epoch
  BY <1>11, <1>13
<1>15. s2.sent \in [Peers[n] -> Nat] /\ s2.sent[p] = s.sent[p] + 1
       /\ \A b \in Peers[n] : b # p => s2.sent[b] = s.sent[b]
  BY <1>11, <1>14
<1>16. IsNode(n, s2)
  BY <1>5, <1>14, <1>15 DEF IsNode
<1>17. \A a \in Nodes : a # n => node'[a] = node[a]
  BY <1>9, <1>11
<1>18. \A a \in Nodes : a # n => NodeOK(a)' /\ Same(a)
  BY <1>1, <1>2, <1>3, <1>17, OtherNode
<1>19. SamePhase(n)
  BY <1>4, <1>12, <1>14 DEF SamePhase
<1>20. NodeOK(n)' /\ MarkedOf'[n] = MarkedOf[n] /\ CutOf'[n] = CutOf[n]
       /\ (n \in StartedSet' <=> n \in StartedSet)
  BY <1>1, <1>2, <1>3, <1>5, <1>12, <1>14, <1>16, <1>19, PhaseReads
<1>21. /\ RecOf[n] = s.received /\ SentOf[n] = s.sent /\ n \in LiveSet
       /\ RecOf'[n] = s2.received /\ SentOf'[n] = s2.sent /\ n \in LiveSet'
  BY <1>4, <1>5, <1>12, <1>14, UpReads, UpReadsNext
<1>22. TablesOK'
  BY <1>1, <1>9, <1>10 DEF TablesOK
<1>23. Sends(chan, chan', n, p, m)
  BY <1>1, <1>10 DEF TablesOK, Sends
<1>24. CoreOK'
  <2>1. PICK snt2 : snt2 = SentOf'
    OBVIOUS
  <2>2. PICK snt : snt = SentOf
    OBVIOUS
  <2>3. PICK ch2 : ch2 = chan'
    OBVIOUS
  <2>4. Core(RecOf, snt, StartedSet, CutOf, MarkedOf, chan, LiveSet, epoch)
    BY <1>1, <2>2 DEF CoreOK
  <2>5. m.sequence = snt[n][p] + 1
    BY <1>8, <1>21, <2>2
  <2>6. Counts(snt, snt2, n, p, m.sequence)
    BY <1>8, <1>15, <1>18, <1>21, <2>1, <2>2 DEF Same, Counts
  <2>7. Sends(chan, ch2, n, p, m)
    BY <1>23, <2>3
  <2>8. Core(RecOf, snt2, StartedSet, CutOf, MarkedOf, ch2, LiveSet, epoch)
    BY <1>8, <2>4, <2>5, <2>6, <2>7, CoreSend
  <2>9. \A a \in Nodes : /\ RecOf'[a] = RecOf[a] /\ SentOf'[a] = snt2[a]
                         /\ MarkedOf'[a] = MarkedOf[a]
                         /\ a \in StartedSet' <=> a \in StartedSet
                         /\ a \in StartedSet => CutOf'[a] = CutOf[a]
                         /\ a \in LiveSet' => a \in LiveSet
    BY <1>14, <1>18, <1>20, <1>21, <2>1 DEF Same
  <2> QED
    BY <1>2, <2>3, <2>8, <2>9, CoreReads
<1> QED
  BY <1>3, <1>18, <1>20, <1>22, <1>24 DEF IInv

\* The front of a channel to a running node is the message due next.
LEMMA FrontOfChannel ==
    ASSUME IInv, NEW n \in Nodes, NEW p \in Peers[n], Running(n), chan[p][n] # << >>
    PROVE  /\ Head(chan[p][n]) = chan[p][n][1] /\ n \in LiveSet
           /\ chan[p][n][1].kind \in {"data", "marker"} /\ chan[p][n][1].sequence \in Nat
           /\ chan[p][n][1].kind = "data" =>
                  chan[p][n][1].sequence = node[n].received[p] + 1
<1>1. NodeOK(n) /\ node[n].up /\ node[n].failed = "no"
  BY DEF IInv, Running
<1>2. n \in LiveSet /\ RecOf[n] = node[n].received
  BY <1>1, UpReads
<1>3. LinkOK(p, n, RecOf, SentOf, StartedSet, CutOf, MarkedOf, chan, epoch)
  BY <1>2 DEF IInv, CoreOK, Core
<1>4. PICK q : q = chan[p][n]
  OBVIOUS
<1>5. PICK s : s = SentOf[p][n]
  OBVIOUS
<1>6. Numbered(q, node[n].received[p], s) /\ q # << >>
  BY <1>2, <1>3, <1>4, <1>5 DEF LinkOK
<1>7. /\ Head(q) = q[1] /\ q[1].kind \in {"data", "marker"} /\ q[1].sequence \in Nat
      /\ q[1].sequence = node[n].received[p] + Step(q[1])
  BY <1>6, NumberedTail
<1>8. q[1].kind = "data" => Step(q[1]) = 1
  BY DEF Step
<1> QED
  BY <1>2, <1>4, <1>7, <1>8

\* The front of a channel is taken, in terms of the algorithm.
LEMMA PollsFront ==
    ASSUME TablesOK, NEW n \in Nodes, NEW p \in Peers[n]
    PROVE  /\ Polls(chan, PollOnce(p, n), p, n)
           /\ PollOnce(p, n) = [a \in Nodes |-> [b \in Peers[a] |-> PollOnce(p, n)[a][b]]]
<1>0. p \in Nodes /\ n \in Peers[p]
  BY TopologyAssumption
<1>1. chan = [a \in Nodes |-> [b \in Peers[a] |-> chan[a][b]]]
  BY DEF TablesOK
<1> QED
  BY <1>0, <1>1 DEF PollOnce, Polls

\* A node that runs out of room, or whose application throws, takes no more
\* messages; its peers and its cut are as they were.
LEMMA PoisonKeeps ==
    ASSUME IInv, NEW n \in Nodes, NEW p \in Peers[n], NEW why, why \notin {"no", "protocol"},
           Running(n), Poison(n, why), chan' = PollOnce(p, n),
           UNCHANGED <<saved, committed, damaged, epoch, restored, floor, crashes>>
    PROVE  IInv'
<1>0. p \in Nodes /\ n \in Peers[p]
  BY TopologyAssumption
<1>1. StoreOK /\ TablesOK /\ (\A a \in Nodes : NodeOK(a)) /\ CoreOK
  BY DEF IInv
<1>2. UNCHANGED <<saved, committed, epoch, restored, floor>>
  OBVIOUS
<1>3. StoreOK' /\ \A a \in Nodes : /\ RestoredNode(a)' = RestoredNode(a)
                                   /\ saved'[epoch][a] = saved[epoch][a]
  BY <1>1, <1>2, StoreFrame
<1>4. PICK s : s = node[n]
  OBVIOUS
<1>5. IsNode(n, s) /\ s.up /\ s.failed = "no"
  BY <1>1, <1>4 DEF NodeOK, Running
<1>6. DOMAIN node = Nodes /\ DOMAIN s = {"up", "failed", "received", "sent", "app", "active",
                                         "completed", "marked", "last_epoch"}
  BY <1>1, <1>5 DEF TablesOK, IsNode
<1>7. PICK s2 : s2 = node'[n]
  OBVIOUS
<1>8. s2 = [s EXCEPT !.failed = why]
  BY <1>4, <1>6, <1>7 DEF Poison
<1>9. /\ DOMAIN s2 = DOMAIN s
      /\ s2.up = s.up /\ s2.failed = why /\ s2.received = s.received /\ s2.sent = s.sent
      /\ s2.active = s.active /\ s2.completed = s.completed /\ s2.marked = s.marked
      /\ s2.last_epoch = s.last_epoch
  BY <1>6, <1>8
<1>10. IsNode(n, s2)
  BY <1>5, <1>9 DEF IsNode
<1>11. \A a \in Nodes : a # n => node'[a] = node[a]
  BY <1>6 DEF Poison
<1>12. \A a \in Nodes : a # n => NodeOK(a)' /\ Same(a)
  BY <1>1, <1>2, <1>3, <1>11, OtherNode
<1>13. SamePhase(n)
  BY <1>4, <1>7, <1>9 DEF SamePhase
<1>14. NodeOK(n)' /\ MarkedOf'[n] = MarkedOf[n] /\ CutOf'[n] = CutOf[n]
       /\ (n \in StartedSet' <=> n \in StartedSet)
  BY <1>1, <1>2, <1>3, <1>5, <1>7, <1>9, <1>10, <1>13, PhaseReads
<1>15. /\ RecOf'[n] = RecOf[n] /\ SentOf'[n] = SentOf[n] /\ n \notin LiveSet'
  BY <1>4, <1>5, <1>7, <1>9, UpReads, UpReadsNext
<1>16. TablesOK'
  <2>1. node' = [a \in Nodes |-> node'[a]]
    BY <1>6 DEF Poison
  <2>2. chan' = [a \in Nodes |-> [b \in Peers[a] |-> chan'[a][b]]]
    BY <1>1, PollsFront
  <2> QED
    BY <2>1, <2>2 DEF TablesOK
<1>17. \A a \in Nodes : a # n => \A b \in Peers[a] : chan'[b][a] = chan[b][a]
  <2> TAKE a \in Nodes
  <2> HAVE a # n
  <2> TAKE b \in Peers[a]
  <2>1. b \in Nodes /\ a \in Peers[b]
    BY TopologyAssumption
  <2>2. DOMAIN chan = Nodes /\ chan[b] = [c \in Peers[b] |-> chan[b][c]]
    BY <1>1, <2>1 DEF TablesOK
  <2> QED
    BY <2>1, <2>2 DEF PollOnce
<1>18. CoreOK'
  <2>1. Core(RecOf, SentOf, StartedSet, CutOf, MarkedOf, chan, LiveSet, epoch)
    BY <1>1 DEF CoreOK
  <2>2. \A a \in Nodes : /\ RecOf'[a] = RecOf[a] /\ SentOf'[a] = SentOf[a]
                         /\ MarkedOf'[a] = MarkedOf[a]
                         /\ a \in StartedSet' <=> a \in StartedSet
                         /\ a \in StartedSet => CutOf'[a] = CutOf[a]
                         /\ a \in LiveSet' => a \in LiveSet
    BY <1>12, <1>14, <1>15 DEF Same
  <2>3. \A a \in Nodes : a \in LiveSet' => \A b \in Peers[a] : chan'[b][a] = chan[b][a]
    BY <1>15, <1>17
  <2> QED
    BY <1>2, <2>1, <2>2, <2>3, CoreReads
<1> QED
  BY <1>3, <1>12, <1>14, <1>16, <1>18 DEF IInv

\* A message taken into the log of an open cut, and counted.
Logged(s, s1, r) == s1 = [s EXCEPT !.active.channels = Append(@, r)]
Taken(s, p, k, x) == [s EXCEPT !.received[p] = k, !.app = x]

\* What a message in the log does to a node.
LEMMA LoggedShape ==
    ASSUME NEW n, NEW s, NEW r, NEW s1, Logged(s, s1, r), IsNode(n, s), SnapShape(n, s.active)
    PROVE  /\ IsNode(n, s1) /\ SnapShape(n, s1.active)
           /\ s1.up = s.up /\ s1.failed = s.failed /\ s1.received = s.received
           /\ s1.sent = s.sent /\ s1.completed = s.completed /\ s1.marked = s.marked
           /\ s1.last_epoch = s.last_epoch
           /\ s1.active.epoch = s.active.epoch /\ s1.active.sent = s.active.sent
           /\ s1.active.markers = s.active.markers /\ Logs(s.active, s1.active, r)
<1>1. PICK c : c = s.active
  OBVIOUS
<1>2. PICK g : g = Append(c.channels, r)
  OBVIOUS
<1>3. IsSeq(g)
  BY <1>1, <1>2, AppendAny DEF SnapShape
<1>5. s1 = [s EXCEPT !.active.channels = g]
  BY <1>1, <1>2 DEF Logged
<1>6. PICK c1 : c1 = s1.active
  OBVIOUS
<1>7. DOMAIN s = {"up", "failed", "received", "sent", "app", "active", "completed",
                  "marked", "last_epoch"}
  BY DEF IsNode
<1>8. DOMAIN c = {"epoch", "state", "received", "sent", "markers", "channels"}
  BY <1>1 DEF SnapShape
<1> HIDE <1>2
<1>9. /\ DOMAIN s1 = DOMAIN s /\ s1.active = [c EXCEPT !.channels = g]
      /\ s1.up = s.up /\ s1.failed = s.failed /\ s1.received = s.received /\ s1.sent = s.sent
      /\ s1.app = s.app /\ s1.completed = s.completed /\ s1.marked = s.marked
      /\ s1.last_epoch = s.last_epoch
  BY <1>1, <1>5, <1>7
<1>10. /\ DOMAIN c1 = DOMAIN c /\ c1.epoch = c.epoch /\ c1.state = c.state
       /\ c1.received = c.received /\ c1.sent = c.sent /\ c1.markers = c.markers
       /\ c1.channels = g
  BY <1>6, <1>8, <1>9
<1>11. IsNode(n, s1)
  BY <1>9 DEF IsNode
<1>12. SnapShape(n, c1)
  BY <1>1, <1>3, <1>10 DEF SnapShape
<1>13. Logs(c, c1, r)
  BY <1>2, <1>10 DEF Logs
<1> QED
  BY <1>1, <1>6, <1>9, <1>10, <1>11, <1>12, <1>13

\* A data message counted, and its effect on the application.
LEMMA CountedShape ==
    ASSUME NEW n, NEW p \in Peers[n], NEW s, NEW k \in Nat, NEW x, IsNode(n, s)
    PROVE  LET s2 == Taken(s, p, k, x)
           IN  /\ IsNode(n, s2)
               /\ s2.up = s.up /\ s2.failed = s.failed
               /\ s2.sent = s.sent /\ s2.completed = s.completed /\ s2.marked = s.marked
               /\ s2.active = s.active /\ s2.last_epoch = s.last_epoch
               /\ s2.received[p] = k /\ \A b \in Peers[n] : b # p => s2.received[b] = s.received[b]
<1>1. PICK s2 : s2 = Taken(s, p, k, x)
  OBVIOUS
<1>2. DOMAIN s = {"up", "failed", "received", "sent", "app", "active", "completed",
                  "marked", "last_epoch"} /\ s.received \in [Peers[n] -> Nat]
  BY DEF IsNode
<1>3. /\ DOMAIN s2 = DOMAIN s /\ s2.received = [s.received EXCEPT ![p] = k]
      /\ s2.up = s.up /\ s2.failed = s.failed /\ s2.active = s.active /\ s2.sent = s.sent
      /\ s2.completed = s.completed /\ s2.marked = s.marked
      /\ s2.last_epoch = s.last_epoch
  BY <1>1, <1>2 DEF Taken
<1>4. s2.received \in [Peers[n] -> Nat]
  BY <1>2, <1>3
<1>5. IsNode(n, s2)
  BY <1>3, <1>4 DEF IsNode
<1>6. s2.received[p] = k /\ \A b \in Peers[n] : b # p => s2.received[b] = s.received[b]
  BY <1>2, <1>3
<1> QED
  BY <1>1, <1>3, <1>5, <1>6

\* ReceiveData
LEMMA ReceiveDataKeeps ==
    ASSUME IInv, NEW n \in Nodes, NEW p \in Peers[n], Running(n), node[n].completed = None,
           chan[p][n] # << >>, ReceiveData(p, n, Head(chan[p][n])),
           UNCHANGED <<saved, committed, damaged, epoch, restored, floor, crashes>>
    PROVE  IInv'
<1>1. StoreOK /\ TablesOK /\ (\A a \in Nodes : NodeOK(a)) /\ CoreOK
  BY DEF IInv
<1>2. UNCHANGED <<saved, committed, epoch, restored, floor>>
  OBVIOUS
<1>3. StoreOK' /\ \A a \in Nodes : /\ RestoredNode(a)' = RestoredNode(a)
                                   /\ saved'[epoch][a] = saved[epoch][a]
  BY <1>1, <1>2, StoreFrame
<1>4. PICK s : s = node[n]
  OBVIOUS
<1>5. IsNode(n, s) /\ s.up /\ s.failed = "no" /\ s.completed = None
  BY <1>1, <1>4 DEF NodeOK, Running
<1>6. PICK m : m = Head(chan[p][n])
  OBVIOUS
<1>7. /\ m = chan[p][n][1] /\ n \in LiveSet /\ m.kind = "data"
      /\ m.sequence = s.received[p] + 1 /\ m.sequence \in Nat
  BY <1>4, <1>6, FrontOfChannel DEF ReceiveData
<1>8. PICK x : x = Deliver(n, s.app, p, m.payload)
  OBVIOUS
<1>9. PICK r : r = [peer |-> p, sequence |-> m.sequence, payload |-> m.payload]
  OBVIOUS
<1>10. r.peer = p /\ r.sequence = m.sequence
  BY <1>9
<1>11. PICK s1 : IF Records(s, p) THEN Logged(s, s1, r) ELSE s1 = s
  BY DEF Logged
<1>12. \/ Poison(n, "limit")
       \/ Poison(n, "application")
       \/ node' = [node EXCEPT ![n] = Taken(s1, p, m.sequence, x)]
  BY <1>4, <1>6, <1>7, <1>8, <1>9, <1>11 DEF ReceiveData, Logged, Taken
<1>13. chan' = PollOnce(p, n)
  BY DEF ReceiveData
<1>14. CASE Poison(n, "limit")
  BY <1>13, <1>14, PoisonKeeps
<1>15. CASE Poison(n, "application")
  BY <1>13, <1>15, PoisonKeeps
<1>16. CASE node' = [node EXCEPT ![n] = Taken(s1, p, m.sequence, x)]
  <2>1. PICK s2 : s2 = Taken(s1, p, m.sequence, x)
    OBVIOUS
  <2>2. DOMAIN node = Nodes
    BY <1>1 DEF TablesOK
  <2>3. node'[n] = s2 /\ \A a \in Nodes : a # n => node'[a] = node[a]
    BY <1>16, <2>1, <2>2
  <2>4. \A a \in Nodes : a # n => NodeOK(a)' /\ Same(a)
    BY <1>1, <1>2, <1>3, <2>3, OtherNode
  <2>5. s.active # None => n \in StartedSet /\ CutOf[n] = s.active /\ SnapShape(n, s.active)
                           /\ MarkedOf[n] = s.marked
    BY <1>1, <1>4 DEF StartedSet, Started, Open, CutOf, MarkedOf, CoreOK, Core, CutOK
  <2>6. n \in StartedSet /\ p \notin MarkedOf[n] => Records(s, p)
    BY <1>4, <1>5, <2>5 DEF StartedSet, Started, Open, MarkedOf, Records
  <2>7. Records(s, p) => n \in StartedSet /\ p \notin MarkedOf[n]
    BY <2>5 DEF Records
  <2>8. /\ IsNode(n, s1) /\ s1.up = s.up /\ s1.failed = s.failed /\ s1.received = s.received
        /\ s1.sent = s.sent /\ s1.completed = s.completed /\ s1.marked = s.marked
        /\ s1.last_epoch = s.last_epoch
        /\ ~Records(s, p) => s1.active = s.active
        /\ Records(s, p) => /\ SnapShape(n, s1.active) /\ s1.active.epoch = s.active.epoch
                            /\ s1.active.sent = s.active.sent
                            /\ s1.active.markers = s.active.markers
                            /\ Logs(s.active, s1.active, r)
    <3>1. CASE Records(s, p)
      <4>1. SnapShape(n, s.active)
        BY <2>5, <3>1 DEF Records
      <4>2. Logged(s, s1, r)
        BY <1>11, <3>1
      <4>3. /\ IsNode(n, s1) /\ SnapShape(n, s1.active)
            /\ s1.up = s.up /\ s1.failed = s.failed /\ s1.received = s.received
            /\ s1.sent = s.sent /\ s1.completed = s.completed /\ s1.marked = s.marked
            /\ s1.last_epoch = s.last_epoch
            /\ s1.active.epoch = s.active.epoch /\ s1.active.sent = s.active.sent
            /\ s1.active.markers = s.active.markers /\ Logs(s.active, s1.active, r)
        BY <1>5, <4>1, <4>2, LoggedShape
      <4> QED
        BY <3>1, <4>3
    <3>2. CASE ~Records(s, p)
      BY <1>5, <1>11, <3>2
    <3> QED
      BY <3>1, <3>2
  <2>9. /\ IsNode(n, s2)
        /\ s2.up = s1.up /\ s2.failed = s1.failed
        /\ s2.sent = s1.sent /\ s2.completed = s1.completed /\ s2.marked = s1.marked
        /\ s2.active = s1.active /\ s2.last_epoch = s1.last_epoch
        /\ s2.received[p] = m.sequence
        /\ \A b \in Peers[n] : b # p => s2.received[b] = s1.received[b]
    BY <1>7, <2>1, <2>8, CountedShape
  <2>10. s2.active # None <=> s.active # None
    BY <2>8, <2>9, SnapNotNone DEF Records
  <2>11. /\ Open(n)' = Open(n) /\ Done(n)' = Done(n) /\ SavedNow(n)' = SavedNow(n)
         /\ Started(n)' = Started(n)
    <3>1. Open(n)' = Open(n)
      BY <1>4, <2>3, <2>10 DEF Open
    <3>2. Done(n)' = Done(n)
      BY <1>4, <2>3, <2>8, <2>9 DEF Done
    <3>3. SavedNow(n)' = SavedNow(n)
      BY <1>2 DEF SavedNow
    <3> QED
      BY <3>1, <3>2, <3>3 DEF Started
  <2>12. MarkedOf'[n] = MarkedOf[n] /\ (n \in StartedSet' <=> n \in StartedSet)
    BY <1>4, <2>3, <2>8, <2>9, <2>11 DEF MarkedOf, StartedSet
  <2>13. CutOf'[n] = IF Open(n) THEN s1.active ELSE CutOf[n]
    <3>1. CASE Open(n)
      BY <2>3, <2>9, <2>11, <3>1 DEF CutOf
    <3>2. CASE ~Open(n)
      BY <1>2, <1>4, <1>5, <2>3, <2>11, <3>2 DEF CutOf, Done
    <3> QED
      BY <3>1, <3>2
  <2>14. n \in StartedSet /\ ~Records(s, p) => CutOf'[n] = CutOf[n]
    BY <1>4, <2>5, <2>8, <2>13 DEF Open
  <2>15. Records(s, p) => CutOf'[n] = s1.active /\ CutOf[n] = s.active
    BY <1>4, <2>5, <2>13 DEF Open, Records
  <2>16. n \in StartedSet => CutOf'[n].epoch = CutOf[n].epoch
    BY <2>8, <2>14, <2>15
  <2>17. NodeOK(n)'
    BY <1>1, <1>2, <1>4, <2>3, <2>8, <2>9, <2>11, <2>16 DEF NodeOK, StartedSet
  <2>18. TablesOK'
    <3>1. node' = [a \in Nodes |-> node'[a]]
      BY <1>16, <2>2
    <3>2. chan' = [a \in Nodes |-> [b \in Peers[a] |-> chan'[a][b]]]
      BY <1>1, <1>13, PollsFront
    <3> QED
      BY <3>1, <3>2 DEF TablesOK
  <2>19. /\ RecOf[n] = s.received /\ SentOf[n] = s.sent
         /\ RecOf'[n] = s2.received /\ SentOf'[n] = s2.sent /\ n \in LiveSet'
    BY <1>4, <1>5, <2>3, <2>8, <2>9, UpReads, UpReadsNext
  <2>20. CoreOK'
    <3>1. PICK rec : rec = RecOf
      OBVIOUS
    <3>2. PICK rec2 : rec2 = RecOf'
      OBVIOUS
    <3>3. PICK cut : cut = CutOf
      OBVIOUS
    <3>4. PICK cut2 : cut2 = CutOf'
      OBVIOUS
    <3>5. PICK mb : mb = MarkedOf
      OBVIOUS
    <3>6. PICK st : st = StartedSet
      OBVIOUS
    <3>7. PICK ch2 : ch2 = chan'
      OBVIOUS
    <3>8. Core(rec, SentOf, st, cut, mb, chan, LiveSet, epoch)
      BY <1>1, <3>1, <3>3, <3>5, <3>6 DEF CoreOK
    <3>9. Counts(rec, rec2, n, p, rec[n][p] + 1)
      BY <1>7, <2>4, <2>8, <2>9, <2>19, <3>1, <3>2 DEF Counts, Same, IsNode
    <3>10. Polls(chan, ch2, p, n)
      BY <1>1, <1>13, <3>7, PollsFront
    <3>11. \A a \in st : a # n => cut2[a] = cut[a]
      BY <2>4, <3>3, <3>4, <3>6 DEF Same, StartedSet
    <3>12. n \in st /\ p \in mb[n] => cut2[n] = cut[n]
      BY <2>7, <2>14, <3>3, <3>4, <3>5, <3>6
    <3>13. n \in st /\ p \notin mb[n] =>
               /\ SnapShape(n, cut2[n]) /\ r.peer = p /\ r.sequence = rec[n][p] + 1
               /\ cut2[n].sent = cut[n].sent /\ cut2[n].markers = cut[n].markers
               /\ Logs(cut[n], cut2[n], r)
      BY <1>7, <1>10, <2>6, <2>8, <2>15, <2>19, <3>1, <3>3, <3>4, <3>5, <3>6
    <3>14. chan[p][n][1].kind = "data"
      BY <1>7
    <3>15. Core(rec2, SentOf, st, cut2, mb, ch2, LiveSet, epoch)
      BY <1>7, <3>8, <3>9, <3>10, <3>11, <3>12, <3>13, <3>14, CoreReceive
    <3>16. \A a \in Nodes : /\ RecOf'[a] = rec2[a] /\ SentOf'[a] = SentOf[a]
                            /\ MarkedOf'[a] = mb[a]
                            /\ a \in StartedSet' <=> a \in st
                            /\ a \in st => CutOf'[a] = cut2[a]
                            /\ a \in LiveSet' => a \in LiveSet
      BY <1>7, <2>4, <2>8, <2>9, <2>12, <2>19, <3>2, <3>4, <3>5, <3>6 DEF Same
    <3> QED
      BY <1>2, <3>7, <3>15, <3>16, CoreReads
  <2> QED
    BY <1>3, <2>4, <2>17, <2>18, <2>20 DEF IInv
<1> QED
  BY <1>12, <1>14, <1>15, <1>16

-----------------------------------------------------------------------------
(***************************************************************************)
(* Taking a cut                                                            *)
(***************************************************************************)
\* s2 is what Initiate makes of s.
Initiated(n, s, e, s2) == s2 = FinishIfReady(n, Start(n, s, e))

\* A node alone has its snapshot at once, the others wait for markers.
LEMMA InitiatedShape ==
    ASSUME NEW n, NEW s, NEW e \in Epochs, NEW s2, IsNode(n, s), s.completed = None,
           Initiated(n, s, e, s2)
    PROVE  /\ IsNode(n, s2) /\ s2.up = s.up /\ s2.failed = s.failed
           /\ s2.received = s.received /\ s2.sent = s.sent /\ s2.marked = {}
           /\ Peers[n] = {} => /\ s2.active = None /\ s2.completed = NewCut(n, s, e)
                               /\ s2.last_epoch = e
           /\ Peers[n] # {} => /\ s2.active = NewCut(n, s, e) /\ s2.completed = None
                               /\ s2.last_epoch = s.last_epoch
<1>1. PICK s1 : s1 = Start(n, s, e)
  OBVIOUS
<1>2. PICK c : c = NewCut(n, s, e)
  OBVIOUS
<1>3. /\ IsNode(n, s1) /\ s1.active = c /\ s1.marked = {}
      /\ s1.up = s.up /\ s1.failed = s.failed /\ s1.received = s.received
      /\ s1.sent = s.sent /\ s1.completed = s.completed /\ s1.last_epoch = s.last_epoch
  BY <1>1, <1>2, StartShape
<1>4. SnapShape(n, c) /\ c.epoch = e
  BY <1>2, NewCutShape
<1>5. c # None
  BY <1>4, SnapNotNone
<1>6. s2 = FinishIfReady(n, s1)
  BY <1>1 DEF Initiated
<1>7. /\ IsNode(n, s2) /\ s2.up = s1.up /\ s2.failed = s1.failed
      /\ s2.received = s1.received /\ s2.sent = s1.sent /\ s2.marked = s1.marked
      /\ s1.marked = Peers[n] => /\ s2.active = None /\ s2.completed = s1.active
                                 /\ s2.last_epoch = s1.active.epoch
      /\ s1.marked # Peers[n] => /\ s2.active = s1.active /\ s2.completed = None
                                 /\ s2.last_epoch = s1.last_epoch
  BY <1>3, <1>5, <1>6, FinishShape
<1> QED
  BY <1>2, <1>3, <1>4, <1>7

\* n is asked for its cut of epoch e, in which it has none yet.
LEMMA InitiateReads ==
    ASSUME TablesOK, NEW n \in Nodes, NodeOK(n), NEW e \in Epochs, Initiate(n, e),
           CanStart(node[n], e),
           epoch' = e, floor' = floor, saved' = saved, e > floor, floor \in Nat,
           saved[e][n] = None
    PROVE  /\ NodeOK(n)' /\ TablesOK' /\ SendsMarkers(chan, chan', n, SentOf, e)
           /\ RecOf'[n] = RecOf[n] /\ SentOf'[n] = SentOf[n] /\ MarkedOf'[n] = {}
           /\ n \in StartedSet' /\ n \in LiveSet /\ n \in LiveSet'
           /\ SnapShape(n, CutOf'[n]) /\ CutOf'[n].channels = << >>
           /\ DOMAIN CutOf'[n].markers = {}
           /\ CutOf'[n].received = RecOf[n] /\ CutOf'[n].sent = SentOf[n]
           /\ ~Open(n) /\ ~Done(n) /\ e > node[n].last_epoch
           /\ \A a \in Nodes : a # n => node'[a] = node[a]
<1>1. PICK s : s = node[n]
  OBVIOUS
<1>2. PICK s2 : Initiated(n, s, e, s2)
  BY DEF Initiated
<1>3. IsNode(n, s) /\ s.up /\ s.failed = "no" /\ s.completed = None /\ s.active = None
      /\ e > s.last_epoch /\ s.last_epoch \in Nat
  <2>1. s.last_epoch \in 0..epoch
    BY <1>1 DEF NodeOK
  <2> QED
    BY <1>1, <2>1 DEF NodeOK, Initiate, Running, CanStart
<1>4. PICK c : c = NewCut(n, s, e)
  OBVIOUS
<1>5. /\ IsNode(n, s2) /\ s2.up = s.up /\ s2.failed = s.failed
      /\ s2.received = s.received /\ s2.sent = s.sent /\ s2.marked = {}
      /\ Peers[n] = {} => s2.active = None /\ s2.completed = c /\ s2.last_epoch = e
      /\ Peers[n] # {} => s2.active = c /\ s2.completed = None /\ s2.last_epoch = s.last_epoch
  <2>0. e \in Epochs
    OBVIOUS
  <2>1. s.completed = None /\ IsNode(n, s)
    BY <1>3
  <2>2. /\ IsNode(n, s2) /\ s2.up = s.up /\ s2.failed = s.failed
        /\ s2.received = s.received /\ s2.sent = s.sent /\ s2.marked = {}
        /\ Peers[n] = {} => /\ s2.active = None /\ s2.completed = NewCut(n, s, e)
                            /\ s2.last_epoch = e
        /\ Peers[n] # {} => /\ s2.active = NewCut(n, s, e) /\ s2.completed = None
                            /\ s2.last_epoch = s.last_epoch
    BY ONLY <1>2, <2>0, <2>1, InitiatedShape
  <2> QED
    BY <1>4, <2>2
<1>6. /\ SnapShape(n, c) /\ c.epoch = e /\ c.received = s.received /\ c.sent = s.sent
      /\ c.channels = << >> /\ DOMAIN c.markers = {}
  BY <1>3, <1>4, NewCutShape
<1>7. c # None
  BY <1>6, SnapNotNone
<1>8. DOMAIN node = Nodes /\ chan = [a \in Nodes |-> [b \in Peers[a] |-> chan[a][b]]]
  BY DEF TablesOK
<1>9. node' = [node EXCEPT ![n] = s2]
  BY <1>1, <1>2 DEF Initiate, Initiated
<1>10. node'[n] = s2 /\ \A a \in Nodes : a # n => node'[a] = node[a]
  BY <1>8, <1>9
<1>11. chan' = SendMarkers(n, e)
  BY DEF Initiate
<1>12. RecOf[n] = s.received /\ SentOf[n] = s.sent /\ n \in LiveSet
  BY <1>1, <1>3, UpReads
<1>13. RecOf'[n] = s.received /\ SentOf'[n] = s.sent /\ n \in LiveSet'
  BY <1>3, <1>5, <1>10, UpReadsNext
<1>14. chan' = [chan EXCEPT ![n] = [b \in Peers[n] |->
                                       Append(chan[n][b], Marker(SentOf[n][b], e))]]
  BY <1>1, <1>11, <1>12 DEF SendMarkers, Queue
<1>15. SendsMarkers(chan, chan', n, SentOf, e)
  BY <1>8, <1>14 DEF SendsMarkers
<1>16. TablesOK'
  <2>1. node' = [a \in Nodes |-> node'[a]]
    BY <1>8, <1>9
  <2>2. chan' = [a \in Nodes |-> [b \in Peers[a] |-> chan'[a][b]]]
    BY <1>8, <1>14
  <2> QED
    BY <2>1, <2>2 DEF TablesOK
<1>17. ~SavedNow(n)' /\ Started(n)' /\ (Open(n)' <=> Peers[n] # {}) /\ (Done(n)' <=> Peers[n] = {})
  BY <1>5, <1>7, <1>10 DEF SavedNow, Started, Open, Done
<1>18. CutOf'[n] = c /\ MarkedOf'[n] = {} /\ n \in StartedSet'
  <2>1. CASE Peers[n] = {}
    BY <1>5, <1>10, <1>17, <2>1 DEF CutOf, MarkedOf, StartedSet
  <2>2. CASE Peers[n] # {}
    BY <1>5, <1>10, <1>17, <2>2 DEF CutOf, MarkedOf, StartedSet
  <2> QED
    BY <2>1, <2>2
<1>19. NodeOK(n)'
  <2>1. s2.last_epoch \in 0..e /\ (s2.last_epoch = e <=> Peers[n] = {})
    BY <1>3, <1>5, TopologyAssumption DEF Epochs
  <2> QED
    BY <1>3, <1>5, <1>6, <1>10, <1>17, <1>18, <2>1 DEF NodeOK
<1>20. ~Open(n) /\ ~Done(n)
  BY <1>1, <1>3 DEF Open, Done
<1> QED
  BY <1>1, <1>3, <1>6, <1>10, <1>12, <1>13, <1>15, <1>16, <1>18, <1>19, <1>20

\* The cut taken, in terms of the algorithm, from a state where nothing but
\* the cuts taken so far is the same.
LEMMA TakeReads ==
    ASSUME NEW st, NEW cut, NEW mb, NEW e, NEW n \in Nodes,
           Core(RecOf, SentOf, st, cut, mb, chan, LiveSet, e), e = epoch',
           n \notin st, SendsMarkers(chan, chan', n, SentOf, e),
           RecOf'[n] = RecOf[n], SentOf'[n] = SentOf[n], MarkedOf'[n] = {},
           n \in StartedSet', n \in LiveSet,
           SnapShape(n, CutOf'[n]), CutOf'[n].channels = << >>, DOMAIN CutOf'[n].markers = {},
           CutOf'[n].received = RecOf[n], CutOf'[n].sent = SentOf[n],
           \A a \in Nodes : a # n =>
               /\ RecOf'[a] = RecOf[a] /\ SentOf'[a] = SentOf[a] /\ MarkedOf'[a] = mb[a]
               /\ a \in StartedSet' <=> a \in st
               /\ a \in st => CutOf'[a] = cut[a]
               /\ a \in LiveSet' => a \in LiveSet
           ,
           st \subseteq Nodes
    PROVE  CoreOK'
<1>1. PICK st2 : st2 = StartedSet'
  OBVIOUS
<1>2. PICK cut2 : cut2 = CutOf'
  OBVIOUS
<1>3. PICK ch2 : ch2 = chan'
  OBVIOUS
<1>4. \A a \in Nodes : a \in st2 <=> (a \in st \/ a = n)
  BY <1>1
<1>5. \A a \in st : cut2[a] = cut[a]
  BY <1>2
<1>6. /\ SnapShape(n, cut2[n]) /\ cut2[n].channels = << >> /\ DOMAIN cut2[n].markers = {}
      /\ cut2[n].received = RecOf[n] /\ cut2[n].sent = SentOf[n]
  BY <1>2
<1>7. SendsMarkers(chan, ch2, n, SentOf, e)
  BY <1>3
<1>8. Core(RecOf, SentOf, st2, cut2, mb, ch2, LiveSet, e)
  BY <1>4, <1>5, <1>6, <1>7, CoreTake
<1>9. mb[n] = {}
  BY DEF Core
<1>10. \A a \in Nodes : /\ RecOf'[a] = RecOf[a] /\ SentOf'[a] = SentOf[a]
                        /\ MarkedOf'[a] = mb[a]
                        /\ a \in StartedSet' <=> a \in st2
                        /\ a \in st2 => CutOf'[a] = cut2[a]
                        /\ a \in LiveSet' => a \in LiveSet
  BY <1>1, <1>2, <1>9
<1> QED
  BY <1>3, <1>8, <1>10, CoreReads

\* Once every node has saved its local snapshot of the current epoch, they are
\* consistent.
LEMMA GlobalNow ==
    ASSUME IInv, epoch > floor, AllSaved(epoch)
    PROVE  ValidateGlobal(saved[epoch])
<1>1. ASSUME NEW a \in Nodes
      PROVE  a \in StartedSet /\ MarkedOf[a] = Peers[a] /\ saved[epoch][a] = CutOf[a]
  <2>1. SavedNow(a)
    BY DEF SavedNow, AllSaved
  <2>2. ~Open(a) /\ ~Done(a) /\ Started(a)
    BY <1>1, <2>1 DEF IInv, NodeOK, Started
  <2> QED
    BY <2>2 DEF StartedSet, MarkedOf, CutOf
<1>2. Core(RecOf, SentOf, StartedSet, CutOf, MarkedOf, chan, LiveSet, epoch)
  BY DEF IInv, CoreOK
<1>3. PICK snapshots : snapshots = saved[epoch]
  OBVIOUS
<1>4. \A a \in Nodes : a \in StartedSet /\ MarkedOf[a] = Peers[a] /\ snapshots[a] = CutOf[a]
  BY <1>1, <1>3
<1>5. ValidateGlobal(snapshots)
  BY <1>2, <1>4, CoreGlobal
<1> QED
  BY <1>3, <1>5

\* JoinEpoch
LEMMA JoinKeeps ==
    ASSUME IInv, NEW n \in Nodes, JoinEpoch(n)
    PROVE  IInv'
<1>1. StoreOK /\ TablesOK /\ (\A a \in Nodes : NodeOK(a)) /\ CoreOK
  BY DEF IInv
<1>2. UNCHANGED <<saved, committed, epoch, restored, floor>>
  BY DEF JoinEpoch
<1>3. StoreOK' /\ \A a \in Nodes : /\ RestoredNode(a)' = RestoredNode(a)
                                   /\ saved'[epoch][a] = saved[epoch][a]
  BY <1>1, <1>2, StoreFrame
<1>4. epoch \in Epochs /\ epoch > floor /\ floor \in Nat
  BY <1>1, TopologyAssumption DEF StoreOK, JoinEpoch, Epochs
<1>5. saved[epoch][n] = None
  <2>1. epoch > node[n].last_epoch /\ node[n].last_epoch \in 0..epoch
    BY <1>1 DEF JoinEpoch, CanStart, NodeOK
  <2>2. node[n].last_epoch # epoch
    BY <1>4, <2>1 DEF Epochs
  <2> QED
    BY <1>1, <1>4, <2>2 DEF NodeOK, SavedNow
<1>6. Initiate(n, epoch) /\ CanStart(node[n], epoch)
  BY DEF JoinEpoch
<1>7. /\ NodeOK(n)' /\ TablesOK' /\ SendsMarkers(chan, chan', n, SentOf, epoch)
      /\ RecOf'[n] = RecOf[n] /\ SentOf'[n] = SentOf[n] /\ MarkedOf'[n] = {}
      /\ n \in StartedSet' /\ n \in LiveSet /\ n \in LiveSet'
      /\ SnapShape(n, CutOf'[n]) /\ CutOf'[n].channels = << >> /\ DOMAIN CutOf'[n].markers = {}
      /\ CutOf'[n].received = RecOf[n] /\ CutOf'[n].sent = SentOf[n]
      /\ ~Open(n) /\ ~Done(n)
      /\ \A a \in Nodes : a # n => node'[a] = node[a]
  BY <1>1, <1>2, <1>4, <1>5, <1>6, InitiateReads
<1>8. n \notin StartedSet
  BY <1>5, <1>7 DEF StartedSet, Started, SavedNow
<1>9. \A a \in Nodes : a # n => NodeOK(a)' /\ Same(a)
  BY <1>1, <1>2, <1>3, <1>7, OtherNode
<1>10. CoreOK'
  <2>1. Core(RecOf, SentOf, StartedSet, CutOf, MarkedOf, chan, LiveSet, epoch)
    BY <1>1 DEF CoreOK
  <2>2. \A a \in Nodes : a # n =>
               /\ RecOf'[a] = RecOf[a] /\ SentOf'[a] = SentOf[a] /\ MarkedOf'[a] = MarkedOf[a]
               /\ a \in StartedSet' <=> a \in StartedSet
               /\ a \in StartedSet => CutOf'[a] = CutOf[a]
               /\ a \in LiveSet' => a \in LiveSet
    BY <1>9 DEF Same
  <2>3. StartedSet \subseteq Nodes
    BY DEF StartedSet
  <2>4. epoch = epoch'
    BY <1>2
  <2> QED
    BY <1>7, <1>8, <2>1, <2>2, <2>3, <2>4, TakeReads
<1> QED
  BY <1>3, <1>7, <1>9, <1>10 DEF IInv

\* Once the epoch before is over at every node, none refuses the next.
LEMMA BeginCanStart ==
    ASSUME IInv, NEW n \in Nodes, BeginEpoch(n)
    PROVE  CanStart(node[n], epoch + 1)
<1>1. epoch \in Nat /\ floor \in Nat /\ floor =< epoch
  BY DEF IInv, StoreOK
<1>2. NodeOK(n) /\ (epoch = floor \/ epoch \in committed)
  BY DEF IInv, BeginEpoch
<1>3. ~Open(n) /\ ~Done(n)
  <2>1. CASE epoch = floor
    BY <1>1, <1>2, <2>1 DEF NodeOK, Started
  <2>2. CASE epoch > floor
    <3>1. epoch \in committed
      BY <1>1, <1>2, <2>2
    <3>2. StoreOK
      BY DEF IInv
    <3>3. AllSaved(epoch)
      BY <3>1, <3>2 DEF StoreOK
    <3> QED
      BY <1>2, <2>2, <3>3 DEF AllSaved, SavedNow, NodeOK
  <2> QED
    BY <1>1, <2>1, <2>2
<1>4. node[n].last_epoch \in 0..epoch
  BY <1>2 DEF NodeOK
<1> QED
  BY <1>1, <1>3, <1>4 DEF CanStart, Open, Done

\* BeginEpoch: everyone has saved the epoch before, or it died with its run.
LEMMA BeginKeeps ==
    ASSUME IInv, NEW n \in Nodes, BeginEpoch(n)
    PROVE  IInv'
<1>1. StoreOK /\ TablesOK /\ (\A a \in Nodes : NodeOK(a)) /\ CoreOK
  BY DEF IInv
<1>2. UNCHANGED <<saved, committed, restored, floor>> /\ epoch' = epoch + 1
      /\ epoch < MaxEpoch /\ (epoch = floor \/ epoch \in committed)
  BY DEF BeginEpoch
<1>3. epoch \in Nat /\ floor \in Nat /\ floor =< epoch /\ epoch + 1 \in Epochs /\ epoch + 1 > floor
      /\ epoch + 1 \in 0..MaxEpoch
  BY <1>1, <1>2, TopologyAssumption DEF StoreOK, Epochs
<1>4. \A a \in Nodes : saved[epoch + 1][a] = None
  BY <1>1, <1>3 DEF StoreOK
<1>5. /\ \A a \in Nodes : ~Open(a) /\ ~Done(a)
      /\ (\A a \in Nodes : a \notin StartedSet) \/ (\A a \in Nodes : MarkedOf[a] = Peers[a])
  <2>1. CASE epoch = floor
    <3>1. \A a \in Nodes : ~Started(a)
      BY <1>1, <1>3, <2>1 DEF NodeOK
    <3> QED
      BY <3>1 DEF Started, StartedSet
  <2>2. CASE epoch > floor
    <3>0. epoch \in committed
      BY <1>2, <1>3, <2>2
    <3>1. AllSaved(epoch)
      BY <1>1, <3>0 DEF StoreOK
    <3>2. \A a \in Nodes : SavedNow(a) /\ ~Open(a) /\ ~Done(a) /\ Started(a)
      BY <1>1, <2>2, <3>1 DEF AllSaved, SavedNow, NodeOK, Started
    <3> QED
      BY <3>2 DEF MarkedOf
  <2> QED
    BY <1>3, <2>1, <2>2
<1>6. Initiate(n, epoch + 1) /\ CanStart(node[n], epoch + 1)
  BY BeginCanStart DEF BeginEpoch
<1>7. /\ NodeOK(n)' /\ TablesOK' /\ SendsMarkers(chan, chan', n, SentOf, epoch + 1)
      /\ RecOf'[n] = RecOf[n] /\ SentOf'[n] = SentOf[n] /\ MarkedOf'[n] = {}
      /\ n \in StartedSet' /\ n \in LiveSet /\ n \in LiveSet'
      /\ SnapShape(n, CutOf'[n]) /\ CutOf'[n].channels = << >> /\ DOMAIN CutOf'[n].markers = {}
      /\ CutOf'[n].received = RecOf[n] /\ CutOf'[n].sent = SentOf[n]
      /\ \A a \in Nodes : a # n => node'[a] = node[a]
  BY <1>1, <1>2, <1>3, <1>4, <1>6, InitiateReads
<1>8. ASSUME NEW a \in Nodes, a # n
      PROVE  /\ NodeOK(a)' /\ RecOf'[a] = RecOf[a] /\ SentOf'[a] = SentOf[a]
             /\ MarkedOf'[a] = {} /\ a \notin StartedSet' /\ (a \in LiveSet' => a \in LiveSet)
  <2>1. node'[a] = node[a]
    BY <1>7, <1>8
  <2>2. RestoredNode(a)' = RestoredNode(a)
    BY <1>2 DEF RestoredNode
  <2>3. View(a)' = View(a) /\ Running(a)' = Running(a)
    BY <2>1, <2>2 DEF View, Running
  <2>4. ~Open(a)' /\ ~Done(a)'
    BY <1>5, <2>1 DEF Open, Done
  <2>5. ~SavedNow(a)'
    BY <1>2, <1>4 DEF SavedNow
  <2>6. ~Started(a)'
    BY <2>4, <2>5 DEF Started
  <2>7. IsNode(a, node'[a]) /\ node'[a].last_epoch \in 0..epoch
    BY <1>1, <2>1 DEF NodeOK
  <2>8. node'[a].last_epoch \in 0..(epoch + 1) /\ node'[a].last_epoch # epoch + 1
    BY <1>3, <2>7
  <2>9. NodeOK(a)'
    BY <1>2, <2>4, <2>5, <2>6, <2>7, <2>8 DEF NodeOK
  <2> QED
    BY <2>1, <2>3, <2>4, <2>6, <2>9 DEF RecOf, SentOf, MarkedOf, StartedSet, LiveSet
<1>9. StoreOK'
  <2>1. epoch' \in 0..MaxEpoch /\ floor' \in 0..epoch'
    BY <1>2, <1>3
  <2>2. \A e \in Epochs : AllSaved(e)' <=> AllSaved(e)
    BY <1>2 DEF AllSaved
  <2>3. ASSUME NEW e \in Epochs, e < epoch' \/ e =< floor', AllSaved(e)'
        PROVE  ValidateGlobal(saved'[e])
    <3>1. AllSaved(e) /\ saved'[e] = saved[e] /\ e \in Nat
      BY <1>2, <2>2, <2>3, TopologyAssumption DEF Epochs
    <3>2. CASE e < epoch \/ e =< floor
      BY <1>1, <3>1, <3>2 DEF StoreOK
    <3>3. CASE e = epoch /\ epoch > floor
      BY <3>1, <3>3, GlobalNow
    <3> QED
      BY <1>2, <1>3, <2>3, <3>1, <3>2, <3>3
  <2>4. saved' = [e \in Epochs |-> [a \in Nodes |-> saved'[e][a]]]
    BY <1>1, <1>2 DEF StoreOK
  <2>5. \A e \in Epochs : \A a \in Nodes :
          /\ saved'[e][a] # None => SnapShape(a, saved'[e][a]) /\ saved'[e][a].epoch = e
          /\ e > epoch' => saved'[e][a] = None
    <3>1. \A e \in Epochs : e > epoch' => e > epoch
      BY <1>2, <1>3, TopologyAssumption DEF Epochs
    <3> QED
      BY <1>1, <1>2, <3>1 DEF StoreOK
  <2>6. \A e \in committed' : e =< epoch' /\ AllSaved(e)' /\ ValidateGlobal(saved'[e])
    <3>1. ASSUME NEW e \in committed
          PROVE  e \in Epochs /\ e =< epoch + 1 /\ AllSaved(e) /\ ValidateGlobal(saved[e])
      <4>1. e \in Epochs /\ e =< epoch /\ AllSaved(e) /\ ValidateGlobal(saved[e])
        BY <1>1, <3>1 DEF StoreOK
      <4> QED
        BY <1>3, <4>1, TopologyAssumption DEF Epochs
    <3> QED
      BY <1>2, <2>2, <3>1
  <2>7. committed' \subseteq Epochs /\ (restored' = 0 \/ (restored' \in committed' /\ restored' =< floor'))
    BY <1>1, <1>2 DEF StoreOK
  <2> QED
    BY <2>1, <2>3, <2>4, <2>5, <2>6, <2>7 DEF StoreOK
<1>10. CoreOK'
  <2>1. Core(RecOf, SentOf, StartedSet, CutOf, MarkedOf, chan, LiveSet, epoch)
    BY <1>1 DEF CoreOK
  <2>2. PICK st : st = {}
    OBVIOUS
  <2>3. PICK mb : mb = [a \in Nodes |-> {}]
    OBVIOUS
  <2>4. \A a \in Nodes : a \notin st /\ mb[a] = {}
    BY <2>2, <2>3
  <2>5. PICK e : e = epoch + 1
    OBVIOUS
  <2>6. Core(RecOf, SentOf, st, CutOf, mb, chan, LiveSet, e)
    BY <1>5, <2>1, <2>4, CoreBegin
  <2>7. \A a \in Nodes : a # n =>
               /\ RecOf'[a] = RecOf[a] /\ SentOf'[a] = SentOf[a] /\ MarkedOf'[a] = mb[a]
               /\ a \in StartedSet' <=> a \in st
               /\ a \in st => CutOf'[a] = CutOf[a]
               /\ a \in LiveSet' => a \in LiveSet
    BY <1>8, <2>4
  <2>8. e = epoch' /\ n \notin st /\ st \subseteq Nodes
        /\ SendsMarkers(chan, chan', n, SentOf, e)
    BY <1>2, <1>7, <2>2, <2>5
  <2> QED
    BY <1>7, <2>6, <2>7, <2>8, TakeReads
<1> QED
  BY <1>7, <1>8, <1>9, <1>10 DEF IInv

-----------------------------------------------------------------------------
(***************************************************************************)
(* Receiving a marker                                                      *)
(***************************************************************************)
\* s2 is what Marked makes of s.
MarkedTo(p, n, m, s, s2) == s2 = Marked(p, n, m, s)

\* A node that has counted the marker of p: its snapshot is complete when
\* that was the last one.
LEMMA MarkedShape ==
    ASSUME NEW n, NEW p \in Peers[n], NEW m, NEW s, NEW s2, MarkedTo(p, n, m, s, s2),
           IsNode(n, s), SnapShape(n, s.active), s.completed = None
    PROVE  \E c : /\ IsNode(n, s2) /\ s2.up = s.up /\ s2.failed = s.failed
                  /\ s2.received = s.received /\ s2.sent = s.sent
                  /\ s2.marked = s.marked \cup {p} /\ SnapShape(n, c)
                  /\ s2.marked = Peers[n] => /\ s2.active = None /\ s2.completed = c
                                             /\ s2.last_epoch = c.epoch
                  /\ s2.marked # Peers[n] => /\ s2.active = c /\ s2.completed = None
                                             /\ s2.last_epoch = s.last_epoch
                  /\ c.epoch = s.active.epoch /\ c.received = s.active.received
                  /\ c.sent = s.active.sent /\ c.channels = s.active.channels
                  /\ DOMAIN c.markers = DOMAIN s.active.markers \cup {p}
                  /\ c.markers[p] = m.sequence
                  /\ \A b \in DOMAIN s.active.markers :
                        b # p => c.markers[b] = s.active.markers[b]
<1>1. PICK s1 : s1 = WithMarker(p, m, s)
  OBVIOUS
<1>2. PICK k : k = m.sequence
  OBVIOUS
<1>3. /\ IsNode(n, s1) /\ s1.up = s.up /\ s1.failed = s.failed
      /\ s1.received = s.received /\ s1.sent = s.sent
      /\ s1.completed = s.completed /\ s1.last_epoch = s.last_epoch
      /\ Counted(p, k, s, s1) /\ SnapShape(n, s1.active)
  BY <1>1, <1>2, WithMarkerShape
<1>4. s1.active # None
  BY <1>3, SnapNotNone
<1>5. s2 = FinishIfReady(n, s1)
  BY <1>1 DEF MarkedTo, Marked, WithMarker
<1>6. /\ IsNode(n, s2) /\ s2.up = s1.up /\ s2.failed = s1.failed
      /\ s2.received = s1.received /\ s2.sent = s1.sent /\ s2.marked = s1.marked
      /\ s1.marked = Peers[n] => /\ s2.active = None /\ s2.completed = s1.active
                                 /\ s2.last_epoch = s1.active.epoch
      /\ s1.marked # Peers[n] => /\ s2.active = s1.active /\ s2.completed = None
                                 /\ s2.last_epoch = s1.last_epoch
  BY <1>3, <1>4, <1>5, FinishShape
<1>7. PICK c : c = s1.active
  OBVIOUS
<1>8. /\ s1.marked = s.marked \cup {p}
      /\ c.epoch = s.active.epoch /\ c.received = s.active.received
      /\ c.sent = s.active.sent /\ c.channels = s.active.channels
      /\ DOMAIN c.markers = DOMAIN s.active.markers \cup {p}
      /\ c.markers[p] = m.sequence
      /\ \A b \in DOMAIN s.active.markers : b # p => c.markers[b] = s.active.markers[b]
  BY <1>2, <1>3, <1>7 DEF Counted
<1> QED
  BY <1>3, <1>6, <1>7, <1>8

\* ReceiveMarker: no check fails; a node that has not taken its cut takes it
\* first and then counts the marker.
LEMMA ReceiveMarkerKeeps ==
    ASSUME IInv, NEW n \in Nodes, NEW p \in Peers[n], Running(n), node[n].completed = None,
           chan[p][n] # << >>, ReceiveMarker(p, n, Head(chan[p][n])),
           UNCHANGED <<saved, committed, damaged, epoch, restored, floor, crashes>>
    PROVE  IInv'
<1>0. p \in Nodes /\ n \in Peers[p] /\ p # n
  BY TopologyAssumption
<1>1. StoreOK /\ TablesOK /\ (\A a \in Nodes : NodeOK(a)) /\ CoreOK
  BY DEF IInv
<1>2. UNCHANGED <<saved, committed, epoch, restored, floor>>
  OBVIOUS
<1>3. StoreOK' /\ \A a \in Nodes : /\ RestoredNode(a)' = RestoredNode(a)
                                   /\ saved'[epoch][a] = saved[epoch][a]
  BY <1>1, <1>2, StoreFrame
<1>4. PICK s : s = node[n]
  OBVIOUS
<1>5. IsNode(n, s) /\ s.up /\ s.failed = "no" /\ s.completed = None
      /\ s.last_epoch \in 0..epoch
  BY <1>1, <1>4 DEF NodeOK, Running
<1>6. PICK m : m = Head(chan[p][n])
  OBVIOUS
<1>7. m = chan[p][n][1] /\ n \in LiveSet /\ m.kind = "marker"
  BY <1>6, FrontOfChannel DEF ReceiveMarker
<1>8. RecOf[n] = s.received /\ SentOf[n] = s.sent
  BY <1>4, <1>5, UpReads
<1>9. Core(RecOf, SentOf, StartedSet, CutOf, MarkedOf, chan, LiveSet, epoch)
  BY <1>1 DEF CoreOK
<1>10. m.sequence = s.received[p] /\ m.epoch = epoch /\ p \in StartedSet /\ p \notin MarkedOf[n]
  BY <1>7, <1>8, <1>9, MarkerAtFront
<1>11. epoch > floor /\ epoch \in Epochs /\ floor \in Nat /\ epoch \in Nat
  BY <1>0, <1>1, <1>10, TopologyAssumption DEF StartedSet, NodeOK, StoreOK, Epochs
<1>12. s.active # None => /\ n \in StartedSet /\ CutOf[n] = s.active /\ SnapShape(n, s.active)
                          /\ MarkedOf[n] = s.marked /\ s.active.epoch = epoch
                          /\ DOMAIN s.active.markers = s.marked
  BY <1>1, <1>4 DEF StartedSet, Started, Open, CutOf, MarkedOf, CoreOK, Core, CutOK, NodeOK
<1>13. s.active = None => ~Started(n) /\ n \notin StartedSet /\ MarkedOf[n] = {}
                          /\ saved[epoch][n] = None
  <2> HAVE s.active = None
  <2>1. ~Open(n) /\ ~Done(n)
    BY <1>4, <1>5 DEF Open, Done
  <2>2. ~Started(n)
    BY <1>10, <2>1 DEF MarkedOf
  <2> QED
    BY <1>11, <2>1, <2>2 DEF StartedSet, MarkedOf, Started, SavedNow
<1>14. s.active = None => epoch > s.last_epoch
  <2> HAVE s.active = None
  <2>1. s.last_epoch # epoch
    BY <1>1, <1>4, <1>11, <1>13 DEF NodeOK, Started
  <2> QED
    BY <1>5, <1>11, <2>1
<1>15. PICK s1 : s1 = IF s.active = None THEN Start(n, s, m.epoch) ELSE s
  OBVIOUS
<1>16. PICK c1 : c1 = s1.active
  OBVIOUS
<1>17. /\ IsNode(n, s1) /\ s1.up = s.up /\ s1.failed = s.failed /\ s1.received = s.received
       /\ s1.sent = s.sent /\ s1.completed = None /\ s1.last_epoch = s.last_epoch
       /\ SnapShape(n, c1) /\ c1.epoch = epoch /\ s1.marked = MarkedOf[n]
       /\ DOMAIN c1.markers = MarkedOf[n]
       /\ s.active = None => c1.channels = << >> /\ c1.received = s.received /\ c1.sent = s.sent
       /\ s.active # None => c1 = s.active
  <2>1. CASE s.active = None
    <3>1. s1 = Start(n, s, epoch)
      BY <1>10, <1>15, <2>1
    <3>2. PICK c : c = NewCut(n, s, epoch)
      OBVIOUS
    <3>3. /\ IsNode(n, s1) /\ s1.active = c /\ s1.marked = {}
          /\ s1.up = s.up /\ s1.failed = s.failed /\ s1.received = s.received
          /\ s1.sent = s.sent /\ s1.completed = s.completed /\ s1.last_epoch = s.last_epoch
      <4>1. /\ IsNode(n, s1) /\ s1.active = NewCut(n, s, epoch) /\ s1.marked = {}
            /\ s1.up = s.up /\ s1.failed = s.failed /\ s1.received = s.received
            /\ s1.sent = s.sent /\ s1.completed = s.completed
            /\ s1.last_epoch = s.last_epoch
        <5>1. PICK e : e = epoch
          OBVIOUS
        <5>2. e \in Epochs /\ IsNode(n, s) /\ s1 = Start(n, s, e)
          BY <1>5, <1>11, <3>1, <5>1
        <5>3. /\ IsNode(n, s1) /\ s1.active = NewCut(n, s, e) /\ s1.marked = {}
              /\ s1.up = s.up /\ s1.failed = s.failed /\ s1.received = s.received
              /\ s1.sent = s.sent /\ s1.completed = s.completed
              /\ s1.last_epoch = s.last_epoch
          BY <5>2, StartShape
        <5> QED
          BY <5>1, <5>3
      <4> QED
        BY <3>2, <4>1
    <3>4. /\ SnapShape(n, c) /\ c.epoch = epoch /\ c.received = s.received /\ c.sent = s.sent
          /\ c.channels = << >> /\ DOMAIN c.markers = {}
      BY <1>5, <1>11, <3>2, NewCutShape
    <3> QED
      BY <1>5, <1>13, <1>16, <2>1, <3>3, <3>4
  <2>2. CASE s.active # None
    BY <1>5, <1>12, <1>15, <1>16, <2>2
  <2> QED
    BY <2>1, <2>2
<1>18. PICK left : left = PollOnce(p, n)
  OBVIOUS
<1>19. PICK s2 : MarkedTo(p, n, m, s1, s2)
  BY DEF MarkedTo
<1>20. /\ node' = [node EXCEPT ![n] = s2]
       /\ chan' = IF s.active = None THEN [left EXCEPT ![n] = SendMarkers(n, m.epoch)[n]] ELSE left
  <2>1. ~(m.sequence # s.received[p]) /\ ~(s.active = None /\ ~CanStart(s, m.epoch))
        /\ ~(s1.active.epoch # m.epoch) /\ ~(p \in s1.marked)
    BY <1>5, <1>10, <1>14, <1>16, <1>17 DEF CanStart
  <2>2. s2 = Marked(p, n, m, s1)
    BY <1>19 DEF MarkedTo
  <2> QED
    BY <1>4, <1>6, <1>15, <1>18, <2>1, <2>2 DEF ReceiveMarker
<1>21. PICK c : /\ IsNode(n, s2) /\ s2.up = s1.up /\ s2.failed = s1.failed
                /\ s2.received = s1.received /\ s2.sent = s1.sent
                /\ s2.marked = s1.marked \cup {p} /\ SnapShape(n, c)
                /\ s2.marked = Peers[n] => /\ s2.active = None /\ s2.completed = c
                                           /\ s2.last_epoch = c.epoch
                /\ s2.marked # Peers[n] => /\ s2.active = c /\ s2.completed = None
                                           /\ s2.last_epoch = s1.last_epoch
                /\ c.epoch = c1.epoch /\ c.received = c1.received
                /\ c.sent = c1.sent /\ c.channels = c1.channels
                /\ DOMAIN c.markers = DOMAIN c1.markers \cup {p}
                /\ c.markers[p] = m.sequence
                /\ \A b \in DOMAIN c1.markers : b # p => c.markers[b] = c1.markers[b]
  BY <1>16, <1>17, <1>19, MarkedShape
<1>22. c # None
  BY <1>21, SnapNotNone
<1>23. DOMAIN node = Nodes
  BY <1>1 DEF TablesOK
<1>24. node'[n] = s2 /\ \A a \in Nodes : a # n => node'[a] = node[a]
  BY <1>20, <1>23
<1>25. \A a \in Nodes : a # n => NodeOK(a)' /\ Same(a)
  BY <1>1, <1>2, <1>3, <1>24, OtherNode
<1>26. ~SavedNow(n)
  <2>1. CASE s.active = None
    BY <1>13, <2>1 DEF Started
  <2>2. CASE s.active # None
    BY <1>1, <1>4, <2>2 DEF NodeOK, Open
  <2> QED
    BY <2>1, <2>2
<1>27. /\ (Open(n)' <=> s2.marked # Peers[n]) /\ (Done(n)' <=> s2.marked = Peers[n])
       /\ ~SavedNow(n)' /\ Started(n)'
  BY <1>2, <1>21, <1>22, <1>24, <1>26 DEF Open, Done, SavedNow, Started
<1>28. CutOf'[n] = c /\ MarkedOf'[n] = s2.marked /\ n \in StartedSet'
  <2>1. CASE s2.marked = Peers[n]
    BY <1>21, <1>24, <1>27, <2>1 DEF CutOf, MarkedOf, StartedSet
  <2>2. CASE s2.marked # Peers[n]
    BY <1>21, <1>24, <1>27, <2>2 DEF CutOf, MarkedOf, StartedSet
  <2> QED
    BY <2>1, <2>2
<1>29. NodeOK(n)'
  <2>1. s.last_epoch # epoch
    BY <1>1, <1>4, <1>5, <1>11, <1>26 DEF NodeOK, Done
  <2>2. s2.last_epoch \in 0..epoch /\ (s2.last_epoch = epoch <=> s2.marked = Peers[n])
    BY <1>5, <1>11, <1>17, <1>21, <2>1
  <2> QED
    BY <1>2, <1>5, <1>11, <1>17, <1>21, <1>24, <1>27, <1>28, <2>2 DEF NodeOK
<1>30. RecOf'[n] = RecOf[n] /\ SentOf'[n] = SentOf[n] /\ n \in LiveSet'
  BY <1>5, <1>8, <1>17, <1>21, <1>24, UpReadsNext
<1>31. chan = [a \in Nodes |-> [b \in Peers[a] |-> chan[a][b]]]
  BY <1>1 DEF TablesOK
<1>32. PICK ch1 : ch1 = IF s.active = None THEN SendMarkers(n, epoch) ELSE chan
  OBVIOUS
<1>33. s.active = None =>
           ch1 = [chan EXCEPT ![n] = [b \in Peers[n] |->
                                         Append(chan[n][b], Marker(SentOf[n][b], epoch))]]
  BY <1>4, <1>8, <1>32 DEF SendMarkers, Queue
<1>34. s.active = None => SendsMarkers(chan, ch1, n, SentOf, epoch)
  BY <1>31, <1>33 DEF SendsMarkers
<1>35. ch1[p][n] = chan[p][n] /\ ch1 = [a \in Nodes |-> [b \in Peers[a] |-> ch1[a][b]]]
  <2>1. CASE s.active = None
    BY <1>0, <1>31, <1>33, <2>1
  <2>2. CASE s.active # None
    BY <1>31, <1>32, <2>2
  <2> QED
    BY <2>1, <2>2
<1>36. chan' = [ch1 EXCEPT ![p][n] = Tail(ch1[p][n])]
  <2>1. left = [chan EXCEPT ![p][n] = Tail(chan[p][n])]
    BY <1>18 DEF PollOnce
  <2>2. CASE s.active # None
    BY <1>20, <1>32, <2>1, <2>2
  <2>3. CASE s.active = None
    <3>1. PICK row : row = ch1[n]
      OBVIOUS
    <3>2. chan' = [left EXCEPT ![n] = row]
      BY <1>10, <1>20, <1>32, <2>3, <3>1
    <3>3. ch1 = [chan EXCEPT ![n] = row]
      BY <1>31, <1>33, <2>3, <3>1
    <3>4. PICK t : t = Tail(chan[p][n])
      OBVIOUS
    <3>5. left = [chan EXCEPT ![p] = [chan[p] EXCEPT ![n] = t]]
      BY <1>0, <1>31, <2>1, <3>4
    <3>6. ch1[p] = chan[p]
      BY <1>0, <1>31, <3>3
    <3>7. [ch1 EXCEPT ![p][n] = t] = [ch1 EXCEPT ![p] = [chan[p] EXCEPT ![n] = t]]
      BY <1>0, <1>35, <3>6
    <3>8. [left EXCEPT ![n] = row] = [ch1 EXCEPT ![p] = [chan[p] EXCEPT ![n] = t]]
      BY <1>0, <1>31, <3>3, <3>5
    <3> QED
      BY <1>35, <3>2, <3>4, <3>7, <3>8
  <2> QED
    BY <2>2, <2>3
<1>37. Polls(ch1, chan', p, n)
  BY <1>0, <1>35, <1>36 DEF Polls
<1>38. TablesOK'
  <2>1. node' = [a \in Nodes |-> node'[a]]
    BY <1>20, <1>23
  <2>2. chan' = [a \in Nodes |-> [b \in Peers[a] |-> chan'[a][b]]]
    BY <1>0, <1>35, <1>36
  <2> QED
    BY <2>1, <2>2 DEF TablesOK
<1>39. PICK st1 : st1 = StartedSet \cup {n}
  OBVIOUS
<1>40. PICK cut1 : cut1 = [a \in Nodes |-> IF a = n THEN c1 ELSE CutOf[a]]
  OBVIOUS
<1>41. cut1[n] = c1 /\ \A a \in Nodes : a # n => cut1[a] = CutOf[a]
  BY <1>40
<1>42. Core(RecOf, SentOf, st1, cut1, MarkedOf, ch1, LiveSet, epoch)
  <2>0. StartedSet \subseteq Nodes
    BY DEF StartedSet
  <2>1. CASE s.active = None
    <3>1. n \notin StartedSet /\ \A a \in Nodes : a \in st1 <=> (a \in StartedSet \/ a = n)
      BY <1>13, <1>39, <2>1
    <3>2. \A a \in StartedSet : cut1[a] = CutOf[a]
      BY <1>41, <2>0, <3>1
    <3>3. /\ SnapShape(n, cut1[n]) /\ cut1[n].channels = << >> /\ DOMAIN cut1[n].markers = {}
          /\ cut1[n].received = RecOf[n] /\ cut1[n].sent = SentOf[n]
      BY <1>8, <1>13, <1>17, <1>41, <2>1
    <3>4. SendsMarkers(chan, ch1, n, SentOf, epoch)
      BY <1>34, <2>1
    <3> QED
      BY <1>9, <3>1, <3>2, <3>3, <3>4, CoreTake
  <2>2. CASE s.active # None
    <3>1. n \in StartedSet /\ CutOf[n] = c1 /\ ch1 = chan
      BY <1>12, <1>17, <1>32, <2>2
    <3>2. \A a \in Nodes : /\ a \in st1 <=> a \in StartedSet
                           /\ a \in StartedSet => cut1[a] = CutOf[a]
      BY <1>39, <1>41, <3>1
    <3> QED
      BY <1>9, <3>1, <3>2, CoreFrame
  <2> QED
    BY <2>1, <2>2
<1>43. CoreOK'
  <2>1. PICK cut2 : cut2 = CutOf'
    OBVIOUS
  <2>2. PICK mb2 : mb2 = MarkedOf'
    OBVIOUS
  <2>3. PICK ch2 : ch2 = chan'
    OBVIOUS
  <2>4. PICK mb : mb = MarkedOf
    OBVIOUS
  <2>5. PICK rec : rec = RecOf
    OBVIOUS
  <2>6. Core(rec, SentOf, st1, cut1, mb, ch1, LiveSet, epoch)
    BY <1>42, <2>4, <2>5
  <2>7. ch1[p][n] # << >> /\ ch1[p][n][1].kind = "marker" /\ n \in st1 /\ n \in LiveSet
    BY <1>7, <1>35, <1>39
  <2>8. Polls(ch1, ch2, p, n)
    BY <1>37, <2>3
  <2>9. \A a \in st1 : a # n => cut2[a] = cut1[a]
    BY <1>25, <1>39, <1>41, <2>1 DEF Same, StartedSet
  <2>10. /\ SnapShape(n, cut2[n])
         /\ cut2[n].received = cut1[n].received /\ cut2[n].sent = cut1[n].sent
         /\ cut2[n].channels = cut1[n].channels
         /\ DOMAIN cut2[n].markers = mb[n] \cup {p} /\ cut2[n].markers[p] = rec[n][p]
         /\ \A b \in mb[n] : b # p => cut2[n].markers[b] = cut1[n].markers[b]
    BY <1>8, <1>10, <1>17, <1>21, <1>28, <1>41, <2>1, <2>4, <2>5
  <2>11. (\A a \in Nodes : a # n => mb2[a] = mb[a]) /\ mb2[n] = mb[n] \cup {p}
    BY <1>17, <1>21, <1>25, <1>28, <2>2, <2>4 DEF Same
  <2>12. Core(rec, SentOf, st1, cut2, mb2, ch2, LiveSet, epoch)
    BY <2>6, <2>7, <2>8, <2>9, <2>10, <2>11, CoreMark
  <2>13. \A a \in Nodes : /\ RecOf'[a] = rec[a] /\ SentOf'[a] = SentOf[a]
                          /\ MarkedOf'[a] = mb2[a]
                          /\ a \in StartedSet' <=> a \in st1
                          /\ a \in st1 => CutOf'[a] = cut2[a]
                          /\ a \in LiveSet' => a \in LiveSet
    BY <1>7, <1>25, <1>28, <1>30, <1>39, <2>1, <2>2, <2>5 DEF Same
  <2> QED
    BY <1>2, <2>3, <2>12, <2>13, CoreReads
<1> QED
  BY <1>3, <1>25, <1>29, <1>38, <1>43 DEF IInv

-----------------------------------------------------------------------------
(***************************************************************************)
(* The store, restarts and the supervisor                                  *)
(***************************************************************************)
\* SaveLocal: the file of the current epoch is written once.
LEMMA SaveKeeps ==
    ASSUME IInv, NEW n \in Nodes, SaveLocal(n)
    PROVE  IInv'
<1>1. StoreOK /\ TablesOK /\ (\A a \in Nodes : NodeOK(a)) /\ CoreOK
  BY DEF IInv
<1>2. UNCHANGED <<chan, committed, epoch, restored, floor>>
  BY DEF SaveLocal
<1>3. PICK s : s = node[n]
  OBVIOUS
<1>4. PICK c : c = s.completed
  OBVIOUS
<1>5. IsNode(n, s) /\ s.up /\ s.failed = "no" /\ c # None
  BY <1>1, <1>3, <1>4 DEF NodeOK, SaveLocal, Running
<1>6. Done(n) /\ ~Open(n) /\ ~SavedNow(n) /\ Started(n) /\ epoch > floor
      /\ CutOf[n] = c /\ c.epoch = epoch
  BY <1>1, <1>3, <1>4, <1>5 DEF NodeOK, Done, Started, CutOf
<1>7. epoch \in Epochs /\ floor \in Nat /\ epoch \in Nat
  BY <1>1, <1>6, TopologyAssumption DEF StoreOK, Epochs
<1>8. saved[epoch][n] = None
  BY <1>6 DEF SavedNow
<1>9. SnapShape(n, c)
  BY <1>1, <1>6 DEF CoreOK, Core, CutOK, StartedSet
<1>10. saved' = [saved EXCEPT ![epoch][n] = c] /\ node' = [node EXCEPT ![n].completed = None]
  BY <1>3, <1>4, <1>6, <1>8 DEF SaveLocal
<1>11. DOMAIN node = Nodes /\ DOMAIN s = {"up", "failed", "received", "sent", "app", "active",
                                          "completed", "marked", "last_epoch"}
  BY <1>1, <1>5 DEF TablesOK, IsNode
<1>12. PICK s2 : s2 = node'[n]
  OBVIOUS
<1>13. s2 = [s EXCEPT !.completed = None]
  BY <1>3, <1>10, <1>11, <1>12
<1>14. /\ DOMAIN s2 = DOMAIN s
       /\ s2.up = s.up /\ s2.failed = s.failed /\ s2.received = s.received /\ s2.sent = s.sent
       /\ s2.active = s.active /\ s2.completed = None /\ s2.marked = s.marked
       /\ s2.last_epoch = s.last_epoch
  BY <1>11, <1>13
<1>15. IsNode(n, s2)
  BY <1>5, <1>14 DEF IsNode
<1>16. \A a \in Nodes : a # n => node'[a] = node[a]
  BY <1>10, <1>11
<1>17. saved = [e \in Epochs |-> [a \in Nodes |-> saved[e][a]]]
  BY <1>1 DEF StoreOK
<1>18. /\ \A e \in Epochs : e # epoch => saved'[e] = saved[e]
       /\ \A e \in Epochs, a \in Nodes : e # epoch \/ a # n => saved'[e][a] = saved[e][a]
       /\ saved'[epoch][n] = c
       /\ saved' = [e \in Epochs |-> [a \in Nodes |-> saved'[e][a]]]
  BY <1>7, <1>10, <1>17
<1>19. \A a \in Nodes : RestoredNode(a)' = RestoredNode(a)
  <2>1. restored = 0 \/ (restored \in Epochs /\ restored =< floor)
    BY <1>1 DEF StoreOK
  <2>2. restored # 0 => restored \in Epochs /\ restored # epoch
    BY <1>6, <1>7, <2>1, TopologyAssumption DEF Epochs
  <2> QED
    BY <1>2, <1>18, <2>2 DEF RestoredNode
<1>20. \A a \in Nodes : a # n => NodeOK(a)' /\ Same(a)
  BY <1>1, <1>2, <1>7, <1>16, <1>18, <1>19, OtherNode
<1>21. ~Open(n)' /\ ~Done(n)' /\ SavedNow(n)' /\ Started(n)'
  BY <1>2, <1>3, <1>5, <1>6, <1>12, <1>14, <1>18 DEF Open, Done, SavedNow, Started
<1>22. CutOf'[n] = CutOf[n] /\ MarkedOf'[n] = MarkedOf[n] /\ n \in StartedSet /\ n \in StartedSet'
  BY <1>2, <1>6, <1>18, <1>21 DEF CutOf, MarkedOf, StartedSet
<1>23. RecOf'[n] = RecOf[n] /\ SentOf'[n] = SentOf[n] /\ (n \in LiveSet' <=> n \in LiveSet)
  BY <1>3, <1>5, <1>12, <1>14, UpReads, UpReadsNext
<1>24. NodeOK(n)'
  <2>1. s.last_epoch = epoch /\ s.last_epoch \in 0..epoch
    BY <1>1, <1>3, <1>6 DEF NodeOK
  <2> QED
    BY <1>2, <1>5, <1>6, <1>12, <1>14, <1>15, <1>21, <1>22, <2>1 DEF NodeOK
<1>25. TablesOK'
  <2>1. node' = [a \in Nodes |-> node'[a]]
    BY <1>10, <1>11
  <2> QED
    BY <1>1, <1>2, <2>1 DEF TablesOK
<1>26. CoreOK'
  <2>1. Core(RecOf, SentOf, StartedSet, CutOf, MarkedOf, chan, LiveSet, epoch)
    BY <1>1 DEF CoreOK
  <2>2. \A a \in Nodes : /\ RecOf'[a] = RecOf[a] /\ SentOf'[a] = SentOf[a]
                         /\ MarkedOf'[a] = MarkedOf[a]
                         /\ a \in StartedSet' <=> a \in StartedSet
                         /\ a \in StartedSet => CutOf'[a] = CutOf[a]
                         /\ a \in LiveSet' => a \in LiveSet
    BY <1>20, <1>22, <1>23 DEF Same
  <2> QED
    BY <1>2, <2>1, <2>2, CoreReads
<1>27. StoreOK'
  <2>1. \A e \in Epochs : e # epoch => (AllSaved(e)' <=> AllSaved(e))
    BY <1>18 DEF AllSaved
  <2>2. ASSUME NEW e \in Epochs, e < epoch \/ e =< floor, AllSaved(e)'
        PROVE  ValidateGlobal(saved'[e])
    <3>1. e # epoch
      BY <1>6, <1>7, <2>2, TopologyAssumption DEF Epochs
    <3> QED
      BY <1>1, <1>18, <2>1, <2>2, <3>1 DEF StoreOK
  <2>3. ASSUME NEW e \in committed
        PROVE  e =< epoch /\ AllSaved(e)' /\ ValidateGlobal(saved'[e])
    <3>1. e \in Epochs /\ e =< epoch /\ AllSaved(e) /\ ValidateGlobal(saved[e])
      BY <1>1, <2>3 DEF StoreOK
    <3>2. e # epoch
      BY <1>8, <3>1 DEF AllSaved
    <3> QED
      BY <1>18, <2>1, <3>1, <3>2
  <2>4. \A e \in Epochs : \A a \in Nodes :
          /\ saved'[e][a] # None => SnapShape(a, saved'[e][a]) /\ saved'[e][a].epoch = e
          /\ e > epoch => saved'[e][a] = None
    <3> TAKE e \in Epochs
    <3> TAKE a \in Nodes
    <3>1. CASE e = epoch /\ a = n
      BY <1>6, <1>7, <1>9, <1>18, <3>1
    <3>2. CASE e # epoch \/ a # n
      BY <1>1, <1>18, <3>2 DEF StoreOK
    <3> QED
      BY <3>1, <3>2
  <2>5. /\ epoch' \in 0..MaxEpoch /\ floor' \in 0..epoch' /\ committed' \subseteq Epochs
        /\ restored' = 0 \/ (restored' \in committed' /\ restored' =< floor')
    BY <1>1, <1>2 DEF StoreOK
  <2> QED
    BY <1>2, <1>18, <2>2, <2>3, <2>4, <2>5 DEF StoreOK
<1> QED
  BY <1>20, <1>24, <1>25, <1>26, <1>27 DEF IInv

\* Restore: the process becomes what its peers already took it for.
LEMMA RestoreKeeps ==
    ASSUME IInv, NEW n \in Nodes, Restore(n)
    PROVE  IInv'
<1>1. StoreOK /\ TablesOK /\ (\A a \in Nodes : NodeOK(a)) /\ CoreOK
  BY DEF IInv
<1>2. UNCHANGED <<saved, committed, epoch, restored, floor>> /\ chan' = chan
  BY DEF Restore
<1>3. StoreOK' /\ \A a \in Nodes : /\ RestoredNode(a)' = RestoredNode(a)
                                   /\ saved'[epoch][a] = saved[epoch][a]
  BY <1>1, <1>2, StoreFrame
<1>4. PICK s2 : s2 = RestoredNode(n)
  OBVIOUS
<1>5. /\ IsNode(n, s2) /\ s2.up /\ s2.active = None /\ s2.completed = None
      /\ s2.marked = {} /\ s2.last_epoch \in 0..floor
  BY <1>1, <1>4, RestoredShape
<1>6. DOMAIN node = Nodes /\ ~node[n].up /\ node' = [node EXCEPT ![n] = s2]
  BY <1>1, <1>4 DEF TablesOK, Restore
<1>7. node'[n] = s2 /\ \A a \in Nodes : a # n => node'[a] = node[a]
  BY <1>6
<1>8. \A a \in Nodes : a # n => NodeOK(a)' /\ Same(a)
  BY <1>1, <1>2, <1>3, <1>7, OtherNode
<1>9. ~Started(n) /\ ~Open(n) /\ ~Done(n) /\ ~SavedNow(n)
  BY <1>1, <1>6 DEF NodeOK, Started
<1>10. ~Started(n)' /\ ~Open(n)' /\ ~Done(n)' /\ ~SavedNow(n)'
  BY <1>2, <1>5, <1>7, <1>9 DEF Started, Open, Done, SavedNow
<1>11. epoch \in Nat /\ floor \in Nat /\ floor =< epoch
  BY <1>1, TopologyAssumption DEF StoreOK
<1>12. NodeOK(n)'
  <2>1. s2.last_epoch \in 0..epoch /\ (epoch > floor => s2.last_epoch # epoch)
    BY <1>5, <1>11
  <2> QED
    BY <1>2, <1>5, <1>7, <1>10, <2>1 DEF NodeOK
<1>13. View(n) = s2 /\ View(n)' = s2
  BY <1>4, <1>5, <1>6, <1>7 DEF View
<1>14. /\ RecOf'[n] = RecOf[n] /\ SentOf'[n] = SentOf[n] /\ MarkedOf'[n] = MarkedOf[n]
       /\ n \notin StartedSet /\ n \notin StartedSet' /\ n \in LiveSet
  BY <1>6, <1>9, <1>10, <1>13 DEF RecOf, SentOf, MarkedOf, StartedSet, LiveSet
<1>15. TablesOK'
  <2>1. node' = [a \in Nodes |-> node'[a]]
    BY <1>6
  <2> QED
    BY <1>1, <1>2, <2>1 DEF TablesOK
<1>16. CoreOK'
  <2>1. Core(RecOf, SentOf, StartedSet, CutOf, MarkedOf, chan, LiveSet, epoch)
    BY <1>1 DEF CoreOK
  <2>2. \A a \in Nodes : /\ RecOf'[a] = RecOf[a] /\ SentOf'[a] = SentOf[a]
                         /\ MarkedOf'[a] = MarkedOf[a]
                         /\ a \in StartedSet' <=> a \in StartedSet
                         /\ a \in StartedSet => CutOf'[a] = CutOf[a]
                         /\ a \in LiveSet' => a \in LiveSet
    BY <1>8, <1>14 DEF Same
  <2> QED
    BY <1>2, <2>1, <2>2, CoreReads
<1> QED
  BY <1>3, <1>8, <1>12, <1>15, <1>16 DEF IInv

\* A step of the supervisor that only writes a manifest or damages a file.
LEMMA StoreStepKeeps ==
    ASSUME IInv, UNCHANGED <<node, chan, saved, epoch, restored, floor>>, StoreOK'
    PROVE  IInv'
<1>1. TablesOK /\ (\A a \in Nodes : NodeOK(a)) /\ CoreOK
  BY DEF IInv
<1>2. \A a \in Nodes : RestoredNode(a)' = RestoredNode(a)
  BY DEF RestoredNode
<1>3. \A a \in Nodes : NodeOK(a)' /\ Same(a)
  BY <1>1, <1>2, OtherNode
<1>4. TablesOK'
  BY <1>1 DEF TablesOK
<1>5. CoreOK'
  <2>1. Core(RecOf, SentOf, StartedSet, CutOf, MarkedOf, chan, LiveSet, epoch)
    BY <1>1 DEF CoreOK
  <2>2. \A a \in Nodes : /\ RecOf'[a] = RecOf[a] /\ SentOf'[a] = SentOf[a]
                         /\ MarkedOf'[a] = MarkedOf[a]
                         /\ a \in StartedSet' <=> a \in StartedSet
                         /\ a \in StartedSet => CutOf'[a] = CutOf[a]
                         /\ a \in LiveSet' => a \in LiveSet
    BY <1>3 DEF Same
  <2> QED
    BY <2>1, <2>2, CoreReads
<1> QED
  BY <1>3, <1>4, <1>5 DEF IInv

\* Commit
LEMMA CommitKeeps ==
    ASSUME IInv, Commit
    PROVE  IInv'
<1>1. StoreOK
  BY DEF IInv
<1>2. /\ UNCHANGED <<node, chan, saved, epoch, restored, floor>>
      /\ epoch > floor /\ AllSaved(epoch) /\ ValidateGlobal(saved[epoch])
      /\ committed' = committed \cup {epoch}
  BY DEF Commit
<1>3. epoch \in Epochs /\ epoch =< epoch
  BY <1>1, <1>2, TopologyAssumption DEF StoreOK, Epochs
<1>4. \A e : AllSaved(e)' <=> AllSaved(e)
  BY <1>2 DEF AllSaved
<1>5. \A e \in committed' : e \in Epochs /\ e =< epoch /\ AllSaved(e) /\ ValidateGlobal(saved[e])
  BY <1>1, <1>2, <1>3 DEF StoreOK
<1>6. StoreOK'
  <2>1. committed' \subseteq Epochs /\ \A e \in committed' : e =< epoch' /\ AllSaved(e)'
                                                            /\ ValidateGlobal(saved'[e])
    BY <1>2, <1>4, <1>5
  <2>2. \A e \in Epochs : e < epoch' \/ e =< floor' => (AllSaved(e)' => ValidateGlobal(saved'[e]))
    BY <1>1, <1>2, <1>4 DEF StoreOK
  <2>3. restored' = 0 \/ (restored' \in committed' /\ restored' =< floor')
    BY <1>1, <1>2 DEF StoreOK
  <2>4. /\ epoch' \in 0..MaxEpoch /\ floor' \in 0..epoch'
        /\ saved' = [e \in Epochs |-> [a \in Nodes |-> saved'[e][a]]]
        /\ \A e \in Epochs : \A a \in Nodes :
              /\ saved'[e][a] # None => SnapShape(a, saved'[e][a]) /\ saved'[e][a].epoch = e
              /\ e > epoch' => saved'[e][a] = None
    BY <1>1, <1>2 DEF StoreOK
  <2> QED
    BY <2>1, <2>2, <2>3, <2>4 DEF StoreOK
<1> QED
  BY <1>2, <1>6, StoreStepKeeps

\* Damage
LEMMA DamageKeeps ==
    ASSUME IInv, NEW e \in Epochs, Damage(e)
    PROVE  IInv'
<1>1. UNCHANGED <<node, chan, saved, committed, epoch, restored, floor>>
  BY DEF Damage
<1>2. StoreOK'
  BY <1>1, StoreFrame DEF IInv
<1> QED
  BY <1>1, <1>2, StoreStepKeeps

\* A process that has not started.
LEMMA FreshShape ==
    ASSUME NEW n
    PROVE  /\ IsNode(n, FreshNode(n)) /\ ~FreshNode(n).up /\ FreshNode(n).active = None
           /\ FreshNode(n).completed = None /\ FreshNode(n).last_epoch = 0
<1>1. PICK r : r = FreshNode(n)
  OBVIOUS
<1>2. PICK z : z = Zero(n)
  OBVIOUS
<1>3. z \in [Peers[n] -> Nat]
  BY <1>2 DEF Zero
<1>4. /\ DOMAIN r = {"up", "failed", "received", "sent", "app", "active", "completed",
                     "marked", "last_epoch"}
      /\ r.up = FALSE /\ r.failed = "no" /\ r.received = z /\ r.sent = z
      /\ r.active = None /\ r.completed = None /\ r.marked = {} /\ r.last_epoch = 0
  BY <1>1, <1>2 DEF FreshNode
<1>5. IsNode(n, r)
  BY <1>3, <1>4 DEF IsNode
<1> QED
  BY <1>1, <1>4, <1>5

\* Crash: all processes are about to restore one validated snapshot.
LEMMA CrashKeeps ==
    ASSUME IInv, Crash
    PROVE  IInv'
<1>0. \A a \in Nodes : Peers[a] \subseteq Nodes /\ \A b \in Peers[a] : a \in Peers[b]
  BY TopologyAssumption
<1>1. StoreOK
  BY DEF IInv
<1>2. /\ UNCHANGED <<saved, committed, epoch>> /\ floor' = epoch
      /\ node' = [n \in Nodes |-> FreshNode(n)] /\ chan' = NoMessages
  BY DEF Crash
<1>3. PICK e \in Epochs : Loadable(e) /\ restored' = e
  BY DEF Crash
<1>4. e \in committed /\ e =< epoch /\ AllSaved(e) /\ ValidateGlobal(saved[e]) /\ e # 0
  <2>1. e \in committed /\ ValidateGlobal(saved[e])
    BY <1>3 DEF Loadable
  <2>2. e =< epoch /\ AllSaved(e)
    BY <1>1, <2>1 DEF StoreOK
  <2>3. e # 0
    BY TopologyAssumption DEF Epochs
  <2> QED
    BY <2>1, <2>2, <2>3
<1>5. epoch \in Nat /\ epoch \in 0..MaxEpoch
  BY <1>1, TopologyAssumption DEF StoreOK
<1>6. StoreOK'
  <2>1. \A f : AllSaved(f)' <=> AllSaved(f)
    BY <1>2 DEF AllSaved
  <2>2. \A f \in Epochs : f < epoch' \/ f =< floor' => (AllSaved(f)' => ValidateGlobal(saved'[f]))
    <3> SUFFICES ASSUME NEW f \in Epochs, f =< epoch, AllSaved(f)
                 PROVE  ValidateGlobal(saved[f])
      BY <1>2, <1>5, <2>1, TopologyAssumption DEF Epochs
    <3>1. CASE f < epoch \/ f =< floor
      BY <1>1, <3>1 DEF StoreOK
    <3>2. CASE f = epoch /\ epoch > floor
      BY <3>2, GlobalNow
    <3>3. floor \in Nat /\ f \in Nat
      BY <1>1, <1>5, TopologyAssumption DEF StoreOK, Epochs
    <3> QED
      BY <1>5, <3>1, <3>2, <3>3
  <2>3. restored' = 0 \/ (restored' \in committed' /\ restored' =< floor')
    BY <1>2, <1>3, <1>4
  <2>4. /\ epoch' \in 0..MaxEpoch /\ floor' \in 0..epoch'
        /\ saved' = [f \in Epochs |-> [a \in Nodes |-> saved'[f][a]]]
        /\ \A f \in Epochs : \A a \in Nodes :
              /\ saved'[f][a] # None => SnapShape(a, saved'[f][a]) /\ saved'[f][a].epoch = f
              /\ f > epoch' => saved'[f][a] = None
    BY <1>1, <1>2, <1>5 DEF StoreOK
  <2>5. committed' \subseteq Epochs /\ \A f \in committed' : f =< epoch' /\ AllSaved(f)'
                                                            /\ ValidateGlobal(saved'[f])
    BY <1>1, <1>2, <2>1 DEF StoreOK
  <2> QED
    BY <2>2, <2>3, <2>4, <2>5 DEF StoreOK
<1>7. ASSUME NEW a \in Nodes
      PROVE  /\ NodeOK(a)' /\ a \notin StartedSet' /\ MarkedOf'[a] = {}
             /\ RecOf'[a] = [p \in Peers[a] |-> Frontier(saved[e][a], p)]
             /\ SentOf'[a] = saved[e][a].sent
             /\ RecOf'[a] \in [Peers[a] -> Nat] /\ SentOf'[a] \in [Peers[a] -> Nat]
  <2>1. node'[a] = FreshNode(a)
    BY <1>2
  <2>2. /\ IsNode(a, node'[a]) /\ ~node'[a].up /\ node'[a].active = None
        /\ node'[a].completed = None /\ node'[a].last_epoch = 0
    BY <2>1, FreshShape
  <2>3. ~Open(a)' /\ ~Done(a)' /\ ~SavedNow(a)' /\ ~Started(a)'
    BY <1>2, <1>5, <2>2 DEF Open, Done, SavedNow, Started
  <2>4. NodeOK(a)'
    BY <1>2, <1>5, <2>2, <2>3 DEF NodeOK
  <2>5. PICK s : s = saved[e][a]
    OBVIOUS
  <2>6. SnapShape(a, s)
    BY <1>1, <1>3, <1>4, <2>5 DEF StoreOK, AllSaved
  <2>7. ContiguousLog(s) /\ \A p \in Peers[a] : DOMAIN s.markers = Peers[a]
                                                /\ s.markers[p] = Frontier(s, p)
    BY <1>4, <2>5 DEF ValidateGlobal
  <2>8. PICK r : r = RestoreSnapshot(a, s)
    OBVIOUS
  <2>9. IsNode(a, r) /\ r.sent = s.sent /\ r.received = [p \in Peers[a] |-> Frontier(s, p)]
    BY <2>6, <2>7, <2>8, RestoreShape
  <2>10. RestoredNode(a)' = r
    BY <1>2, <1>3, <1>4, <2>5, <2>8 DEF RestoredNode
  <2>11. View(a)' = r
    BY <2>2, <2>10 DEF View
  <2>12. RecOf'[a] = r.received /\ SentOf'[a] = r.sent
    BY <2>11 DEF RecOf, SentOf
  <2>13. r.received \in [Peers[a] -> Nat] /\ r.sent \in [Peers[a] -> Nat]
    BY <2>9 DEF IsNode
  <2> QED
    BY <2>3, <2>4, <2>5, <2>9, <2>12, <2>13 DEF StartedSet, MarkedOf
<1>8. TablesOK'
  BY <1>2 DEF TablesOK, NoMessages
<1>9. CoreOK'
  <2>1. PICK rec : rec = RecOf'
    OBVIOUS
  <2>2. PICK snt : snt = SentOf'
    OBVIOUS
  <2>3. PICK st : st = StartedSet'
    OBVIOUS
  <2>4. PICK cut : cut = CutOf'
    OBVIOUS
  <2>5. PICK mb : mb = MarkedOf'
    OBVIOUS
  <2>6. PICK ch : ch = chan'
    OBVIOUS
  <2>7. PICK live : live = LiveSet'
    OBVIOUS
  <2>8. PICK f : f = epoch'
    OBVIOUS
  <2>9. ASSUME NEW a \in Nodes, NEW b \in Peers[a]
        PROVE  snt[b][a] = rec[a][b] /\ ch[b][a] = << >>
    <3>1. b \in Nodes /\ a \in Peers[b]
      BY <1>0, <2>9
    <3>2. snt[b][a] = saved[e][b].sent[a] /\ rec[a][b] = Frontier(saved[e][a], b)
      BY <1>7, <2>1, <2>2, <2>9, <3>1
    <3>3. saved[e][b].sent[a] = Frontier(saved[e][a], b)
      BY <1>4, <2>9 DEF ValidateGlobal
    <3> QED
      BY <1>2, <2>6, <3>1, <3>2, <3>3 DEF NoMessages
  <2>10. \A a \in Nodes : /\ rec[a] \in [Peers[a] -> Nat] /\ snt[a] \in [Peers[a] -> Nat]
                          /\ a \notin st /\ mb[a] = {}
                          /\ \A b \in Peers[a] : snt[b][a] = rec[a][b] /\ ch[b][a] = << >>
    BY <1>7, <2>1, <2>2, <2>3, <2>5, <2>9
  <2>11. Core(rec, snt, st, cut, mb, ch, live, f)
    BY <2>10, CoreRestored
  <2> QED
    BY <2>1, <2>2, <2>3, <2>4, <2>5, <2>6, <2>7, <2>8, <2>11 DEF CoreOK
<1> QED
  BY <1>6, <1>7, <1>8, <1>9 DEF IInv

\* The first start: nothing is sent, nothing restored.
LEMMA InitHolds == Init => IInv
<1> SUFFICES ASSUME Init PROVE IInv
  OBVIOUS
<1>0. \A a \in Nodes : Peers[a] \subseteq Nodes /\ \A b \in Peers[a] : a \in Peers[b]
  BY TopologyAssumption
<1>1. /\ node = [n \in Nodes |-> FreshNode(n)] /\ chan = NoMessages
      /\ saved = [e \in Epochs |-> [n \in Nodes |-> None]]
      /\ committed = {} /\ epoch = 0 /\ restored = 0 /\ floor = 0
  BY DEF Init
<1>2. StoreOK
  <2>1. Nodes # {} /\ MaxEpoch \in Nat
    BY TopologyAssumption
  <2>2. \A e \in Epochs : ~AllSaved(e)
    BY <1>1, <2>1 DEF AllSaved
  <2> QED
    BY <1>1, <2>1, <2>2 DEF StoreOK
<1>3. TablesOK
  BY <1>1 DEF TablesOK, NoMessages
<1>4. ASSUME NEW a \in Nodes
      PROVE  /\ NodeOK(a) /\ a \notin StartedSet /\ MarkedOf[a] = {}
             /\ RecOf[a] \in [Peers[a] -> Nat] /\ SentOf[a] \in [Peers[a] -> Nat]
             /\ \A b \in Peers[a] : RecOf[a][b] = 0 /\ SentOf[a][b] = 0
  <2>1. node[a] = FreshNode(a)
    BY <1>1
  <2>2. /\ IsNode(a, node[a]) /\ ~node[a].up /\ node[a].active = None
        /\ node[a].completed = None /\ node[a].last_epoch = 0
    BY <2>1, FreshShape
  <2>3. ~Open(a) /\ ~Done(a) /\ ~SavedNow(a) /\ ~Started(a)
    BY <1>1, <2>2 DEF Open, Done, SavedNow, Started
  <2>4. NodeOK(a)
    BY <1>1, <2>2, <2>3 DEF NodeOK
  <2>5. PICK z : z = Zero(a)
    OBVIOUS
  <2>6. PICK r : r = FreshNode(a)
    OBVIOUS
  <2>7. DOMAIN r = {"up", "failed", "received", "sent", "app", "active", "completed",
                    "marked", "last_epoch"} /\ r.received = z /\ r.sent = z
    BY <2>5, <2>6 DEF FreshNode
  <2>8. View(a) = [r EXCEPT !.up = TRUE]
    BY <1>1, <2>2, <2>6 DEF View, RestoredNode
  <2>9. View(a).received = z /\ View(a).sent = z
    BY <2>7, <2>8
  <2>10. z \in [Peers[a] -> Nat] /\ \A b \in Peers[a] : z[b] = 0
    BY <2>5 DEF Zero
  <2>11. RecOf[a] = z /\ SentOf[a] = z
    BY <2>9 DEF RecOf, SentOf
  <2> QED
    BY <2>3, <2>4, <2>10, <2>11 DEF StartedSet, MarkedOf
<1>5. CoreOK
  <2>1. \A a \in Nodes : /\ RecOf[a] \in [Peers[a] -> Nat] /\ SentOf[a] \in [Peers[a] -> Nat]
                         /\ a \notin StartedSet /\ MarkedOf[a] = {}
    BY <1>4
  <2>2. \A a \in Nodes : \A b \in Peers[a] : SentOf[b][a] = RecOf[a][b] /\ chan[b][a] = << >>
    <3> TAKE a \in Nodes
    <3> TAKE b \in Peers[a]
    <3>1. b \in Nodes /\ a \in Peers[b]
      BY <1>0
    <3>2. SentOf[b][a] = 0 /\ RecOf[a][b] = 0
      BY <1>4, <3>1
    <3>3. chan[b][a] = << >>
      BY <1>1, <3>1 DEF NoMessages
    <3> QED
      BY <3>2, <3>3
  <2>3. Core(RecOf, SentOf, StartedSet, CutOf, MarkedOf, chan, LiveSet, epoch)
    BY <2>1, <2>2, CoreRestored
  <2> QED
    BY <2>3 DEF CoreOK
<1> QED
  BY <1>2, <1>3, <1>4, <1>5 DEF IInv

-----------------------------------------------------------------------------
(***************************************************************************)
(* The theorems                                                            *)
(***************************************************************************)
\* The invariant holds in every run, for every set of nodes, every symmetric
\* topology and every number of epochs, crashes and damaged files.
THEOREM Invariance == Spec => []IInv
<1>1. Init => IInv
  BY InitHolds
<1>2. IInv /\ [Next]_vars => IInv'
  <2> SUFFICES ASSUME IInv, [Next]_vars PROVE IInv'
    OBVIOUS
  <2>1. ASSUME NEW n \in Nodes, NEW p \in Peers[n], Send(n, p) PROVE IInv'
    BY <2>1, SendKeeps
  <2>2. ASSUME NEW n \in Nodes, NEW p \in Peers[n], Receive(p, n) PROVE IInv'
    <3>1. /\ Running(n) /\ node[n].completed = None /\ chan[p][n] # << >>
          /\ UNCHANGED <<saved, committed, damaged, epoch, restored, floor, crashes>>
          /\ \/ ReceiveData(p, n, Head(chan[p][n]))
             \/ ReceiveMarker(p, n, Head(chan[p][n]))
      BY <2>2 DEF Receive
    <3> QED
      BY <2>2, <3>1, ReceiveDataKeeps, ReceiveMarkerKeeps
  <2>3. ASSUME NEW n \in Nodes, Restore(n) \/ SaveLocal(n) PROVE IInv'
    BY <2>3, RestoreKeeps, SaveKeeps
  <2>4. ASSUME NEW n \in Nodes, BeginEpoch(n) \/ JoinEpoch(n) PROVE IInv'
    BY <2>4, BeginKeeps, JoinKeeps
  <2>5. ASSUME Commit \/ Crash PROVE IInv'
    BY <2>5, CommitKeeps, CrashKeeps
  <2>6. ASSUME NEW e \in Epochs, Damage(e) PROVE IInv'
    BY <2>6, DamageKeeps
  <2>7. CASE UNCHANGED vars
    <3>1. UNCHANGED <<node, chan, saved, committed, epoch, restored, floor>>
      BY <2>7 DEF vars
    <3>2. StoreOK'
      BY <3>1, StoreFrame DEF IInv
    <3> QED
      BY <3>1, <3>2, StoreStepKeeps
  <2> QED
    BY <2>1, <2>2, <2>3, <2>4, <2>5, <2>6, <2>7 DEF Next, Run
<1> QED
  BY <1>1, <1>2, PTL DEF Spec

\* No message is lost, duplicated or received twice, across snapshots, crashes
\* and restarts (Participant::Send, Receive, Restore; Store::Commit).
THEOREM MessagesConserved == Spec => []Conservation
<1>1. IInv => Conservation
  <2> SUFFICES ASSUME IInv, NEW n \in Nodes, NEW p \in Peers[n], Running(n) \/ ~node[n].up
               PROVE  View(p).sent[n] = View(n).received[p] + DataIn(chan[p][n])
    BY DEF Conservation
  <2>1. n \in LiveSet /\ p \in Nodes
    BY TopologyAssumption DEF LiveSet
  <2>2. LinkOK(p, n, RecOf, SentOf, StartedSet, CutOf, MarkedOf, chan, epoch)
    BY <2>1 DEF IInv, CoreOK, Core
  <2>3. SentOf[p][n] = RecOf[n][p] + DataIn(chan[p][n])
    BY <2>2 DEF LinkOK, Numbered
  <2> QED
    BY <2>1, <2>3 DEF SentOf, RecOf
<1> QED
  BY <1>1, Invariance, PTL

\* Store::Commit rejects no snapshot the protocol has completed.
THEOREM CutsConsistent == Spec => []CompleteCutIsConsistent
<1>1. IInv => CompleteCutIsConsistent
  <2> SUFFICES ASSUME IInv, NEW e \in Epochs, AllSaved(e) PROVE ValidateGlobal(saved[e])
    BY DEF CompleteCutIsConsistent
  <2>1. StoreOK /\ epoch \in Nat /\ floor \in Nat /\ e \in Nat
    <3>1. StoreOK /\ epoch \in 0..MaxEpoch /\ floor \in 0..epoch /\ MaxEpoch \in Nat
      BY TopologyAssumption DEF IInv, StoreOK
    <3> QED
      BY <3>1 DEF Epochs
  <2>2. e =< epoch
    <3>1. Aggregator \in Nodes
      BY TopologyAssumption
    <3>2. saved[e][Aggregator] # None
      BY <3>1 DEF AllSaved
    <3> QED
      BY <2>1, <3>1, <3>2 DEF StoreOK
  <2>3. CASE e < epoch \/ e =< floor
    BY <2>1, <2>3 DEF StoreOK
  <2>4. CASE e = epoch /\ epoch > floor
    BY <2>4, GlobalNow
  <2> QED
    BY <2>1, <2>2, <2>3, <2>4
<1> QED
  BY <1>1, Invariance, PTL

\* No legal order of sends, snapshots, deliveries, crashes and restarts trips a
\* protocol check: of a message's number or a marker's epoch in Receive, of a
\* log or a marker in Restore, of an existing file in SaveLocal.
ProtocolSound == \A n \in Nodes : node[n].failed # "protocol"

\* The protocol checks of Participant::Receive, Participant::Restore and
\* Store::SaveLocal never fail.
THEOREM ProtocolHolds == Spec => []ProtocolSound
<1>1. IInv => ProtocolSound
  BY DEF IInv, NodeOK, IsNode, ProtocolSound
<1> QED
  BY <1>1, Invariance, PTL

\* A committed snapshot that is not damaged is one LoadLatestCommitted accepts,
\* however many epochs, failures and restarts lie between.
CommittedLoads == \A e \in committed \ damaged : Loadable(e)

\* Store::Commit and Store::LoadLatestCommitted agree for good.
THEOREM CommitsLoad == Spec => []CommittedLoads
<1>1. IInv => CommittedLoads
  BY DEF IInv, StoreOK, CommittedLoads, Loadable
<1> QED
  BY <1>1, Invariance, PTL

-----------------------------------------------------------------------------
(***************************************************************************)
(* The sum of the values of a set of messages.  SumOf folds over the set   *)
(* in an order of its own; what matters is that a message adds its value.  *)
(***************************************************************************)
\* A set of numbers has a least one.
LEMMA NatLeast == ASSUME NEW T, T \subseteq Nat, T # {} PROVE \E x \in T : \A y \in T : x =< y
<1> DEFINE R == OpToRel(<, Nat)
<1>1. IsWellFoundedOn(R, Nat)
  BY NatLessThanWellFounded, Zenon
<1>2. PICK x \in T : \A y \in T : ~ (<<y, x>> \in R)
  <2> HIDE DEF R
  <2> QED BY <1>1, WFMin
<1>3. ASSUME NEW y \in T PROVE x =< y
  <2>1. <<y, x>> \notin R /\ x \in Nat /\ y \in Nat
    BY <1>2
  <2>2. ~(y < x)
    BY <2>1, Zenon DEF OpToRel
  <2> HIDE DEF R
  <2> QED BY <2>1, <2>2
<1> QED BY <1>3

\* The element the fold takes first, and the rest.
First(s) == CHOOSE x \in s : TRUE
Rest(s) == s \ {First(s)}
Value(e) == MessageAt(e).value

\* g gives the sum of every subset of S.
Sums(g, S) ==
    g = [s \in SUBSET S |-> IF s = {} THEN 0 ELSE Value(First(s)) + g[Rest(s)]]

\* The fold is a function with that property.
LEMMA SumIsChosen == ASSUME NEW S PROVE SumOf(S) = (CHOOSE g : Sums(g, S))[S]
  BY DEF SumOf, MapThenSumSet, MapThenFoldSet, Sums, Value, First, Rest

\* Taking the first element away.
LEMMA RestFacts ==
    ASSUME NEW s, IsFiniteSet(s), s # {}
    PROVE  /\ First(s) \in s /\ Rest(s) \subseteq s /\ IsFiniteSet(Rest(s))
           /\ Cardinality(s) \in Nat /\ Cardinality(Rest(s)) \in Nat
           /\ Cardinality(Rest(s)) = Cardinality(s) - 1
<1>1. First(s) \in s
  BY DEF First
<1>2. Rest(s) = s \ {First(s)}
  BY DEF Rest
<1> QED BY <1>1, <1>2, FS_RemoveElement, FS_CardinalityType

\* Two such functions agree.
LEMMA SumsAgree ==
    ASSUME NEW g, NEW S, Sums(g, S), NEW h, NEW T, Sums(h, T), NEW u, u \subseteq S, u \subseteq T,
           IsFiniteSet(u)
    PROVE  g[u] = h[u]
<1> DEFINE Bad == {n \in Nat : \E s \in SUBSET u : Cardinality(s) = n /\ g[s] # h[s]}
<1>1. SUFFICES ASSUME g[u] # h[u] PROVE FALSE
  OBVIOUS
<1>2. Cardinality(u) \in Bad
  BY <1>1, FS_CardinalityType
<1>3. PICK n \in Bad : \A m \in Bad : n =< m
  <2>1. Bad \subseteq Nat /\ Bad # {}
    BY <1>2
  <2> HIDE DEF Bad
  <2> QED BY <2>1, NatLeast
<1>4. PICK s \in SUBSET u : Cardinality(s) = n /\ g[s] # h[s]
  BY <1>3
<1>5. IsFiniteSet(s) /\ s \in SUBSET S /\ s \in SUBSET T
  BY <1>4, FS_Subset
<1>6. /\ g[s] = IF s = {} THEN 0 ELSE Value(First(s)) + g[Rest(s)]
      /\ h[s] = IF s = {} THEN 0 ELSE Value(First(s)) + h[Rest(s)]
  BY <1>5, Zenon DEF Sums
<1>7. s # {} /\ g[Rest(s)] # h[Rest(s)]
  BY <1>4, <1>6
<1>8. Rest(s) \in SUBSET u /\ Cardinality(Rest(s)) \in Nat /\ Cardinality(Rest(s)) < n
  BY <1>4, <1>5, <1>7, RestFacts
<1>9. Cardinality(Rest(s)) \in Bad
  BY <1>7, <1>8
<1> HIDE DEF Bad
<1>10. n =< Cardinality(Rest(s)) /\ n \in Nat
  BY <1>3, <1>4, <1>5, <1>9, FS_CardinalityType
<1> QED BY <1>8, <1>10

\* There is one, for every finite set.
LEMMA SumsExist == ASSUME NEW S, IsFiniteSet(S) PROVE \E g : Sums(g, S)
<1> DEFINE Bad == {n \in Nat : \E s \in SUBSET S : Cardinality(s) = n /\ ~ \E g : Sums(g, s)}
<1>1. SUFFICES ASSUME ~ \E g : Sums(g, S) PROVE FALSE
  OBVIOUS
<1>2. Cardinality(S) \in Bad
  BY <1>1, FS_CardinalityType
<1>3. PICK n \in Bad : \A m \in Bad : n =< m
  <2>1. Bad \subseteq Nat /\ Bad # {}
    BY <1>2
  <2> HIDE DEF Bad
  <2> QED BY <2>1, NatLeast
<1>4. PICK s \in SUBSET S : Cardinality(s) = n /\ ~ \E g : Sums(g, s)
  BY <1>3
<1>5. IsFiniteSet(s) /\ n \in Nat
  BY <1>3, <1>4, FS_Subset
<1>6. ASSUME NEW u \in SUBSET s, u # s PROVE \E g : Sums(g, u)
  <2>1. IsFiniteSet(u) /\ Cardinality(u) \in Nat /\ Cardinality(u) < n /\ u \in SUBSET S
    BY <1>4, <1>5, <1>6, FS_Subset, FS_CardinalityType
  <2>2. Cardinality(u) \notin Bad
    <3> HIDE DEF Bad
    <3> QED BY <1>3, <1>5, <2>1
  <2> QED BY <2>1, <2>2
<1>7. ASSUME NEW u \in SUBSET s, u # s PROVE Sums(CHOOSE g : Sums(g, u), u)
  BY <1>6, <1>7
<1> DEFINE h == [u \in SUBSET s |-> IF u = {} THEN 0 ELSE Value(First(u)) + SumOf(Rest(u))]
<1>8. ASSUME NEW u \in SUBSET s, u # {} PROVE SumOf(Rest(u)) = h[Rest(u)]
  <2>1. /\ IsFiniteSet(u) /\ First(u) \in u
        /\ Rest(u) \in SUBSET s /\ Rest(u) # s /\ IsFiniteSet(Rest(u))
    <3>1. IsFiniteSet(u)
      BY <1>5, FS_Subset
    <3>2. First(u) \in u /\ Rest(u) = u \ {First(u)} /\ IsFiniteSet(Rest(u))
      BY <3>1, <1>8, RestFacts DEF Rest
    <3> QED BY <3>1, <3>2
  <2>2. PICK r : r = Rest(u)
    OBVIOUS
  <2>3. r \in SUBSET s /\ r # s /\ IsFiniteSet(r)
    BY <2>1, <2>2
  <2>4. PICK g : g = (CHOOSE w : Sums(w, r))
    OBVIOUS
  <2>5. Sums(g, r) /\ SumOf(r) = g[r]
    BY <1>7, <2>3, <2>4, SumIsChosen
  <2>6. r \in SUBSET r
    OBVIOUS
  <2>7. g[r] = IF r = {} THEN 0 ELSE Value(First(r)) + g[Rest(r)]
    BY <2>5, <2>6, Zenon DEF Sums
  <2>8. CASE r = {}
    <3>1. h[r] = 0
      BY <2>3, <2>8
    <3> HIDE DEF h
    <3> QED BY <2>2, <2>5, <2>7, <2>8, <3>1
  <2>9. CASE r # {}
    <3>1. h[r] = Value(First(r)) + SumOf(Rest(r))
      BY <2>3, <2>9
    <3>2. IsFiniteSet(r) /\ Rest(r) \subseteq r /\ IsFiniteSet(Rest(r)) /\ First(r) \in r
      BY <2>3, <2>9, RestFacts
    <3>3. PICK q : q = Rest(r)
      OBVIOUS
    <3>4. q \in SUBSET s /\ q # s /\ q \subseteq r /\ IsFiniteSet(q)
      BY <2>3, <3>2, <3>3
    <3>5. PICK k : k = (CHOOSE v : Sums(v, q))
      OBVIOUS
    <3>6. Sums(k, q) /\ SumOf(q) = k[q]
      BY <1>7, <3>4, <3>5, SumIsChosen
    <3>7. g[q] = k[q]
      BY <2>5, <3>4, <3>6, SumsAgree
    <3> HIDE DEF h
    <3> QED BY <2>2, <2>5, <2>7, <2>9, <3>1, <3>3, <3>6, <3>7
  <2> QED BY <2>8, <2>9
<1>9. Sums(h, s)
  <2>1. h = [u \in SUBSET s |-> IF u = {} THEN 0 ELSE Value(First(u)) + h[Rest(u)]]
    <3>1. PICK k : k = [u \in SUBSET s |-> IF u = {} THEN 0 ELSE Value(First(u)) + h[Rest(u)]]
      OBVIOUS
    <3>2. ASSUME NEW u \in SUBSET s PROVE h[u] = k[u]
      <4>1. k[u] = IF u = {} THEN 0 ELSE Value(First(u)) + h[Rest(u)]
        BY <3>1
      <4>2. h[u] = IF u = {} THEN 0 ELSE Value(First(u)) + SumOf(Rest(u))
        OBVIOUS
      <4> HIDE DEF h
      <4> QED BY <1>8, <4>1, <4>2
    <3>3. h = [u \in SUBSET s |-> h[u]] /\ k = [u \in SUBSET s |-> k[u]]
      BY <3>1
    <3> HIDE DEF h
    <3>4. h = k
      BY <3>2, <3>3, Zenon
    <3> QED BY <3>1, <3>4
  <2> HIDE DEF h
  <2> QED BY <2>1 DEF Sums
<1> QED BY <1>4, <1>9

\* Nothing adds up to zero.
LEMMA SumEmpty == SumOf({}) = 0
<1>1. IsFiniteSet({})
  BY FS_EmptySet
<1>2. PICK g : g = (CHOOSE u : Sums(u, {})) /\ Sums(g, {})
  BY <1>1, SumsExist
<1>3. g[{}] = 0
  <2>1. {} \in SUBSET {}
    OBVIOUS
  <2> QED BY <1>2, <2>1, Zenon DEF Sums
<1> QED BY <1>2, <1>3, SumIsChosen

\* A sum is its first value and the rest.
LEMMA SumFirst ==
    ASSUME NEW S, IsFiniteSet(S), S # {}
    PROVE  SumOf(S) = Value(First(S)) + SumOf(Rest(S))
<1>1. PICK g : g = (CHOOSE u : Sums(u, S)) /\ Sums(g, S)
  BY SumsExist
<1>2. PICK r : r = Rest(S)
  OBVIOUS
<1>3. r \subseteq S /\ IsFiniteSet(r)
  BY <1>2, RestFacts
<1>4. PICK h : h = (CHOOSE u : Sums(u, r)) /\ Sums(h, r)
  BY <1>3, SumsExist
<1>5. g[r] = h[r]
  BY <1>1, <1>3, <1>4, SumsAgree
<1>6. g[S] = Value(First(S)) + g[r]
  <2>1. S \in SUBSET S
    OBVIOUS
  <2>2. g[S] = IF S = {} THEN 0 ELSE Value(First(S)) + g[Rest(S)]
    BY <1>1, <2>1, Zenon DEF Sums
  <2> QED BY <1>2, <2>2
<1> QED BY <1>1, <1>2, <1>4, <1>5, <1>6, SumIsChosen

\* Any element may be taken first.
LEMMA SumRemove ==
    ASSUME NEW S, IsFiniteSet(S), \A e \in S : Value(e) \in Int
    PROVE  SumOf(S) \in Int /\ \A x \in S : SumOf(S) = Value(x) + SumOf(S \ {x})
<1> DEFINE Good(s) == SumOf(s) \in Int /\ \A x \in s : SumOf(s) = Value(x) + SumOf(s \ {x})
           Bad == {n \in Nat : \E s \in SUBSET S : Cardinality(s) = n /\ ~Good(s)}
<1>1. SUFFICES ASSUME ~Good(S) PROVE FALSE
  OBVIOUS
<1>2. Cardinality(S) \in Bad
  <2> HIDE DEF Good
  <2> QED BY <1>1, FS_CardinalityType
<1>3. PICK n \in Bad : \A m \in Bad : n =< m
  <2>1. Bad \subseteq Nat /\ Bad # {}
    BY <1>2
  <2> HIDE DEF Bad
  <2> QED BY <2>1, NatLeast
<1>4. PICK s \in SUBSET S : Cardinality(s) = n /\ ~Good(s)
  <2> HIDE DEF Good
  <2> QED BY <1>3
<1>5. IsFiniteSet(s) /\ n \in Nat
  BY <1>3, <1>4, FS_Subset
<1>6. ASSUME NEW u \in SUBSET s, u # s PROVE IsFiniteSet(u) /\ Good(u)
  <2>1. IsFiniteSet(u) /\ Cardinality(u) \in Nat /\ Cardinality(u) < n /\ u \in SUBSET S
    BY <1>4, <1>5, <1>6, FS_Subset, FS_CardinalityType
  <2>2. Cardinality(u) \notin Bad
    <3> HIDE DEF Bad
    <3> QED BY <1>3, <1>5, <2>1
  <2> HIDE DEF Good
  <2> QED BY <2>1, <2>2
<1>7. s # {}
  <2> SUFFICES ASSUME s = {} PROVE FALSE
    OBVIOUS
  <2>1. Good(s)
    BY SumEmpty
  <2> QED BY <1>4, <2>1
<1>8. PICK f, r : f = First(s) /\ r = Rest(s)
  OBVIOUS
<1>9. f \in s /\ r = s \ {f} /\ SumOf(s) = Value(f) + SumOf(r)
  BY <1>5, <1>7, <1>8, RestFacts, SumFirst DEF Rest
<1>10. r \in SUBSET s /\ r # s
  BY <1>9
<1>11. SumOf(r) \in Int /\ \A x \in r : SumOf(r) = Value(x) + SumOf(r \ {x})
  BY <1>6, <1>10
<1>12. SumOf(s) \in Int
  BY <1>9, <1>11
<1>13. ASSUME NEW x \in s PROVE SumOf(s) = Value(x) + SumOf(s \ {x})
  <2>1. CASE x = f
    BY <1>9, <2>1
  <2>2. CASE x # f
    <3>1. x \in r /\ SumOf(r) = Value(x) + SumOf(r \ {x})
      BY <1>9, <1>11, <2>2
    <3>2. PICK q : q = s \ {x}
      OBVIOUS
    <3>3. q \in SUBSET s /\ q # s /\ f \in q /\ q \ {f} = r \ {x}
      BY <1>9, <2>2, <3>2
    <3>4. SumOf(q) \in Int /\ SumOf(q) = Value(f) + SumOf(q \ {f})
      BY <1>6, <3>3
    <3>5. PICK d : d = r \ {x}
      OBVIOUS
    <3>6. d \in SUBSET s /\ d # s
      BY <1>9, <1>10, <3>5
    <3>7. SumOf(d) \in Int
      BY <1>6, <3>6
    <3>8. Value(f) \in Int /\ Value(x) \in Int
      BY <1>9
    <3>9. PICK sd, sq, sr, vf, vx : /\ sd = SumOf(d) /\ sq = SumOf(q) /\ sr = SumOf(r)
                                    /\ vf = Value(f) /\ vx = Value(x)
      OBVIOUS
    <3>10. sd \in Int /\ vf \in Int /\ vx \in Int /\ sq = vf + sd /\ sr = vx + sd
      BY <3>1, <3>3, <3>4, <3>5, <3>7, <3>8, <3>9
    <3>11. vf + sr = vx + sq
      BY <3>10
    <3> QED BY <1>9, <3>2, <3>9, <3>11
  <2> QED BY <2>1, <2>2
<1> QED BY <1>4, <1>12, <1>13

\* One more message adds its value.
LEMMA SumAdd ==
    ASSUME NEW S, IsFiniteSet(S), \A e \in S : Value(e) \in Int, NEW x, x \notin S, Value(x) \in Int
    PROVE  SumOf(S \cup {x}) = SumOf(S) + Value(x) /\ SumOf(S) \in Int
<1>1. PICK T : T = S \cup {x}
  OBVIOUS
<1>2. IsFiniteSet(T) /\ (\A e \in T : Value(e) \in Int) /\ x \in T /\ T \ {x} = S
  BY <1>1, FS_AddElement
<1>3. SumOf(T) = Value(x) + SumOf(S)
  BY <1>2, SumRemove
<1>4. SumOf(S) \in Int
  BY SumRemove
<1> QED BY <1>1, <1>3, <1>4

-----------------------------------------------------------------------------
(***************************************************************************)
(* Windows, and the messages of the inputs.                                *)
(***************************************************************************)
\* A window starts at or after time zero and has a length.
LEMMA WindowFacts ==
    \A w \in Windows : /\ w.start \in Int /\ w.start >= 0 /\ w.end \in Int /\ w.end > w.start
                       /\ Deadline(w) \in Int /\ w.end =< Deadline(w)
                       /\ AllowedLateness = 0 => Deadline(w) = w.end
<1> SUFFICES ASSUME NEW t \in EventTimes, InDomain(t), NEW w \in WindowsOf(t)
             PROVE  /\ w.start \in Int /\ w.start >= 0 /\ w.end \in Int /\ w.end > w.start
                    /\ Deadline(w) \in Int /\ w.end =< Deadline(w)
                    /\ AllowedLateness = 0 => Deadline(w) = w.end
  BY DEF Windows
<1>1. t \in Nat /\ t + Size =< MaxTime /\ Size \in Nat /\ Size > 0 /\ MaxTime \in Nat
      /\ AllowedLateness \in Nat
  BY WindowAssumption DEF InDomain, InTumblingDomain, InSlidingDomain
<1>2. \E x \in Int : x >= 0 /\ x =< t /\ w = WindowAt(x, Size)
  <2>1. CASE Slide = Size
    <3>1. PICK x : x = (t \div Size) * Size
      OBVIOUS
    <3>2. w = WindowAt(x, Size)
      BY <2>1, <3>1 DEF WindowsOf, AssignWindows, TumblingAssign
    <3>3. x \in Int /\ x =< t /\ x >= 0
      BY <1>1, <3>1, WindowAssumption
    <3> QED BY <3>2, <3>3
  <2>2. CASE Slide # Size
    <3>1. PICK e : e = EarliestStart(Size, Slide, t)
      OBVIOUS
    <3>2. PICK x \in e..t : w = WindowAt(x, Size)
      BY <2>2, <3>1 DEF WindowsOf, AssignWindows, SlidingAssign
    <3>3. PICK n : n = t - Size + Slide
      OBVIOUS
    <3>4. e = IF n <= 0 THEN 0 ELSE (n \div Slide) * Slide
      BY <3>1, <3>3 DEF EarliestStart
    <3>5. n \in Int /\ Slide \in Nat /\ Slide > 0
      BY <1>1, <3>3, WindowAssumption
    <3>6. e >= 0 /\ e \in Int
      BY <3>4, <3>5
    <3>7. x \in Int /\ x >= 0 /\ x =< t
      BY <1>1, <3>2, <3>6
    <3> QED BY <3>2, <3>7
  <2> QED BY <2>1, <2>2
<1>3. PICK x \in Int : x >= 0 /\ x =< t /\ w = WindowAt(x, Size)
  BY <1>2
<1>4. w.end = x + Size /\ w.start = x
  BY <1>3 DEF WindowAt
<1>5. w.end \in Int /\ w.end =< MaxTime /\ w.start >= 0 /\ w.end > w.start /\ w.start \in Int
  BY <1>1, <1>3, <1>4
<1> QED BY <1>1, <1>5 DEF Deadline

\* A slot is a window and a key.
LEMMA SlotFacts ==
    \A s \in Slots : s[1] \in Windows /\ s[2] \in Keys /\ s = <<s[1], s[2]>>
  BY DEF Slots

\* What an input sends is a record or a watermark.
LEMMA PayloadFacts ==
    ASSUME NEW p \in Inputs, NEW i \in Nat, i >= 1, i =< Len(Payloads[p]), NEW m, m = Payloads[p][i]
    PROVE  /\ Len(Payloads[p]) \in Nat /\ i \in DOMAIN Payloads[p] /\ m.time \in Int
           /\ IsData(m) => m.key \in Keys /\ m.time \in EventTimes /\ m.value \in Int
           /\ ~IsData(m) => m.time >= MinTime
<1>1. PICK q : q = Payloads[p] /\ q \in Seq(Messages)
  BY InputAssumption
<1>2. Len(q) \in Nat /\ DOMAIN q = 1..Len(q)
  BY <1>1, LenProperties
<1>3. i \in 1..Len(q)
  BY <1>1, <1>2
<1>4. m \in Messages
  BY <1>1, <1>3, ElementOfSeq
<1>5. EventTimes \subseteq Int /\ Values \subseteq Int /\ Watermarks \subseteq Int
  BY WindowAssumption
<1>6. CASE m \in [kind : {"data"}, key : Keys, time : EventTimes, value : Values]
  <2>1. IsData(m) /\ m.key \in Keys /\ m.time \in EventTimes /\ m.value \in Values
    BY <1>6 DEF IsData
  <2> QED BY <1>1, <1>2, <1>3, <1>5, <2>1
<1>7. CASE m \in [kind : {"watermark"}, time : {t \in Watermarks : t >= MinTime}]
  <2>1. ~IsData(m) /\ m.time \in Watermarks /\ m.time >= MinTime
    BY <1>7 DEF IsData
  <2> QED BY <1>1, <1>2, <1>3, <1>5, <2>1
<1> QED BY <1>4, <1>6, <1>7 DEF Messages

(***************************************************************************)
(* What the inputs have sent, as far as it was received.                   *)
(***************************************************************************)
IsPrefix(rec) ==
    /\ rec \in [Inputs -> Nat] /\ IsFiniteSet(Received(rec))
    /\ \A p \in Inputs : rec[p] =< Len(Payloads[p])

\* One more message of p, which is m.
Grows(rec, p, m, rec2) ==
    /\ IsPrefix(rec) /\ p \in Inputs /\ rec[p] + 1 =< Len(Payloads[p])
    /\ rec2 = [rec EXCEPT ![p] = rec[p] + 1]
    /\ m = Payloads[p][rec[p] + 1]

\* A message received is one of the first messages of its input.
LEMMA ReceivedIs ==
    ASSUME NEW rec, NEW e
    PROVE  e \in Received(rec) <=> \E p \in Inputs : \E i \in 1..rec[p] : e = <<p, i>>
  BY DEF Received

\* An input sends finitely many messages.
LEMMA PrefixLen == ASSUME NEW p \in Inputs PROVE Len(Payloads[p]) \in Nat
  BY InputAssumption, LenProperties

\* One more message is received, and no other.
LEMMA ReceivedGrows ==
    ASSUME NEW rec, NEW p, NEW m, NEW rec2, Grows(rec, p, m, rec2), NEW e, e = <<p, rec[p] + 1>>
    PROVE  /\ Received(rec2) = Received(rec) \cup {e} /\ e \notin Received(rec)
           /\ IsPrefix(rec2) /\ MessageAt(e) = m /\ m.time \in Int
           /\ IsData(m) => m.key \in Keys /\ m.time \in EventTimes /\ m.value \in Int
<1>1. /\ p \in Inputs /\ rec \in [Inputs -> Nat] /\ rec2 = [rec EXCEPT ![p] = rec[p] + 1]
      /\ rec[p] \in Nat /\ rec[p] + 1 =< Len(Payloads[p])
  BY DEF Grows, IsPrefix
<1>2. /\ rec2 \in [Inputs -> Nat] /\ rec2[p] = rec[p] + 1
      /\ \A q \in Inputs : q # p => rec2[q] = rec[q]
  BY <1>1
<1>3. ASSUME NEW x PROVE x \in Received(rec2) <=> x \in Received(rec) \/ x = e
  <2>1. ASSUME x \in Received(rec2) PROVE x \in Received(rec) \/ x = e
    <3>1. PICK q \in Inputs : \E i \in 1..rec2[q] : x = <<q, i>>
      BY <2>1, ReceivedIs
    <3>2. PICK i \in 1..rec2[q] : x = <<q, i>>
      BY <3>1
    <3>3. CASE q = p /\ i = rec[p] + 1
      BY <3>2, <3>3
    <3>4. CASE ~(q = p /\ i = rec[p] + 1)
      <4>1. rec[q] \in Nat /\ rec2[q] \in Nat
        BY <1>1, <1>2
      <4>2. i \in 1..rec[q]
        BY <1>1, <1>2, <3>4, <4>1
      <4> QED BY <3>2, <4>2, ReceivedIs
    <3> QED BY <3>3, <3>4
  <2>2. ASSUME x \in Received(rec) PROVE x \in Received(rec2)
    <3>1. PICK q \in Inputs : \E i \in 1..rec[q] : x = <<q, i>>
      BY <2>2, ReceivedIs
    <3>2. PICK i \in 1..rec[q] : x = <<q, i>>
      BY <3>1
    <3>3. rec[q] \in Nat /\ rec2[q] \in Nat
      BY <1>1, <1>2
    <3>4. i \in 1..rec2[q]
      BY <1>1, <1>2, <3>3
    <3> QED BY <3>2, <3>4, ReceivedIs
  <2>3. ASSUME x = e PROVE x \in Received(rec2)
    <3>1. rec[p] + 1 \in 1..rec2[p]
      BY <1>1, <1>2
    <3> QED BY <1>1, <2>3, <3>1, ReceivedIs
  <2> QED BY <2>1, <2>2, <2>3
<1>4. Received(rec2) = Received(rec) \cup {e}
  BY <1>3
<1>5. e \notin Received(rec)
  <2> SUFFICES ASSUME e \in Received(rec) PROVE FALSE
    OBVIOUS
  <2>1. PICK q \in Inputs : \E i \in 1..rec[q] : e = <<q, i>>
    BY ReceivedIs
  <2>2. PICK i \in 1..rec[q] : e = <<q, i>>
    BY <2>1
  <2>3. q = p /\ i = rec[p] + 1
    BY <2>2
  <2> QED BY <1>1, <2>2, <2>3
<1>6. IsFiniteSet(Received(rec2))
  <2>1. PICK R : R = Received(rec) /\ IsFiniteSet(R)
    BY DEF Grows, IsPrefix
  <2>2. IsFiniteSet(R \cup {e})
    BY <2>1, FS_AddElement
  <2> QED BY <1>4, <2>1, <2>2
<1>7. \A q \in Inputs : rec2[q] =< Len(Payloads[q])
  BY <1>1, <1>2 DEF Grows, IsPrefix
<1>8. MessageAt(e) = m
  BY DEF MessageAt, Grows
<1>9. PICK k : k = rec[p] + 1
  OBVIOUS
<1>10. k \in Nat /\ k >= 1 /\ k =< Len(Payloads[p]) /\ m = Payloads[p][k]
  BY <1>1, <1>9 DEF Grows
<1>11. m.time \in Int /\ (IsData(m) => m.key \in Keys /\ m.time \in EventTimes /\ m.value \in Int)
  BY <1>1, <1>10, PayloadFacts
<1>12. IsPrefix(rec2)
  BY <1>2, <1>6, <1>7 DEF IsPrefix
<1> QED BY <1>4, <1>5, <1>8, <1>11, <1>12

\* What growing says.
LEMMA GrowsFacts ==
    ASSUME NEW rec, NEW p, NEW m, NEW rec2, Grows(rec, p, m, rec2)
    PROVE  /\ IsPrefix(rec) /\ IsPrefix(rec2) /\ p \in Inputs /\ m.time \in Int
           /\ IsData(m) => m.key \in Keys /\ m.time \in EventTimes /\ m.value \in Int
<1>1. PICK e : e = <<p, rec[p] + 1>>
  OBVIOUS
<1>2. /\ IsPrefix(rec2) /\ m.time \in Int
      /\ IsData(m) => m.key \in Keys /\ m.time \in EventTimes /\ m.value \in Int
  BY <1>1, ReceivedGrows
<1>3. IsPrefix(rec) /\ p \in Inputs
  BY DEF Grows
<1> QED BY <1>2, <1>3

\* The records received grow with a record only.
LEMMA RecordsGrow ==
    ASSUME NEW rec, NEW p, NEW m, NEW rec2, Grows(rec, p, m, rec2), NEW e, e = <<p, rec[p] + 1>>
    PROVE  /\ IsData(m) => /\ RecordsAmong(rec2) = RecordsAmong(rec) \cup {e}
                           /\ Cardinality(RecordsAmong(rec2)) = Cardinality(RecordsAmong(rec)) + 1
           /\ ~IsData(m) => RecordsAmong(rec2) = RecordsAmong(rec)
           /\ e \notin RecordsAmong(rec)
<1>1. Received(rec2) = Received(rec) \cup {e} /\ e \notin Received(rec) /\ MessageAt(e) = m
  BY ReceivedGrows
<1>2. e \notin RecordsAmong(rec) /\ RecordsAmong(rec) \subseteq Received(rec)
  BY <1>1 DEF RecordsAmong
<1>3. IsData(m) => RecordsAmong(rec2) = RecordsAmong(rec) \cup {e}
  BY <1>1 DEF RecordsAmong
<1>4. ~IsData(m) => RecordsAmong(rec2) = RecordsAmong(rec)
  BY <1>1 DEF RecordsAmong
<1>5. IsFiniteSet(RecordsAmong(rec))
  BY <1>2, FS_Subset DEF Grows, IsPrefix
<1> QED BY <1>2, <1>3, <1>4, <1>5, FS_AddElement

\* The records of a slot.
LEMMA RecordsForFacts ==
    ASSUME NEW rec, IsPrefix(rec), NEW s
    PROVE  /\ IsFiniteSet(RecordsFor(s, rec)) /\ \A e \in RecordsFor(s, rec) : Value(e) \in Int
           /\ RecordsFor(s, rec) \subseteq RecordsAmong(rec)
           /\ SumOf(RecordsFor(s, rec)) \in Int /\ Cardinality(RecordsFor(s, rec)) \in Nat
           /\ Cardinality(RecordsFor(s, rec)) = 0 => SumOf(RecordsFor(s, rec)) = 0
<1>1. RecordsFor(s, rec) \subseteq RecordsAmong(rec)
  BY DEF RecordsFor
<1>2. IsFiniteSet(RecordsFor(s, rec))
  <2>1. RecordsFor(s, rec) \subseteq Received(rec)
    BY <1>1 DEF RecordsAmong
  <2> QED BY <2>1, FS_Subset DEF IsPrefix
<1>3. ASSUME NEW e \in RecordsFor(s, rec) PROVE Value(e) \in Int
  <2>1. e \in Received(rec) /\ IsData(MessageAt(e))
    BY <1>1 DEF RecordsAmong
  <2>2. PICK p \in Inputs : \E i \in 1..rec[p] : e = <<p, i>>
    BY <2>1, ReceivedIs
  <2>3. PICK i \in 1..rec[p] : e = <<p, i>>
    BY <2>2
  <2>4. rec[p] \in Nat /\ rec[p] =< Len(Payloads[p]) /\ Len(Payloads[p]) \in Nat
    BY PrefixLen DEF IsPrefix
  <2>5. i \in Nat /\ i >= 1 /\ i =< Len(Payloads[p])
    BY <2>4
  <2>6. MessageAt(e) = Payloads[p][i]
    BY <2>3 DEF MessageAt
  <2>7. MessageAt(e).value \in Int
    BY <2>1, <2>5, <2>6, PayloadFacts
  <2> QED BY <2>7 DEF Value
<1>4. PICK R : R = RecordsFor(s, rec)
  OBVIOUS
<1>5. IsFiniteSet(R) /\ \A e \in R : Value(e) \in Int
  BY <1>2, <1>3, <1>4
<1>6. SumOf(R) \in Int /\ Cardinality(R) \in Nat
  BY <1>5, SumRemove, FS_CardinalityType
<1>7. Cardinality(R) = 0 => SumOf(R) = 0
  BY <1>5, FS_EmptySet, SumEmpty
<1> QED BY <1>1, <1>4, <1>5, <1>6, <1>7

Reaches(m, s) == IsData(m) /\ m.key = s[2] /\ s[1] \in WindowsOf(m.time)

\* So do those of a slot, with a record that reaches it.
LEMMA RecordsForGrow ==
    ASSUME NEW rec, NEW p, NEW m, NEW rec2, Grows(rec, p, m, rec2), NEW s
    PROVE  /\ ~Reaches(m, s) => RecordsFor(s, rec2) = RecordsFor(s, rec)
           /\ Reaches(m, s) =>
                 /\ SumOf(RecordsFor(s, rec2)) = SumOf(RecordsFor(s, rec)) + m.value
                 /\ Cardinality(RecordsFor(s, rec2)) = Cardinality(RecordsFor(s, rec)) + 1
<1>1. PICK e : e = <<p, rec[p] + 1>>
  OBVIOUS
<1>2. /\ IsData(m) => RecordsAmong(rec2) = RecordsAmong(rec) \cup {e}
      /\ ~IsData(m) => RecordsAmong(rec2) = RecordsAmong(rec)
      /\ e \notin RecordsAmong(rec) /\ MessageAt(e) = m /\ (IsData(m) => m.value \in Int)
  BY <1>1, RecordsGrow, ReceivedGrows
<1>3. ~Reaches(m, s) => RecordsFor(s, rec2) = RecordsFor(s, rec)
  BY <1>2 DEF RecordsFor, Reaches
<1>4. ASSUME Reaches(m, s) PROVE RecordsFor(s, rec2) = RecordsFor(s, rec) \cup {e}
  BY <1>2, <1>4 DEF RecordsFor, Reaches
<1>5. PICK R : R = RecordsFor(s, rec)
  OBVIOUS
<1>6. IsFiniteSet(R) /\ (\A x \in R : Value(x) \in Int) /\ R \subseteq RecordsAmong(rec)
  BY <1>5, RecordsForFacts DEF Grows
<1>7. e \notin R
  BY <1>2, <1>6
<1>8. Value(e) = m.value
  BY <1>2 DEF Value
<1>9. ASSUME Reaches(m, s)
      PROVE  SumOf(R \cup {e}) = SumOf(R) + m.value /\ Cardinality(R \cup {e}) = Cardinality(R) + 1
  <2>1. m.value \in Int
    BY <1>2, <1>9 DEF Reaches
  <2> QED BY <1>6, <1>7, <1>8, <2>1, SumAdd, FS_AddElement
<1> QED BY <1>3, <1>4, <1>5, <1>9

(***************************************************************************)
(* Watermarks: the greatest each input has sent, and the least of these.   *)
(***************************************************************************)
\* Min of a set of integers with a lower bound is its least element.
LEMMA MinLeast ==
    ASSUME NEW S, S \subseteq Int, S # {}, NEW b \in Int, \A x \in S : x >= b
    PROVE  Min(S) \in S /\ \A y \in S : Min(S) =< y
<1> DEFINE T == {x - b : x \in S}
<1>0. \A x \in S : x - b \in Nat
  OBVIOUS
<1>1. T \subseteq Nat /\ T # {}
  BY <1>0, Zenon
<1>2. PICK t \in T : \A u \in T : t =< u
  <2> HIDE DEF T
  <2> QED BY <1>1, NatLeast
<1>3. PICK x \in S : t = x - b
  BY <1>2
<1>4. ASSUME NEW y \in S PROVE x =< y
  <2>1. y - b \in T
    OBVIOUS
  <2>2. t =< y - b
    BY <1>2, <2>1
  <2> QED BY <1>3, <2>2
<1> QED BY <1>4, Zenon DEF Min

\* Max of a set that has a greatest element.
LEMMA MaxIs ==
    ASSUME NEW S, S \subseteq Int, NEW x \in S, \A y \in S : y =< x
    PROVE  Max(S) = x
<1>1. \A y \in S : x >= y
  OBVIOUS
<1>2. Max(S) \in S /\ \A y \in S : Max(S) >= y
  BY <1>1, Zenon DEF Max
<1>3. Max(S) \in Int /\ x \in Int /\ Max(S) >= x /\ Max(S) =< x
  BY <1>2
<1> QED BY <1>3

\* The watermarks among the first n messages of p.
Heard(p, n) == {MinTime} \cup {Payloads[p][i].time : i \in {i \in 1..n : ~IsData(Payloads[p][i])}}

\* The watermarks of an input are integers, none before the earliest time.
LEMMA HeardType ==
    ASSUME NEW p \in Inputs, NEW n \in Nat, n =< Len(Payloads[p])
    PROVE  /\ Heard(p, n) \subseteq Int /\ MinTime \in Heard(p, n) /\ MinTime \in Int
           /\ \A y \in Heard(p, n) : y >= MinTime
<1>1. MinTime \in Int
  BY WindowAssumption
<1>2. ASSUME NEW i \in 1..n, ~IsData(Payloads[p][i])
      PROVE  Payloads[p][i].time \in Int /\ Payloads[p][i].time >= MinTime
  <2>1. Len(Payloads[p]) \in Nat
    BY PrefixLen
  <2>2. i \in Nat /\ i >= 1 /\ i =< Len(Payloads[p])
    BY <2>1
  <2> QED BY <1>2, <2>2, PayloadFacts
<1>3. MinTime \in Heard(p, n)
  BY DEF Heard
<1>4. ASSUME NEW y \in Heard(p, n) PROVE y \in Int /\ y >= MinTime
  <2>1. CASE y = MinTime
    BY <1>1, <2>1
  <2>2. CASE \E i \in 1..n : ~IsData(Payloads[p][i]) /\ y = Payloads[p][i].time
    BY <1>2, <2>2
  <2> QED BY <2>1, <2>2 DEF Heard
<1> QED BY <1>1, <1>3, <1>4

\* A message of an input adds its watermark, if it is one.
LEMMA HeardNext ==
    ASSUME NEW p, NEW n \in Nat
    PROVE  Heard(p, n + 1) = IF IsData(Payloads[p][n + 1]) THEN Heard(p, n)
                             ELSE Heard(p, n) \cup {Payloads[p][n + 1].time}
<1>1. 1..(n + 1) = (1..n) \cup {n + 1}
  OBVIOUS
<1> QED BY <1>1, Zenon DEF Heard

\* An input's watermarks have a greatest.
LEMMA HeardTop ==
    ASSUME NEW p \in Inputs, NEW n \in Nat, n =< Len(Payloads[p])
    PROVE  \E x \in Heard(p, n) : \A y \in Heard(p, n) : y =< x
<1> DEFINE Top(k) == \E x \in Heard(p, k) : \A y \in Heard(p, k) : y =< x
           Bad == {k \in Nat : k =< n /\ ~Top(k)}
<1>0. Len(Payloads[p]) \in Nat
  BY PrefixLen
<1>1. SUFFICES ASSUME ~Top(n) PROVE FALSE
  OBVIOUS
<1>2. PICK k \in Bad : \A j \in Bad : k =< j
  <2> HIDE DEF Top
  <2>1. n \in Bad
    BY <1>1
  <2>2. Bad \subseteq Nat /\ Bad # {}
    BY <2>1
  <2> HIDE DEF Bad
  <2> QED BY <2>2, NatLeast
<1>3. k \in Nat /\ k =< n /\ ~Top(k)
  <2> HIDE DEF Top
  <2> QED BY <1>2
<1>4. k # 0
  <2> SUFFICES ASSUME k = 0 PROVE FALSE
    OBVIOUS
  <2>1. Heard(p, 0) = {MinTime}
    BY DEF Heard
  <2>2. Top(0)
    BY <2>1, WindowAssumption
  <2> HIDE DEF Top
  <2> QED BY <1>3, <2>2
<1>5. PICK j : j = k - 1
  OBVIOUS
<1>6. j \in Nat /\ j =< n /\ k = j + 1 /\ j < k
  BY <1>3, <1>4, <1>5
<1>7. Top(j)
  <2> HIDE DEF Top
  <2>1. j \notin Bad
    BY <1>2, <1>3, <1>6
  <2> QED BY <1>6, <2>1
<1>8. PICK x \in Heard(p, j) : \A y \in Heard(p, j) : y =< x
  BY <1>7
<1>9. /\ Heard(p, j) \subseteq Int /\ Heard(p, k) \subseteq Int
  <2>1. j =< Len(Payloads[p]) /\ k =< Len(Payloads[p])
    BY <1>0, <1>3, <1>6
  <2> QED BY <1>3, <1>6, <2>1, HeardType
<1>10. PICK t : t = Payloads[p][k].time
  OBVIOUS
<1>11. Heard(p, k) = Heard(p, j) \/ Heard(p, k) = Heard(p, j) \cup {t}
  BY <1>6, <1>10, HeardNext
<1>12. CASE Heard(p, k) = Heard(p, j)
  BY <1>3, <1>8, <1>12
<1>13. CASE Heard(p, k) = Heard(p, j) \cup {t}
  <2>1. t \in Int /\ x \in Int
    BY <1>8, <1>9, <1>13
  <2>2. CASE t =< x
    BY <1>3, <1>8, <1>13, <2>2
  <2>3. CASE x =< t
    <3>1. \A y \in Heard(p, k) : y =< t
      BY <1>8, <1>9, <1>13, <2>1, <2>3
    <3> QED BY <1>3, <1>13, <3>1
  <2> QED BY <2>1, <2>2, <2>3
<1> QED BY <1>11, <1>12, <1>13

\* WatermarkOf is the greatest an input has sent.
LEMMA WatermarkIs ==
    ASSUME NEW rec, IsPrefix(rec), NEW q \in Inputs
    PROVE  WatermarkOf(q, rec) = Max(Heard(q, rec[q]))
<1> DEFINE E == {f \in Received(rec) : f[1] = q /\ ~IsData(MessageAt(f))}
           I == {i \in 1..rec[q] : ~IsData(Payloads[q][i])}
<1>1. {MessageAt(e).time : e \in E} = {Payloads[q][i].time : i \in I}
  <2>1. ASSUME NEW e \in E PROVE \E i \in I : MessageAt(e).time = Payloads[q][i].time
    <3>1. e \in Received(rec) /\ e[1] = q /\ ~IsData(MessageAt(e))
      OBVIOUS
    <3>2. PICK p \in Inputs : \E i \in 1..rec[p] : e = <<p, i>>
      BY <3>1, ReceivedIs
    <3>3. PICK i \in 1..rec[p] : e = <<p, i>>
      BY <3>2
    <3>4. p = q /\ MessageAt(e) = Payloads[q][i]
      BY <3>1, <3>3 DEF MessageAt
    <3> QED BY <3>1, <3>3, <3>4
  <2>2. ASSUME NEW i \in I PROVE \E e \in E : MessageAt(e).time = Payloads[q][i].time
    <3>1. PICK e : e = <<q, i>>
      OBVIOUS
    <3>2. e \in Received(rec) /\ e[1] = q /\ MessageAt(e) = Payloads[q][i]
      BY <3>1, ReceivedIs DEF MessageAt
    <3> QED BY <3>2
  <2> HIDE DEF E, I
  <2> QED BY <2>1, <2>2
<1> QED BY <1>1, Zenon DEF WatermarkOf, Heard

\* What WatermarkOf is, as a fact about the messages received.
LEMMA WatermarkFacts ==
    ASSUME NEW rec, IsPrefix(rec), NEW q \in Inputs
    PROVE  /\ WatermarkOf(q, rec) \in Int /\ WatermarkOf(q, rec) >= MinTime
           /\ WatermarkOf(q, rec) \in Heard(q, rec[q])
           /\ \A y \in Heard(q, rec[q]) : y =< WatermarkOf(q, rec)
<1>1. rec[q] \in Nat /\ rec[q] =< Len(Payloads[q])
  BY DEF IsPrefix
<1>2. PICK H : H = Heard(q, rec[q])
  OBVIOUS
<1>3. H \subseteq Int /\ \A y \in H : y >= MinTime
  BY <1>1, <1>2, HeardType
<1>4. PICK x \in H : \A y \in H : y =< x
  BY <1>1, <1>2, HeardTop
<1>5. WatermarkOf(q, rec) = x
  BY <1>2, <1>3, <1>4, WatermarkIs, MaxIs
<1> QED BY <1>2, <1>3, <1>4, <1>5

\* The combined watermark is the least of the inputs'.
LEMMA ExpectedFacts ==
    ASSUME NEW rec, IsPrefix(rec)
    PROVE  /\ ExpectedWatermark(rec) \in Int
           /\ \E q \in Inputs : ExpectedWatermark(rec) = WatermarkOf(q, rec)
           /\ \A q \in Inputs : ExpectedWatermark(rec) =< WatermarkOf(q, rec)
<1> DEFINE S == {WatermarkOf(q, rec) : q \in Inputs}
<1>1. S \subseteq Int /\ S # {} /\ \A x \in S : x >= MinTime
  BY WatermarkFacts, InputAssumption
<1>2. MinTime \in Int /\ ExpectedWatermark(rec) = Min(S)
  BY WindowAssumption DEF ExpectedWatermark
<1>3. Min(S) \in S /\ \A y \in S : Min(S) =< y
  <2> HIDE DEF S
  <2> QED BY <1>1, <1>2, MinLeast
<1>4. PICK x : x = ExpectedWatermark(rec)
  OBVIOUS
<1>5. x \in S /\ \A y \in S : x =< y
  BY <1>2, <1>3, <1>4
<1>6. \E q \in Inputs : x = WatermarkOf(q, rec)
  BY <1>5
<1>7. \A q \in Inputs : x =< WatermarkOf(q, rec)
  BY <1>5
<1>8. x \in Int
  BY <1>1, <1>5
<1> QED BY <1>4, <1>6, <1>7, <1>8

\* Data leaves the watermarks alone, and comes before its windows' deadlines.
LEMMA DataWatermarks ==
    ASSUME NEW rec, NEW p, NEW m, NEW rec2, Grows(rec, p, m, rec2), IsData(m)
    PROVE  /\ \A q \in Inputs : WatermarkOf(q, rec2) = WatermarkOf(q, rec)
           /\ ExpectedWatermark(rec2) = ExpectedWatermark(rec)
<1>1. IsPrefix(rec) /\ IsPrefix(rec2) /\ p \in Inputs
  BY GrowsFacts
<1>2. rec[p] \in Nat /\ rec2[p] = rec[p] + 1 /\ \A q \in Inputs : q # p => rec2[q] = rec[q]
  BY DEF Grows, IsPrefix
<1>3. PICK k : k = rec[p] /\ k \in Nat
  BY <1>2
<1>4. IsData(Payloads[p][k + 1])
  BY <1>3 DEF Grows
<1>5. Heard(p, k + 1) = Heard(p, k)
  BY <1>3, <1>4, HeardNext
<1>6. ASSUME NEW q \in Inputs PROVE WatermarkOf(q, rec2) = WatermarkOf(q, rec)
  <2>1. Heard(q, rec2[q]) = Heard(q, rec[q])
    BY <1>2, <1>3, <1>5
  <2> QED BY <1>1, <2>1, WatermarkIs
<1>7. {WatermarkOf(q, rec2) : q \in Inputs} = {WatermarkOf(q, rec) : q \in Inputs}
  BY <1>6
<1>8. ExpectedWatermark(rec2) = ExpectedWatermark(rec)
  BY <1>7, Zenon DEF ExpectedWatermark
<1> QED BY <1>6, <1>8

\* No record is late: its input's own watermark is not past its windows.
LEMMA DataOnTime ==
    ASSUME NEW rec, NEW p, NEW m, NEW rec2, Grows(rec, p, m, rec2), IsData(m), InDomain(m.time),
           NEW w \in WindowsOf(m.time)
    PROVE  ExpectedWatermark(rec) < Deadline(w) /\ w \in Windows
<1>1. IsPrefix(rec) /\ p \in Inputs /\ m.time \in EventTimes
  BY GrowsFacts
<1>2. w \in Windows
  BY <1>1 DEF Windows
<1>3. w.start \in Int /\ w.start >= 0 /\ w.end \in Int /\ w.end > w.start /\ Deadline(w) \in Int
      /\ w.end =< Deadline(w)
  BY <1>2, WindowFacts
<1>4. PICK x : x = WatermarkOf(p, rec)
  OBVIOUS
<1>5. /\ x \in Int /\ x \in Heard(p, rec[p])
      /\ ExpectedWatermark(rec) =< x /\ ExpectedWatermark(rec) \in Int
  BY <1>1, <1>4, WatermarkFacts, ExpectedFacts
<1>6. CASE x = MinTime
  <2>1. x =< 0
    BY <1>6, WindowAssumption
  <2> QED BY <1>2, <1>3, <1>5, <2>1
<1>7. CASE \E i \in 1..rec[p] : ~IsData(Payloads[p][i]) /\ x = Payloads[p][i].time
  <2>1. PICK i \in 1..rec[p] : ~IsData(Payloads[p][i]) /\ x = Payloads[p][i].time
    BY <1>7
  <2>2. PICK k : k = rec[p] + 1
    OBVIOUS
  <2>3. rec[p] \in Nat /\ k =< Len(Payloads[p]) /\ m = Payloads[p][k] /\ Len(Payloads[p]) \in Nat
    BY <1>1, <2>2, PrefixLen DEF Grows, IsPrefix
  <2>4. i \in Nat /\ i >= 1 /\ i =< Len(Payloads[p]) /\ k \in Nat /\ k >= 1 /\ i < k
    BY <2>2, <2>3
  <2>5. i \in DOMAIN Payloads[p] /\ k \in DOMAIN Payloads[p]
    BY <1>1, <2>3, <2>4, PayloadFacts
  <2>6. x < Deadline(w)
    BY <1>1, <2>1, <2>3, <2>4, <2>5, OnTimeAssumption
  <2> QED BY <1>2, <1>3, <1>5, <2>6
<1> QED BY <1>5, <1>6, <1>7 DEF Heard

\* A watermark is the greatest of its input so far.
LEMMA NewWatermark ==
    ASSUME NEW rec, NEW p, NEW m, NEW rec2, Grows(rec, p, m, rec2), ~IsData(m)
    PROVE  /\ WatermarkOf(p, rec2) = m.time /\ m.time >= WatermarkOf(p, rec)
           /\ \A q \in Inputs : q # p => WatermarkOf(q, rec2) = WatermarkOf(q, rec)
           /\ ExpectedWatermark(rec2) >= ExpectedWatermark(rec)
<1>1. IsPrefix(rec) /\ IsPrefix(rec2) /\ p \in Inputs
  BY GrowsFacts
<1>2. rec[p] \in Nat /\ rec2[p] = rec[p] + 1 /\ \A q \in Inputs : q # p => rec2[q] = rec[q]
  BY DEF Grows, IsPrefix
<1>3. PICK k, t : k = rec[p] /\ t = m.time
  OBVIOUS
<1>4. /\ k \in Nat /\ k + 1 =< Len(Payloads[p]) /\ m = Payloads[p][k + 1]
      /\ Len(Payloads[p]) \in Nat
  BY <1>1, <1>2, <1>3, PrefixLen DEF Grows
<1>5. Heard(p, k + 1) = Heard(p, k) \cup {t}
  BY <1>3, <1>4, HeardNext
<1>6. k + 1 \in Nat /\ k + 1 >= 1
  BY <1>4
<1>7. k + 1 \in DOMAIN Payloads[p] /\ t \in Int /\ t >= MinTime
  BY <1>1, <1>3, <1>4, <1>6, PayloadFacts
<1>8. ASSUME NEW y \in Heard(p, k) PROVE y =< t
  <2>1. CASE y = MinTime
    BY <1>7, <2>1, WindowAssumption
  <2>2. CASE \E i \in 1..k : ~IsData(Payloads[p][i]) /\ y = Payloads[p][i].time
    <3>1. PICK i \in 1..k : ~IsData(Payloads[p][i]) /\ y = Payloads[p][i].time
      BY <2>2
    <3>2. i \in Nat /\ i >= 1 /\ i =< Len(Payloads[p]) /\ i < k + 1
      BY <1>4
    <3>3. i \in DOMAIN Payloads[p]
      BY <1>1, <3>2, PayloadFacts
    <3> QED BY <1>1, <1>3, <1>4, <1>7, <3>1, <3>2, <3>3, OnTimeAssumption
  <2> QED BY <2>1, <2>2 DEF Heard
<1>9. Heard(p, k + 1) \subseteq Int
  BY <1>1, <1>4, <1>6, HeardType
<1>10. \A y \in Heard(p, k + 1) : y =< t
  BY <1>5, <1>7, <1>8
<1>11. Max(Heard(p, k + 1)) = t
  BY <1>5, <1>9, <1>10, MaxIs
<1>12. WatermarkOf(p, rec2) = t
  BY <1>1, <1>2, <1>3, <1>11, WatermarkIs
<1>13. t >= WatermarkOf(p, rec)
  BY <1>1, <1>3, <1>7, <1>8, WatermarkFacts
<1>14. ASSUME NEW q \in Inputs, q # p PROVE WatermarkOf(q, rec2) = WatermarkOf(q, rec)
  BY <1>1, <1>2, <1>14, WatermarkIs
<1>15. ExpectedWatermark(rec2) >= ExpectedWatermark(rec)
  <2>1. PICK q \in Inputs : ExpectedWatermark(rec2) = WatermarkOf(q, rec2)
    BY <1>1, ExpectedFacts
  <2>2. /\ WatermarkOf(q, rec2) \in Int /\ WatermarkOf(q, rec) \in Int
        /\ ExpectedWatermark(rec) =< WatermarkOf(q, rec) /\ ExpectedWatermark(rec) \in Int
    BY <1>1, <2>1, WatermarkFacts, ExpectedFacts
  <2>3. WatermarkOf(q, rec2) >= WatermarkOf(q, rec)
    BY <1>3, <1>12, <1>13, <1>14, <2>2
  <2> QED BY <2>1, <2>2, <2>3
<1> QED BY <1>3, <1>12, <1>13, <1>14, <1>15

-----------------------------------------------------------------------------
(***************************************************************************)
(* The keyed state.  A watermark erases the panes past their deadline, and *)
(* no others.                                                              *)
(***************************************************************************)
Fit(st) ==
    /\ st = [panes |-> st.panes, fired |-> st.fired, refired |-> st.refired]
    /\ st.panes = [s \in Slots |-> st.panes[s]]
    /\ \A s \in Slots : st.panes[s].count \in Nat /\ (st.panes[s].count = 0 => st.panes[s] = NoPane)
    /\ st.fired \subseteq Windows /\ st.refired \subseteq st.fired
    /\ AllowedLateness = 0 => st.fired = {}

\* A pane is live or empty.
LEMMA LiveOrEmpty ==
    ASSUME NEW st, Fit(st), NEW s \in Slots
    PROVE  s[1] \in AllWindows(st) \/ st.panes[s] = NoPane
<1>1. s[1] \in Windows /\ s[2] \in Keys /\ s = <<s[1], s[2]>>
  BY SlotFacts
<1>2. CASE st.panes[s].count > 0
  BY <1>1, <1>2 DEF AllWindows
<1>3. CASE ~(st.panes[s].count > 0)
  BY <1>3 DEF Fit
<1> QED BY <1>2, <1>3

\* ErasePanes, slot by slot.
LEMMA EraseFacts ==
    ASSUME NEW panes, NEW ws, NEW r, r = ErasePanes(panes, ws)
    PROVE  /\ r = [s \in Slots |-> r[s]]
           /\ \A s \in Slots : r[s] = IF s[1] \in ws THEN NoPane ELSE panes[s]
  BY DEF ErasePanes

\* What a watermark erases.
Erases(st, a, wm) ==
    /\ a.panes = [s \in Slots |-> a.panes[s]]
    /\ \A s \in Slots : a.panes[s] = IF Deadline(s[1]) =< wm THEN NoPane ELSE st.panes[s]

\* Without lateness, a window fires once and its panes go.
LEMMA WatermarkWithout ==
    ASSUME NEW st, Fit(st), NEW wm \in Int, AllowedLateness = 0, NEW a, a = AfterWatermark(st, wm)
    PROVE  Fit(a) /\ Erases(st, a, wm)
<1>1. PICK E : E = ExpiredWindows(st, wm)
  OBVIOUS
<1>2. ~UseLateness
  BY DEF UseLateness
<1>3. a = FireWindow(st, E)
  BY <1>1, <1>2 DEF AfterWatermark
<1>4. PICK r : r = ErasePanes(st.panes, E)
  OBVIOUS
<1>5. a = [panes |-> r, fired |-> st.fired, refired |-> st.refired]
  BY <1>3, <1>4 DEF FireWindow
<1>6. a.panes = r /\ a.fired = st.fired /\ a.refired = st.refired
  BY <1>5
<1>7. /\ r = [s \in Slots |-> r[s]]
      /\ \A s \in Slots : r[s] = IF s[1] \in E THEN NoPane ELSE st.panes[s]
  BY <1>4, EraseFacts
<1>8. ASSUME NEW s \in Slots PROVE r[s] = IF Deadline(s[1]) =< wm THEN NoPane ELSE st.panes[s]
  <2>1. PICK w : w = s[1] /\ w \in Windows
    BY SlotFacts
  <2>2. w.end \in Int /\ Deadline(w) = w.end
    BY <2>1, WindowFacts
  <2>3. w \in AllWindows(st) \/ st.panes[s] = NoPane
    BY <2>1, LiveOrEmpty
  <2>4. w \in E <=> w \in AllWindows(st) /\ w.end =< wm
    BY <1>1 DEF ExpiredWindows, Fit
  <2> QED BY <1>7, <2>1, <2>2, <2>3, <2>4
<1>9. NoPane.count = 0
  BY DEF NoPane
<1>10. \A s \in Slots : r[s].count \in Nat /\ (r[s].count = 0 => r[s] = NoPane)
  BY <1>7, <1>9 DEF Fit
<1>11. Fit(a)
  BY <1>5, <1>6, <1>7, <1>10 DEF Fit
<1> QED BY <1>6, <1>7, <1>8, <1>11 DEF Erases

\* With lateness, a window fires and its panes go at the deadline.
LEMMA WatermarkWith ==
    ASSUME NEW st, Fit(st), NEW wm \in Int, AllowedLateness # 0, NEW a, a = AfterWatermark(st, wm)
    PROVE  Fit(a) /\ Erases(st, a, wm)
<1>1. PICK E : E = ExpiredWindows(st, wm)
  OBVIOUS
<1>2. UseLateness /\ AllowedLateness \in Nat
  BY WindowAssumption DEF UseLateness
<1>3. PICK A : A = AllWindows(st)
  OBVIOUS
<1>4. PICK F : F = st.fired \cup (E \cap A)
  OBVIOUS
<1>5. PICK f : f = [panes |-> st.panes, fired |-> F, refired |-> st.refired]
  OBVIOUS
<1>6. FireWindow(st, E) = f
  BY <1>3, <1>4, <1>5 DEF FireWindow
<1>7. f.panes = st.panes /\ f.fired = F /\ f.refired = st.refired
  BY <1>5
<1>8. PICK c : c = ClearRefired(FireWindow(f, f.refired))
  OBVIOUS
<1>9. c = [panes |-> st.panes, fired |-> F, refired |-> {}]
  <2>1. F \cup (st.refired \cap AllWindows(f)) = F
    BY <1>4 DEF Fit
  <2>2. PICK g : g = [panes |-> st.panes, fired |-> F, refired |-> st.refired]
    OBVIOUS
  <2>3. FireWindow(f, f.refired) = g
    BY <1>7, <2>1, <2>2 DEF FireWindow
  <2>4. g.panes = st.panes /\ g.fired = F
    BY <2>2
  <2>5. c = ClearRefired(g)
    BY <1>8, <2>3
  <2> QED BY <2>4, <2>5 DEF ClearRefired
<1>10. c.panes = st.panes /\ c.fired = F /\ c.refired = {}
  BY <1>9
<1>11. PICK C : C = GarbageCollectable(c, wm)
  OBVIOUS
<1>12. a = GarbageCollect(c, C)
  BY <1>1, <1>2, <1>6, <1>8, <1>11 DEF AfterWatermark
<1>13. PICK r : r = ErasePanes(st.panes, C)
  OBVIOUS
<1>14. a = [panes |-> r, fired |-> F \ C, refired |-> {}]
  BY <1>10, <1>12, <1>13 DEF GarbageCollect
<1>15. a.panes = r /\ a.fired = F \ C /\ a.refired = {}
  BY <1>14
<1>16. /\ r = [s \in Slots |-> r[s]]
       /\ \A s \in Slots : r[s] = IF s[1] \in C THEN NoPane ELSE st.panes[s]
  BY <1>13, EraseFacts
<1>17. F \subseteq Windows
  BY <1>3, <1>4 DEF Fit, AllWindows
<1>18. ASSUME NEW s \in Slots PROVE r[s] = IF Deadline(s[1]) =< wm THEN NoPane ELSE st.panes[s]
  <2>1. PICK w : w = s[1] /\ w \in Windows
    BY SlotFacts
  <2>2. w.end \in Int /\ Deadline(w) \in Int /\ w.end =< Deadline(w)
    BY <2>1, WindowFacts
  <2>3. w \in A \/ st.panes[s] = NoPane
    BY <1>3, <2>1, LiveOrEmpty
  <2>4. w \in C <=> w \in F /\ Deadline(w) =< wm
    BY <1>10, <1>11, <2>2 DEF GarbageCollectable
  <2>5. w \in E <=> w \in A /\ w.end =< wm /\ w \notin st.fired
    BY <1>1, <1>3 DEF ExpiredWindows
  <2>6. w \in A /\ Deadline(w) =< wm => w \in F
    BY <1>4, <2>2, <2>5
  <2> QED BY <1>16, <2>1, <2>3, <2>4, <2>6
<1>19. NoPane.count = 0
  BY DEF NoPane
<1>20. \A s \in Slots : r[s].count \in Nat /\ (r[s].count = 0 => r[s] = NoPane)
  BY <1>16, <1>19 DEF Fit
<1>21. a.fired \subseteq Windows /\ a.refired \subseteq a.fired
  BY <1>15, <1>17
<1>22. Fit(a)
  BY <1>14, <1>15, <1>16, <1>20, <1>21 DEF Fit
<1> QED BY <1>15, <1>16, <1>18, <1>22 DEF Erases

\* AfterWatermark, either way.
LEMMA WatermarkErases ==
    ASSUME NEW st, Fit(st), NEW wm \in Int, NEW a, a = AfterWatermark(st, wm)
    PROVE  Fit(a) /\ Erases(st, a, wm)
  BY WatermarkWithout, WatermarkWith

\* A record that no window drops.
LEMMA AddFits ==
    ASSUME NEW st, Fit(st), NEW key \in Keys, NEW ws, ws \subseteq Windows, NEW v \in Int,
           NEW wm \in Int, \A w \in ws : wm < Deadline(w),
           NEW a, a = AddWithLateness(st, key, ws, v, wm)
    PROVE  /\ Fit(a) /\ Accepting(ws, wm) = ws
           /\ \A s \in Slots : a.panes[s] = IF s[1] \in ws /\ s[2] = key
                                            THEN PaneAdd(st.panes[s], v) ELSE st.panes[s]
<1>1. Accepting(ws, wm) = ws
  BY DEF Accepting
<1>2. PICK r : r = AddToPanes(st.panes, key, ws, v)
  OBVIOUS
<1>3. a = [panes |-> r, fired |-> st.fired, refired |-> st.refired \cup (ws \cap st.fired)]
  BY <1>1, <1>2 DEF AddWithLateness
<1>4. a.panes = r /\ a.fired = st.fired /\ a.refired = st.refired \cup (ws \cap st.fired)
  BY <1>3
<1>5. r = [s \in Slots |-> IF s[1] \in ws /\ s[2] = key
                           THEN PaneAdd(st.panes[s], v) ELSE st.panes[s]]
  BY <1>2 DEF AddToPanes
<1>6. /\ r = [s \in Slots |-> r[s]]
      /\ \A s \in Slots : r[s] = IF s[1] \in ws /\ s[2] = key THEN PaneAdd(st.panes[s], v)
                                                              ELSE st.panes[s]
  BY <1>5
<1>7. ASSUME NEW s \in Slots PROVE r[s].count \in Nat /\ (r[s].count = 0 => r[s] = NoPane)
  <2>1. PICK c : c = st.panes[s].count /\ c \in Nat /\ (c = 0 => st.panes[s] = NoPane)
    BY DEF Fit
  <2>2. PaneAdd(st.panes[s], v).count = c + 1
    BY <2>1 DEF PaneAdd
  <2> QED BY <1>6, <2>1, <2>2
<1>8. /\ a.fired \subseteq Windows /\ a.refired \subseteq a.fired
      /\ AllowedLateness = 0 => a.fired = {}
  BY <1>4 DEF Fit
<1>9. Fit(a)
  BY <1>3, <1>4, <1>6, <1>7, <1>8 DEF Fit
<1> QED BY <1>1, <1>4, <1>6, <1>9

-----------------------------------------------------------------------------
(***************************************************************************)
(* The operator.  It is exact if it holds what the messages received       *)
(* amount to.                                                              *)
(***************************************************************************)
Tallies(op, rec) ==
    /\ op = [records |-> op.records, watermarks |-> op.watermarks,
             watermark |-> op.watermark, state |-> op.state]
    /\ op.records = Cardinality(RecordsAmong(rec))
    /\ op.watermarks = [p \in Inputs |-> WatermarkOf(p, rec)]
    /\ op.watermark = ExpectedWatermark(rec)

Aggregates(st, rec) == \A s \in Slots : st.panes[s] = ExpectedPane(s, rec)

Exact(op, rec) ==
    IsPrefix(rec) /\ Tallies(op, rec) /\ Fit(op.state) /\ Aggregates(op.state, rec)

\* What exactness says.
LEMMA ExactFacts ==
    ASSUME NEW op, NEW rec, Exact(op, rec)
    PROVE  IsPrefix(rec) /\ Tallies(op, rec) /\ Fit(op.state) /\ Aggregates(op.state, rec)
  BY DEF Exact

\* ApplyData takes every record, and the operator stays exact.
LEMMA ApplyDataExact ==
    ASSUME Acceptable, NEW op, NEW rec, Exact(op, rec), NEW p, NEW m, NEW rec2,
           Grows(rec, p, m, rec2), IsData(m), NEW op2, op2 = Apply(op, p, m)
    PROVE  op2 # Thrown /\ Exact(op2, rec2)
<1>1. IsPrefix(rec) /\ Tallies(op, rec) /\ Fit(op.state) /\ Aggregates(op.state, rec)
  BY ExactFacts
<1>2. /\ IsPrefix(rec2) /\ p \in Inputs /\ m.key \in Keys /\ m.time \in EventTimes
      /\ m.value \in Int
  BY GrowsFacts
<1>3. PICK st, ws, v, key, wm : /\ st = op.state /\ ws = WindowsOf(m.time) /\ v = m.value
                                /\ key = m.key /\ wm = op.watermark
  OBVIOUS
<1>4. InDomain(m.time)
  <2>1. PICK k : k = rec[p] + 1
    OBVIOUS
  <2>2. k \in Nat /\ k >= 1 /\ k =< Len(Payloads[p]) /\ m = Payloads[p][k]
    BY <1>2, <2>1 DEF Grows, IsPrefix
  <2>3. k \in DOMAIN Payloads[p]
    BY <1>2, <2>2, PayloadFacts
  <2> QED BY <1>2, <2>2, <2>3 DEF Acceptable
<1>5. wm = ExpectedWatermark(rec) /\ wm \in Int /\ ExpectedWatermark(rec2) = wm
  BY <1>1, <1>3, ExpectedFacts, DataWatermarks DEF Tallies
<1>6. ws \subseteq Windows /\ \A w \in ws : wm < Deadline(w)
  BY <1>3, <1>4, <1>5, DataOnTime
<1>7. PICK a : a = AddWithLateness(st, key, ws, v, wm)
  OBVIOUS
<1>8. /\ Fit(a) /\ Accepting(ws, wm) = ws
      /\ \A s \in Slots : a.panes[s] = IF s[1] \in ws /\ s[2] = key THEN PaneAdd(st.panes[s], v)
                                                                    ELSE st.panes[s]
  BY <1>1, <1>2, <1>3, <1>5, <1>6, <1>7, AddFits
<1>9. ASSUME NEW s \in Slots
      PROVE  /\ s[1] \in Windows /\ Deadline(s[1]) \in Int
             /\ Reaches(m, s) <=> s[1] \in ws /\ s[2] = key
  BY <1>3, SlotFacts, WindowFacts DEF Reaches
<1>10. ASSUME NEW s \in Slots, s[1] \in ws, s[2] = key
       PROVE  /\ st.panes[s].sum + v = SumOf(RecordsFor(s, rec2))
              /\ PaneAdd(st.panes[s], v) = ExpectedPane(s, rec2)
  <2>1. ~(Deadline(s[1]) =< wm)
    BY <1>5, <1>6, <1>9, <1>10
  <2>2. PICK sum, count : sum = SumOf(RecordsFor(s, rec)) /\ count = Cardinality(RecordsFor(s, rec))
    OBVIOUS
  <2>3. st.panes[s] = [sum |-> sum, count |-> count]
    BY <1>1, <1>3, <1>5, <2>1, <2>2 DEF Aggregates, ExpectedPane
  <2>4. SumOf(RecordsFor(s, rec2)) = sum + v /\ Cardinality(RecordsFor(s, rec2)) = count + 1
    BY <1>3, <1>9, <1>10, <2>2, RecordsForGrow
  <2>5. ExpectedPane(s, rec2) = [sum |-> sum + v, count |-> count + 1]
    BY <1>5, <2>1, <2>4 DEF ExpectedPane
  <2> QED BY <2>3, <2>4, <2>5 DEF PaneAdd
<1>11. CanAddTo(st, key, ws, v, wm)
  <2> SUFFICES ASSUME NEW w \in ws PROVE CanAdd(st.panes[<<w, key>>], v)
    BY <1>8 DEF CanAddTo
  <2>1. PICK s : s = <<w, key>>
    OBVIOUS
  <2>2. s \in Slots /\ s[1] = w /\ s[2] = key
    BY <1>2, <1>3, <1>6, <2>1 DEF Slots
  <2>3. rec2 \in Prefixes
    <3>1. rec2 \in [Inputs -> Nat] /\ \A q \in Inputs : rec2[q] =< Len(Payloads[q])
      BY <1>2 DEF IsPrefix
    <3>2. ASSUME NEW q \in Inputs PROVE rec2[q] \in UNION {0..Len(Payloads[r]) : r \in Inputs}
      <4>1. Len(Payloads[q]) \in Nat /\ rec2[q] \in Nat /\ rec2[q] =< Len(Payloads[q])
        BY <3>1, PrefixLen
      <4>2. rec2[q] \in 0..Len(Payloads[q])
        BY <4>1
      <4> QED BY <4>2
    <3> QED BY <3>1, <3>2 DEF Prefixes
  <2>4. SumOf(RecordsFor(s, rec2)) \in MinSum..MaxSum
    BY <2>2, <2>3 DEF Acceptable
  <2>5. st.panes[s].sum + v \in MinSum..MaxSum
    BY <1>10, <2>2, <2>4
  <2>6. PICK x : x = st.panes[s].sum + v
    OBVIOUS
  <2>7. MinSum <= x /\ x <= MaxSum
    BY <2>5, <2>6, WindowAssumption
  <2> QED BY <2>1, <2>6, <2>7 DEF CanAdd
<1>12. op2 = [op EXCEPT !.state = a, !.records = @ + 1]
  <2>1. op2 = ApplyData(op, m)
    BY DEF Apply
  <2> QED BY <1>3, <1>4, <1>7, <1>11, <2>1 DEF ApplyData
<1>13. op = [records |-> op.records, watermarks |-> op.watermarks,
             watermark |-> op.watermark, state |-> op.state]
  BY <1>1 DEF Tallies
<1>14. op2 = [records |-> op.records + 1, watermarks |-> op.watermarks,
              watermark |-> op.watermark, state |-> a]
  BY <1>12, <1>13
<1>15. /\ op2.records = op.records + 1 /\ op2.watermarks = op.watermarks
       /\ op2.watermark = op.watermark /\ op2.state = a
  BY <1>14
<1>16. op2 # Thrown
  <2>1. "records" \in DOMAIN op2 /\ "records" \notin DOMAIN Thrown
    BY <1>14 DEF Thrown
  <2> QED BY <2>1
<1>17. Aggregates(a, rec2)
  <2> SUFFICES ASSUME NEW s \in Slots PROVE a.panes[s] = ExpectedPane(s, rec2)
    BY DEF Aggregates
  <2>1. CASE s[1] \in ws /\ s[2] = key
    BY <1>8, <1>10, <2>1
  <2>2. CASE ~(s[1] \in ws /\ s[2] = key)
    <3>1. RecordsFor(s, rec2) = RecordsFor(s, rec)
      BY <1>9, <2>2, RecordsForGrow
    <3>2. ExpectedPane(s, rec2) = ExpectedPane(s, rec)
      BY <1>5, <3>1 DEF ExpectedPane
    <3> QED BY <1>1, <1>3, <1>8, <2>2, <3>2 DEF Aggregates
  <2> QED BY <2>1, <2>2
<1>18. Tallies(op2, rec2)
  <2>1. Cardinality(RecordsAmong(rec2)) = Cardinality(RecordsAmong(rec)) + 1
    <3>1. PICK e : e = <<p, rec[p] + 1>>
      OBVIOUS
    <3> QED BY <3>1, RecordsGrow
  <2>2. [q \in Inputs |-> WatermarkOf(q, rec2)] = [q \in Inputs |-> WatermarkOf(q, rec)]
    BY DataWatermarks
  <2>3. op2 = [records |-> op2.records, watermarks |-> op2.watermarks,
               watermark |-> op2.watermark, state |-> op2.state]
    BY <1>14, <1>15
  <2> QED BY <1>1, <1>3, <1>5, <1>15, <2>1, <2>2, <2>3 DEF Tallies
<1> QED BY <1>2, <1>8, <1>15, <1>16, <1>17, <1>18 DEF Exact

\* Combined is the least of the inputs' watermarks.
LEMMA CombinedIs ==
    ASSUME NEW rec, NEW ws, ws = [q \in Inputs |-> WatermarkOf(q, rec)]
    PROVE  Combined(ws) = ExpectedWatermark(rec)
<1>1. Range(ws) = {WatermarkOf(q, rec) : q \in Inputs}
  BY DEF Range
<1> QED BY <1>1 DEF Combined, ExpectedWatermark

\* ApplyWatermark takes every watermark, and the operator stays exact.
LEMMA ApplyWatermarkExact ==
    ASSUME NEW op, NEW rec, Exact(op, rec), NEW p, NEW m, NEW rec2,
           Grows(rec, p, m, rec2), ~IsData(m), NEW op2, op2 = Apply(op, p, m)
    PROVE  op2 # Thrown /\ Exact(op2, rec2)
<1>1. IsPrefix(rec) /\ Tallies(op, rec) /\ Fit(op.state) /\ Aggregates(op.state, rec)
  BY ExactFacts
<1>2. IsPrefix(rec2) /\ p \in Inputs /\ m.time \in Int
  BY GrowsFacts
<1>3. /\ WatermarkOf(p, rec2) = m.time /\ m.time >= WatermarkOf(p, rec)
      /\ \A q \in Inputs : q # p => WatermarkOf(q, rec2) = WatermarkOf(q, rec)
      /\ ExpectedWatermark(rec2) >= ExpectedWatermark(rec)
      /\ ExpectedWatermark(rec2) \in Int /\ ExpectedWatermark(rec) \in Int
      /\ WatermarkOf(p, rec) \in Int
  BY <1>1, <1>2, NewWatermark, ExpectedFacts, WatermarkFacts
<1>4. PICK ws, wm : ws = [op.watermarks EXCEPT ![p] = m.time] /\ wm = ExpectedWatermark(rec2)
  OBVIOUS
<1>5. ws = [q \in Inputs |-> WatermarkOf(q, rec2)]
  BY <1>1, <1>2, <1>3, <1>4 DEF Tallies
<1>6. Combined(ws) = wm
  BY <1>4, <1>5, CombinedIs
<1>7. op.watermarks[p] = WatermarkOf(p, rec) /\ op.watermark = ExpectedWatermark(rec)
  BY <1>1, <1>2 DEF Tallies
<1>8. ~(m.time < op.watermarks[p])
  BY <1>2, <1>3, <1>7
<1>9. op2 = ApplyWatermark(op, p, m.time)
  BY DEF Apply
<1>10. PICK a : a = IF wm > op.watermark THEN AfterWatermark(op.state, wm) ELSE op.state
  OBVIOUS
<1>11. op = [records |-> op.records, watermarks |-> op.watermarks,
             watermark |-> op.watermark, state |-> op.state]
  BY <1>1 DEF Tallies
<1>12. op2 = [records |-> op.records, watermarks |-> ws, watermark |-> wm, state |-> a]
  <2>1. PICK c : c = [op EXCEPT !.watermarks = ws]
    OBVIOUS
  <2>2. c = [records |-> op.records, watermarks |-> ws, watermark |-> op.watermark,
             state |-> op.state]
    BY <1>11, <2>1
  <2>3. op2 = IF wm > op.watermark
              THEN [c EXCEPT !.watermark = wm, !.state = AfterWatermark(@, wm)] ELSE c
    BY <1>4, <1>6, <1>8, <1>9, <2>1 DEF ApplyWatermark
  <2>4. CASE wm > op.watermark
    <3>1. a = AfterWatermark(op.state, wm) /\ c.state = op.state
      BY <1>10, <2>2, <2>4
    <3>2. op2 = [c EXCEPT !.watermark = wm, !.state = a]
      BY <2>3, <2>4, <3>1
    <3> QED BY <2>2, <3>2
  <2>5. CASE ~(wm > op.watermark)
    <3>1. wm = op.watermark
      BY <1>3, <1>4, <1>7, <2>5
    <3>2. a = op.state
      BY <1>10, <2>5
    <3> QED BY <2>2, <2>3, <2>5, <3>1, <3>2
  <2> QED BY <2>4, <2>5
<1>13. /\ op2.records = op.records /\ op2.watermarks = ws
       /\ op2.watermark = wm /\ op2.state = a
  BY <1>12
<1>14. op2 # Thrown
  <2>1. "records" \in DOMAIN op2 /\ "records" \notin DOMAIN Thrown
    BY <1>12 DEF Thrown
  <2> QED BY <2>1
<1>15. \A s \in Slots : RecordsFor(s, rec2) = RecordsFor(s, rec)
  <2>1. \A s \in Slots : ~Reaches(m, s)
    BY DEF Reaches
  <2> QED BY <2>1, RecordsForGrow
<1>16. wm \in Int
  BY <1>3, <1>4
<1>17. Fit(a) /\ Aggregates(a, rec2)
  <2>1. CASE wm > op.watermark
    <3>1. Fit(a) /\ Erases(op.state, a, wm)
      BY <1>1, <1>10, <1>16, <2>1, WatermarkErases
    <3>2. ASSUME NEW s \in Slots PROVE a.panes[s] = ExpectedPane(s, rec2)
      <4>1. a.panes[s] = IF Deadline(s[1]) =< wm THEN NoPane ELSE op.state.panes[s]
        BY <3>1 DEF Erases
      <4>2. Deadline(s[1]) \in Int
        BY SlotFacts, WindowFacts
      <4>3. op.state.panes[s] = ExpectedPane(s, rec)
        BY <1>1 DEF Aggregates
      <4>4. CASE Deadline(s[1]) =< wm
        BY <1>4, <4>1, <4>4 DEF ExpectedPane
      <4>5. CASE ~(Deadline(s[1]) =< wm)
        <5>1. ~(Deadline(s[1]) =< ExpectedWatermark(rec))
          BY <1>3, <1>4, <4>2, <4>5
        <5>2. ExpectedPane(s, rec) = [sum |-> SumOf(RecordsFor(s, rec)),
                                      count |-> Cardinality(RecordsFor(s, rec))]
          BY <5>1 DEF ExpectedPane
        <5>3. ExpectedPane(s, rec2) = [sum |-> SumOf(RecordsFor(s, rec2)),
                                       count |-> Cardinality(RecordsFor(s, rec2))]
          BY <1>4, <4>5 DEF ExpectedPane
        <5> QED BY <1>15, <4>1, <4>3, <4>5, <5>2, <5>3
      <4> QED BY <4>4, <4>5
    <3> QED BY <3>1, <3>2 DEF Aggregates
  <2>2. CASE ~(wm > op.watermark)
    <3>1. a = op.state /\ ExpectedWatermark(rec2) = ExpectedWatermark(rec)
      BY <1>3, <1>4, <1>7, <1>10, <2>2
    <3>2. \A s \in Slots : ExpectedPane(s, rec2) = ExpectedPane(s, rec)
      BY <1>15, <3>1 DEF ExpectedPane
    <3> QED BY <1>1, <3>1, <3>2 DEF Aggregates
  <2> QED BY <2>1, <2>2
<1>18. Tallies(op2, rec2)
  <2>1. RecordsAmong(rec2) = RecordsAmong(rec)
    <3>1. PICK e : e = <<p, rec[p] + 1>>
      OBVIOUS
    <3> QED BY <3>1, RecordsGrow
  <2>2. op2 = [records |-> op2.records, watermarks |-> op2.watermarks,
               watermark |-> op2.watermark, state |-> op2.state]
    BY <1>12, <1>13
  <2> QED BY <1>1, <1>4, <1>5, <1>13, <2>1, <2>2 DEF Tallies
<1> QED BY <1>2, <1>13, <1>14, <1>17, <1>18 DEF Exact

\* The operator takes every message, and stays exact.
LEMMA ApplyExact ==
    ASSUME Acceptable, NEW op, NEW rec, Exact(op, rec), NEW p, NEW m, NEW rec2,
           Grows(rec, p, m, rec2), NEW op2, op2 = Apply(op, p, m)
    PROVE  op2 # Thrown /\ Exact(op2, rec2)
  BY ApplyDataExact, ApplyWatermarkExact

\* A fresh operator has received nothing.
LEMMA FreshExact ==
    ASSUME NEW rec, rec = [p \in Inputs |-> 0]
    PROVE  Exact(FreshOperator, rec)
<1>1. Received(rec) = {}
  <2> SUFFICES ASSUME NEW e \in Received(rec) PROVE FALSE
    OBVIOUS
  <2>1. PICK p \in Inputs : \E i \in 1..rec[p] : e = <<p, i>>
    BY ReceivedIs
  <2>2. rec[p] = 0
    OBVIOUS
  <2> QED BY <2>1, <2>2
<1>2. IsPrefix(rec)
  <2>1. rec \in [Inputs -> Nat] /\ \A p \in Inputs : rec[p] =< Len(Payloads[p])
    BY PrefixLen
  <2> QED BY <1>1, <2>1, FS_EmptySet DEF IsPrefix
<1>3. RecordsAmong(rec) = {} /\ \A s : RecordsFor(s, rec) = {}
  BY <1>1 DEF RecordsAmong, RecordsFor
<1>4. ASSUME NEW p \in Inputs PROVE WatermarkOf(p, rec) = MinTime
  <2>1. Heard(p, rec[p]) = {MinTime}
    BY DEF Heard
  <2> QED BY <1>2, <2>1, WatermarkFacts
<1>5. ExpectedWatermark(rec) = MinTime
  BY <1>2, <1>4, ExpectedFacts
<1>6. PICK op, st : op = FreshOperator /\ st = EmptyState
  OBVIOUS
<1>7. op = [records |-> 0, watermarks |-> [p \in Inputs |-> MinTime], watermark |-> MinTime,
            state |-> st]
  BY <1>6 DEF FreshOperator
<1>8. st = [panes |-> [s \in Slots |-> NoPane], fired |-> {}, refired |-> {}]
  BY <1>6 DEF EmptyState
<1>9. NoPane.count = 0 /\ NoPane = [sum |-> 0, count |-> 0]
  BY DEF NoPane
<1>10. st.panes = [s \in Slots |-> NoPane] /\ st.fired = {} /\ st.refired = {}
  BY <1>8
<1>11. \A s \in Slots : st.panes[s] = NoPane
  BY <1>10
<1>12. Fit(st)
  <2>1. st.panes = [s \in Slots |-> st.panes[s]]
    BY <1>10
  <2>2. st = [panes |-> st.panes, fired |-> st.fired, refired |-> st.refired]
    BY <1>8, <1>10
  <2> QED BY <1>9, <1>10, <1>11, <2>1, <2>2 DEF Fit
<1>13. Cardinality({}) = 0
  BY FS_EmptySet
<1>14. Aggregates(st, rec)
  <2> SUFFICES ASSUME NEW s \in Slots PROVE st.panes[s] = ExpectedPane(s, rec)
    BY DEF Aggregates
  <2>1. SumOf(RecordsFor(s, rec)) = 0 /\ Cardinality(RecordsFor(s, rec)) = 0
    BY <1>3, <1>13, SumEmpty
  <2> QED BY <1>9, <1>11, <2>1 DEF ExpectedPane
<1>15. /\ op.records = 0 /\ op.watermarks = [p \in Inputs |-> MinTime] /\ op.watermark = MinTime
       /\ op.state = st
  BY <1>7
<1>16. Tallies(op, rec)
  <2>1. [p \in Inputs |-> WatermarkOf(p, rec)] = [p \in Inputs |-> MinTime]
    BY <1>4
  <2>2. op = [records |-> op.records, watermarks |-> op.watermarks,
              watermark |-> op.watermark, state |-> op.state]
    BY <1>7, <1>15
  <2> QED BY <1>3, <1>5, <1>13, <1>15, <2>1, <2>2 DEF Tallies
<1> QED BY <1>2, <1>6, <1>12, <1>14, <1>15, <1>16 DEF Exact

-----------------------------------------------------------------------------
(***************************************************************************)
(* Capture and Restore.                                                    *)
(***************************************************************************)
\* A list of pairs gives back the function it was made from.
ListOf(pairs, S, f) ==
    /\ IsFunctional(pairs) /\ {e[1] : e \in pairs} = S
    /\ {e[2] : e \in pairs} = {f[x] : x \in S}
    /\ \A x \in S : ValueIn(pairs, x) = f[x] /\ \E e \in pairs : e[1] = x
    /\ \A e \in pairs : e[1] \in S /\ e[2] = f[e[1]]

\* The pairs of a function list it.
LEMMA PairsFacts ==
    ASSUME NEW S, NEW f, NEW pairs, pairs = {<<x, f[x]>> : x \in S}
    PROVE  ListOf(pairs, S, f)
<1>1. \A e \in pairs : e[1] \in S /\ e[2] = f[e[1]] /\ e = <<e[1], e[2]>>
  OBVIOUS
<1>2. \A x \in S : <<x, f[x]>> \in pairs
  OBVIOUS
<1>3. IsFunctional(pairs)
  BY <1>1 DEF IsFunctional
<1>4. {e[1] : e \in pairs} = S
  BY <1>1, <1>2
<1>5. {e[2] : e \in pairs} = {f[x] : x \in S}
  <2>1. ASSUME NEW y \in {e[2] : e \in pairs} PROVE y \in {f[x] : x \in S}
    <3>1. PICK e \in pairs : y = e[2]
      OBVIOUS
    <3> QED BY <1>1, <3>1
  <2>2. ASSUME NEW x \in S PROVE f[x] \in {e[2] : e \in pairs}
    <3>1. PICK e : e = <<x, f[x]>>
      OBVIOUS
    <3>2. e \in pairs /\ e[2] = f[x]
      BY <1>2, <3>1
    <3> QED BY <3>2
  <2> QED BY <2>1, <2>2
<1>6. ASSUME NEW x \in S PROVE ValueIn(pairs, x) = f[x] /\ \E e \in pairs : e[1] = x
  <2>1. PICK d \in pairs : d[1] = x
    BY <1>2
  <2>2. PICK e : e = (CHOOSE z \in pairs : z[1] = x)
    OBVIOUS
  <2>3. e \in pairs /\ e[1] = x
    BY <2>1, <2>2
  <2> QED BY <1>1, <2>1, <2>2, <2>3 DEF ValueIn
<1> QED BY <1>1, <1>3, <1>4, <1>5, <1>6 DEF ListOf

\* Restore brings back what Capture has written.
LEMMA RoundTrip ==
    ASSUME NEW op, NEW rec, Exact(op, rec)
    PROVE  RestoreOperator(CaptureOperator(op)) = op
<1>1. IsPrefix(rec) /\ Tallies(op, rec) /\ Fit(op.state) /\ Aggregates(op.state, rec)
  BY ExactFacts
<1>2. PICK st, c, ws, ps : /\ st = op.state /\ c = CaptureOperator(op)
                           /\ ws = {<<p, op.watermarks[p]>> : p \in Inputs}
                           /\ ps = {<<s, st.panes[s]>> : s \in LiveSlots(st)}
  OBVIOUS
<1>3. c = [config |-> Config, records |-> op.records, watermark |-> op.watermark,
           watermarks |-> ws, panes |-> ps, fired |-> st.fired, refired |-> st.refired]
  BY <1>2 DEF CaptureOperator
<1>4. /\ c.config = Config /\ c.records = op.records /\ c.watermark = op.watermark
      /\ c.watermarks = ws /\ c.panes = ps /\ c.fired = st.fired /\ c.refired = st.refired
  BY <1>3
<1>5. /\ IsFunctional(ws) /\ {e[1] : e \in ws} = Inputs
      /\ {e[2] : e \in ws} = {op.watermarks[p] : p \in Inputs}
      /\ \A p \in Inputs : ValueIn(ws, p) = op.watermarks[p]
  <2>1. PICK f : f = op.watermarks
    OBVIOUS
  <2>2. ws = {<<p, f[p]>> : p \in Inputs}
    BY <1>2, <2>1
  <2>3. ListOf(ws, Inputs, f)
    BY <2>2, PairsFacts
  <2> QED BY <2>1, <2>3 DEF ListOf
<1>6. /\ op.watermarks = [p \in Inputs |-> WatermarkOf(p, rec)]
      /\ op.watermark = ExpectedWatermark(rec)
  BY <1>1 DEF Tallies
<1>7. c.watermark = Min({e[2] : e \in ws})
  <2>1. {op.watermarks[p] : p \in Inputs} = {WatermarkOf(p, rec) : p \in Inputs}
    BY <1>6
  <2> QED BY <1>4, <1>5, <1>6, <2>1 DEF ExpectedWatermark
<1>8. PICK L, pn : L = LiveSlots(st) /\ pn = st.panes
  OBVIOUS
<1>9. /\ IsFunctional(ps) /\ {e[1] : e \in ps} = L
      /\ \A s \in L : ValueIn(ps, s) = pn[s] /\ \E e \in ps : e[1] = s
      /\ \A e \in ps : e[1] \in L /\ e[2] = pn[e[1]]
  <2>1. ps = {<<s, pn[s]>> : s \in L}
    BY <1>2, <1>8
  <2>2. ListOf(ps, L, pn)
    BY <2>1, PairsFacts
  <2> QED BY <2>2 DEF ListOf
<1>10. \A s : s \in L <=> s \in Slots /\ pn[s].count > 0
  BY <1>8 DEF LiveSlots
<1>11. ASSUME NEW w \in {e[1][1] : e \in ps} \cup st.fired \cup st.refired
       PROVE  w.start >= 0 /\ w.end > w.start
  <2>1. w \in Windows
    <3>1. CASE w \in st.fired \cup st.refired
      BY <1>1, <1>2, <3>1 DEF Fit
    <3>2. CASE w \in {e[1][1] : e \in ps}
      BY <1>9, <1>10, <3>2, SlotFacts
    <3> QED BY <3>1, <3>2
  <2> QED BY <2>1, WindowFacts
<1>12. Restorable(c)
  <2>1. \A e \in ps : e[2].count > 0
    BY <1>9, <1>10
  <2>2. st.refired \subseteq st.fired
    BY <1>1, <1>2 DEF Fit
  <2> QED BY <1>4, <1>5, <1>7, <1>9, <1>11, <2>1, <2>2 DEF Restorable
<1>13. RestoredWatermarks(c) = op.watermarks
  <2>1. RestoredWatermarks(c) = [p \in Inputs |-> ValueIn(ws, p)]
    BY <1>4 DEF RestoredWatermarks
  <2> QED BY <1>5, <1>6, <2>1
<1>14. PICK q : q = [s \in Slots |-> IF \E e \in ps : e[1] = s THEN ValueIn(ps, s) ELSE NoPane]
  OBVIOUS
<1>15. q = pn
  <2>1. ASSUME NEW s \in Slots PROVE q[s] = pn[s]
    <3>1. q[s] = IF \E e \in ps : e[1] = s THEN ValueIn(ps, s) ELSE NoPane
      BY <1>14
    <3>2. CASE s \in L
      BY <1>9, <3>1, <3>2
    <3>3. CASE s \notin L
      <4>1. ~ \E e \in ps : e[1] = s
        BY <1>9, <3>3
      <4>2. ~(pn[s].count > 0)
        BY <1>10, <3>3
      <4>3. pn[s] = NoPane
        BY <1>1, <1>2, <1>8, <4>2 DEF Fit
      <4> QED BY <3>1, <4>1, <4>3
    <3> QED BY <3>2, <3>3
  <2>2. pn = [s \in Slots |-> pn[s]]
    BY <1>1, <1>2, <1>8 DEF Fit
  <2>3. q = [s \in Slots |-> q[s]]
    BY <1>14
  <2> QED BY <2>1, <2>2, <2>3, Zenon
<1>16. st = [panes |-> q, fired |-> st.fired, refired |-> st.refired]
  BY <1>1, <1>2, <1>8, <1>15 DEF Fit
<1>17. RestoreOperator(c) = [records |-> op.records, watermark |-> op.watermark,
                             watermarks |-> op.watermarks,
                             state |-> [panes |-> q, fired |-> st.fired, refired |-> st.refired]]
  BY <1>4, <1>12, <1>13, <1>14 DEF RestoreOperator
<1>18. op = [records |-> op.records, watermarks |-> op.watermarks,
             watermark |-> op.watermark, state |-> op.state]
  BY <1>1 DEF Tallies
<1>19. RestoreOperator(c) = [records |-> op.records, watermarks |-> op.watermarks,
                             watermark |-> op.watermark, state |-> st]
  BY <1>16, <1>17
<1> QED BY <1>2, <1>18, <1>19

-----------------------------------------------------------------------------
(***************************************************************************)
(* The application of a node                                               *)
(***************************************************************************)
AppNodes == Inputs \cup {Aggregator}

\* m, from p to n, is what p's cursor or the aggregator's loop gives it to send.
GoodPayload(p, n, m) ==
    /\ n = Aggregator => m.sequence =< MaxSent[p][n] /\ m.payload = Payloads[p][m.sequence]
    /\ p = Aggregator => m.payload = "ack"

\* The application of n is what the messages received and sent amount to.
GoodApp(n, app, rec, snt) ==
    /\ n = Aggregator => Exact(app, rec)
    /\ n \in Inputs => app = [cursor |-> snt[Aggregator], ack |-> app.ack]

\* A local snapshot of n brings such an application back.
GoodCut(n, c) ==
    /\ n = Aggregator => \E op : Exact(op, c.received) /\ c.state = CaptureOperator(op)
    /\ n \in Inputs => c.state = c.sent[Aggregator]
    /\ \A p \in Peers[n] : c.sent[p] =< MaxSent[n][p]
    /\ \A i \in 1..Len(c.channels) : /\ c.channels[i].peer \in Peers[n]
                                     /\ GoodPayload(c.channels[i].peer, n, c.channels[i])

\* The inputs and the aggregator, in the topology.
LEMMA AppNodeFacts ==
    /\ Aggregator \in Nodes /\ Aggregator \notin Inputs /\ Inputs \subseteq Nodes
    /\ Inputs = Peers[Aggregator]
    /\ \A p \in Inputs : /\ Peers[p] = {Aggregator} /\ MaxSent[p][Aggregator] \in Nat
                         /\ MaxSent[p][Aggregator] =< Len(Payloads[p])
<1>1. /\ Aggregator \in Nodes /\ Inputs = Peers[Aggregator] /\ Peers \in [Nodes -> SUBSET Nodes]
      /\ \A n \in Nodes : n \notin Peers[n]
      /\ \A n \in Nodes : MaxSent[n] \in [Peers[n] -> Nat]
      /\ \A p \in Inputs : Peers[p] = {Aggregator} /\ MaxSent[p][Aggregator] =< Len(Payloads[p])
  BY TopologyAssumption
<1>2. Aggregator \notin Inputs /\ Inputs \subseteq Nodes
  BY <1>1
<1>3. ASSUME NEW p \in Inputs PROVE MaxSent[p][Aggregator] \in Nat
  BY <1>1, <1>2
<1> QED BY <1>1, <1>2, <1>3

\* An application is not an exception.
LEMMA NotThrown ==
    ASSUME NEW n \in AppNodes, NEW app, NEW rec, NEW snt, GoodApp(n, app, rec, snt)
    PROVE  app # Thrown
<1>1. DOMAIN Thrown = {"thrown"}
  BY DEF Thrown
<1>2. CASE n = Aggregator
  <2>1. Tallies(app, rec)
    BY <1>2, ExactFacts DEF GoodApp
  <2>2. PICK a, b, c, d : app = [records |-> a, watermarks |-> b, watermark |-> c, state |-> d]
    BY <2>1 DEF Tallies
  <2>3. DOMAIN app = {"records", "watermarks", "watermark", "state"}
    BY <2>2
  <2> QED BY <1>1, <2>3
<1>3. CASE n \in Inputs
  <2>1. PICK a, b : app = [cursor |-> a, ack |-> b]
    BY <1>3 DEF GoodApp
  <2>2. DOMAIN app = {"cursor", "ack"}
    BY <2>1
  <2> QED BY <1>1, <2>2
<1> QED BY <1>2, <1>3 DEF AppNodes

\* Deliver: a message with the next number of its channel.
LEMMA DeliverGood ==
    ASSUME Acceptable, NEW n \in Nodes, NEW p \in Peers[n], NEW app, NEW rec, NEW snt,
           GoodApp(n, app, rec, snt), rec \in [Peers[n] -> Nat], NEW m, GoodPayload(p, n, m),
           m.sequence = rec[p] + 1, NEW rec2, rec2 = [rec EXCEPT ![p] = rec[p] + 1],
           NEW x, x = Deliver(n, app, p, m.payload)
    PROVE  GoodApp(n, x, rec2, snt) /\ (n \in AppNodes => x # Thrown)
<1>1. CASE n = Aggregator
  <2>1. p \in Inputs /\ n \notin Inputs /\ MaxSent[p][n] \in Nat
        /\ MaxSent[p][n] =< Len(Payloads[p])
    BY <1>1, AppNodeFacts
  <2>2. m.sequence =< MaxSent[p][n] /\ m.payload = Payloads[p][m.sequence]
    BY <1>1 DEF GoodPayload
  <2>3. Exact(app, rec)
    BY <1>1 DEF GoodApp
  <2>4. IsPrefix(rec)
    BY <2>3, ExactFacts
  <2>5. rec[p] \in Nat /\ Len(Payloads[p]) \in Nat
    BY <2>1, PrefixLen
  <2>6. rec[p] + 1 =< Len(Payloads[p])
    BY <2>1, <2>2, <2>5
  <2>7. Grows(rec, p, m.payload, rec2)
    BY <2>1, <2>2, <2>4, <2>6 DEF Grows
  <2>8. x = Apply(app, p, m.payload)
    BY <1>1 DEF Deliver
  <2>9. x # Thrown /\ Exact(x, rec2)
    BY <2>3, <2>7, <2>8, ApplyExact
  <2> QED BY <1>1, <2>1, <2>9 DEF GoodApp
<1>2. CASE n \in Inputs
  <2>1. p = Aggregator /\ n # Aggregator
    BY <1>2, AppNodeFacts
  <2>2. m.payload = "ack"
    BY <2>1 DEF GoodPayload
  <2>3. x = [app EXCEPT !.ack = TRUE]
    BY <2>1, <2>2 DEF Deliver
  <2>4. PICK a, b : app = [cursor |-> a, ack |-> b] /\ a = snt[Aggregator]
    BY <1>2 DEF GoodApp
  <2>5. x = [cursor |-> a, ack |-> TRUE]
    BY <2>3, <2>4
  <2>6. x.ack = TRUE
    BY <2>5
  <2>7. GoodApp(n, x, rec2, snt)
    BY <1>2, <2>1, <2>4, <2>5, <2>6 DEF GoodApp
  <2> QED BY <1>2, <2>7, NotThrown
<1>3. CASE n \notin AppNodes
  BY <1>3 DEF AppNodes, GoodApp
<1> QED BY <1>1, <1>2, <1>3 DEF AppNodes

\* RestoreApp
LEMMA RestoreAppGood ==
    ASSUME NEW n \in Nodes, NEW c, SnapShape(n, c), GoodCut(n, c),
           NEW x, x = RestoreApp(n, c.state)
    PROVE  GoodApp(n, x, c.received, c.sent)
<1>1. CASE n = Aggregator
  <2>1. PICK op : Exact(op, c.received) /\ c.state = CaptureOperator(op)
    BY <1>1 DEF GoodCut
  <2>2. x = RestoreOperator(CaptureOperator(op))
    BY <1>1, <2>1 DEF RestoreApp
  <2>3. x = op
    BY <2>1, <2>2, RoundTrip
  <2> QED BY <1>1, <2>1, <2>3, AppNodeFacts DEF GoodApp
<1>2. CASE n \in Inputs
  <2>1. /\ n # Aggregator /\ Aggregator \in Peers[n] /\ MaxSent[n][Aggregator] \in Nat
        /\ MaxSent[n][Aggregator] =< Len(Payloads[n])
    BY <1>2, AppNodeFacts
  <2>2. c.state = c.sent[Aggregator] /\ c.sent[Aggregator] =< MaxSent[n][Aggregator]
    BY <1>2, <2>1 DEF GoodCut
  <2>3. c.sent[Aggregator] \in Nat /\ Len(Payloads[n]) \in Nat
    BY <1>2, <2>1, PrefixLen DEF SnapShape
  <2>4. c.state =< Len(Payloads[n])
    BY <2>1, <2>2, <2>3
  <2>5. x = [cursor |-> c.state, ack |-> FALSE]
    BY <2>1, <2>4 DEF RestoreApp
  <2>6. x.ack = FALSE
    BY <2>5
  <2> QED BY <2>1, <2>2, <2>5, <2>6 DEF GoodApp
<1>3. CASE n \notin AppNodes
  BY <1>3 DEF AppNodes, GoodApp
<1> QED BY <1>1, <1>2, <1>3 DEF AppNodes

-----------------------------------------------------------------------------
(***************************************************************************)
(* The replay of a channel log                                             *)
(***************************************************************************)
Replays(f, n, c, k) ==
    f = [i \in 0..k |->
            IF i = 0 THEN RestoreApp(n, c.state)
            ELSE IF f[i - 1] = Thrown THEN Thrown
            ELSE Deliver(n, f[i - 1], c.channels[i].peer, c.channels[i].payload)]

\* Replayed is the last of such a function.
LEMMA ReplayedIsChosen ==
    ASSUME NEW n, NEW c, NEW k PROVE Replayed(n, c, k) = (CHOOSE f : Replays(f, n, c, k))[k]
  BY DEF Replayed, Replays

\* f starts with the state restored and goes on with one delivery per record.
Delivers(f, n, c, k) ==
    /\ f[0] = RestoreApp(n, c.state)
    /\ \A i \in 1..k : f[i - 1] # Thrown =>
          f[i] = Deliver(n, f[i - 1], c.channels[i].peer, c.channels[i].payload)

\* What it computes, step by step.
LEMMA ReplaysFacts ==
    ASSUME NEW n, NEW c, NEW k \in Nat, NEW f, Replays(f, n, c, k)
    PROVE  Delivers(f, n, c, k)
<1>1. \A i \in 0..k : f[i] = IF i = 0 THEN RestoreApp(n, c.state)
            ELSE IF f[i - 1] = Thrown THEN Thrown
            ELSE Deliver(n, f[i - 1], c.channels[i].peer, c.channels[i].payload)
  BY DEF Replays
<1>2. 0 \in 0..k /\ \A i \in 1..k : i \in 0..k /\ i # 0
  OBVIOUS
<1> QED BY <1>1, <1>2 DEF Delivers

\* There is one, for every length of the log.
LEMMA ReplaysExist == ASSUME NEW n, NEW c, NEW k \in Nat PROVE \E f : Replays(f, n, c, k)
<1> DEFINE T == {j \in Nat : ~ \E f : Replays(f, n, c, j)}
<1> SUFFICES ASSUME T # {} PROVE FALSE
  OBVIOUS
<1>1. PICK j \in T : \A y \in T : j =< y
  BY NatLeast
<1>2. j \in Nat /\ \A f : ~Replays(f, n, c, j)
  OBVIOUS
<1>3. PICK a : a = RestoreApp(n, c.state)
  OBVIOUS
<1>4. CASE j = 0
  <2>1. PICK f : f = [i \in 0..0 |-> a]
    OBVIOUS
  <2>2. \A i \in 0..0 : i = 0
    OBVIOUS
  <2>3. Replays(f, n, c, 0)
    BY <1>3, <2>1, <2>2 DEF Replays
  <2> QED BY <1>2, <1>4, <2>3
<1>5. CASE j # 0
  <2>1. PICK l : l = j - 1 /\ l \in Nat /\ j = l + 1
    BY <1>2, <1>5
  <2>2. l \notin T
    BY <1>1, <1>2, <2>1
  <2>3. PICK f : Replays(f, n, c, l)
    BY <2>1, <2>2
  <2>4. PICK z : z = IF f[l] = Thrown THEN Thrown
                     ELSE Deliver(n, f[l], c.channels[j].peer, c.channels[j].payload)
    OBVIOUS
  <2>5. PICK g : g = [i \in 0..j |-> IF i = j THEN z ELSE f[i]]
    OBVIOUS
  <2>6. g[j] = z /\ \A i \in 0..l : i \in 0..j /\ g[i] = f[i]
    BY <1>2, <2>1, <2>5
  <2>7. ASSUME NEW i \in 0..j
        PROVE  g[i] = IF i = 0 THEN a
                      ELSE IF g[i - 1] = Thrown THEN Thrown
                      ELSE Deliver(n, g[i - 1], c.channels[i].peer, c.channels[i].payload)
    <3>1. CASE i = j
      <4>1. i # 0 /\ i - 1 = l /\ l \in 0..l
        BY <1>5, <2>1, <3>1
      <4> QED BY <2>4, <2>6, <3>1, <4>1
    <3>2. CASE i # j
      <4>1. i \in 0..l /\ (i # 0 => i - 1 \in 0..l)
        BY <1>2, <2>1, <3>2
      <4>2. f[i] = IF i = 0 THEN a
                   ELSE IF f[i - 1] = Thrown THEN Thrown
                   ELSE Deliver(n, f[i - 1], c.channels[i].peer, c.channels[i].payload)
        BY <1>3, <2>3, <4>1 DEF Replays
      <4> QED BY <2>6, <4>1, <4>2
    <3> QED BY <3>1, <3>2
  <2>8. g = [i \in 0..j |-> g[i]]
    BY <2>5
  <2>9. Replays(g, n, c, j)
    BY <1>3, <2>7, <2>8 DEF Replays
  <2> QED BY <1>2, <2>9
<1> QED BY <1>4, <1>5

\* What n had received once the first i records of the log of c are delivered.
ReceivedAt(n, c, i) == [p \in Peers[n] |-> c.received[p] + LogFrom(c, p, i)]

\* A record of the log has the next number of its channel.
LEMMA ReceivedAtStep ==
    ASSUME NEW n, NEW c, SnapShape(n, c), ContiguousLog(c), NEW i \in Nat,
           i + 1 \in 1..Len(c.channels), NEW r, r = c.channels[i + 1], NEW p, p = r.peer,
           p \in Peers[n], NEW rec, rec = ReceivedAt(n, c, i)
    PROVE  /\ rec \in [Peers[n] -> Nat] /\ r.sequence = rec[p] + 1
           /\ ReceivedAt(n, c, i + 1) = [rec EXCEPT ![p] = rec[p] + 1]
<1>1. c.received \in [Peers[n] -> Nat] /\ IsSeq(c.channels)
  BY DEF SnapShape
<1>2. \A q : /\ LogFrom(c, q, i) \in Nat
             /\ LogFrom(c, q, i + 1) = LogFrom(c, q, i) + (IF p = q THEN 1 ELSE 0)
  BY LogGrows
<1>3. \A q \in Peers[n] : c.received[q] \in Nat /\ rec[q] = c.received[q] + LogFrom(c, q, i)
  BY <1>1 DEF ReceivedAt
<1>4. rec \in [Peers[n] -> Nat]
  <2>1. \A q \in Peers[n] : c.received[q] + LogFrom(c, q, i) \in Nat
    BY <1>2, <1>3
  <2> QED BY <2>1 DEF ReceivedAt
<1>5. r.sequence = c.received[p] + LogFrom(c, p, i + 1)
  BY <1>1, DomainAny DEF ContiguousLog
<1>6. r.sequence = rec[p] + 1
  <2>1. LogFrom(c, p, i + 1) = LogFrom(c, p, i) + 1
    BY <1>2
  <2>2. PICK a \in Nat, b \in Nat : a = c.received[p] /\ b = LogFrom(c, p, i)
    BY <1>2, <1>3
  <2>3. rec[p] = a + b /\ r.sequence = a + (b + 1)
    BY <1>3, <1>5, <2>1, <2>2
  <2> QED BY <2>3
<1>7. PICK rec2 : rec2 = ReceivedAt(n, c, i + 1)
  OBVIOUS
<1>8. ASSUME NEW q \in Peers[n] PROVE rec2[q] = IF q = p THEN rec[p] + 1 ELSE rec[q]
  <2>1. rec2[q] = c.received[q] + LogFrom(c, q, i + 1)
    BY <1>7 DEF ReceivedAt
  <2>2. CASE q = p
    <3>1. LogFrom(c, p, i + 1) = LogFrom(c, p, i) + 1
      BY <1>2
    <3>2. PICK a \in Nat, b \in Nat : a = c.received[p] /\ b = LogFrom(c, p, i)
      BY <1>2, <1>3
    <3>3. rec[p] = a + b /\ rec2[q] = a + (b + 1)
      BY <1>3, <2>1, <2>2, <3>1, <3>2
    <3> QED BY <2>2, <3>3
  <2>3. CASE q # p
    <3>1. LogFrom(c, q, i + 1) = LogFrom(c, q, i)
      BY <1>2, <2>3
    <3> QED BY <1>3, <2>1, <2>3, <3>1
  <2> QED BY <2>2, <2>3
<1>9. rec2 = [q \in Peers[n] |-> rec2[q]]
  BY <1>7 DEF ReceivedAt
<1>10. rec2 = [rec EXCEPT ![p] = rec[p] + 1]
  BY <1>4, <1>8, <1>9
<1> QED BY <1>4, <1>6, <1>7, <1>10

\* The replay delivers what was in flight, and nothing else.
LEMMA ReplayGood ==
    ASSUME Acceptable, NEW n \in Nodes, NEW c, SnapShape(n, c), ContiguousLog(c), GoodCut(n, c),
           NEW k, k = Len(c.channels)
    PROVE  n \in AppNodes => GoodApp(n, Replayed(n, c, k), ReceivedAt(n, c, k), c.sent)
<1> SUFFICES ASSUME n \in AppNodes
             PROVE  GoodApp(n, Replayed(n, c, k), ReceivedAt(n, c, k), c.sent)
  OBVIOUS
<1>1. k \in Nat /\ IsSeq(c.channels) /\ c.received \in [Peers[n] -> Nat]
  BY DomainAny DEF SnapShape
<1>2. PICK f : f = CHOOSE g : Replays(g, n, c, k)
  OBVIOUS
<1>3. Replays(f, n, c, k) /\ Replayed(n, c, k) = f[k]
  <2>1. \E g : Replays(g, n, c, k)
    BY <1>1, ReplaysExist
  <2>2. Replays(f, n, c, k)
    BY <1>2, <2>1
  <2>3. Replayed(n, c, k) = (CHOOSE g : Replays(g, n, c, k))[k]
    BY ReplayedIsChosen
  <2> QED BY <1>2, <2>2, <2>3
<1> HIDE <1>2
<1>4. /\ f[0] = RestoreApp(n, c.state)
      /\ \A i \in 1..k : f[i - 1] # Thrown =>
             f[i] = Deliver(n, f[i - 1], c.channels[i].peer, c.channels[i].payload)
  <2>1. Delivers(f, n, c, k)
    BY <1>1, <1>3, ReplaysFacts
  <2> QED BY <2>1 DEF Delivers
<1> DEFINE Good(i) == GoodApp(n, f[i], ReceivedAt(n, c, i), c.sent)
           T == {i \in 0..k : ~Good(i)}
<1>5. Good(0)
  <2>1. \A p : LogFrom(c, p, 0) = 0
    BY LogGrows
  <2>2. \A p \in Peers[n] : c.received[p] + LogFrom(c, p, 0) = c.received[p]
    BY <1>1, <2>1
  <2>3. c.received = [p \in Peers[n] |-> c.received[p]]
    BY <1>1
  <2>4. ReceivedAt(n, c, 0) = c.received
    BY <2>2, <2>3 DEF ReceivedAt
  <2>5. GoodApp(n, f[0], c.received, c.sent)
    BY <1>4, RestoreAppGood
  <2> QED BY <2>4, <2>5
<1>6. ASSUME NEW i \in Nat, i + 1 \in 1..k, Good(i) PROVE Good(i + 1)
  <2>1. PICK r, p, rec, rec2, x, y :
            /\ r = c.channels[i + 1] /\ p = r.peer /\ rec = ReceivedAt(n, c, i)
            /\ rec2 = ReceivedAt(n, c, i + 1) /\ x = f[i] /\ y = f[i + 1]
    OBVIOUS
  <2>2. p \in Peers[n] /\ GoodPayload(p, n, r)
    BY <1>6, <2>1 DEF GoodCut
  <2>3. /\ rec \in [Peers[n] -> Nat] /\ r.sequence = rec[p] + 1
        /\ rec2 = [rec EXCEPT ![p] = rec[p] + 1]
    BY <1>6, <2>1, <2>2, ReceivedAtStep
  <2>4. GoodApp(n, x, rec, c.sent)
    BY <1>6, <2>1
  <2>5. x # Thrown
    BY <2>4, NotThrown
  <2>6. (i + 1) - 1 = i
    OBVIOUS
  <2>7. y = Deliver(n, x, p, r.payload)
    BY <1>4, <1>6, <2>1, <2>5, <2>6
  <2>8. GoodApp(n, y, rec2, c.sent)
    BY <2>2, <2>3, <2>4, <2>7, DeliverGood
  <2> QED BY <2>1, <2>8
<1> HIDE DEF Good
<1>7. T = {}
  <2> SUFFICES ASSUME T # {} PROVE FALSE
    OBVIOUS
  <2>1. T \subseteq Nat
    OBVIOUS
  <2>2. PICK j \in T : \A y \in T : j =< y
    <3> HIDE DEF T
    <3> QED BY <2>1, NatLeast
  <2>3. j \in 0..k /\ ~Good(j) /\ j # 0
    BY <1>5, <2>2
  <2>4. PICK i : i \in Nat /\ j = i + 1
    <3>1. j \in Nat /\ j # 0
      BY <1>1, <2>1, <2>3
    <3>2. j - 1 \in Nat /\ j = (j - 1) + 1
      BY <3>1
    <3> QED BY <3>2
  <2>5. i \notin T /\ i \in 0..k /\ i + 1 \in 1..k
    BY <1>1, <2>1, <2>2, <2>3, <2>4
  <2>6. Good(i)
    BY <2>5
  <2>7. Good(i + 1)
    BY <1>6, <2>4, <2>5, <2>6
  <2> QED BY <2>3, <2>4, <2>7
<1>8. Good(k)
  BY <1>1, <1>7
<1> QED BY <1>3, <1>8 DEF Good

-----------------------------------------------------------------------------
(***************************************************************************)
(* The invariant.  A node that takes messages has a good application; its  *)
(* open, completed and saved cuts are good; what is under way is good.     *)
(***************************************************************************)
GoodNode(n, s) ==
    /\ s.active # None => GoodCut(n, s.active)
    /\ s.completed # None => GoodCut(n, s.completed)
    /\ \A p \in Peers[n] : s.sent[p] =< MaxSent[n][p]
    /\ s.failed = "no" => GoodApp(n, s.app, s.received, s.sent)
    /\ s.failed \in {"no", "limit", "application", "protocol"}
    /\ n \in AppNodes => s.failed # "application"

GoodQueue(p, n, q) ==
    IsSeq(q) /\ \A i \in 1..Len(q) : q[i].kind = "data" => GoodPayload(p, n, q[i])

GoodChannels(ch, live) ==
    \A n \in Nodes : n \in live => \A p \in Peers[n] : GoodQueue(p, n, ch[p][n])

GoodStore == \A e \in Epochs : \A n \in Nodes : saved[e][n] # None => GoodCut(n, saved[e][n])

AppInv == /\ \A n \in Nodes : GoodNode(n, node[n])
          /\ GoodStore /\ GoodChannels(chan, LiveSet)

\* A process that has not started, and one that starts from nothing.
LEMMA FreshGood ==
    ASSUME NEW n \in Nodes, NEW s, s.active = None, s.completed = None, s.failed = "no",
           s.app = FreshApp(n), s.received = Zero(n), s.sent = Zero(n)
    PROVE  GoodNode(n, s)
<1>1. \A p \in Peers[n] : s.sent[p] =< MaxSent[n][p]
  <2>1. MaxSent[n] \in [Peers[n] -> Nat]
    BY TopologyAssumption
  <2> QED BY <2>1 DEF Zero
<1>2. GoodApp(n, s.app, s.received, s.sent)
  <2>1. CASE n = Aggregator
    <3>1. s.received = [p \in Inputs |-> 0] /\ n \notin Inputs
      BY <2>1, AppNodeFacts DEF Zero
    <3>2. Exact(FreshOperator, s.received)
      BY <3>1, FreshExact
    <3> QED BY <2>1, <3>1, <3>2 DEF GoodApp, FreshApp
  <2>2. CASE n \in Inputs
    <3>1. n # Aggregator /\ Aggregator \in Peers[n]
      BY <2>2, AppNodeFacts
    <3>2. s.sent[Aggregator] = 0
      BY <3>1 DEF Zero
    <3>3. s.app = [cursor |-> 0, ack |-> FALSE]
      BY <3>1 DEF FreshApp
    <3>4. s.app.ack = FALSE
      BY <3>3
    <3> QED BY <3>1, <3>2, <3>3, <3>4 DEF GoodApp
  <2>3. CASE n \notin AppNodes
    BY <2>3 DEF AppNodes, GoodApp
  <2> QED BY <2>1, <2>2, <2>3 DEF AppNodes
<1> QED BY <1>1, <1>2 DEF GoodNode

\* What a validated snapshot of the store restores to.
LEMMA RestoreGood ==
    ASSUME Acceptable, NEW n \in Nodes, NEW c, SnapShape(n, c), ContiguousLog(c), GoodCut(n, c),
           \A p \in Peers[n] : DOMAIN c.markers = Peers[n] /\ c.markers[p] = Frontier(c, p)
    PROVE  /\ GoodNode(n, RestoreSnapshot(n, c))
           /\ n \in AppNodes => RestoreSnapshot(n, c).failed = "no"
<1>1. PICK k : k = Len(c.channels)
  OBVIOUS
<1>2. PICK app : app = Replayed(n, c, k)
  OBVIOUS
<1>3. PICK rec : rec = ReceivedAt(n, c, k)
  OBVIOUS
<1>4. n \in AppNodes => GoodApp(n, app, rec, c.sent)
  BY <1>1, <1>2, <1>3, ReplayGood
<1>5. n \in AppNodes => app # Thrown
  BY <1>4, NotThrown
<1>6. PICK f : f = IF app = Thrown THEN "application"
                   ELSE IF /\ ContiguousLog(c)
                           /\ c.markers = [p \in Peers[n] |-> Frontier(c, p)]
                        THEN "no" ELSE "protocol"
  OBVIOUS
<1>7. PICK r : r = RestoreSnapshot(n, c)
  OBVIOUS
<1>8. PICK fr : fr = FreshNode(n)
  OBVIOUS
<1>9. DOMAIN fr = {"up", "failed", "received", "sent", "app", "active", "completed",
                   "marked", "last_epoch"}
      /\ fr.active = None /\ fr.completed = None
  BY <1>8 DEF FreshNode
<1>10. r = [fr EXCEPT !.up = TRUE, !.sent = c.sent, !.last_epoch = c.epoch,
                      !.received = rec, !.app = app, !.failed = f]
  BY <1>1, <1>2, <1>3, <1>6, <1>7, <1>8 DEF RestoreSnapshot, RestoredFrom, ReceivedAt
<1>11. /\ r.failed = f /\ r.received = rec /\ r.sent = c.sent /\ r.app = app
       /\ r.active = None /\ r.completed = None
  BY <1>9, <1>10
<1>12. r.failed # "protocol"
  BY <1>7, RestoreShape DEF IsNode
<1>13. n \in AppNodes => r.failed = "no"
  BY <1>5, <1>6, <1>11, <1>12
<1>14. GoodApp(n, app, rec, c.sent)
  BY <1>4 DEF AppNodes, GoodApp
<1>15. \A p \in Peers[n] : c.sent[p] =< MaxSent[n][p]
  BY DEF GoodCut
<1>16. f \in {"no", "limit", "application", "protocol"}
  BY <1>6
<1>17. GoodNode(n, r)
  BY <1>11, <1>13, <1>14, <1>15, <1>16 DEF GoodNode
<1> QED BY <1>7, <1>13, <1>17

\* RestoredNode: what a process that starts becomes.
LEMMA RestoredGood ==
    ASSUME Acceptable, StoreOK, GoodStore, NEW n \in Nodes
    PROVE  GoodNode(n, RestoredNode(n)) /\ (n \in AppNodes => RestoredNode(n).failed = "no")
<1>1. CASE restored = 0
  <2>1. PICK r, fr : r = RestoredNode(n) /\ fr = FreshNode(n)
    OBVIOUS
  <2>2. /\ DOMAIN fr = {"up", "failed", "received", "sent", "app", "active", "completed",
                        "marked", "last_epoch"}
        /\ fr.failed = "no" /\ fr.received = Zero(n) /\ fr.sent = Zero(n)
        /\ fr.app = FreshApp(n) /\ fr.active = None /\ fr.completed = None
    BY <2>1 DEF FreshNode
  <2>3. r = [fr EXCEPT !.up = TRUE]
    BY <1>1, <2>1 DEF RestoredNode
  <2>4. /\ r.failed = fr.failed /\ r.received = fr.received /\ r.sent = fr.sent
        /\ r.app = fr.app /\ r.active = fr.active /\ r.completed = fr.completed
    BY <2>2, <2>3
  <2>5. GoodNode(n, r)
    BY <2>2, <2>4, FreshGood
  <2> QED BY <2>1, <2>2, <2>4, <2>5
<1>2. CASE restored # 0
  <2>1. restored \in committed /\ restored \in Epochs
        /\ AllSaved(restored) /\ ValidateGlobal(saved[restored])
    BY <1>2 DEF StoreOK
  <2>2. PICK c : c = saved[restored][n]
    OBVIOUS
  <2>3. SnapShape(n, c)
    BY <2>1, <2>2 DEF StoreOK, AllSaved
  <2>4. ContiguousLog(c) /\ \A p \in Peers[n] : DOMAIN c.markers = Peers[n]
                                                /\ c.markers[p] = Frontier(c, p)
    BY <2>1, <2>2 DEF ValidateGlobal
  <2>5. RestoredNode(n) = RestoreSnapshot(n, c)
    BY <1>2, <2>2 DEF RestoredNode
  <2>6. GoodCut(n, c)
    BY <2>1, <2>2 DEF GoodStore, AllSaved
  <2>7. /\ GoodNode(n, RestoreSnapshot(n, c))
        /\ n \in AppNodes => RestoreSnapshot(n, c).failed = "no"
    BY <2>3, <2>4, <2>6, RestoreGood
  <2> QED BY <2>5, <2>7
<1> QED BY <1>1, <1>2

-----------------------------------------------------------------------------
(***************************************************************************)
(* The steps of a node                                                     *)
(***************************************************************************)
\* The fields of GoodNode that a step leaves alone.
LEMMA GoodFrame ==
    ASSUME NEW n, NEW s, NEW s2, GoodNode(n, s), s2.sent = s.sent, s2.received = s.received,
           s2.app = s.app, s2.failed = s.failed,
           s2.active # None => GoodCut(n, s2.active),
           s2.completed # None => GoodCut(n, s2.completed)
    PROVE  GoodNode(n, s2)
  BY DEF GoodNode

\* A cut that differs in its markers only.
LEMMA CutGood ==
    ASSUME NEW n, NEW c, NEW c2, GoodCut(n, c), c2.state = c.state, c2.received = c.received,
           c2.sent = c.sent, c2.channels = c.channels
    PROVE  GoodCut(n, c2)
  BY DEF GoodCut

\* Poison leaves the rest of a node alone.
LEMMA GoodPoison ==
    ASSUME NEW n, NEW s, IsNode(n, s), GoodNode(n, s),
           NEW why \in {"limit", "application", "protocol"},
           n \in AppNodes => why # "application", NEW s2, s2 = [s EXCEPT !.failed = why]
    PROVE  GoodNode(n, s2)
<1>1. DOMAIN s = {"up", "failed", "received", "sent", "app", "active", "completed",
                  "marked", "last_epoch"}
  BY DEF IsNode
<1>2. /\ s2.failed = why /\ s2.sent = s.sent /\ s2.active = s.active
      /\ s2.completed = s.completed
  BY <1>1
<1> QED BY <1>2 DEF GoodNode

\* TakeCompleted
LEMMA GoodSaved ==
    ASSUME NEW n, NEW s, IsNode(n, s), GoodNode(n, s), NEW s2, s2 = [s EXCEPT !.completed = None]
    PROVE  GoodNode(n, s2)
<1>1. DOMAIN s = {"up", "failed", "received", "sent", "app", "active", "completed",
                  "marked", "last_epoch"}
  BY DEF IsNode
<1>2. /\ s2.failed = s.failed /\ s2.sent = s.sent /\ s2.active = s.active /\ s2.app = s.app
      /\ s2.received = s.received /\ s2.completed = None
  BY <1>1
<1>3. s2.active # None => GoodCut(n, s2.active)
  BY <1>2 DEF GoodNode
<1> QED BY <1>2, <1>3, GoodFrame

\* Send: the message is the next of the sender's cursor.
LEMMA GoodSend ==
    ASSUME NEW n \in Nodes, NEW p \in Peers[n], NEW s, IsNode(n, s), GoodNode(n, s),
           s.failed = "no", s.sent[p] < MaxSent[n][p], NEW m, NEW s2,
           m = DataMessage(s.sent[p] + 1, Payload(n, s.app)),
           s2 = [s EXCEPT !.sent[p] = s.sent[p] + 1, !.app = AfterSend(n, s.app)]
    PROVE  GoodNode(n, s2) /\ GoodPayload(n, p, m)
<1>1. DOMAIN s = {"up", "failed", "received", "sent", "app", "active", "completed",
                  "marked", "last_epoch"} /\ s.sent \in [Peers[n] -> Nat]
  BY DEF IsNode
<1>2. PICK x, k : x = AfterSend(n, s.app) /\ k = s.sent[p] /\ k \in Nat
  BY <1>1
<1>3. /\ s2.sent = [s.sent EXCEPT ![p] = k + 1] /\ s2.app = x /\ s2.failed = s.failed
      /\ s2.received = s.received /\ s2.active = s.active /\ s2.completed = s.completed
  BY <1>1, <1>2
<1>4. m.sequence = k + 1 /\ m.payload = Payload(n, s.app)
  BY <1>2 DEF DataMessage
<1>5. MaxSent[n][p] \in Nat /\ p \in Nodes /\ n \in Peers[p]
  BY TopologyAssumption
<1>6. k + 1 =< MaxSent[n][p]
  BY <1>2, <1>5
<1>7. \A q \in Peers[n] : s2.sent[q] =< MaxSent[n][q]
  <2> SUFFICES ASSUME NEW q \in Peers[n] PROVE s2.sent[q] =< MaxSent[n][q]
    OBVIOUS
  <2>1. CASE q = p
    BY <1>1, <1>3, <1>6, <2>1
  <2>2. CASE q # p
    BY <1>1, <1>3, <2>2 DEF GoodNode
  <2> QED BY <2>1, <2>2
<1>8. GoodApp(n, s.app, s.received, s.sent)
  BY DEF GoodNode
<1>9. CASE n = Aggregator
  <2>1. n \notin Inputs /\ p # n /\ x = s.app /\ m.payload = "ack"
    BY <1>2, <1>4, <1>9, AppNodeFacts, TopologyAssumption DEF AfterSend, Payload
  <2>2. GoodApp(n, s2.app, s2.received, s2.sent)
    BY <1>3, <1>8, <1>9, <2>1 DEF GoodApp
  <2>3. GoodPayload(n, p, m)
    BY <1>9, <2>1 DEF GoodPayload
  <2> QED BY <1>3, <1>7, <2>2, <2>3 DEF GoodNode
<1>10. CASE n \in Inputs
  <2>1. p = Aggregator /\ n # Aggregator
    BY <1>10, AppNodeFacts
  <2>2. PICK b : s.app = [cursor |-> k, ack |-> b]
    BY <1>2, <1>8, <1>10, <2>1 DEF GoodApp
  <2>3. s.app.cursor = k
    BY <2>2
  <2>4. m.payload = Payloads[n][k + 1]
    BY <1>4, <2>1, <2>3 DEF Payload
  <2>5. x = [s.app EXCEPT !.cursor = k + 1]
    BY <1>2, <2>1, <2>3 DEF AfterSend
  <2>6. x = [cursor |-> k + 1, ack |-> b]
    BY <2>2, <2>5
  <2>7. x.ack = b
    BY <2>6
  <2>8. s2.sent[Aggregator] = k + 1
    BY <1>1, <1>3, <2>1
  <2>9. GoodApp(n, s2.app, s2.received, s2.sent)
    BY <1>3, <2>1, <2>6, <2>7, <2>8 DEF GoodApp
  <2>10. GoodPayload(n, p, m)
    BY <1>4, <1>6, <2>1, <2>4 DEF GoodPayload
  <2> QED BY <1>3, <1>7, <2>9, <2>10 DEF GoodNode
<1>11. CASE n \notin AppNodes
  <2>1. p # Aggregator /\ n # Aggregator
    BY <1>5, <1>11, AppNodeFacts DEF AppNodes
  <2>2. GoodPayload(n, p, m) /\ GoodApp(n, s2.app, s2.received, s2.sent)
    BY <1>11, <2>1 DEF GoodPayload, GoodApp, AppNodes
  <2> QED BY <1>3, <1>7, <1>11, <2>2 DEF GoodNode
<1> QED BY <1>9, <1>10, <1>11 DEF AppNodes

\* A message in the log of an open cut.
LEMMA GoodLogged ==
    ASSUME NEW n, NEW s, NEW s1, NEW r, Logged(s, s1, r), IsNode(n, s), SnapShape(n, s.active),
           GoodNode(n, s), GoodPayload(r.peer, n, r), r.peer \in Peers[n]
    PROVE  GoodNode(n, s1) /\ s1.app = s.app
<1>1. PICK c, c1, g : c = s.active /\ c1 = s1.active /\ g = Append(c.channels, r)
  OBVIOUS
<1>2. s1 = [s EXCEPT !.active.channels = g]
  BY <1>1 DEF Logged
<1>3. DOMAIN s = {"up", "failed", "received", "sent", "app", "active", "completed",
                  "marked", "last_epoch"}
  BY DEF IsNode
<1>4. DOMAIN c = {"epoch", "state", "received", "sent", "markers", "channels"}
      /\ IsSeq(c.channels)
  BY <1>1 DEF SnapShape
<1>5. /\ Len(c.channels) \in Nat /\ Len(g) = Len(c.channels) + 1
      /\ \A i \in 1..Len(c.channels) : g[i] = c.channels[i]
      /\ g[Len(c.channels) + 1] = r
  BY <1>1, <1>4, AppendAny
<1> HIDE <1>1
<1>6. /\ s1.active = [c EXCEPT !.channels = g]
      /\ s1.failed = s.failed /\ s1.received = s.received /\ s1.sent = s.sent
      /\ s1.app = s.app /\ s1.completed = s.completed
  BY <1>1, <1>2, <1>3
<1>7. c1.state = c.state /\ c1.received = c.received /\ c1.sent = c.sent /\ c1.channels = g
  BY <1>1, <1>4, <1>6
<1>8. GoodCut(n, c)
  BY <1>1, SnapNotNone DEF GoodNode
<1>9. ASSUME NEW i \in 1..Len(g) PROVE g[i].peer \in Peers[n] /\ GoodPayload(g[i].peer, n, g[i])
  <2>1. CASE i = Len(c.channels) + 1
    BY <1>5, <2>1
  <2>2. CASE i # Len(c.channels) + 1
    <3>1. i \in 1..Len(c.channels)
      BY <1>5, <2>2
    <3> QED BY <1>5, <1>8, <3>1 DEF GoodCut
  <2> QED BY <2>1, <2>2
<1>10. GoodCut(n, c1)
  BY <1>7, <1>8, <1>9 DEF GoodCut
<1>11. s1.completed # None => GoodCut(n, s1.completed)
  BY <1>6 DEF GoodNode
<1> QED BY <1>1, <1>6, <1>10, <1>11, GoodFrame

\* A message delivered.
LEMMA GoodTaken ==
    ASSUME Acceptable, NEW n \in Nodes, NEW p \in Peers[n], NEW s, IsNode(n, s), GoodNode(n, s),
           s.failed = "no", NEW m, GoodPayload(p, n, m), m.sequence = s.received[p] + 1,
           NEW x, x = Deliver(n, s.app, p, m.payload),
           NEW s2, s2 = Taken(s, p, m.sequence, x)
    PROVE  GoodNode(n, s2) /\ (n \in AppNodes => x # Thrown)
<1>1. DOMAIN s = {"up", "failed", "received", "sent", "app", "active", "completed",
                  "marked", "last_epoch"} /\ s.received \in [Peers[n] -> Nat]
  BY DEF IsNode
<1>2. PICK rec, rec2 : rec = s.received /\ rec2 = [rec EXCEPT ![p] = rec[p] + 1]
  OBVIOUS
<1>3. /\ s2.received = rec2 /\ s2.app = x /\ s2.failed = s.failed /\ s2.sent = s.sent
      /\ s2.active = s.active /\ s2.completed = s.completed
  BY <1>1, <1>2 DEF Taken
<1>4. GoodApp(n, s.app, rec, s.sent)
  BY <1>2 DEF GoodNode
<1>5. GoodApp(n, x, rec2, s.sent) /\ (n \in AppNodes => x # Thrown)
  BY <1>1, <1>2, <1>4, DeliverGood
<1> QED BY <1>3, <1>5 DEF GoodNode

\* A cut taken.
LEMMA GoodStart ==
    ASSUME NEW n \in Nodes, NEW s, IsNode(n, s), GoodNode(n, s), s.failed = "no", NEW e,
           NEW s1, s1 = Start(n, s, e)
    PROVE  GoodNode(n, s1)
<1>1. DOMAIN s = {"up", "failed", "received", "sent", "app", "active", "completed",
                  "marked", "last_epoch"}
  BY DEF IsNode
<1>2. PICK c, z, st : /\ z = << >> /\ st = Capture(n, s.app)
                      /\ c = [epoch |-> e, state |-> st, received |-> s.received,
                              sent |-> s.sent, markers |-> z, channels |-> z]
  OBVIOUS
<1>3. Len(z) = 0
  BY <1>2
<1>4. s1 = [s EXCEPT !.active = c, !.marked = {}]
  BY <1>2 DEF Start
<1> HIDE <1>2
<1>5. c.state = st /\ c.received = s.received /\ c.sent = s.sent /\ c.channels = z
  BY <1>2
<1>6. /\ s1.active = c /\ s1.failed = s.failed /\ s1.received = s.received /\ s1.sent = s.sent
      /\ s1.app = s.app /\ s1.completed = s.completed
  BY <1>1, <1>4
<1>7. GoodApp(n, s.app, s.received, s.sent) /\ \A p \in Peers[n] : s.sent[p] =< MaxSent[n][p]
  BY DEF GoodNode
<1>8. n = Aggregator => \E op : Exact(op, c.received) /\ c.state = CaptureOperator(op)
  <2> HAVE n = Aggregator
  <2>1. Exact(s.app, s.received) /\ st = CaptureOperator(s.app)
    BY <1>2, <1>7 DEF GoodApp, Capture
  <2> QED BY <1>5, <2>1
<1>9. n \in Inputs => c.state = c.sent[Aggregator]
  <2> HAVE n \in Inputs
  <2>1. n # Aggregator
    BY AppNodeFacts
  <2>2. PICK b : s.app = [cursor |-> s.sent[Aggregator], ack |-> b]
    BY <1>7 DEF GoodApp
  <2>3. s.app.cursor = s.sent[Aggregator]
    BY <2>2
  <2>4. st = s.app.cursor
    BY <1>2, <2>1 DEF Capture
  <2> QED BY <1>5, <2>3, <2>4
<1>10. \A i \in 1..Len(c.channels) : FALSE
  BY <1>3, <1>5
<1>11. GoodCut(n, c)
  BY <1>5, <1>7, <1>8, <1>9, <1>10 DEF GoodCut
<1>12. s1.completed # None => GoodCut(n, s1.completed)
  BY <1>6 DEF GoodNode
<1> QED BY <1>6, <1>11, <1>12, GoodFrame

\* FinishIfReady
LEMMA GoodFinish ==
    ASSUME NEW n, NEW s, NEW s2, s2 = FinishIfReady(n, s), IsNode(n, s), GoodNode(n, s)
    PROVE  GoodNode(n, s2)
<1>1. CASE s.active # None /\ s.marked = Peers[n]
  <2>1. DOMAIN s = {"up", "failed", "received", "sent", "app", "active", "completed",
                    "marked", "last_epoch"}
    BY DEF IsNode
  <2>2. s2 = [s EXCEPT !.completed = s.active, !.active = None, !.last_epoch = s.active.epoch]
    BY <1>1 DEF FinishIfReady
  <2>3. /\ s2.failed = s.failed /\ s2.received = s.received /\ s2.sent = s.sent
        /\ s2.app = s.app /\ s2.active = None /\ s2.completed = s.active
    BY <2>1, <2>2
  <2>4. s2.completed # None => GoodCut(n, s2.completed)
    BY <2>3 DEF GoodNode
  <2> QED BY <2>3, <2>4, GoodFrame
<1>2. CASE ~(s.active # None /\ s.marked = Peers[n])
  <2>1. s2 = s
    BY <1>2 DEF FinishIfReady
  <2> QED BY <2>1
<1> QED BY <1>1, <1>2

\* A marker counted.
LEMMA GoodMarked ==
    ASSUME NEW n, NEW p \in Peers[n], NEW m, NEW s, IsNode(n, s), SnapShape(n, s.active),
           GoodNode(n, s), NEW s2, s2 = Marked(p, n, m, s)
    PROVE  GoodNode(n, s2)
<1>1. PICK s1 : s1 = WithMarker(p, m, s)
  OBVIOUS
<1>2. IsNode(n, s1)
  BY <1>1, WithMarkerShape
<1>3. s2 = FinishIfReady(n, s1)
  BY <1>1 DEF Marked, WithMarker
<1>4. PICK c, g, c1, mk : /\ c = s.active /\ c1 = s1.active /\ mk = s.marked \cup {p}
                          /\ g = [q \in {p} \cup DOMAIN c.markers |->
                                     IF q = p THEN m.sequence ELSE c.markers[q]]
  OBVIOUS
<1>5. DOMAIN s = {"up", "failed", "received", "sent", "app", "active", "completed",
                  "marked", "last_epoch"}
  BY DEF IsNode
<1>6. DOMAIN c = {"epoch", "state", "received", "sent", "markers", "channels"}
  BY <1>4 DEF SnapShape
<1>7. s1 = [s EXCEPT !.marked = mk, !.active.markers = g]
  BY <1>1, <1>4 DEF WithMarker
<1>8. /\ s1.failed = s.failed /\ s1.received = s.received /\ s1.sent = s.sent
      /\ s1.app = s.app /\ s1.active = [c EXCEPT !.markers = g] /\ s1.completed = s.completed
  BY <1>4, <1>5, <1>7
<1>9. /\ c1.state = c.state /\ c1.received = c.received /\ c1.sent = c.sent
      /\ c1.channels = c.channels
  BY <1>4, <1>6, <1>8
<1>10. GoodCut(n, c)
  BY <1>4, SnapNotNone DEF GoodNode
<1>11. GoodCut(n, c1)
  BY <1>9, <1>10, CutGood
<1>12. s1.completed # None => GoodCut(n, s1.completed)
  BY <1>8 DEF GoodNode
<1>13. GoodNode(n, s1)
  BY <1>4, <1>8, <1>11, <1>12, GoodFrame
<1> QED BY <1>2, <1>3, <1>13, GoodFinish

-----------------------------------------------------------------------------
(***************************************************************************)
(* The steps of a channel                                                  *)
(***************************************************************************)
\* A message behind a channel.
LEMMA QueueAppend ==
    ASSUME NEW p, NEW n, NEW q, GoodQueue(p, n, q), NEW m, m.kind = "data" => GoodPayload(p, n, m)
    PROVE  GoodQueue(p, n, Append(q, m))
<1>1. IsSeq(q) /\ \A i \in 1..Len(q) : q[i].kind = "data" => GoodPayload(p, n, q[i])
  BY DEF GoodQueue
<1>2. PICK q2 : q2 = Append(q, m)
  OBVIOUS
<1>3. /\ IsSeq(q2) /\ Len(q) \in Nat /\ Len(q2) = Len(q) + 1
      /\ \A i \in 1..Len(q) : q2[i] = q[i]
      /\ q2[Len(q) + 1] = m
  BY <1>1, <1>2, AppendAny
<1>4. ASSUME NEW i \in 1..Len(q2), q2[i].kind = "data" PROVE GoodPayload(p, n, q2[i])
  <2>1. CASE i = Len(q) + 1
    BY <1>3, <1>4, <2>1
  <2>2. CASE i # Len(q) + 1
    <3>1. i \in 1..Len(q)
      BY <1>3, <2>2
    <3> QED BY <1>1, <1>3, <1>4, <3>1
  <2> QED BY <2>1, <2>2
<1> QED BY <1>2, <1>3, <1>4 DEF GoodQueue

\* The front of a channel taken.
LEMMA QueueTail ==
    ASSUME NEW p, NEW n, NEW q, GoodQueue(p, n, q), q # << >>
    PROVE  /\ GoodQueue(p, n, Tail(q)) /\ Head(q) = q[1]
           /\ q[1].kind = "data" => GoodPayload(p, n, q[1])
<1>1. IsSeq(q) /\ \A i \in 1..Len(q) : q[i].kind = "data" => GoodPayload(p, n, q[i])
  BY DEF GoodQueue
<1>2. PICK q2 : q2 = Tail(q)
  OBVIOUS
<1>3. /\ IsSeq(q2) /\ Len(q) \in Nat \ {0} /\ Len(q2) = Len(q) - 1
      /\ \A i \in 1..(Len(q) - 1) : q2[i] = q[i + 1]
      /\ Head(q) = q[1]
  BY <1>1, <1>2, TailAny
<1>4. ASSUME NEW i \in 1..Len(q2), q2[i].kind = "data" PROVE GoodPayload(p, n, q2[i])
  <2>1. i \in 1..(Len(q) - 1) /\ i + 1 \in 1..Len(q)
    BY <1>3
  <2> QED BY <1>1, <1>3, <1>4, <2>1
<1>5. 1 \in 1..Len(q)
  BY <1>3
<1> QED BY <1>1, <1>2, <1>3, <1>4, <1>5 DEF GoodQueue

\* PollOnce
LEMMA ChannelsPoll ==
    ASSUME NEW ch, NEW ch2, NEW live, GoodChannels(ch, live), NEW n \in Nodes, NEW p \in Peers[n],
           Polls(ch, ch2, p, n), ch[p][n] # << >>
    PROVE  GoodChannels(ch2, live)
<1> SUFFICES ASSUME NEW a \in Nodes, a \in live, NEW b \in Peers[a]
             PROVE  GoodQueue(b, a, ch2[b][a])
  BY DEF GoodChannels
<1>1. GoodQueue(b, a, ch[b][a])
  BY DEF GoodChannels
<1>2. b \in Nodes /\ a \in Peers[b]
  BY TopologyAssumption
<1>3. CASE b = p /\ a = n
  <2>1. ch2[b][a] = Tail(ch[b][a])
    BY <1>3 DEF Polls
  <2> QED BY <1>1, <1>3, <2>1, QueueTail
<1>4. CASE b # p \/ a # n
  <2>1. ch2[b][a] = ch[b][a]
    BY <1>2, <1>4 DEF Polls
  <2> QED BY <1>1, <2>1
<1> QED BY <1>3, <1>4

\* A data message sent.
LEMMA ChannelsSend ==
    ASSUME NEW ch, NEW ch2, NEW live, GoodChannels(ch, live), NEW n \in Nodes, NEW p \in Peers[n],
           NEW m, Sends(ch, ch2, n, p, m), GoodPayload(n, p, m)
    PROVE  GoodChannels(ch2, live)
<1> SUFFICES ASSUME NEW a \in Nodes, a \in live, NEW b \in Peers[a]
             PROVE  GoodQueue(b, a, ch2[b][a])
  BY DEF GoodChannels
<1>1. GoodQueue(b, a, ch[b][a])
  BY DEF GoodChannels
<1>2. b \in Nodes /\ a \in Peers[b]
  BY TopologyAssumption
<1>3. CASE b = n /\ a = p
  <2>1. ch2[b][a] = Append(ch[b][a], m)
    BY <1>3 DEF Sends
  <2> QED BY <1>1, <1>3, <2>1, QueueAppend
<1>4. CASE b # n \/ a # p
  <2>1. ch2[b][a] = ch[b][a]
    BY <1>2, <1>4 DEF Sends
  <2> QED BY <1>1, <2>1
<1> QED BY <1>3, <1>4

\* Markers sent.
LEMMA ChannelsMark ==
    ASSUME NEW ch, NEW ch2, NEW live, GoodChannels(ch, live), NEW n \in Nodes,
           NEW snt, NEW e, SendsMarkers(ch, ch2, n, snt, e)
    PROVE  GoodChannels(ch2, live)
<1> SUFFICES ASSUME NEW a \in Nodes, a \in live, NEW b \in Peers[a]
             PROVE  GoodQueue(b, a, ch2[b][a])
  BY DEF GoodChannels
<1>1. GoodQueue(b, a, ch[b][a])
  BY DEF GoodChannels
<1>2. b \in Nodes /\ a \in Peers[b]
  BY TopologyAssumption
<1>3. CASE b = n
  <2>1. PICK m : m = Marker(snt[n][a], e)
    OBVIOUS
  <2>2. ch2[b][a] = Append(ch[b][a], m)
    BY <1>2, <1>3, <2>1 DEF SendsMarkers
  <2>3. m.kind # "data"
    BY <2>1 DEF Marker
  <2> QED BY <1>1, <2>2, <2>3, QueueAppend
<1>4. CASE b # n
  <2>1. ch2[b][a] = ch[b][a]
    BY <1>2, <1>4 DEF SendsMarkers
  <2> QED BY <1>1, <2>1
<1> QED BY <1>3, <1>4

\* New connections.
LEMMA ChannelsEmpty == ASSUME NEW live PROVE GoodChannels(NoMessages, live)
<1> SUFFICES ASSUME NEW a \in Nodes, NEW b \in Peers[a]
             PROVE  GoodQueue(b, a, NoMessages[b][a])
  BY DEF GoodChannels
<1>1. b \in Nodes /\ a \in Peers[b]
  BY TopologyAssumption
<1>2. NoMessages[b][a] = << >>
  BY <1>1 DEF NoMessages
<1>3. PICK z : z = << >>
  OBVIOUS
<1>4. IsSeq(z) /\ Len(z) = 0
  BY <1>3, EmptyAny
<1>5. GoodQueue(b, a, z)
  BY <1>4 DEF GoodQueue
<1> QED BY <1>2, <1>3, <1>5

-----------------------------------------------------------------------------
(***************************************************************************)
(* The actions                                                             *)
(***************************************************************************)
\* A step of n, which takes messages: only n and its channels are concerned.
LEMMA AppStep ==
    ASSUME AppInv, NEW n \in Nodes, n \in LiveSet, GoodNode(n, node'[n]), GoodStore',
           \A a \in Nodes : a # n => node'[a] = node[a],
           GoodChannels(chan', LiveSet)
    PROVE  AppInv'
<1>1. \A a \in Nodes : GoodNode(a, node'[a])
  BY DEF AppInv
<1>2. \A a \in Nodes : a \in LiveSet' => a \in LiveSet
  BY DEF LiveSet, Running
<1>3. GoodChannels(chan', LiveSet')
  <2>1. PICK ch, live, live2 : ch = chan' /\ live = LiveSet /\ live2 = LiveSet'
    OBVIOUS
  <2>2. GoodChannels(ch, live) /\ \A a \in Nodes : a \in live2 => a \in live
    BY <1>2, <2>1
  <2>3. GoodChannels(ch, live2)
    BY <2>2 DEF GoodChannels
  <2> QED BY <2>1, <2>3
<1> QED BY <1>1, <1>3 DEF AppInv

\* A store that is not written.
LEMMA StoreSame == ASSUME GoodStore, saved' = saved PROVE GoodStore'
  BY DEF GoodStore

\* What both invariants say of a running node.
LEMMA RunningNode ==
    ASSUME IInv, AppInv, NEW n \in Nodes, Running(n)
    PROVE  /\ IsNode(n, node[n]) /\ GoodNode(n, node[n]) /\ node[n].up /\ node[n].failed = "no"
           /\ n \in LiveSet /\ TablesOK /\ GoodStore /\ GoodChannels(chan, LiveSet)
           /\ node = [a \in Nodes |-> node[a]]
           /\ node[n].active # None => SnapShape(n, node[n].active)
<1>1. TablesOK /\ NodeOK(n) /\ CoreOK
  BY DEF IInv
<1>2. IsNode(n, node[n]) /\ node[n].up /\ node[n].failed = "no"
  BY <1>1 DEF NodeOK, Running
<1>3. node[n].active # None => SnapShape(n, node[n].active)
  BY <1>1 DEF StartedSet, Started, Open, CutOf, CoreOK, Core, CutOK
<1>4. n \in LiveSet
  BY DEF LiveSet
<1> QED BY <1>1, <1>2, <1>3, <1>4 DEF AppInv, TablesOK

\* Send
LEMMA SendGood ==
    ASSUME IInv, AppInv, NEW n \in Nodes, NEW p \in Peers[n], Send(n, p)
    PROVE  AppInv'
<1>1. Running(n) /\ node[n].sent[p] < MaxSent[n][p] /\ saved' = saved
  BY DEF Send
<1>2. PICK s : s = node[n]
  OBVIOUS
<1>3. /\ IsNode(n, s) /\ GoodNode(n, s) /\ s.failed = "no" /\ n \in LiveSet
      /\ TablesOK /\ GoodStore /\ GoodChannels(chan, LiveSet) /\ node = [a \in Nodes |-> node[a]]
  BY <1>1, <1>2, RunningNode
<1>4. PICK x, m : x = AfterSend(n, s.app) /\ m = DataMessage(s.sent[p] + 1, Payload(n, s.app))
  OBVIOUS
<1>5. node' = [node EXCEPT ![n].sent[p] = @ + 1, ![n].app = x]
  BY <1>2, <1>4 DEF Send
<1>6. chan' = [chan EXCEPT ![n][p] = Append(chan[n][p], m)]
  BY <1>2, <1>4 DEF Send, Queue
<1>7. PICK s2 : s2 = node'[n]
  OBVIOUS
<1>8. DOMAIN s = {"up", "failed", "received", "sent", "app", "active", "completed",
                  "marked", "last_epoch"}
  BY <1>3 DEF IsNode
<1>9. s2 = [s EXCEPT !.sent[p] = s.sent[p] + 1, !.app = x]
  BY <1>2, <1>3, <1>5, <1>7, <1>8
<1>10. \A a \in Nodes : a # n => node'[a] = node[a]
  BY <1>3, <1>5
<1>11. s.sent[p] < MaxSent[n][p]
  BY <1>1, <1>2
<1>12. GoodNode(n, s2) /\ GoodPayload(n, p, m)
  BY <1>3, <1>4, <1>9, <1>11, GoodSend
<1>13. PICK ch, ch2, live : ch = chan /\ ch2 = chan' /\ live = LiveSet
  OBVIOUS
<1>14. Sends(ch, ch2, n, p, m)
  BY <1>3, <1>6, <1>13 DEF TablesOK, Sends
<1>15. GoodChannels(ch2, live)
  BY <1>3, <1>12, <1>13, <1>14, ChannelsSend
<1>16. GoodStore'
  BY <1>1, <1>3, StoreSame
<1> QED BY <1>3, <1>7, <1>10, <1>12, <1>13, <1>15, <1>16, AppStep

\* The front of a channel is taken.
LEMMA PollGood ==
    ASSUME IInv, AppInv, NEW n \in Nodes, NEW p \in Peers[n], Running(n), chan[p][n] # << >>,
           NEW m, m = Head(chan[p][n])
    PROVE  /\ GoodChannels(PollOnce(p, n), LiveSet) /\ m = chan[p][n][1]
           /\ m.kind = "data" => GoodPayload(p, n, m) /\ m.sequence = node[n].received[p] + 1
<1>1. n \in LiveSet /\ TablesOK /\ GoodChannels(chan, LiveSet)
  BY RunningNode
<1>2. PICK ch, ch2, live, q : /\ ch = chan /\ ch2 = PollOnce(p, n) /\ live = LiveSet
                              /\ q = chan[p][n]
  OBVIOUS
<1>3. Polls(ch, ch2, p, n)
  BY <1>1, <1>2, PollsFront
<1>4. GoodChannels(ch2, live)
  BY <1>1, <1>2, <1>3, ChannelsPoll
<1>5. GoodQueue(p, n, q) /\ q # << >>
  BY <1>1, <1>2 DEF GoodChannels
<1>6. Head(q) = q[1] /\ (q[1].kind = "data" => GoodPayload(p, n, q[1]))
  BY <1>5, QueueTail
<1>7. m.kind = "data" => m.sequence = node[n].received[p] + 1
  BY <1>2, <1>6, FrontOfChannel
<1> QED BY <1>2, <1>4, <1>6, <1>7

\* Poison
LEMMA PoisonGood ==
    ASSUME IInv, AppInv, NEW n \in Nodes, Running(n),
           NEW why \in {"limit", "application", "protocol"},
           n \in AppNodes => why # "application", Poison(n, why), saved' = saved,
           GoodChannels(chan', LiveSet)
    PROVE  AppInv'
<1>1. PICK s : s = node[n]
  OBVIOUS
<1>2. /\ IsNode(n, s) /\ GoodNode(n, s) /\ n \in LiveSet /\ GoodStore
      /\ node = [a \in Nodes |-> node[a]]
  BY <1>1, RunningNode
<1>3. PICK s2 : s2 = node'[n]
  OBVIOUS
<1>4. s2 = [s EXCEPT !.failed = why] /\ \A a \in Nodes : a # n => node'[a] = node[a]
  BY <1>1, <1>2, <1>3 DEF Poison
<1>5. GoodNode(n, s2)
  BY <1>2, <1>4, GoodPoison
<1>6. GoodStore'
  BY <1>2, StoreSame
<1> QED BY <1>2, <1>3, <1>4, <1>5, <1>6, AppStep

\* ReceiveData
LEMMA ReceiveDataGood ==
    ASSUME Acceptable, IInv, AppInv, NEW n \in Nodes, NEW p \in Peers[n], Running(n),
           chan[p][n] # << >>, ReceiveData(p, n, Head(chan[p][n])), saved' = saved
    PROVE  AppInv'
<1>1. PICK s : s = node[n]
  OBVIOUS
<1>2. /\ IsNode(n, s) /\ GoodNode(n, s) /\ n \in LiveSet /\ GoodStore /\ s.failed = "no"
      /\ node = [a \in Nodes |-> node[a]] /\ (s.active # None => SnapShape(n, s.active))
  BY <1>1, RunningNode
<1>3. PICK m : m = Head(chan[p][n])
  OBVIOUS
<1>4. m.kind = "data" /\ chan' = PollOnce(p, n)
  BY <1>3 DEF ReceiveData
<1>5. /\ GoodChannels(chan', LiveSet) /\ GoodPayload(p, n, m)
      /\ m.sequence = s.received[p] + 1
  BY <1>1, <1>3, <1>4, PollGood
<1>6. PICK x : x = Deliver(n, s.app, p, m.payload)
  OBVIOUS
<1>7. PICK r : r = [peer |-> p, sequence |-> m.sequence, payload |-> m.payload]
  OBVIOUS
<1>8. r.peer = p /\ r.sequence = m.sequence /\ r.payload = m.payload
  BY <1>7
<1>9. PICK s1 : IF Records(s, p) THEN Logged(s, s1, r) ELSE s1 = s
  BY DEF Logged
<1>10. \/ Poison(n, "limit")
       \/ Poison(n, "application") /\ x = Thrown
       \/ node' = [node EXCEPT ![n] = Taken(s1, p, m.sequence, x)]
  BY <1>1, <1>3, <1>5, <1>6, <1>7, <1>9 DEF ReceiveData, Logged, Taken
<1>11. /\ IsNode(n, s1) /\ GoodNode(n, s1) /\ s1.app = s.app /\ s1.failed = s.failed
       /\ s1.received = s.received
  <2>1. CASE Records(s, p)
    <3>1. Logged(s, s1, r) /\ SnapShape(n, s.active)
      BY <1>2, <1>9, <2>1 DEF Records
    <3>2. r.peer \in Peers[n] /\ GoodPayload(r.peer, n, r)
      BY <1>5, <1>8 DEF GoodPayload
    <3>3. IsNode(n, s1) /\ s1.failed = s.failed /\ s1.received = s.received
      BY <1>2, <3>1, LoggedShape
    <3>4. GoodNode(n, s1) /\ s1.app = s.app
      BY <1>2, <3>1, <3>2, GoodLogged
    <3> QED BY <3>3, <3>4
  <2>2. CASE ~Records(s, p)
    BY <1>2, <1>9, <2>2
  <2> QED BY <2>1, <2>2
<1>12. PICK s2 : s2 = Taken(s1, p, m.sequence, x)
  OBVIOUS
<1>13. GoodNode(n, s2) /\ (n \in AppNodes => x # Thrown)
  <2>1. m.sequence = s1.received[p] + 1 /\ x = Deliver(n, s1.app, p, m.payload)
        /\ s1.failed = "no"
    BY <1>2, <1>5, <1>6, <1>11
  <2> QED BY <1>5, <1>11, <1>12, <2>1, GoodTaken
<1>14. CASE Poison(n, "limit")
  BY <1>5, <1>14, PoisonGood
<1>15. CASE Poison(n, "application") /\ x = Thrown
  BY <1>5, <1>13, <1>15, PoisonGood
<1>16. CASE node' = [node EXCEPT ![n] = Taken(s1, p, m.sequence, x)]
  <2>1. node' = [node EXCEPT ![n] = s2]
    BY <1>12, <1>16
  <2>2. node'[n] = s2 /\ \A a \in Nodes : a # n => node'[a] = node[a]
    BY <1>2, <2>1
  <2>3. GoodNode(n, node'[n])
    BY <1>13, <2>2
  <2>4. GoodStore'
    BY <1>2, StoreSame
  <2> QED BY <1>2, <1>5, <2>2, <2>3, <2>4, AppStep
<1> QED BY <1>10, <1>14, <1>15, <1>16

\* The cut of n is taken and its markers are sent.
LEMMA InitiateGood ==
    ASSUME IInv, AppInv, NEW n \in Nodes, NEW e \in Epochs, Initiate(n, e),
           CanStart(node[n], e), saved' = saved
    PROVE  AppInv'
<1>1. PICK s : s = node[n]
  OBVIOUS
<1>2. Running(n) /\ node' = [node EXCEPT ![n] = FinishIfReady(n, Start(n, s, e))]
      /\ chan' = SendMarkers(n, e)
  BY <1>1 DEF Initiate
<1>3. /\ IsNode(n, s) /\ GoodNode(n, s) /\ n \in LiveSet /\ GoodStore /\ s.failed = "no"
      /\ node = [a \in Nodes |-> node[a]] /\ TablesOK /\ GoodChannels(chan, LiveSet)
  BY <1>1, <1>2, RunningNode
<1>4. PICK s1, s2 : s1 = Start(n, s, e) /\ s2 = FinishIfReady(n, s1)
  OBVIOUS
<1>5. GoodNode(n, s1)
  BY <1>3, <1>4, GoodStart
<1>6. IsNode(n, s1)
  BY <1>3, <1>4, StartShape
<1>7. GoodNode(n, s2)
  BY <1>4, <1>5, <1>6, GoodFinish
<1>8. node'[n] = s2 /\ \A a \in Nodes : a # n => node'[a] = node[a]
  BY <1>2, <1>3, <1>4
<1>9. GoodNode(n, node'[n])
  BY <1>7, <1>8
<1>10. PICK ch, ch2, live, snt : /\ ch = chan /\ ch2 = chan' /\ live = LiveSet
                                 /\ snt = [a \in Nodes |-> node[a].sent]
  OBVIOUS
<1>11. SendsMarkers(ch, ch2, n, snt, e)
  <2>1. chan = [a \in Nodes |-> [b \in Peers[a] |-> chan[a][b]]]
    BY <1>3 DEF TablesOK
  <2>2. snt[n] = node[n].sent
    BY <1>10
  <2>3. ch2 = [ch EXCEPT ![n] = [p \in Peers[n] |-> Append(ch[n][p], Marker(node[n].sent[p], e))]]
    BY <1>2, <1>10 DEF SendMarkers, Queue
  <2> QED BY <1>10, <2>1, <2>2, <2>3 DEF SendsMarkers
<1>12. GoodChannels(ch2, live)
  BY <1>3, <1>10, <1>11, ChannelsMark
<1>13. GoodStore'
  BY <1>3, StoreSame
<1> QED BY <1>3, <1>8, <1>9, <1>10, <1>12, <1>13, AppStep

\* The marker at the front of a channel is that of the current epoch.
LEMMA MarkerEpoch ==
    ASSUME IInv, NEW n \in Nodes, NEW p \in Peers[n], Running(n), chan[p][n] # << >>,
           NEW m, m = Head(chan[p][n]), m.kind = "marker"
    PROVE  m.epoch \in Epochs
<1>0. p \in Nodes
  BY TopologyAssumption
<1>1. StoreOK /\ NodeOK(n) /\ NodeOK(p) /\ CoreOK
  BY <1>0 DEF IInv
<1>2. m = chan[p][n][1] /\ n \in LiveSet
  BY FrontOfChannel
<1>3. Core(RecOf, SentOf, StartedSet, CutOf, MarkedOf, chan, LiveSet, epoch)
  BY <1>1 DEF CoreOK
<1>4. m.epoch = epoch /\ p \in StartedSet
  BY <1>2, <1>3, MarkerAtFront
<1> QED BY <1>1, <1>4, TopologyAssumption DEF StartedSet, NodeOK, StoreOK, Epochs

\* ReceiveMarker
LEMMA ReceiveMarkerGood ==
    ASSUME IInv, AppInv, NEW n \in Nodes, NEW p \in Peers[n], Running(n),
           chan[p][n] # << >>, ReceiveMarker(p, n, Head(chan[p][n])), saved' = saved
    PROVE  AppInv'
<1>0. p \in Nodes /\ n \in Peers[p] /\ p # n
  BY TopologyAssumption
<1>1. PICK s : s = node[n]
  OBVIOUS
<1>2. /\ IsNode(n, s) /\ GoodNode(n, s) /\ n \in LiveSet /\ GoodStore /\ s.failed = "no"
      /\ node = [a \in Nodes |-> node[a]] /\ (s.active # None => SnapShape(n, s.active))
      /\ TablesOK
  BY <1>1, RunningNode
<1>3. PICK m : m = Head(chan[p][n])
  OBVIOUS
<1>4. m.kind = "marker"
  BY <1>3 DEF ReceiveMarker
<1>5. PICK e : e = m.epoch /\ e \in Epochs
  BY <1>3, <1>4, MarkerEpoch
<1>6. PICK left : left = PollOnce(p, n)
  OBVIOUS
<1>7. GoodChannels(left, LiveSet)
  BY <1>3, <1>6, PollGood
<1>8. PICK s1 : s1 = IF s.active = None THEN Start(n, s, e) ELSE s
  OBVIOUS
<1>9. PICK s2 : s2 = Marked(p, n, m, s1)
  OBVIOUS
<1>10. \/ Poison(n, "protocol") /\ chan' = left
       \/ /\ node' = [node EXCEPT ![n] = s2]
          /\ chan' = IF s.active = None THEN [left EXCEPT ![n] = SendMarkers(n, e)[n]] ELSE left
  BY <1>1, <1>3, <1>5, <1>6, <1>8, <1>9 DEF ReceiveMarker
<1>11. IsNode(n, s1) /\ GoodNode(n, s1) /\ SnapShape(n, s1.active)
  <2>1. CASE s.active = None
    <3>1. s1 = Start(n, s, e)
      BY <1>8, <2>1
    <3>2. IsNode(n, s1) /\ s1.active = NewCut(n, s, e)
      BY <1>2, <1>5, <3>1, StartShape
    <3>3. SnapShape(n, NewCut(n, s, e))
      BY <1>2, <1>5, NewCutShape
    <3>4. GoodNode(n, s1)
      BY <1>2, <3>1, GoodStart
    <3> QED BY <3>2, <3>3, <3>4
  <2>2. CASE s.active # None
    BY <1>2, <1>8, <2>2
  <2> QED BY <2>1, <2>2
<1>12. GoodNode(n, s2)
  BY <1>9, <1>11, GoodMarked
<1>13. CASE Poison(n, "protocol") /\ chan' = left
  <2>1. GoodChannels(chan', LiveSet)
    BY <1>7, <1>13
  <2> QED BY <1>13, <2>1, PoisonGood
<1>14. CASE /\ node' = [node EXCEPT ![n] = s2]
            /\ chan' = IF s.active = None THEN [left EXCEPT ![n] = SendMarkers(n, e)[n]] ELSE left
  <2>1. node'[n] = s2 /\ \A a \in Nodes : a # n => node'[a] = node[a]
    BY <1>2, <1>14
  <2>2. GoodNode(n, node'[n])
    BY <1>12, <2>1
  <2>3. GoodStore'
    BY <1>2, StoreSame
  <2>4. GoodChannels(chan', LiveSet)
    <3>1. CASE s.active = None
      <4>1. PICK ch2, live, snt : /\ ch2 = chan' /\ live = LiveSet
                                  /\ snt = [a \in Nodes |-> node[a].sent]
        OBVIOUS
      <4>2. chan = [a \in Nodes |-> [b \in Peers[a] |-> chan[a][b]]]
        BY <1>2 DEF TablesOK
      <4>3. /\ left = [a \in Nodes |-> [b \in Peers[a] |-> left[a][b]]]
            /\ \A b \in Peers[n] : left[n][b] = chan[n][b]
        BY <1>0, <1>6, <4>2 DEF PollOnce
      <4>4. \A b \in Peers[n] : SendMarkers(n, e)[n][b] = Append(chan[n][b], Marker(snt[n][b], e))
        BY <4>1, <4>2 DEF SendMarkers, Queue
      <4>5. ch2 = [left EXCEPT ![n] = SendMarkers(n, e)[n]]
        BY <1>14, <3>1, <4>1
      <4>6. SendsMarkers(left, ch2, n, snt, e)
        BY <4>3, <4>4, <4>5 DEF SendsMarkers
      <4>7. GoodChannels(ch2, live)
        BY <1>7, <4>1, <4>6, ChannelsMark
      <4> QED BY <4>1, <4>7
    <3>2. CASE s.active # None
      BY <1>7, <1>14, <3>2
    <3> QED BY <3>1, <3>2
  <2> QED BY <1>2, <2>1, <2>2, <2>3, <2>4, AppStep
<1> QED BY <1>10, <1>13, <1>14

\* SaveLocal
LEMMA SaveGood ==
    ASSUME IInv, AppInv, NEW n \in Nodes, SaveLocal(n)
    PROVE  AppInv'
<1>1. Running(n) /\ chan' = chan
  BY DEF SaveLocal
<1>2. PICK s, c : s = node[n] /\ c = s.completed
  OBVIOUS
<1>3. /\ IsNode(n, s) /\ GoodNode(n, s) /\ n \in LiveSet /\ GoodStore
      /\ node = [a \in Nodes |-> node[a]] /\ GoodChannels(chan, LiveSet)
  BY <1>1, <1>2, RunningNode
<1>4. saved = [e \in Epochs |-> [a \in Nodes |-> saved[e][a]]]
  BY DEF IInv, StoreOK
<1>5. GoodChannels(chan', LiveSet)
  BY <1>1, <1>3
<1>6. c # None /\ GoodCut(n, c)
  BY <1>2, <1>3 DEF SaveLocal, GoodNode
<1>7. PICK e : e = c.epoch
  OBVIOUS
<1>8. \/ saved' = [saved EXCEPT ![e][n] = c] /\ node' = [node EXCEPT ![n].completed = None]
      \/ Poison(n, "protocol") /\ saved' = saved
  BY <1>2, <1>7 DEF SaveLocal
<1>9. CASE saved' = [saved EXCEPT ![e][n] = c] /\ node' = [node EXCEPT ![n].completed = None]
  <2>1. PICK s2 : s2 = node'[n]
    OBVIOUS
  <2>2. s2 = [s EXCEPT !.completed = None] /\ \A a \in Nodes : a # n => node'[a] = node[a]
    BY <1>2, <1>3, <1>9, <2>1
  <2>3. GoodNode(n, s2)
    BY <1>3, <2>2, GoodSaved
  <2>4. GoodStore'
    <3> SUFFICES ASSUME NEW f \in Epochs, NEW a \in Nodes, saved'[f][a] # None
                 PROVE  GoodCut(a, saved'[f][a])
      BY DEF GoodStore
    <3>1. CASE f = e /\ a = n
      <4>1. saved'[f][a] = c
        BY <1>4, <1>9, <3>1
      <4> QED BY <1>6, <3>1, <4>1
    <3>2. CASE ~(f = e /\ a = n)
      <4>1. saved'[f][a] = saved[f][a]
        BY <1>4, <1>9, <3>2
      <4> QED BY <1>3, <4>1 DEF GoodStore
    <3> QED BY <3>1, <3>2
  <2> QED BY <1>3, <1>5, <2>1, <2>2, <2>3, <2>4, AppStep
<1>10. CASE Poison(n, "protocol") /\ saved' = saved
  BY <1>1, <1>5, <1>10, PoisonGood
<1> QED BY <1>8, <1>9, <1>10

\* Restore
LEMMA RestoreStepGood ==
    ASSUME Acceptable, IInv, AppInv, NEW n \in Nodes, Restore(n)
    PROVE  AppInv'
<1>1. ~node[n].up /\ node' = [node EXCEPT ![n] = RestoredNode(n)] /\ chan' = chan /\ saved' = saved
  BY DEF Restore
<1>2. StoreOK /\ GoodStore /\ GoodChannels(chan', LiveSet) /\ node = [a \in Nodes |-> node[a]]
  BY <1>1 DEF IInv, AppInv, TablesOK
<1>3. n \in LiveSet
  BY <1>1 DEF LiveSet
<1>4. PICK s2 : s2 = RestoredNode(n)
  OBVIOUS
<1>5. GoodNode(n, s2)
  BY <1>2, <1>4, RestoredGood
<1>6. node'[n] = s2 /\ \A a \in Nodes : a # n => node'[a] = node[a]
  BY <1>1, <1>2, <1>4
<1>7. GoodNode(n, node'[n])
  BY <1>5, <1>6
<1>8. GoodStore'
  BY <1>1, <1>2, StoreSame
<1> QED BY <1>2, <1>3, <1>6, <1>7, <1>8, AppStep

\* A step of the supervisor that touches neither nodes nor local snapshots.
LEMMA SupervisorGood ==
    ASSUME AppInv, UNCHANGED <<node, chan, saved>>
    PROVE  AppInv'
<1>1. GoodStore'
  BY StoreSame DEF AppInv
<1>2. LiveSet' = LiveSet
  BY DEF LiveSet, Running
<1>3. GoodChannels(chan', LiveSet')
  BY <1>2 DEF AppInv
<1> QED BY <1>1, <1>3 DEF AppInv

\* Every process is about to start.
LEMMA StartGood ==
    ASSUME GoodStore', node' = [n \in Nodes |-> FreshNode(n)], chan' = NoMessages
    PROVE  AppInv'
<1>1. ASSUME NEW n \in Nodes PROVE GoodNode(n, node'[n])
  <2>1. PICK s : s = FreshNode(n)
    OBVIOUS
  <2>2. /\ s.active = None /\ s.completed = None /\ s.failed = "no"
        /\ s.app = FreshApp(n) /\ s.received = Zero(n) /\ s.sent = Zero(n)
    BY <2>1 DEF FreshNode
  <2>3. GoodNode(n, s)
    BY <2>2, FreshGood
  <2> QED BY <2>1, <2>3
<1>2. GoodChannels(chan', LiveSet')
  BY ChannelsEmpty
<1> QED BY <1>1, <1>2 DEF AppInv

\* The first run.
LEMMA InitGood == Init => AppInv
<1> SUFFICES ASSUME Init PROVE AppInv
  OBVIOUS
<1>1. /\ node = [n \in Nodes |-> FreshNode(n)] /\ chan = NoMessages
      /\ saved = [e \in Epochs |-> [n \in Nodes |-> None]]
  BY DEF Init
<1>2. ASSUME NEW n \in Nodes PROVE GoodNode(n, node[n])
  <2>1. PICK s : s = FreshNode(n)
    OBVIOUS
  <2>2. /\ s.active = None /\ s.completed = None /\ s.failed = "no"
        /\ s.app = FreshApp(n) /\ s.received = Zero(n) /\ s.sent = Zero(n)
    BY <2>1 DEF FreshNode
  <2>3. GoodNode(n, s)
    BY <2>2, FreshGood
  <2> QED BY <1>1, <2>1, <2>3
<1>3. GoodStore
  BY <1>1 DEF GoodStore
<1>4. GoodChannels(chan, LiveSet)
  BY <1>1, ChannelsEmpty
<1> QED BY <1>2, <1>3, <1>4 DEF AppInv

\* Every step keeps the applications exact.
LEMMA AppKept == ASSUME Acceptable PROVE IInv /\ AppInv /\ [Next]_vars => AppInv'
<1> SUFFICES ASSUME IInv, AppInv, [Next]_vars PROVE AppInv'
  OBVIOUS
<1>1. ASSUME NEW n \in Nodes, NEW p \in Peers[n], Send(n, p) PROVE AppInv'
  BY <1>1, SendGood
<1>2. ASSUME NEW n \in Nodes, NEW p \in Peers[n], Receive(p, n) PROVE AppInv'
  <2>1. /\ Running(n) /\ chan[p][n] # << >> /\ saved' = saved
        /\ \/ ReceiveData(p, n, Head(chan[p][n]))
           \/ ReceiveMarker(p, n, Head(chan[p][n]))
    BY <1>2 DEF Receive
  <2> QED BY <1>2, <2>1, ReceiveDataGood, ReceiveMarkerGood
<1>3. ASSUME NEW n \in Nodes, Restore(n) \/ SaveLocal(n) PROVE AppInv'
  BY <1>3, RestoreStepGood, SaveGood
<1>4. ASSUME NEW n \in Nodes, BeginEpoch(n) \/ JoinEpoch(n) PROVE AppInv'
  <2>1. epoch \in 0..MaxEpoch /\ floor \in 0..epoch /\ MaxEpoch \in Nat
    BY TopologyAssumption DEF IInv, StoreOK
  <2>2. PICK e \in Epochs : Initiate(n, e) /\ CanStart(node[n], e) /\ saved' = saved
    <3>1. CASE BeginEpoch(n)
      <4>1. epoch + 1 \in Epochs /\ Initiate(n, epoch + 1) /\ saved' = saved
        BY <2>1, <3>1 DEF BeginEpoch, Epochs
      <4> QED BY <3>1, <4>1, BeginCanStart
    <3>2. CASE JoinEpoch(n)
      BY <2>1, <3>2 DEF JoinEpoch, Epochs
    <3> QED BY <1>4, <3>1, <3>2
  <2> QED BY <2>2, InitiateGood
<1>5. ASSUME Crash PROVE AppInv'
  <2>1. GoodStore /\ saved' = saved /\ node' = [n \in Nodes |-> FreshNode(n)]
        /\ chan' = NoMessages
    BY <1>5 DEF Crash, AppInv
  <2>2. GoodStore'
    BY <2>1, StoreSame
  <2> QED BY <2>1, <2>2, StartGood
<1>6. ASSUME NEW e \in Epochs, Damage(e) PROVE AppInv'
  BY <1>6, SupervisorGood DEF Damage
<1>7. ASSUME Commit PROVE AppInv'
  BY <1>7, SupervisorGood DEF Commit
<1>8. CASE UNCHANGED vars
  BY <1>8, SupervisorGood DEF vars
<1> QED BY <1>1, <1>2, <1>3, <1>4, <1>5, <1>6, <1>7, <1>8 DEF Next, Run

\* In every run the applications are what the messages received and sent amount
\* to, in the live nodes and in every local snapshot (Child's callbacks of
\* app/snapshot/main.cpp, WindowOperator, Participant).
THEOREM AppInvariance == ASSUME Acceptable PROVE Spec => [](IInv /\ AppInv)
<1>1. IInv /\ AppInv /\ [Next]_vars => AppInv'
  BY AppKept
<1> QED BY <1>1, InitGood, Invariance, PTL DEF Spec

\* The application is exact in every run, whatever the interleaving of its
\* inputs and however many cuts, crashes and restarts lie between, and a cut
\* taken now would bring it back (WindowOperator::Apply, Capture, Restore,
\* Participant::Restore), provided that the inputs' records are acceptable:
\* the assigner takes them, and no pane overflows on any prefix of the inputs.
THEOREM OperatorTheorem == ASSUME Acceptable PROVE Spec => []OperatorExact
<1>1. IInv /\ AppInv => OperatorExact
  <2> SUFFICES ASSUME IInv, AppInv PROVE OperatorExact
    OBVIOUS
  <2>1. ASSUME NEW n \in AppNodes, Running(n) \/ ~node[n].up
        PROVE  GoodApp(n, View(n).app, View(n).received, View(n).sent)
    <3>1. n \in Nodes
      BY AppNodeFacts DEF AppNodes
    <3>2. CASE node[n].up
      <4>1. View(n) = node[n] /\ node[n].failed = "no"
        BY <2>1, <3>2 DEF View, Running
      <4> QED BY <3>1, <4>1 DEF AppInv, GoodNode
    <3>3. CASE ~node[n].up
      <4>1. PICK v : v = View(n)
        OBVIOUS
      <4>2. v = RestoredNode(n)
        BY <3>3, <4>1 DEF View
      <4>3. StoreOK /\ GoodStore
        BY DEF IInv, AppInv
      <4>4. GoodNode(n, v) /\ v.failed = "no"
        BY <3>1, <4>2, <4>3, RestoredGood
      <4> QED BY <4>1, <4>4 DEF GoodNode
    <3> QED BY <3>2, <3>3
  <2>2. ASSUME NEW p \in Inputs, Running(p) \/ ~node[p].up
        PROVE  View(p).app.cursor = View(p).sent[Aggregator]
    <3>1. p \in AppNodes
      BY DEF AppNodes
    <3>2. PICK b : View(p).app = [cursor |-> View(p).sent[Aggregator], ack |-> b]
      BY <2>1, <2>2, <3>1 DEF GoodApp
    <3> QED BY <3>2
  <2>3. ASSUME Running(Aggregator) \/ ~node[Aggregator].up, NEW op, NEW received,
               op = View(Aggregator).app, received = View(Aggregator).received
        PROVE  /\ op.records = Cardinality(RecordsAmong(received))
               /\ op.watermarks = [p \in Inputs |-> WatermarkOf(p, received)]
               /\ op.watermark = ExpectedWatermark(received)
               /\ op.state.panes = [s \in Slots |-> ExpectedPane(s, received)]
               /\ RestoreOperator(CaptureOperator(op)) = op
    <3>1. Aggregator \in AppNodes
      BY DEF AppNodes
    <3>2. Exact(op, received)
      BY <2>1, <2>3, <3>1 DEF GoodApp
    <3>3. Tallies(op, received) /\ Fit(op.state) /\ Aggregates(op.state, received)
      BY <3>2, ExactFacts
    <3>4. RestoreOperator(CaptureOperator(op)) = op
      BY <3>2, RoundTrip
    <3>5. op.state.panes = [s \in Slots |-> op.state.panes[s]]
      BY <3>3 DEF Fit
    <3>6. op.state.panes = [s \in Slots |-> ExpectedPane(s, received)]
      BY <3>3, <3>5 DEF Aggregates
    <3> QED BY <3>3, <3>4, <3>6 DEF Tallies
  <2> QED BY <2>2, <2>3 DEF OperatorExact
<1> QED BY <1>1, AppInvariance, PTL

\* Neither a protocol check nor the operator ever throws: only the size limit
\* poisons a node, when every node is an input or the aggregator, as in
\* app/snapshot/main.cpp (Participant::Receive, Participant::Restore).
THEOREM NeverPoisonedTheorem ==
    ASSUME Acceptable, Nodes = Inputs \cup {Aggregator} PROVE Spec => []NeverPoisoned
<1>1. IInv /\ AppInv => NeverPoisoned
  <2> SUFFICES ASSUME IInv, AppInv, NEW n \in Nodes PROVE node[n].failed \in {"no", "limit"}
    BY DEF NeverPoisoned
  <2>1. node[n].failed # "protocol"
    BY DEF IInv, NodeOK, IsNode
  <2>2. node[n].failed # "application"
        /\ node[n].failed \in {"no", "limit", "application", "protocol"}
    BY DEF AppInv, GoodNode, AppNodes
  <2> QED BY <2>1, <2>2
<1> QED BY <1>1, AppInvariance, PTL
=============================================================================
