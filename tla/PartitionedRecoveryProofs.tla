---------------------- MODULE PartitionedRecoveryProofs ----------------------
(***************************************************************************)
(* The partitioned job is correct for every number of workers, every       *)
(* routing of keys, retention, geometry, lateness and source: its workers  *)
(* agree with the uninterrupted single-threaded run, its complete          *)
(* checkpoints can be restored and the offset it resumes from only grows,  *)
(* for any number of crashes and stops; with at most one crash it ends     *)
(* with the results of the uninterrupted run.                              *)
(***************************************************************************)
EXTENDS PartitionedRecovery, ReplayProofs

-----------------------------------------------------------------------------
(***************************************************************************)
(* A window ends no later than its deadline.                               *)
(***************************************************************************)
LEMMA WindowEnds ==
    \A w \in Windows : /\ w.end \in Int /\ Deadline(w) \in Int /\ w.end =< Deadline(w)
                       /\ AllowedLateness = 0 => Deadline(w) = w.end
<1> SUFFICES ASSUME NEW t \in EventTimes, InDomain(t), NEW w \in WindowsOf(t)
             PROVE  /\ w.end \in Int /\ Deadline(w) \in Int /\ w.end =< Deadline(w)
                    /\ AllowedLateness = 0 => Deadline(w) = w.end
  BY DEF Windows
<1>1. t \in Nat /\ t + Size =< MaxTime /\ Size \in Nat /\ MaxTime \in Nat /\ AllowedLateness \in Nat
  BY WindowAssumption DEF InDomain, InTumblingDomain, InSlidingDomain
<1>2. \E x \in Int : x =< t /\ w = WindowAt(x, Size)
  <2>1. CASE Slide = Size
    <3>1. PICK x : x = (t \div Size) * Size
      OBVIOUS
    <3>2. w = WindowAt(x, Size)
      BY <2>1, <3>1 DEF WindowsOf, AssignWindows, TumblingAssign
    <3>3. x \in Int /\ x =< t
      BY <1>1, <3>1, WindowAssumption
    <3> QED BY <3>2, <3>3
  <2>2. CASE Slide # Size
    <3>1. PICK e : e = EarliestStart(Size, Slide, t)
      OBVIOUS
    <3>2. PICK x \in e..t : w = WindowAt(x, Size)
      BY <2>2, <3>1 DEF WindowsOf, AssignWindows, SlidingAssign
    <3> QED BY <3>2
  <2> QED BY <2>1, <2>2
<1>3. PICK x \in Int : x =< t /\ w = WindowAt(x, Size)
  BY <1>2
<1>4. w.end = x + Size
  BY <1>3 DEF WindowAt
<1>5. w.end \in Int /\ w.end =< MaxTime
  BY <1>1, <1>3, <1>4
<1> QED BY <1>1, <1>5 DEF Deadline

LEMMA SlotFacts ==
    \A s \in Slots : s[1] \in Windows /\ s[2] \in Keys /\ s = <<s[1], s[2]>>
  BY DEF Slots

-----------------------------------------------------------------------------
(***************************************************************************)
(* AddWithLateness, slot by slot and window by window.                     *)
(***************************************************************************)
LEMMA AddFields ==
    ASSUME NEW st, NEW key, NEW ws, NEW v, NEW wm, NEW a,
           a = AddWithLateness(st, key, ws, v, wm)
    PROVE  /\ \A s \in Slots :
                 /\ s[1] \in Accepting(ws, wm) /\ s[2] = key => a.panes[s] = PaneAdd(st.panes[s], v)
                 /\ ~(s[1] \in Accepting(ws, wm) /\ s[2] = key) => a.panes[s] = st.panes[s]
           /\ a.fired = st.fired
           /\ a.refired = st.refired \cup (Accepting(ws, wm) \cap st.fired)
<1>1. PICK p : p = AddToPanes(st.panes, key, Accepting(ws, wm), v)
  OBVIOUS
<1>2. a.panes = p /\ a.fired = st.fired
      /\ a.refired = st.refired \cup (Accepting(ws, wm) \cap st.fired)
  BY <1>1 DEF AddWithLateness
<1>3. PICK acc : acc = Accepting(ws, wm)
  OBVIOUS
<1>4. p = [s \in Slots |-> IF s[1] \in acc /\ s[2] = key THEN PaneAdd(st.panes[s], v)
                                                         ELSE st.panes[s]]
  BY <1>1, <1>3 DEF AddToPanes
<1>5. \A s \in Slots : p[s] = IF s[1] \in acc /\ s[2] = key THEN PaneAdd(st.panes[s], v)
                                                            ELSE st.panes[s]
  BY <1>4
<1> QED BY <1>2, <1>3, <1>5

(***************************************************************************)
(* A watermark erases exactly the slots past their deadline, whatever has  *)
(* fired: this is why a partition may fire at other times than the whole.  *)
(***************************************************************************)
LEMMA WatermarkFields ==
    ASSUME NEW st, Sound(st), NEW wm \in Int, AllowedLateness = 0 => st.fired = {}
    PROVE  LET b == AfterWatermark(st, wm)
           IN  /\ \A s \in Slots : /\ wm >= Deadline(s[1]) => b.panes[s] = NoPane
                                   /\ wm < Deadline(s[1]) => b.panes[s] = st.panes[s]
               /\ AllowedLateness = 0 => b.fired = {}
               /\ AllowedLateness # 0 =>
                     /\ b.fired = {w \in st.fired \cup ExpiredWindows(st, wm) : wm < Deadline(w)}
                     /\ b.refired = {}
<1>0. PICK b : b = AfterWatermark(st, wm)
  OBVIOUS
<1>1. /\ st.fired \subseteq Windows /\ st.refired \subseteq st.fired
      /\ \A s \in Slots : st.panes[s].count \in Nat /\ (st.panes[s].count = 0 => st.panes[s] = NoPane)
  BY SoundFields
<1>2. PICK x : x = ExpiredWindows(st, wm)
  OBVIOUS
<1>3. x \subseteq Windows /\ \A w \in x : w.end =< wm /\ w \notin st.fired /\ w \in AllWindows(st)
  BY <1>2 DEF ExpiredWindows, AllWindows
<1>4. ASSUME NEW s \in Slots, st.panes[s].count > 0
      PROVE  /\ s[1] \in AllWindows(st) /\ s[1] \in Windows /\ Deadline(s[1]) \in Int
             /\ s[1].end \in Int /\ s[1].end =< Deadline(s[1])
             /\ s[1].end =< wm /\ s[1] \notin st.fired => s[1] \in x
  <2>1. s[1] \in Windows /\ s[2] \in Keys /\ s = <<s[1], s[2]>>
    BY SlotFacts
  <2>2. s[1] \in AllWindows(st)
    BY <1>4, <2>1 DEF AllWindows
  <2> QED BY <1>2, <2>1, <2>2, WindowEnds DEF ExpiredWindows
<1>5. CASE AllowedLateness # 0 /\ UseLateness
  <2> DEFINE f == FireWindow(st, x)
             fired == st.fired \cup x
             c == ClearRefired(FireWindow(f, f.refired))
             gone == GarbageCollectable(c, wm)
  <2>1. f = [panes |-> st.panes, fired |-> st.fired \cup x, refired |-> st.refired]
    <3>1. x \cap AllWindows(st) = x
      BY <1>3
    <3> QED BY <1>5, <3>1 DEF FireWindow
  <2>2. AllWindows(f) = AllWindows(st)
    BY <2>1 DEF AllWindows
  <2>3. c = [panes |-> st.panes, fired |-> fired, refired |-> {}]
    <3>1. f.panes = st.panes /\ f.fired = st.fired \cup x /\ f.refired = st.refired
      BY <2>1
    <3>2. (st.fired \cup x) \cup (st.refired \cap AllWindows(st)) = fired
      BY <1>1
    <3> HIDE DEF f, fired
    <3> QED BY <1>5, <2>2, <3>1, <3>2 DEF FireWindow, ClearRefired
  <2>4. b = GarbageCollect(c, gone)
    BY <1>0, <1>2, <1>5 DEF AfterWatermark
  <2>5. gone = {w \in fired : wm >= Deadline(w)}
    <3>1. c.fired = fired
      BY <2>3
    <3> HIDE DEF c, fired
    <3> QED BY <3>1 DEF GarbageCollectable
  <2>6. b.panes = ErasePanes(st.panes, gone) /\ b.fired = fired \ gone /\ b.refired = {}
    <3>1. c.panes = st.panes /\ c.fired = fired /\ c.refired = {} /\ {} \ gone = {}
      BY <2>3
    <3> HIDE DEF c, gone, fired
    <3> QED BY <2>4, <3>1 DEF GarbageCollect
  <2> HIDE DEF f, c, gone
  <2>7. fired \subseteq Windows
    BY <1>1, <1>3
  <2>8. b.fired = {w \in fired : wm < Deadline(w)}
    <3>1. \A w \in fired : Deadline(w) \in Int
      BY <2>7, WindowEnds
    <3> QED BY <2>5, <2>6, <3>1
  <2>9. ASSUME NEW s \in Slots
        PROVE  /\ wm >= Deadline(s[1]) => b.panes[s] = NoPane
               /\ wm < Deadline(s[1]) => b.panes[s] = st.panes[s]
    <3>1. /\ s[1] \in gone => b.panes[s] = NoPane
          /\ s[1] \notin gone => b.panes[s] = st.panes[s]
      <4>1. s[1] \in gone => ErasePanes(st.panes, gone)[s] = NoPane
        BY EraseFields
      <4>2. s[1] \notin gone => ErasePanes(st.panes, gone)[s] = st.panes[s]
        BY EraseFields
      <4> QED BY <2>6, <4>1, <4>2
    <3>2. ASSUME wm >= Deadline(s[1]) PROVE b.panes[s] = NoPane
      <4>1. CASE st.panes[s].count > 0
        <5>1. s[1] \in fired
          BY <1>4, <3>2, <4>1
        <5> QED BY <2>5, <3>1, <3>2, <5>1
      <4>2. CASE ~(st.panes[s].count > 0)
        BY <1>1, <3>1, <4>2
      <4> QED BY <4>1, <4>2
    <3>3. ASSUME wm < Deadline(s[1]) PROVE b.panes[s] = st.panes[s]
      <4>1. s[1] \notin gone
        <5>1. Deadline(s[1]) \in Int
          BY SlotFacts, WindowEnds
        <5> QED BY <2>5, <3>3, <5>1
      <4> QED BY <3>1, <4>1
    <3> QED BY <3>2, <3>3
  <2> HIDE DEF fired
  <2>10. b.fired = {w \in st.fired \cup ExpiredWindows(st, wm) : wm < Deadline(w)}
    BY <1>2, <2>8 DEF fired
  <2> QED BY <1>0, <1>5, <2>6, <2>9, <2>10
<1>6. CASE AllowedLateness = 0 /\ ~UseLateness
  <2>1. b = [panes |-> ErasePanes(st.panes, x), fired |-> st.fired, refired |-> st.refired]
    BY <1>0, <1>2, <1>6, WatermarkZero
  <2>2. b.panes = ErasePanes(st.panes, x) /\ b.fired = {}
    BY <1>6, <2>1
  <2>3. ASSUME NEW s \in Slots
        PROVE  /\ wm >= Deadline(s[1]) => b.panes[s] = NoPane
               /\ wm < Deadline(s[1]) => b.panes[s] = st.panes[s]
    <3>1. s[1] \in x => b.panes[s] = NoPane
      BY <2>2, EraseFields
    <3>2. s[1] \notin x => b.panes[s] = st.panes[s]
      BY <2>2, EraseFields
    <3>3. Deadline(s[1]) = s[1].end /\ s[1].end \in Int
      BY <1>6, SlotFacts, WindowEnds
    <3>4. ASSUME wm >= Deadline(s[1]) PROVE b.panes[s] = NoPane
      <4>1. CASE st.panes[s].count > 0
        <5>1. s[1] \in x
          BY <1>4, <1>6, <3>3, <3>4, <4>1
        <5> QED BY <3>1, <5>1
      <4>2. CASE ~(st.panes[s].count > 0)
        BY <1>1, <3>1, <3>2, <4>2
      <4> QED BY <4>1, <4>2
    <3>5. ASSUME wm < Deadline(s[1]) PROVE b.panes[s] = st.panes[s]
      <4>1. s[1] \notin x
        BY <1>3, <3>3, <3>5
      <4> QED BY <3>2, <4>1
    <3> QED BY <3>4, <3>5
  <2> QED BY <1>0, <1>6, <2>2, <2>3
<1> QED BY <1>5, <1>6, LatenessCases

\* The slots a watermark emits, and those the final flush emits.
LEMMA EmitFields ==
    ASSUME NEW st, Sound(st), NEW wm \in Int, NEW s \in Slots
    PROVE  /\ s \in WatermarkEmits(st, wm) <=>
                 /\ st.panes[s].count > 0
                 /\ \/ s[1].end =< wm /\ s[1] \notin st.fired
                    \/ AllowedLateness # 0 /\ s[1] \in st.refired
           /\ s \in FlushEmits(st) <=>
                 /\ st.panes[s].count > 0
                 /\ AllowedLateness = 0 \/ s[1] \in st.refired \/ s[1] \notin st.fired
<1>1. s[1] \in Windows /\ s[2] \in Keys /\ s = <<s[1], s[2]>>
  BY SlotFacts
<1>2. st.panes[s].count > 0 => s[1] \in AllWindows(st)
  BY <1>1 DEF AllWindows
<1>3. st.panes[s].count > 0 => (s[1] \in ExpiredWindows(st, wm) <=> s[1].end =< wm /\ s[1] \notin st.fired)
  BY <1>2 DEF ExpiredWindows
<1>4. s \in WatermarkEmits(st, wm) <=>
         /\ st.panes[s].count > 0
         /\ s[1] \in ExpiredWindows(st, wm) \/ (UseLateness /\ s[1] \in st.refired)
  BY DEF WatermarkEmits, ResultSlots, LiveSlots
<1>5. s \in FlushEmits(st) <=>
         /\ st.panes[s].count > 0
         /\ IF UseLateness THEN s[1] \in st.refired \/ (s[1] \in AllWindows(st) /\ s[1] \notin st.fired)
                           ELSE s[1] \in AllWindows(st)
  BY DEF FlushEmits, ResultSlots, LiveSlots
<1> QED BY <1>2, <1>3, <1>4, <1>5, LatenessCases

-----------------------------------------------------------------------------
(***************************************************************************)
(* The uninterrupted run at a watermark wm, in state gs and with the       *)
(* results shown: a live slot shows its pane, or has taken in records      *)
(* since it was shown; a slot erased after it was shown is past its        *)
(* deadline, so that no record brings it back.                             *)
(***************************************************************************)
Fine(gs, wm, shown) ==
    /\ AllowedLateness = 0 => gs.fired = {}
    /\ \A w \in gs.fired : w.end =< wm
    /\ \A s \in Slots :
          /\ gs.panes[s].count > 0 => \/ shown[s] = gs.panes[s]
                                      \/ shown[s].count < gs.panes[s].count
          /\ gs.panes[s].count = 0 /\ shown[s].count > 0 => wm >= Deadline(s[1])

(***************************************************************************)
(* The state st of worker p beside that run.  It has the same panes for    *)
(* its keys, but not the same fired windows: one fired for other keys      *)
(* alone is not fired here, and if the worker has a pane in it the run is  *)
(* about to fire it again.  A pane the worker will not fire again is the   *)
(* one shown.                                                              *)
(***************************************************************************)
Shard(p, st, gs, shown) ==
    /\ Sound(st)
    /\ \A s \in Slots : st.panes[s] = IF s \in SlotsOf(p) THEN gs.panes[s] ELSE NoPane
    /\ st.fired \subseteq gs.fired /\ st.refired \subseteq gs.refired
    /\ \A s \in SlotsOf(p) : gs.panes[s].count > 0 =>
          /\ s[1] \in gs.fired /\ s[1] \notin st.fired => s[1] \in gs.refired
          /\ s[1] \in st.fired /\ s[1] \notin st.refired => shown[s] = gs.panes[s]

LEMMA SlotsOfFacts ==
    ASSUME NEW p
    PROVE  /\ SlotsOf(p) \subseteq Slots
           /\ \A s \in Slots : s \in SlotsOf(p) <=> s[2] \in KeysOf(p)
  BY DEF SlotsOf

\* Both start empty.
LEMMA ShardStarts ==
    ASSUME NEW p, NEW wm
    PROVE  Shard(p, EmptyState, EmptyState, NoResults) /\ Fine(EmptyState, wm, NoResults)
<1>1. /\ EmptyState.fired = {} /\ EmptyState.refired = {}
      /\ \A s \in Slots : EmptyState.panes[s] = NoPane /\ NoResults[s] = NoPane
  BY DEF EmptyState, NoResults
<1>2. NoPane.count = 0 /\ Sound(EmptyState)
  BY EmptySound
<1>3. SlotsOf(p) \subseteq Slots
  BY SlotsOfFacts
<1> QED BY <1>1, <1>2, <1>3 DEF Shard, Fine

(***************************************************************************)
(* A record.                                                               *)
(***************************************************************************)
LEMMA AddFine ==
    ASSUME NEW gs, Sound(gs), NEW wm \in Int, NEW shown \in [Slots -> Counted],
           Fine(gs, wm, shown), NEW key, NEW ws, NEW v \in Int, NEW b,
           b = AddWithLateness(gs, key, ws, v, wm)
    PROVE  /\ Fine(b, wm, shown)
           /\ \A s \in Slots : b.panes[s].count >= gs.panes[s].count
<1>1. PICK acc : acc = Accepting(ws, wm)
  OBVIOUS
<1>2. /\ \A s \in Slots :
            /\ s[1] \in acc /\ s[2] = key => b.panes[s] = PaneAdd(gs.panes[s], v)
            /\ ~(s[1] \in acc /\ s[2] = key) => b.panes[s] = gs.panes[s]
      /\ b.fired = gs.fired
  BY <1>1, AddFields
<1>3. \A s \in Slots : gs.panes[s].count \in Nat /\ shown[s].count \in Nat
  BY SoundFields DEF Counted
<1>4. \A s \in Slots : s[1] \in acc => ~(wm >= Deadline(s[1]))
  <2>1. \A s \in Slots : Deadline(s[1]) \in Int
    BY SlotFacts, WindowEnds
  <2> QED BY <1>1, <2>1 DEF Accepting
<1>5. ASSUME NEW s \in Slots, s[1] \in acc, s[2] = key
      PROVE  b.panes[s].count = gs.panes[s].count + 1
  <2>1. PICK q : q = gs.panes[s]
    OBVIOUS
  <2>2. b.panes[s] = [sum |-> q.sum + v, count |-> q.count + 1]
    BY <1>2, <1>5, <2>1 DEF PaneAdd
  <2> QED BY <2>1, <2>2
<1>6. ASSUME NEW s \in Slots
      PROVE  /\ b.panes[s].count > 0 => \/ shown[s] = b.panes[s]
                                        \/ shown[s].count < b.panes[s].count
             /\ b.panes[s].count = 0 /\ shown[s].count > 0 => wm >= Deadline(s[1])
             /\ b.panes[s].count >= gs.panes[s].count
  <2>1. /\ gs.panes[s].count > 0 => shown[s] = gs.panes[s] \/ shown[s].count < gs.panes[s].count
        /\ gs.panes[s].count = 0 /\ shown[s].count > 0 => wm >= Deadline(s[1])
    BY DEF Fine
  <2>2. CASE ~(s[1] \in acc /\ s[2] = key)
    BY <1>2, <1>3, <2>1, <2>2
  <2>3. CASE s[1] \in acc /\ s[2] = key
    <3>1. b.panes[s].count = gs.panes[s].count + 1 /\ gs.panes[s].count \in Nat /\ shown[s].count \in Nat
      BY <1>3, <1>5, <2>3
    <3>2. ~(wm >= Deadline(s[1]))
      BY <1>4, <2>3
    <3>3. shown[s].count =< gs.panes[s].count
      BY <2>1, <3>1, <3>2
    <3> QED BY <3>1, <3>3
  <2> QED BY <2>2, <2>3
<1>7. /\ AllowedLateness = 0 => b.fired = {}
      /\ \A w \in b.fired : w.end =< wm
  BY <1>2 DEF Fine
<1> QED BY <1>6, <1>7 DEF Fine

LEMMA AddShard ==
    ASSUME NEW p, NEW st, NEW gs, Sound(gs), NEW wm \in Int, NEW shown,
           Shard(p, st, gs, shown), NEW key, NEW ws, NEW v \in Int, NEW a, NEW b,
           b = AddWithLateness(gs, key, ws, v, wm),
           a = IF key \in KeysOf(p) THEN AddWithLateness(st, key, ws, v, wm) ELSE st
    PROVE  Shard(p, a, b, shown)
<1>1. PICK acc : acc = Accepting(ws, wm)
  OBVIOUS
<1>2. /\ \A s \in Slots :
            /\ s[1] \in acc /\ s[2] = key => b.panes[s] = PaneAdd(gs.panes[s], v)
            /\ ~(s[1] \in acc /\ s[2] = key) => b.panes[s] = gs.panes[s]
      /\ b.fired = gs.fired /\ b.refired = gs.refired \cup (acc \cap gs.fired)
  BY <1>1, AddFields
<1>3. /\ Sound(st) /\ st.fired \subseteq gs.fired /\ st.refired \subseteq gs.refired
      /\ \A s \in Slots : s \in SlotsOf(p) => st.panes[s] = gs.panes[s]
      /\ \A s \in Slots : s \notin SlotsOf(p) => st.panes[s] = NoPane
      /\ \A s \in SlotsOf(p) : gs.panes[s].count > 0 =>
            /\ s[1] \in gs.fired /\ s[1] \notin st.fired => s[1] \in gs.refired
            /\ s[1] \in st.fired /\ s[1] \notin st.refired => shown[s] = gs.panes[s]
  BY DEF Shard
<1>4. SlotsOf(p) \subseteq Slots /\ \A s \in Slots : s \in SlotsOf(p) <=> s[2] \in KeysOf(p)
  BY SlotsOfFacts
<1>5. \A s \in Slots : gs.panes[s].count \in Nat
  BY SoundFields
<1>6. CASE key \in KeysOf(p)
  <2>1. /\ \A s \in Slots :
              /\ s[1] \in acc /\ s[2] = key => a.panes[s] = PaneAdd(st.panes[s], v)
              /\ ~(s[1] \in acc /\ s[2] = key) => a.panes[s] = st.panes[s]
        /\ a.fired = st.fired /\ a.refired = st.refired \cup (acc \cap st.fired)
    BY <1>1, <1>6, AddFields
  <2>2. Sound(a)
    BY <1>3, <1>6, AddSound
  <2>3. \A s \in Slots : a.panes[s] = IF s \in SlotsOf(p) THEN b.panes[s] ELSE NoPane
    BY <1>2, <1>3, <1>4, <1>6, <2>1
  <2>4. a.fired \subseteq b.fired /\ a.refired \subseteq b.refired
    BY <1>2, <1>3, <2>1
  <2>5. ASSUME NEW s \in SlotsOf(p), b.panes[s].count > 0
        PROVE  /\ s[1] \in b.fired /\ s[1] \notin a.fired => s[1] \in b.refired
               /\ s[1] \in a.fired /\ s[1] \notin a.refired => shown[s] = b.panes[s]
    <3>1. CASE s[1] \in acc /\ s[2] = key
      BY <1>2, <1>3, <2>1, <3>1
    <3>2. CASE ~(s[1] \in acc /\ s[2] = key)
      <4>1. b.panes[s] = gs.panes[s]
        BY <1>2, <1>4, <3>2
      <4> QED BY <1>2, <1>3, <2>1, <2>5, <4>1
    <3> QED BY <3>1, <3>2
  <2> QED BY <2>2, <2>3, <2>4, <2>5 DEF Shard
<1>7. CASE key \notin KeysOf(p)
  <2>1. a = st
    BY <1>7
  <2>2. \A s \in SlotsOf(p) : b.panes[s] = gs.panes[s]
    BY <1>2, <1>4, <1>7
  <2>3. \A s \in Slots : a.panes[s] = IF s \in SlotsOf(p) THEN b.panes[s] ELSE NoPane
    BY <1>3, <2>1, <2>2
  <2>4. a.fired \subseteq b.fired /\ a.refired \subseteq b.refired
    BY <1>2, <1>3, <2>1
  <2>5. \A s \in SlotsOf(p) : b.panes[s].count > 0 =>
            /\ s[1] \in b.fired /\ s[1] \notin a.fired => s[1] \in b.refired
            /\ s[1] \in a.fired /\ s[1] \notin a.refired => shown[s] = b.panes[s]
    BY <1>2, <1>3, <2>1, <2>2
  <2> QED BY <1>3, <2>1, <2>3, <2>4, <2>5 DEF Shard
<1> QED BY <1>6, <1>7

(***************************************************************************)
(* A watermark: the worker emits the slots of its keys whose result        *)
(* changes, the run perhaps more.                                          *)
(***************************************************************************)
LEMMA WatermarkFine ==
    ASSUME NEW gs, Sound(gs), NEW wm \in Int, NEW next \in Int, next > wm,
           NEW shown \in [Slots -> Counted], Fine(gs, wm, shown), NEW shown2,
           \A s \in Slots : shown2[s] = IF s \in WatermarkEmits(gs, next) THEN gs.panes[s]
                                                                          ELSE shown[s]
    PROVE  Fine(AfterWatermark(gs, next), next, shown2)
<1>1. PICK b : b = AfterWatermark(gs, next)
  OBVIOUS
<1>2. AllowedLateness = 0 => gs.fired = {}
  BY DEF Fine
<1>3. /\ \A s \in Slots : /\ next >= Deadline(s[1]) => b.panes[s] = NoPane
                          /\ next < Deadline(s[1]) => b.panes[s] = gs.panes[s]
      /\ AllowedLateness = 0 => b.fired = {}
      /\ AllowedLateness # 0 =>
            b.fired = {w \in gs.fired \cup ExpiredWindows(gs, next) : next < Deadline(w)}
  BY <1>1, <1>2, WatermarkFields
<1>4. \A w \in b.fired : w.end =< next
  <2>1. \A w \in gs.fired : w.end =< wm /\ w.end \in Int
    BY SoundFields, WindowEnds DEF Fine
  <2>2. \A w \in ExpiredWindows(gs, next) : w.end =< next
    BY DEF ExpiredWindows
  <2> QED BY <1>3, <2>1, <2>2
<1>5. ASSUME NEW s \in Slots
      PROVE  /\ b.panes[s].count > 0 => \/ shown2[s] = b.panes[s]
                                        \/ shown2[s].count < b.panes[s].count
             /\ b.panes[s].count = 0 /\ shown2[s].count > 0 => next >= Deadline(s[1])
  <2>1. /\ gs.panes[s].count > 0 => shown[s] = gs.panes[s] \/ shown[s].count < gs.panes[s].count
        /\ gs.panes[s].count = 0 /\ shown[s].count > 0 => wm >= Deadline(s[1])
    BY DEF Fine
  <2>2. Deadline(s[1]) \in Int /\ NoPane.count = 0
    BY SlotFacts, WindowEnds, EmptySound
  <2>3. s \in WatermarkEmits(gs, next) => gs.panes[s].count > 0
    BY EmitFields
  <2>4. CASE next >= Deadline(s[1])
    BY <1>3, <2>2, <2>4
  <2>5. CASE next < Deadline(s[1])
    <3>1. b.panes[s] = gs.panes[s]
      BY <1>3, <2>5
    <3>2. ~(wm >= Deadline(s[1]))
      BY <2>2, <2>5
    <3>3. gs.panes[s].count \in Nat /\ shown[s].count \in Nat
      BY SoundFields DEF Counted
    <3> QED BY <2>1, <2>3, <3>1, <3>2, <3>3
  <2> QED BY <2>2, <2>4, <2>5
<1> QED BY <1>1, <1>3, <1>4, <1>5 DEF Fine

LEMMA WatermarkShard ==
    ASSUME NEW p, NEW a, NEW gs, Sound(gs), NEW wm \in Int, NEW next \in Int, next > wm,
           NEW shown \in [Slots -> Counted], Fine(gs, wm, shown), Shard(p, a, gs, shown), NEW shown2,
           \A s \in Slots : shown2[s] = IF s \in WatermarkEmits(gs, next) THEN gs.panes[s]
                                                                          ELSE shown[s]
    PROVE  /\ WatermarkEmits(a, next) \subseteq SlotsOf(p)
           /\ \A s \in SlotsOf(p) : shown2[s] = IF s \in WatermarkEmits(a, next) THEN a.panes[s]
                                                                                 ELSE shown[s]
           /\ Shard(p, AfterWatermark(a, next), AfterWatermark(gs, next), shown2)
           /\ \A s \in SlotsOf(p) :
                 s \notin WatermarkEmits(a, next) /\ shown[s].count < gs.panes[s].count =>
                     shown2[s].count < AfterWatermark(gs, next).panes[s].count
<1>1. PICK b, c : b = AfterWatermark(gs, next) /\ c = AfterWatermark(a, next)
  OBVIOUS
<1>2. /\ AllowedLateness = 0 => gs.fired = {}
      /\ \A w \in gs.fired : w.end =< wm /\ w.end =< next
  <2>1. \A w \in gs.fired : w.end =< wm /\ w.end \in Int
    BY SoundFields, WindowEnds DEF Fine
  <2> QED BY <2>1 DEF Fine
<1>3. /\ Sound(a) /\ a.fired \subseteq gs.fired /\ a.refired \subseteq gs.refired
      /\ gs.refired \subseteq gs.fired
      /\ \A s \in SlotsOf(p) : a.panes[s] = gs.panes[s]
      /\ \A s \in Slots : s \notin SlotsOf(p) => a.panes[s] = NoPane
      /\ \A s \in SlotsOf(p) : gs.panes[s].count > 0 =>
            /\ s[1] \in gs.fired /\ s[1] \notin a.fired => s[1] \in gs.refired
            /\ s[1] \in a.fired /\ s[1] \notin a.refired => shown[s] = gs.panes[s]
  <2>1. gs.refired \subseteq gs.fired
    BY SoundFields
  <2>2. SlotsOf(p) \subseteq Slots
    BY SlotsOfFacts
  <2> QED BY <2>1, <2>2 DEF Shard
<1>4. SlotsOf(p) \subseteq Slots /\ \A s \in Slots : s \in SlotsOf(p) <=> s[2] \in KeysOf(p)
  BY SlotsOfFacts
<1>5. /\ \A s \in Slots : /\ next >= Deadline(s[1]) => b.panes[s] = NoPane
                          /\ next < Deadline(s[1]) => b.panes[s] = gs.panes[s]
      /\ AllowedLateness = 0 => b.fired = {}
      /\ AllowedLateness # 0 =>
            /\ b.fired = {w \in gs.fired \cup ExpiredWindows(gs, next) : next < Deadline(w)}
            /\ b.refired = {}
  BY <1>1, <1>2, WatermarkFields
<1>6. /\ \A s \in Slots : /\ next >= Deadline(s[1]) => c.panes[s] = NoPane
                          /\ next < Deadline(s[1]) => c.panes[s] = a.panes[s]
      /\ AllowedLateness = 0 => c.fired = {}
      /\ AllowedLateness # 0 =>
            /\ c.fired = {w \in a.fired \cup ExpiredWindows(a, next) : next < Deadline(w)}
            /\ c.refired = {}
  <2>1. AllowedLateness = 0 => a.fired = {}
    BY <1>2, <1>3
  <2> QED BY <1>1, <1>3, <2>1, WatermarkFields
<1>7. /\ \A s \in Slots : s \in WatermarkEmits(a, next) <=>
            /\ a.panes[s].count > 0
            /\ (s[1].end =< next /\ s[1] \notin a.fired) \/ (AllowedLateness # 0 /\ s[1] \in a.refired)
      /\ \A s \in Slots : s \in WatermarkEmits(gs, next) <=>
            /\ gs.panes[s].count > 0
            /\ (s[1].end =< next /\ s[1] \notin gs.fired) \/ (AllowedLateness # 0 /\ s[1] \in gs.refired)
  BY <1>3, EmitFields
<1>8. WatermarkEmits(a, next) \subseteq SlotsOf(p)
  <2>1. WatermarkEmits(a, next) \subseteq Slots
    BY DEF WatermarkEmits, ResultSlots, LiveSlots
  <2>2. NoPane.count = 0
    BY EmptySound
  <2> QED BY <1>3, <1>7, <2>1, <2>2
<1>9. ASSUME NEW s \in SlotsOf(p), gs.panes[s].count > 0
      PROVE  /\ s \in WatermarkEmits(a, next) => s \in WatermarkEmits(gs, next)
             /\ s \notin WatermarkEmits(a, next) /\ s \in WatermarkEmits(gs, next) =>
                   shown[s] = gs.panes[s]
             /\ s \notin WatermarkEmits(a, next) /\ s[1].end =< next => shown[s] = gs.panes[s]
  BY <1>2, <1>3, <1>4, <1>7, <1>9
<1>10. ASSUME NEW s \in SlotsOf(p)
       PROVE  shown2[s] = IF s \in WatermarkEmits(a, next) THEN a.panes[s] ELSE shown[s]
  <2>1. s \in Slots /\ a.panes[s] = gs.panes[s]
    BY <1>3, <1>4
  <2>2. CASE gs.panes[s].count > 0
    BY <1>9, <2>1, <2>2
  <2>3. CASE ~(gs.panes[s].count > 0)
    BY <1>7, <2>1, <2>3
  <2> QED BY <2>2, <2>3
<1>11. \A s \in Slots : c.panes[s] = IF s \in SlotsOf(p) THEN b.panes[s] ELSE NoPane
  <2>1. \A s \in Slots : next >= Deadline(s[1]) \/ next < Deadline(s[1])
    BY SlotFacts, WindowEnds
  <2> QED BY <1>3, <1>5, <1>6, <2>1
<1>12. Sound(c)
  BY <1>1, <1>3, WatermarkSound
<1>13. Shard(p, c, b, shown2)
  <2>1. CASE AllowedLateness = 0
    <3>1. b.fired = {} /\ c.fired = {} /\ c.refired = {}
      BY <1>5, <1>6, <1>12, <2>1, SoundFields
    <3> QED BY <1>11, <1>12, <3>1 DEF Shard
  <2>2. CASE AllowedLateness # 0
    <3>1. ASSUME NEW w \in ExpiredWindows(a, next)
          PROVE  w \in gs.fired \cup ExpiredWindows(gs, next)
      <4>1. w \in Windows /\ w.end =< next /\ \E k \in Keys : a.panes[<<w, k>>].count > 0
        BY DEF ExpiredWindows, AllWindows
      <4>2. PICK k \in Keys : a.panes[<<w, k>>].count > 0
        BY <4>1
      <4>3. <<w, k>> \in Slots
        BY <4>1 DEF Slots
      <4>4. gs.panes[<<w, k>>].count > 0
        <5>1. NoPane.count = 0
          BY EmptySound
        <5> QED BY <1>3, <4>2, <4>3, <5>1
      <4>5. w \in AllWindows(gs)
        BY <4>1, <4>4 DEF AllWindows
      <4> QED BY <4>1, <4>5 DEF ExpiredWindows
    <3>2. c.fired \subseteq b.fired /\ c.refired \subseteq b.refired
      BY <1>3, <1>5, <1>6, <2>2, <3>1
    <3>3. ASSUME NEW s \in SlotsOf(p), b.panes[s].count > 0
          PROVE  /\ s[1] \in b.fired => s[1] \in c.fired
                 /\ s[1] \in c.fired => shown2[s] = b.panes[s]
      <4>1. s \in Slots /\ Deadline(s[1]) \in Int /\ NoPane.count = 0 /\ a.panes[s] = gs.panes[s]
        BY <1>3, <1>4, SlotFacts, WindowEnds, EmptySound
      <4>2. next < Deadline(s[1]) /\ b.panes[s] = gs.panes[s]
        BY <1>5, <3>3, <4>1
      <4>3. gs.panes[s].count > 0 /\ a.panes[s].count > 0
        BY <3>3, <4>1, <4>2
      <4>4. s[1] \in AllWindows(a)
        <5>1. s[1] \in Windows /\ s[2] \in Keys /\ s = <<s[1], s[2]>>
          BY <4>1, SlotFacts
        <5> QED BY <4>3, <5>1 DEF AllWindows
      <4>5. ASSUME s[1] \in b.fired PROVE s[1] \in c.fired
        <5>1. s[1].end =< next
          <6>1. s[1] \in gs.fired \/ s[1] \in ExpiredWindows(gs, next)
            BY <1>5, <2>2, <4>5
          <6> QED BY <1>2, <6>1 DEF ExpiredWindows
        <5>2. s[1] \in a.fired \/ s[1] \in ExpiredWindows(a, next)
          BY <4>4, <5>1 DEF ExpiredWindows
        <5> QED BY <1>6, <2>2, <4>2, <5>2
      <4>6. ASSUME s[1] \in c.fired PROVE shown2[s] = b.panes[s]
        <5>1. s[1] \in a.fired \/ s[1] \in ExpiredWindows(a, next)
          BY <1>6, <2>2, <4>6
        <5>2. s[1].end =< next
          BY <1>2, <1>3, <5>1 DEF ExpiredWindows
        <5>3. CASE s \in WatermarkEmits(a, next)
          BY <1>10, <4>1, <4>2, <5>3
        <5>4. CASE s \notin WatermarkEmits(a, next)
          BY <1>9, <1>10, <4>2, <4>3, <5>2, <5>4
        <5> QED BY <5>3, <5>4
      <4> QED BY <4>5, <4>6
    <3> QED BY <1>11, <1>12, <3>2, <3>3 DEF Shard
  <2> QED BY <2>1, <2>2
<1>14. ASSUME NEW s \in SlotsOf(p), s \notin WatermarkEmits(a, next),
              shown[s].count < gs.panes[s].count
       PROVE  shown2[s].count < b.panes[s].count
  <2>1. s \in Slots /\ Deadline(s[1]) \in Int /\ s[1].end \in Int /\ s[1].end =< Deadline(s[1])
    BY <1>4, SlotFacts, WindowEnds
  <2>2. shown[s].count \in Nat /\ gs.panes[s].count \in Nat
    BY <2>1, SoundFields DEF Counted
  <2>3. gs.panes[s].count > 0 /\ shown[s] # gs.panes[s]
    BY <1>14, <2>2
  <2>4. ~(s[1].end =< next)
    BY <1>9, <1>14, <2>3
  <2>5. next < Deadline(s[1])
    BY <2>1, <2>4
  <2>6. shown2[s] = shown[s] /\ b.panes[s] = gs.panes[s]
    BY <1>5, <1>10, <1>14, <2>1, <2>5
  <2> QED BY <1>14, <2>6
<1> QED BY <1>1, <1>8, <1>10, <1>13, <1>14

-----------------------------------------------------------------------------
(***************************************************************************)
(* A record and the watermark behind it, for the worker and for the run.   *)
(***************************************************************************)
LEMMA RunItemsFields ==
    ASSUME NEW st, NEW wm, NEW r, NEW x, NEW keys, NEW added, NEW next, NEW a,
           next = SourceWatermark(x),
           added = IF r.key \in keys
                   THEN AddWithLateness(st, r.key, WindowsOf(r.time), r.value, wm) ELSE st,
           a = RunItems(st, wm, r, x, keys)
    PROVE  /\ WatermarkDue(x) /\ next > wm =>
                /\ a.state = AfterWatermark(added, next) /\ a.watermark = next
                /\ \A s \in Slots : a.results[s] = IF s \in WatermarkEmits(added, next)
                                                   THEN added.panes[s] ELSE NoPane
           /\ ~(WatermarkDue(x) /\ next > wm) =>
                /\ a.state = added /\ a.watermark = wm
                /\ \A s \in Slots : a.results[s] = NoPane
<1>1. CASE WatermarkDue(x) /\ next > wm
  <2>1. PICK e : e = [s \in Slots |-> IF s \in WatermarkEmits(added, next)
                                      THEN added.panes[s] ELSE NoPane]
    OBVIOUS
  <2>2. a = [state |-> AfterWatermark(added, next), watermark |-> next, results |-> e]
    BY <1>1, <2>1 DEF RunItems
  <2>3. a.state = AfterWatermark(added, next) /\ a.watermark = next /\ a.results = e
    BY <2>2
  <2>4. \A s \in Slots : e[s] = IF s \in WatermarkEmits(added, next) THEN added.panes[s] ELSE NoPane
    BY <2>1
  <2> QED BY <1>1, <2>3, <2>4
<1>2. CASE ~(WatermarkDue(x) /\ next > wm)
  <2>1. a = [state |-> added, watermark |-> wm, results |-> NoResults]
    BY <1>2 DEF RunItems
  <2>2. a.state = added /\ a.watermark = wm /\ a.results = NoResults
    BY <2>1
  <2>3. \A s \in Slots : NoResults[s] = NoPane
    BY DEF NoResults
  <2> QED BY <1>2, <2>2, <2>3
<1> QED BY <1>1, <1>2

LEMMA PointParts ==
    ASSUME NEW gs, NEW wm, NEW shown, NEW h, h.state = gs, h.watermark = wm, h.latest = shown,
           NEW r, NEW x, x = Drawn(h.source, r), NEW b, b = RunItems(gs, wm, r, x, Keys),
           NEW g, g = Point(h, r)
    PROVE  /\ g.state = b.state /\ g.watermark = b.watermark /\ g.source = x
           /\ \A s \in Slots : g.latest[s] = IF b.results[s].count > 0 THEN b.results[s]
                                                                       ELSE shown[s]
<1>1. PICK o : o = Overlay(b.results, shown)
  OBVIOUS
<1>2. g = [state |-> b.state, watermark |-> b.watermark, latest |-> o, source |-> x]
  BY <1>1 DEF Point
<1>3. g.state = b.state /\ g.watermark = b.watermark /\ g.latest = o /\ g.source = x
  BY <1>2
<1>4. \A s \in Slots : o[s] = IF b.results[s].count > 0 THEN b.results[s] ELSE shown[s]
  BY <1>1 DEF Overlay
<1> QED BY <1>3, <1>4

LEMMA AddCounts ==
    ASSUME NEW gs, Sound(gs), NEW wm, NEW shown \in [Slots -> Counted], NEW key, NEW ws,
           NEW v \in Int, NEW b, b = AddWithLateness(gs, key, ws, v, wm), NEW s \in Slots
    PROVE  /\ shown[s].count \in Nat /\ gs.panes[s].count \in Nat /\ b.panes[s].count \in Nat
           /\ b.panes[s].count >= gs.panes[s].count
<1>1. shown[s].count \in Nat
  BY DEF Counted
<1>2. PICK q : q = gs.panes[s] /\ q.count \in Nat
  BY SoundFields
<1>3. b.panes[s] = PaneAdd(q, v) \/ b.panes[s] = q
  BY <1>2, AddFields
<1>4. PaneAdd(q, v).count = q.count + 1
  BY DEF PaneAdd
<1> QED BY <1>1, <1>2, <1>3, <1>4

\* What the worker's next step has to do with the run's, from point h to g.
InStep(p, h, g, r) ==
    \A st, a : Shard(p, st, h.state, h.latest)
               /\ a = RunItems(st, h.watermark, r, g.source, KeysOf(p)) =>
        /\ Shard(p, a.state, g.state, g.latest) /\ a.watermark = g.watermark
        /\ \A s \in Slots : s \notin SlotsOf(p) => a.results[s].count = 0
        /\ \A s \in SlotsOf(p) :
              /\ g.latest[s] = IF a.results[s].count > 0 THEN a.results[s] ELSE h.latest[s]
              /\ a.results[s].count = 0 /\ h.latest[s].count < h.state.panes[s].count =>
                    g.latest[s].count < g.state.panes[s].count

LEMMA ItemsStep ==
    ASSUME NEW p, NEW h \in Points, NEW r \in Records,
           Fine(h.state, h.watermark, h.latest), NEW g, g = Point(h, r)
    PROVE  Fine(g.state, g.watermark, g.latest) /\ InStep(p, h, g, r)
<1>0. PICK x \in Generators : x = Drawn(h.source, r)
  BY PointFields, DrawnType
<1>1. PICK gs, wm, shown : gs = h.state /\ wm = h.watermark /\ shown = h.latest
  OBVIOUS
<1>2. Sound(gs) /\ wm \in Int /\ shown \in [Slots -> Counted] /\ Fine(gs, wm, shown)
  BY <1>1, PointFields
<1>3. r.key \in Keys /\ r.value \in Int
  BY WindowAssumption DEF Records
<1>4. PICK next \in Int : next = SourceWatermark(x)
  BY SourceWatermarkType
<1>5. PICK ws : ws = WindowsOf(r.time)
  OBVIOUS
<1>6. PICK gadded : gadded = AddWithLateness(gs, r.key, ws, r.value, wm)
  OBVIOUS
<1>7. PICK b : b = RunItems(gs, wm, r, x, Keys)
  OBVIOUS
<1>8. /\ g.state = b.state /\ g.watermark = b.watermark /\ g.source = x
      /\ \A s \in Slots : g.latest[s] = IF b.results[s].count > 0 THEN b.results[s] ELSE shown[s]
  BY <1>0, <1>1, <1>7, PointParts
<1>9. Sound(gadded) /\ Fine(gadded, wm, shown)
  <2>1. Sound(gadded)
    BY <1>2, <1>3, <1>6, AddSound
  <2> QED BY <1>2, <1>3, <1>6, <2>1, AddFine
<1>10. gadded = IF r.key \in Keys THEN AddWithLateness(gs, r.key, WindowsOf(r.time), r.value, wm) ELSE gs
  BY <1>3, <1>5, <1>6
<1>11. /\ WatermarkDue(x) /\ next > wm =>
                /\ b.state = AfterWatermark(gadded, next) /\ b.watermark = next
                /\ \A s \in Slots : b.results[s] = IF s \in WatermarkEmits(gadded, next)
                                                   THEN gadded.panes[s] ELSE NoPane
       /\ ~(WatermarkDue(x) /\ next > wm) =>
                /\ b.state = gadded /\ b.watermark = wm
                /\ \A s \in Slots : b.results[s] = NoPane
  BY <1>3, <1>4, <1>7, <1>10, RunItemsFields
<1>12. NoPane.count = 0
  BY EmptySound
<1>13. \A s \in WatermarkEmits(gadded, next) : gadded.panes[s].count > 0
  BY DEF WatermarkEmits, ResultSlots, LiveSlots
<1>14. PICK st2, wm2, shown2 : st2 = g.state /\ wm2 = g.watermark /\ shown2 = g.latest
  OBVIOUS
<1>15. CASE WatermarkDue(x) /\ next > wm
  <2>1. \A s \in Slots : shown2[s] = IF s \in WatermarkEmits(gadded, next) THEN gadded.panes[s]
                                                                          ELSE shown[s]
    BY <1>8, <1>11, <1>12, <1>13, <1>14, <1>15
  <2>2. st2 = AfterWatermark(gadded, next) /\ wm2 = next
    BY <1>8, <1>11, <1>14, <1>15
  <2>3. Fine(st2, wm2, shown2)
    BY <1>2, <1>9, <1>15, <2>1, <2>2, WatermarkFine
  <2>4. ASSUME NEW st, NEW a, Shard(p, st, gs, shown), a = RunItems(st, wm, r, x, KeysOf(p))
        PROVE  /\ Shard(p, a.state, st2, shown2) /\ a.watermark = wm2
               /\ \A s \in Slots : s \notin SlotsOf(p) => a.results[s].count = 0
               /\ \A s \in SlotsOf(p) :
                     /\ shown2[s] = IF a.results[s].count > 0 THEN a.results[s] ELSE shown[s]
                     /\ a.results[s].count = 0 /\ shown[s].count < gs.panes[s].count =>
                            shown2[s].count < st2.panes[s].count
    <3>1. PICK added : added = IF r.key \in KeysOf(p)
                               THEN AddWithLateness(st, r.key, ws, r.value, wm) ELSE st
      OBVIOUS
    <3>2. Shard(p, added, gadded, shown)
      BY <1>2, <1>3, <1>6, <2>4, <3>1, AddShard
    <3>3. /\ a.state = AfterWatermark(added, next) /\ a.watermark = next
          /\ \A s \in Slots : a.results[s] = IF s \in WatermarkEmits(added, next)
                                             THEN added.panes[s] ELSE NoPane
      BY <1>3, <1>4, <1>5, <1>15, <2>4, <3>1, RunItemsFields
    <3>4. /\ WatermarkEmits(added, next) \subseteq SlotsOf(p)
          /\ \A s \in SlotsOf(p) : shown2[s] = IF s \in WatermarkEmits(added, next)
                                               THEN added.panes[s] ELSE shown[s]
          /\ Shard(p, AfterWatermark(added, next), AfterWatermark(gadded, next), shown2)
          /\ \A s \in SlotsOf(p) :
                s \notin WatermarkEmits(added, next) /\ shown[s].count < gadded.panes[s].count =>
                    shown2[s].count < AfterWatermark(gadded, next).panes[s].count
      BY <1>2, <1>9, <1>15, <2>1, <3>2, WatermarkShard
    <3>5. \A s \in SlotsOf(p) : shown2[s] = IF s \in WatermarkEmits(added, next) THEN added.panes[s]
                                                                                ELSE shown[s]
      BY <3>4
    <3>6. Shard(p, AfterWatermark(added, next), AfterWatermark(gadded, next), shown2)
      BY <3>4
    <3>7. \A s \in SlotsOf(p) :
             s \notin WatermarkEmits(added, next) /\ shown[s].count < gadded.panes[s].count =>
                 shown2[s].count < AfterWatermark(gadded, next).panes[s].count
      BY <3>4
    <3>8. \A s \in WatermarkEmits(added, next) : added.panes[s].count > 0
      BY DEF WatermarkEmits, ResultSlots, LiveSlots
    <3>9. SlotsOf(p) \subseteq Slots
      BY SlotsOfFacts
    <3>10. \A s \in Slots : shown[s].count \in Nat /\ gs.panes[s].count \in Nat
                            /\ gadded.panes[s].count \in Nat
                            /\ gadded.panes[s].count >= gs.panes[s].count
      BY <1>2, <1>3, <1>6, <1>9, AddCounts
    <3>11. ASSUME NEW s \in SlotsOf(p), a.results[s].count = 0, shown[s].count < gs.panes[s].count
           PROVE  shown2[s].count < st2.panes[s].count
      <4>1. s \notin WatermarkEmits(added, next)
        BY <3>3, <3>8, <3>9, <3>11
      <4>2. shown[s].count < gadded.panes[s].count
        BY <3>9, <3>10, <3>11
      <4> QED BY <2>2, <3>7, <4>1, <4>2
    <3>12. ASSUME NEW s \in SlotsOf(p)
           PROVE  shown2[s] = IF a.results[s].count > 0 THEN a.results[s] ELSE shown[s]
      BY <1>12, <3>3, <3>5, <3>8, <3>9
    <3>13. \A s \in Slots : s \notin SlotsOf(p) => a.results[s].count = 0
      BY <1>12, <3>3, <3>4
    <3> QED BY <2>2, <3>3, <3>6, <3>11, <3>12, <3>13
  <2> QED BY <1>1, <1>8, <1>14, <2>3, <2>4 DEF InStep
<1>16. CASE ~(WatermarkDue(x) /\ next > wm)
  <2>1. \A s \in Slots : shown2[s] = shown[s]
    BY <1>8, <1>11, <1>12, <1>14, <1>16
  <2>2. st2 = gadded /\ wm2 = wm
    BY <1>8, <1>11, <1>14, <1>16
  <2>3. Fine(st2, wm2, shown2)
    BY <1>9, <2>1, <2>2 DEF Fine
  <2>4. ASSUME NEW st, NEW a, Shard(p, st, gs, shown), a = RunItems(st, wm, r, x, KeysOf(p))
        PROVE  /\ Shard(p, a.state, st2, shown2) /\ a.watermark = wm2
               /\ \A s \in Slots : s \notin SlotsOf(p) => a.results[s].count = 0
               /\ \A s \in SlotsOf(p) :
                     /\ shown2[s] = IF a.results[s].count > 0 THEN a.results[s] ELSE shown[s]
                     /\ a.results[s].count = 0 /\ shown[s].count < gs.panes[s].count =>
                            shown2[s].count < st2.panes[s].count
    <3>1. PICK added : added = IF r.key \in KeysOf(p)
                               THEN AddWithLateness(st, r.key, ws, r.value, wm) ELSE st
      OBVIOUS
    <3>2. Shard(p, added, gadded, shown)
      BY <1>2, <1>3, <1>6, <2>4, <3>1, AddShard
    <3>3. a.state = added /\ a.watermark = wm /\ \A s \in Slots : a.results[s] = NoPane
      BY <1>3, <1>4, <1>5, <1>16, <2>4, <3>1, RunItemsFields
    <3>4. SlotsOf(p) \subseteq Slots
      BY SlotsOfFacts
    <3>5. Shard(p, added, gadded, shown2)
      BY <2>1, <3>2, <3>4 DEF Shard
    <3>6. \A s \in Slots : shown[s].count \in Nat /\ gs.panes[s].count \in Nat
                           /\ gadded.panes[s].count \in Nat
                           /\ gadded.panes[s].count >= gs.panes[s].count
      BY <1>2, <1>3, <1>6, <1>9, AddCounts
    <3>7. \A s \in SlotsOf(p) :
             shown[s].count < gs.panes[s].count => shown2[s].count < st2.panes[s].count
      BY <2>1, <2>2, <3>4, <3>6
    <3> QED BY <1>12, <2>1, <2>2, <3>3, <3>4, <3>5, <3>7
  <2> QED BY <1>1, <1>8, <1>14, <2>3, <2>4 DEF InStep
<1> QED BY <1>15, <1>16

(***************************************************************************)
(* The final flush: a worker that has passed the point h emits for its     *)
(* keys what the run shows once it has finished there.                     *)
(***************************************************************************)
LEMMA FlushStep ==
    ASSUME NEW p, NEW h \in Points, Fine(h.state, h.watermark, h.latest), NEW st,
           Shard(p, st, h.state, h.latest), NEW s \in SlotsOf(p)
    PROVE  /\ s \in FlushEmits(st) => st.panes[s].count > 0 /\ st.panes[s] = h.state.panes[s]
           /\ Finished(h)[s] = IF s \in FlushEmits(st) THEN st.panes[s] ELSE h.latest[s]
           /\ h.latest[s].count < h.state.panes[s].count => s \in FlushEmits(st)
           /\ \A t \in FlushEmits(st) : t \in SlotsOf(p)
<1>1. PICK gs, shown : gs = h.state /\ shown = h.latest
  OBVIOUS
<1>2. Sound(gs) /\ shown \in [Slots -> Counted] /\ h.watermark \in Int
  BY <1>1, PointFields
<1>3. s \in Slots /\ SlotsOf(p) \subseteq Slots
  BY SlotsOfFacts
<1>4. shown[s].count \in Nat /\ gs.panes[s].count \in Nat
  BY <1>2, <1>3, SoundFields DEF Counted
<1>5. /\ Sound(st) /\ st.panes[s] = gs.panes[s]
      /\ st.fired \subseteq gs.fired /\ st.refired \subseteq gs.refired
      /\ AllowedLateness = 0 => gs.fired = {}
      /\ \A t \in Slots : t \notin SlotsOf(p) => st.panes[t] = NoPane
      /\ gs.panes[s].count > 0 =>
            /\ s[1] \in gs.fired /\ s[1] \notin st.fired => s[1] \in gs.refired
            /\ s[1] \in st.fired /\ s[1] \notin st.refired => shown[s] = gs.panes[s]
  BY <1>1, <1>3 DEF Shard, Fine
<1>6. /\ s \in FlushEmits(st) <=> /\ st.panes[s].count > 0
                                  /\ AllowedLateness = 0 \/ s[1] \in st.refired \/ s[1] \notin st.fired
      /\ s \in FlushEmits(gs) <=> /\ gs.panes[s].count > 0
                                  /\ AllowedLateness = 0 \/ s[1] \in gs.refired \/ s[1] \notin gs.fired
  BY <1>2, <1>3, <1>5, EmitFields
<1>7. Finished(h)[s] = IF s \in FlushEmits(gs) THEN gs.panes[s] ELSE shown[s]
  <2>1. PICK x : x = FlushResults(gs)
    OBVIOUS
  <2>2. x[s] = IF s \in FlushEmits(gs) THEN gs.panes[s] ELSE NoPane
    BY <1>3, <2>1 DEF FlushResults
  <2>3. Finished(h)[s] = IF x[s].count > 0 THEN x[s] ELSE shown[s]
    BY <1>1, <1>3, <2>1 DEF Finished, Overlay
  <2>4. NoPane.count = 0
    BY EmptySound
  <2> QED BY <1>6, <2>2, <2>3, <2>4
<1>8. s \in FlushEmits(st) => s \in FlushEmits(gs)
  BY <1>5, <1>6
<1>9. s \notin FlushEmits(st) /\ gs.panes[s].count > 0 => shown[s] = gs.panes[s]
  BY <1>5, <1>6
<1>10. \A t \in FlushEmits(st) : t \in SlotsOf(p)
  <2>1. \A t \in FlushEmits(st) : t \in Slots /\ st.panes[t].count > 0
    BY DEF FlushEmits, ResultSlots, LiveSlots
  <2>2. NoPane.count = 0
    BY EmptySound
  <2> QED BY <1>5, <2>1, <2>2
<1>11. shown[s].count < gs.panes[s].count => s \in FlushEmits(st)
  BY <1>4, <1>9
<1>12. Finished(h)[s] = IF s \in FlushEmits(st) THEN st.panes[s] ELSE shown[s]
  BY <1>4, <1>5, <1>6, <1>7, <1>8, <1>9
<1> QED BY <1>1, <1>5, <1>6, <1>10, <1>11, <1>12

-----------------------------------------------------------------------------
(***************************************************************************)
(* The inductive invariant.  The uninterrupted run on the records drawn is *)
(* as above at every point.                                                *)
(***************************************************************************)
ShardAt(h, p, st, n) == Shard(p, st, h[n + 1].state, h[n + 1].latest)
FineAt(x) == Fine(x.state, x.watermark, x.latest)

RunOK ==
    /\ log \in Seq(Records) /\ Len(log) =< NumRecords
    /\ Past(history, log) /\ Len(history) = Len(log) + 1
    /\ \A n \in 1..Len(history) : FineAt(history[n])
    /\ routed \in Nat /\ routed =< Len(log) /\ Chain(source, log, routed)
    /\ mode \in {"down", "running", "suspended", "stopped", "done"}
    /\ ended \in {"no", "eos", "suspend"}

\* A checkpoint is what its worker had at its offset.
IsCheckpoint(h, p, f) ==
    /\ f.offset \in Nat /\ f.offset < Len(h)
    /\ \E st : /\ ShardAt(h, p, st, f.offset)
               /\ f = File(Capture(st, h[f.offset + 1].watermark, f.offset))

Checkpoints(h, dirs) ==
    /\ dirs = [p \in Partitions |-> dirs[p]]
    /\ \A p \in Partitions : \A f \in dirs[p] : IsCheckpoint(h, p, f)

Has(dirs, p, o) == \E f \in dirs[p] : f.offset = o

\* The offset a worker in its barrier is at: a due one, or the last of all.
BarrierAt(n) == n % CheckpointInterval = 0
AtBarrier(o) == (BarrierAt(o) /\ o >= 1) \/ (ended = "suspend" /\ o = routed)

\* A due offset not below the retained ones that a worker has passed.
Passed(w, b) ==
    /\ b \in Nat /\ b >= 1 /\ BarrierAt(b)
    /\ complete_ # << >> => b >= complete_[1]
    /\ b < w.applied \/ (b = w.applied /\ w.pc # "due")

Shape(w) ==
    w = [state |-> w.state, watermark |-> w.watermark, applied |-> w.applied,
         outbox |-> w.outbox, pc |-> w.pc, offset |-> w.offset, last |-> w.last,
         seen |-> w.seen]

\* Worker p, being w, between its barriers and at the end.
Progress(p, w) ==
    /\ Shape(w)
    /\ w.applied \in Nat /\ w.applied =< routed /\ w.pc \in PCs
    /\ w.pc \notin {"run", "exited"} => mode = "running"
    /\ w.pc \in {"due", "written"} => w.offset = w.applied /\ AtBarrier(w.applied)
    /\ w.pc = "written" => Has(files, p, w.applied)
    /\ w.pc = "pruning" => complete_ # << >>
    /\ w.last => ended = "suspend" /\ w.applied = routed
    /\ w.last /\ w.pc \in {"written", "pruning", "reported", "store"} => Has(files, p, routed)
    /\ w.pc \in {"flushing", "exited"} => ended # "no" /\ w.applied = routed
    /\ w.pc = "flushing" => ended = "eos"
    /\ w.pc = "exited" /\ ended = "suspend" => Has(files, p, routed)
    /\ mode = "running" /\ w.pc \notin {"flushing", "exited"} =>
          /\ ShardAt(history, p, w.state, w.applied)
          /\ w.watermark = history[w.applied + 1].watermark

\* No due offset is skipped.
AllWritten(p, w) == \A b \in Nat : Passed(w, b) => Has(files, p, b)

WorkersOK ==
    /\ worker = [p \in Partitions |-> worker[p]]
    /\ \A p \in Partitions : Progress(p, worker[p]) /\ AllWritten(p, worker[p])
    /\ mode \notin {"down", "running"} => \A p \in Partitions : worker[p].pc = "exited"
    /\ mode = "suspended" => ended = "suspend"
    /\ mode = "done" => ended = "eos" /\ routed = NumRecords

\* The tracker: retained offsets ascend and can be restored; none is above
\* what a worker has reported or applied.
Ascending(offsets) == \A i, j \in 1..Len(offsets) : i < j => offsets[i] < offsets[j]

TrackerOK ==
    /\ complete_ \in Seq(Nat) /\ Ascending(complete_)
    /\ \A i \in 1..Len(complete_) : \A p \in Partitions :
          /\ Has(files, p, complete_[i]) /\ complete_[i] =< worker[p].applied
          /\ latest_[p] # None => complete_[i] =< latest_[p]
    /\ latest_ = [p \in Partitions |-> latest_[p]]
    /\ \A p \in Partitions : latest_[p] # None =>
          /\ latest_[p] \in Nat /\ latest_[p] =< worker[p].applied
          /\ AtBarrier(latest_[p]) /\ Has(files, p, latest_[p])

IInv == RunOK /\ Checkpoints(history, files) /\ WorkersOK /\ TrackerOK

-----------------------------------------------------------------------------
(***************************************************************************)
(* Files.  Every file loads, so that the common offsets are those of which *)
(* every partition has a file.                                             *)
(***************************************************************************)
LEMMA CheckpointFacts ==
    ASSUME NEW h, NEW p, NEW f, IsCheckpoint(h, p, f)
    PROVE  /\ f.offset \in Nat /\ f.offset < Len(h) /\ Loadable(f)
           /\ ShardAt(h, p, RestoreState(f.data), f.offset)
           /\ f.data.watermark = h[f.offset + 1].watermark
<1>1. PICK o, wm : o = f.offset /\ wm = h[f.offset + 1].watermark
  OBVIOUS
<1>2. PICK st : ShardAt(h, p, st, o) /\ f = File(Capture(st, wm, o))
  BY <1>1 DEF IsCheckpoint
<1>3. Sound(st)
  BY <1>2 DEF ShardAt, Shard
<1>4. PICK data : data = Capture(st, wm, o)
  OBVIOUS
<1>5. f.data = data /\ data.watermark = wm
  <2>1. f = [offset |-> data.offset, crc_ok |-> TRUE, data |-> data]
    BY <1>2, <1>4 DEF File
  <2> QED BY <1>4, <2>1 DEF Capture
<1>6. RestoreState(data) = st /\ Loadable(f)
  BY <1>2, <1>3, <1>4, RoundTrip
<1> QED BY <1>1, <1>2, <1>5, <1>6 DEF IsCheckpoint

LEMMA CommonFacts ==
    ASSUME NEW h, NEW dirs, Checkpoints(h, dirs), NEW o
    PROVE  o \in CommonOffsets(dirs) <=> \A p \in Partitions : Has(dirs, p, o)
<1>1. DOMAIN dirs = Partitions
  <2>1. dirs = [p \in Partitions |-> dirs[p]]
    BY DEF Checkpoints
  <2> QED BY <2>1
<1>2. \A p \in Partitions : \A f \in dirs[p] : Loadable(f)
  BY CheckpointFacts DEF Checkpoints
<1>3. \A p \in Partitions : o \in ValidOffsets(dirs[p]) <=> Has(dirs, p, o)
  BY <1>2 DEF ValidOffsets, Has
<1>4. \E p : p \in Partitions
  BY PartitionAssumption
<1> QED BY <1>1, <1>3, <1>4 DEF CommonOffsets

LEMMA CommonBounded ==
    ASSUME NEW h, NEW dirs, Checkpoints(h, dirs), NEW o \in CommonOffsets(dirs)
    PROVE  o \in Nat /\ o < Len(h)
<1>1. PICK p \in Partitions : TRUE
  BY PartitionAssumption
<1>2. PICK f \in dirs[p] : f.offset = o
  BY CommonFacts DEF Has
<1>3. IsCheckpoint(h, p, f)
  BY <1>2 DEF Checkpoints
<1> QED BY <1>2, <1>3 DEF IsCheckpoint

\* The history of a longer run serves as well.
LEMMA CheckpointsLonger ==
    ASSUME NEW h, NEW g, Len(h) \in Nat, Len(g) \in Nat, Len(h) =< Len(g),
           \A i \in 1..Len(h) : g[i] = h[i], NEW dirs, Checkpoints(h, dirs)
    PROVE  Checkpoints(g, dirs)
<1> SUFFICES ASSUME NEW p \in Partitions, NEW f \in dirs[p] PROVE IsCheckpoint(g, p, f)
  BY DEF Checkpoints
<1>1. IsCheckpoint(h, p, f)
  BY DEF Checkpoints
<1>2. f.offset \in Nat /\ f.offset < Len(h)
  BY <1>1 DEF IsCheckpoint
<1>3. f.offset + 1 \in 1..Len(h) /\ f.offset < Len(g)
  BY <1>2
<1>4. g[f.offset + 1] = h[f.offset + 1]
  BY <1>3
<1> QED BY <1>1, <1>2, <1>3, <1>4 DEF IsCheckpoint, ShardAt

\* The file a worker publishes.
Grown(dirs, new) == \A q \in Partitions, b \in Nat : Has(dirs, q, b) => Has(new, q, b)
Publishes(dirs, p, data, new) == new = [dirs EXCEPT ![p] = Publish(@, data)]

LEMMA Published ==
    ASSUME NEW h, NEW dirs, Checkpoints(h, dirs), NEW p \in Partitions, NEW o \in Nat, o < Len(h),
           NEW st, ShardAt(h, p, st, o), NEW wm, wm = h[o + 1].watermark, NEW new,
           NEW data, data = Capture(st, wm, o), Publishes(dirs, p, data, new)
    PROVE  /\ Checkpoints(h, new)
           /\ Grown(dirs, new)
           /\ Has(new, p, o)
           /\ \A q \in Partitions : \A f \in new[q] : f \in dirs[q] \/ (q = p /\ f.offset = o)
<1>1. data = Capture(st, wm, o)
  OBVIOUS
<1>2. PICK f0 : f0 = File(data)
  OBVIOUS
<1>3. data.offset = o
  BY <1>1 DEF Capture
<1>4. f0.offset = o
  <2>1. f0 = [offset |-> data.offset, crc_ok |-> TRUE, data |-> data]
    BY <1>2 DEF File
  <2> QED BY <1>3, <2>1
<1>5. IsCheckpoint(h, p, f0)
  BY <1>1, <1>2, <1>4 DEF IsCheckpoint
<1>6. dirs = [q \in Partitions |-> dirs[q]]
  BY DEF Checkpoints
<1>7. /\ new = [q \in Partitions |-> new[q]] /\ new[p] = {f \in dirs[p] : f.offset # o} \cup {f0}
      /\ \A q \in Partitions : q # p => new[q] = dirs[q]
  BY <1>1, <1>2, <1>3, <1>6 DEF Publish, Publishes
<1>8. \A q \in Partitions : \A f \in new[q] : f \in dirs[q] \/ (q = p /\ f = f0)
  BY <1>7
<1>9. Checkpoints(h, new)
  BY <1>5, <1>7, <1>8 DEF Checkpoints
<1>10. ASSUME NEW q \in Partitions, NEW b \in Nat, Has(dirs, q, b) PROVE Has(new, q, b)
  <2>1. PICK f \in dirs[q] : f.offset = b
    BY <1>10 DEF Has
  <2>2. CASE q # p
    BY <1>7, <2>1, <2>2 DEF Has
  <2>3. CASE q = p /\ b = o
    BY <1>4, <1>7, <2>3 DEF Has
  <2>4. CASE q = p /\ b # o
    BY <1>7, <2>1, <2>4 DEF Has
  <2> QED BY <2>2, <2>3, <2>4
<1>11. Has(new, p, o)
  BY <1>4, <1>7 DEF Has
<1> QED BY <1>4, <1>8, <1>9, <1>10, <1>11 DEF Grown

\* Pruning below an offset.
KeptFrom(dirs, new, b0) ==
    \A q \in Partitions, b \in Nat : b >= b0 /\ Has(dirs, q, b) => Has(new, q, b)
Removes(dirs, r, f0, new) == new = [dirs EXCEPT ![r] = @ \ {f0}]

LEMMA Pruned ==
    ASSUME NEW h, NEW dirs, Checkpoints(h, dirs), NEW r \in Partitions, NEW f0 \in dirs[r],
           NEW b0 \in Nat, f0.offset < b0, NEW new, Removes(dirs, r, f0, new)
    PROVE  /\ Checkpoints(h, new)
           /\ KeptFrom(dirs, new, b0)
           /\ \A q \in Partitions : new[q] \subseteq dirs[q]
<1>1. dirs = [q \in Partitions |-> dirs[q]]
  BY DEF Checkpoints
<1>2. /\ new = [q \in Partitions |-> new[q]] /\ new[r] = dirs[r] \ {f0}
      /\ \A q \in Partitions : q # r => new[q] = dirs[q]
  BY <1>1 DEF Removes
<1>3. Checkpoints(h, new)
  BY <1>2 DEF Checkpoints
<1>4. ASSUME NEW q \in Partitions, NEW b \in Nat, b >= b0, Has(dirs, q, b) PROVE Has(new, q, b)
  <2>1. PICK f \in dirs[q] : f.offset = b
    BY <1>4 DEF Has
  <2>2. f # f0
    <3>1. f0.offset \in Nat
      BY DEF Checkpoints, IsCheckpoint
    <3> QED BY <1>4, <2>1, <3>1
  <2> QED BY <1>2, <2>1, <2>2 DEF Has
<1> QED BY <1>2, <1>3, <1>4 DEF KeptFrom

\* What restoring a common offset yields.
LEMMA Restored ==
    ASSUME NEW h, NEW dirs, Checkpoints(h, dirs), NEW o \in CommonOffsets(dirs), NEW p \in Partitions,
           NEW data, data = (CHOOSE f \in dirs[p] : Loadable(f) /\ f.offset = o).data
    PROVE  ShardAt(h, p, RestoreState(data), o) /\ data.watermark = h[o + 1].watermark
<1>1. PICK f \in dirs[p] : f.offset = o
  BY CommonFacts DEF Has
<1>2. Loadable(f)
  BY CheckpointFacts DEF Checkpoints
<1>3. PICK g : g = CHOOSE x \in dirs[p] : Loadable(x) /\ x.offset = o
  OBVIOUS
<1>4. g \in dirs[p] /\ g.offset = o
  BY <1>1, <1>2, <1>3
<1>5. IsCheckpoint(h, p, g)
  BY <1>4 DEF Checkpoints
<1>6. data = g.data
  BY <1>3
<1> QED BY <1>4, <1>5, <1>6, CheckpointFacts

-----------------------------------------------------------------------------
(***************************************************************************)
(* The invariant holds initially and is kept by every action.              *)
(***************************************************************************)
LEMMA NewWorkerFields ==
    ASSUME NEW st, NEW wm, NEW o, NEW w, w = NewWorker(st, wm, o)
    PROVE  /\ Shape(w) /\ w.state = st /\ w.watermark = wm /\ w.applied = o
           /\ w.outbox = NoResults /\ w.pc = "run" /\ w.offset = None /\ ~w.last
  BY DEF NewWorker, Shape

LEMMA NonePlain == None \notin Nat
  BY DEF None

\* Workers at the start of a run, fresh or restored at a common offset.
LEMMA StartsOK ==
    ASSUME NEW h, NEW p \in Partitions, NEW o \in Nat, NEW st, NEW wm,
           ShardAt(h, p, st, o), wm = h[o + 1].watermark,
           worker'[p] = NewWorker(st, wm, o), history' = h, routed' = o, ended' = "no",
           \/ complete_' = << >> /\ o = 0
           \/ complete_' = <<o>> /\ Has(files', p, o)
    PROVE  Progress(p, worker[p])' /\ AllWritten(p, worker[p])'
<1>1. PICK w : w = worker'[p]
  OBVIOUS
<1>2. /\ Shape(w) /\ w.state = st /\ w.watermark = wm /\ w.applied = o
      /\ w.pc = "run" /\ ~w.last
  BY <1>1, NewWorkerFields
<1>3. Progress(p, worker[p])'
  BY <1>1, <1>2 DEF Progress, PCs
<1>4. ASSUME NEW b \in Nat, Passed(worker[p], b)' PROVE Has(files', p, b)
  <2>1. /\ b >= 1 /\ b =< o
        /\ complete_' # << >> => b >= complete_'[1]
    BY <1>1, <1>2, <1>4 DEF Passed
  <2>2. complete_' = <<o>> /\ Has(files', p, o)
    BY <2>1
  <2>3. b = o
    BY <2>1, <2>2
  <2> QED BY <2>2, <2>3
<1>5. AllWritten(p, worker[p])'
  BY <1>4 DEF AllWritten
<1> QED BY <1>3, <1>5

LEMMA PointsStart == \A p : ShardAt(NewHistory, p, EmptyState, 0)
                            /\ FineAt(NewHistory[1]) /\ NewHistory[1].watermark = MinTime
<1>1. NewHistory[1] = [state |-> EmptyState, watermark |-> MinTime, latest |-> NoResults,
                       source |-> NewGenerator]
  BY DEF NewHistory
<1>2. PICK x : x = NewHistory[1]
  OBVIOUS
<1>3. x.state = EmptyState /\ x.watermark = MinTime /\ x.latest = NoResults
  BY <1>1, <1>2
<1>4. NewHistory[0 + 1] = x
  BY <1>2
<1> QED BY <1>2, <1>3, <1>4, ShardStarts DEF ShardAt, FineAt

\* The first point of any run is that one.
LEMMA FirstPoint ==
    ASSUME NEW h, NEW records, Past(h, records)
    PROVE  \A p : ShardAt(h, p, EmptyState, 0) /\ h[0 + 1].watermark = MinTime
<1>1. h[0 + 1] = NewHistory[0 + 1] /\ NewHistory[0 + 1] = NewHistory[1]
  BY DEF Past
<1> QED BY <1>1, PointsStart DEF ShardAt

LEMMA InitInv == Init => IInv
<1> SUFFICES ASSUME Init PROVE IInv
  OBVIOUS
<1> USE DEF Init
<1>1. /\ log = << >> /\ log \in Seq(Records) /\ Len(log) = 0 /\ NumRecords \in Nat
      /\ history = NewHistory /\ Len(history) = 1
  BY SourceAssumption DEF NewHistory
<1>2. RunOK
  <2>1. Chain(source, log, routed)
    BY ChainStarts
  <2> QED BY <1>1, <2>1, PastStarts, PointsStart DEF RunOK
<1>3. Checkpoints(history, files)
  BY DEF Checkpoints
<1>4. ASSUME NEW p \in Partitions PROVE Progress(p, worker[p]) /\ AllWritten(p, worker[p])
  <2>1. PICK w : w = worker[p] /\ w = NewWorker(EmptyState, MinTime, 0)
    BY DEF FreshWorkers
  <2>2. /\ Shape(w) /\ w.state = EmptyState /\ w.watermark = MinTime /\ w.applied = 0
        /\ w.pc = "run" /\ ~w.last
    BY <2>1, NewWorkerFields
  <2>3. Progress(p, w)
    BY <2>2 DEF Progress, PCs
  <2>4. \A b \in Nat : ~Passed(w, b)
    BY <2>2 DEF Passed
  <2> QED BY <2>1, <2>3, <2>4 DEF AllWritten
<1>5. WorkersOK
  <2>1. worker = [p \in Partitions |-> worker[p]]
    BY DEF FreshWorkers
  <2> QED BY <1>4, <2>1 DEF WorkersOK
<1>6. TrackerOK
  <2>1. complete_ \in Seq(Nat) /\ Len(complete_) = 0
    OBVIOUS
  <2>2. latest_ = [p \in Partitions |-> latest_[p]] /\ \A p \in Partitions : latest_[p] = None
    BY DEF NoReports
  <2> QED BY <2>1, <2>2 DEF TrackerOK, Ascending
<1> QED BY <1>2, <1>3, <1>5, <1>6 DEF IInv

LEMMA StartStep == IInv /\ Start => IInv'
<1> SUFFICES ASSUME IInv, Start PROVE IInv'
  OBVIOUS
<1>0. /\ mode' = "running" /\ ended' = "no" /\ latest_' = NoReports
      /\ files' = files /\ history' = history /\ log' = log
  BY DEF Start, disk, ghost
<1>1. Past(history, log) /\ Checkpoints(history, files) /\ Len(log) \in Nat
      /\ Len(history) = Len(log) + 1 /\ log \in Seq(Records)
  BY LenProperties DEF IInv, RunOK
<1>2. \E o \in Nat :
         /\ routed' = o /\ o =< Len(log) /\ Chain(source', log, o)
         /\ worker' = [p \in Partitions |-> worker'[p]]
         /\ \A p \in Partitions : \E st, wm :
               /\ ShardAt(history, p, st, o) /\ wm = history[o + 1].watermark
               /\ worker'[p] = NewWorker(st, wm, o)
         /\ \/ complete_' = << >> /\ o = 0
            \/ complete_' = <<o>> /\ \A p \in Partitions : Has(files', p, o)
  <2>1. CASE HighestComplete(files) = {}
    <3>1. worker' = FreshWorkers /\ routed' = 0 /\ complete_' = << >>
      BY <2>1 DEF Start
    <3>2. worker' = [p \in Partitions |-> worker'[p]]
          /\ \A p \in Partitions : worker'[p] = NewWorker(EmptyState, MinTime, 0)
      BY <3>1 DEF FreshWorkers
    <3>3. \A p : ShardAt(history, p, EmptyState, 0) /\ MinTime = history[0 + 1].watermark
      BY <1>1, FirstPoint
    <3>4. 0 \in Nat /\ 0 =< Len(log) /\ Chain(source', log, 0)
      BY <1>1, <2>1, ChainStarts DEF Start
    <3> QED BY <3>1, <3>2, <3>3, <3>4
  <2>2. CASE HighestComplete(files) # {}
    <3>1. PICK o \in HighestComplete(files) :
             /\ worker' = [p \in Partitions |->
                   LET data == RestorePoint(p, o).data
                   IN  NewWorker(RestoreState(data), data.watermark, o)]
             /\ routed' = o /\ source' = Seek(log, o) /\ complete_' = <<o>>
      BY <2>2 DEF Start
    <3>2. o \in CommonOffsets(files)
      BY DEF HighestComplete
    <3>3. o \in Nat /\ o < Len(history)
      BY <1>1, <3>2, CommonBounded
    <3>4. \A p \in Partitions : Has(files', p, o)
      BY <1>0, <1>1, <3>2, CommonFacts
    <3>5. ASSUME NEW p \in Partitions
          PROVE  \E st, wm : /\ ShardAt(history, p, st, o) /\ wm = history[o + 1].watermark
                             /\ worker'[p] = NewWorker(st, wm, o)
      <4>1. PICK data : data = RestorePoint(p, o).data
        OBVIOUS
      <4>2. worker'[p] = NewWorker(RestoreState(data), data.watermark, o)
        BY <3>1, <4>1
      <4>3. ShardAt(history, p, RestoreState(data), o) /\ data.watermark = history[o + 1].watermark
        BY <1>1, <3>2, <4>1, Restored DEF RestorePoint
      <4> QED BY <4>2, <4>3
    <3>6. worker' = [p \in Partitions |-> worker'[p]]
      BY <3>1
    <3>7. routed' = o /\ o =< Len(log) /\ Chain(source', log, o)
      BY <1>1, <3>1, <3>3, SeekChain
    <3> QED BY <3>1, <3>3, <3>4, <3>5, <3>6, <3>7
  <2> QED BY <2>1, <2>2
<1>3. PICK o \in Nat :
         /\ routed' = o /\ o =< Len(log) /\ Chain(source', log, o)
         /\ worker' = [p \in Partitions |-> worker'[p]]
         /\ \A p \in Partitions : \E st, wm :
               /\ ShardAt(history, p, st, o) /\ wm = history[o + 1].watermark
               /\ worker'[p] = NewWorker(st, wm, o)
         /\ \/ complete_' = << >> /\ o = 0
            \/ complete_' = <<o>> /\ \A p \in Partitions : Has(files', p, o)
  BY <1>2
<1>4. RunOK'
  BY <1>0, <1>3 DEF IInv, RunOK
<1>5. Checkpoints(history, files)'
  BY <1>0, <1>1
<1>6. ASSUME NEW p \in Partitions
      PROVE  Progress(p, worker[p])' /\ AllWritten(p, worker[p])' /\ worker'[p].applied = o
  <2>1. PICK st, wm : /\ ShardAt(history, p, st, o) /\ wm = history[o + 1].watermark
                      /\ worker'[p] = NewWorker(st, wm, o)
    BY <1>3
  <2>2. \/ complete_' = << >> /\ o = 0
        \/ complete_' = <<o>> /\ Has(files', p, o)
    BY <1>3
  <2>3. Progress(p, worker[p])' /\ AllWritten(p, worker[p])'
    BY <1>0, <1>3, <2>1, <2>2, StartsOK
  <2> QED BY <2>1, <2>3, NewWorkerFields
<1>7. WorkersOK'
  BY <1>0, <1>3, <1>6 DEF WorkersOK
<1>8. TrackerOK'
  <2>1. latest_' = [p \in Partitions |-> latest_'[p]] /\ \A p \in Partitions : latest_'[p] = None
    BY <1>0 DEF NoReports
  <2>2. CASE complete_' = << >>
    <3>1. complete_' \in Seq(Nat) /\ Len(complete_') = 0
      BY <2>2
    <3> QED BY <2>1, <3>1 DEF TrackerOK, Ascending
  <2>3. CASE complete_' = <<o>> /\ \A p \in Partitions : Has(files', p, o)
    <3>1. complete_' \in Seq(Nat) /\ Len(complete_') = 1 /\ complete_'[1] = o
      BY <2>3
    <3> QED BY <1>6, <2>1, <2>3, <3>1 DEF TrackerOK, Ascending
  <2> QED BY <1>3, <2>2, <2>3
<1> QED BY <1>4, <1>5, <1>7, <1>8 DEF IInv

LEMMA CrashStep == IInv /\ Crash => IInv'
<1> SUFFICES ASSUME IInv, Crash PROVE IInv'
  OBVIOUS
<1>0. /\ mode' = "down" /\ ended' = "no" /\ latest_' = NoReports /\ routed' = 0
      /\ source' = <<NewGenerator>>
      /\ files' = files /\ history' = history /\ log' = log
      /\ worker' = FreshWorkers /\ complete_' = << >>
  BY DEF Crash, disk, ghost
<1>1. Past(history, log) /\ Checkpoints(history, files) /\ Len(log) \in Nat
  BY LenProperties DEF IInv, RunOK
<1>2. RunOK'
  <2>1. Chain(source', log', routed')
    BY <1>0, ChainStarts
  <2> QED BY <1>0, <1>1, <2>1 DEF IInv, RunOK
<1>3. ASSUME NEW p \in Partitions
      PROVE  Progress(p, worker[p])' /\ AllWritten(p, worker[p])'
  <2>1. worker'[p] = NewWorker(EmptyState, MinTime, 0)
    BY <1>0 DEF FreshWorkers
  <2>2. ShardAt(history, p, EmptyState, 0) /\ MinTime = history[0 + 1].watermark
    BY <1>1, FirstPoint
  <2> QED BY <1>0, <2>1, <2>2, StartsOK
<1>4. WorkersOK'
  <2>1. worker' = [p \in Partitions |-> worker'[p]]
    BY <1>0 DEF FreshWorkers
  <2> QED BY <1>0, <1>3, <2>1 DEF WorkersOK
<1>5. TrackerOK'
  <2>1. complete_' \in Seq(Nat) /\ Len(complete_') = 0
    BY <1>0
  <2>2. latest_' = [p \in Partitions |-> latest_'[p]] /\ \A p \in Partitions : latest_'[p] = None
    BY <1>0 DEF NoReports
  <2> QED BY <2>1, <2>2 DEF TrackerOK, Ascending
<1> QED BY <1>0, <1>1, <1>2, <1>4, <1>5 DEF IInv

-----------------------------------------------------------------------------
(***************************************************************************)
(* The steps of a worker, field by field.                                  *)
(***************************************************************************)
LEMMA WorkerShape ==
    ASSUME IInv
    PROVE  worker = [p \in Partitions |-> worker[p]] /\ \A p \in Partitions : Shape(worker[p])
  BY DEF IInv, WorkersOK, Progress

\* All fields but the outbox, the program counter and the barrier's.
SameWork(v, w) == v.state = w.state /\ v.watermark = w.watermark /\ v.applied = w.applied

LEMMA SetPc ==
    ASSUME NEW w, Shape(w), NEW x, NEW v, v = [w EXCEPT !.pc = x]
    PROVE  /\ Shape(v) /\ SameWork(v, w) /\ v.pc = x /\ v.outbox = w.outbox
           /\ v.offset = w.offset /\ v.last = w.last /\ v.seen = w.seen
<1>1. v = [state |-> w.state, watermark |-> w.watermark, applied |-> w.applied,
           outbox |-> w.outbox, pc |-> x, offset |-> w.offset, last |-> w.last, seen |-> w.seen]
  BY DEF Shape
<1> QED BY <1>1 DEF Shape, SameWork

\* What worker w makes of record n, with the source of the run.
WorkerItems(w, n, keys) ==
    RunItems(w.state, w.watermark, log[n], history[n + 1].source, keys)

LEMMA ApplyMoves ==
    ASSUME IInv, NEW p \in Partitions, ApplyNext(p)
    PROVE  \E v, a :
              /\ worker' = [worker EXCEPT ![p] = v]
              /\ a = WorkerItems(worker[p], worker[p].applied + 1, KeysOf(p))
              /\ Shape(v) /\ v.state = a.state /\ v.watermark = a.watermark
              /\ v.applied = worker[p].applied + 1 /\ v.outbox = a.results
              /\ v.pc = (IF BarrierAt(v.applied) THEN "due" ELSE "run")
              /\ v.offset = (IF BarrierAt(v.applied) THEN v.applied ELSE None)
              /\ v.last = worker[p].last
<1>1. PICK w : w = worker[p] /\ Shape(w)
  BY WorkerShape
<1>2. PICK n, a : n = w.applied + 1 /\ a = WorkerItems(w, n, KeysOf(p))
  OBVIOUS
<1>0. PICK g : /\ g = source[n + 1] /\ g = history[n + 1].source /\ g.offset = n
               /\ BarrierDue(g) <=> BarrierAt(n)
  <2>1. w.applied \in Nat /\ w.applied < routed /\ routed \in Nat /\ routed =< Len(log)
        /\ Len(history) = Len(log) + 1 /\ Past(history, log) /\ Chain(source, log, routed)
        /\ log \in Seq(Records)
    BY <1>1 DEF IInv, RunOK, WorkersOK, Progress, ApplyNext
  <2>2. n \in Nat /\ n \in 0..routed /\ n < Len(history) /\ n =< routed
    BY <1>2, <2>1, LenProperties
  <2>3. source[n + 1] = history[n + 1].source
    BY <2>1, <2>2, PastChain
  <2>4. source[n + 1].offset = n /\ (BarrierDue(source[n + 1]) <=> BarrierAt(n))
    BY <2>1, <2>2, ChainOffset DEF BarrierAt
  <2> QED BY <2>3, <2>4
<1>3. PICK x, o : /\ x = IF BarrierAt(n) THEN "due" ELSE "run"
                  /\ o = IF BarrierAt(n) THEN n ELSE None
  OBVIOUS
<1>4. PICK v : v = [w EXCEPT !.applied = n, !.state = a.state, !.watermark = a.watermark,
                             !.outbox = a.results, !.pc = x, !.offset = o]
  OBVIOUS
<1>5. worker' = [worker EXCEPT ![p] = v]
  <2>1. a = RunItems(w.state, w.watermark, log[n], g, KeysOf(p))
    BY <1>0, <1>2 DEF WorkerItems
  <2>2. /\ x = IF BarrierDue(g) THEN "due" ELSE "run"
        /\ o = IF BarrierDue(g) THEN g.offset ELSE None
    BY <1>0, <1>3
  <2> QED BY <1>0, <1>1, <1>2, <1>4, <2>1, <2>2 DEF ApplyNext
<1>6. v = [state |-> a.state, watermark |-> a.watermark, applied |-> n, outbox |-> a.results,
           pc |-> x, offset |-> o, last |-> w.last, seen |-> w.seen]
  BY <1>1, <1>4 DEF Shape
<1>7. /\ Shape(v) /\ v.state = a.state /\ v.watermark = a.watermark /\ v.applied = n
      /\ v.outbox = a.results /\ v.pc = x /\ v.offset = o /\ v.last = w.last
  BY <1>6 DEF Shape
<1> QED BY <1>1, <1>2, <1>3, <1>5, <1>7

LEMMA EmitMoves ==
    ASSUME IInv, NEW p \in Partitions, NEW s \in Slots, EmitResult(p, s)
    PROVE  \E v : /\ worker' = [worker EXCEPT ![p] = v]
                  /\ Shape(v) /\ SameWork(v, worker[p]) /\ v.pc = worker[p].pc
                  /\ v.outbox = [worker[p].outbox EXCEPT ![s] = NoPane]
                  /\ v.offset = worker[p].offset /\ v.last = worker[p].last
<1>1. PICK w : w = worker[p] /\ Shape(w)
  BY WorkerShape
<1>2. PICK o : o = [w.outbox EXCEPT ![s] = NoPane]
  OBVIOUS
<1>3. PICK v : v = [w EXCEPT !.outbox = o]
  OBVIOUS
<1>4. worker' = [worker EXCEPT ![p] = v]
  BY <1>1, <1>2, <1>3 DEF EmitResult
<1>5. v = [state |-> w.state, watermark |-> w.watermark, applied |-> w.applied, outbox |-> o,
           pc |-> w.pc, offset |-> w.offset, last |-> w.last, seen |-> w.seen]
  BY <1>1, <1>3 DEF Shape
<1>6. /\ Shape(v) /\ SameWork(v, w) /\ v.pc = w.pc /\ v.outbox = o
      /\ v.offset = w.offset /\ v.last = w.last
  BY <1>5 DEF Shape, SameWork
<1> QED BY <1>1, <1>2, <1>4, <1>6

LEMMA SuspendMoves ==
    ASSUME IInv, NEW p \in Partitions, SuspendBarrier(p)
    PROVE  \E v : /\ worker' = [worker EXCEPT ![p] = v]
                  /\ Shape(v) /\ SameWork(v, worker[p]) /\ v.pc = "due"
                  /\ v.outbox = worker[p].outbox /\ v.offset = routed /\ v.last
<1>1. PICK w : w = worker[p] /\ Shape(w)
  BY WorkerShape
<1>0. CurrentOffset(source) = routed
  BY ChainOffset DEF IInv, RunOK
<1>2. PICK v : v = [w EXCEPT !.pc = "due", !.offset = routed, !.last = TRUE]
  OBVIOUS
<1>3. worker' = [worker EXCEPT ![p] = v]
  BY <1>0, <1>1, <1>2, WorkerShape DEF SuspendBarrier
<1>4. v = [state |-> w.state, watermark |-> w.watermark, applied |-> w.applied,
           outbox |-> w.outbox, pc |-> "due", offset |-> routed, last |-> TRUE, seen |-> w.seen]
  BY <1>1, <1>2 DEF Shape
<1>5. /\ Shape(v) /\ SameWork(v, w) /\ v.pc = "due" /\ v.outbox = w.outbox
      /\ v.offset = routed /\ v.last
  BY <1>4 DEF Shape, SameWork
<1> QED BY <1>1, <1>3, <1>5

LEMMA ReadMoves ==
    ASSUME IInv, NEW p \in Partitions, ReadComplete(p)
    PROVE  \E v : /\ worker' = [worker EXCEPT ![p] = v]
                  /\ Shape(v) /\ SameWork(v, worker[p]) /\ v.pc = "store"
                  /\ v.outbox = worker[p].outbox /\ v.offset = worker[p].offset
                  /\ v.last = worker[p].last
<1>1. PICK w : w = worker[p] /\ Shape(w)
  BY WorkerShape
<1>2. PICK x : x = IF complete_ = << >> THEN None ELSE complete_[Len(complete_)]
  OBVIOUS
<1>3. PICK v : v = [w EXCEPT !.pc = "store", !.seen = x]
  OBVIOUS
<1>4. worker' = [worker EXCEPT ![p] = v]
  BY <1>1, <1>2, <1>3, WorkerShape DEF ReadComplete
<1>5. v = [state |-> w.state, watermark |-> w.watermark, applied |-> w.applied,
           outbox |-> w.outbox, pc |-> "store", offset |-> w.offset, last |-> w.last, seen |-> x]
  BY <1>1, <1>3 DEF Shape
<1>6. /\ Shape(v) /\ SameWork(v, w) /\ v.pc = "store" /\ v.outbox = w.outbox
      /\ v.offset = w.offset /\ v.last = w.last
  BY <1>5 DEF Shape, SameWork
<1> QED BY <1>1, <1>4, <1>6

LEMMA StoreMoves ==
    ASSUME IInv, NEW p \in Partitions, StoreComplete(p)
    PROVE  \E v : /\ worker' = [worker EXCEPT ![p] = v]
                  /\ Shape(v) /\ SameWork(v, worker[p])
                  /\ v.pc = (IF worker[p].last THEN "exited" ELSE "run")
                  /\ v.outbox = worker[p].outbox /\ v.last = worker[p].last
<1>1. PICK w : w = worker[p] /\ Shape(w)
  BY WorkerShape
<1>2. PICK x : x = IF w.last THEN "exited" ELSE "run"
  OBVIOUS
<1>3. PICK v : v = [w EXCEPT !.pc = x, !.offset = None, !.seen = None]
  OBVIOUS
<1>4. worker' = [worker EXCEPT ![p] = v]
  BY <1>1, <1>2, <1>3, WorkerShape DEF StoreComplete
<1>5. v = [state |-> w.state, watermark |-> w.watermark, applied |-> w.applied,
           outbox |-> w.outbox, pc |-> x, offset |-> None, last |-> w.last, seen |-> None]
  BY <1>1, <1>3 DEF Shape
<1>6. /\ Shape(v) /\ SameWork(v, w) /\ v.pc = x /\ v.outbox = w.outbox /\ v.last = w.last
  BY <1>5 DEF Shape, SameWork
<1> QED BY <1>1, <1>2, <1>4, <1>6

LEMMA FlushMoves ==
    ASSUME IInv, NEW p \in Partitions, BeginFinalFlush(p)
    PROVE  \E v : /\ worker' = [worker EXCEPT ![p] = v]
                  /\ Shape(v) /\ v.applied = worker[p].applied /\ v.pc = "flushing"
                  /\ v.outbox = FlushResults(worker[p].state) /\ v.last = worker[p].last
<1>1. PICK w : w = worker[p] /\ Shape(w)
  BY WorkerShape
<1>2. PICK o, st : o = FlushResults(w.state) /\ st = AfterFlush(w.state)
  OBVIOUS
<1>3. PICK v : v = [w EXCEPT !.pc = "flushing", !.outbox = o, !.state = st]
  OBVIOUS
<1>4. worker' = [worker EXCEPT ![p] = v]
  BY <1>1, <1>2, <1>3, WorkerShape DEF BeginFinalFlush
<1>5. v = [state |-> st, watermark |-> w.watermark, applied |-> w.applied, outbox |-> o,
           pc |-> "flushing", offset |-> w.offset, last |-> w.last, seen |-> w.seen]
  BY <1>1, <1>3 DEF Shape
<1>6. /\ Shape(v) /\ v.applied = w.applied /\ v.pc = "flushing" /\ v.outbox = o
      /\ v.last = w.last
  BY <1>5 DEF Shape
<1> QED BY <1>1, <1>2, <1>4, <1>6

\* A step that touches no more than the worker itself.
LEMMA LocalStep ==
    ASSUME IInv, NEW p \in Partitions, NEW v, worker' = [worker EXCEPT ![p] = v],
           mode = "running",
           mode' = mode, routed' = routed, source' = source, ended' = ended, latest_' = latest_,
           complete_' = complete_, files' = files, history' = history, log' = log,
           v.applied >= worker[p].applied, Progress(p, v), AllWritten(p, v)
    PROVE  IInv'
<1>1. /\ worker' = [q \in Partitions |-> worker'[q]] /\ worker'[p] = v
      /\ \A q \in Partitions : q # p => worker'[q] = worker[q]
  BY WorkerShape
<1>2. \A q \in Partitions : Progress(q, worker'[q]) /\ AllWritten(q, worker'[q])
  BY <1>1 DEF IInv, WorkersOK
<1>3. ASSUME NEW q \in Partitions PROVE Progress(q, worker[q])' /\ AllWritten(q, worker[q])'
  <2>1. PICK w : w = worker'[q] /\ Progress(q, w) /\ AllWritten(q, w)
    BY <1>2
  <2>2. Progress(q, worker[q])'
    BY <2>1 DEF Progress, AtBarrier
  <2>3. AllWritten(q, worker[q])'
    BY <2>1 DEF AllWritten, Passed
  <2> QED BY <2>2, <2>3
<1>4. RunOK' /\ Checkpoints(history, files)'
  BY DEF IInv, RunOK
<1>5. WorkersOK'
  BY <1>1, <1>3 DEF WorkersOK
<1>6. \A q \in Partitions : worker[q].applied \in Nat /\ worker'[q].applied \in Nat
                            /\ worker[q].applied =< worker'[q].applied
  BY <1>1, <1>2 DEF IInv, WorkersOK, Progress
<1>7. TrackerOK'
  <2>1. /\ complete_ \in Seq(Nat) /\ Ascending(complete_)
        /\ latest_ = [q \in Partitions |-> latest_[q]]
    BY DEF IInv, TrackerOK
  <2>2. ASSUME NEW q \in Partitions, NEW i \in 1..Len(complete_)
        PROVE  /\ Has(files, q, complete_[i]) /\ complete_[i] =< worker'[q].applied
               /\ latest_[q] # None => complete_[i] =< latest_[q]
    <3>1. complete_[i] \in Nat
      BY <2>1, ElementOfSeq
    <3> QED BY <1>6, <3>1 DEF IInv, TrackerOK
  <2>3. ASSUME NEW q \in Partitions, latest_[q] # None
        PROVE  /\ latest_[q] \in Nat /\ latest_[q] =< worker'[q].applied
               /\ AtBarrier(latest_[q]) /\ Has(files, q, latest_[q])
    BY <1>6, <2>3 DEF IInv, TrackerOK
  <2> QED BY <2>1, <2>2, <2>3 DEF TrackerOK, AtBarrier
<1> QED BY <1>4, <1>5, <1>7 DEF IInv

-----------------------------------------------------------------------------
\* The results of a worker's step beside what the run shows before and after.
NextPoint(p, results, x, y) ==
    /\ \A s \in Slots : s \notin SlotsOf(p) => results[s].count = 0
    /\ \A s \in SlotsOf(p) :
          /\ y.latest[s] = IF results[s].count > 0 THEN results[s] ELSE x.latest[s]
          /\ results[s].count = 0 /\ x.latest[s].count < x.state.panes[s].count =>
                y.latest[s].count < y.state.panes[s].count

\* A worker that applies the next record goes to the next point of the run.
LEMMA PointStep ==
    ASSUME IInv, NEW p \in Partitions, mode = "running", worker[p].pc = "run",
           worker[p].applied < routed, NEW n, n = worker[p].applied + 1, NEW a,
           a = WorkerItems(worker[p], n, KeysOf(p))
    PROVE  /\ ShardAt(history, p, a.state, n) /\ a.watermark = history[n + 1].watermark
           /\ NextPoint(p, a.results, history[n], history[n + 1])
<1>1. PICK st, wm, m : st = worker[p].state /\ wm = worker[p].watermark /\ m = worker[p].applied
  OBVIOUS
<1>2. /\ m \in Nat /\ m < routed /\ ShardAt(history, p, st, m) /\ wm = history[m + 1].watermark
  <2>1. Progress(p, worker[p])
    BY DEF IInv, WorkersOK
  <2> QED BY <1>1, <2>1 DEF Progress
<1>3. /\ log \in Seq(Records) /\ Past(history, log) /\ Len(history) = Len(log) + 1
      /\ Len(log) \in Nat /\ routed =< Len(log) /\ routed \in Nat
      /\ \A k \in 1..Len(history) : FineAt(history[k])
  BY LenProperties DEF IInv, RunOK
<1>4. /\ n = m + 1 /\ n \in Nat /\ n >= 1 /\ n \in 1..(Len(history) - 1) /\ n \in 1..Len(history)
      /\ n =< Len(log)
  BY <1>1, <1>2, <1>3
<1>5. PICK h, g : h = history[n] /\ g = history[n + 1]
  OBVIOUS
<1>6. h \in Points /\ FineAt(h)
  <2>1. history \in Seq(Points)
    BY <1>3 DEF Past
  <2> QED BY <1>3, <1>4, <1>5, <2>1, ElementOfSeq
<1>8. PICK r \in Records : r = log[n]
  BY <1>3, <1>4, ElementOfSeq
<1>7. g = Point(h, r)
  BY <1>3, <1>4, <1>5, <1>8 DEF Past
<1>9. Shard(p, st, h.state, h.latest) /\ a = RunItems(st, h.watermark, r, g.source, KeysOf(p))
  BY <1>1, <1>2, <1>4, <1>5, <1>8 DEF ShardAt, WorkerItems
<1>10. Fine(h.state, h.watermark, h.latest)
  BY <1>6 DEF FineAt
<1>11. InStep(p, h, g, r)
  BY <1>6, <1>7, <1>10, ItemsStep
<1>12. Shard(p, a.state, g.state, g.latest) /\ a.watermark = g.watermark
  BY <1>9, <1>11 DEF InStep
<1>13. NextPoint(p, a.results, h, g)
  BY <1>9, <1>11 DEF InStep, NextPoint
<1> QED BY <1>5, <1>12, <1>13 DEF ShardAt

LEMMA ApplyStep == ASSUME NEW p \in Partitions PROVE IInv /\ ApplyNext(p) => IInv'
<1> SUFFICES ASSUME IInv, ApplyNext(p) PROVE IInv'
  OBVIOUS
<1>1. /\ mode = "running" /\ worker[p].pc = "run" /\ worker[p].applied < routed
      /\ mode' = mode /\ routed' = routed /\ source' = source /\ ended' = ended /\ latest_' = latest_
      /\ complete_' = complete_ /\ files' = files /\ history' = history /\ log' = log
  BY DEF ApplyNext, tracker, disk, ghost
<1>2. PICK v, a :
              /\ worker' = [worker EXCEPT ![p] = v]
              /\ a = WorkerItems(worker[p], worker[p].applied + 1, KeysOf(p))
              /\ Shape(v) /\ v.state = a.state /\ v.watermark = a.watermark
              /\ v.applied = worker[p].applied + 1 /\ v.outbox = a.results
              /\ v.pc = (IF BarrierAt(v.applied) THEN "due" ELSE "run")
              /\ v.offset = (IF BarrierAt(v.applied) THEN v.applied ELSE None)
              /\ v.last = worker[p].last
  BY ApplyMoves
<1>3. Progress(p, worker[p]) /\ AllWritten(p, worker[p])
  BY DEF IInv, WorkersOK
<1>4. worker[p].applied \in Nat /\ routed \in Nat /\ ~worker[p].last /\ v.applied =< routed
      /\ v.applied \in Nat /\ v.applied >= 1
  BY <1>1, <1>2, <1>3 DEF IInv, RunOK, Progress
<1>5. ShardAt(history, p, v.state, v.applied) /\ v.watermark = history[v.applied + 1].watermark
  BY <1>1, <1>2, <1>4, PointStep
<1>6. Progress(p, v)
  BY <1>1, <1>2, <1>4, <1>5 DEF Progress, PCs, AtBarrier
<1>7. AllWritten(p, v)
  <2> SUFFICES ASSUME NEW b \in Nat, Passed(v, b) PROVE Has(files, p, b)
    BY DEF AllWritten
  <2>1. b < v.applied
    BY <1>2 DEF Passed
  <2>2. Passed(worker[p], b)
    BY <1>1, <1>2, <1>4, <2>1 DEF Passed
  <2> QED BY <1>3, <2>2 DEF AllWritten
<1>8. v.applied >= worker[p].applied
  BY <1>2, <1>4
<1> QED BY <1>1, <1>2, <1>6, <1>7, <1>8, LocalStep

\* The steps that move no file and no offset.
LEMMA QuietStep ==
    ASSUME NEW p \in Partitions
    PROVE  IInv /\ (\/ \E s \in Slots : EmitResult(p, s)
                    \/ SuspendBarrier(p) \/ PruneDone(p) \/ ReadComplete(p) \/ StoreComplete(p)
                    \/ BeginFinalFlush(p) \/ FlushDone(p)) => IInv'
<1>0. ASSUME IInv PROVE Progress(p, worker[p]) /\ AllWritten(p, worker[p])
  BY <1>0 DEF IInv, WorkersOK
<1>1. ASSUME IInv, NEW v, SameWork(v, worker[p]) \/ v.applied = worker[p].applied,
             worker[p].pc # "due"
      PROVE  AllWritten(p, v) /\ v.applied >= worker[p].applied
  <2>1. v.applied = worker[p].applied /\ worker[p].applied \in Nat
    BY <1>0, <1>1 DEF SameWork, Progress
  <2>2. \A b \in Nat : Passed(v, b) => Passed(worker[p], b)
    BY <1>1, <2>1 DEF Passed
  <2> QED BY <1>0, <1>1, <2>1, <2>2 DEF AllWritten
<1>2. ASSUME IInv, NEW s \in Slots, EmitResult(p, s) PROVE IInv'
  <2>1. /\ mode = "running"
        /\ mode' = mode /\ routed' = routed /\ source' = source /\ ended' = ended /\ latest_' = latest_
        /\ complete_' = complete_ /\ files' = files /\ history' = history /\ log' = log
    BY <1>2 DEF EmitResult, tracker, ghost
  <2>2. PICK v : /\ worker' = [worker EXCEPT ![p] = v]
                 /\ Shape(v) /\ SameWork(v, worker[p]) /\ v.pc = worker[p].pc
                 /\ v.offset = worker[p].offset /\ v.last = worker[p].last
    BY <1>2, EmitMoves
  <2>3. Progress(p, v)
    BY <1>0, <1>2, <2>1, <2>2 DEF Progress, SameWork
  <2>4. AllWritten(p, v) /\ v.applied >= worker[p].applied
    BY <1>0, <1>2, <2>2 DEF AllWritten, Passed, SameWork, Progress
  <2> QED BY <1>2, <2>1, <2>2, <2>3, <2>4, LocalStep
<1>3. ASSUME IInv, SuspendBarrier(p) PROVE IInv'
  <2>1. /\ mode = "running" /\ worker[p].pc = "run" /\ worker[p].applied = routed /\ ended = "suspend"
        /\ mode' = mode /\ routed' = routed /\ source' = source /\ ended' = ended /\ latest_' = latest_
        /\ complete_' = complete_ /\ files' = files /\ history' = history /\ log' = log
    BY <1>3 DEF SuspendBarrier, Drained, tracker, disk, ghost
  <2>2. PICK v : /\ worker' = [worker EXCEPT ![p] = v]
                 /\ Shape(v) /\ SameWork(v, worker[p]) /\ v.pc = "due"
                 /\ v.offset = routed /\ v.last
    BY <1>3, SuspendMoves
  <2>3. Progress(p, v)
    BY <1>0, <1>3, <2>1, <2>2 DEF Progress, SameWork, PCs, AtBarrier
  <2>4. AllWritten(p, v) /\ v.applied >= worker[p].applied
    BY <1>1, <1>3, <2>1, <2>2
  <2> QED BY <1>3, <2>1, <2>2, <2>3, <2>4, LocalStep
<1>4. ASSUME IInv, PruneDone(p) PROVE IInv'
  <2>1. /\ worker[p].pc = "pruning" /\ worker' = [worker EXCEPT ![p].pc = "reported"]
        /\ mode' = mode /\ routed' = routed /\ source' = source /\ ended' = ended /\ latest_' = latest_
        /\ complete_' = complete_ /\ files' = files /\ history' = history /\ log' = log
    BY <1>4 DEF PruneDone, disk, ghost
  <2>2. PICK v : /\ worker' = [worker EXCEPT ![p] = v]
                 /\ Shape(v) /\ SameWork(v, worker[p]) /\ v.pc = "reported"
                 /\ v.last = worker[p].last
    <3>1. PICK w : w = worker[p] /\ Shape(w)
      BY <1>4, WorkerShape
    <3>2. PICK v : v = [w EXCEPT !.pc = "reported"]
      OBVIOUS
    <3>3. worker' = [worker EXCEPT ![p] = v]
      BY <2>1, <3>1, <3>2
    <3>4. Shape(v) /\ SameWork(v, w) /\ v.pc = "reported" /\ v.last = w.last
      BY <3>1, <3>2, SetPc
    <3> QED BY <3>1, <3>3, <3>4
  <2>3. Progress(p, v) /\ mode = "running"
    BY <1>0, <1>4, <2>1, <2>2 DEF Progress, SameWork, PCs
  <2>4. AllWritten(p, v) /\ v.applied >= worker[p].applied
    BY <1>1, <1>4, <2>1, <2>2
  <2> QED BY <1>4, <2>1, <2>2, <2>3, <2>4, LocalStep
<1>5. ASSUME IInv, ReadComplete(p) PROVE IInv'
  <2>1. /\ worker[p].pc = "reported"
        /\ mode' = mode /\ routed' = routed /\ source' = source /\ ended' = ended /\ latest_' = latest_
        /\ complete_' = complete_ /\ files' = files /\ history' = history /\ log' = log
    BY <1>5 DEF ReadComplete, tracker, disk, ghost
  <2>2. PICK v : /\ worker' = [worker EXCEPT ![p] = v]
                 /\ Shape(v) /\ SameWork(v, worker[p]) /\ v.pc = "store"
                 /\ v.last = worker[p].last
    BY <1>5, ReadMoves
  <2>3. Progress(p, v) /\ mode = "running"
    BY <1>0, <1>5, <2>1, <2>2 DEF Progress, SameWork, PCs
  <2>4. AllWritten(p, v) /\ v.applied >= worker[p].applied
    BY <1>1, <1>5, <2>1, <2>2
  <2> QED BY <1>5, <2>1, <2>2, <2>3, <2>4, LocalStep
<1>6. ASSUME IInv, StoreComplete(p) PROVE IInv'
  <2>1. /\ worker[p].pc = "store"
        /\ mode' = mode /\ routed' = routed /\ source' = source /\ ended' = ended /\ latest_' = latest_
        /\ complete_' = complete_ /\ files' = files /\ history' = history /\ log' = log
    BY <1>6 DEF StoreComplete, tracker, disk, ghost
  <2>2. PICK v : /\ worker' = [worker EXCEPT ![p] = v]
                 /\ Shape(v) /\ SameWork(v, worker[p])
                 /\ v.pc = (IF worker[p].last THEN "exited" ELSE "run")
                 /\ v.last = worker[p].last
    BY <1>6, StoreMoves
  <2>3. Progress(p, v) /\ mode = "running"
    BY <1>0, <1>6, <2>1, <2>2 DEF Progress, SameWork, PCs
  <2>4. AllWritten(p, v) /\ v.applied >= worker[p].applied
    BY <1>1, <1>6, <2>1, <2>2
  <2> QED BY <1>6, <2>1, <2>2, <2>3, <2>4, LocalStep
<1>7. ASSUME IInv, BeginFinalFlush(p) PROVE IInv'
  <2>1. /\ mode = "running" /\ worker[p].pc = "run" /\ worker[p].applied = routed /\ ended = "eos"
        /\ mode' = mode /\ routed' = routed /\ source' = source /\ ended' = ended /\ latest_' = latest_
        /\ complete_' = complete_ /\ files' = files /\ history' = history /\ log' = log
    BY <1>7 DEF BeginFinalFlush, Drained, tracker, disk, ghost
  <2>2. PICK v : /\ worker' = [worker EXCEPT ![p] = v]
                 /\ Shape(v) /\ v.applied = worker[p].applied /\ v.pc = "flushing"
                 /\ v.last = worker[p].last
    BY <1>7, FlushMoves
  <2>3. Progress(p, v)
    BY <1>0, <1>7, <2>1, <2>2 DEF Progress, PCs
  <2>4. AllWritten(p, v) /\ v.applied >= worker[p].applied
    BY <1>1, <1>7, <2>1, <2>2
  <2> QED BY <1>7, <2>1, <2>2, <2>3, <2>4, LocalStep
<1>8. ASSUME IInv, FlushDone(p) PROVE IInv'
  <2>1. /\ worker[p].pc = "flushing" /\ worker' = [worker EXCEPT ![p].pc = "exited"]
        /\ mode' = mode /\ routed' = routed /\ source' = source /\ ended' = ended /\ latest_' = latest_
        /\ complete_' = complete_ /\ files' = files /\ history' = history /\ log' = log
    BY <1>8 DEF FlushDone, tracker, disk, ghost
  <2>2. PICK v : /\ worker' = [worker EXCEPT ![p] = v]
                 /\ Shape(v) /\ SameWork(v, worker[p]) /\ v.pc = "exited"
                 /\ v.last = worker[p].last
    <3>1. PICK w : w = worker[p] /\ Shape(w)
      BY <1>8, WorkerShape
    <3>2. PICK v : v = [w EXCEPT !.pc = "exited"]
      OBVIOUS
    <3>3. worker' = [worker EXCEPT ![p] = v]
      BY <2>1, <3>1, <3>2
    <3>4. Shape(v) /\ SameWork(v, w) /\ v.pc = "exited" /\ v.last = w.last
      BY <3>1, <3>2, SetPc
    <3> QED BY <3>1, <3>3, <3>4
  <2>3. Progress(p, v) /\ mode = "running"
    BY <1>0, <1>8, <2>1, <2>2 DEF Progress, SameWork, PCs
  <2>4. AllWritten(p, v) /\ v.applied >= worker[p].applied
    BY <1>1, <1>8, <2>1, <2>2
  <2> QED BY <1>8, <2>1, <2>2, <2>3, <2>4, LocalStep
<1> QED BY <1>2, <1>3, <1>4, <1>5, <1>6, <1>7, <1>8

-----------------------------------------------------------------------------
(***************************************************************************)
(* The router, the end of a run.                                           *)
(***************************************************************************)
LEMMA RunGrows ==
    ASSUME IInv, Route
    PROVE  /\ RunOK' /\ Len(history) \in Nat /\ Len(history') \in Nat /\ Len(history) =< Len(history')
           /\ \A i \in 1..Len(history) : history'[i] = history[i]
<1>1. /\ routed < NumRecords /\ routed' = routed + 1 /\ mode' = mode /\ ended' = ended
      /\ source' = Draw(source, log', routed + 1)
  BY DEF Route
<1>2. /\ log \in Seq(Records) /\ Len(log) =< NumRecords /\ NumRecords \in Nat
      /\ Past(history, log) /\ Len(history) = Len(log) + 1 /\ Len(log) \in Nat
      /\ \A n \in 1..Len(history) : FineAt(history[n])
      /\ routed \in Nat /\ routed =< Len(log) /\ Chain(source, log, routed)
  BY LenProperties, SourceAssumption DEF IInv, RunOK
<1>5. ASSUME NEW l \in Seq(Records), Len(l) >= routed + 1, l = log',
             \A i \in 1..routed : l[i] = log[i]
      PROVE  Chain(source', log', routed')
  <2>1. Chain(source, l, routed)
    BY <1>2, <1>5, ChainReads
  <2>2. PICK m \in Nat : m = routed + 1 /\ routed =< m /\ m =< Len(l)
    BY <1>2, <1>5
  <2>3. PICK g : g = source' /\ g = Draw(source, l, m)
    BY <1>1, <1>5, <2>2
  <2>4. Chain(g, l, m)
    BY <1>2, <2>1, <2>2, <2>3, DrawChain
  <2> QED BY <1>1, <1>5, <2>2, <2>3, <2>4
<1>3. CASE routed < Len(log)
  <2>1. log' = log /\ history' = history
    BY <1>3 DEF Route, ghost
  <2>2. routed' \in Nat /\ routed' =< Len(log)
    BY <1>1, <1>2, <1>3
  <2>3. Chain(source', log', routed')
    BY <1>2, <1>3, <1>5, <2>1
  <2>4. RunOK'
    BY <1>1, <2>1, <2>2, <2>3 DEF IInv, RunOK
  <2> QED BY <1>2, <2>1, <2>4
<1>4. CASE ~(routed < Len(log))
  <2>1. routed = Len(log)
    BY <1>2, <1>4
  <2>2. PICK r \in Records : log' = Append(log, r) /\ history' = Extend(history, log', routed + 1)
    BY <1>4 DEF Route
  <2>3. PICK k, l, g : k = Len(history) /\ l = log' /\ g = history'
    OBVIOUS
  <2>4. l \in Seq(Records) /\ Len(l) = Len(log) + 1 /\ Past(history, l)
    <3>1. <<r>> \in Seq(Records) /\ l = log \o <<r>>
      BY <1>2, <2>2, <2>3
    <3>2. Past(history, log \o <<r>>)
      BY <1>2, <3>1, PastGrows
    <3>3. l \in Seq(Records) /\ Len(l) = Len(log) + 1
      BY <1>2, <2>2, <2>3, AppendProperties
    <3> QED BY <3>1, <3>2, <3>3
  <2>5. k = routed + 1 /\ k \in Nat /\ k >= 1 /\ k =< Len(l) /\ g = Extend(history, l, Len(history))
    BY <1>2, <2>1, <2>2, <2>3, <2>4
  <2>6. Past(g, l) /\ Len(g) = k + 1 /\ \A i \in 1..k : g[i] = history[i]
    <3>1. PICK h : h = history
      OBVIOUS
    <3>2. l \in Seq(Records) /\ Past(h, l) /\ Len(h) =< Len(l) /\ g = Extend(h, l, Len(h))
      BY <2>3, <2>4, <2>5, <3>1
    <3>3. /\ Past(g, l) /\ Len(g) = Len(h) + 1
          /\ \A i \in 1..Len(h) : g[i] = h[i]
      BY <3>2, PastExtends
    <3> QED BY <2>3, <3>1, <3>3
  <2>7. FineAt(g[k + 1])
    <3>1. PICK x, y : x = g[k] /\ y = g[k + 1]
      OBVIOUS
    <3>2. k \in 1..(Len(g) - 1) /\ k \in 1..k /\ k \in 1..Len(history) /\ k \in 1..Len(g)
      BY <2>3, <2>5, <2>6
    <3>6. PICK z \in Records : z = l[k]
      BY <2>4, <2>5, ElementOfSeq
    <3>3. y = Point(x, z)
      BY <2>6, <3>1, <3>2, <3>6 DEF Past
    <3>4. FineAt(x)
      BY <1>2, <2>6, <3>1, <3>2
    <3>5. x \in Points
      <4>1. g \in Seq(Points)
        BY <2>6 DEF Past
      <4> QED BY <3>1, <3>2, <4>1, ElementOfSeq
    <3>7. Fine(x.state, x.watermark, x.latest)
      BY <3>4 DEF FineAt
    <3>8. PICK p \in Partitions : TRUE
      BY PartitionAssumption
    <3>9. Fine(y.state, y.watermark, y.latest) /\ InStep(p, x, y, z)
      BY <3>3, <3>5, <3>7, ItemsStep
    <3> QED BY <3>1, <3>9 DEF FineAt
  <2>8. \A n \in 1..Len(g) : FineAt(g[n])
    <3> SUFFICES ASSUME NEW n \in 1..(k + 1) PROVE FineAt(g[n])
      BY <2>6
    <3>1. CASE n = k + 1
      BY <2>7, <3>1
    <3>2. CASE n # k + 1
      <4>1. n \in 1..k
        BY <2>5, <3>2
      <4> QED BY <1>2, <2>3, <2>6, <4>1
    <3> QED BY <3>1, <3>2
  <2>9. /\ routed' \in Nat /\ routed' =< Len(l) /\ Len(g) = Len(l) + 1 /\ Len(l) =< NumRecords
    BY <1>1, <1>2, <2>1, <2>4, <2>5, <2>6
  <2>10. mode' \in {"down", "running", "suspended", "stopped", "done"}
         /\ ended' \in {"no", "eos", "suspend"}
    BY <1>1 DEF IInv, RunOK
  <2>11. Chain(source', log', routed')
    <3>1. \A i \in 1..routed : l[i] = log[i]
      BY <1>2, <2>1, <2>2, <2>3, AppendProperties
    <3>2. Len(l) >= routed + 1
      BY <1>2, <2>1, <2>4
    <3> QED BY <1>5, <2>3, <2>4, <3>1, <3>2
  <2>12. RunOK'
    BY <2>3, <2>4, <2>6, <2>8, <2>9, <2>10, <2>11 DEF RunOK
  <2> QED BY <2>3, <2>5, <2>6, <2>12
<1> QED BY <1>3, <1>4

LEMMA RouteStep == IInv /\ Route => IInv'
<1> SUFFICES ASSUME IInv, Route PROVE IInv'
  OBVIOUS
<1>1. /\ mode = "running" /\ ended = "no" /\ routed' = routed + 1
      /\ mode' = mode /\ ended' = ended /\ worker' = worker /\ latest_' = latest_
      /\ complete_' = complete_ /\ files' = files
  BY DEF Route, tracker, disk
<1>2. /\ RunOK' /\ Len(history) \in Nat /\ Len(history') \in Nat /\ Len(history) =< Len(history')
      /\ \A i \in 1..Len(history) : history'[i] = history[i]
  BY RunGrows
<1>3. Checkpoints(history, files)'
  <2>1. Checkpoints(history, files)
    BY DEF IInv
  <2>2. PICK h, g, d : h = history /\ g = history' /\ d = files
    OBVIOUS
  <2>3. Checkpoints(g, d)
    BY <1>2, <2>1, <2>2, CheckpointsLonger
  <2> QED BY <1>1, <2>2, <2>3
<1>4. routed \in Nat /\ routed < Len(history)
  BY LenProperties DEF IInv, RunOK
<1>5. ASSUME NEW p \in Partitions PROVE Progress(p, worker[p])' /\ AllWritten(p, worker[p])'
  <2>1. PICK w : w = worker[p]
    OBVIOUS
  <2>2. Progress(p, w) /\ AllWritten(p, w)
    BY <2>1 DEF IInv, WorkersOK
  <2>3. w.applied \in Nat /\ w.applied =< routed /\ w.applied =< routed' /\ w.pc \notin {"flushing", "exited"}
        /\ ~w.last
    BY <1>1, <1>4, <2>2 DEF Progress
  <2>4. history'[w.applied + 1] = history[w.applied + 1]
    <3>1. w.applied + 1 \in 1..Len(history)
      BY <1>2, <1>4, <2>3
    <3> QED BY <1>2, <3>1
  <2>5. Progress(p, w)'
    BY <1>1, <2>2, <2>3, <2>4 DEF Progress, AtBarrier, ShardAt
  <2>6. AllWritten(p, w)'
    BY <1>1, <2>2 DEF AllWritten, Passed
  <2> QED BY <1>1, <2>1, <2>5, <2>6 DEF Progress, AllWritten, AtBarrier, Passed
<1>6. WorkersOK'
  BY <1>1, <1>5 DEF IInv, WorkersOK
<1>7. TrackerOK'
  BY <1>1 DEF IInv, TrackerOK, AtBarrier
<1> QED BY <1>2, <1>3, <1>6, <1>7 DEF IInv

LEMMA StopStep ==
    IInv /\ (EndOfInput \/ \E how \in {"final", "suspend"} : StopRouting(how)) => IInv'
<1> SUFFICES ASSUME IInv, EndOfInput \/ \E how \in {"final", "suspend"} : StopRouting(how)
             PROVE  IInv'
  OBVIOUS
<1>1. /\ mode = "running" /\ ended = "no" /\ ended' \in {"eos", "suspend"}
      /\ mode' = mode /\ routed' = routed /\ source' = source /\ worker' = worker /\ latest_' = latest_
      /\ complete_' = complete_ /\ files' = files /\ history' = history /\ log' = log
  BY DEF EndOfInput, StopRouting, tracker, disk, ghost
<1>2. RunOK' /\ Checkpoints(history, files)'
  BY <1>1 DEF IInv, RunOK
<1>3. ASSUME NEW p \in Partitions PROVE Progress(p, worker[p])' /\ AllWritten(p, worker[p])'
  <2>1. Progress(p, worker[p]) /\ AllWritten(p, worker[p])
    BY DEF IInv, WorkersOK
  <2>2. worker[p].pc \notin {"flushing", "exited"} /\ ~worker[p].last
    BY <1>1, <2>1 DEF Progress
  <2>3. Progress(p, worker[p])'
    BY <1>1, <2>1, <2>2 DEF Progress, AtBarrier
  <2>4. AllWritten(p, worker[p])'
    BY <1>1, <2>1 DEF AllWritten, Passed
  <2> QED BY <2>3, <2>4
<1>4. WorkersOK'
  BY <1>1, <1>3 DEF IInv, WorkersOK
<1>5. TrackerOK'
  BY <1>1 DEF IInv, TrackerOK, AtBarrier
<1> QED BY <1>2, <1>4, <1>5 DEF IInv

LEMMA ReturnStep == IInv /\ Return => IInv'
<1> SUFFICES ASSUME IInv, Return PROVE IInv'
  OBVIOUS
<1>1. /\ mode = "running" /\ \A p \in Partitions : worker[p].pc = "exited"
      /\ ended' = ended /\ routed' = routed /\ source' = source /\ worker' = worker /\ latest_' = latest_
      /\ complete_' = complete_ /\ files' = files /\ history' = history /\ log' = log
  BY DEF Return, tracker, disk, ghost
<1>2. /\ mode' \in {"suspended", "done", "stopped"}
      /\ mode' = "suspended" => ended = "suspend"
      /\ mode' = "done" => ended = "eos" /\ routed = NumRecords
  BY DEF Return
<1>3. RunOK' /\ Checkpoints(history, files)'
  BY <1>1, <1>2 DEF IInv, RunOK
<1>4. ASSUME NEW p \in Partitions PROVE Progress(p, worker[p])' /\ AllWritten(p, worker[p])'
  <2>1. Progress(p, worker[p]) /\ AllWritten(p, worker[p]) /\ worker[p].pc = "exited"
    BY <1>1 DEF IInv, WorkersOK
  <2>2. Progress(p, worker[p])'
    BY <1>1, <2>1 DEF Progress, AtBarrier
  <2>3. AllWritten(p, worker[p])'
    BY <1>1, <2>1 DEF AllWritten, Passed
  <2> QED BY <2>2, <2>3
<1>5. WorkersOK'
  BY <1>1, <1>2, <1>4 DEF IInv, WorkersOK
<1>6. TrackerOK'
  BY <1>1 DEF IInv, TrackerOK, AtBarrier
<1> QED BY <1>3, <1>5, <1>6 DEF IInv

-----------------------------------------------------------------------------
(***************************************************************************)
(* Writing, reporting and pruning.                                         *)
(***************************************************************************)
LEMMA WriteMoves ==
    ASSUME IInv, NEW p \in Partitions, WriteCheckpoint(p)
    PROVE  /\ \E v : /\ worker' = [worker EXCEPT ![p] = v]
                     /\ Shape(v) /\ SameWork(v, worker[p]) /\ v.pc = "written"
                     /\ v.outbox = worker[p].outbox
                     /\ v.offset = worker[p].offset /\ v.last = worker[p].last
           /\ mode = "running" /\ worker[p].pc = "due" /\ worker[p].applied \in Nat
           /\ Checkpoints(history, files)'
           /\ \A q \in Partitions, b \in Nat : Has(files, q, b) => Has(files', q, b)
           /\ Has(files', p, worker[p].applied)
           /\ \A q \in Partitions : \A f \in files'[q] :
                 f \in files[q] \/ (q = p /\ f.offset = worker[p].applied)
<1>1. PICK w : w = worker[p] /\ Shape(w) /\ Progress(p, w) /\ w.pc = "due"
  BY WorkerShape DEF IInv, WorkersOK, WriteCheckpoint
<1>2. PICK v : v = [w EXCEPT !.pc = "written"]
  OBVIOUS
<1>3. worker' = [worker EXCEPT ![p] = v]
  BY <1>1, <1>2, WorkerShape DEF WriteCheckpoint
<1>4. /\ Shape(v) /\ SameWork(v, w) /\ v.pc = "written" /\ v.outbox = w.outbox
      /\ v.offset = w.offset /\ v.last = w.last
  BY <1>1, <1>2, SetPc
<1>5. PICK h, d, o, st, wm, new : /\ h = history /\ d = files /\ o = w.applied /\ st = w.state
                                  /\ wm = w.watermark /\ new = files'
  OBVIOUS
<1>6. /\ mode = "running" /\ o \in Nat /\ w.offset = o /\ ShardAt(h, p, st, o)
      /\ wm = h[o + 1].watermark /\ o =< routed
  BY <1>1, <1>5 DEF Progress
<1>7. o < Len(h) /\ Checkpoints(h, d)
  BY <1>5, <1>6, LenProperties DEF IInv, RunOK
<1>8. PICK data : data = Capture(st, wm, o) /\ Publishes(d, p, data, new)
  BY <1>1, <1>5, <1>6 DEF WriteCheckpoint, Publishes
<1>9. /\ Checkpoints(h, new)
      /\ \A q \in Partitions, b \in Nat : Has(d, q, b) => Has(new, q, b)
      /\ Has(new, p, o)
      /\ \A q \in Partitions : \A f \in new[q] : f \in d[q] \/ (q = p /\ f.offset = o)
  <2>1. Checkpoints(h, new)
    BY <1>6, <1>7, <1>8, Published
  <2>2. Grown(d, new)
    BY <1>6, <1>7, <1>8, Published
  <2>3. Has(new, p, o)
    BY <1>6, <1>7, <1>8, Published
  <2>4. \A q \in Partitions : \A f \in new[q] : f \in d[q] \/ (q = p /\ f.offset = o)
    BY <1>6, <1>7, <1>8, Published
  <2> QED BY <2>1, <2>2, <2>3, <2>4 DEF Grown
<1>10. history' = history
  BY DEF WriteCheckpoint, ghost
<1> QED BY <1>1, <1>3, <1>4, <1>5, <1>6, <1>9, <1>10

LEMMA WriteStep == ASSUME NEW p \in Partitions PROVE IInv /\ WriteCheckpoint(p) => IInv'
<1> SUFFICES ASSUME IInv, WriteCheckpoint(p) PROVE IInv'
  OBVIOUS
<1>1. /\ mode' = mode /\ routed' = routed /\ source' = source /\ ended' = ended /\ latest_' = latest_
      /\ complete_' = complete_ /\ history' = history /\ log' = log
  BY DEF WriteCheckpoint, tracker, ghost
<1>2. PICK v : /\ worker' = [worker EXCEPT ![p] = v]
               /\ Shape(v) /\ SameWork(v, worker[p]) /\ v.pc = "written"
               /\ v.offset = worker[p].offset /\ v.last = worker[p].last
  BY WriteMoves
<1>3. /\ mode = "running" /\ worker[p].pc = "due" /\ worker[p].applied \in Nat
      /\ Checkpoints(history, files)'
      /\ \A q \in Partitions, b \in Nat : Has(files, q, b) => Has(files', q, b)
      /\ Has(files', p, worker[p].applied)
  BY WriteMoves
<1>4. /\ worker' = [q \in Partitions |-> worker'[q]] /\ worker'[p] = v
      /\ \A q \in Partitions : q # p => worker'[q] = worker[q]
  BY <1>2, WorkerShape
<1>5. \A q \in Partitions : Progress(q, worker[q]) /\ AllWritten(q, worker[q])
  BY DEF IInv, WorkersOK
<1>6. routed \in Nat
  BY DEF IInv, RunOK
<1>7. ASSUME NEW q \in Partitions, q # p
      PROVE  Progress(q, worker[q])' /\ AllWritten(q, worker[q])'
  <2>1. worker'[q] = worker[q] /\ Progress(q, worker[q]) /\ AllWritten(q, worker[q])
    BY <1>4, <1>5, <1>7
  <2>2. Progress(q, worker[q])'
    BY <1>1, <1>3, <1>6, <2>1 DEF Progress, AtBarrier
  <2>3. AllWritten(q, worker[q])'
    BY <1>1, <1>3, <2>1 DEF AllWritten, Passed
  <2> QED BY <2>2, <2>3
<1>8. Progress(p, worker[p])' /\ AllWritten(p, worker[p])'
  <2>1. Progress(p, v)'
    BY <1>1, <1>2, <1>3, <1>5, <1>6 DEF Progress, AtBarrier, SameWork, PCs
  <2>2. ASSUME NEW b \in Nat, Passed(v, b)' PROVE Has(files', p, b)
    <3>1. CASE b = worker[p].applied
      BY <1>3, <3>1
    <3>2. CASE b # worker[p].applied
      <4>1. Passed(worker[p], b)
        BY <1>1, <1>2, <2>2, <3>2 DEF Passed, SameWork
      <4> QED BY <1>3, <1>5, <4>1 DEF AllWritten
    <3> QED BY <3>1, <3>2
  <2> QED BY <1>4, <2>1, <2>2 DEF AllWritten, Progress, Passed, AtBarrier
<1>9. WorkersOK'
  BY <1>1, <1>3, <1>4, <1>7, <1>8 DEF IInv, WorkersOK
<1>10. \A q \in Partitions : worker'[q].applied = worker[q].applied
  BY <1>2, <1>4 DEF SameWork
<1>11. TrackerOK'
  <2>1. /\ complete_ \in Seq(Nat) /\ Ascending(complete_)
        /\ latest_ = [q \in Partitions |-> latest_[q]]
    BY DEF IInv, TrackerOK
  <2>2. ASSUME NEW q \in Partitions, NEW i \in 1..Len(complete_)
        PROVE  /\ Has(files', q, complete_[i]) /\ complete_[i] =< worker'[q].applied
               /\ latest_[q] # None => complete_[i] =< latest_[q]
    <3>1. complete_[i] \in Nat
      BY <2>1, ElementOfSeq
    <3> QED BY <1>3, <1>10, <3>1 DEF IInv, TrackerOK
  <2>3. ASSUME NEW q \in Partitions, latest_[q] # None
        PROVE  /\ latest_[q] \in Nat /\ latest_[q] =< worker'[q].applied
               /\ AtBarrier(latest_[q]) /\ Has(files', q, latest_[q])
    BY <1>3, <1>10, <2>3 DEF IInv, TrackerOK
  <2> QED BY <1>1, <2>1, <2>2, <2>3 DEF TrackerOK, AtBarrier
<1>12. RunOK'
  BY <1>1 DEF IInv, RunOK
<1> QED BY <1>3, <1>9, <1>11, <1>12 DEF IInv

\* The least of the offsets reported.
LEMMA CandidateLeast ==
    ASSUME NEW reports, \A q \in Partitions : reports[q] \in Nat, NEW c, c = Candidate(reports)
    PROVE  /\ c \in Nat /\ \E r \in Partitions : c = reports[r]
           /\ \A q \in Partitions : c =< reports[q]
<1>1. PICK S : S = {reports[q] : q \in Partitions}
  OBVIOUS
<1>2. S \subseteq Nat /\ S # {}
  BY <1>1, PartitionAssumption
<1>3. \E x \in S : \A y \in S : x =< y
  BY <1>2, NatLeast
<1>4. c = CHOOSE x \in S : \A y \in S : x =< y
  BY <1>1 DEF Candidate, Min
<1>5. c \in S /\ \A y \in S : c =< y
  BY <1>3, <1>4
<1> QED BY <1>1, <1>2, <1>5

\* The retained offsets after a new one: still ascending, none of them new
\* but that one, the oldest not older than before.
LEMMA RetainedFacts ==
    ASSUME NEW s \in Seq(Nat), Ascending(s), NEW c \in Nat, s = << >> \/ c > s[Len(s)], NEW t,
           t = Retained(Append(s, c))
    PROVE  /\ t \in Seq(Nat) /\ t # << >> /\ Ascending(t)
           /\ \A i \in 1..Len(t) : t[i] = c \/ \E j \in 1..Len(s) : t[i] = s[j]
           /\ s # << >> => t[1] >= s[1]
<1>1. PICK n \in Nat : n = Len(s)
  BY LenProperties
<1>2. \A i \in 1..n : s[i] \in Nat
  BY <1>1, ElementOfSeq
<1>3. PICK u : u = Append(s, c)
  OBVIOUS
<1>4. u \in Seq(Nat) /\ Len(u) = n + 1 /\ u[n + 1] = c /\ \A i \in 1..n : u[i] = s[i]
  BY <1>1, <1>3, AppendProperties
<1>5. \A i \in 1..n : s[i] < c
  <2> SUFFICES ASSUME NEW i \in 1..n PROVE s[i] < c
    OBVIOUS
  <2>1. s # << >> /\ n \in 1..n
    BY <1>1
  <2>2. c > s[n] /\ s[n] \in Nat /\ s[i] \in Nat
    BY <1>1, <1>2, <2>1
  <2>3. i # n => s[i] < s[n]
    BY <1>1, <2>1 DEF Ascending
  <2> QED BY <2>2, <2>3
<1>6. \A i, j \in 1..(n + 1) : i < j => u[i] < u[j]
  <2> SUFFICES ASSUME NEW i \in 1..(n + 1), NEW j \in 1..(n + 1), i < j PROVE u[i] < u[j]
    OBVIOUS
  <2>1. i \in 1..n
    OBVIOUS
  <2>2. CASE j = n + 1
    BY <1>4, <1>5, <2>1, <2>2
  <2>3. CASE j # n + 1
    <3>1. j \in 1..n
      BY <2>3
    <3> QED BY <1>1, <1>4, <2>1, <3>1 DEF Ascending
  <2> QED BY <2>2, <2>3
<1>7. PICK keep \in Nat : keep >= 1 /\ keep = IF CheckpointRetention = 0 THEN 1 ELSE CheckpointRetention
  BY PartitionAssumption
<1>8. PICK d \in Nat : /\ d =< n /\ t \in Seq(Nat) /\ Len(t) = n + 1 - d
                       /\ \A i \in 1..Len(t) : t[i] = u[d + i]
  <2>1. CASE n + 1 > keep
    <3>1. t = SubSeq(u, (n + 1) - keep + 1, n + 1)
      BY <1>3, <1>4, <1>7, <2>1 DEF Retained
    <3>0. (n + 1) - keep + 1 \in 1..(n + 1)
      <4>1. keep \in Nat /\ keep >= 1 /\ n \in Nat
        BY <1>7
      <4> QED BY <2>1, <4>1
    <3>2. PICK m : m = (n + 1) - keep + 1 /\ m \in 1..(n + 1)
      BY <3>0
    <3>3. t \in Seq(Nat) /\ Len(t) = (n + 1) - m + 1 /\ \A i \in 1..((n + 1) - m + 1) : t[i] = u[m + i - 1]
      BY <1>4, <3>1, <3>2, SubSeqProperties
    <3>4. PICK d : d = m - 1 /\ d \in Nat /\ d =< n
      BY <3>2
    <3>5. Len(t) = n + 1 - d /\ \A i \in 1..Len(t) : t[i] = u[d + i]
      <4>1. Len(t) = n + 1 - d /\ (n + 1) - m + 1 = n + 1 - d
        BY <3>2, <3>3, <3>4
      <4>2. \A i \in 1..(n + 1 - d) : m + i - 1 = d + i
        BY <3>2, <3>4
      <4> QED BY <3>3, <4>1, <4>2
    <3> QED BY <3>3, <3>4, <3>5
  <2>2. CASE ~(n + 1 > keep)
    <3>1. t = u
      BY <1>3, <1>4, <1>7, <2>2 DEF Retained
    <3>2. \A i \in 1..Len(t) : 0 + i = i
      OBVIOUS
    <3>3. 0 \in Nat /\ 0 =< n /\ Len(t) = n + 1 - 0
      BY <1>4, <3>1
    <3> QED BY <1>4, <3>1, <3>2, <3>3
  <2> QED BY <2>1, <2>2
<1>9. \A i \in 1..Len(t) : d + i \in 1..(n + 1) /\ t[i] = u[d + i]
  BY <1>8
<1>10. Ascending(t)
  BY <1>6, <1>9 DEF Ascending
<1>11. 1 \in 1..Len(t) /\ t # << >>
  BY <1>8
<1>12. \A i \in 1..Len(t) : t[i] = c \/ \E j \in 1..Len(s) : t[i] = s[j]
  <2> SUFFICES ASSUME NEW i \in 1..Len(t) PROVE t[i] = c \/ \E j \in 1..Len(s) : t[i] = s[j]
    OBVIOUS
  <2>1. d + i = n + 1 \/ d + i \in 1..n
    BY <1>9
  <2> QED BY <1>1, <1>4, <1>9, <2>1
<1>13. s # << >> => t[1] >= s[1]
  <2> SUFFICES ASSUME s # << >> PROVE t[1] >= s[1]
    OBVIOUS
  <2>1. 1 \in 1..n /\ 1 \in 1..(n + 1)
    BY <1>1, EmptySeq
  <2>2. u[1] = s[1] /\ s[1] \in Nat
    BY <1>2, <1>4, <2>1
  <2>3. t[1] = u[d + 1] /\ d + 1 \in 1..(n + 1)
    BY <1>9, <1>11
  <2>4. d = 0 \/ u[1] < u[d + 1]
    BY <1>6, <1>8, <2>1, <2>3
  <2>5. u[d + 1] \in Nat
    BY <1>4, <2>3, ElementOfSeq
  <2> QED BY <2>2, <2>3, <2>4, <2>5
<1> QED BY <1>8, <1>10, <1>11, <1>12, <1>13

(***************************************************************************)
(* A report: the candidate is the offset of some partition's newest        *)
(* report, and every partition ahead of it has passed that barrier, so     *)
(* that it has written the file.                                           *)
(***************************************************************************)
LEMMA ReportMoves ==
    ASSUME IInv, NEW p \in Partitions, Report(p)
    PROVE  \E v : /\ worker' = [worker EXCEPT ![p] = v]
                  /\ Shape(v) /\ SameWork(v, worker[p]) /\ v.pc \in {"pruning", "reported"}
                  /\ v.outbox = worker[p].outbox /\ v.last = worker[p].last
                  /\ v.pc = "pruning" =>
                       /\ \A q \in Partitions : latest_'[q] # None
                       /\ complete_ = << >> \/ Candidate(latest_') > complete_[Len(complete_)]
                       /\ complete_' = Retained(Append(complete_, Candidate(latest_')))
<1>1. PICK w : w = worker[p] /\ Shape(w)
  BY WorkerShape
<1>2. PICK x \in {"pruning", "reported"} :
         /\ worker' = [worker EXCEPT ![p].pc = x]
         /\ x = "pruning" =>
              /\ \A q \in Partitions : latest_'[q] # None
              /\ complete_ = << >> \/ Candidate(latest_') > complete_[Len(complete_)]
              /\ complete_' = Retained(Append(complete_, Candidate(latest_')))
  BY DEF Report
<1>3. PICK v : v = [w EXCEPT !.pc = x]
  OBVIOUS
<1>4. worker' = [worker EXCEPT ![p] = v]
  BY <1>1, <1>2, <1>3
<1>5. /\ Shape(v) /\ SameWork(v, w) /\ v.pc = x /\ v.outbox = w.outbox /\ v.last = w.last
  BY <1>1, <1>3, SetPc
<1> QED BY <1>1, <1>2, <1>4, <1>5

LEMMA ReportStep == ASSUME NEW p \in Partitions PROVE IInv /\ Report(p) => IInv'
<1> SUFFICES ASSUME IInv, Report(p) PROVE IInv'
  OBVIOUS
<1>1. /\ mode' = mode /\ routed' = routed /\ source' = source /\ ended' = ended /\ files' = files
      /\ history' = history /\ log' = log /\ worker[p].pc = "written"
      /\ latest_' = [latest_ EXCEPT ![p] = worker[p].offset]
  BY DEF Report, disk, ghost
<1>2. PICK v : /\ worker' = [worker EXCEPT ![p] = v]
               /\ Shape(v) /\ SameWork(v, worker[p]) /\ v.pc \in {"pruning", "reported"}
               /\ v.last = worker[p].last
               /\ v.pc = "pruning" =>
                    /\ \A q \in Partitions : latest_'[q] # None
                    /\ complete_ = << >> \/ Candidate(latest_') > complete_[Len(complete_)]
                    /\ complete_' = Retained(Append(complete_, Candidate(latest_')))
  BY ReportMoves
<1>3. /\ worker' = [q \in Partitions |-> worker'[q]] /\ worker'[p] = v
      /\ \A q \in Partitions : q # p => worker'[q] = worker[q]
  BY <1>2, WorkerShape
<1>4. \A q \in Partitions : /\ Progress(q, worker[q]) /\ AllWritten(q, worker[q])
                            /\ worker'[q].applied = worker[q].applied
                            /\ worker[q].applied \in Nat /\ worker[q].applied =< routed
  BY <1>2, <1>3 DEF IInv, WorkersOK, Progress, SameWork
<1>5. /\ worker[p].offset = worker[p].applied /\ AtBarrier(worker[p].applied)
      /\ Has(files, p, worker[p].applied) /\ mode = "running"
  BY <1>1, <1>4 DEF Progress
<1>6. /\ complete_ \in Seq(Nat) /\ Ascending(complete_)
      /\ latest_ = [q \in Partitions |-> latest_[q]]
      /\ \A i \in 1..Len(complete_) : complete_[i] \in Nat
  <2>1. complete_ \in Seq(Nat)
    BY DEF IInv, TrackerOK
  <2> QED BY <2>1, ElementOfSeq DEF IInv, TrackerOK
<1>7. PICK l2 : l2 = latest_'
  OBVIOUS
<1>8. /\ l2 = [q \in Partitions |-> l2[q]] /\ l2[p] = worker[p].applied
      /\ \A q \in Partitions : q # p => l2[q] = latest_[q]
  BY <1>1, <1>5, <1>6, <1>7
<1>9. ASSUME NEW q \in Partitions, l2[q] # None
      PROVE  /\ l2[q] \in Nat /\ l2[q] =< worker[q].applied /\ AtBarrier(l2[q]) /\ Has(files, q, l2[q])
             /\ \A i \in 1..Len(complete_) : complete_[i] =< l2[q]
  <2>1. CASE q = p
    BY <1>4, <1>5, <1>8, <2>1 DEF IInv, TrackerOK
  <2>2. CASE q # p
    BY <1>8, <1>9, <2>2 DEF IInv, TrackerOK
  <2> QED BY <2>1, <2>2
<1>10. PICK c : c = Candidate(l2)
  OBVIOUS
<1>11. ASSUME \A q \in Partitions : l2[q] # None,
              complete_ = << >> \/ c > complete_[Len(complete_)]
       PROVE  /\ c \in Nat /\ \A q \in Partitions : Has(files, q, c) /\ c =< l2[q]
  <2>1. \A q \in Partitions : l2[q] \in Nat
    BY <1>9, <1>11
  <2>2. c \in Nat /\ \A q \in Partitions : c =< l2[q]
    BY <1>10, <2>1, CandidateLeast
  <2>3. PICK r \in Partitions : c = l2[r]
    BY <1>10, <2>1, CandidateLeast
  <2>4. AtBarrier(c)
    BY <1>9, <1>11, <2>3
  <2>5. complete_ # << >> => c >= complete_[1]
    <3> SUFFICES ASSUME complete_ # << >> PROVE c >= complete_[1]
      OBVIOUS
    <3>1. PICK n \in Nat : n = Len(complete_)
      BY <1>6, LenProperties
    <3>2. 1 \in 1..n /\ n \in 1..n
      BY <1>6, <3>1, EmptySeq
    <3>3. c > complete_[n] /\ complete_[n] \in Nat /\ complete_[1] \in Nat
      BY <1>6, <1>11, <3>1, <3>2
    <3>4. n = 1 \/ complete_[1] < complete_[n]
      BY <1>6, <3>1, <3>2 DEF Ascending
    <3> QED BY <2>2, <3>3, <3>4
  <2>6. ASSUME NEW q \in Partitions PROVE Has(files, q, c)
    <3>1. CASE l2[q] = c
      BY <1>9, <1>11, <3>1
    <3>2. CASE l2[q] # c
      <4>1. c < worker[q].applied /\ c # routed
        <5>1. c =< l2[q] /\ l2[q] =< worker[q].applied /\ worker[q].applied =< routed
              /\ l2[q] \in Nat /\ worker[q].applied \in Nat /\ routed \in Nat
          BY <1>4, <1>9, <1>11, <2>2 DEF IInv, RunOK
        <5> QED BY <2>2, <3>2, <5>1
      <4>2. BarrierAt(c) /\ c >= 1
        BY <2>4, <4>1 DEF AtBarrier
      <4>3. Passed(worker[q], c)
        BY <2>2, <2>5, <4>1, <4>2 DEF Passed
      <4> QED BY <1>4, <2>2, <4>3 DEF AllWritten
    <3> QED BY <3>1, <3>2
  <2> QED BY <2>2, <2>6
<1>12. PICK c2 : c2 = complete_'
  OBVIOUS
<1>13. /\ c2 \in Seq(Nat) /\ Ascending(c2)
       /\ complete_ # << >> => c2 # << >> /\ c2[1] >= complete_[1]
       /\ v.pc = "pruning" => c2 # << >>
       /\ \A i \in 1..Len(c2) : \A q \in Partitions :
             /\ Has(files, q, c2[i]) /\ c2[i] =< worker[q].applied
             /\ l2[q] # None => c2[i] =< l2[q]
  <2>1. CASE /\ \A q \in Partitions : l2[q] # None
             /\ complete_ = << >> \/ c > complete_[Len(complete_)]
    <3>1. c2 = Retained(Append(complete_, c))
      BY <1>7, <1>10, <1>12, <2>1 DEF Report
    <3>2. c \in Nat /\ \A q \in Partitions : Has(files, q, c) /\ c =< l2[q]
      BY <1>11, <2>1
    <3>3. PICK s : s = complete_
      OBVIOUS
    <3>4. /\ c2 \in Seq(Nat) /\ c2 # << >> /\ Ascending(c2)
          /\ \A i \in 1..Len(c2) : c2[i] = c \/ \E j \in 1..Len(s) : c2[i] = s[j]
          /\ s # << >> => c2[1] >= s[1]
      <4>1. /\ s \in Seq(Nat) /\ Ascending(s) /\ c \in Nat
            /\ s = << >> \/ c > s[Len(s)]
            /\ c2 = Retained(Append(s, c))
        BY <1>6, <2>1, <3>1, <3>2, <3>3
      <4> QED BY <4>1, RetainedFacts
    <3>5. ASSUME NEW i \in 1..Len(c2), NEW q \in Partitions
          PROVE  /\ Has(files, q, c2[i]) /\ c2[i] =< worker[q].applied
                 /\ c2[i] =< l2[q]
      <4>1. CASE c2[i] = c
        <5>1. c =< l2[q] /\ l2[q] =< worker[q].applied /\ l2[q] \in Nat /\ worker[q].applied \in Nat
          BY <1>4, <1>9, <2>1, <3>2
        <5>2. c =< worker[q].applied
          BY <3>2, <5>1
        <5> QED BY <3>2, <4>1, <5>2
      <4>2. CASE \E j \in 1..Len(s) : c2[i] = s[j]
        BY <1>9, <2>1, <3>3, <4>2 DEF IInv, TrackerOK
      <4> QED BY <3>4, <4>1, <4>2
    <3> QED BY <3>3, <3>4, <3>5
  <2>2. CASE ~(/\ \A q \in Partitions : l2[q] # None
               /\ complete_ = << >> \/ c > complete_[Len(complete_)])
    <3>1. c2 = complete_ /\ v.pc # "pruning"
      <4>1. v.pc # "pruning"
        BY <1>2, <1>7, <1>10, <2>2
      <4> QED BY <1>7, <1>10, <1>12, <2>2, <4>1 DEF Report
    <3>2. complete_ # << >> => complete_[1] >= complete_[1]
      <4> SUFFICES ASSUME complete_ # << >> PROVE complete_[1] >= complete_[1]
        OBVIOUS
      <4>1. 1 \in 1..Len(complete_)
        BY <1>6, EmptySeq, LenProperties
      <4> QED BY <1>6, <4>1
    <3>3. ASSUME NEW i \in 1..Len(complete_), NEW q \in Partitions
          PROVE  /\ Has(files, q, complete_[i]) /\ complete_[i] =< worker[q].applied
                 /\ l2[q] # None => complete_[i] =< l2[q]
      BY <1>9 DEF IInv, TrackerOK
    <3> QED BY <1>6, <3>1, <3>2, <3>3
  <2> QED BY <2>1, <2>2
<1>14. ASSUME NEW w, NEW b \in Nat, Passed(w, b)' PROVE Passed(w, b)
  <2>1. complete_ # << >> => b >= complete_[1]
    <3> SUFFICES ASSUME complete_ # << >> PROVE b >= complete_[1]
      OBVIOUS
    <3>1. c2 # << >> /\ c2[1] >= complete_[1] /\ b >= c2[1]
      BY <1>12, <1>13, <1>14 DEF Passed
    <3>2. 1 \in 1..Len(c2) /\ 1 \in 1..Len(complete_)
      BY <1>6, <1>13, <3>1, EmptySeq, LenProperties
    <3>3. c2[1] \in Nat /\ complete_[1] \in Nat
      BY <1>6, <1>13, <3>2, ElementOfSeq
    <3> QED BY <3>1, <3>3
  <2> QED BY <1>14, <2>1 DEF Passed
<1>15. ASSUME NEW q \in Partitions PROVE Progress(q, worker[q])' /\ AllWritten(q, worker[q])'
  <2>1. PICK w : w = worker'[q]
    OBVIOUS
  <2>2. CASE q = p
    <3>1. w = v /\ Progress(p, worker[p]) /\ AllWritten(p, worker[p])
      BY <1>3, <1>4, <2>1, <2>2
    <3>2. Progress(p, v)'
      BY <1>1, <1>2, <1>12, <1>13, <3>1 DEF Progress, AtBarrier, SameWork, PCs
    <3>3. ASSUME NEW b \in Nat, Passed(v, b)' PROVE Has(files, p, b)
      <4>1. Passed(v, b)
        BY <1>14, <3>3
      <4>2. Passed(worker[p], b)
        BY <1>1, <1>2, <4>1 DEF Passed, SameWork
      <4> QED BY <3>1, <4>2 DEF AllWritten
    <3> QED BY <1>1, <2>1, <2>2, <3>1, <3>2, <3>3 DEF AllWritten, Progress, Passed, AtBarrier
  <2>3. CASE q # p
    <3>1. w = worker[q] /\ Progress(q, w) /\ AllWritten(q, w)
      BY <1>3, <1>4, <2>1, <2>3
    <3>2. Progress(q, w)'
      BY <1>1, <1>12, <1>13, <3>1 DEF Progress, AtBarrier
    <3>3. \A b \in Nat : Passed(w, b)' => Has(files, q, b)
      BY <1>14, <3>1 DEF AllWritten
    <3> QED BY <1>1, <2>1, <3>2, <3>3 DEF AllWritten, Progress, Passed, AtBarrier
  <2> QED BY <2>2, <2>3
<1>16. WorkersOK'
  BY <1>1, <1>3, <1>5, <1>15 DEF WorkersOK
<1>17. TrackerOK'
  <2>1. \A i \in 1..Len(c2) : \A q \in Partitions :
             /\ Has(files', q, c2[i]) /\ c2[i] =< worker'[q].applied
             /\ l2[q] # None => c2[i] =< l2[q]
    BY <1>1, <1>4, <1>13
  <2>2. \A q \in Partitions : l2[q] # None =>
             /\ l2[q] \in Nat /\ l2[q] =< worker'[q].applied
             /\ AtBarrier(l2[q])' /\ Has(files', q, l2[q])
    BY <1>1, <1>4, <1>9 DEF AtBarrier
  <2> QED BY <1>7, <1>8, <1>12, <1>13, <2>1, <2>2 DEF TrackerOK, AtBarrier
<1>18. RunOK' /\ Checkpoints(history, files)'
  BY <1>1 DEF IInv, RunOK
<1> QED BY <1>16, <1>17, <1>18 DEF IInv

(***************************************************************************)
(* Pruning removes no file at or above the oldest retained offset.         *)
(***************************************************************************)
LEMMA PruneKeeps ==
    ASSUME IInv, NEW p \in Partitions, PruneOne(p)
    PROVE  /\ Checkpoints(history, files)' /\ mode = "running"
           /\ complete_ # << >> /\ complete_[1] \in Nat /\ 1 \in 1..Len(complete_)
           /\ KeptFrom(files, files', complete_[1])
           /\ \A q \in Partitions : files'[q] \subseteq files[q]
<1>1. worker[p].pc = "pruning" /\ Progress(p, worker[p]) /\ history' = history
  BY DEF PruneOne, IInv, WorkersOK, ghost
<1>2. complete_ # << >> /\ mode = "running" /\ complete_ \in Seq(Nat)
  BY <1>1 DEF Progress, IInv, TrackerOK
<1>3. 1 \in 1..Len(complete_)
  BY <1>2, EmptySeq, LenProperties
<1>4. complete_[1] \in Nat
  BY <1>2, <1>3, ElementOfSeq
<1>5. PICK pf \in Prunable : files' = [files EXCEPT ![pf[1]] = @ \ {pf[2]}]
  BY DEF PruneOne
<1>6. PICK r \in Partitions : \E f \in files[r] : pf = <<r, f>> /\ f.offset < complete_[1]
  <2>1. pf \in UNION {{q} \X files[q] : q \in Partitions} /\ pf[2].offset < complete_[1]
    BY <1>5 DEF Prunable
  <2>2. PICK q \in Partitions : pf \in {q} \X files[q]
    BY <2>1
  <2> QED BY <2>1, <2>2
<1>7. PICK h, d, b0, new : h = history /\ d = files /\ b0 = complete_[1] /\ new = files'
  OBVIOUS
<1>71. PICK f \in files[r] : pf = <<r, f>> /\ f.offset < complete_[1]
  BY <1>6
<1>8. Removes(d, r, f, new)
  BY <1>5, <1>7, <1>71 DEF Removes
<1>9. Checkpoints(h, d) /\ f \in d[r] /\ b0 \in Nat /\ f.offset < b0
  BY <1>4, <1>7, <1>71 DEF IInv
<1>10. Checkpoints(h, new) /\ KeptFrom(d, new, b0)
  BY <1>8, <1>9, Pruned
<1>11. \A q \in Partitions : new[q] \subseteq d[q]
  BY <1>8, <1>9, Pruned
<1> QED BY <1>1, <1>2, <1>3, <1>4, <1>7, <1>10, <1>11

LEMMA PruneStep == ASSUME NEW p \in Partitions PROVE IInv /\ PruneOne(p) => IInv'
<1> SUFFICES ASSUME IInv, PruneOne(p) PROVE IInv'
  OBVIOUS
<1>1. /\ mode' = mode /\ routed' = routed /\ source' = source /\ ended' = ended /\ worker' = worker
      /\ latest_' = latest_ /\ complete_' = complete_ /\ history' = history /\ log' = log
  BY DEF PruneOne, tracker, ghost
<1>2. /\ Checkpoints(history, files)' /\ mode = "running" /\ complete_ # << >>
      /\ complete_[1] \in Nat /\ 1 \in 1..Len(complete_)
      /\ \A q \in Partitions, b \in Nat : b >= complete_[1] /\ Has(files, q, b) => Has(files', q, b)
  BY PruneKeeps DEF KeptFrom
<1>3. ASSUME NEW q \in Partitions
      PROVE  /\ complete_[1] =< worker[q].applied /\ worker[q].applied \in Nat
             /\ routed \in Nat /\ worker[q].applied =< routed
             /\ Progress(q, worker[q]) /\ AllWritten(q, worker[q])
  BY <1>2 DEF IInv, TrackerOK, RunOK, WorkersOK, Progress
<1>4. ASSUME NEW q \in Partitions PROVE Progress(q, worker[q])' /\ AllWritten(q, worker[q])'
  <2>1. PICK w : /\ w = worker[q] /\ Progress(q, w) /\ AllWritten(q, w)
                 /\ complete_[1] =< w.applied /\ w.applied \in Nat /\ complete_[1] =< routed
    <3>1. complete_[1] =< routed
      BY <1>2, <1>3
    <3> QED BY <1>3, <3>1
  <2>2. (Has(files, q, w.applied) => Has(files', q, w.applied))
        /\ (Has(files, q, routed) => Has(files', q, routed))
    BY <1>2, <1>3, <2>1
  <2>3. Progress(q, w)'
    BY <1>1, <2>1, <2>2 DEF Progress, AtBarrier
  <2>4. \A b \in Nat : Passed(w, b) => b >= complete_[1] /\ Has(files', q, b)
    BY <1>2, <2>1 DEF AllWritten, Passed
  <2>5. AllWritten(q, w)'
    BY <1>1, <2>4 DEF AllWritten, Passed
  <2> QED BY <1>1, <2>1, <2>3, <2>5 DEF Progress, AllWritten, Passed, AtBarrier
<1>5. WorkersOK'
  BY <1>1, <1>2, <1>4 DEF IInv, WorkersOK
<1>6. TrackerOK'
  <2>1. /\ complete_ \in Seq(Nat) /\ Ascending(complete_)
        /\ latest_ = [q \in Partitions |-> latest_[q]]
    BY DEF IInv, TrackerOK
  <2>2. \A i \in 1..Len(complete_) : complete_[i] \in Nat /\ complete_[i] >= complete_[1]
    BY <1>2, <2>1, ElementOfSeq DEF Ascending
  <2>3. ASSUME NEW q \in Partitions, NEW i \in 1..Len(complete_)
        PROVE  /\ Has(files', q, complete_[i]) /\ complete_[i] =< worker[q].applied
               /\ latest_[q] # None => complete_[i] =< latest_[q]
    BY <1>2, <2>2 DEF IInv, TrackerOK
  <2>4. ASSUME NEW q \in Partitions, latest_[q] # None
        PROVE  /\ latest_[q] \in Nat /\ latest_[q] =< worker[q].applied
               /\ AtBarrier(latest_[q]) /\ Has(files', q, latest_[q])
    <3>1. /\ latest_[q] \in Nat /\ latest_[q] =< worker[q].applied
          /\ AtBarrier(latest_[q]) /\ Has(files, q, latest_[q]) /\ complete_[1] =< latest_[q]
      BY <1>2, <2>4 DEF IInv, TrackerOK
    <3> QED BY <1>2, <3>1
  <2> QED BY <1>1, <2>1, <2>3, <2>4 DEF TrackerOK, AtBarrier
<1>7. RunOK'
  BY <1>1 DEF IInv, RunOK
<1> QED BY <1>2, <1>5, <1>6, <1>7 DEF IInv

-----------------------------------------------------------------------------
(***************************************************************************)
(* The invariant and what it says of the job.                              *)
(***************************************************************************)
LEMMA StutterStep == IInv /\ UNCHANGED vars => IInv'
  BY DEF IInv, RunOK, WorkersOK, TrackerOK, Progress, AllWritten, Passed, AtBarrier, vars,
         tracker, disk, ghost, bounds

LEMMA NextInv == IInv /\ [Next]_vars => IInv'
<1>1. ASSUME IInv, NEW p \in Partitions, WorkerStep(p) PROVE IInv'
  BY <1>1, ApplyStep, QuietStep, WriteStep, ReportStep, PruneStep DEF WorkerStep
<1> QED BY <1>1, StartStep, RouteStep, StopStep, ReturnStep, CrashStep, StutterStep DEF Next

(***************************************************************************)
(* Every reachable state satisfies the inductive invariant: the workers    *)
(* and their files follow the uninterrupted run, every barrier a worker    *)
(* has passed since the oldest retained offset has its file, and the       *)
(* offsets the tracker retains have one in every partition.                *)
(***************************************************************************)
THEOREM Invariance == Spec => []IInv
  BY InitInv, NextInv, PTL DEF Spec

\* Panes that agree slot by slot with a shard are the shard.
LEMMA ShardPanes ==
    ASSUME NEW p, NEW st, NEW gs, NEW shown, Shard(p, st, gs, shown)
    PROVE  st.panes = ShardOf(gs, p)
<1>1. Sound(st) /\ \A s \in Slots : st.panes[s] = IF s \in SlotsOf(p) THEN gs.panes[s] ELSE NoPane
  BY DEF Shard
<1>2. st.panes \in [Slots -> Counted]
  BY <1>1, SoundFields
<1>3. PICK f : f = st.panes
  OBVIOUS
<1>4. f = [s \in Slots |-> f[s]]
  BY <1>2, <1>3
<1>5. f = [s \in Slots |-> IF s \in SlotsOf(p) THEN gs.panes[s] ELSE NoPane]
  BY <1>1, <1>3, <1>4
<1> QED BY <1>3, <1>5 DEF ShardOf

LEMMA ShardsHold == IInv => ShardsAgree
<1> SUFFICES ASSUME IInv, NEW p \in Partitions
             PROVE  /\ mode = "running" /\ worker[p].pc \notin {"flushing", "exited"} =>
                         /\ worker[p].state.panes = ShardOf(After(worker[p].applied).state, p)
                         /\ worker[p].watermark = After(worker[p].applied).watermark
                    /\ \A f \in files[p] :
                         RestoreState(f.data).panes = ShardOf(After(f.offset).state, p)
  BY DEF ShardsAgree
<1>1. ASSUME mode = "running", worker[p].pc \notin {"flushing", "exited"}
      PROVE  /\ worker[p].state.panes = ShardOf(After(worker[p].applied).state, p)
             /\ worker[p].watermark = After(worker[p].applied).watermark
  <2>1. /\ ShardAt(history, p, worker[p].state, worker[p].applied)
        /\ worker[p].watermark = history[worker[p].applied + 1].watermark
    BY <1>1 DEF IInv, WorkersOK, Progress
  <2>2. worker[p].state.panes = ShardOf(history[worker[p].applied + 1].state, p)
    BY <2>1, ShardPanes DEF ShardAt
  <2> QED BY <2>1, <2>2 DEF After
<1>2. ASSUME NEW f \in files[p]
      PROVE  RestoreState(f.data).panes = ShardOf(After(f.offset).state, p)
  <2>1. IsCheckpoint(history, p, f)
    BY DEF IInv, Checkpoints
  <2>2. ShardAt(history, p, RestoreState(f.data), f.offset)
    BY <2>1, CheckpointFacts
  <2> QED BY <2>2, ShardPanes DEF ShardAt, After
<1> QED BY <1>1, <1>2

(***************************************************************************)
(* Partitioning is invisible (ShardsAgree): at every offset the panes and  *)
(* the watermark of a worker, running or restored from any file on its     *)
(* disk, are those the single-threaded run has for its keys.               *)
(***************************************************************************)
THEOREM ShardsTheorem == Spec => []ShardsAgree
  BY Invariance, ShardsHold, PTL

(***************************************************************************)
(* What the tracker calls complete can be restored (CompleteRestorable):   *)
(* every retained offset has a loadable file in every partition.           *)
(***************************************************************************)
THEOREM CompleteTheorem == Spec => []CompleteRestorable
<1>1. IInv => CompleteRestorable
  <2> SUFFICES ASSUME IInv, NEW i \in 1..Len(complete_) PROVE complete_[i] \in CommonOffsets(files)
    BY DEF CompleteRestorable
  <2>1. PICK o, h, d : o = complete_[i] /\ h = history /\ d = files
    OBVIOUS
  <2>2. Checkpoints(h, d) /\ \A p \in Partitions : Has(d, p, o)
    BY <2>1 DEF IInv, TrackerOK
  <2>3. o \in CommonOffsets(d)
    BY <2>2, CommonFacts
  <2> QED BY <2>1, <2>3
<1> QED BY <1>1, Invariance, PTL

-----------------------------------------------------------------------------
LEMMA ResumeFacts ==
    ASSUME NEW h, Len(h) \in Nat, NEW dirs, Checkpoints(h, dirs), NEW m,
           m = Max({0} \cup CommonOffsets(dirs))
    PROVE  /\ m \in Nat /\ \A o \in CommonOffsets(dirs) : o \in Nat /\ o =< m
           /\ m = 0 \/ m \in CommonOffsets(dirs)
<1>1. PICK S : S = {0} \cup CommonOffsets(dirs)
  OBVIOUS
<1>2. \A o \in CommonOffsets(dirs) : o \in Nat /\ o < Len(h)
  BY CommonBounded
<1>3. S \subseteq Int /\ S # {} /\ \A x \in S : x \in Nat /\ x =< Len(h)
  BY <1>1, <1>2
<1>4. Len(h) \in Int
  OBVIOUS
<1>5. m \in S /\ \A y \in S : y =< m
  BY <1>1, <1>3, <1>4, MaxGreatest
<1> QED BY <1>1, <1>3, <1>5

\* Only pruning takes files away.
LEMMA FilesKept ==
    ASSUME IInv, [Next]_vars
    PROVE  \/ \A q \in Partitions, b \in Nat : Has(files, q, b) => Has(files', q, b)
           \/ \E p \in Partitions : PruneOne(p)
<1>1. CASE files' = files
  BY <1>1
<1>2. ASSUME NEW p \in Partitions, WriteCheckpoint(p)
      PROVE  \A q \in Partitions, b \in Nat : Has(files, q, b) => Has(files', q, b)
  BY <1>2, WriteMoves
<1>3. \/ files' = files
      \/ \E p \in Partitions : WriteCheckpoint(p) \/ PruneOne(p)
  BY DEF Next, vars, disk, Start, Route, EndOfInput, StopRouting, Return, Crash, WorkerStep,
         ApplyNext, EmitResult, SuspendBarrier, Report, PruneDone, ReadComplete, StoreComplete,
         BeginFinalFlush, FlushDone
<1> QED BY <1>1, <1>2, <1>3

(***************************************************************************)
(* The job never destroys its last recovery cut (ResumeAdvances): no step, *)
(* a crash included, lowers the offset a restart would resume from.        *)
(***************************************************************************)
THEOREM ResumeTheorem == Spec => ResumeAdvances
<1>1. IInv /\ IInv' /\ [Next]_vars => [ResumeOffset' >= ResumeOffset]_vars
  <2> SUFFICES ASSUME IInv, IInv', [Next]_vars PROVE ResumeOffset' >= ResumeOffset
    OBVIOUS
  <2>1. PICK h, d, g, e : h = history /\ d = files /\ g = history' /\ e = files'
    OBVIOUS
  <2>2. Checkpoints(h, d) /\ Checkpoints(g, e) /\ Len(h) \in Nat /\ Len(g) \in Nat
    BY <2>1, LenProperties DEF IInv, RunOK
  <2>3. PICK m, n : m = Max({0} \cup CommonOffsets(d)) /\ n = Max({0} \cup CommonOffsets(e))
    OBVIOUS
  <2>4. /\ m \in Nat /\ \A o \in CommonOffsets(d) : o \in Nat /\ o =< m
        /\ m = 0 \/ m \in CommonOffsets(d)
    BY <2>2, <2>3, ResumeFacts
  <2>5. n \in Nat /\ \A o \in CommonOffsets(e) : o \in Nat /\ o =< n
    BY <2>2, <2>3, ResumeFacts
  <2>6. ASSUME m = 0 PROVE n >= m
    BY <2>5, <2>6
  <2>7. ASSUME m \in CommonOffsets(d) PROVE n >= m
    <3>1. \A p \in Partitions : Has(d, p, m)
      BY <2>2, <2>7, CommonFacts
    <3>2. \A p \in Partitions : Has(e, p, m)
      <4>1. CASE \A q \in Partitions, b \in Nat : Has(files, q, b) => Has(files', q, b)
        BY <2>1, <2>4, <3>1, <4>1
      <4>2. CASE \E p \in Partitions : PruneOne(p)
        <5>1. /\ complete_[1] \in Nat /\ 1 \in 1..Len(complete_)
              /\ KeptFrom(files, files', complete_[1])
          BY <4>2, PruneKeeps
        <5>2. PICK o : o = complete_[1] /\ \A p \in Partitions : Has(d, p, o)
          BY <2>1, <5>1 DEF IInv, TrackerOK
        <5>3. o \in CommonOffsets(d)
          BY <2>2, <5>2, CommonFacts
        <5>4. m >= o
          BY <2>4, <5>1, <5>2, <5>3
        <5> QED BY <2>1, <2>4, <3>1, <5>1, <5>2, <5>4 DEF KeptFrom
      <4> QED BY <4>1, <4>2, FilesKept
    <3>3. m \in CommonOffsets(e)
      BY <2>2, <3>2, CommonFacts
    <3> QED BY <2>4, <2>5, <3>3
  <2>8. n >= m
    BY <2>4, <2>6, <2>7
  <2> QED BY <2>1, <2>3, <2>8 DEF ResumeOffset
<1> QED BY <1>1, Invariance, PTL DEF Spec, ResumeAdvances

-----------------------------------------------------------------------------
(***************************************************************************)
(* What the sinks hold.  For a slot they are not behind point n of the     *)
(* run: they hold what the run shows there or later, or the run fires the  *)
(* slot again after that.                                                  *)
(***************************************************************************)
Unsettled(x, s) == x.latest[s].count < x.state.panes[s].count
NotBehind(h, shown, s, n) ==
    \E m \in n..(Len(h) - 1) : Unsettled(h[m + 1], s) \/ shown[s] = h[m + 1].latest[s]

\* What worker w still has to emit for a slot, and at its final flush.
Pending(h, shown, w, s) ==
    /\ w.outbox[s].count > 0 => w.outbox[s] = h[w.applied + 1].latest[s]
    /\ ~(w.outbox[s].count > 0) => NotBehind(h, shown, s, w.applied)
Flushing(h, shown, w, s) ==
    /\ w.outbox[s].count > 0 => w.outbox[s] = h[w.applied + 1].state.panes[s]
    /\ w.applied = NumRecords =>
          IF w.outbox[s].count > 0 THEN w.outbox[s] = Finished(h[NumRecords + 1])[s]
                                   ELSE shown[s] = Finished(h[NumRecords + 1])[s]

InFlush(w) == w.pc = "flushing" \/ (w.pc = "exited" /\ ended = "eos")

OutboxOK(p, w) ==
    /\ w.outbox \in [Slots -> Counted]
    /\ \A s \in Slots : s \notin SlotsOf(p) => w.outbox[s].count = 0
    /\ w.pc \in {"written", "pruning", "reported", "store", "exited"} => w.outbox = NoResults
    /\ mode \in {"running", "suspended"} =>
          \A s \in SlotsOf(p) : IF InFlush(w) THEN Flushing(history, latest, w, s)
                                              ELSE Pending(history, latest, w, s)

\* Before the first crash no file is ahead of its worker, and the sinks are
\* behind none; after it they are not behind the point the job restarts from.
NoneAhead == failures = 0 => \A p \in Partitions : \A f \in files[p] :
                mode # "down" /\ f.offset =< worker[p].applied
NoneBehind == failures = 0 \/ mode = "down" => \A p \in Partitions : \A f \in files[p] :
                 \A s \in SlotsOf(p) : NotBehind(history, latest, s, f.offset)
CommonRouted == mode # "down" => \A o \in Nat :
                   (\A p \in Partitions : Has(files, p, o)) => o =< routed

OutInv ==
    /\ latest \in [Slots -> Counted] /\ failures \in Nat
    /\ \A s \in Slots : NotBehind(history, latest, s, 0)
    /\ \A p \in Partitions : OutboxOK(p, worker[p])
    /\ NoneAhead /\ NoneBehind /\ CommonRouted /\ CompletesExact

LEMMA BehindEarlier ==
    ASSUME NEW h, NEW shown, NEW s, NEW n \in Nat, NEW m \in Nat, m =< n, Len(h) \in Nat,
           NotBehind(h, shown, s, n)
    PROVE  NotBehind(h, shown, s, m)
<1>1. PICK i \in n..(Len(h) - 1) : Unsettled(h[i + 1], s) \/ shown[s] = h[i + 1].latest[s]
  BY DEF NotBehind
<1>2. i \in m..(Len(h) - 1)
  BY <1>1
<1> QED BY <1>1, <1>2 DEF NotBehind

LEMMA BehindLonger ==
    ASSUME NEW h, NEW g, NEW shown, NEW s, NEW n \in Nat, Len(h) \in Nat, Len(g) \in Nat,
           Len(h) =< Len(g), \A i \in 1..Len(h) : g[i] = h[i], NotBehind(h, shown, s, n)
    PROVE  NotBehind(g, shown, s, n)
<1>1. PICK i \in n..(Len(h) - 1) : Unsettled(h[i + 1], s) \/ shown[s] = h[i + 1].latest[s]
  BY DEF NotBehind
<1>2. i \in n..(Len(g) - 1) /\ i + 1 \in 1..Len(h)
  BY <1>1
<1>3. g[i + 1] = h[i + 1]
  BY <1>2
<1> QED BY <1>1, <1>2, <1>3 DEF NotBehind

LEMMA BehindSame ==
    ASSUME NEW h, NEW shown, NEW other, NEW s, NEW n, other[s] = shown[s],
           NotBehind(h, shown, s, n)
    PROVE  NotBehind(h, other, s, n)
  BY DEF NotBehind

LEMMA BehindShown ==
    ASSUME NEW h, NEW shown, NEW s, NEW n \in Nat, Len(h) \in Nat, n < Len(h),
           Unsettled(h[n + 1], s) \/ shown[s] = h[n + 1].latest[s]
    PROVE  NotBehind(h, shown, s, n)
<1>1. n \in n..(Len(h) - 1)
  OBVIOUS
<1> QED BY <1>1 DEF NotBehind

\* A worker's state does not matter for what it has to emit.
LEMMA SameOutbox ==
    ASSUME NEW h, NEW shown, NEW w, NEW v, v.outbox = w.outbox, v.applied = w.applied, NEW s
    PROVE  /\ Pending(h, shown, w, s) => Pending(h, shown, v, s)
           /\ Flushing(h, shown, w, s) => Flushing(h, shown, v, s)
  BY DEF Pending, Flushing

LEMMA NoResultsFacts ==
    NoResults \in [Slots -> Counted] /\ \A s \in Slots : NoResults[s] = NoPane /\ NoResults[s].count = 0
<1>1. \A s \in Slots : NoResults[s] = NoPane
  BY DEF NoResults
<1>2. NoPane \in Counted /\ NoPane.count = 0
  BY EmptySound
<1>3. NoResults \in [Slots -> Counted]
  BY <1>2 DEF NoResults
<1> QED BY <1>1, <1>2, <1>3

LEMMA HistoryFacts ==
    ASSUME IInv
    PROVE  /\ Len(history) \in Nat /\ Len(history) = Len(log) + 1 /\ Len(log) \in Nat
           /\ Len(log) =< NumRecords /\ NumRecords \in Nat /\ routed \in Nat /\ routed =< Len(log)
           /\ routed < Len(history)
           /\ \A p \in Partitions : /\ worker[p].applied \in Nat /\ worker[p].applied =< routed
                                    /\ worker[p].applied < Len(history)
           /\ \A n \in Nat : n < Len(history) =>
                 history[n + 1] \in Points /\ FineAt(history[n + 1])
<1>1. /\ Len(log) \in Nat /\ Len(history) = Len(log) + 1 /\ history \in Seq(Points)
      /\ Len(log) =< NumRecords /\ routed \in Nat /\ routed =< Len(log)
      /\ \A n \in 1..Len(history) : FineAt(history[n])
  BY LenProperties DEF IInv, RunOK, Past
<1>2. \A p \in Partitions : worker[p].applied \in Nat /\ worker[p].applied =< routed
  BY DEF IInv, WorkersOK, Progress
<1>3. NumRecords \in Nat
  BY SourceAssumption
<1>4. ASSUME NEW n \in Nat, n < Len(history)
      PROVE  history[n + 1] \in Points /\ FineAt(history[n + 1])
  <2>1. n + 1 \in 1..Len(history)
    BY <1>1, <1>4
  <2> QED BY <1>1, <2>1, ElementOfSeq
<1>5. Len(history) \in Nat /\ routed < Len(history)
  BY <1>1
<1>6. \A p \in Partitions : worker[p].applied < Len(history)
  BY <1>1, <1>2, <1>5
<1> QED BY <1>1, <1>2, <1>3, <1>4, <1>5, <1>6

-----------------------------------------------------------------------------
LEMMA InitOut == Init => OutInv
<1> SUFFICES ASSUME Init PROVE OutInv
  OBVIOUS
<1>1. /\ latest = NoResults /\ failures = 0 /\ mode = "down" /\ history = NewHistory
      /\ worker = FreshWorkers /\ \A p \in Partitions : files[p] = {}
  BY DEF Init
<1>2. PICK x : x = NewHistory[1] /\ x.latest = NoResults /\ Len(NewHistory) = 1
  <2>1. PICK y : y = [state |-> EmptyState, watermark |-> MinTime, latest |-> NoResults,
                      source |-> NewGenerator]
    OBVIOUS
  <2>2. NewHistory = <<y>> /\ y.latest = NoResults
    BY <2>1 DEF NewHistory
  <2> QED BY <2>2
<1>3. ASSUME NEW s \in Slots PROVE NotBehind(NewHistory, NoResults, s, 0)
  <2>1. NewHistory[0 + 1] = x
    BY <1>2
  <2> QED BY <1>2, <2>1, BehindShown
<1>4. ASSUME NEW p \in Partitions PROVE OutboxOK(p, worker[p])
  <2>1. PICK w : w = worker[p] /\ w = NewWorker(EmptyState, MinTime, 0)
    BY <1>1 DEF FreshWorkers
  <2>2. w.outbox = NoResults /\ w.pc = "run"
    BY <2>1, NewWorkerFields
  <2> QED BY <1>1, <2>1, <2>2, NoResultsFacts DEF OutboxOK
<1>5. NoneAhead /\ NoneBehind /\ CommonRouted /\ CompletesExact
  BY <1>1 DEF NoneAhead, NoneBehind, CommonRouted, CompletesExact
<1> QED BY <1>1, <1>3, <1>4, <1>5, NoResultsFacts DEF OutInv

\* A step that changes one worker alone.
LEMMA OutLocal ==
    ASSUME IInv, OutInv, NEW p \in Partitions, NEW v, worker' = [worker EXCEPT ![p] = v],
           mode = "running", mode' = mode, routed' = routed, ended' = ended, files' = files,
           history' = history, latest' = latest, failures' = failures,
           v.applied \in Nat, v.applied >= worker[p].applied, OutboxOK(p, v)
    PROVE  OutInv'
<1>1. /\ worker' = [q \in Partitions |-> worker'[q]] /\ worker'[p] = v
      /\ \A q \in Partitions : q # p => worker'[q] = worker[q]
  BY WorkerShape
<1>2. ASSUME NEW q \in Partitions PROVE OutboxOK(q, worker[q])'
  <2>1. PICK w : w = worker'[q] /\ OutboxOK(q, w)
    BY <1>1 DEF OutInv
  <2> QED BY <2>1 DEF OutboxOK, InFlush
<1>3. NoneAhead'
  <2> SUFFICES ASSUME failures = 0, NEW q \in Partitions, NEW f \in files[q]
               PROVE  mode # "down" /\ f.offset =< worker'[q].applied
    BY DEF NoneAhead
  <2>1. f.offset =< worker[q].applied /\ mode # "down"
    BY DEF OutInv, NoneAhead
  <2>2. f.offset \in Nat /\ worker[q].applied \in Nat
    BY HistoryFacts DEF IInv, Checkpoints, IsCheckpoint
  <2>3. worker'[q].applied \in Nat /\ worker'[q].applied >= worker[q].applied
    BY <1>1, <2>2
  <2> QED BY <2>1, <2>2, <2>3
<1>4. NoneBehind' /\ CommonRouted'
  BY DEF OutInv, NoneBehind, CommonRouted
<1>5. CompletesExact'
  BY DEF CompletesExact
<1> QED BY <1>2, <1>3, <1>4, <1>5 DEF OutInv

LEMMA ApplyOut == ASSUME NEW p \in Partitions PROVE IInv /\ OutInv /\ ApplyNext(p) => OutInv'
<1> SUFFICES ASSUME IInv, OutInv, ApplyNext(p) PROVE OutInv'
  OBVIOUS
<1>1. /\ mode = "running" /\ worker[p].pc = "run" /\ worker[p].applied < routed
      /\ worker[p].outbox = NoResults /\ latest' = latest /\ failures' = failures
      /\ mode' = mode /\ routed' = routed /\ ended' = ended
      /\ files' = files /\ history' = history
  BY DEF ApplyNext, disk, ghost, bounds
<1>2. PICK v, a :
              /\ worker' = [worker EXCEPT ![p] = v]
              /\ a = WorkerItems(worker[p], worker[p].applied + 1, KeysOf(p))
              /\ v.applied = worker[p].applied + 1 /\ v.outbox = a.results
              /\ v.pc = (IF BarrierAt(v.applied) THEN "due" ELSE "run")
  BY ApplyMoves
<1>3. PICK m \in Nat : /\ m = worker[p].applied /\ v.applied = m + 1 /\ v.applied \in Nat
                       /\ v.applied >= worker[p].applied /\ m + 1 < Len(history) /\ Len(history) \in Nat
  BY <1>1, <1>2, HistoryFacts
<1>4. a.results \in [Slots -> Counted]
  <2>1. PICK st, wm, n : st = worker[p].state /\ wm = worker[p].watermark /\ n = m + 1
    OBVIOUS
  <2>2. Sound(st) /\ wm \in Int
    <3>1. ShardAt(history, p, st, m) /\ wm = history[m + 1].watermark
      BY <1>1, <1>3, <2>1 DEF IInv, WorkersOK, Progress
    <3>2. history[m + 1] \in Points
      BY <1>3, HistoryFacts
    <3> QED BY <3>1, <3>2, PointFields DEF ShardAt, Shard
  <2>3. PICK r \in Records : r = log[n]
    <3>1. log \in Seq(Records) /\ Len(log) \in Nat /\ n =< Len(log) /\ n \in Nat /\ n >= 1
      BY <1>3, <2>1, HistoryFacts DEF IInv, RunOK
    <3> QED BY <3>1, ElementOfSeq
  <2>4. PICK g \in Generators : g = history[n + 1].source
    <3>1. n \in Nat /\ n < Len(history) /\ Past(history, log)
      BY <1>3, <2>1 DEF IInv, RunOK
    <3> QED BY <3>1, PastPoints
  <2>5. a = RunItems(st, wm, r, g, KeysOf(p))
    BY <1>2, <1>3, <2>1, <2>3, <2>4 DEF WorkerItems
  <2> QED BY <2>2, <2>4, <2>5, RunItemsSound
<1>5. /\ \A s \in Slots : s \notin SlotsOf(p) => a.results[s].count = 0
      /\ \A s \in SlotsOf(p) :
            /\ history[m + 2].latest[s] = IF a.results[s].count > 0 THEN a.results[s]
                                                                   ELSE history[m + 1].latest[s]
            /\ a.results[s].count = 0 /\ Unsettled(history[m + 1], s) => Unsettled(history[m + 2], s)
  <2>1. PICK n : n = worker[p].applied + 1
    OBVIOUS
  <2>2. NextPoint(p, a.results, history[n], history[n + 1])
    BY <1>1, <1>2, <2>1, PointStep
  <2>3. n = m + 1 /\ n + 1 = m + 2
    BY <1>3, <2>1
  <2> QED BY <2>2, <2>3 DEF NextPoint, Unsettled
<1>6. ASSUME NEW s \in SlotsOf(p) PROVE Pending(history, latest, v, s)
  <2>1. s \in Slots /\ a.results[s].count \in Nat
    BY <1>4, SlotsOfFacts DEF Counted
  <2>2. CASE a.results[s].count > 0
    <3>1. v.outbox[s] = history[m + 2].latest[s] /\ v.applied + 1 = m + 2 /\ v.outbox[s].count > 0
      BY <1>2, <1>3, <1>5, <2>2
    <3> QED BY <3>1 DEF Pending
  <2>3. CASE ~(a.results[s].count > 0)
    <3>1. NotBehind(history, latest, s, m)
      <4>1. Pending(history, latest, worker[p], s)
        BY <1>1 DEF OutInv, OutboxOK, InFlush
      <4>2. ~(worker[p].outbox[s].count > 0)
        BY <1>1, <2>1, NoResultsFacts
      <4> QED BY <1>3, <4>1, <4>2 DEF Pending
    <3>2. PICK i \in m..(Len(history) - 1) :
             Unsettled(history[i + 1], s) \/ latest[s] = history[i + 1].latest[s]
      BY <3>1 DEF NotBehind
    <3>3. CASE i = m
      <4>1. history[m + 2].latest[s] = history[m + 1].latest[s]
            /\ (Unsettled(history[m + 1], s) => Unsettled(history[m + 2], s))
        BY <1>5, <2>1, <2>3
      <4>2. Unsettled(history[m + 2], s) \/ latest[s] = history[m + 2].latest[s]
        BY <3>2, <3>3, <4>1
      <4>3. NotBehind(history, latest, s, m + 1)
        <5>1. (m + 1) + 1 = m + 2 /\ m + 1 \in Nat
          BY <1>3
        <5> QED BY <1>3, <4>2, <5>1, BehindShown
      <4> QED BY <1>2, <1>3, <2>3, <4>3 DEF Pending
    <3>4. CASE i # m
      <4>1. i \in (m + 1)..(Len(history) - 1)
        BY <1>3, <3>2, <3>4
      <4>2. NotBehind(history, latest, s, m + 1)
        BY <3>2, <4>1 DEF NotBehind
      <4> QED BY <1>2, <1>3, <2>3, <4>2 DEF Pending
    <3> QED BY <3>3, <3>4
  <2> QED BY <2>2, <2>3
<1>7. v.pc \in {"due", "run"}
  BY <1>2
<1>8. OutboxOK(p, v)
  BY <1>2, <1>4, <1>5, <1>6, <1>7 DEF OutboxOK, InFlush
<1> QED BY <1>1, <1>2, <1>3, <1>8, OutLocal

\* The steps that leave the outbox as it is.
LEMMA QuietOut ==
    ASSUME NEW p \in Partitions
    PROVE  IInv /\ OutInv /\ (\/ SuspendBarrier(p) \/ Report(p) \/ PruneDone(p) \/ ReadComplete(p)
                              \/ StoreComplete(p) \/ FlushDone(p)) => OutInv'
<1> SUFFICES ASSUME IInv, OutInv, \/ SuspendBarrier(p) \/ Report(p) \/ PruneDone(p)
                                  \/ ReadComplete(p) \/ StoreComplete(p) \/ FlushDone(p)
             PROVE  OutInv'
  OBVIOUS
<1>1. Progress(p, worker[p]) /\ OutboxOK(p, worker[p])
  BY DEF IInv, WorkersOK, OutInv
<1>2. /\ mode' = mode /\ routed' = routed /\ ended' = ended /\ files' = files
      /\ history' = history /\ latest' = latest /\ failures' = failures
  BY DEF SuspendBarrier, Report, PruneDone, ReadComplete, StoreComplete, FlushDone,
         disk, ghost, bounds
<1>3. mode = "running"
  BY <1>1 DEF SuspendBarrier, Report, PruneDone, ReadComplete, StoreComplete, FlushDone,
              Drained, Progress
<1>4. ASSUME NEW v, worker' = [worker EXCEPT ![p] = v], v.outbox = worker[p].outbox,
             v.applied = worker[p].applied, InFlush(v) <=> InFlush(worker[p]),
             v.pc \in {"written", "pruning", "reported", "store", "exited"} =>
                 worker[p].outbox = NoResults
      PROVE  OutInv'
  <2>1. OutboxOK(p, v)
    BY <1>1, <1>4, SameOutbox DEF OutboxOK
  <2>2. v.applied \in Nat /\ v.applied >= worker[p].applied
    BY <1>4, HistoryFacts
  <2> QED BY <1>2, <1>3, <1>4, <2>1, <2>2, OutLocal
<1>5. CASE SuspendBarrier(p)
  <2>1. PICK v : worker' = [worker EXCEPT ![p] = v] /\ SameWork(v, worker[p]) /\ v.pc = "due"
                 /\ v.outbox = worker[p].outbox
    BY <1>5, SuspendMoves
  <2>2. worker[p].pc = "run"
    BY <1>5 DEF SuspendBarrier, Drained
  <2> QED BY <1>4, <2>1, <2>2 DEF SameWork, InFlush
<1>6. CASE Report(p)
  <2>1. PICK v : worker' = [worker EXCEPT ![p] = v] /\ SameWork(v, worker[p])
                 /\ v.pc \in {"pruning", "reported"} /\ v.outbox = worker[p].outbox
    BY <1>6, ReportMoves
  <2>2. worker[p].pc = "written" /\ worker[p].outbox = NoResults
    BY <1>1, <1>6 DEF Report, OutboxOK
  <2> QED BY <1>4, <2>1, <2>2 DEF SameWork, InFlush
<1>7. CASE PruneDone(p)
  <2>1. worker[p].pc = "pruning" /\ worker[p].outbox = NoResults
    BY <1>1, <1>7 DEF PruneDone, OutboxOK
  <2>2. PICK w : w = worker[p] /\ Shape(w)
    BY WorkerShape
  <2>3. PICK v : v = [w EXCEPT !.pc = "reported"]
    OBVIOUS
  <2>4. worker' = [worker EXCEPT ![p] = v]
    BY <1>7, <2>2, <2>3, WorkerShape DEF PruneDone
  <2>5. SameWork(v, w) /\ v.pc = "reported" /\ v.outbox = w.outbox
    BY <2>2, <2>3, SetPc
  <2> QED BY <1>4, <2>1, <2>2, <2>4, <2>5 DEF SameWork, InFlush
<1>8. CASE ReadComplete(p)
  <2>1. PICK v : worker' = [worker EXCEPT ![p] = v] /\ SameWork(v, worker[p]) /\ v.pc = "store"
                 /\ v.outbox = worker[p].outbox
    BY <1>8, ReadMoves
  <2>2. worker[p].pc = "reported" /\ worker[p].outbox = NoResults
    BY <1>1, <1>8 DEF ReadComplete, OutboxOK
  <2> QED BY <1>4, <2>1, <2>2 DEF SameWork, InFlush
<1>9. CASE StoreComplete(p)
  <2>1. PICK v : worker' = [worker EXCEPT ![p] = v] /\ SameWork(v, worker[p])
                 /\ v.pc = (IF worker[p].last THEN "exited" ELSE "run")
                 /\ v.outbox = worker[p].outbox
    BY <1>9, StoreMoves
  <2>2. worker[p].pc = "store" /\ worker[p].outbox = NoResults
    BY <1>1, <1>9 DEF StoreComplete, OutboxOK
  <2>3. worker[p].last => ended = "suspend"
    BY <1>1 DEF Progress
  <2> QED BY <1>4, <2>1, <2>2, <2>3 DEF SameWork, InFlush
<1>10. CASE FlushDone(p)
  <2>1. worker[p].pc = "flushing" /\ worker[p].outbox = NoResults /\ ended = "eos"
    BY <1>1, <1>10 DEF FlushDone, Progress
  <2>2. PICK w : w = worker[p] /\ Shape(w)
    BY WorkerShape
  <2>3. PICK v : v = [w EXCEPT !.pc = "exited"]
    OBVIOUS
  <2>4. worker' = [worker EXCEPT ![p] = v]
    BY <1>10, <2>2, <2>3, WorkerShape DEF FlushDone
  <2>5. SameWork(v, w) /\ v.pc = "exited" /\ v.outbox = w.outbox
    BY <2>2, <2>3, SetPc
  <2> QED BY <1>4, <2>1, <2>2, <2>4, <2>5 DEF SameWork, InFlush
<1> QED BY <1>5, <1>6, <1>7, <1>8, <1>9, <1>10

\* A slot belongs to one partition.
LEMMA OneOwner ==
    /\ \A p, q \in Partitions : \A s \in SlotsOf(p) : s \in SlotsOf(q) => p = q
    /\ \A s \in Slots : \E p \in Partitions : s \in SlotsOf(p)
<1>1. PartitionForKey \in [Keys -> Partitions]
  BY PartitionAssumption
<1>2. \A s \in Slots : s[2] \in Keys
  BY SlotFacts
<1>3. \A p : \A s \in Slots : s \in SlotsOf(p) <=> PartitionForKey[s[2]] = p
  BY <1>2 DEF SlotsOf, KeysOf
<1>4. \A p : SlotsOf(p) \subseteq Slots
  BY SlotsOfFacts
<1> QED BY <1>1, <1>2, <1>3, <1>4

\* What a worker emits, from a watermark or from its flush, is not behind.
LEMMA EmittedFresh ==
    ASSUME IInv, OutInv, mode = "running", NEW p \in Partitions, NEW s \in SlotsOf(p),
           worker[p].outbox[s].count > 0, NEW shown, shown[s] = worker[p].outbox[s]
    PROVE  NotBehind(history, shown, s, worker[p].applied)
<1>1. PICK n, x : n = worker[p].applied /\ x = history[worker[p].applied + 1]
  OBVIOUS
<1>2. n \in Nat /\ n < Len(history) /\ Len(history) \in Nat
  BY <1>1, HistoryFacts
<1>3. x \in Points /\ FineAt(x)
  BY <1>1, <1>2, HistoryFacts
<1>4. CASE ~InFlush(worker[p])
  <2>1. Pending(history, latest, worker[p], s)
    BY <1>4 DEF OutInv, OutboxOK
  <2>2. shown[s] = x.latest[s]
    BY <1>1, <2>1 DEF Pending
  <2> QED BY <1>1, <1>2, <2>2, BehindShown
<1>5. CASE InFlush(worker[p])
  <2>1. Flushing(history, latest, worker[p], s)
    BY <1>5 DEF OutInv, OutboxOK
  <2>2. shown[s] = x.state.panes[s] /\ x.state.panes[s].count > 0
    BY <1>1, <2>1 DEF Flushing
  <2>3. s \in Slots
    BY SlotsOfFacts
  <2>4. x.latest[s] = x.state.panes[s] \/ Unsettled(x, s)
    BY <1>3, <2>2, <2>3 DEF FineAt, Fine, Unsettled
  <2> QED BY <1>1, <1>2, <2>2, <2>4, BehindShown
<1> QED BY <1>4, <1>5

LEMMA EmitOut ==
    ASSUME NEW p \in Partitions, NEW s \in Slots
    PROVE  IInv /\ OutInv /\ EmitResult(p, s) => OutInv'
<1> SUFFICES ASSUME IInv, OutInv, EmitResult(p, s) PROVE OutInv'
  OBVIOUS
<1>1. /\ mode = "running" /\ worker[p].outbox[s].count > 0
      /\ latest' = [latest EXCEPT ![s] = worker[p].outbox[s]] /\ failures' = failures
      /\ mode' = mode /\ routed' = routed /\ ended' = ended
      /\ files' = files /\ history' = history
  BY DEF EmitResult, ghost, bounds
<1>2. PICK v : /\ worker' = [worker EXCEPT ![p] = v] /\ SameWork(v, worker[p])
               /\ v.pc = worker[p].pc /\ v.outbox = [worker[p].outbox EXCEPT ![s] = NoPane]
  BY EmitMoves
<1>3. /\ worker' = [q \in Partitions |-> worker'[q]] /\ worker'[p] = v
      /\ \A q \in Partitions : q # p => worker'[q] = worker[q]
  BY <1>2, WorkerShape
<1>4. PICK w : w = worker[p] /\ OutboxOK(p, w)
  BY DEF OutInv
<1>5. /\ w.outbox \in [Slots -> Counted] /\ s \in SlotsOf(p)
      /\ \A t \in Slots : t \notin SlotsOf(p) => w.outbox[t].count = 0
      /\ w.pc \notin {"written", "pruning", "reported", "store", "exited"}
  <2>1. w.outbox \in [Slots -> Counted]
        /\ \A t \in Slots : t \notin SlotsOf(p) => w.outbox[t].count = 0
    BY <1>4 DEF OutboxOK
  <2>2. w.pc \notin {"written", "pruning", "reported", "store", "exited"}
    BY <1>1, <1>4, NoResultsFacts DEF OutboxOK
  <2> QED BY <1>1, <1>4, <2>1, <2>2
<1>6. latest \in [Slots -> Counted]
  BY DEF OutInv
<1>7. PICK l2 : l2 = latest'
  OBVIOUS
<1>8. /\ l2 \in [Slots -> Counted] /\ l2[s] = w.outbox[s]
      /\ \A t \in Slots : t # s => l2[t] = latest[t]
  BY <1>1, <1>4, <1>5, <1>6, <1>7
<1>9. NotBehind(history, l2, s, w.applied) /\ w.applied \in Nat /\ Len(history) \in Nat
  BY <1>1, <1>4, <1>5, <1>8, EmittedFresh, HistoryFacts
<1>10. ASSUME NEW t \in Slots PROVE NotBehind(history, l2, t, 0)
  <2>1. CASE t = s
    <3>1. 0 \in Nat /\ 0 =< w.applied
      BY <1>9
    <3> QED BY <1>9, <2>1, <3>1, BehindEarlier
  <2>2. CASE t # s
    <3>1. NotBehind(history, latest, t, 0) /\ l2[t] = latest[t]
      BY <1>8, <2>2 DEF OutInv
    <3> QED BY <3>1, BehindSame
  <2> QED BY <2>1, <2>2
<1>11. /\ v.outbox \in [Slots -> Counted] /\ v.outbox[s] = NoPane /\ NoPane.count = 0
       /\ \A t \in Slots : t # s => v.outbox[t] = w.outbox[t]
       /\ v.applied = w.applied /\ v.pc = w.pc
  BY <1>2, <1>4, <1>5, EmptySound DEF SameWork
<1>12. \A t \in Slots : t \notin SlotsOf(p) => v.outbox[t].count = 0
  BY <1>5, <1>11
<1>13. ASSUME NEW q \in Partitions PROVE OutboxOK(q, worker[q])'
  <2>1. CASE q # p
    <3>1. PICK u : u = worker[q] /\ u = worker'[q] /\ OutboxOK(q, u)
      BY <1>3, <2>1 DEF OutInv
    <3>2. ASSUME NEW t \in SlotsOf(q)
          PROVE  /\ Pending(history, latest, u, t) => Pending(history, l2, u, t)
                 /\ Flushing(history, latest, u, t) => Flushing(history, l2, u, t)
      <4>1. t \in Slots /\ t # s
        BY <1>5, <2>1, OneOwner, SlotsOfFacts
      <4>2. l2[t] = latest[t]
        BY <1>8, <4>1
      <4> QED BY <4>2, BehindSame DEF Pending, Flushing
    <3> QED BY <1>1, <1>7, <3>1, <3>2 DEF OutboxOK, InFlush
  <2>2. CASE q = p
    <3>1. ASSUME NEW t \in SlotsOf(p)
          PROVE  IF InFlush(w) THEN Flushing(history, l2, v, t) ELSE Pending(history, l2, v, t)
      <4>0. t \in Slots
        BY SlotsOfFacts
      <4>1. IF InFlush(w) THEN Flushing(history, latest, w, t) ELSE Pending(history, latest, w, t)
        BY <1>1, <1>4 DEF OutboxOK
      <4>2. CASE t # s
        <5>1. v.outbox[t] = w.outbox[t] /\ l2[t] = latest[t] /\ v.applied = w.applied
          BY <1>8, <1>11, <4>0, <4>2
        <5>2. Pending(history, latest, w, t) => Pending(history, l2, v, t)
          BY <5>1, BehindSame DEF Pending
        <5>3. Flushing(history, latest, w, t) => Flushing(history, l2, v, t)
          BY <5>1 DEF Flushing
        <5> QED BY <4>1, <5>2, <5>3
      <4>3. CASE t = s
        <5>1. ~(v.outbox[t].count > 0) /\ v.applied = w.applied /\ w.outbox[t].count > 0
              /\ l2[t] = w.outbox[t]
          BY <1>1, <1>4, <1>8, <1>11, <4>3
        <5>2. Pending(history, l2, v, t)
          BY <1>9, <4>3, <5>1 DEF Pending
        <5>3. Flushing(history, latest, w, t) => Flushing(history, l2, v, t)
          BY <5>1 DEF Flushing
        <5> QED BY <4>1, <5>2, <5>3
      <4> QED BY <4>2, <4>3
    <3>2. InFlush(v) <=> InFlush(w)
      BY <1>11 DEF InFlush
    <3> QED BY <1>1, <1>3, <1>5, <1>7, <1>11, <1>12, <2>2, <3>1, <3>2 DEF OutboxOK, InFlush
  <2> QED BY <2>1, <2>2
<1>14. NoneAhead'
  <2>1. \A q \in Partitions : worker'[q].applied = worker[q].applied
    BY <1>3, <1>4, <1>11
  <2> QED BY <1>1, <2>1 DEF OutInv, NoneAhead
<1>15. NoneBehind'
  <2> SUFFICES ASSUME failures = 0, NEW q \in Partitions, NEW f \in files[q], NEW t \in SlotsOf(q)
               PROVE  NotBehind(history, l2, t, f.offset)
    BY <1>1, <1>7 DEF NoneBehind
  <2>1. t \in Slots
    BY SlotsOfFacts
  <2>2. CASE t # s
    <3>1. NotBehind(history, latest, t, f.offset) /\ l2[t] = latest[t]
      BY <1>8, <2>1, <2>2 DEF OutInv, NoneBehind
    <3> QED BY <3>1, BehindSame
  <2>3. CASE t = s
    <3>1. q = p
      BY <1>5, <2>3, OneOwner
    <3>2. f.offset =< w.applied
      BY <1>4, <3>1 DEF OutInv, NoneAhead
    <3>3. f.offset \in Nat
      BY DEF IInv, Checkpoints, IsCheckpoint
    <3> QED BY <1>9, <2>3, <3>2, <3>3, BehindEarlier
  <2> QED BY <2>2, <2>3
<1>16. CommonRouted' /\ CompletesExact'
  BY <1>1 DEF OutInv, CommonRouted, CompletesExact
<1>17. failures' \in Nat
  BY <1>1 DEF OutInv
<1> QED BY <1>1, <1>7, <1>8, <1>10, <1>13, <1>14, <1>15, <1>16, <1>17 DEF OutInv

\* A checkpoint is published with the outbox empty.
LEMMA WriteOut == ASSUME NEW p \in Partitions PROVE IInv /\ OutInv /\ WriteCheckpoint(p) => OutInv'
<1> SUFFICES ASSUME IInv, OutInv, WriteCheckpoint(p) PROVE OutInv'
  OBVIOUS
<1>1. /\ worker[p].outbox = NoResults /\ latest' = latest /\ failures' = failures
      /\ mode' = mode /\ routed' = routed /\ ended' = ended /\ history' = history
  BY DEF WriteCheckpoint, ghost, bounds
<1>2. PICK v : /\ worker' = [worker EXCEPT ![p] = v] /\ SameWork(v, worker[p])
               /\ v.pc = "written" /\ v.outbox = worker[p].outbox
  BY WriteMoves
<1>3. /\ mode = "running" /\ worker[p].pc = "due" /\ worker[p].applied \in Nat
      /\ \A q \in Partitions : \A f \in files'[q] :
            f \in files[q] \/ (q = p /\ f.offset = worker[p].applied)
  BY WriteMoves
<1>4. /\ worker' = [q \in Partitions |-> worker'[q]] /\ worker'[p] = v
      /\ \A q \in Partitions : q # p => worker'[q] = worker[q]
  BY <1>2, WorkerShape
<1>5. \A q \in Partitions : worker'[q].applied = worker[q].applied
  BY <1>2, <1>4 DEF SameWork
<1>6. OutboxOK(p, worker[p]) /\ ~InFlush(worker[p]) /\ ~InFlush(v)
  BY <1>2, <1>3 DEF OutInv, InFlush
<1>7. OutboxOK(p, v)
  <2>1. v.applied = worker[p].applied
    BY <1>2 DEF SameWork
  <2> QED BY <1>1, <1>2, <1>6, <2>1, SameOutbox DEF OutboxOK
<1>8. ASSUME NEW q \in Partitions PROVE OutboxOK(q, worker[q])'
  <2>1. PICK u : u = worker'[q] /\ OutboxOK(q, u)
    BY <1>4, <1>7 DEF OutInv
  <2> QED BY <1>1, <2>1 DEF OutboxOK, InFlush
<1>9. NoneAhead'
  <2> SUFFICES ASSUME failures = 0, NEW q \in Partitions, NEW f \in files'[q]
               PROVE  mode # "down" /\ f.offset =< worker'[q].applied
    BY <1>1 DEF NoneAhead
  <2>1. CASE f \in files[q]
    BY <1>5, <2>1 DEF OutInv, NoneAhead
  <2>2. CASE q = p /\ f.offset = worker[p].applied
    BY <1>3, <1>5, <2>2
  <2> QED BY <1>3, <2>1, <2>2
<1>10. NoneBehind'
  <2> SUFFICES ASSUME failures = 0, NEW q \in Partitions, NEW f \in files'[q], NEW s \in SlotsOf(q)
               PROVE  NotBehind(history, latest, s, f.offset)
    BY <1>1, <1>3 DEF NoneBehind
  <2>1. CASE f \in files[q]
    BY <2>1 DEF OutInv, NoneBehind
  <2>2. CASE q = p /\ f.offset = worker[p].applied
    <3>1. Pending(history, latest, worker[p], s)
      BY <1>3, <1>6, <2>2 DEF OutboxOK
    <3>2. ~(worker[p].outbox[s].count > 0)
      <4>1. s \in Slots
        BY SlotsOfFacts
      <4> QED BY <1>1, <4>1, NoResultsFacts
    <3> QED BY <2>2, <3>1, <3>2 DEF Pending
  <2> QED BY <1>3, <2>1, <2>2
<1>11. CommonRouted'
  <2> SUFFICES ASSUME NEW o \in Nat, \A q \in Partitions : Has(files', q, o) PROVE o =< routed
    BY <1>1 DEF CommonRouted
  <2>1. CASE o = worker[p].applied
    BY <2>1, HistoryFacts
  <2>2. CASE o # worker[p].applied
    <3>1. \A q \in Partitions : Has(files, q, o)
      BY <1>3, <2>2 DEF Has
    <3> QED BY <1>3, <3>1 DEF OutInv, CommonRouted
  <2> QED BY <2>1, <2>2
<1>12. CompletesExact'
  BY <1>1, <1>3 DEF CompletesExact
<1> QED BY <1>1, <1>8, <1>9, <1>10, <1>11, <1>12 DEF OutInv

LEMMA PruneOut == ASSUME NEW p \in Partitions PROVE IInv /\ OutInv /\ PruneOne(p) => OutInv'
<1> SUFFICES ASSUME IInv, OutInv, PruneOne(p) PROVE OutInv'
  OBVIOUS
<1>1. /\ latest' = latest /\ failures' = failures /\ mode' = mode /\ routed' = routed
      /\ ended' = ended /\ history' = history /\ worker' = worker
  BY DEF PruneOne, ghost, bounds
<1>2. mode = "running" /\ \A q \in Partitions : files'[q] \subseteq files[q]
  BY PruneKeeps
<1>3. \A q \in Partitions : OutboxOK(q, worker[q])'
  BY <1>1 DEF OutInv, OutboxOK, InFlush
<1>4. NoneAhead' /\ NoneBehind'
  BY <1>1, <1>2 DEF OutInv, NoneAhead, NoneBehind
<1>5. CommonRouted'
  BY <1>1, <1>2 DEF OutInv, CommonRouted, Has
<1>6. CompletesExact'
  BY <1>1, <1>2 DEF CompletesExact
<1> QED BY <1>1, <1>3, <1>4, <1>5, <1>6 DEF OutInv

\* At the end of its input a worker flushes what the run has not shown.
LEMMA FlushOut == ASSUME NEW p \in Partitions PROVE IInv /\ OutInv /\ BeginFinalFlush(p) => OutInv'
<1> SUFFICES ASSUME IInv, OutInv, BeginFinalFlush(p) PROVE OutInv'
  OBVIOUS
<1>1. /\ mode = "running" /\ worker[p].pc = "run" /\ worker[p].outbox = NoResults
      /\ latest' = latest /\ failures' = failures /\ mode' = mode /\ routed' = routed
      /\ ended' = ended /\ files' = files /\ history' = history
  BY DEF BeginFinalFlush, Drained, disk, ghost, bounds
<1>2. PICK v : /\ worker' = [worker EXCEPT ![p] = v] /\ v.applied = worker[p].applied
               /\ v.pc = "flushing" /\ v.outbox = FlushResults(worker[p].state)
  BY FlushMoves
<1>3. PICK st, n, x : st = worker[p].state /\ n = worker[p].applied /\ x = history[n + 1]
  OBVIOUS
<1>4. /\ n \in Nat /\ n < Len(history) /\ Len(history) \in Nat /\ Len(history) =< NumRecords + 1
      /\ x \in Points /\ Fine(x.state, x.watermark, x.latest) /\ NumRecords \in Nat
  <2>1. n \in Nat /\ n < Len(history) /\ Len(history) \in Nat
    BY <1>3, HistoryFacts
  <2>2. Len(history) =< NumRecords + 1 /\ NumRecords \in Nat
    BY HistoryFacts
  <2>3. x \in Points /\ FineAt(x)
    BY <1>3, <2>1, HistoryFacts
  <2>4. Fine(x.state, x.watermark, x.latest)
    BY <2>3 DEF FineAt
  <2> QED BY <2>1, <2>2, <2>3, <2>4
<1>5. Shard(p, st, x.state, x.latest)
  BY <1>1, <1>3 DEF IInv, WorkersOK, Progress, ShardAt
<1>6. ASSUME NEW s \in SlotsOf(p)
      PROVE  /\ s \in FlushEmits(st) => st.panes[s].count > 0 /\ st.panes[s] = x.state.panes[s]
             /\ Finished(x)[s] = IF s \in FlushEmits(st) THEN st.panes[s] ELSE x.latest[s]
             /\ Unsettled(x, s) => s \in FlushEmits(st)
             /\ FlushEmits(st) \subseteq SlotsOf(p)
  BY <1>4, <1>5, FlushStep DEF Unsettled
<1>7. Sound(st)
  BY <1>5 DEF Shard
<1>8. PICK out : out = v.outbox
  OBVIOUS
<1>9. \A s \in Slots : out[s] = IF s \in FlushEmits(st) THEN st.panes[s] ELSE NoPane
  BY <1>2, <1>3, <1>8 DEF FlushResults
<1>10. out \in [Slots -> Counted]
  <2>1. out = [s \in Slots |-> IF s \in FlushEmits(st) THEN st.panes[s] ELSE NoPane]
    BY <1>2, <1>3, <1>8 DEF FlushResults
  <2>2. \A s \in Slots : st.panes[s] \in Counted
    BY <1>7, SoundFields
  <2> QED BY <2>1, <2>2, EmptySound
<1>11. \A s \in Slots : s \notin SlotsOf(p) => out[s].count = 0
  <2>1. \A s \in Slots : s \notin SlotsOf(p) => st.panes[s] = NoPane
    BY <1>5 DEF Shard
  <2> QED BY <1>9, <2>1, EmptySound
<1>12. ASSUME NEW s \in SlotsOf(p) PROVE Flushing(history, latest, v, s)
  <2>1. s \in Slots /\ NoPane.count = 0
    BY SlotsOfFacts, EmptySound
  <2>2. CASE s \in FlushEmits(st)
    <3>1. v.outbox[s] = x.state.panes[s] /\ v.outbox[s].count > 0 /\ v.outbox[s] = Finished(x)[s]
      BY <1>6, <1>8, <1>9, <2>1, <2>2
    <3> QED BY <1>2, <1>3, <3>1 DEF Flushing
  <2>3. CASE s \notin FlushEmits(st)
    <3>1. ~(v.outbox[s].count > 0)
      BY <1>8, <1>9, <2>1, <2>3
    <3>2. ASSUME v.applied = NumRecords PROVE latest[s] = Finished(history[NumRecords + 1])[s]
      <4>1. NotBehind(history, latest, s, n)
        <5>1. Pending(history, latest, worker[p], s)
          BY <1>1 DEF OutInv, OutboxOK, InFlush
        <5>2. ~(worker[p].outbox[s].count > 0)
          BY <1>1, <2>1, NoResultsFacts
        <5> QED BY <1>3, <5>1, <5>2 DEF Pending
      <4>2. n = NumRecords
        BY <1>2, <1>3, <3>2
      <4>3. PICK i \in n..(Len(history) - 1) :
               Unsettled(history[i + 1], s) \/ latest[s] = history[i + 1].latest[s]
        BY <4>1 DEF NotBehind
      <4>4. i = n
        BY <1>4, <4>2, <4>3
      <4>5. latest[s] = x.latest[s]
        BY <1>3, <1>6, <2>3, <4>3, <4>4
      <4> QED BY <1>3, <1>6, <2>3, <4>2, <4>5
    <3> QED BY <3>1, <3>2 DEF Flushing
  <2> QED BY <2>2, <2>3
<1>13. OutboxOK(p, v)
  BY <1>2, <1>8, <1>10, <1>11, <1>12 DEF OutboxOK, InFlush
<1>14. v.applied \in Nat /\ v.applied >= worker[p].applied
  BY <1>2, HistoryFacts
<1> QED BY <1>1, <1>2, <1>13, <1>14, OutLocal

\* The offset a run starts from: the highest common one, or 0 without one.
LEMMA StartsFrom ==
    ASSUME IInv, Start
    PROVE  \E o \in Nat :
              /\ routed' = o
              /\ \A p \in Partitions : \E st, wm : worker'[p] = NewWorker(st, wm, o)
              /\ o = 0 \/ \A p \in Partitions : Has(files, p, o)
              /\ \A c \in Nat : (\A p \in Partitions : Has(files, p, c)) => c =< o
<1>1. PICK h, d, m : h = history /\ d = files /\ m = Max({0} \cup CommonOffsets(d))
  OBVIOUS
<1>2. Checkpoints(h, d) /\ Len(h) \in Nat
  BY <1>1, HistoryFacts DEF IInv
<1>3. /\ m \in Nat /\ \A c \in CommonOffsets(d) : c \in Nat /\ c =< m
      /\ m = 0 \/ m \in CommonOffsets(d)
  BY <1>1, <1>2, ResumeFacts
<1>4. \A c : c \in CommonOffsets(d) <=> \A p \in Partitions : Has(d, p, c)
  BY <1>2, CommonFacts
<1>5. CASE HighestComplete(files) = {}
  <2>1. routed' = 0 /\ \A p \in Partitions : worker'[p] = NewWorker(EmptyState, MinTime, 0)
    BY <1>5 DEF Start, FreshWorkers
  <2>2. m \notin CommonOffsets(d)
    BY <1>1, <1>3, <1>5 DEF HighestComplete
  <2>3. CommonOffsets(d) = {}
    <3> SUFFICES ASSUME NEW c \in CommonOffsets(d) PROVE FALSE
      OBVIOUS
    <3>1. m = 0 /\ c \in Nat /\ c =< m
      BY <1>3, <2>2
    <3>2. c = m
      BY <3>1
    <3> QED BY <2>2, <3>2
  <2>4. \A c \in Nat : ~(\A p \in Partitions : Has(files, p, c))
    BY <1>1, <1>4, <2>3
  <2> QED BY <2>1, <2>4
<1>6. CASE HighestComplete(files) # {}
  <2>1. PICK o \in HighestComplete(files) :
           /\ worker' = [p \in Partitions |->
                 LET data == RestorePoint(p, o).data
                 IN  NewWorker(RestoreState(data), data.watermark, o)]
           /\ routed' = o
    BY <1>6 DEF Start
  <2>2. o \in CommonOffsets(d) /\ \A c \in CommonOffsets(d) : c =< o
    BY <1>1 DEF HighestComplete
  <2>3. o \in Nat /\ routed' = o
    BY <1>3, <2>1, <2>2
  <2>4. ASSUME NEW p \in Partitions PROVE \E st, wm : worker'[p] = NewWorker(st, wm, o)
    <3>1. PICK data : data = RestorePoint(p, o).data
      OBVIOUS
    <3>2. worker'[p] = NewWorker(RestoreState(data), data.watermark, o)
      BY <2>1, <3>1
    <3> QED BY <3>2
  <2>5. /\ \A p \in Partitions : Has(files, p, o)
        /\ \A c \in Nat : (\A p \in Partitions : Has(files, p, c)) => c =< o
    BY <1>1, <1>4, <2>2
  <2> QED BY <2>3, <2>4, <2>5
<1> QED BY <1>5, <1>6

\* A suspended job has written its last barrier in every partition, and its
\* workers have emitted everything: it resumes where it stood.
LEMMA SuspendedAt ==
    ASSUME IInv, OutInv, mode = "suspended", NEW p \in Partitions
    PROVE  /\ Has(files, p, routed) /\ worker[p].applied = routed
           /\ \A s \in SlotsOf(p) : NotBehind(history, latest, s, routed)
<1>1. ended = "suspend" /\ worker[p].pc = "exited" /\ Progress(p, worker[p])
  BY DEF IInv, WorkersOK
<1>2. Has(files, p, routed) /\ worker[p].applied = routed
  BY <1>1 DEF Progress
<1>3. worker[p].outbox = NoResults /\ ~InFlush(worker[p])
  BY <1>1 DEF OutInv, OutboxOK, InFlush
<1>4. ASSUME NEW s \in SlotsOf(p) PROVE NotBehind(history, latest, s, routed)
  <2>1. Pending(history, latest, worker[p], s)
    BY <1>3 DEF OutInv, OutboxOK
  <2>2. ~(worker[p].outbox[s].count > 0)
    <3>1. s \in Slots
      BY SlotsOfFacts
    <3> QED BY <1>3, <3>1, NoResultsFacts
  <2> QED BY <1>2, <2>1, <2>2 DEF Pending
<1> QED BY <1>2, <1>4

LEMMA StartOut == IInv /\ OutInv /\ Start => OutInv'
<1> SUFFICES ASSUME IInv, OutInv, Start PROVE OutInv'
  OBVIOUS
<1>1. /\ mode \in {"down", "suspended"} /\ mode' = "running" /\ ended' = "no"
      /\ files' = files /\ latest' = latest /\ history' = history /\ failures' = failures
  BY DEF Start, disk, ghost, bounds
<1>2. PICK o \in Nat :
         /\ routed' = o
         /\ \A p \in Partitions : \E st, wm : worker'[p] = NewWorker(st, wm, o)
         /\ o = 0 \/ \A p \in Partitions : Has(files, p, o)
         /\ \A c \in Nat : (\A p \in Partitions : Has(files, p, c)) => c =< o
  BY StartsFrom
<1>3. \A p \in Partitions : /\ worker'[p].applied = o /\ worker'[p].outbox = NoResults
                            /\ worker'[p].pc = "run"
  BY <1>2, NewWorkerFields
<1>4. ASSUME mode = "suspended" PROVE o = routed
  <2>1. \A p \in Partitions : Has(files, p, routed)
    BY <1>4, SuspendedAt
  <2>2. routed \in Nat /\ routed =< o
    BY <1>2, <2>1, HistoryFacts
  <2>3. o = 0 \/ o =< routed
    BY <1>2, <1>4 DEF OutInv, CommonRouted
  <2> QED BY <2>2, <2>3
<1>5. ASSUME NEW p \in Partitions, NEW s \in SlotsOf(p)
      PROVE  NotBehind(history, latest, s, o)
  <2>1. CASE mode = "suspended"
    BY <1>4, <2>1, SuspendedAt
  <2>2. CASE mode = "down" /\ o = 0
    <3>1. s \in Slots
      BY SlotsOfFacts
    <3> QED BY <2>2, <3>1 DEF OutInv
  <2>3. CASE mode = "down" /\ \A q \in Partitions : Has(files, q, o)
    <3>1. PICK f \in files[p] : f.offset = o
      BY <2>3 DEF Has
    <3> QED BY <2>3, <3>1 DEF OutInv, NoneBehind
  <2> QED BY <1>1, <1>2, <2>1, <2>2, <2>3
<1>6. ASSUME NEW p \in Partitions PROVE OutboxOK(p, worker[p])'
  <2>1. PICK w : w = worker'[p] /\ w.applied = o /\ w.outbox = NoResults /\ w.pc = "run"
    BY <1>3
  <2>2. ASSUME NEW s \in SlotsOf(p) PROVE Pending(history, latest, w, s)
    <3>1. s \in Slots
      BY SlotsOfFacts
    <3>2. ~(w.outbox[s].count > 0)
      BY <2>1, <3>1, NoResultsFacts
    <3> QED BY <1>5, <2>1, <3>2 DEF Pending
  <2> QED BY <1>1, <2>1, <2>2, NoResultsFacts DEF OutboxOK, InFlush
<1>7. NoneAhead'
  <2> SUFFICES ASSUME failures = 0, NEW p \in Partitions, NEW f \in files[p]
               PROVE  f.offset =< worker'[p].applied
    BY <1>1 DEF NoneAhead
  <2>1. mode # "down" /\ f.offset =< worker[p].applied
    BY DEF OutInv, NoneAhead
  <2>2. worker[p].applied = o
    BY <1>1, <1>4, <2>1, SuspendedAt
  <2> QED BY <1>3, <2>1, <2>2
<1>8. NoneBehind'
  BY <1>1 DEF OutInv, NoneBehind
<1>9. CommonRouted'
  BY <1>1, <1>2 DEF CommonRouted
<1>10. CompletesExact'
  BY <1>1 DEF CompletesExact
<1> QED BY <1>1, <1>6, <1>7, <1>8, <1>9, <1>10 DEF OutInv

LEMMA RouteOut == IInv /\ OutInv /\ Route => OutInv'
<1> SUFFICES ASSUME IInv, OutInv, Route PROVE OutInv'
  OBVIOUS
<1>1. /\ mode = "running" /\ ended = "no" /\ routed' = routed + 1
      /\ mode' = mode /\ ended' = ended /\ worker' = worker /\ files' = files
      /\ latest' = latest /\ failures' = failures
  BY DEF Route, disk, bounds
<1>2. PICK h, g : h = history /\ g = history' /\ Len(h) \in Nat /\ Len(g) \in Nat
                  /\ Len(h) =< Len(g) /\ \A i \in 1..Len(h) : g[i] = h[i]
  BY RunGrows
<1>4. ASSUME NEW p \in Partitions PROVE OutboxOK(p, worker[p])'
  <2>1. PICK w : w = worker[p] /\ OutboxOK(p, w) /\ Progress(p, w)
    BY DEF IInv, WorkersOK, OutInv
  <2>2. ~InFlush(w)
    BY <1>1, <2>1 DEF Progress, InFlush
  <2>3. w.applied \in Nat /\ g[w.applied + 1] = h[w.applied + 1]
    <3>1. w.applied \in Nat /\ w.applied < Len(h)
      BY <1>2, <2>1, HistoryFacts
    <3>2. w.applied + 1 \in 1..Len(h)
      BY <1>2, <3>1
    <3> QED BY <1>2, <3>1, <3>2
  <2>4. ASSUME NEW s \in SlotsOf(p) PROVE Pending(g, latest, w, s)
    <3>1. Pending(h, latest, w, s)
      BY <1>1, <1>2, <2>1, <2>2 DEF OutboxOK
    <3> QED BY <1>2, <2>3, <3>1, BehindLonger DEF Pending
  <2> QED BY <1>1, <1>2, <2>1, <2>2, <2>4 DEF OutboxOK, InFlush
<1>5. ASSUME NEW s \in Slots PROVE NotBehind(g, latest, s, 0)
  <2>1. NotBehind(h, latest, s, 0) /\ 0 \in Nat
    BY <1>2 DEF OutInv
  <2> QED BY <1>2, <2>1, BehindLonger
<1>6. NoneAhead'
  BY <1>1 DEF OutInv, NoneAhead
<1>7. NoneBehind'
  <2> SUFFICES ASSUME failures = 0, NEW p \in Partitions, NEW f \in files[p], NEW s \in SlotsOf(p)
               PROVE  NotBehind(g, latest, s, f.offset)
    BY <1>1, <1>2 DEF NoneBehind
  <2>1. NotBehind(h, latest, s, f.offset)
    BY <1>2 DEF OutInv, NoneBehind
  <2>2. f.offset \in Nat
    BY DEF IInv, Checkpoints, IsCheckpoint
  <2> QED BY <1>2, <2>1, <2>2, BehindLonger
<1>8. CommonRouted'
  <2> SUFFICES ASSUME NEW o \in Nat, \A q \in Partitions : Has(files, q, o) PROVE o =< routed + 1
    BY <1>1 DEF CommonRouted
  <2>1. o =< routed /\ routed \in Nat
    BY <1>1, HistoryFacts DEF OutInv, CommonRouted
  <2> QED BY <2>1
<1>9. CompletesExact'
  BY <1>1 DEF CompletesExact
<1> QED BY <1>1, <1>2, <1>4, <1>5, <1>6, <1>7, <1>8, <1>9 DEF OutInv

LEMMA StopOut ==
    IInv /\ OutInv /\ (EndOfInput \/ \E how \in {"final", "suspend"} : StopRouting(how)) => OutInv'
<1> SUFFICES ASSUME IInv, OutInv, EndOfInput \/ \E how \in {"final", "suspend"} : StopRouting(how)
             PROVE  OutInv'
  OBVIOUS
<1>1. /\ mode = "running" /\ ended = "no" /\ mode' = mode /\ routed' = routed /\ worker' = worker
      /\ files' = files /\ history' = history /\ latest' = latest /\ failures' = failures
  BY DEF EndOfInput, StopRouting, disk, ghost, bounds
<1>2. ASSUME NEW p \in Partitions PROVE OutboxOK(p, worker[p])'
  <2>1. OutboxOK(p, worker[p]) /\ worker[p].pc \notin {"flushing", "exited"}
    BY <1>1 DEF IInv, WorkersOK, Progress, OutInv
  <2> QED BY <1>1, <2>1 DEF OutboxOK, InFlush
<1>3. NoneAhead' /\ NoneBehind' /\ CommonRouted' /\ CompletesExact'
  BY <1>1 DEF OutInv, NoneAhead, NoneBehind, CommonRouted, CompletesExact
<1> QED BY <1>1, <1>2, <1>3 DEF OutInv

\* When every worker has flushed the whole input, the sinks are complete.
LEMMA ReturnOut == IInv /\ OutInv /\ Return => OutInv'
<1> SUFFICES ASSUME IInv, OutInv, Return PROVE OutInv'
  OBVIOUS
<1>1. /\ mode = "running" /\ \A p \in Partitions : worker[p].pc = "exited"
      /\ ended' = ended /\ routed' = routed /\ worker' = worker /\ files' = files
      /\ history' = history /\ latest' = latest /\ failures' = failures
  BY DEF Return, disk, ghost, bounds
<1>2. /\ mode' \in {"suspended", "done", "stopped"}
      /\ mode' = "done" => ended = "eos" /\ routed = NumRecords
  BY DEF Return
<1>3. ASSUME NEW p \in Partitions PROVE OutboxOK(p, worker[p])'
  <2>1. OutboxOK(p, worker[p])
    BY DEF OutInv
  <2> QED BY <1>1, <1>2, <2>1 DEF OutboxOK, InFlush
<1>4. NoneAhead' /\ NoneBehind' /\ CommonRouted'
  BY <1>1, <1>2 DEF OutInv, NoneAhead, NoneBehind, CommonRouted
<1>5. ASSUME mode' = "done" PROVE latest = Finished(history[NumRecords + 1])
  <2>1. PICK x : x = history[NumRecords + 1]
    OBVIOUS
  <2>2. ASSUME NEW s \in Slots PROVE latest[s] = Finished(x)[s]
    <3>1. PICK p \in Partitions : s \in SlotsOf(p)
      BY OneOwner
    <3>2. /\ worker[p].applied = NumRecords /\ worker[p].outbox = NoResults
          /\ InFlush(worker[p]) /\ OutboxOK(p, worker[p])
      BY <1>1, <1>2, <1>5 DEF IInv, WorkersOK, Progress, OutInv, OutboxOK, InFlush
    <3>3. Flushing(history, latest, worker[p], s)
      BY <1>1, <3>1, <3>2 DEF OutboxOK
    <3>4. ~(worker[p].outbox[s].count > 0)
      BY <3>2, NoResultsFacts
    <3> QED BY <2>1, <3>2, <3>3, <3>4 DEF Flushing
  <2>3. latest = [s \in Slots |-> latest[s]]
    BY DEF OutInv
  <2>4. Finished(x) = [s \in Slots |-> Finished(x)[s]]
    <3>1. PICK u, v : u = FlushResults(x.state) /\ v = x.latest
      OBVIOUS
    <3>2. Finished(x) = [s \in Slots |-> IF u[s].count > 0 THEN u[s] ELSE v[s]]
      BY <3>1 DEF Finished, Overlay
    <3> QED BY <3>2
  <2>5. latest = Finished(x)
    BY <2>2, <2>3, <2>4, Zenon
  <2> QED BY <2>1, <2>5
<1>6. CompletesExact'
  BY <1>1, <1>5 DEF CompletesExact, After
<1> QED BY <1>1, <1>3, <1>4, <1>6 DEF OutInv

\* The first crash: nothing on disk is ahead of the sinks.
LEMMA CrashOut == ASSUME MaxFailures =< 1 PROVE IInv /\ OutInv /\ Crash => OutInv'
<1> SUFFICES ASSUME IInv, OutInv, Crash PROVE OutInv'
  OBVIOUS
<1>1. /\ mode' = "down" /\ failures' = failures + 1 /\ failures < MaxFailures
      /\ files' = files /\ history' = history /\ latest' = latest
      /\ worker' = FreshWorkers
  BY DEF Crash, disk, ghost
<1>2. failures = 0 /\ failures' = 1
  <2>1. failures \in Nat /\ MaxFailures \in Nat
    BY PartitionAssumption DEF OutInv
  <2> QED BY <1>1, <2>1
<1>3. ASSUME NEW p \in Partitions PROVE OutboxOK(p, worker[p])'
  <2>1. PICK w : w = worker'[p] /\ w = NewWorker(EmptyState, MinTime, 0)
    BY <1>1 DEF FreshWorkers
  <2>2. w.outbox = NoResults /\ w.pc = "run"
    BY <2>1, NewWorkerFields
  <2> QED BY <1>1, <2>1, <2>2, NoResultsFacts DEF OutboxOK
<1>4. NoneBehind'
  BY <1>1, <1>2 DEF OutInv, NoneBehind
<1>5. NoneAhead' /\ CommonRouted' /\ CompletesExact'
  BY <1>1, <1>2 DEF NoneAhead, CommonRouted, CompletesExact
<1> QED BY <1>1, <1>2, <1>3, <1>4, <1>5 DEF OutInv

LEMMA StutterOut == OutInv /\ UNCHANGED vars => OutInv'
  BY DEF OutInv, OutboxOK, InFlush, NoneAhead, NoneBehind, CommonRouted, CompletesExact, After,
         vars, disk, ghost, bounds

LEMMA NextOut == ASSUME MaxFailures =< 1 PROVE IInv /\ OutInv /\ [Next]_vars => OutInv'
<1>1. ASSUME IInv, OutInv, NEW p \in Partitions, WorkerStep(p) PROVE OutInv'
  BY <1>1, ApplyOut, EmitOut, QuietOut, WriteOut, PruneOut, FlushOut DEF WorkerStep
<1> QED BY <1>1, StartOut, RouteOut, StopOut, ReturnOut, CrashOut, StutterOut DEF Next

(***************************************************************************)
(* A job that reached the end of its input, after any number of suspends   *)
(* and at most one crash, leaves in the sinks the result of an             *)
(* uninterrupted run (CompletesExact), for every number of partitions and  *)
(* records and every bound on the stops.  With a second crash the sinks    *)
(* may be behind a file that survived the first (run partitioned_torn).    *)
(***************************************************************************)
THEOREM CompletesTheorem == ASSUME MaxFailures =< 1 PROVE Spec => []CompletesExact
<1>1. Init => OutInv
  BY InitOut
<1>2. IInv /\ OutInv /\ [Next]_vars => OutInv'
  BY NextOut
<1>3. OutInv => CompletesExact
  BY DEF OutInv
<1> QED BY <1>1, <1>2, <1>3, Invariance, PTL DEF Spec
=============================================================================
