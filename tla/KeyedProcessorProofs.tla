------------------------ MODULE KeyedProcessorProofs ------------------------
(***************************************************************************)
(* KeyedProcessor is correct for every set of keys, values and times, every *)
(* window geometry and every allowed lateness: its invariants hold and it   *)
(* implements the oracle.  The module starts with the window assigners,     *)
(* which agree for every geometry and event time.                           *)
(***************************************************************************)
EXTENDS MCKeyedProcessor, FiniteSetTheorems, TLAPS

-----------------------------------------------------------------------------
(***************************************************************************)
(* Rounding down to a multiple: the defining facts of x \div d.            *)
(***************************************************************************)
LEMMA DivFacts ==
    ASSUME NEW x \in Nat, NEW d \in Nat \ {0}
    PROVE  /\ (x \div d) \in Nat
           /\ (x \div d) * d \in Nat
           /\ (x \div d) * d <= x
           /\ x < (x \div d) * d + d
  BY SMT

(***************************************************************************)
(* A number lies on the grid of d exactly when it is a multiple of d.      *)
(***************************************************************************)
LEMMA ModMultiple ==
    ASSUME NEW q \in Int, NEW d \in Nat \ {0}
    PROVE  (q * d) % d = 0
  BY SMT

\* A number with remainder 0 is a multiple.
LEMMA ModZero ==
    ASSUME NEW x \in Int, NEW d \in Nat \ {0}, x % d = 0
    PROVE  \E q \in Int : x = q * d
  BY SMT

(***************************************************************************)
(* Two points of the grid of d differ by a multiple of d, and a grid point *)
(* strictly below another is at least d below it.                          *)
(***************************************************************************)
LEMMA GridStep ==
    ASSUME NEW a \in Int, NEW b \in Int, NEW d \in Nat \ {0}, a % d = 0, b % d = 0
    PROVE  (b - a) % d = 0 /\ (a < b => a + d <= b)
<1>1. PICK p \in Int : a = p * d
  BY ModZero
<1>2. PICK q \in Int : b = q * d
  BY ModZero
<1>3. b - a = (q - p) * d
  BY <1>1, <1>2, SMT
<1>4. (b - a) % d = 0
  BY <1>3, ModMultiple
<1>5. ASSUME a < b PROVE a + d <= b
  <2>1. p < q
    BY <1>1, <1>2, <1>5, SMT
  <2>2. q = (q - p - 1) + p + 1 /\ q - p - 1 \in Nat
    BY <2>1, SMT
  <2>3. b = (q - p - 1) * d + a + d
    BY <1>1, <1>2, SMT
  <2>4. (q - p - 1) * d >= 0
    BY <2>2, SMT
  <2> QED BY <2>3, <2>4, SMT
<1> QED BY <1>4, <1>5

\* A whole number of grid steps from a grid point is a grid point.
LEMMA GridShift ==
    ASSUME NEW a \in Int, NEW b \in Int, NEW d \in Nat \ {0}, a % d = 0, (b - a) % d = 0
    PROVE  b % d = 0
<1>1. PICK p \in Int : a = p * d
  BY ModZero
<1>2. PICK x \in Int : x = b - a
  OBVIOUS
<1>3. \E q \in Int : x = q * d
  BY <1>2, ModZero
<1>4. PICK q \in Int : x = q * d
  BY <1>3
<1>5. b = (p + q) * d
  <2>1. b = p * d + q * d
    BY <1>1, <1>2, <1>4
  <2> QED BY <2>1, SMT
<1> QED BY <1>5, ModMultiple

(***************************************************************************)
(* The earliest start of the sliding loop is a grid point, and every grid  *)
(* window containing t starts at it or later.                              *)
(***************************************************************************)
LEMMA EarliestStartFacts ==
    ASSUME NEW size \in Nat \ {0}, NEW slide \in Nat \ {0}, NEW t \in Nat
    PROVE  /\ EarliestStart(size, slide, t) \in Nat
           /\ EarliestStart(size, slide, t) % slide = 0
           /\ \A x \in Nat : x % slide = 0 /\ t < x + size
                  => EarliestStart(size, slide, t) <= x
<1> DEFINE num == t - size + slide
           e == EarliestStart(size, slide, t)
<1>1. CASE num <= 0
  <2>1. e = 0
    BY <1>1 DEF EarliestStart
  <2> QED BY <2>1, SMT
<1>2. CASE num > 0
  <2>1. num \in Nat /\ e = (num \div slide) * slide
    BY <1>2 DEF EarliestStart
  <2>2. e \in Nat /\ e <= num
    BY <2>1, DivFacts
  <2>3. e % slide = 0
    <3>1. num \div slide \in Int
      BY <2>1, DivFacts
    <3>2. ((num \div slide) * slide) % slide = 0
      BY <3>1, ModMultiple
    <3> QED BY <2>1, <3>2
  <2>4. ASSUME NEW x \in Nat, x % slide = 0, t < x + size
        PROVE  e <= x
    <3>1. e <= t - size + slide
      BY <2>2
    <3>2. ~(x < e)
      <4>1. x < e => x + slide <= e
        <5>1. e \in Int /\ x \in Int
          BY <2>2
        <5> HIDE DEF e, num
        <5> QED BY <5>1, <2>3, <2>4, GridStep, Zenon
      <4> HIDE DEF e, num
      <4> QED BY <3>1, <4>1, <2>2, <2>4, SMT
    <3> QED BY <3>2, <2>2, SMT
  <2> QED BY <2>2, <2>3, <2>4
<1> QED BY <1>1, <1>2, SMT

(***************************************************************************)
(* SlidingAssigner::AssignWindows returns exactly the grid windows that    *)
(* contain the event time, whatever the size, the slide and the time.      *)
(***************************************************************************)
THEOREM SlidingAssignExact ==
    ASSUME NEW size \in Nat \ {0}, NEW slide \in Nat \ {0}, NEW t \in Nat
    PROVE  SlidingAssign(size, slide, t) = WindowsContaining(size, slide, t)
<1> DEFINE e == EarliestStart(size, slide, t)
           A == {x \in e..t : (x - e) % slide = 0 /\ x + size > t}
           B == {x \in 0..t : x % slide = 0 /\ t < x + size}
<1>1. ASSUME NEW x \in A PROVE x \in B
  <2>1. x \in Int /\ x >= e /\ x <= t /\ (x - e) % slide = 0 /\ x + size > t
    BY EarliestStartFacts
  <2>2. x % slide = 0
    <3>1. e \in Int /\ e % slide = 0
      BY EarliestStartFacts
    <3> HIDE DEF e, A, B
    <3> QED BY <3>1, <2>1, GridShift, Zenon
  <2> QED BY <2>1, <2>2, EarliestStartFacts
<1>2. ASSUME NEW x \in B PROVE x \in A
  <2>1. x \in Nat /\ x % slide = 0 /\ t < x + size /\ x <= t
    OBVIOUS
  <2>2. e <= x /\ e \in Nat /\ e % slide = 0
    BY <2>1, EarliestStartFacts
  <2>3. (x - e) % slide = 0
    <3>1. e \in Int /\ x \in Int
      BY <2>1, <2>2
    <3> HIDE DEF e, A, B
    <3> QED BY <3>1, <2>1, <2>2, GridStep, Zenon
  <2> QED BY <2>1, <2>2, <2>3
<1>3. A = B
  BY <1>1, <1>2
<1> QED BY <1>3 DEF SlidingAssign, WindowsContaining

(***************************************************************************)
(* TumblingAssigner::AssignWindows is the special case slide = size.       *)
(***************************************************************************)
THEOREM TumblingAssignExact ==
    ASSUME NEW size \in Nat \ {0}, NEW t \in Nat
    PROVE  TumblingAssign(size, t) = WindowsContaining(size, size, t)
<1> DEFINE s == (t \div size) * size
           B == {x \in 0..t : x % size = 0 /\ t < x + size}
<1>1. s \in Nat /\ s <= t /\ t < s + size /\ s % size = 0
  BY DivFacts, ModMultiple
<1>2. ASSUME NEW x \in B PROVE x = s
  <2>1. x \in Nat /\ x <= t /\ t < x + size /\ x % size = 0
    OBVIOUS
  <2>2. (x < s => x + size <= s) /\ (s < x => s + size <= x)
    <3>1. s \in Int /\ x \in Int
      BY <1>1, <2>1
    <3> HIDE DEF s, B
    <3> QED BY <3>1, <1>1, <2>1, GridStep, Zenon
  <2> QED BY <1>1, <2>1, <2>2
<1>3. B = {s}
  BY <1>1, <1>2
<1> QED BY <1>3 DEF TumblingAssign, WindowsContaining

(***************************************************************************)
(* The oracle assigns the windows the engine assigns, for every geometry.  *)
(***************************************************************************)
THEOREM OracleAssignAgrees ==
    ASSUME NEW size \in Nat \ {0}, NEW slide \in Nat \ {0}, NEW t \in Nat
    PROVE  OracleAssign(size, slide, t) = AssignWindows(size, slide, t)
<1> DEFINE l == (t \div slide) * slide
           A == {x \in 0..l : (l - x) % slide = 0 /\ x > l - size /\ t >= x /\ t < x + size}
           B == {x \in 0..t : x % slide = 0 /\ t < x + size}
<1>1. CASE slide = size
  BY <1>1 DEF OracleAssign, Quotient, AssignWindows, TumblingAssign
<1>2. CASE slide # size
  <2>1. l \in Nat /\ l <= t /\ t < l + slide /\ l % slide = 0
    BY DivFacts, ModMultiple
  <2>2. ASSUME NEW x \in A PROVE x \in B
    <3>1. x \in Nat /\ x <= t /\ t < x + size /\ (l - x) % slide = 0
      BY <2>1
    <3>2. x % slide = 0
      <4>a. l \in Int /\ l - x \in Int
        BY <2>1, <3>1
      <4> HIDE DEF l, A, B
      <4>1. PICK p \in Int : l = p * slide
        BY <4>a, <2>1, ModZero, Zenon
      <4>2. PICK q \in Int : l - x = q * slide
        BY <4>a, <3>1, ModZero, Zenon
      <4>3. x = (p - q) * slide
        BY <2>1, <3>1, <4>1, <4>2, SMT
      <4> QED BY <4>3, ModMultiple
    <3> QED BY <3>1, <3>2
  <2>3. ASSUME NEW x \in B PROVE x \in A
    <3>1. x \in Nat /\ x <= t /\ t < x + size /\ x % slide = 0
      OBVIOUS
    <3>2. (l - x) % slide = 0 /\ (l < x => l + slide <= x)
      <4>1. l \in Int /\ x \in Int
        BY <2>1, <3>1
      <4> HIDE DEF l, A, B
      <4> QED BY <4>1, <2>1, <3>1, GridStep, Zenon
    <3> QED BY <2>1, <3>1, <3>2
  <2>4. A = B
    BY <2>2, <2>3
  <2>5. OracleAssign(size, slide, t) = WindowsContaining(size, slide, t)
    BY <1>2, <2>4 DEF OracleAssign, Quotient, WindowsContaining
  <2> QED BY <1>2, <2>5, SlidingAssignExact DEF AssignWindows
<1> QED BY <1>1, <1>2

-----------------------------------------------------------------------------
(***************************************************************************)
(* Every window of the job starts between zero and the largest timestamp   *)
(* and has the configured size.                                            *)
(***************************************************************************)
LEMMA WindowStarts ==
    \A w \in Windows : \E s \in 0..MaxTime : w = WindowAt(s, Size) /\ s + Size <= MaxTime
<1> SUFFICES ASSUME NEW t \in EventTimes, InDomain(t), NEW w \in WindowsOf(t)
             PROVE  \E s \in 0..MaxTime : w = WindowAt(s, Size) /\ s + Size <= MaxTime
  BY DEF Windows
<1>1. t \in Nat /\ t + Size <= MaxTime
  BY WindowAssumption DEF InDomain, InTumblingDomain, InSlidingDomain
<1>2. w \in WindowsContaining(Size, Slide, t)
  BY <1>1, WindowAssumption, SlidingAssignExact, TumblingAssignExact
     DEF WindowsOf, AssignWindows
<1>3. PICK s \in 0..t : w = WindowAt(s, Size)
  BY <1>2 DEF WindowsContaining
<1> QED BY <1>1, <1>3, WindowAssumption

\* A window ends inside the timestamp range and no later than its deadline.
LEMMA WindowFacts ==
    \A w \in Windows : /\ w.end \in Int /\ w.end > 0 /\ Deadline(w) \in Int
                       /\ w.end <= Deadline(w)
                       /\ AllowedLateness = 0 => Deadline(w) = w.end
  BY WindowStarts, WindowAssumption DEF WindowAt, Deadline

\* The windows an accepted record falls into are windows of the model.
LEMMA WindowsOfSubset ==
    ASSUME NEW t \in EventTimes, InDomain(t)
    PROVE  WindowsOf(t) \subseteq Windows
  BY DEF Windows

(***************************************************************************)
(* A job has finitely many windows, so its window counters are numbers.    *)
(***************************************************************************)
LEMMA WindowsFinite == IsFiniteSet(Windows)
<1> DEFINE f == [s \in 0..MaxTime |-> WindowAt(s, Size)]
           R == {WindowAt(s, Size) : s \in 0..MaxTime}
<1>1. f \in Surjection(0..MaxTime, R)
  BY DEF Surjection
<1>2. IsFiniteSet(0..MaxTime)
  BY WindowAssumption, FS_Interval
<1>3. IsFiniteSet(R)
  <2> HIDE DEF f, R
  <2> QED BY <1>1, <1>2, FS_Surjection
<1>4. Windows \in SUBSET R
  BY WindowStarts
<1> QED
  <2> HIDE DEF R
  <2> QED BY <1>3, <1>4, FS_Subset

\* Every set of windows is finite, so the statistics count it (ProcessControl).
LEMMA WindowCount ==
    ASSUME NEW S \in SUBSET Windows
    PROVE  Cardinality(S) \in Nat
  BY WindowsFinite, FS_Subset, FS_CardinalityType

-----------------------------------------------------------------------------
(***************************************************************************)
(* What the operations do to the three fields of a state.                  *)
(***************************************************************************)
\* The windows fired, and those of them past their deadline, after a watermark.
FiredBy(st, wm) == st.fired \cup ExpiredWindows(st, wm) \cup (st.refired \cap AllWindows(st))
Collected(st, wm) == {w \in FiredBy(st, wm) : wm >= Deadline(w)}

\* With lateness, what a watermark leaves in each field of the state
\* (ProcessControl: fire, re-fire, collect).
LEMMA WatermarkFieldsLate ==
    ASSUME NEW st \in States, NEW wm \in Int, AllowedLateness > 0
    PROVE  AfterWatermark(st, wm) =
             [panes |-> ErasePanes(st.panes, Collected(st, wm)),
              fired |-> FiredBy(st, wm) \ Collected(st, wm), refired |-> {}]
<1> DEFINE f == FireWindow(st, ExpiredWindows(st, wm))
           c == ClearRefired(FireWindow(f, f.refired))
<1>0. AllowedLateness # 0
  OBVIOUS
<1>1. f = [panes |-> st.panes, fired |-> st.fired \cup ExpiredWindows(st, wm),
           refired |-> st.refired]
  <2>1. ExpiredWindows(st, wm) \cap AllWindows(st) = ExpiredWindows(st, wm)
    BY DEF ExpiredWindows
  <2> QED BY <1>0, <2>1 DEF FireWindow
<1>2. AllWindows(f) = AllWindows(st)
  BY <1>1 DEF AllWindows
<1>3. c = [panes |-> st.panes, fired |-> FiredBy(st, wm), refired |-> {}]
  BY <1>0, <1>1, <1>2, Zenon DEF FireWindow, ClearRefired, FiredBy
<1>4. AfterWatermark(st, wm) = GarbageCollect(c, GarbageCollectable(c, wm))
  BY DEF AfterWatermark, UseLateness
<1>5. GarbageCollectable(c, wm) = Collected(st, wm)
  BY <1>3 DEF GarbageCollectable, Collected
<1> QED BY <1>3, <1>4, <1>5 DEF GarbageCollect

\* Without lateness, what a watermark leaves: expired windows lose their panes
\* (FireWindow).
LEMMA WatermarkFieldsZero ==
    ASSUME NEW st \in States, NEW wm \in Int, AllowedLateness = 0
    PROVE  AfterWatermark(st, wm) =
             [panes |-> ErasePanes(st.panes, ExpiredWindows(st, wm)),
              fired |-> st.fired, refired |-> st.refired]
  BY DEF AfterWatermark, FireWindow, UseLateness, States

\* What the final flush leaves in each field of the state (FinalFlush).
LEMMA FlushFields ==
    ASSUME NEW st \in States, st.fired \subseteq AllWindows(st),
           st.refired \subseteq st.fired, AllowedLateness = 0 => st.fired = {}
    PROVE  AfterFlush(st) = [panes |-> ErasePanes(st.panes, AllWindows(st)),
                             fired |-> {}, refired |-> {}]
<1>1. CASE AllowedLateness = 0
  BY <1>1 DEF AfterFlush, FireWindow, UseLateness, States
<1>2. CASE AllowedLateness > 0
  <2> DEFINE c == ClearRefired(st)
             f == FireWindow(c, AllWindows(st))
  <2>1. c = [panes |-> st.panes, fired |-> st.fired, refired |-> {}]
    BY DEF ClearRefired, States
  <2>2. AllWindows(c) = AllWindows(st)
    BY <2>1 DEF AllWindows
  <2>3. f = [panes |-> st.panes, fired |-> AllWindows(st), refired |-> {}]
    <3>1. st.fired \cup (AllWindows(st) \cap AllWindows(st)) = AllWindows(st)
      OBVIOUS
    <3> HIDE DEF c
    <3> QED BY <2>1, <2>2, <3>1, <1>2 DEF FireWindow
  <2> QED BY <2>3, <1>2 DEF AfterFlush, GarbageCollect, UseLateness
<1> QED BY <1>1, <1>2, WindowAssumption

-----------------------------------------------------------------------------
(***************************************************************************)
(* The inductive invariant.                                                *)
(***************************************************************************)
LEMMA InitInvariant == Init => IInv
<1> SUFFICES ASSUME Init PROVE IInv
  OBVIOUS
<1>1. state.panes = [s \in Slots |-> NoPane] /\ state.fired = {} /\ state.refired = {}
  BY DEF Init, EmptyState
<1>2. NoPane \in Panes /\ NoPane.count = 0
  BY WindowAssumption DEF NoPane, Panes
<1>3. TypeOK
  BY <1>1, <1>2, WindowAssumption DEF Init, EmptyState, TypeOK, States
<1>4. PaneLifetime /\ NoSuppressedUpdate /\ NoResurrection /\ FiresOnce
  BY <1>1, <1>2 DEF Init, PaneLifetime, LiveSlots, NoSuppressedUpdate, NoResurrection,
                    FiresOnce
<1>5. Bookkeeping
  BY <1>1, <1>2 DEF Init, Bookkeeping
<1> QED BY <1>3, <1>4, <1>5 DEF IInv

(***************************************************************************)
(* A record changes panes of open windows only, and marks the fired ones.  *)
(***************************************************************************)
LEMMA RecordInvariant ==
    ASSUME IInv, NEW key \in Keys, NEW t \in EventTimes, NEW v \in Values,
           ProcessRecord(key, t, v)
    PROVE  IInv'
<1> DEFINE ws == WindowsOf(t)
           acc == Accepting(ws, watermark)
<1>1. ws \subseteq Windows /\ acc \subseteq Windows
  BY WindowsOfSubset DEF ProcessRecord, Accepting
<1>2. /\ state' = [panes |-> AddToPanes(state.panes, key, acc, v), fired |-> state.fired,
                   refired |-> state.refired \cup (acc \cap state.fired)]
      /\ UNCHANGED <<watermark, latest, emissions, status>>
      /\ status = "running"
  BY DEF ProcessRecord, AddWithLateness
<1>3. /\ state \in States /\ watermark \in Int /\ latest \in [Slots -> Panes]
      /\ emissions \in [Slots -> Nat]
  BY DEF IInv, TypeOK
<1>4. /\ state.panes \in [Slots -> Panes]
      /\ state.fired \in SUBSET Windows /\ state.refired \in SUBSET Windows
  BY <1>3 DEF States
<1>5. \A s \in Slots : s[1] \in Windows /\ s[2] \in Keys /\ s = <<s[1], s[2]>>
  BY DEF Slots
<1>6. /\ state'.panes = AddToPanes(state.panes, key, acc, v)
      /\ state'.fired = state.fired
      /\ state'.refired = state.refired \cup (acc \cap state.fired)
  BY <1>2
<1>7. \A s \in Slots : state'.panes[s] = IF s[1] \in acc /\ s[2] = key
                                         THEN PaneAdd(state.panes[s], v) ELSE state.panes[s]
  BY <1>6 DEF AddToPanes
<1>8. \A s \in Slots : s[1] \in acc /\ s[2] = key =>
                          /\ PaneAdd(state.panes[s], v) \in Panes
                          /\ PaneAdd(state.panes[s], v).count = state.panes[s].count + 1
  <2> SUFFICES ASSUME NEW s \in Slots, s[1] \in acc, s[2] = key
               PROVE  /\ PaneAdd(state.panes[s], v) \in Panes
                      /\ PaneAdd(state.panes[s], v).count = state.panes[s].count + 1
    OBVIOUS
  <2>1. s = <<s[1], key>>
    BY <1>5
  <2>2. CanAdd(state.panes[s], v)
    BY <2>1 DEF ProcessRecord, CanAddTo
  <2>3. state.panes[s] \in Panes
    BY <1>4
  <2> QED BY <2>2, <2>3, WindowAssumption DEF CanAdd, PaneAdd, Panes
<1>9. \A s \in Slots : /\ state'.panes[s] \in Panes
                       /\ state'.panes[s].count >= state.panes[s].count
  <2> SUFFICES ASSUME NEW s \in Slots
               PROVE  /\ state'.panes[s] \in Panes
                      /\ state'.panes[s].count >= state.panes[s].count
    OBVIOUS
  <2>1. state.panes[s] \in Panes /\ state.panes[s].count \in Nat
    BY <1>4 DEF Panes
  <2>2. CASE s[1] \in acc /\ s[2] = key
    <3>1. state'.panes[s] = PaneAdd(state.panes[s], v)
      BY <1>7, <2>2
    <3> HIDE DEF acc
    <3> QED BY <1>8, <2>1, <2>2, <3>1
  <2>3. CASE ~(s[1] \in acc /\ s[2] = key)
    BY <1>7, <2>1, <2>3
  <2> QED BY <2>2, <2>3
<1>10. TypeOK'
  <2>1. state'.panes \in [Slots -> Panes]
    BY <1>6, <1>9 DEF AddToPanes
  <2>2. state' \in States
    BY <1>2, <1>4, <1>6, <2>1 DEF States
  <2>3. stats' \in [StatNames -> Nat]
    BY DEF ProcessRecord, RecordStats, One, IInv, TypeOK, StatNames
  <2> QED BY <1>2, <1>3, <2>2, <2>3 DEF IInv, TypeOK
<1>11. PaneLifetime'
  <2>1. ASSUME NEW s \in Slots, state'.panes[s].count > 0
        PROVE  watermark < Deadline(s[1])
    <3>1. CASE s[1] \in acc
      BY <3>1 DEF Accepting
    <3>2. CASE s[1] \notin acc
      BY <3>2, <1>7, <2>1 DEF IInv, PaneLifetime, LiveSlots
    <3> QED BY <3>1, <3>2
  <2> QED BY <1>2, <1>6, <2>1 DEF IInv, PaneLifetime, LiveSlots
<1>12. NoSuppressedUpdate'
  <2> SUFFICES ASSUME NEW s \in Slots, s[1] \in state.fired,
                      s[1] \notin state.refired \cup (acc \cap state.fired)
               PROVE  latest[s] = state'.panes[s]
    BY <1>2, <1>6 DEF NoSuppressedUpdate
  <2> QED BY <1>7 DEF IInv, NoSuppressedUpdate
<1>13. NoResurrection'
  <2> SUFFICES ASSUME NEW s \in Slots, watermark < Deadline(s[1]),
                      ~(state'.panes[s].count > 0)
               PROVE  latest[s] = NoPane
    BY <1>2 DEF NoResurrection, LiveSlots
  <2>1. state.panes[s] \in Panes /\ state'.panes[s] \in Panes
    BY <1>4, <1>9
  <2>2. ~(state.panes[s].count > 0)
    BY <1>9, <2>1 DEF Panes
  <2> QED BY <1>2, <2>2 DEF IInv, NoResurrection, LiveSlots
<1>14. FiresOnce'
  BY <1>2 DEF IInv, FiresOnce
<1>15. Bookkeeping'
  <2>1. \A s \in Slots : state'.panes[s].count = 0 => state'.panes[s] = NoPane
    <3> SUFFICES ASSUME NEW s \in Slots, state'.panes[s].count = 0
                 PROVE  state'.panes[s] = NoPane
      OBVIOUS
    <3>1. state.panes[s].count \in Nat
      BY <1>4 DEF Panes
    <3>2. ~(s[1] \in acc /\ s[2] = key)
      <4> SUFFICES ASSUME s[1] \in acc, s[2] = key PROVE FALSE
        OBVIOUS
      <4>1. state'.panes[s] = PaneAdd(state.panes[s], v)
        BY <1>7
      <4> HIDE DEF acc
      <4> QED BY <1>8, <3>1, <4>1
    <3> QED BY <1>7, <3>2 DEF IInv, Bookkeeping
  <2>2. state'.fired \subseteq AllWindows(state)'
    <3> SUFFICES ASSUME NEW w \in state.fired
                 PROVE  \E k \in Keys : state'.panes[<<w, k>>].count > 0
      BY <1>4, <1>6 DEF AllWindows
    <3>1. PICK k \in Keys : state.panes[<<w, k>>].count > 0
      BY DEF IInv, Bookkeeping, AllWindows
    <3>2. <<w, k>> \in Slots
      BY <1>4 DEF Slots
    <3>3. state.panes[<<w, k>>] \in Panes /\ state'.panes[<<w, k>>] \in Panes
      BY <1>4, <1>9, <3>2
    <3> QED BY <1>9, <3>1, <3>2, <3>3 DEF Panes
  <2>3. \A s \in Slots : s[1] \in state'.fired => latest'[s].count <= state'.panes[s].count
    <3> SUFFICES ASSUME NEW s \in Slots, s[1] \in state.fired
                 PROVE  latest[s].count <= state'.panes[s].count
      BY <1>2, <1>6
    <3>1. state.panes[s] \in Panes /\ state'.panes[s] \in Panes /\ latest[s] \in Panes
      BY <1>3, <1>4, <1>9
    <3>2. latest[s].count <= state.panes[s].count
      BY DEF IInv, Bookkeeping
    <3> QED BY <1>9, <3>1, <3>2 DEF Panes
  <2>4. /\ AllowedLateness = 0 => state'.fired = {}
        /\ status' = "running" =>
              \A s \in Slots : s[1] \notin state'.fired /\ watermark' < Deadline(s[1])
                                  => latest'[s] = NoPane
        /\ \A s \in Slots : latest'[s] = NoPane => emissions'[s] = 0
    BY <1>2, <1>6 DEF IInv, Bookkeeping
  <2> QED BY <2>1, <2>2, <2>3, <2>4 DEF Bookkeeping
<1> QED BY <1>10, <1>11, <1>12, <1>13, <1>14, <1>15 DEF IInv

(***************************************************************************)
(* A watermark, described slot by slot: what is emitted, what is erased    *)
(* and which windows stay fired.                                           *)
(***************************************************************************)
Gone(wm) == IF AllowedLateness > 0 THEN Collected(state, wm) ELSE ExpiredWindows(state, wm)

\* The effect of a watermark, with and without lateness, on the state, the
\* sink and the statistics (ProcessControl).
LEMMA WatermarkStep ==
    ASSUME IInv, NEW wm \in Watermarks, ProcessWatermark(wm)
    PROVE  /\ status = "running" /\ status' = "running"
           /\ wm \in Int /\ watermark' = wm /\ watermark < wm /\ watermark \in Int
           /\ \A s \in Slots : s \in WatermarkEmits(state, wm) <=>
                 /\ state.panes[s].count > 0
                 /\ \/ s[1] \in ExpiredWindows(state, wm)
                    \/ AllowedLateness > 0 /\ s[1] \in state.refired
           /\ latest' = [s \in Slots |-> IF s \in WatermarkEmits(state, wm)
                                         THEN state.panes[s] ELSE latest[s]]
           /\ emissions' = [s \in Slots |-> IF s \in WatermarkEmits(state, wm)
                                            THEN emissions[s] + 1 ELSE emissions[s]]
           /\ state' = [panes |-> ErasePanes(state.panes, Gone(wm)),
                        fired |-> (state.fired \cup ExpiredWindows(state, wm)) \ Gone(wm),
                        refired |-> {}]
<1>1. state \in States /\ watermark \in Int /\ wm \in Int
  BY WindowAssumption DEF IInv, TypeOK
<1>2. AllowedLateness \in Nat
  BY WindowAssumption
<1>3. /\ state' = AfterWatermark(state, wm) /\ Emit(WatermarkEmits(state, wm))
      /\ status = "running" /\ status' = "running" /\ watermark' = wm /\ watermark < wm
  BY <1>1 DEF ProcessWatermark
<1>4. state' = [panes |-> ErasePanes(state.panes, Gone(wm)),
                fired |-> (state.fired \cup ExpiredWindows(state, wm)) \ Gone(wm),
                refired |-> {}]
  <2>1. CASE AllowedLateness = 0
    <3>1. Gone(wm) = ExpiredWindows(state, wm)
      BY <2>1 DEF Gone
    <3>2. state.fired = {} /\ state.refired = {}
      BY <2>1 DEF IInv, Bookkeeping, PaneLifetime
    <3>3. state.fired = (state.fired \cup ExpiredWindows(state, wm)) \ Gone(wm)
      BY <3>1, <3>2
    <3>4. AfterWatermark(state, wm) =
            [panes |-> ErasePanes(state.panes, ExpiredWindows(state, wm)),
             fired |-> state.fired, refired |-> state.refired]
      BY <2>1, <1>1, WatermarkFieldsZero
    <3> QED BY <3>1, <3>2, <3>3, <3>4, <1>3
  <2>2. CASE AllowedLateness > 0
    <3>1. Gone(wm) = Collected(state, wm)
      BY <2>2 DEF Gone
    <3>2. FiredBy(state, wm) = state.fired \cup ExpiredWindows(state, wm)
      BY DEF FiredBy, IInv, PaneLifetime
    <3>3. AfterWatermark(state, wm) =
             [panes |-> ErasePanes(state.panes, Collected(state, wm)),
              fired |-> FiredBy(state, wm) \ Collected(state, wm), refired |-> {}]
      BY <2>2, <1>1, WatermarkFieldsLate
    <3> QED BY <3>1, <3>2, <3>3, <1>3
  <2> QED BY <1>2, <2>1, <2>2
<1>5. \A s \in Slots : s \in WatermarkEmits(state, wm) <=>
                 /\ state.panes[s].count > 0
                 /\ \/ s[1] \in ExpiredWindows(state, wm)
                    \/ AllowedLateness > 0 /\ s[1] \in state.refired
  BY DEF WatermarkEmits, ResultSlots, LiveSlots, UseLateness
<1> QED BY <1>1, <1>3, <1>4, <1>5 DEF Emit

\* A watermark preserves the invariant: windows fire once they end and are
\* collected once they can no longer change (ProcessControl).
LEMMA WatermarkInvariant ==
    ASSUME IInv, NEW wm \in Watermarks, ProcessWatermark(wm)
    PROVE  IInv'
<1> DEFINE expired == ExpiredWindows(state, wm)
           emits == WatermarkEmits(state, wm)
           gone == Gone(wm)
<1>1. /\ state.panes \in [Slots -> Panes] /\ latest \in [Slots -> Panes]
      /\ state.fired \subseteq Windows /\ state.refired \subseteq state.fired
      /\ emissions \in [Slots -> Nat] /\ AllowedLateness \in Nat
  BY WindowAssumption DEF IInv, TypeOK, States, PaneLifetime
<1>2. /\ status = "running" /\ status' = "running"
      /\ wm \in Int /\ watermark' = wm /\ watermark < wm /\ watermark \in Int
  BY WatermarkStep
<1>3. \A s \in Slots : s \in emits <=> /\ state.panes[s].count > 0
                                       /\ \/ s[1] \in expired
                                          \/ AllowedLateness > 0 /\ s[1] \in state.refired
  BY WatermarkStep
<1>4. \A s \in Slots : latest'[s] = IF s \in emits THEN state.panes[s] ELSE latest[s]
  BY WatermarkStep
<1>5. \A s \in Slots : emissions'[s] = IF s \in emits THEN emissions[s] + 1 ELSE emissions[s]
  BY WatermarkStep
<1>6. /\ state'.fired = (state.fired \cup expired) \ gone
      /\ state'.refired = {}
      /\ state'.panes = ErasePanes(state.panes, gone)
  BY WatermarkStep
<1>7. \A s \in Slots : state'.panes[s] = IF s[1] \in gone THEN NoPane ELSE state.panes[s]
  BY <1>6 DEF ErasePanes
<1>8. \A s \in Slots : s[1] \in Windows /\ s[2] \in Keys /\ s = <<s[1], s[2]>>
  BY DEF Slots
<1>9. NoPane \in Panes /\ NoPane.count = 0
  BY WindowAssumption DEF NoPane, Panes
<1>10. \A w \in Windows : w \in expired <=> /\ w.end <= wm /\ w \notin state.fired
                                            /\ w \in AllWindows(state)
  BY DEF ExpiredWindows, AllWindows
<1>11. expired \subseteq Windows
  BY DEF ExpiredWindows, AllWindows
\* The windows whose panes go are the fired ones at their deadline.
<1>12. \A w \in Windows : w \in gone <=> w \in state.fired \cup expired /\ wm >= Deadline(w)
  <2>1. CASE AllowedLateness = 0
    BY <2>1, <1>2, <1>10, WindowFacts DEF Gone, IInv, Bookkeeping
  <2>2. CASE AllowedLateness > 0
    BY <2>2, <1>1 DEF Gone, Collected, FiredBy
  <2> QED BY <2>1, <2>2, <1>1
<1>13. \A s \in Slots : state.panes[s] \in Panes /\ state.panes[s].count \in Nat
                        /\ latest[s] \in Panes /\ latest[s].count \in Nat
  BY <1>1 DEF Panes
<1>14. \A s \in Slots : state.panes[s].count > 0 => watermark < Deadline(s[1])
  BY DEF IInv, PaneLifetime, LiveSlots
<1>15. \A s \in Slots : state.panes[s].count > 0 => s[1] \in AllWindows(state)
  BY <1>8 DEF AllWindows
<1>16. \A w \in state.fired : w.end <= watermark /\ watermark < Deadline(w)
  BY DEF IInv, PaneLifetime
<1> HIDE DEF expired, emits, gone
<1>20. TypeOK'
  <2>1. state'.panes \in [Slots -> Panes]
    BY <1>6, <1>9, <1>13 DEF ErasePanes
  <2>2. state' \in States
    BY <2>1, <1>1, <1>6, <1>11, WatermarkStep DEF States, expired
  <2>3. latest' \in [Slots -> Panes]
    BY <1>13, WatermarkStep
  <2>4. emissions' \in [Slots -> Nat]
    BY <1>1, WatermarkStep
  <2>5. stats' \in [StatNames -> Nat]
    <3>1. Cardinality(expired) \in Nat /\ Cardinality(state.refired) \in Nat
      BY <1>1, <1>11, WindowCount
    <3> QED BY <3>1 DEF ProcessWatermark, IInv, TypeOK, StatNames, expired
  <2> QED BY <1>2, <2>2, <2>3, <2>4, <2>5 DEF TypeOK
<1>21. PaneLifetime'
  <2>1. ASSUME NEW s \in Slots, state'.panes[s].count > 0
        PROVE  wm < Deadline(s[1])
    <3>1. s[1] \notin gone /\ state.panes[s].count > 0
      BY <1>7, <1>9, <2>1
    <3>2. CASE s[1] \in state.fired \cup expired
      BY <3>1, <3>2, <1>2, <1>8, <1>12, WindowFacts
    <3>3. CASE s[1] \notin state.fired \cup expired
      BY <3>1, <3>3, <1>2, <1>8, <1>10, <1>15, WindowFacts
    <3> QED BY <3>2, <3>3
  <2>2. ASSUME NEW w \in state'.fired
        PROVE  w.end <= wm /\ wm < Deadline(w)
    <3>1. w \in Windows /\ w \in state.fired \cup expired /\ w \notin gone
      BY <1>1, <1>6, <1>11
    <3> QED BY <3>1, <1>2, <1>10, <1>12, <1>16, WindowFacts
  <2> QED BY <1>2, <1>6, <2>1, <2>2 DEF PaneLifetime, LiveSlots
\* A window that stays fired has just been brought up to date.
<1>22. \A s \in Slots : s[1] \in state'.fired => latest'[s] = state'.panes[s]
  <2> SUFFICES ASSUME NEW s \in Slots, s[1] \in state'.fired
               PROVE  latest'[s] = state'.panes[s]
    OBVIOUS
  <2>1. s[1] \in state.fired \cup expired /\ s[1] \notin gone
    BY <1>6
  <2>2. state'.panes[s] = state.panes[s]
    BY <1>7, <2>1
  <2>3. CASE s \in emits
    BY <1>4, <2>2, <2>3
  <2>4. CASE s \notin emits /\ state.panes[s].count > 0
    <3>1. s[1] \in state.fired /\ ~(AllowedLateness > 0 /\ s[1] \in state.refired)
      BY <1>3, <2>1, <2>4
    <3>2. s[1] \in state.fired \ state.refired
      BY <3>1, <1>1 DEF IInv, Bookkeeping
    <3>3. latest[s] = state.panes[s]
      BY <3>2 DEF IInv, NoSuppressedUpdate
    <3> QED BY <1>4, <2>2, <2>4, <3>3
  <2>5. CASE s \notin emits /\ ~(state.panes[s].count > 0)
    <3>1. state.panes[s] = NoPane
      BY <1>13, <2>5 DEF IInv, Bookkeeping
    <3>2. watermark < Deadline(s[1])
      BY <1>2, <1>8, <1>12, <2>1, WindowFacts
    <3>3. latest[s] = NoPane
      BY <1>2, <2>5, <3>2 DEF IInv, NoResurrection, LiveSlots
    <3> QED BY <1>4, <2>2, <2>5, <3>1, <3>3
  <2> QED BY <2>3, <2>4, <2>5
<1>23. NoSuppressedUpdate'
  BY <1>22 DEF NoSuppressedUpdate
<1>24. NoResurrection'
  <2> SUFFICES ASSUME NEW s \in Slots, wm < Deadline(s[1]), ~(state'.panes[s].count > 0)
               PROVE  latest'[s] = NoPane
    BY <1>2 DEF NoResurrection, LiveSlots
  <2>1. s[1] \notin gone
    BY <1>2, <1>8, <1>12, WindowFacts
  <2>2. ~(state.panes[s].count > 0) /\ s \notin emits
    BY <1>3, <1>7, <2>1
  <2>3. watermark < Deadline(s[1])
    BY <1>2, <1>8, WindowFacts
  <2> QED BY <1>2, <1>4, <2>2, <2>3 DEF IInv, NoResurrection, LiveSlots
<1>25. FiresOnce'
  <2> SUFFICES ASSUME AllowedLateness = 0, NEW s \in Slots
               PROVE  emissions'[s] <= 1
    BY DEF FiresOnce
  <2>1. CASE s \in emits
    <3>1. state.panes[s].count > 0 /\ s[1] \notin state.fired
      BY <1>3, <2>1 DEF IInv, Bookkeeping
    <3>2. latest[s] = NoPane
      BY <3>1, <1>2, <1>14 DEF IInv, Bookkeeping
    <3>3. emissions[s] = 0
      BY <3>2 DEF IInv, Bookkeeping
    <3> QED BY <1>5, <2>1, <3>3
  <2>2. CASE s \notin emits
    BY <1>5, <2>2 DEF IInv, FiresOnce
  <2> QED BY <2>1, <2>2
<1>26. Bookkeeping'
  <2>1. \A s \in Slots : state'.panes[s].count = 0 => state'.panes[s] = NoPane
    BY <1>7 DEF IInv, Bookkeeping
  <2>2. state'.fired \subseteq AllWindows(state)'
    <3> SUFFICES ASSUME NEW w \in state'.fired
                 PROVE  w \in AllWindows(state)'
      OBVIOUS
    <3>1. w \in Windows /\ w \in state.fired \cup expired /\ w \notin gone
      BY <1>1, <1>6, <1>11
    <3>2. w \in AllWindows(state)
      BY <3>1, <1>10 DEF IInv, Bookkeeping
    <3>3. PICK k \in Keys : state.panes[<<w, k>>].count > 0
      BY <3>2 DEF AllWindows
    <3>4. <<w, k>> \in Slots /\ <<w, k>>[1] = w
      BY <3>1 DEF Slots
    <3>5. state'.panes[<<w, k>>].count > 0
      BY <3>1, <3>3, <3>4, <1>7
    <3> QED BY <3>1, <3>5 DEF AllWindows
  <2>3. AllowedLateness = 0 => state'.fired = {}
    <3> SUFFICES ASSUME AllowedLateness = 0, NEW w \in state'.fired PROVE FALSE
      OBVIOUS
    <3>1. w \in Windows /\ w \in state.fired \cup expired /\ w \notin gone
      BY <1>1, <1>6, <1>11
    <3>2. state.fired = {}
      BY DEF IInv, Bookkeeping
    <3> QED BY <3>1, <3>2, <1>2, <1>10, <1>12, WindowFacts
  <2>4. ASSUME NEW s \in Slots, s[1] \notin state'.fired, wm < Deadline(s[1])
        PROVE  latest'[s] = NoPane
    <3>1. s[1] \notin state.fired \cup expired
      BY <1>2, <1>6, <1>8, <1>12, <2>4, WindowFacts
    <3>2. s \notin emits
      BY <1>1, <1>3, <3>1
    <3>3. watermark < Deadline(s[1])
      BY <1>2, <1>8, <2>4, WindowFacts
    <3> QED BY <1>2, <1>4, <3>1, <3>2, <3>3 DEF IInv, Bookkeeping
  <2>5. \A s \in Slots : s[1] \in state'.fired => latest'[s].count <= state'.panes[s].count
    <3> SUFFICES ASSUME NEW s \in Slots, s[1] \in state'.fired
                 PROVE  latest'[s].count <= state'.panes[s].count
      OBVIOUS
    <3>1. latest'[s] = state'.panes[s] /\ state'.panes[s] = state.panes[s]
      BY <1>6, <1>7, <1>22
    <3> QED BY <3>1, <1>13
  <2>6. ASSUME NEW s \in Slots, latest'[s] = NoPane
        PROVE  emissions'[s] = 0
    <3>1. s \notin emits
      BY <1>3, <1>4, <1>9, <2>6
    <3> QED BY <1>4, <1>5, <2>6, <3>1 DEF IInv, Bookkeeping
  <2> QED BY <1>2, <2>1, <2>2, <2>3, <2>4, <2>5, <2>6 DEF Bookkeeping
<1> QED BY <1>20, <1>21, <1>23, <1>24, <1>25, <1>26 DEF IInv

(***************************************************************************)
(* The final flush, slot by slot: every slot whose value its newest result *)
(* does not show is emitted, and nothing stays behind.                     *)
(***************************************************************************)
LEMMA FlushStep ==
    ASSUME IInv, FinalFlush
    PROVE  /\ status = "running" /\ status' = "flushed" /\ watermark' = watermark
           /\ state' = [panes |-> ErasePanes(state.panes, AllWindows(state)),
                        fired |-> {}, refired |-> {}]
           /\ \A s \in Slots : state'.panes[s] = NoPane
           /\ \A s \in Slots : s \in FlushEmits(state) <=>
                 /\ state.panes[s].count > 0
                 /\ s[1] \in state.refired \/ s[1] \notin state.fired
           /\ latest' = [s \in Slots |-> IF s \in FlushEmits(state)
                                         THEN state.panes[s] ELSE latest[s]]
           /\ emissions' = [s \in Slots |-> IF s \in FlushEmits(state)
                                            THEN emissions[s] + 1 ELSE emissions[s]]
<1>1. /\ state \in States /\ state.fired \subseteq AllWindows(state)
      /\ state.refired \subseteq state.fired
      /\ AllowedLateness = 0 => state.fired = {}
  BY DEF IInv, TypeOK, Bookkeeping, PaneLifetime
<1>2. state' = [panes |-> ErasePanes(state.panes, AllWindows(state)),
                fired |-> {}, refired |-> {}]
  <2>1. state' = AfterFlush(state)
    BY DEF FinalFlush
  <2> QED BY <1>1, <2>1, FlushFields
<1>3. \A s \in Slots : s[1] \in Windows /\ s[2] \in Keys /\ s = <<s[1], s[2]>>
  BY DEF Slots
<1>4. \A s \in Slots : state.panes[s] \in Panes /\ state.panes[s].count \in Nat
  BY <1>1 DEF States, Panes
<1>5. \A s \in Slots : state.panes[s].count > 0 => s[1] \in AllWindows(state)
  BY <1>3 DEF AllWindows
<1>6. \A s \in Slots : state'.panes[s] = NoPane
  <2> SUFFICES ASSUME NEW s \in Slots PROVE state'.panes[s] = NoPane
    OBVIOUS
  <2>1. state'.panes[s] = IF s[1] \in AllWindows(state) THEN NoPane ELSE state.panes[s]
    BY <1>2 DEF ErasePanes
  <2> QED BY <2>1, <1>4, <1>5 DEF IInv, Bookkeeping
<1>7. \A s \in Slots : s \in FlushEmits(state) <=>
                 /\ state.panes[s].count > 0
                 /\ s[1] \in state.refired \/ s[1] \notin state.fired
  <2>1. CASE AllowedLateness > 0
    BY <2>1, <1>1, <1>5 DEF FlushEmits, ResultSlots, LiveSlots, UseLateness
  <2>2. CASE AllowedLateness = 0
    BY <2>2, <1>1, <1>5 DEF FlushEmits, ResultSlots, LiveSlots, UseLateness
  <2> QED BY <2>1, <2>2, WindowAssumption
<1> QED BY <1>2, <1>6, <1>7 DEF FinalFlush, Emit

\* The final flush preserves the invariant (FinalFlush).
LEMMA FlushInvariant == IInv /\ FinalFlush => IInv'
<1> SUFFICES ASSUME IInv, FinalFlush PROVE IInv'
  OBVIOUS
<1> DEFINE emits == FlushEmits(state)
<1>1. /\ state \in States /\ state.panes \in [Slots -> Panes]
      /\ latest \in [Slots -> Panes] /\ emissions \in [Slots -> Nat]
      /\ state.fired \subseteq Windows /\ state.refired \subseteq state.fired
  BY DEF IInv, TypeOK, States, PaneLifetime
<1>2. /\ status = "running" /\ status' = "flushed" /\ watermark' = watermark
      /\ state'.fired = {} /\ state'.refired = {}
      /\ state'.panes = ErasePanes(state.panes, AllWindows(state))
      /\ \A s \in Slots : state'.panes[s] = NoPane
  BY FlushStep
<1>3. \A s \in Slots : s \in emits <=> /\ state.panes[s].count > 0
                                       /\ s[1] \in state.refired \/ s[1] \notin state.fired
  BY FlushStep
<1>4. \A s \in Slots : latest'[s] = IF s \in emits THEN state.panes[s] ELSE latest[s]
  BY FlushStep
<1>5. \A s \in Slots : emissions'[s] = IF s \in emits THEN emissions[s] + 1 ELSE emissions[s]
  BY FlushStep
<1>6. NoPane \in Panes /\ NoPane.count = 0
  BY WindowAssumption DEF NoPane, Panes
<1>7. TypeOK'
  <2>1. state' \in States
    <3>1. state'.panes \in [Slots -> Panes]
      BY <1>2, <1>6 DEF ErasePanes
    <3> QED BY <3>1, <1>2, FlushStep DEF States
  <2>2. latest' \in [Slots -> Panes] /\ emissions' \in [Slots -> Nat]
    BY <1>1, FlushStep
  <2>3. stats' \in [StatNames -> Nat]
    <3>1. AllWindows(state) \ state.fired \in SUBSET Windows
      BY DEF AllWindows
    <3>2. /\ Cardinality(AllWindows(state) \ state.fired) \in Nat
          /\ Cardinality(state.refired) \in Nat
      BY <1>1, <3>1, WindowCount
    <3> QED BY <3>2 DEF FinalFlush, IInv, TypeOK, StatNames
  <2>4. watermark' \in Int
    BY <1>2 DEF IInv, TypeOK
  <2> QED BY <1>2, <2>1, <2>2, <2>3, <2>4 DEF TypeOK
<1>8. PaneLifetime' /\ NoSuppressedUpdate' /\ NoResurrection'
  BY <1>2, <1>6 DEF PaneLifetime, LiveSlots, NoSuppressedUpdate, NoResurrection
<1>9. FiresOnce'
  <2> SUFFICES ASSUME AllowedLateness = 0, NEW s \in Slots
               PROVE  emissions'[s] <= 1
    BY DEF FiresOnce
  <2>1. CASE s \in emits
    <3>1. state.panes[s].count > 0 /\ s[1] \notin state.fired
      BY <1>3, <2>1 DEF IInv, Bookkeeping
    <3>2. watermark < Deadline(s[1])
      BY <3>1 DEF IInv, PaneLifetime, LiveSlots
    <3>3. latest[s] = NoPane
      BY <3>1, <3>2, <1>2 DEF IInv, Bookkeeping
    <3>4. emissions[s] = 0
      BY <3>3 DEF IInv, Bookkeeping
    <3> QED BY <1>5, <2>1, <3>4
  <2>2. CASE s \notin emits
    BY <1>5, <2>2 DEF IInv, FiresOnce
  <2> QED BY <2>1, <2>2
<1>10. Bookkeeping'
  <2>1. ASSUME NEW s \in Slots, latest'[s] = NoPane
        PROVE  emissions'[s] = 0
    <3>1. s \notin emits
      BY <1>3, <1>4, <1>6, <2>1
    <3> QED BY <1>4, <1>5, <2>1, <3>1 DEF IInv, Bookkeeping
  <2> QED BY <1>2, <1>6, <2>1 DEF Bookkeeping
<1> QED BY <1>7, <1>8, <1>9, <1>10 DEF IInv

\* A record that throws preserves the invariant: nothing but the status
\* changes (ProcessRecord).
LEMMA ThrowInvariant ==
    ASSUME IInv, NEW key \in Keys, NEW t \in EventTimes, NEW v \in Values,
           ProcessRecordThrows(key, t, v)
    PROVE  IInv'
<1>1. /\ UNCHANGED <<state, watermark, latest, emissions, stats>>
      /\ status = "running" /\ status' = "failed"
  BY DEF ProcessRecordThrows
<1> QED BY <1>1 DEF IInv, TypeOK, PaneLifetime, LiveSlots, NoSuppressedUpdate,
                    NoResurrection, FiresOnce, Bookkeeping, AllWindows

\* Every step of the operator preserves the invariant.
LEMMA InvariantStep == IInv /\ [Next]_vars => IInv'
<1> SUFFICES ASSUME IInv, [Next]_vars PROVE IInv'
  OBVIOUS
<1>1. CASE UNCHANGED vars
  BY <1>1 DEF vars, IInv, TypeOK, PaneLifetime, LiveSlots, NoSuppressedUpdate,
              NoResurrection, FiresOnce, Bookkeeping, AllWindows
<1>2. ASSUME NEW key \in Keys, NEW t \in EventTimes, NEW v \in Values,
             ProcessRecord(key, t, v) \/ ProcessRecordThrows(key, t, v)
      PROVE  IInv'
  BY <1>2, RecordInvariant, ThrowInvariant
<1>3. ASSUME NEW wm \in Watermarks, ProcessWatermark(wm) PROVE IInv'
  BY <1>3, WatermarkInvariant
<1>4. CASE FinalFlush
  BY <1>4, FlushInvariant
<1> QED BY <1>1, <1>2, <1>3, <1>4 DEF Next

\* The invariant holds in every state the operator reaches, for every window
\* geometry, lateness, and sequence of records and watermarks.
THEOREM Invariance == Spec => []IInv
  BY InitInvariant, InvariantStep, PTL DEF Spec

(***************************************************************************)
(* The variables keep their types; no pane's sum leaves the int64 range    *)
(* (Pane::Add).                                                            *)
(***************************************************************************)
THEOREM TypeCorrect == Spec => []TypeOK
<1>1. IInv => TypeOK
  BY DEF IInv
<1> QED BY <1>1, Invariance, PTL

(***************************************************************************)
(* Panes and fired windows live exactly until their deadline, for every    *)
(* geometry and lateness (KeyedWindowState::GarbageCollect).               *)
(***************************************************************************)
THEOREM LifetimeCorrect == Spec => []PaneLifetime
<1>1. IInv => PaneLifetime
  BY DEF IInv
<1> QED BY <1>1, Invariance, PTL

(***************************************************************************)
(* No late update of a fired window is left unmarked (AddWithLateness).    *)
(***************************************************************************)
THEOREM UpdatesReachSink == Spec => []NoSuppressedUpdate
<1>1. IInv => NoSuppressedUpdate
  BY DEF IInv
<1> QED BY <1>1, Invariance, PTL

(***************************************************************************)
(* No pane is re-created for a slot whose result is out                    *)
(* (keyed_processor.cpp:41).                                               *)
(***************************************************************************)
THEOREM NothingResurrected == Spec => []NoResurrection
<1>1. IInv => NoResurrection
  BY DEF IInv
<1> QED BY <1>1, Invariance, PTL

(***************************************************************************)
(* Without allowed lateness each slot is emitted at most once.             *)
(***************************************************************************)
THEOREM ZeroLatenessFiresOnce == Spec => []FiresOnce
<1>1. IInv => FiresOnce
  BY DEF IInv
<1> QED BY <1>1, Invariance, PTL

LEMMA ProbeFacts ==
    ASSUME IInv, NEW g \in Geometries, NEW t \in Times
    PROVE  g[1] \in Nat \ {0} /\ g[2] \in Nat \ {0} /\ t \in Nat
<1>1. t \in Nat
  BY DEF IInv, TypeOK, Times
<1> QED BY <1>1 DEF Geometries

(***************************************************************************)
(* The engine's assigners lose and add no window at any boundary: what the *)
(* run compares (EngineExact) holds in every reachable state of every      *)
(* instance, an instance of the two theorems above                         *)
(* (window/sliding.cpp, window/tumbling.cpp).                              *)
(***************************************************************************)
THEOREM EngineAssignsExactly == Spec => []EngineExact
<1>1. IInv => EngineExact
  <2> SUFFICES ASSUME IInv, NEW g \in Geometries, NEW t \in Times
               PROVE  AssignWindows(g[1], g[2], t) = WindowsContaining(g[1], g[2], t)
    BY DEF EngineExact
  <2>1. PICK size, slide : size = g[1] /\ slide = g[2]
    OBVIOUS
  <2>2. size \in Nat \ {0} /\ slide \in Nat \ {0} /\ t \in Nat
    BY <2>1, ProbeFacts
  <2>3. AssignWindows(size, slide, t) = WindowsContaining(size, slide, t)
    BY <2>2, SlidingAssignExact, TumblingAssignExact DEF AssignWindows
  <2> QED BY <2>1, <2>3
<1> QED BY <1>1, Invariance, PTL

(***************************************************************************)
(* The oracle's downward walk finds the same windows (OracleAgrees), so    *)
(* that geometry never makes engine and oracle differ (oracle/oracle.cpp). *)
(***************************************************************************)
THEOREM OracleAssignsAlike == Spec => []OracleAgrees
<1>1. IInv => OracleAgrees
  <2> SUFFICES ASSUME IInv, NEW g \in Geometries, NEW t \in Times
               PROVE  OracleAssign(g[1], g[2], t) = AssignWindows(g[1], g[2], t)
    BY DEF OracleAgrees
  <2>1. PICK size, slide : size = g[1] /\ slide = g[2]
    OBVIOUS
  <2>2. size \in Nat \ {0} /\ slide \in Nat \ {0} /\ t \in Nat
    BY <2>1, ProbeFacts
  <2>3. OracleAssign(size, slide, t) = AssignWindows(size, slide, t)
    BY <2>2, OracleAssignAgrees
  <2> QED BY <2>1, <2>3
<1> QED BY <1>1, Invariance, PTL

-----------------------------------------------------------------------------
(***************************************************************************)
(* Newer results only add records: the count of a slot's newest result     *)
(* never decreases (FireWindow, FinalFlush).                               *)
(***************************************************************************)
LEMMA GrowStep ==
    ASSUME IInv, [Next]_vars
    PROVE  \A s \in Slots : latest'[s].count >= latest[s].count
<1> DEFINE Grow == \A s \in Slots : latest'[s].count >= latest[s].count
<1>1. \A s \in Slots : state.panes[s].count \in Nat /\ latest[s].count \in Nat
  BY DEF IInv, TypeOK, States, Panes
\* The pane of a live slot holds every record its newest result has.
<1>2. ASSUME NEW s \in Slots, state.panes[s].count > 0, status = "running"
      PROVE  state.panes[s].count >= latest[s].count
  <2>1. CASE s[1] \in state.fired
    BY <2>1, <1>1 DEF IInv, Bookkeeping
  <2>2. CASE s[1] \notin state.fired
    <3>1. latest[s] = NoPane
      BY <2>2, <1>2 DEF IInv, Bookkeeping, PaneLifetime, LiveSlots
    <3> QED BY <3>1, <1>1 DEF NoPane
  <2> QED BY <2>1, <2>2
<1>3. CASE UNCHANGED latest
  BY <1>1, <1>3
<1>4. ASSUME NEW wm \in Watermarks, ProcessWatermark(wm) PROVE Grow
  <2> SUFFICES ASSUME NEW s \in Slots PROVE latest'[s].count >= latest[s].count
    OBVIOUS
  <2>1. latest'[s] = IF s \in WatermarkEmits(state, wm) THEN state.panes[s] ELSE latest[s]
    BY <1>4, WatermarkStep
  <2>2. s \in WatermarkEmits(state, wm) => state.panes[s].count > 0
    BY <1>4, WatermarkStep
  <2>3. status = "running"
    BY <1>4 DEF ProcessWatermark
  <2> QED BY <1>1, <1>2, <2>1, <2>2, <2>3
<1>5. CASE FinalFlush
  <2> SUFFICES ASSUME NEW s \in Slots PROVE latest'[s].count >= latest[s].count
    OBVIOUS
  <2>1. latest'[s] = IF s \in FlushEmits(state) THEN state.panes[s] ELSE latest[s]
    BY <1>5, FlushStep
  <2>2. s \in FlushEmits(state) => state.panes[s].count > 0
    BY <1>5, FlushStep
  <2>3. status = "running"
    BY <1>5 DEF FinalFlush
  <2> QED BY <1>1, <1>2, <2>1, <2>2, <2>3
<1>6. ASSUME NEW key \in Keys, NEW t \in EventTimes, NEW v \in Values,
             ProcessRecord(key, t, v) \/ ProcessRecordThrows(key, t, v)
      PROVE  UNCHANGED latest
  BY <1>6 DEF ProcessRecord, ProcessRecordThrows
<1>7. UNCHANGED vars => UNCHANGED latest
  BY DEF vars
<1> QED BY <1>3, <1>4, <1>5, <1>6, <1>7 DEF Next

\* A newer result of a slot never has fewer records than an older one
\* (FireWindow re-fires kept panes), for every value of the constants.
THEOREM ResultsOnlyGrow == Spec => ResultsGrow
<1>1. IInv /\ [Next]_vars => [\A s \in Slots : latest'[s].count >= latest[s].count]_vars
  BY GrowStep
<1> QED BY <1>1, Invariance, PTL DEF Spec, ResultsGrow

-----------------------------------------------------------------------------
(***************************************************************************)
(* The engine implements the oracle.                                       *)
(***************************************************************************)
\* The instance repeats the definitions of KeyedWindowState; they are the same.
LEMMA OracleDefs ==
    /\ OracleView!Slots = Slots /\ OracleView!NoPane = NoPane
    /\ \A t \in EventTimes : OracleView!OracleWindows(t) = OracleAssign(Size, Slide, t)
    /\ \A pane, v : OracleView!PaneAdd(pane, v) = PaneAdd(pane, v)
<1>1. OracleView!Slots = Slots /\ OracleView!NoPane = NoPane
      /\ \A pane, v : OracleView!PaneAdd(pane, v) = PaneAdd(pane, v)
  BY DEF OracleView!Slots, OracleView!NoPane, OracleView!Windows, OracleView!InDomain,
         OracleView!WindowsOf, OracleView!AssignWindows, OracleView!TumblingAssign,
         OracleView!SlidingAssign, OracleView!EarliestStart, OracleView!WindowAt,
         OracleView!InTumblingDomain, OracleView!InSlidingDomain, OracleView!PaneAdd,
         Slots, NoPane, Windows, WindowsOf, InDomain, AssignWindows, TumblingAssign,
         SlidingAssign, EarliestStart, WindowAt, InTumblingDomain, InSlidingDomain, PaneAdd
<1>2. \A t, d : OracleView!Quotient(t, d) = Quotient(t, d)
  BY DEF OracleView!Quotient, Quotient
<1>3. ASSUME NEW t \in EventTimes
      PROVE  OracleView!OracleWindows(t) = OracleAssign(Size, Slide, t)
  BY <1>2 DEF OracleView!OracleWindows, OracleView!OracleAssign, OracleView!WindowAt,
              OracleAssign, WindowAt
<1> QED BY <1>1, <1>3

\* A fresh operator looks like a fresh oracle.
LEMMA OracleInit == Init => OracleView!Init
<1> SUFFICES ASSUME Init PROVE OracleView!Init
  OBVIOUS
<1>1. SlotValue = [s \in Slots |-> NoPane]
  BY DEF Init, SlotValue, EmptyState, NoPane
<1>3. stats["late_records_dropped"] = 0
  BY DEF Init, StatNames
<1> QED BY <1>1, <1>3, OracleDefs DEF Init, OracleView!Init

\* The oracle's drop rule is the engine's deadline rule.
LEMMA DropRule ==
    ASSUME NoSaturation, watermark \in Int, NEW w \in Windows
    PROVE  OracleView!Dropped(w) <=> ~(watermark < Deadline(w))
<1>1. w.end \in Int /\ w.end > 0 /\ w.end + AllowedLateness <= MaxTime
  BY WindowFacts DEF NoSaturation
<1>2. Deadline(w) = w.end + AllowedLateness
  BY <1>1, WindowAssumption DEF Deadline
<1> QED BY <1>1, <1>2, WindowAssumption DEF OracleView!Dropped

\* A record has on the slot values the effect the oracle gives it
\* (ProcessRecord, Oracle::AddRecord).
LEMMA OracleRecord ==
    ASSUME NoSaturation, IInv, NEW key \in Keys, NEW t \in EventTimes, NEW v \in Values,
           ProcessRecord(key, t, v)
    PROVE  OracleView!AddRecord(key, t, v)
<1> DEFINE ws == WindowsOf(t)
           acc == Accepting(ws, watermark)
<1>1. /\ status = "running" /\ InDomain(t)
      /\ UNCHANGED <<watermark, latest>>
      /\ state'.panes = AddToPanes(state.panes, key, acc, v)
      /\ stats' = RecordStats(ws)
  BY DEF ProcessRecord, AddWithLateness
<1>2. watermark \in Int /\ stats \in [StatNames -> Nat] /\ state.panes \in [Slots -> Panes]
  BY DEF IInv, TypeOK, States
<1>3. t \in Nat
  BY <1>1, WindowAssumption DEF InDomain, InTumblingDomain, InSlidingDomain
<1>4. OracleView!OracleWindows(t) = ws
  BY <1>3, OracleDefs, OracleAssignAgrees, WindowAssumption DEF WindowsOf
<1>5. ws \subseteq Windows
  BY <1>1, WindowsOfSubset
<1>6. \A w \in ws : OracleView!Dropped(w) <=> w \notin acc
  BY <1>2, <1>5, DropRule DEF Accepting
<1>7. SlotValue' = [s \in Slots |->
          IF s[1] \in ws /\ s[2] = key /\ ~OracleView!Dropped(s[1])
          THEN PaneAdd(SlotValue[s], v) ELSE SlotValue[s]]
  <2> SUFFICES ASSUME NEW s \in Slots
               PROVE  SlotValue'[s] = IF s[1] \in ws /\ s[2] = key /\ ~OracleView!Dropped(s[1])
                                      THEN PaneAdd(SlotValue[s], v) ELSE SlotValue[s]
    BY DEF SlotValue
  <2>1. state.panes[s] \in Panes /\ state.panes[s].count \in Nat
    BY <1>2 DEF Panes
  <2>2. SlotValue[s] = IF state.panes[s].count > 0 THEN state.panes[s] ELSE latest[s]
    BY DEF SlotValue
  <2>3. SlotValue'[s] = IF state'.panes[s].count > 0 THEN state'.panes[s] ELSE latest[s]
    BY <1>1 DEF SlotValue
  <2>4. CASE s[1] \in acc /\ s[2] = key
    <3>1. state'.panes[s] = PaneAdd(state.panes[s], v)
      BY <1>1, <2>4 DEF AddToPanes
    <3>2. state'.panes[s].count > 0
      BY <2>1, <3>1 DEF PaneAdd
    <3>3. state.panes[s] = SlotValue[s]
      <4>1. CASE state.panes[s].count > 0
        BY <2>2, <4>1
      <4>2. CASE state.panes[s].count = 0
        <5>1. state.panes[s] = NoPane
          BY <4>2 DEF IInv, Bookkeeping
        <5>2. watermark < Deadline(s[1])
          BY <2>4 DEF Accepting
        <5>3. latest[s] = NoPane
          BY <1>1, <4>2, <5>2 DEF IInv, NoResurrection, LiveSlots
        <5> QED BY <2>2, <4>2, <5>1, <5>3
      <4> QED BY <2>1, <4>1, <4>2
    <3>4. s[1] \in ws /\ ~OracleView!Dropped(s[1])
      BY <1>6, <2>4 DEF Accepting
    <3> QED BY <2>3, <2>4, <3>1, <3>2, <3>3, <3>4
  <2>5. CASE ~(s[1] \in acc /\ s[2] = key)
    <3>1. state'.panes[s] = state.panes[s]
      BY <1>1, <2>5 DEF AddToPanes
    <3> QED BY <1>6, <2>2, <2>3, <2>5, <3>1
  <2> QED BY <2>4, <2>5
<1>8. stats'["late_records_dropped"] =
        IF \E w \in ws : OracleView!Dropped(w) THEN stats["late_records_dropped"] + 1
                                               ELSE stats["late_records_dropped"]
  <2>1. (\E w \in ws : watermark >= Deadline(w)) <=> \E w \in ws : OracleView!Dropped(w)
    BY <1>2, <1>5, <1>6, WindowFacts DEF Accepting
  <2>2. stats'["late_records_dropped"] =
          stats["late_records_dropped"] + One(\E w \in ws : watermark >= Deadline(w))
    BY <1>1, <1>2 DEF RecordStats, StatNames
  <2>3. stats["late_records_dropped"] \in Nat
    BY <1>2 DEF StatNames
  <2>4. CASE \E w \in ws : OracleView!Dropped(w)
    BY <2>1, <2>2, <2>3, <2>4 DEF One
  <2>5. CASE ~\E w \in ws : OracleView!Dropped(w)
    BY <2>1, <2>2, <2>3, <2>5 DEF One
  <2> QED BY <2>4, <2>5
<1> HIDE DEF ws
<1> QED BY <1>1, <1>4, <1>7, <1>8, OracleDefs DEF OracleView!AddRecord

\* A watermark only advances the oracle's watermark: firing, re-firing and
\* collecting leave the slot values alone (ProcessControl).
LEMMA OracleWatermark ==
    ASSUME IInv, NEW wm \in Watermarks, ProcessWatermark(wm)
    PROVE  OracleView!AdvanceWatermark(wm)
<1>1. watermark' = wm /\ wm > watermark
  BY WatermarkStep DEF ProcessWatermark
<1>2. stats'["late_records_dropped"] = stats["late_records_dropped"]
  BY DEF ProcessWatermark, IInv, TypeOK, StatNames
<1>3. SlotValue' = SlotValue
  <2> SUFFICES ASSUME NEW s \in Slots PROVE SlotValue'[s] = SlotValue[s]
    BY DEF SlotValue
  <2>1. SlotValue[s] = IF state.panes[s].count > 0 THEN state.panes[s] ELSE latest[s]
    BY DEF SlotValue
  <2>2. SlotValue'[s] = IF state'.panes[s].count > 0 THEN state'.panes[s] ELSE latest'[s]
    BY DEF SlotValue
  <2>3. state'.panes[s] = IF s[1] \in Gone(wm) THEN NoPane ELSE state.panes[s]
    BY WatermarkStep DEF ErasePanes
  <2>4. latest'[s] = IF s \in WatermarkEmits(state, wm) THEN state.panes[s] ELSE latest[s]
    BY WatermarkStep
  <2>5. s \in WatermarkEmits(state, wm) <=>
          /\ state.panes[s].count > 0
          /\ \/ s[1] \in ExpiredWindows(state, wm)
             \/ AllowedLateness > 0 /\ s[1] \in state.refired
    BY WatermarkStep
  <2>6. CASE s[1] \notin Gone(wm)
    BY <2>1, <2>2, <2>3, <2>4, <2>5, <2>6
  <2>7. CASE s[1] \in Gone(wm) /\ state.panes[s].count > 0
    <3>1. ~(state'.panes[s].count > 0)
      BY <2>3, <2>7 DEF NoPane
    <3>2. CASE s \in WatermarkEmits(state, wm)
      BY <2>1, <2>2, <2>4, <2>7, <3>1, <3>2
    <3>3. CASE s \notin WatermarkEmits(state, wm)
      <4>1. AllowedLateness > 0
        BY <2>5, <2>7, <3>3, WindowAssumption DEF Gone
      <4>2. s[1] \in state.fired \ state.refired
        BY <2>5, <2>7, <3>3, <4>1 DEF Gone, Collected, FiredBy
      <4>3. latest[s] = state.panes[s]
        BY <4>2 DEF IInv, NoSuppressedUpdate
      <4> QED BY <2>1, <2>2, <2>4, <2>7, <3>1, <3>3, <4>3
    <3> QED BY <3>2, <3>3
  <2>8. CASE s[1] \in Gone(wm) /\ ~(state.panes[s].count > 0)
    <3>1. ~(state'.panes[s].count > 0)
      BY <2>3, <2>8 DEF NoPane
    <3> QED BY <2>1, <2>2, <2>4, <2>5, <2>8, <3>1
  <2> QED BY <2>6, <2>7, <2>8
<1> QED BY <1>1, <1>2, <1>3 DEF OracleView!AdvanceWatermark

\* The final flush leaves the slot values alone (FinalFlush).
LEMMA OracleFlush ==
    ASSUME IInv, FinalFlush
    PROVE  UNCHANGED OracleView!vars
<1>1. stats'["late_records_dropped"] = stats["late_records_dropped"]
  BY DEF FinalFlush, IInv, TypeOK, StatNames
<1>2. SlotValue' = SlotValue
  <2> SUFFICES ASSUME NEW s \in Slots PROVE SlotValue'[s] = SlotValue[s]
    BY DEF SlotValue
  <2>1. SlotValue[s] = IF state.panes[s].count > 0 THEN state.panes[s] ELSE latest[s]
    BY DEF SlotValue
  <2>2. SlotValue'[s] = latest'[s]
    <3>1. state'.panes[s] = NoPane
      BY FlushStep
    <3> QED BY <3>1 DEF SlotValue, NoPane
  <2>3. latest'[s] = IF s \in FlushEmits(state) THEN state.panes[s] ELSE latest[s]
    BY FlushStep
  <2>4. s \in FlushEmits(state) <=>
          /\ state.panes[s].count > 0
          /\ s[1] \in state.refired \/ s[1] \notin state.fired
    BY FlushStep
  <2>5. CASE s \in FlushEmits(state)
    BY <2>1, <2>2, <2>3, <2>4, <2>5
  <2>6. CASE s \notin FlushEmits(state)
    BY <2>1, <2>2, <2>3, <2>4, <2>6 DEF IInv, NoSuppressedUpdate
  <2> QED BY <2>5, <2>6
<1> QED BY <1>1, <1>2, FlushStep DEF OracleView!vars

LEMMA OracleStep ==
    ASSUME NoSaturation
    PROVE  IInv /\ [Next]_vars => [OracleView!Next]_(OracleView!vars)
<1> SUFFICES ASSUME IInv, [Next]_vars PROVE [OracleView!Next]_(OracleView!vars)
  OBVIOUS
<1>1. CASE UNCHANGED vars
  BY <1>1 DEF vars, OracleView!vars, SlotValue
<1>2. ASSUME NEW key \in Keys, NEW t \in EventTimes, NEW v \in Values,
             ProcessRecord(key, t, v)
      PROVE  OracleView!Next
  BY <1>2, OracleRecord DEF OracleView!Next
<1>3. ASSUME NEW key \in Keys, NEW t \in EventTimes, NEW v \in Values,
             ProcessRecordThrows(key, t, v)
      PROVE  UNCHANGED OracleView!vars
  BY <1>3 DEF ProcessRecordThrows, OracleView!vars, SlotValue
<1>4. ASSUME NEW wm \in Watermarks, ProcessWatermark(wm) PROVE OracleView!Next
  BY <1>4, OracleWatermark DEF OracleView!Next
<1>5. CASE FinalFlush
  BY <1>5, OracleFlush
<1> QED BY <1>1, <1>2, <1>3, <1>4, <1>5 DEF Next

(***************************************************************************)
(* Every behaviour of the engine is, seen slot by slot, a behaviour of the *)
(* oracle: firing, re-firing, garbage collection and the final flush lose, *)
(* invent and double-count nothing (engine/keyed_processor.cpp against     *)
(* oracle/oracle.cpp).                                                     *)
(***************************************************************************)
THEOREM EngineImplementsOracle == NoSaturation => (Spec => ImplementsOracle)
<1> SUFFICES ASSUME NoSaturation PROVE Spec => ImplementsOracle
  OBVIOUS
<1>1. IInv /\ [Next]_vars => [OracleView!Next]_(OracleView!vars)
  BY OracleStep
<1> QED BY <1>1, OracleInit, Invariance, PTL DEF Spec, ImplementsOracle, OracleView!Spec
=============================================================================
