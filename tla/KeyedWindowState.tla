-------------------------- MODULE KeyedWindowState --------------------------
(***************************************************************************)
(* The keyed window state of one operator instance (window/state.{h,cpp}): *)
(* the open panes, the windows that have fired but are kept for late data, *)
(* and the fired windows that late data has touched since.                 *)
(*                                                                         *)
(* This module holds no variables: a state is a record                     *)
(*     [panes, fired, refired]                                             *)
(* and every method is an operator from states to states, so that the      *)
(* single-threaded engine, a partition worker and a restored incarnation   *)
(* share one definition.  A pane is present in windows_ exactly when its   *)
(* count is positive: Pane::Add increments it and nothing resets it.       *)
(* A method the code calls once per window of a list takes the set of      *)
(* windows here; distinct windows touch disjoint panes.                    *)
(***************************************************************************)
EXTENDS WindowAssigner, FiniteSets

CONSTANTS Keys,             \* record keys
          Values,           \* record values (int64)
          EventTimes,       \* event times records carry
          Watermarks,       \* watermarks control records carry
          Size, Slide,      \* window geometry
          AllowedLateness,  \* config.allowed_lateness
          MinTime, MaxTime, \* Timestamp::min(), Timestamp::max()
          MinSum, MaxSum    \* numeric_limits<int64_t> of a pane's sum

ASSUME WindowAssumption ==
    /\ Size \in Nat \ {0} /\ Slide \in Nat \ {0}
    /\ AllowedLateness \in Nat
    /\ EventTimes \subseteq Int
    /\ Values \subseteq Int /\ Watermarks \subseteq Int
    /\ MinTime \in Int /\ MinTime <= 0 /\ MaxTime \in Nat
    /\ MinSum \in Int /\ MaxSum \in Int /\ MinSum <= 0 /\ MaxSum >= 0

\* Times the assigner accepts; it throws on any other.
InDomain(t) == IF Slide = Size THEN InTumblingDomain(Size, t, MaxTime)
                               ELSE InSlidingDomain(Size, Slide, t, MaxTime)

\* The windows of an event time, and every window a record can reach.
WindowsOf(t) == AssignWindows(Size, Slide, t)
Windows == UNION {WindowsOf(t) : t \in {x \in EventTimes : InDomain(x)}}

\* A slot is the (window, key) a pane and a result belong to.
Slots == Windows \X Keys

Panes == [sum : MinSum..MaxSum, count : Nat]
NoPane == [sum |-> 0, count |-> 0]

\* Pane::Add, and the overflow check on the sum that makes it throw.
\* Mutant: only the positive direction is checked.
CanAddUnsigned(pane, v) == pane.sum + v <= MaxSum

CanAdd(pane, v) == MinSum <= pane.sum + v /\ pane.sum + v <= MaxSum
PaneAdd(pane, v) == [sum |-> pane.sum + v, count |-> pane.count + 1]

States == [panes : [Slots -> Panes], fired : SUBSET Windows, refired : SUBSET Windows]
EmptyState == [panes |-> [s \in Slots |-> NoPane], fired |-> {}, refired |-> {}]

\* AllWindows(): the windows present in windows_.
LiveSlots(st) == {s \in Slots : st.panes[s].count > 0}
AllWindows(st) == {w \in Windows : \E k \in Keys : st.panes[<<w, k>>].count > 0}

\* The saturating window deadline of AddWithLateness and GarbageCollectableWindows.
Deadline(w) == IF w.end > MaxTime - AllowedLateness THEN MaxTime
                                                    ELSE w.end + AllowedLateness

(***************************************************************************)
(* AddWithLateness, for each window of a record.  A window whose deadline  *)
(* the watermark has reached drops the record; one that already fired is   *)
(* marked for re-firing.                                                   *)
(***************************************************************************)
Accepting(ws, wm) == {w \in ws : wm < Deadline(w)}

CanAddTo(st, key, ws, v, wm) ==
    \A w \in Accepting(ws, wm) : CanAdd(st.panes[<<w, key>>], v)

\* Pane::Add on one slot of each window.
AddToPanes(panes, key, ws, v) ==
    [s \in Slots |-> IF s[1] \in ws /\ s[2] = key THEN PaneAdd(panes[s], v) ELSE panes[s]]

\* Mutant: late data reaches the pane but the window is not marked for re-firing.
AddWithoutRefire(st, key, ws, v, wm) ==
    [panes |-> AddToPanes(st.panes, key, Accepting(ws, wm), v),
     fired |-> st.fired, refired |-> st.refired]

\* Mutant: no deadline check, so a record can re-create a pane that was erased.
AddWithoutDeadline(st, key, ws, v, wm) ==
    [panes |-> AddToPanes(st.panes, key, ws, v),
     fired |-> st.fired, refired |-> st.refired \cup (ws \cap st.fired)]

AddWithLateness(st, key, ws, v, wm) ==
    [panes |-> AddToPanes(st.panes, key, Accepting(ws, wm), v),
     fired |-> st.fired,
     refired |-> st.refired \cup (Accepting(ws, wm) \cap st.fired)]

\* ExpiredWindows: live windows the watermark has passed that never fired.
ExpiredWindows(st, wm) == {w \in AllWindows(st) : w.end <= wm /\ w \notin st.fired}

\* Erase the panes of a set of windows.
ErasePanes(panes, ws) == [s \in Slots |-> IF s[1] \in ws THEN NoPane ELSE panes[s]]

(***************************************************************************)
(* FireWindow: a result for every pane of the window; with no lateness the *)
(* panes are erased, otherwise the window is kept and marked fired.        *)
(***************************************************************************)
ResultSlots(st, ws) == {s \in LiveSlots(st) : s[1] \in ws}

\* Mutant: the panes survive firing although no lateness is configured.
FireWindowKeepingPanes(st, ws) == st

FireWindow(st, ws) ==
    IF AllowedLateness = 0
    THEN [panes |-> ErasePanes(st.panes, ws), fired |-> st.fired, refired |-> st.refired]
    ELSE [panes |-> st.panes, fired |-> st.fired \cup (ws \cap AllWindows(st)),
          refired |-> st.refired]

ClearRefired(st) == [panes |-> st.panes, fired |-> st.fired, refired |-> {}]

\* Mutant: collected at the window's end, as if no lateness were allowed.
GarbageCollectableAtEnd(st, wm) == {w \in st.fired : wm >= w.end}

GarbageCollectable(st, wm) == {w \in st.fired : wm >= Deadline(w)}

GarbageCollect(st, ws) ==
    [panes |-> ErasePanes(st.panes, ws), fired |-> st.fired \ ws,
     refired |-> st.refired \ ws]

(***************************************************************************)
(* A watermark that advances: fire the expired windows, re-fire the ones   *)
(* late data touched, then collect the ones past their deadline.           *)
(***************************************************************************)
UseLateness == AllowedLateness > 0

\* Mutant: windows past their deadline are never collected.
AfterWatermarkNoGc(st, wm) ==
    LET fired == FireWindow(st, ExpiredWindows(st, wm))
    IN  IF UseLateness THEN ClearRefired(fired) ELSE fired

AfterWatermark(st, wm) ==
    LET fired == FireWindow(st, ExpiredWindows(st, wm))
        cleared == ClearRefired(FireWindow(fired, fired.refired))
    IN  IF UseLateness
        THEN GarbageCollect(cleared, GarbageCollectable(cleared, wm))
        ELSE fired

\* The slots whose panes that emits, before any of them is erased.
WatermarkEmits(st, wm) ==
    ResultSlots(st, ExpiredWindows(st, wm) \cup (IF UseLateness THEN st.refired ELSE {}))

(***************************************************************************)
(* The final flush: with lateness, re-fire, then fire what never fired,    *)
(* then collect everything; without, fire everything.                      *)
(***************************************************************************)
\* Mutant: the windows late data touched are not re-fired at the end.
FlushEmitsUnfiredOnly(st) == ResultSlots(st, AllWindows(st) \ st.fired)

FlushEmits(st) == ResultSlots(st, IF UseLateness
                                  THEN st.refired \cup (AllWindows(st) \ st.fired)
                                  ELSE AllWindows(st))

AfterFlush(st) == IF UseLateness
                  THEN GarbageCollect(FireWindow(ClearRefired(st), AllWindows(st)),
                                      AllWindows(st))
                  ELSE FireWindow(st, AllWindows(st))
=============================================================================
