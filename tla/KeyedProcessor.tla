--------------------------- MODULE KeyedProcessor ---------------------------
(***************************************************************************)
(* One operator instance (engine/keyed_processor.cpp, and the identical    *)
(* record, watermark and final-flush code of engine/pipeline.cpp): records *)
(* and watermarks in, window results out, until the final flush.           *)
(*                                                                         *)
(* The sink is observed the way its readers observe it: for each slot, the *)
(* number of results emitted (ReadAll) and the newest one (ReadLatest).    *)
(* An exception (event time out of the assigner's domain, pane overflow)   *)
(* unwinds out of Run and discards the instance; status is then "failed".  *)
(***************************************************************************)
EXTENDS KeyedWindowState

CONSTANT MaxRecords   \* bound on the records processed in one behaviour

ASSUME BoundAssumption == MaxRecords \in Nat

VARIABLES state,     \* state_: a record of States
          watermark, \* watermark_.Current()
          latest,    \* newest result emitted for each slot (NoPane: none)
          emissions, \* number of results emitted for each slot
          stats,     \* KeyedProcessor::Stats
          status     \* "running", "flushed" or "failed"

vars == <<state, watermark, latest, emissions, stats, status>>

StatNames == {"records_processed", "late_records_dropped", "late_records_accepted",
              "windows_fired", "windows_refired", "watermarks_advanced"}

Init == /\ state = EmptyState
        /\ watermark = MinTime
        /\ latest = [s \in Slots |-> NoPane]
        /\ emissions = [s \in Slots |-> 0]
        /\ stats = [n \in StatNames |-> 0]
        /\ status = "running"

\* sink.Emit for every pane of the slots given.
Emit(slots) ==
    /\ latest' = [s \in Slots |-> IF s \in slots THEN state.panes[s] ELSE latest[s]]
    /\ emissions' = [s \in Slots |-> IF s \in slots THEN emissions[s] + 1 ELSE emissions[s]]

One(b) == IF b THEN 1 ELSE 0

(***************************************************************************)
(* ProcessRecord.                                                          *)
(***************************************************************************)
RecordStats(ws) ==
    [stats EXCEPT
        !["records_processed"] = @ + 1,
        !["late_records_dropped"] = @ + One(\E w \in ws : watermark >= Deadline(w)),
        !["late_records_accepted"] =
            @ + One(UseLateness /\ \E w \in Accepting(ws, watermark) : w \in state.fired)]

ProcessRecord(key, t, v) ==
    /\ status = "running"
    /\ stats["records_processed"] < MaxRecords
    /\ InDomain(t)
    /\ CanAddTo(state, key, WindowsOf(t), v, watermark)
    /\ state' = AddWithLateness(state, key, WindowsOf(t), v, watermark)
    /\ stats' = RecordStats(WindowsOf(t))
    /\ UNCHANGED <<watermark, latest, emissions, status>>

\* AssignWindows or Pane::Add throws; the instance does not survive.
ProcessRecordThrows(key, t, v) ==
    /\ status = "running"
    /\ stats["records_processed"] < MaxRecords
    /\ ~InDomain(t) \/ ~CanAddTo(state, key, WindowsOf(t), v, watermark)
    /\ status' = "failed"
    /\ UNCHANGED <<state, watermark, latest, emissions, stats>>

(***************************************************************************)
(* ProcessControl, a watermark that advances (AfterWatermark).  A          *)
(* watermark that does not advance changes nothing.                        *)
(***************************************************************************)
ProcessWatermark(wm) ==
    /\ status = "running"
    /\ wm > watermark
    /\ watermark' = wm
    /\ state' = AfterWatermark(state, wm)
    /\ Emit(WatermarkEmits(state, wm))
    /\ stats' = [stats EXCEPT
                   !["windows_fired"] = @ + Cardinality(ExpiredWindows(state, wm)),
                   !["windows_refired"] = @ + (IF UseLateness
                                               THEN Cardinality(state.refired) ELSE 0),
                   !["watermarks_advanced"] = @ + 1]
    /\ UNCHANGED status

(***************************************************************************)
(* FinalFlush, at the end of the stream or on a final stop.                *)
(***************************************************************************)
FinalFlush ==
    /\ status = "running"
    /\ state' = AfterFlush(state)
    /\ Emit(FlushEmits(state))
    /\ stats' = [stats EXCEPT
                   !["windows_fired"] = @ + Cardinality(AllWindows(state) \ state.fired),
                   !["windows_refired"] = @ + Cardinality(state.refired)]
    /\ status' = "flushed"
    /\ UNCHANGED watermark

Next == \/ \E key \in Keys, t \in EventTimes, v \in Values :
              ProcessRecord(key, t, v) \/ ProcessRecordThrows(key, t, v)
        \/ \E wm \in Watermarks : ProcessWatermark(wm)
        \/ FinalFlush

Spec == Init /\ [][Next]_vars

-----------------------------------------------------------------------------
(***************************************************************************)
(* Types of the variables (window/state.h, engine/keyed_processor.h); in   *)
(* particular no pane's sum ever leaves the int64 range (Pane::Add).       *)
(***************************************************************************)
TypeOK == /\ state \in States
          /\ watermark \in Int
          /\ latest \in [Slots -> Panes]
          /\ emissions \in [Slots -> Nat]
          /\ stats \in [StatNames -> Nat]
          /\ status \in {"running", "flushed", "failed"}

(***************************************************************************)
(* A window's panes live exactly as long as they may still change: a live  *)
(* pane's deadline has not been reached, a fired window is kept only       *)
(* between its end and its deadline, and only fired windows await          *)
(* re-firing (KeyedWindowState, GarbageCollect).                           *)
(***************************************************************************)
PaneLifetime ==
    /\ \A s \in LiveSlots(state) : watermark < Deadline(s[1])
    /\ \A w \in state.fired : w.end <= watermark /\ watermark < Deadline(w)
    /\ state.refired \subseteq state.fired

(***************************************************************************)
(* No update is suppressed: while a fired window is not marked for         *)
(* re-firing, the newest result of each of its slots is the slot's current *)
(* value (AddWithLateness, ClearRefired).                                  *)
(***************************************************************************)
NoSuppressedUpdate ==
    \A s \in Slots : s[1] \in state.fired \ state.refired => latest[s] = state.panes[s]

(***************************************************************************)
(* Nothing is resurrected: while a slot can still accept records, a result *)
(* was emitted for it only if its pane is still there to accumulate into   *)
(* (the spurious partial result keyed_processor.cpp:41 guards against).    *)
(***************************************************************************)
NoResurrection ==
    status = "running" =>
        \A s \in Slots : watermark < Deadline(s[1]) /\ s \notin LiveSlots(state)
                            => latest[s] = NoPane

(***************************************************************************)
(* Without allowed lateness every slot is emitted at most once, the final  *)
(* flush included (keyed_processor.cpp:41, Pipeline::Run).                 *)
(***************************************************************************)
FiresOnce == AllowedLateness = 0 => \A s \in Slots : emissions[s] <= 1

(***************************************************************************)
(* A newer result of a slot never forgets records of an older one: its     *)
(* count only grows (FireWindow re-fires the kept panes, not fresh ones).  *)
(***************************************************************************)
ResultsGrow == [][\A s \in Slots : latest'[s].count >= latest[s].count]_vars

(***************************************************************************)
(* Bookkeeping the properties above rest on, with which they are           *)
(* inductive: an absent pane is empty; fired windows still hold panes, and *)
(* exist only with lateness; nothing was emitted for a window that has not *)
(* fired and is still open; a newest result is no newer than its pane; and *)
(* results are counted.                                                    *)
(***************************************************************************)
Bookkeeping ==
    /\ \A s \in Slots : state.panes[s].count = 0 => state.panes[s] = NoPane
    /\ state.fired \subseteq AllWindows(state)
    /\ AllowedLateness = 0 => state.fired = {}
    /\ status = "running" =>
          \A s \in Slots : s[1] \notin state.fired /\ watermark < Deadline(s[1])
                              => latest[s] = NoPane
    /\ \A s \in Slots : s[1] \in state.fired => latest[s].count <= state.panes[s].count
    /\ \A s \in Slots : latest[s] = NoPane => emissions[s] = 0

IInv == /\ TypeOK /\ PaneLifetime /\ NoSuppressedUpdate /\ NoResurrection
        /\ FiresOnce /\ Bookkeeping

NoSaturation == \A w \in Windows : w.end + AllowedLateness <= MaxTime

SlotValue == [s \in Slots |-> IF state.panes[s].count > 0 THEN state.panes[s]
                                                          ELSE latest[s]]

OracleView == INSTANCE Oracle WITH data <- SlotValue, current_watermark <- watermark,
                 predicted_drops <- stats["late_records_dropped"]

(***************************************************************************)
(* The engine implements the oracle: the value of a slot is its live pane  *)
(* or, once collected, its newest result.  Firing, re-firing, collection   *)
(* and the final flush are invisible; in particular, after the final flush *)
(* the newest results are exactly what Oracle::ComputeResults reports.     *)
(* The oracle adds the lateness without saturating, so this holds of       *)
(* windows whose deadline is a timestamp (NoSaturation).                   *)
(***************************************************************************)
ImplementsOracle == OracleView!Spec
=============================================================================
