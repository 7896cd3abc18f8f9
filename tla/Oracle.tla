------------------------------- MODULE Oracle -------------------------------
(***************************************************************************)
(* The differential-testing oracle (oracle/oracle.cpp): what the windowed  *)
(* aggregation promises.  Every record is added to each of its windows     *)
(* unless the watermark has already reached the end of the window plus the *)
(* allowed lateness; ComputeResults then reports one value per slot.  It   *)
(* has no firing, re-firing or garbage collection, and it serves as the    *)
(* abstract specification the engine's state machine implements.           *)
(***************************************************************************)
EXTENDS KeyedWindowState

VARIABLES data,              \* data_: the pane of every slot
          current_watermark, \* current_watermark_
          predicted_drops    \* predicted_drops_

vars == <<data, current_watermark, predicted_drops>>

OracleWindows(t) == OracleAssign(Size, Slide, t)

\* The drop rule; the guard on Timestamp::min() is the code's.
Dropped(w) == current_watermark > MinTime /\ current_watermark >= w.end + AllowedLateness

Init == /\ data = [s \in Slots |-> NoPane]
        /\ current_watermark = MinTime
        /\ predicted_drops = 0

AddRecord(key, t, v) ==
    LET ws == OracleWindows(t)
    IN  /\ data' = [s \in Slots |-> IF s[1] \in ws /\ s[2] = key /\ ~Dropped(s[1])
                                    THEN PaneAdd(data[s], v) ELSE data[s]]
        /\ predicted_drops' = IF \E w \in ws : Dropped(w) THEN predicted_drops + 1
                                                          ELSE predicted_drops
        /\ UNCHANGED current_watermark

AdvanceWatermark(wm) ==
    /\ current_watermark' = IF wm > current_watermark THEN wm ELSE current_watermark
    /\ UNCHANGED <<data, predicted_drops>>

Next == \/ \E key \in Keys, t \in EventTimes, v \in Values : AddRecord(key, t, v)
        \/ \E wm \in Watermarks : AdvanceWatermark(wm)

Spec == Init /\ [][Next]_vars
=============================================================================
