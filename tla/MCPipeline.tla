----------------------------- MODULE MCPipeline -----------------------------
(***************************************************************************)
(* Instance of Pipeline: tumbling windows [0,2) [2,4) [4,6) with lateness  *)
(* 2, so that a window fires, is touched by late data, and is re-fired     *)
(* after a checkpoint; batches of 3 with a watermark and a barrier every 2 *)
(* records, so that barriers fall inside batches and a suspension falls    *)
(* between two of them, where Seek has to restore the counters.            *)
(***************************************************************************)
EXTENDS Pipeline

MCEventTimes == {1, 3, 5}
MCMinTime == -5
MCMinSum == 0
=============================================================================
