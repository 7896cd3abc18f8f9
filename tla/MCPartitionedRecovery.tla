----------------------- MODULE MCPartitionedRecovery -----------------------
(***************************************************************************)
(* Instances of PartitionedRecovery with two workers.                      *)
(***************************************************************************)
EXTENDS PartitionedRecovery, TLC

CONSTANTS k1, k2

MCEventTimes == {1, 3, 5}
MCMinTime == -5
MCPartitions == {0, 1}
MCOwnKey == k1 :> 0 @@ k2 :> 1
MCOneKey == k1 :> 0
=============================================================================
