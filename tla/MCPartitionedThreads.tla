----------------------- MODULE MCPartitionedThreads -----------------------
(***************************************************************************)
(* Two workers, queues of one batch, so that the router blocks on a full   *)
(* queue while a worker fails.                                             *)
(***************************************************************************)
EXTENDS PartitionedThreads
=============================================================================
