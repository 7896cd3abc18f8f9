--------------------------- MODULE MCTcpTransport ---------------------------
(***************************************************************************)
(* Two processes.  A socket buffers less than a frame, so that both sides  *)
(* can be full at once; a frame is sent and received in up to three parts; *)
(* two frames of the first process exceed the output queue.                *)
(***************************************************************************)
EXTENDS TcpTransport

WorkloadValue == [n \in Nodes |-> [p \in Peers(n) |-> IF n = 1 THEN <<3, 3>> ELSE <<2, 3>>]]
=============================================================================
