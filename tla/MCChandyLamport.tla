-------------------------- MODULE MCChandyLamport --------------------------
(***************************************************************************)
(* The topology of app/snapshot: two producers around an aggregator, all   *)
(* channels in both directions.  One window of two time units, kept for    *)
(* two more: it fires between the messages of the inputs, and one record   *)
(* may come late.                                                          *)
(***************************************************************************)
EXTENDS ChandyLamport

MCPeers == [n \in {0, 1, 2} |-> IF n = 2 THEN {0, 1} ELSE {2}]
MCPayloads == [p \in {0, 1} |-> IF p = 0 THEN <<Watermark(2), Data("k", 1, 1)>>
                                        ELSE <<Data("k", 1, 2), Watermark(3)>>]
MCMaxSent == [n \in {0, 1, 2} |-> [p \in MCPeers[n] |->
                 CASE n = 2 -> IF p = 0 THEN 1 ELSE 0 [] OTHER -> Len(MCPayloads[n])]]
MCMinTime == -1

\* What the theorems on the operator assume of its inputs holds of these.
ASSUME AcceptableAssumption == Acceptable
=============================================================================
