---------------------------- MODULE FifoChannels ----------------------------
(***************************************************************************)
(* What the snapshot protocol asks of its transport                        *)
(* (snapshot/chandy_lamport.cpp sends through a callback and is fed by     *)
(* another): between any two nodes a channel that delivers the messages    *)
(* sent, in the order sent, each once.  A node may fail, and then neither  *)
(* sends nor receives any more; a failure never makes a channel skip a     *)
(* message.                                                                *)
(***************************************************************************)
EXTENDS Integers, Sequences

CONSTANTS Nodes, Message

VARIABLES sent,      \* sent[n][p]: messages n has sent to p
          delivered, \* delivered[n][p]: messages of n that p has received
          up         \* nodes that have not failed

vars == <<sent, delivered, up>>

NoMessages == [n \in Nodes |-> [p \in Nodes \ {n} |-> << >>]]

Init == sent = NoMessages /\ delivered = NoMessages /\ up = Nodes

Send(n, p) ==
    /\ n \in up
    /\ \E m \in Message : sent' = [sent EXCEPT ![n][p] = Append(@, m)]
    /\ UNCHANGED <<delivered, up>>

Deliver(n, p) ==
    /\ p \in up /\ Len(delivered[n][p]) < Len(sent[n][p])
    /\ delivered' = [delivered EXCEPT ![n][p] = Append(@, sent[n][p][Len(@) + 1])]
    /\ UNCHANGED <<sent, up>>

Fail(n) ==
    /\ n \in up
    /\ up' = up \ {n}
    /\ UNCHANGED <<sent, delivered>>

Next == \E n \in Nodes : Fail(n) \/ \E p \in Nodes \ {n} : Send(n, p) \/ Deliver(n, p)

Spec == Init /\ [][Next]_vars
=============================================================================
