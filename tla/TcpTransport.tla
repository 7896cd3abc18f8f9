---------------------------- MODULE TcpTransport ----------------------------
(***************************************************************************)
(* TcpTransport (snapshot/tcp_transport.cpp): messages as frames on byte   *)
(* streams.  Every node polls its sockets in one thread; sends and         *)
(* receives are nonblocking and may move any part of a frame.              *)
(*                                                                         *)
(* A byte is the frame it belongs to and its place in it; the first one    *)
(* holds the frame's length.  The kernel is a bounded buffer per direction *)
(* that keeps the order of bytes, and loses its contents only when a       *)
(* process goes.                                                           *)
(***************************************************************************)
EXTENDS Integers, Sequences, FiniteSetsExt

CONSTANTS Nodes,          \* numbers; peers are visited in their order
          Workload,       \* Workload[n][p]: lengths of the frames n sends to p
          QueueLimit,     \* queue_limit_: bytes of output waiting per peer
          SendBudget,     \* bytes sent to a peer per PollOnce
          ReceiveBuffer,  \* bytes taken from a peer per PollOnce
          SocketCapacity, \* bytes a socket buffers
          MaxDeaths       \* bound on processes that are killed

ASSUME TransportAssumption ==
    /\ Nodes \subseteq Nat /\ MaxDeaths \in Nat
    /\ \A n \in Nodes : \A p \in Nodes \ {n} : Workload[n][p] \in Seq(Nat \ {0})
    /\ {QueueLimit, SendBudget, ReceiveBuffer, SocketCapacity} \subseteq Nat \ {0}

Peers(n) == Nodes \ {n}
Numbered(n, p, i) == [number |-> i, size |-> Workload[n][p][i]]
Message == UNION {UNION {{Numbered(n, p, i) : i \in DOMAIN Workload[n][p]} : p \in Peers(n)} :
                     n \in Nodes}

VARIABLES poll,      \* PollOnce: its stage, the peers left, what poll() reported, the budget
          output, front_offset, queued_bytes, \* Channel, per node and peer
          input,     \* Channel::input: bytes received, not yet decoded
          wire,      \* wire[n][p]: bytes in the kernel on their way from n to p
          status,    \* "ok", the reason of failed_, or how the process ended
          gone,      \* nodes whose sockets are closed
          deaths,
          sent, delivered \* auxiliary: messages queued by n for p, received by p from n

channel == <<output, front_offset, queued_bytes, input>>
vars == <<poll, channel, wire, status, gone, deaths, sent, delivered>>

ForPeers(v) == [n \in Nodes |-> [p \in Peers(n) |-> v]]
Idle == [stage |-> "idle", todo |-> {}, out |-> {}, in |-> {}, budget |-> 0]

Init ==
    /\ poll = [n \in Nodes |-> Idle]
    /\ output = ForPeers(<< >>) /\ front_offset = ForPeers(0) /\ queued_bytes = ForPeers(0)
    /\ input = ForPeers(<< >>) /\ wire = ForPeers(<< >>)
    /\ status = [n \in Nodes |-> "ok"] /\ gone = {} /\ deaths = 0
    /\ sent = ForPeers(<< >>) /\ delivered = ForPeers(<< >>)

Up(n, stage) == status[n] = "ok" /\ poll[n].stage = stage
Fail(n, why) == status' = [status EXCEPT ![n] = why]
Stage(n, stage) == poll' = [poll EXCEPT ![n].stage = stage]

\* Encode: the frame of a message, from its byte i to its byte j.
Frame(m, i, j) == [k \in 1..(j - i + 1) |-> [message |-> m, at |-> i + k - 1]]
Room(n, p) == SocketCapacity - Len(wire[n][p])

-----------------------------------------------------------------------------
(***************************************************************************)
(* Queue, from the program or from the receive callback.                   *)
(***************************************************************************)
Fits(n, p, size) == size =< QueueLimit - queued_bytes[n][p]

Queue(n, p) ==
    /\ Up(n, "idle") \/ Up(n, "callback")
    /\ Len(sent[n][p]) < Len(Workload[n][p])
    /\ LET m == Numbered(n, p, Len(sent[n][p]) + 1)
       IN  IF Fits(n, p, m.size)
           THEN /\ output' = [output EXCEPT ![n][p] = Append(@, m)]
                /\ queued_bytes' = [queued_bytes EXCEPT ![n][p] = @ + m.size]
                /\ sent' = [sent EXCEPT ![n][p] = Append(@, m)]
                /\ UNCHANGED status
           ELSE /\ Fail(n, "overflow")
                /\ UNCHANGED <<output, queued_bytes, sent>>
    /\ UNCHANGED <<poll, front_offset, input, wire, gone, deaths, delivered>>

Drained(n) == \A p \in Peers(n) : output[n][p] = << >>

(***************************************************************************)
(* PollOnce.  poll() reports where something can be sent or received; then *)
(* each peer in turn is sent to while the budget and the socket allow, and *)
(* received from once.                                                     *)
(***************************************************************************)
\* The program's loop ends when it has sent and received all it expects.
Finished(n) == /\ \A p \in Peers(n) : /\ Len(sent[n][p]) = Len(Workload[n][p])
                                      /\ Len(delivered[p][n]) = Len(Workload[p][n])
               /\ Drained(n)

PollOnce(n) ==
    LET out == {p \in Peers(n) : output[n][p] # << >> /\ (Room(n, p) > 0 \/ p \in gone)}
        in  == {p \in Peers(n) : wire[p][n] # << >> \/ p \in gone}
    IN  /\ Up(n, "idle") /\ ~Finished(n)
        /\ out \cup in # {}
        /\ poll' = [poll EXCEPT ![n] = [stage |-> "send", todo |-> Peers(n), out |-> out,
                                        in |-> in, budget |-> SendBudget]]
        /\ UNCHANGED <<channel, wire, status, gone, deaths, sent, delivered>>

Peer(n) == Min(poll[n].todo)

\* Mutant: the offset into the first frame stays where it was.
AfterSendKeepingOffset(n, p, k) ==
    IF front_offset[n][p] + k >= Head(output[n][p]).size
    THEN /\ output' = [output EXCEPT ![n][p] = Tail(@)]
         /\ UNCHANGED front_offset
    ELSE /\ front_offset' = [front_offset EXCEPT ![n][p] = @ + k]
         /\ UNCHANGED output

\* k bytes of the first frame are sent; a frame sent to its end is dropped.
AfterSend(n, p, k) ==
    IF front_offset[n][p] + k = Head(output[n][p]).size
    THEN /\ output' = [output EXCEPT ![n][p] = Tail(@)]
         /\ front_offset' = [front_offset EXCEPT ![n][p] = 0]
    ELSE /\ front_offset' = [front_offset EXCEPT ![n][p] = @ + k]
         /\ UNCHANGED output

CanSend(n, p) == p \in poll[n].out /\ output[n][p] # << >> /\ poll[n].budget > 0

\* One send(): any number of bytes the socket has room for.
SendSome(n) ==
    LET p == Peer(n)
        m == Head(output[n][p])
        from == front_offset[n][p]
    IN  /\ Up(n, "send") /\ CanSend(n, p)
        /\ \E k \in 1..Min({poll[n].budget, m.size - from, Room(n, p)}) :
              /\ wire' = [wire EXCEPT ![n][p] = @ \o Frame(m, from + 1, from + k)]
              /\ AfterSend(n, p, k)
              /\ queued_bytes' = [queued_bytes EXCEPT ![n][p] = @ - k]
              /\ poll' = [poll EXCEPT ![n].budget = @ - k]
        /\ UNCHANGED <<input, status, gone, deaths, sent, delivered>>

\* Mutant: the send waits for room instead of returning EAGAIN.
SendEndsWhenSent(n) ==
    /\ Up(n, "send") /\ ~CanSend(n, Peer(n))
    /\ Stage(n, "receive")
    /\ UNCHANGED <<channel, wire, status, gone, deaths, sent, delivered>>

\* Nothing to send, the budget is used up, or EAGAIN.
SendEnds(n) ==
    /\ Up(n, "send") /\ (CanSend(n, Peer(n)) => Room(n, Peer(n)) = 0)
    /\ Stage(n, "receive")
    /\ UNCHANGED <<channel, wire, status, gone, deaths, sent, delivered>>

\* EPIPE or ECONNRESET; whether send() already reports it is up to the kernel.
SendFails(n) ==
    /\ Up(n, "send") /\ CanSend(n, Peer(n)) /\ Peer(n) \in gone
    /\ Fail(n, "disconnected")
    /\ UNCHANGED <<poll, channel, wire, gone, deaths, sent, delivered>>

NextPeer(n) ==
    LET left == poll[n].todo \ {Peer(n)}
    IN  poll' = [poll EXCEPT ![n] = IF left = {} THEN Idle
                                    ELSE [stage |-> "send", todo |-> left, out |-> @.out,
                                          in |-> @.in, budget |-> SendBudget]]

\* The one recv() of a peer with an event.
ReceiveSome(n) ==
    LET p == Peer(n)
    IN  /\ Up(n, "receive") /\ p \in poll[n].in /\ wire[p][n] # << >>
        /\ \E k \in 1..Min({ReceiveBuffer, Len(wire[p][n])}) :
              /\ input' = [input EXCEPT ![n][p] = @ \o SubSeq(wire[p][n], 1, k)]
              /\ wire' = [wire EXCEPT ![p][n] = SubSeq(@, k + 1, Len(@))]
        /\ Stage(n, "decode")
        /\ UNCHANGED <<output, front_offset, queued_bytes, status, gone, deaths, sent, delivered>>

\* recv() returns 0 or ECONNRESET.
ReceiveFails(n) ==
    LET p == Peer(n)
    IN  /\ Up(n, "receive") /\ p \in poll[n].in /\ wire[p][n] = << >>
        /\ Fail(n, "disconnected")
        /\ UNCHANGED <<poll, channel, wire, gone, deaths, sent, delivered>>

ReceiveNothing(n) ==
    /\ Up(n, "receive") /\ Peer(n) \notin poll[n].in
    /\ NextPeer(n)
    /\ UNCHANGED <<channel, wire, status, gone, deaths, sent, delivered>>

\* Mutant: a frame is decoded when only its first byte is there.
WholeOnceBegun(bytes) == bytes # << >>

\* The length is in the first byte; a complete frame can be decoded.
WholeFrame(bytes) == bytes # << >> /\ Len(bytes) >= bytes[1].message.size

\* The checks of length and CRC: the bytes are those of one message.
Decodes(bytes) ==
    LET m == bytes[1].message
    IN  Len(bytes) >= m.size /\ SubSeq(bytes, 1, m.size) = Frame(m, 1, m.size)

\* Mutant: the frame stays in the input.
AfterFrameKept(bytes, size) == bytes

AfterFrame(bytes, size) == SubSeq(bytes, size + 1, Len(bytes))

\* A frame is taken off the input, and the receive callback is called with it.
Decode(n) ==
    LET p == Peer(n)
        bytes == input[n][p]
        m == bytes[1].message
    IN  /\ Up(n, "decode") /\ WholeFrame(bytes)
        /\ IF Decodes(bytes)
           THEN /\ input' = [input EXCEPT ![n][p] = AfterFrame(@, m.size)]
                /\ delivered' = [delivered EXCEPT ![p][n] = Append(@, m)]
                /\ Stage(n, "callback")
                /\ UNCHANGED status
           ELSE /\ Fail(n, "frame")
                /\ UNCHANGED <<input, delivered, poll>>
        /\ UNCHANGED <<output, front_offset, queued_bytes, wire, gone, deaths, sent>>

CallbackReturns(n) ==
    /\ Up(n, "callback")
    /\ Stage(n, "decode")
    /\ UNCHANGED <<channel, wire, status, gone, deaths, sent, delivered>>

DecodeEnds(n) ==
    /\ Up(n, "decode") /\ ~WholeFrame(input[n][Peer(n)])
    /\ NextPeer(n)
    /\ UNCHANGED <<channel, wire, status, gone, deaths, sent, delivered>>

PollStep(n) == \/ PollOnce(n) \/ SendSome(n) \/ SendEnds(n) \/ SendFails(n)
               \/ ReceiveSome(n) \/ ReceiveFails(n) \/ ReceiveNothing(n)
               \/ Decode(n) \/ CallbackReturns(n) \/ DecodeEnds(n)

-----------------------------------------------------------------------------
(***************************************************************************)
(* The process around a transport: it returns when it is finished, exits   *)
(* on an exception, or is killed.  Its sockets are closed with it: bytes   *)
(* it has sent arrive before the end of the stream if it has read all      *)
(* there was to read, otherwise the kernel resets the connection and any   *)
(* of them may be lost.                                                    *)
(***************************************************************************)
Return(n) ==
    /\ Up(n, "idle") /\ Finished(n)
    /\ Fail(n, "done")
    /\ UNCHANGED <<poll, channel, wire, gone, deaths, sent, delivered>>

Kill(n) ==
    /\ status[n] = "ok" /\ deaths < MaxDeaths
    /\ deaths' = deaths + 1
    /\ Fail(n, "killed")
    /\ UNCHANGED <<poll, channel, wire, gone, sent, delivered>>

CloseSockets(n) ==
    /\ status[n] # "ok" /\ n \notin gone
    /\ gone' = gone \cup {n}
    /\ \E kept \in [Peers(n) -> 0..SocketCapacity] :
          /\ \A p \in Peers(n) :
                kept[p] \in IF wire[p][n] = << >> THEN {Len(wire[n][p])} ELSE 0..Len(wire[n][p])
          /\ wire' = [wire EXCEPT ![n] = [p \in Peers(n) |-> SubSeq(@[p], 1, kept[p])]]
    /\ UNCHANGED <<poll, channel, status, deaths, sent, delivered>>

Next == \E n \in Nodes : \/ PollStep(n) \/ (\E p \in Peers(n) : Queue(n, p))
                         \/ Return(n) \/ Kill(n) \/ CloseSockets(n)

\* A process runs, sends what it has to send, and its end closes its sockets;
\* the kernel delivers what it has accepted.
Fairness == \A n \in Nodes : /\ WF_vars(PollStep(n)) /\ WF_vars(Return(n))
                             /\ WF_vars(CloseSockets(n))
                             /\ \A p \in Peers(n) : SF_vars(Queue(n, p))

Spec == Init /\ [][Next]_vars
FairSpec == Spec /\ Fairness

-----------------------------------------------------------------------------
Statuses == {"ok", "overflow", "disconnected", "frame", "done", "killed"}
ByteStrings == Seq(UNION {{[message |-> m, at |-> i] : i \in 1..m.size} : m \in Message})

(***************************************************************************)
(* Types of the variables.                                                 *)
(***************************************************************************)
TypeOK ==
    /\ \A n \in Nodes :
          /\ poll[n].stage \in {"idle", "send", "receive", "decode", "callback"}
          /\ poll[n].todo \cup poll[n].out \cup poll[n].in \subseteq Peers(n)
          /\ poll[n].budget \in 0..SendBudget /\ status[n] \in Statuses
          /\ \A p \in Peers(n) : /\ output[n][p] \in Seq(Message)
                                 /\ front_offset[n][p] \in Nat
                                 /\ queued_bytes[n][p] \in 0..QueueLimit
                                 /\ input[n][p] \in ByteStrings /\ wire[n][p] \in ByteStrings
                                 /\ Len(wire[n][p]) =< SocketCapacity
    /\ gone \subseteq Nodes /\ deaths \in 0..MaxDeaths

Total(frames) ==
    LET sum[i \in 0..Len(frames)] == IF i = 0 THEN 0 ELSE sum[i - 1] + frames[i].size
    IN  sum[Len(frames)]

(***************************************************************************)
(* The byte count that limits the output is exact through partial sends:   *)
(* it is what is left of the queued frames, and never more than the limit, *)
(* so that the unsigned difference in Queue cannot wrap (Queue, PollOnce). *)
(***************************************************************************)
QueueExact ==
    \A n \in Nodes : \A p \in Peers(n) :
        /\ queued_bytes[n][p] = Total(output[n][p]) - front_offset[n][p]
        /\ queued_bytes[n][p] \in 0..QueueLimit
        /\ output[n][p] # << >> => front_offset[n][p] < Head(output[n][p]).size

(***************************************************************************)
(* Failures have causes: partial sends, partial receives and the order of  *)
(* closing sockets never make a peer see a broken frame or a lost          *)
(* connection unless a process was killed or overran its queue; a pair of  *)
(* processes in which nothing goes wrong ends without an exception         *)
(* (tcp_transport.h:13, app/snapshot/main.cpp).                            *)
(***************************************************************************)
NoSpuriousFailure ==
    /\ \A n \in Nodes : status[n] # "frame"
    /\ (\E n \in Nodes : status[n] = "disconnected")
          => \E n \in Nodes : status[n] \in {"killed", "overflow"}

(***************************************************************************)
(* The snapshot protocol may take the transport for FIFO channels: frames  *)
(* cut anywhere by sends and receives come out as the messages that were   *)
(* queued, in order, once each, up to the first failure (FifoChannels).    *)
(***************************************************************************)
Fifo == INSTANCE FifoChannels WITH up <- {n \in Nodes : status[n] = "ok"}
ImplementsFifo == Fifo!Spec

(***************************************************************************)
(* Neither full sockets in both directions nor the death of a peer leave a *)
(* process waiting: every process ends, with everything delivered or with  *)
(* an exception ("nonblocking writes prevent reciprocal marker sends from  *)
(* deadlocking. ... Overflow/EOF is a job failure", tcp_transport.h:12).   *)
(***************************************************************************)
AllEnd == <>(\A n \in Nodes : status[n] # "ok")
=============================================================================
