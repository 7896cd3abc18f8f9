--------------------------- MODULE ChandyLamport ---------------------------
(***************************************************************************)
(* Global snapshots of a set of processes (snapshot/chandy_lamport.cpp),   *)
(* their immutable store (snapshot/store.cpp) and the supervisor that      *)
(* commits a snapshot and restarts all processes from the newest committed *)
(* one (app/snapshot/main.cpp).                                            *)
(*                                                                         *)
(* The application is the one of WindowOperator.  The TCP transport is a   *)
(* FIFO queue per direction that dies with the processes, which is what    *)
(* TcpTransport is shown to implement.                                     *)
(***************************************************************************)
EXTENDS WindowOperator

CONSTANTS Nodes,
          Peers,     \* topology: the peers of each node
          Limit,     \* channel records a local snapshot has room for
          MaxSent,   \* bound: messages each node sends to each peer
          MaxEpoch, MaxCrashes, MaxDamages \* bounds

ASSUME TopologyAssumption ==
    /\ Peers \in [Nodes -> SUBSET Nodes]
    /\ \A n \in Nodes : n \notin Peers[n] /\ \A p \in Peers[n] : n \in Peers[p]
    /\ \A n \in Nodes : MaxSent[n] \in [Peers[n] -> Nat]
    /\ Aggregator \in Nodes /\ Inputs = Peers[Aggregator]
    /\ \A p \in Inputs : Peers[p] = {Aggregator} /\ MaxSent[p][Aggregator] =< Len(Payloads[p])
    /\ {Limit, MaxEpoch, MaxCrashes, MaxDamages} \subseteq Nat

Epochs == 1..MaxEpoch
None == [epoch |-> 0] \* no local snapshot

VARIABLES node,      \* Participant and application, per node
          chan,      \* chan[p][n]: messages on their way from p to n
          saved,     \* saved[e][n]: the local snapshot file of n for epoch e
          committed, \* epochs with a COMMITTED manifest
          damaged,   \* epochs with a file that fails its checksum
          epoch,     \* the newest epoch the supervisor has used
          restored,  \* the epoch this run of the processes restores, 0 for none
          floor,     \* the newest epoch used before this run started
          crashes

vars == <<node, chan, saved, committed, damaged, epoch, restored, floor, crashes>>

Zero(n) == [p \in Peers[n] |-> 0]
FreshNode(n) == [up |-> FALSE, failed |-> "no", received |-> Zero(n), sent |-> Zero(n),
                 app |-> FreshApp(n), active |-> None, completed |-> None, marked |-> {},
                 last_epoch |-> 0]
NoMessages == [p \in Nodes |-> [n \in Peers[p] |-> << >>]]

Init ==
    /\ node = [n \in Nodes |-> FreshNode(n)]
    /\ chan = NoMessages
    /\ saved = [e \in Epochs |-> [n \in Nodes |-> None]]
    /\ committed = {} /\ damaged = {}
    /\ epoch = 0 /\ restored = 0 /\ floor = 0 /\ crashes = 0

DataMessage(seq, payload) ==
    [kind |-> "data", sequence |-> seq, epoch |-> 0, payload |-> payload]
Marker(seq, e) == [kind |-> "marker", sequence |-> seq, epoch |-> e]

Running(n) == node[n].up /\ node[n].failed = "no"
Poison(n, why) == node' = [node EXCEPT ![n].failed = why]

(***************************************************************************)
(* Participant                                                             *)
(***************************************************************************)
CanStart(s, e) == e > s.last_epoch /\ s.active = None /\ s.completed = None

\* Start: the state s of node n with its local cut for epoch e taken.  The limit
\* on the size of the captured state is left out.
Start(n, s, e) ==
    [s EXCEPT !.active = [epoch |-> e, state |-> Capture(n, s.app), received |-> s.received,
                          sent |-> s.sent, markers |-> << >>, channels |-> << >>],
              !.marked = {}]

\* TcpTransport: a queue per direction; PollOnce takes its front.
Queue(queue, m) == Append(queue, m)
PollOnce(p, n) == [chan EXCEPT ![p][n] = Tail(@)]

\* Mutant: no marker on a channel that was never used.
SendMarkersWhereUsed(n, e) ==
    [chan EXCEPT ![n] = [p \in Peers[n] |-> IF node[n].sent[p] = 0 THEN @[p]
                                            ELSE Queue(@[p], Marker(node[n].sent[p], e))]]

\* Start's markers, behind everything n has sent.
SendMarkers(n, e) ==
    [chan EXCEPT ![n] = [p \in Peers[n] |-> Queue(@[p], Marker(node[n].sent[p], e))]]

\* Mutant: the first marker is enough.
FinishIfReadyEarly(n, s) ==
    IF s.active # None /\ s.marked # {}
    THEN [s EXCEPT !.completed = s.active, !.active = None, !.last_epoch = s.active.epoch]
    ELSE s

FinishIfReady(n, s) ==
    IF s.active # None /\ s.marked = Peers[n]
    THEN [s EXCEPT !.completed = s.active, !.active = None, !.last_epoch = s.active.epoch]
    ELSE s

\* A stale epoch, or one that overlaps a snapshot, poisons the participant.
Initiate(n, e) ==
    /\ Running(n)
    /\ IF CanStart(node[n], e)
       THEN /\ node' = [node EXCEPT ![n] = FinishIfReady(n, Start(n, node[n], e))]
            /\ chan' = SendMarkers(n, e)
       ELSE Poison(n, "protocol") /\ chan' = chan

\* The aggregator acknowledges once its snapshot is committed and it has everything.
CanSend(n) == n = Aggregator => epoch > floor /\ epoch \in committed /\ HasAll(node[n].app)

Send(n, p) ==
    /\ Running(n) /\ node[n].completed = None /\ node[n].sent[p] < MaxSent[n][p]
    /\ CanSend(n)
    /\ LET m == DataMessage(node[n].sent[p] + 1, Payload(n, node[n].app))
       IN  chan' = [chan EXCEPT ![n][p] = Queue(@, m)]
    /\ node' = [node EXCEPT ![n].sent[p] = @ + 1, ![n].app = AfterSend(n, @)]
    /\ UNCHANGED <<saved, committed, damaged, epoch, restored, floor, crashes>>

\* Mutant: a channel is recorded beyond its marker.
RecordsAlways(s, p) == s.active # None

\* Whether a message from p belongs to the channel state of the open snapshot.
Records(s, p) == s.active # None /\ p \notin s.marked

ReceiveData(p, n, m) ==
    LET s == node[n]
        logged == IF Records(s, p)
                  THEN [s EXCEPT !.active.channels =
                                     Append(@, [peer |-> p, sequence |-> m.sequence,
                                                payload |-> m.payload])]
                  ELSE s
        app == Deliver(n, s.app, p, m.payload)
    IN  /\ m.kind = "data"
        /\ IF m.sequence # s.received[p] + 1 THEN Poison(n, "protocol")
           ELSE IF Records(s, p) /\ Len(s.active.channels) >= Limit THEN Poison(n, "limit")
           ELSE IF app = Thrown THEN Poison(n, "application")
           ELSE node' = [node EXCEPT ![n] = [logged EXCEPT !.received[p] = m.sequence,
                                                           !.app = app]]
        /\ chan' = PollOnce(p, n)

\* The node once the marker m from p is counted.
Marked(p, n, m, s) ==
    FinishIfReady(n, [s EXCEPT !.marked = @ \cup {p},
                               !.active.markers = [q \in {p} \cup DOMAIN @ |->
                                                       IF q = p THEN m.sequence ELSE @[q]]])

ReceiveMarker(p, n, m) ==
    LET s == node[n]
        fresh == s.active = None
        s1 == IF fresh THEN Start(n, s, m.epoch) ELSE s
        left == PollOnce(p, n)
    IN  /\ m.kind = "marker"
        /\ IF \/ m.sequence # s.received[p]
              \/ fresh /\ ~CanStart(s, m.epoch)
              \/ s1.active.epoch # m.epoch
              \/ p \in s1.marked
           THEN Poison(n, "protocol") /\ chan' = left
           ELSE /\ node' = [node EXCEPT ![n] = Marked(p, n, m, s1)]
                /\ chan' = IF fresh
                           THEN [left EXCEPT ![n] = SendMarkers(n, m.epoch)[n]]
                           ELSE left

\* The receive callback does not return before a completed snapshot is saved.
Receive(p, n) ==
    /\ Running(n) /\ node[n].completed = None /\ chan[p][n] # << >>
    /\ LET m == Head(chan[p][n]) IN ReceiveData(p, n, m) \/ ReceiveMarker(p, n, m)
    /\ UNCHANGED <<saved, committed, damaged, epoch, restored, floor, crashes>>

\* TakeCompleted and Store::SaveLocal: published whole or not at all, never replaced.
SaveLocal(n) ==
    LET s == node[n].completed
    IN  /\ Running(n) /\ s # None
        /\ IF saved[s.epoch][n] \in {None, s}
           THEN /\ saved' = [saved EXCEPT ![s.epoch][n] = s]
                /\ node' = [node EXCEPT ![n].completed = None]
           ELSE Poison(n, "protocol") /\ saved' = saved
        /\ UNCHANGED <<chan, committed, damaged, epoch, restored, floor, crashes>>

(***************************************************************************)
(* What a local snapshot restores to, and the check of a global one        *)
(***************************************************************************)
\* The messages from p among the first k of a channel log.
LogFrom(s, p, k) == Cardinality({i \in 1..k : s.channels[i].peer = p})

ContiguousLog(s) ==
    \A i \in DOMAIN s.channels :
        LET r == s.channels[i] IN r.sequence = s.received[r.peer] + LogFrom(s, r.peer, i)

Frontier(s, p) == s.received[p] + LogFrom(s, p, Len(s.channels))

ValidateGlobal(snapshots) ==
    \A n \in Nodes :
        /\ ContiguousLog(snapshots[n])
        /\ \A p \in Peers[n] :
               /\ snapshots[p].sent[n] = Frontier(snapshots[n], p)
               /\ DOMAIN snapshots[n].markers = Peers[n]
               /\ snapshots[n].markers[p] = Frontier(snapshots[n], p)

\* The application once the first k records of the log are delivered again.
Replayed(n, s, k) ==
    LET app[i \in 0..k] ==
            IF i = 0 THEN RestoreApp(n, s.state)
            ELSE IF app[i - 1] = Thrown THEN Thrown
            ELSE Deliver(n, app[i - 1], s.channels[i].peer, s.channels[i].payload)
    IN  app[k]

\* Participant::Restore, after the application's state, with k records replayed.
RestoredFrom(n, s, k) ==
    LET app == Replayed(n, s, k)
    IN  [FreshNode(n) EXCEPT
            !.up = TRUE, !.sent = s.sent, !.last_epoch = s.epoch,
            !.received = [p \in Peers[n] |-> s.received[p] + LogFrom(s, p, k)], !.app = app,
            !.failed = IF app = Thrown THEN "application"
                       ELSE IF /\ ContiguousLog(s)
                               /\ s.markers = [p \in Peers[n] |-> Frontier(s, p)]
                            THEN "no" ELSE "protocol"]

\* Mutant: the channel log is not replayed.
RestoreSnapshotWithoutLog(n, s) == RestoredFrom(n, s, 0)

RestoreSnapshot(n, s) == RestoredFrom(n, s, Len(s.channels))

RestoredNode(n) == IF restored = 0 THEN [FreshNode(n) EXCEPT !.up = TRUE]
                                   ELSE RestoreSnapshot(n, saved[restored][n])

\* A child process starts; its peers may already be sending to it.
Restore(n) ==
    /\ ~node[n].up
    /\ node' = [node EXCEPT ![n] = RestoredNode(n)]
    /\ UNCHANGED <<chan, saved, committed, damaged, epoch, restored, floor, crashes>>

(***************************************************************************)
(* The supervisor                                                          *)
(***************************************************************************)
\* A snapshot is asked for, of one node or of several, in an epoch never used
\* before; the one before it is committed, unless it died with its run.
BeginEpoch(n) ==
    /\ epoch < MaxEpoch /\ (epoch = floor \/ epoch \in committed)
    /\ Initiate(n, epoch + 1)
    /\ epoch' = epoch + 1
    /\ UNCHANGED <<saved, committed, damaged, restored, floor, crashes>>

\* A second initiator, which no marker of the epoch has reached yet: Initiate
\* would poison it afterwards.
JoinEpoch(n) ==
    /\ epoch > floor /\ CanStart(node[n], epoch)
    /\ Initiate(n, epoch)
    /\ UNCHANGED <<saved, committed, damaged, epoch, restored, floor, crashes>>

AllSaved(e) == \A n \in Nodes : saved[e][n] # None

\* Store::Commit
Commit ==
    /\ epoch > floor /\ epoch \notin committed
    /\ AllSaved(epoch) /\ ValidateGlobal(saved[epoch])
    /\ committed' = committed \cup {epoch}
    /\ UNCHANGED <<node, chan, saved, damaged, epoch, restored, floor, crashes>>

Damage(e) ==
    /\ e \in committed \ damaged /\ Cardinality(damaged) < MaxDamages
    /\ damaged' = damaged \cup {e}
    /\ UNCHANGED <<node, chan, saved, committed, epoch, restored, floor, crashes>>

\* LoadLatestCommitted's choice
Loadable(e) == e \in committed \ damaged /\ ValidateGlobal(saved[e])

\* The processes die, or one of them failed and the others are killed; all
\* start again, over new connections, from the newest snapshot that loads.
Crash ==
    /\ crashes < MaxCrashes
    /\ \E e \in Epochs :
           /\ Loadable(e) /\ \A f \in Epochs : Loadable(f) => f =< e
           /\ restored' = e
    /\ node' = [n \in Nodes |-> FreshNode(n)]
    /\ chan' = NoMessages
    /\ floor' = epoch /\ crashes' = crashes + 1
    /\ UNCHANGED <<saved, committed, damaged, epoch>>

\* What a process does of its own accord: start, poll its peers, save.
Run(n) == \/ Restore(n) \/ SaveLocal(n)
          \/ \E p \in Peers[n] : Receive(p, n)

Next ==
    \/ \E n \in Nodes : \/ \E p \in Peers[n] : Send(n, p)
                        \/ Run(n) \/ BeginEpoch(n) \/ JoinEpoch(n)
    \/ Commit \/ Crash
    \/ \E e \in Epochs : Damage(e)

\* A machine with something to run runs some of it.
Fairness == WF_vars(Commit \/ \E n \in Nodes : Run(n))

Spec == Init /\ [][Next]_vars
FairSpec == Spec /\ Fairness

-----------------------------------------------------------------------------
DataIn(q) == Cardinality({i \in DOMAIN q : q[i].kind = "data"})

\* The node as it is, or as it will be once its process has restored it.
View(n) == IF node[n].up THEN node[n] ELSE RestoredNode(n)

\* The types of a participant's state; a marked channel belongs to a snapshot.
TypeOK ==
    /\ \A n \in Nodes :
           /\ \A p \in Peers[n] : /\ node[n].received[p] \in 0..MaxSent[p][n]
                                  /\ node[n].sent[p] \in 0..MaxSent[n][p]
           /\ node[n].marked \subseteq Peers[n]
           /\ node[n].active = None \/ node[n].completed = None
    /\ epoch \in 0..MaxEpoch /\ floor \in 0..epoch /\ committed \subseteq 1..epoch
    /\ damaged \subseteq committed /\ restored \in committed \cup {0}

\* No message is lost, duplicated or received twice, across snapshots, crashes
\* and restarts: what p sent to n is what n has received plus what is on its
\* way, for nodes that are up and for nodes about to be restored alike.
Conservation ==
    \A n \in Nodes : \A p \in Peers[n] :
        Running(n) \/ ~node[n].up =>
            View(p).sent[n] = View(n).received[p] + DataIn(chan[p][n])

\* The application is exact: a producer's cursor is what it has sent; the
\* operator has counted, combined and aggregated the messages received and no
\* others, whatever their interleaving and however many cuts and restarts lie
\* between; and a cut taken now would bring all of it back, the windows due to
\* fire again included (WindowOperator::Apply, Capture, Restore).
OperatorExact ==
    /\ \A p \in Inputs : Running(p) \/ ~node[p].up =>
           View(p).app.cursor = View(p).sent[Aggregator]
    /\ Running(Aggregator) \/ ~node[Aggregator].up =>
           LET op == View(Aggregator).app
               received == View(Aggregator).received
           IN  /\ op.records = Cardinality(RecordsAmong(received))
               /\ op.watermarks = [p \in Inputs |-> WatermarkOf(p, received)]
               /\ op.watermark = ExpectedWatermark(received)
               /\ op.state.panes = [s \in Slots |-> ExpectedPane(s, received)]
               /\ RestoreOperator(CaptureOperator(op)) = op

\* Store::Commit rejects no snapshot the protocol has completed: the local
\* snapshots of an epoch, once all are saved, are one consistent cut.
CompleteCutIsConsistent == \A e \in Epochs : AllSaved(e) => ValidateGlobal(saved[e])

\* No legal order of sends, snapshots and deliveries trips a protocol check of
\* Initiate, Receive, Restore or the store, or makes the operator throw: the
\* next epoch is never refused as overlapping.  Only the size limit may poison
\* a node.
NeverPoisoned == \A n \in Nodes : node[n].failed \in {"no", "limit"}

\* A snapshot that was started is committed, unless its run dies or a node
\* runs out of room for in-flight messages.
SnapshotCompletes ==
    epoch > floor ~> epoch \in committed \/ epoch = floor \/ \E n \in Nodes : node[n].failed # "no"
=============================================================================
