--------------------------- MODULE WindowOperator ---------------------------
(***************************************************************************)
(* The application of the global snapshots (app/snapshot/main.cpp):        *)
(* producers that send records and watermarks from a cursor, and an        *)
(* aggregator whose WindowOperator (snapshot/window_operator.cpp) combines *)
(* their watermarks and feeds one KeyedProcessor.                          *)
(*                                                                         *)
(* This module holds no variables: the application of a node is a record,  *)
(* and the callbacks Deliver and Capture that a Participant is given, and  *)
(* Restore, are operators on it.                                           *)
(***************************************************************************)
EXTENDS KeyedWindowState, Sequences, FiniteSetsExt, Functions

CONSTANTS Aggregator, \* the node with the operator
          Inputs,     \* its inputs
          Payloads    \* Payloads[p]: what input p sends, in order

Data(key, time, value) == [kind |-> "data", key |-> key, time |-> time, value |-> value]
Watermark(time) == [kind |-> "watermark", time |-> time]

IsData(m) == m.kind = "data"

\* What Data and Watermark encode.
Messages == [kind : {"data"}, key : Keys, time : EventTimes, value : Values]
              \cup [kind : {"watermark"}, time : {t \in Watermarks : t >= MinTime}]

\* An operator without inputs is refused.
ASSUME InputAssumption ==
    Inputs # {} /\ \A p \in Inputs : Payloads[p] \in Seq(Messages)

\* Nothing an input sends is past its deadline by that input's own watermarks.
ASSUME OnTimeAssumption ==
    \A p \in Inputs : \A i, j \in DOMAIN Payloads[p] :
        i < j /\ ~IsData(Payloads[p][i]) =>
            IF IsData(Payloads[p][j])
            THEN \A w \in WindowsOf(Payloads[p][j].time) : Payloads[p][i].time < Deadline(w)
            ELSE Payloads[p][i].time =< Payloads[p][j].time

Thrown == [thrown |-> TRUE] \* in place of a result: an exception

-----------------------------------------------------------------------------
FreshOperator == [records |-> 0, watermarks |-> [p \in Inputs |-> MinTime],
                  watermark |-> MinTime, state |-> EmptyState]

Combined(watermarks) == Min(Range(watermarks))

ApplyData(op, r) ==
    LET ws == WindowsOf(r.time)
    IN  IF InDomain(r.time) /\ CanAddTo(op.state, r.key, ws, r.value, op.watermark)
        THEN [op EXCEPT !.state = AddWithLateness(@, r.key, ws, r.value, op.watermark),
                        !.records = @ + 1]
        ELSE Thrown

ApplyWatermark(op, p, wm) ==
    LET watermarks == [op.watermarks EXCEPT ![p] = wm]
        minimum == Combined(watermarks)
        combined == [op EXCEPT !.watermarks = watermarks]
    IN  IF wm < op.watermarks[p] THEN Thrown
        ELSE IF minimum > op.watermark
             THEN [combined EXCEPT !.watermark = minimum, !.state = AfterWatermark(@, minimum)]
             ELSE combined

Apply(op, p, m) == IF IsData(m) THEN ApplyData(op, m) ELSE ApplyWatermark(op, p, m.time)

\* Capture: the configuration, the combiner and the lists of panes and windows.
Config == <<Size, Slide, AllowedLateness>>
CaptureOperator(op) ==
    [config |-> Config, records |-> op.records, watermark |-> op.watermark,
     watermarks |-> {<<p, op.watermarks[p]>> : p \in Inputs},
     panes |-> {<<s, op.state.panes[s]>> : s \in LiveSlots(op.state)},
     fired |-> op.state.fired, refired |-> op.state.refired]

\* The value that a list of pairs gives to x.
ValueIn(pairs, x) == (CHOOSE e \in pairs : e[1] = x)[2]
IsFunctional(pairs) == \A e, f \in pairs : e[1] = f[1] => e = f

\* Restore's checks of what it has read.
Restorable(saved) ==
    /\ saved.config = Config
    /\ IsFunctional(saved.watermarks) /\ {e[1] : e \in saved.watermarks} = Inputs
    /\ saved.watermark = Min({e[2] : e \in saved.watermarks})
    /\ IsFunctional(saved.panes) /\ \A e \in saved.panes : e[2].count > 0
    /\ \A w \in {e[1][1] : e \in saved.panes} \cup saved.fired \cup saved.refired :
          w.start >= 0 /\ w.end > w.start
    /\ saved.refired \subseteq saved.fired

\* Mutant: every input gets the combined watermark back.
RestoredWatermarksAllMinimum(saved) == [p \in Inputs |-> saved.watermark]

RestoredWatermarks(saved) == [p \in Inputs |-> ValueIn(saved.watermarks, p)]

RestoreOperator(saved) ==
    IF ~Restorable(saved) THEN Thrown
    ELSE [records |-> saved.records, watermark |-> saved.watermark,
          watermarks |-> RestoredWatermarks(saved),
          state |-> [panes |-> [s \in Slots |-> IF \E e \in saved.panes : e[1] = s
                                                THEN ValueIn(saved.panes, s) ELSE NoPane],
                     fired |-> saved.fired, refired |-> saved.refired]]

-----------------------------------------------------------------------------
(***************************************************************************)
(* A reference for the operator: what the first received[p] messages of    *)
(* every input p amount to, in whatever order they were interleaved.       *)
(***************************************************************************)
Received(received) == UNION {{<<p, i>> : i \in 1..received[p]} : p \in Inputs}
MessageAt(e) == Payloads[e[1]][e[2]]

RecordsAmong(received) == {e \in Received(received) : IsData(MessageAt(e))}

WatermarkOf(p, received) ==
    Max({MinTime} \cup {MessageAt(e).time : e \in {f \in Received(received) :
                                                     f[1] = p /\ ~IsData(MessageAt(f))}})

ExpectedWatermark(received) == Min({WatermarkOf(p, received) : p \in Inputs})

RecordsFor(s, received) == {e \in RecordsAmong(received) :
                               /\ MessageAt(e).key = s[2]
                               /\ s[1] \in WindowsOf(MessageAt(e).time)}
SumOf(rs) == MapThenSumSet(LAMBDA e : MessageAt(e).value, rs)

ExpectedPane(s, received) ==
    IF Deadline(s[1]) =< ExpectedWatermark(received) THEN NoPane
    ELSE [sum |-> SumOf(RecordsFor(s, received)),
          count |-> Cardinality(RecordsFor(s, received))]

\* The assigner takes every record, and no pane overflows, however many
\* messages of each input have been received.
Prefixes == {received \in [Inputs -> UNION {0..Len(Payloads[p]) : p \in Inputs}] :
                \A p \in Inputs : received[p] =< Len(Payloads[p])}
Acceptable ==
    /\ \A p \in Inputs : \A i \in DOMAIN Payloads[p] :
          IsData(Payloads[p][i]) => InDomain(Payloads[p][i].time)
    /\ \A received \in Prefixes : \A s \in Slots :
          SumOf(RecordsFor(s, received)) \in MinSum..MaxSum

-----------------------------------------------------------------------------
(***************************************************************************)
(* Child: the callbacks of a producer and of the aggregator.               *)
(***************************************************************************)
FreshApp(n) == IF n = Aggregator THEN FreshOperator ELSE [cursor |-> 0, ack |-> FALSE]

Deliver(n, app, p, payload) ==
    IF n = Aggregator THEN Apply(app, p, payload)
    ELSE IF payload = "ack" THEN [app EXCEPT !.ack = TRUE] ELSE Thrown

\* What a node sends next, and its application after that.
Payload(n, app) == IF n = Aggregator THEN "ack" ELSE Payloads[n][app.cursor + 1]
AfterSend(n, app) == IF n = Aggregator THEN app ELSE [app EXCEPT !.cursor = @ + 1]

Capture(n, app) == IF n = Aggregator THEN CaptureOperator(app) ELSE app.cursor

RestoreApp(n, saved) ==
    IF n = Aggregator THEN RestoreOperator(saved)
    ELSE IF saved =< Len(Payloads[n]) THEN [cursor |-> saved, ack |-> FALSE] ELSE Thrown

\* The operator has every record, and the watermark after the last.
HasAll(op) == LET all == [p \in Inputs |-> Len(Payloads[p])]
              IN  /\ op.records = Cardinality(RecordsAmong(all))
                  /\ op.watermark = ExpectedWatermark(all)
=============================================================================
