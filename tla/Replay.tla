------------------------------- MODULE Replay -------------------------------
(***************************************************************************)
(* What the single-threaded and the partitioned job share: the records and *)
(* control records of a replayable source (source/generator.cpp), their    *)
(* effect on an operator instance, and the uninterrupted run both are      *)
(* measured against.                                                       *)
(*                                                                         *)
(* The source draws any fixed sequence of records, all of them in the      *)
(* assigner's domain and with sums in range.  Its generator counts the     *)
(* records since the last watermark and barrier; Seek re-seeds it and      *)
(* draws again up to the offset.                                           *)
(***************************************************************************)
EXTENDS CheckpointStore, Sequences, FiniteSetsExt

CONSTANTS NumRecords,         \* config.num_records
          WatermarkInterval, CheckpointInterval, MaxDisorder

ASSUME SourceAssumption ==
    /\ NumRecords \in Nat /\ MaxDisorder \in Nat
    /\ WatermarkInterval \in Nat \ {0} /\ CheckpointInterval \in Nat \ {0}

Records == [key : Keys, time : {t \in EventTimes : InDomain(t)}, value : Values]

(***************************************************************************)
(* DeterministicGenerator: the members that Next and Seek keep.            *)
(***************************************************************************)
Generators == [offset : Nat, since_watermark : 0..(WatermarkInterval - 1),
               since_checkpoint : 0..(CheckpointInterval - 1), max_time : Int]

NewGenerator == [offset |-> 0, since_watermark |-> 0, since_checkpoint |-> 0,
                 max_time |-> MinTime]

\* A counter of records since the last control record, back to 0 when one is due.
SinceLast(count, interval) == IF count + 1 >= interval THEN 0 ELSE count + 1

\* GenerateRecord and the counting behind it.
Drawn(g, r) ==
    [offset |-> g.offset + 1,
     since_watermark |-> SinceLast(g.since_watermark, WatermarkInterval),
     since_checkpoint |-> SinceLast(g.since_checkpoint, CheckpointInterval),
     max_time |-> Max({g.max_time, r.time})]

\* Next, behind the record that left the generator at g: a watermark, a barrier.
WatermarkDue(g) == g.since_watermark = 0
BarrierDue(g) == g.since_checkpoint = 0
SourceWatermark(g) == Max({0, g.max_time - MaxDisorder})

\* The generator after 0, 1, 2, ... records: from past on, up to m records.
Draw(past, records, m) ==
    LET g[n \in 1..(m + 1)] == IF n <= Len(past) THEN past[n]
                                                 ELSE Drawn(g[n - 1], records[n - 1])
    IN  g

\* Mutant: the replay leaves the counters of the control records at 0.
SeekUncounted(records, offset) ==
    [n \in 1..(offset + 1) |->
        [Draw(<<NewGenerator>>, records, offset)[n] EXCEPT !.since_watermark = 0,
                                                           !.since_checkpoint = 0]]

\* Seek: re-seed, then draw up to offset without handing anything out.
Seek(records, offset) == Draw(<<NewGenerator>>, records, offset)

\* Mutant: the offset of the last record handed out, counted from 0.
CurrentOffsetOfLast(drawn) == Max({0, drawn[Len(drawn)].offset - 1})

CurrentOffset(drawn) == drawn[Len(drawn)].offset

\* For each slot at most one result, NoPane for none.
NoResults == [s \in Slots |-> NoPane]

\* What a sink shows after emitting such results.
Overlay(results, shown) == [s \in Slots |-> IF results[s].count > 0 THEN results[s]
                                                                    ELSE shown[s]]

\* Record r, if its key is one of keys, and the watermark behind it, if the
\* generator at g sends one: from the state and watermark before, the state and
\* watermark after, and the results.
RunItems(st, wm, r, g, keys) ==
    LET added == IF r.key \in keys
                 THEN AddWithLateness(st, r.key, WindowsOf(r.time), r.value, wm)
                 ELSE st
        next == SourceWatermark(g)
    IN  IF WatermarkDue(g) /\ next > wm
        THEN [state |-> AfterWatermark(added, next), watermark |-> next,
              results |-> [s \in Slots |-> IF s \in WatermarkEmits(added, next)
                                           THEN added.panes[s] ELSE NoPane]]
        ELSE [state |-> added, watermark |-> wm, results |-> NoResults]

FlushResults(st) == [s \in Slots |-> IF s \in FlushEmits(st) THEN st.panes[s] ELSE NoPane]

(***************************************************************************)
(* The uninterrupted run: element n + 1 of a history is the state, the     *)
(* watermark, the newest results shown and the generator after n records.  *)
(***************************************************************************)
NewHistory == <<[state |-> EmptyState, watermark |-> MinTime, latest |-> NoResults,
                 source |-> NewGenerator]>>

Extend(past, records, n) ==
    LET h == past[n]
        g == Drawn(h.source, records[n])
        after == RunItems(h.state, h.watermark, records[n], g, Keys)
    IN  Append(past, [state |-> after.state, watermark |-> after.watermark,
                      latest |-> Overlay(after.results, h.latest), source |-> g])

\* What it shows once it has flushed at the end of the input.
Finished(h) == Overlay(FlushResults(h.state), h.latest)
=============================================================================
