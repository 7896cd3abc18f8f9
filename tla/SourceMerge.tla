---------------------------- MODULE SourceMerge ----------------------------
(***************************************************************************)
(* The fan-in of K channels into one stream (source/source_merge.{h,cpp}): *)
(* a round-robin over the channels, the minimum of the active channels'    *)
(* watermarks (MinWatermarkCombiner), idleness of quiet channels, K-way    *)
(* barrier alignment, and Seek, which rebuilds all of that by replaying    *)
(* the channels from their start.                                          *)
(*                                                                         *)
(* Channel i delivers the items of script[i]; a record carries no more     *)
(* than its place in the script.  Only a live channel returns an empty     *)
(* batch, the contract a replayable one is refused for breaking.  One      *)
(* step of the model is one call of ProduceOneMergedStep; Next() only      *)
(* groups steps into batches, and Seek is the same steps with their output *)
(* thrown away.                                                            *)
(***************************************************************************)
EXTENDS Integers, Sequences, FiniteSets, FiniteSetsExt

CONSTANTS NumChannels,
          IdleTimeout,  \* config_.idle_timeout, 0 for none
          Scripts,      \* the item sequences a channel may deliver
          IdleSpans,    \* the idle_spans a channel may be configured with
          MaxSeeks,     \* bound: restarts that seek
          MaxQuiet      \* bound: empty batches of live channels

Channels == 0..(NumChannels - 1)
NoWatermark == -1 \* Timestamp::min()

\* What a channel delivers.
Items == [type : {"record", "barrier"}] \cup [type : {"watermark"}, time : Nat]

ASSUME MergeAssumption ==
    /\ NumChannels \in Nat \ {0} /\ IdleTimeout \in Nat
    /\ MaxSeeks \in Nat /\ MaxQuiet \in Nat
    /\ \A s \in Scripts : s \in Seq(Items)
    /\ \A s \in IdleSpans : s \in Seq([start : Nat, length : Nat])

VARIABLES live,    \* config_.live_inputs
          script, spans,
          ch,      \* states_
          per_source, active, emitted, \* combiner_
          rr, merged_offset, epoch_closed,
          target,  \* the offset a Seek is replaying to; reached: Next() may be called
          ended,   \* Next() returned nullopt
          \* auxiliary: what the consumer has, and what the runs so far went through
          forwarded, \* the greatest watermark handed to the consumer
          cuts,      \* its watermark at the last barrier of each merged offset
          idled,     \* channels that were idle since the start of the stream
          at,        \* the merge's state after each merged record, first time round
          seeks, quiets

config   == <<live, script, spans>>
combiner == <<per_source, active, emitted>>
merge    == <<ch, combiner, rr, merged_offset, epoch_closed>>
vars     == <<config, merge, target, ended, forwarded, cuts, idled, at, seeks, quiets>>

Fresh == [cursor |-> 0, exhausted |-> FALSE, next_span |-> 1, gap_remaining |-> 0,
          data_pulled |-> 0, consecutive_empty |-> 0, idle |-> FALSE, barriers_seen |-> 0]

Init ==
    /\ live \in BOOLEAN
    /\ script \in [Channels -> Scripts] /\ spans \in [Channels -> IdleSpans]
    /\ ch = [i \in Channels |-> Fresh]
    /\ per_source = [i \in Channels |-> NoWatermark]
    /\ active = [i \in Channels |-> TRUE] /\ emitted = NoWatermark
    /\ rr = 0 /\ merged_offset = 0 /\ epoch_closed = 0
    /\ target = 0 /\ ended = FALSE
    /\ forwarded = NoWatermark /\ cuts = [n \in {0} |-> NoWatermark]
    /\ idled = {} /\ at = << >> /\ seeks = 0 /\ quiets = 0

Seeking == merged_offset < target

(***************************************************************************)
(* MinWatermarkCombiner                                                    *)
(***************************************************************************)
\* Mutant: a channel that has not reported yet does not hold the minimum.
RecomputeReported(wms, act, was) ==
    LET reported == {wms[i] : i \in {j \in Channels : act[j] /\ wms[j] # NoWatermark}}
    IN  IF reported = {} THEN was ELSE Max({was, Min(reported)})

\* The merged watermark with these watermarks and active channels.
Recompute(wms, act, was) ==
    LET held == {wms[i] : i \in {j \in Channels : act[j]}}
    IN  IF held = {} THEN was ELSE Max({was, Min(held)})

(***************************************************************************)
(* Barrier alignment                                                       *)
(***************************************************************************)
\* Mutant: a channel may run one barrier ahead of the open epoch.
IsChannelBlockedLate(i) == ch[i].barriers_seen > epoch_closed + 1

IsChannelBlocked(i) == ch[i].barriers_seen > epoch_closed

\* MaybeCloseEpoch: the closed epochs once the channels are in states chs.
MaybeCloseEpoch(chs) ==
    LET aligning == {i \in Channels : ~chs[i].exhausted /\ ~chs[i].idle}
    IN  IF aligning # {} /\ \A i \in aligning : chs[i].barriers_seen > epoch_closed
        THEN epoch_closed + 1
        ELSE epoch_closed

(***************************************************************************)
(* What every step hands to the consumer: the merged watermark when it     *)
(* advances from was, then a barrier when the epoch closes; nothing while  *)
(* seeking.                                                                *)
(***************************************************************************)
Output(was) ==
    /\ forwarded' = IF ~Seeking /\ emitted' > was THEN Max({forwarded, emitted'})
                                                  ELSE forwarded
    /\ cuts' = IF ~live /\ ~Seeking /\ epoch_closed' > epoch_closed
               THEN [n \in DOMAIN cuts \cup {merged_offset} |->
                        IF n = merged_offset THEN forwarded' ELSE cuts[n]]
               ELSE cuts

\* Mutant: an idle channel leaves the minimum, but the epoch is not re-examined.
ExcludeWithoutClose(chs, i) ==
    /\ ch' = chs
    /\ active' = [active EXCEPT ![i] = FALSE]
    /\ emitted' = Recompute(per_source, active', emitted)
    /\ epoch_closed' = epoch_closed
    /\ Output(emitted)

\* Channel i leaves the minimum and the alignment set, in states chs.
Exclude(chs, i) ==
    /\ ch' = chs
    /\ active' = [active EXCEPT ![i] = FALSE]
    /\ emitted' = Recompute(per_source, active', emitted)
    /\ epoch_closed' = MaybeCloseEpoch(chs)
    /\ Output(emitted)

MarkChannelIdle(chs, i) ==
    /\ Exclude([chs EXCEPT ![i].idle = TRUE], i)
    /\ idled' = idled \cup {i}

(***************************************************************************)
(* ProduceOneMergedStep.  The first channel from rr on that is neither     *)
(* exhausted nor blocked has its turn.                                     *)
(***************************************************************************)
Serviceable == {i \in Channels : ~ch[i].exhausted /\ ~IsChannelBlocked(i)}

HasTurn(i) == /\ i \in Serviceable
              /\ \A j \in Serviceable :
                     (i - rr + NumChannels) % NumChannels =< (j - rr + NumChannels) % NumChannels

Rotate(i) == rr' = (i + 1) % NumChannels

\* The channel's state once a span that starts here has opened.
OpenGap(i) ==
    LET c == ch[i]
    IN  IF c.gap_remaining = 0 /\ c.next_span =< Len(spans[i])
            /\ spans[i][c.next_span].start = c.data_pulled
        THEN [c EXCEPT !.gap_remaining = spans[i][c.next_span].length, !.next_span = @ + 1]
        ELSE c

\* A turn inside a gap: an empty pull, counted towards idle_timeout.
IdleTick(i) ==
    LET c == OpenGap(i)
        ticked == [ch EXCEPT ![i] = [c EXCEPT !.gap_remaining = @ - 1,
                                              !.consecutive_empty = @ + 1]]
        trips == IdleTimeout > 0 /\ ~c.idle /\ c.consecutive_empty + 1 >= IdleTimeout
    IN  /\ c.gap_remaining > 0
        /\ Rotate(i)
        /\ \/ trips /\ MarkChannelIdle(ticked, i)
           \/ ~trips /\ ch' = ticked /\ UNCHANGED <<active, emitted, epoch_closed, forwarded,
                                                     cuts, idled>>
        /\ UNCHANGED <<per_source, merged_offset, at, quiets>>

\* Mutant: the channel is excluded, but not marked exhausted.
ExhaustUnmarked(i) ==
    LET c == OpenGap(i)
    IN  /\ c.gap_remaining = 0 /\ c.cursor = Len(script[i])
        /\ Exclude([ch EXCEPT ![i] = c], i)
        /\ UNCHANGED <<per_source, rr, merged_offset, idled, at, quiets>>

\* The channel's source is at its end: rr stays.
Exhaust(i) ==
    LET c == OpenGap(i)
    IN  /\ c.gap_remaining = 0 /\ c.cursor = Len(script[i])
        /\ Exclude([ch EXCEPT ![i] = [c EXCEPT !.exhausted = TRUE]], i)
        /\ UNCHANGED <<per_source, rr, merged_offset, idled, at, quiets>>

\* A live channel has nothing to deliver; idle_timeout_wall may have passed.
Quiet(i) ==
    LET c == OpenGap(i)
        same == [ch EXCEPT ![i] = c]
    IN  /\ live /\ quiets < MaxQuiet /\ c.gap_remaining = 0
        /\ quiets' = quiets + 1
        /\ Rotate(i)
        /\ \/ ~c.idle /\ MarkChannelIdle(same, i)
           \/ ch' = same /\ UNCHANGED <<active, emitted, epoch_closed, forwarded, cuts, idled>>
        /\ UNCHANGED <<per_source, merged_offset, at>>

\* Channel i after its next item was pulled: no longer idle.
Pulled(i) == [OpenGap(i) EXCEPT !.cursor = @ + 1, !.idle = FALSE, !.consecutive_empty = 0]
Item(i) == script[i][ch[i].cursor + 1]
CanDeliver(i, type) ==
    /\ OpenGap(i).gap_remaining = 0
    /\ ch[i].cursor < Len(script[i]) /\ Item(i).type = type

\* combiner_.MarkActive of a channel that resumes; what it returns is dropped.
Resumed(i) == [active EXCEPT ![i] = TRUE]
ResumedEmitted(i) == IF ch[i].idle THEN Recompute(per_source, Resumed(i), emitted) ELSE emitted

\* The state after record n, the first time it is delivered: only a replayable
\* merge comes back to it.
Remember(n) == at' = IF ~live /\ n = Len(at) + 1 THEN Append(at, merge') ELSE at

DeliverRecord(i) ==
    /\ CanDeliver(i, "record")
    /\ Rotate(i)
    /\ ch' = [ch EXCEPT ![i] = [Pulled(i) EXCEPT !.data_pulled = @ + 1]]
    /\ active' = Resumed(i) /\ emitted' = ResumedEmitted(i)
    /\ merged_offset' = merged_offset + 1
    /\ UNCHANGED <<per_source, epoch_closed, forwarded, cuts, idled, quiets>>
    /\ Remember(merged_offset')

DeliverWatermark(i) ==
    /\ CanDeliver(i, "watermark")
    /\ Rotate(i)
    /\ ch' = [ch EXCEPT ![i] = Pulled(i)]
    /\ active' = Resumed(i)
    /\ per_source' = [per_source EXCEPT ![i] = Max({@, Item(i).time})]
    /\ emitted' = Recompute(per_source', active', ResumedEmitted(i))
    /\ UNCHANGED <<merged_offset, epoch_closed, idled, at, quiets>>
    /\ Output(ResumedEmitted(i))

DeliverBarrier(i) ==
    LET arrived == [ch EXCEPT ![i] = [Pulled(i) EXCEPT !.barriers_seen = @ + 1]]
    IN  /\ CanDeliver(i, "barrier")
        /\ Rotate(i)
        /\ ch' = arrived
        /\ active' = Resumed(i) /\ emitted' = ResumedEmitted(i)
        /\ epoch_closed' = MaybeCloseEpoch(arrived)
        /\ UNCHANGED <<per_source, merged_offset, idled, at, quiets>>
        /\ Output(emitted')

ProduceOneMergedStep ==
    /\ ~ended
    /\ \E i \in Channels :
           /\ HasTurn(i)
           /\ \/ IdleTick(i) \/ Exhaust(i) \/ Quiet(i)
              \/ DeliverRecord(i) \/ DeliverWatermark(i) \/ DeliverBarrier(i)
    /\ UNCHANGED <<config, target, ended, seeks>>

\* No channel can be serviced: Next() returns nullopt (a Seek just stops), but a
\* live merge with a channel left only an empty batch, over and over.
ReturnNullopt ==
    /\ ~ended /\ Serviceable = {} /\ (live => \A i \in Channels : ch[i].exhausted)
    /\ ended' = TRUE
    /\ UNCHANGED <<config, merge, target, forwarded, cuts, idled, at, seeks, quiets>>

(***************************************************************************)
(* A new incarnation restores the consumer from a checkpoint cut at the    *)
(* merged offset n and seeks there.                                        *)
(***************************************************************************)
\* Mutant: the round-robin cursor is not reset.
ResetProgressKeepingTurn ==
    /\ ch' = [i \in Channels |-> Fresh]
    /\ per_source' = [i \in Channels |-> NoWatermark]
    /\ active' = [i \in Channels |-> TRUE] /\ emitted' = NoWatermark
    /\ rr' = rr /\ merged_offset' = 0 /\ epoch_closed' = 0

ResetProgress ==
    /\ ch' = [i \in Channels |-> Fresh]
    /\ per_source' = [i \in Channels |-> NoWatermark]
    /\ active' = [i \in Channels |-> TRUE] /\ emitted' = NoWatermark
    /\ rr' = 0 /\ merged_offset' = 0 /\ epoch_closed' = 0

Seek ==
    /\ ~live /\ seeks < MaxSeeks /\ merged_offset > 0
    /\ \E n \in DOMAIN cuts :
           /\ ResetProgress
           /\ target' = n /\ forwarded' = cuts[n]
    /\ ended' = FALSE /\ idled' = {} /\ seeks' = seeks + 1
    /\ UNCHANGED <<config, cuts, at, quiets>>

Next == ProduceOneMergedStep \/ ReturnNullopt \/ Seek

Fairness == WF_vars(ProduceOneMergedStep) /\ WF_vars(ReturnNullopt)
Spec == Init /\ [][Next]_vars /\ Fairness

-----------------------------------------------------------------------------
Watermark(i) == {script[i][n].time : n \in {k \in 1..ch[i].cursor :
                                                script[i][k].type = "watermark"}}
\* The records among the first upto[i] items of every channel i.
RecordsIn(upto) ==
    UNION {{i} \X {n \in 1..upto[i] : script[i][n].type = "record"} : i \in Channels}

\* The types of the merge's variables; a channel is never excluded from the
\* minimum without being idle or exhausted, nor the other way round.
TypeOK ==
    /\ rr \in Channels /\ merged_offset \in Nat /\ epoch_closed \in Nat
    /\ target \in Nat /\ ended \in BOOLEAN
    /\ emitted >= NoWatermark /\ forwarded >= NoWatermark
    /\ \A i \in Channels :
           /\ ch[i].cursor \in 0..Len(script[i]) /\ ch[i].gap_remaining \in Nat
           /\ ch[i].barriers_seen =< epoch_closed + 1
           /\ active[i] <=> ~(ch[i].idle \/ ch[i].exhausted)

\* source_merge.h's promise that alignment never deadlocks: when the merge has
\* nothing left to service, whether Next() then says that the stream is over or
\* that there is no data yet, every channel is exhausted and every record went
\* out.  Channels all blocked on each other would end or hang the stream.
EndsWhole ==
    ended \/ Serviceable = {} =>
        /\ \A i \in Channels : ch[i].exhausted
        /\ merged_offset = Cardinality(RecordsIn([i \in Channels |-> Len(script[i])]))

\* A merged barrier is an aligned cut: each channel in the alignment set is
\* exactly at its barrier of that epoch, none has sent a record past it, not
\* even one that was idle for some epochs and caught up.
AlignedCut ==
    [][epoch_closed' = epoch_closed + 1 =>
           \A i \in Channels : ch'[i].idle \/ ch'[i].exhausted
                               \/ ch'[i].barriers_seen = epoch_closed']_vars

\* The merge makes no record late: the consumer gets a record of a channel
\* that was never idle only with a watermark that channel itself has
\* declared, also when it restarted from a checkpoint and the merge replays.
NoSpuriousLateness ==
    [][\A i \in Channels :
           merged_offset' = merged_offset + 1 /\ ~Seeking /\ i \notin idled
               /\ ch'[i].data_pulled = ch[i].data_pulled + 1
           => forwarded =< Max(Watermark(i) \cup {NoWatermark})]_vars

\* Seek's comment: replaying reproduces the exact internal state a run that
\* did not seek holds at the same offset (cursors, combiner, turn, epochs).
SeekExact ==
    [][merged_offset' = merged_offset + 1 /\ ~live => merge' = at'[merged_offset']]_vars

\* A replayable merge always gets to its end, whatever is idle or blocked.
Drains == ~live ~> ended

\* MinWatermarkCombiner::Current: the last emitted merged watermark.  What the
\* combiner calls emitted is what the consumer was given.
CurrentIsEmitted == seeks = 0 => forwarded = emitted
=============================================================================
