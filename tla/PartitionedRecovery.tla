------------------------- MODULE PartitionedRecovery -------------------------
(***************************************************************************)
(* The partitioned job (engine/partitioned_pipeline.cpp) as its disk sees  *)
(* it: N workers that consume one routed stream at their own pace, each    *)
(* with its own operator instance and checkpoint directory, the tracker    *)
(* that combines their checkpoints and prunes old ones                     *)
(* (checkpoint/distributed_checkpoint.cpp), the reported progress, and     *)
(* recovery from the highest complete checkpoint.  The reference is the    *)
(* uninterrupted single-threaded run over all keys.                        *)
(*                                                                         *)
(* Worker p has consumed the items up to worker[p].applied of the router's *)
(* stream; records of other partitions are not in its queue.  A thread     *)
(* that throws cancels the others wherever they are, which for the disk is *)
(* a crash.  The temporary file of a checkpoint is never read by           *)
(* ValidOffsets, so a write is the rename that publishes it.               *)
(***************************************************************************)
EXTENDS Replay

CONSTANTS Partitions,         \* worker indices
          PartitionForKey,    \* key -> partition (engine/partition_hash.h)
          CheckpointRetention,
          MaxFailures, MaxStops

ASSUME PartitionAssumption ==
    /\ IsFiniteSet(Partitions) /\ Partitions # {}
    /\ PartitionForKey \in [Keys -> Partitions]
    /\ CheckpointRetention \in Nat /\ MaxFailures \in Nat /\ MaxStops \in Nat

VARIABLES mode,      \* "down", "running", or how Run ended
          routed,    \* records routed
          source,    \* *source_: the generator after each of them
          ended,     \* the sentinel sent: "no", "eos" or "suspend"
          worker,    \* per partition: instance and progress through its queue
          latest_,   \* tracker: newest offset each partition reported
          complete_, \* tracker: complete offsets it retains, ascending
          mu_,       \* tracker: the worker holding its mutex, or None
          reported,  \* control_->last_complete_checkpoint
          files,     \* per partition, the checkpoint directory
          latest,    \* newest result of each slot in the sinks
          log, history, failures, stops

tracker == <<latest_, complete_, mu_>>
disk    == <<files, latest>>
ghost   == <<log, history>>
bounds  == <<failures, stops>>
vars    == <<mode, routed, source, ended, worker, tracker, reported, disk, ghost, bounds>>

None == -1
KeysOf(p) == {k \in Keys : PartitionForKey[k] = p}
SlotsOf(p) == {s \in Slots : s[2] \in KeysOf(p)}

\* A worker as it is built, or restored at an offset.
NewWorker(st, wm, offset) ==
    [state |-> st, watermark |-> wm, applied |-> offset, outbox |-> NoResults,
     pc |-> "run", offset |-> None, last |-> FALSE, seen |-> None]

FreshWorkers == [p \in Partitions |-> NewWorker(EmptyState, MinTime, 0)]
NoReports == [p \in Partitions |-> None]

Init ==
    /\ mode = "down" /\ routed = 0 /\ source = <<NewGenerator>> /\ ended = "no"
    /\ worker = FreshWorkers
    /\ latest_ = NoReports /\ complete_ = << >> /\ mu_ = None
    /\ reported = None
    /\ files = [p \in Partitions |-> {}] /\ latest = NoResults
    /\ log = << >> /\ history = NewHistory
    /\ failures = 0 /\ stops = 0

(***************************************************************************)
(* Run, up to starting the threads: every partition restores its own file  *)
(* at the highest complete offset, the tracker starts from that offset.    *)
(***************************************************************************)
\* Mutant: each partition restores the newest file of its own directory.
RestorePointLocal(p, o) == CHOOSE f \in LoadLatest(files[p]) : TRUE

\* CheckpointReader::LoadOffset.
RestorePoint(p, o) == CHOOSE f \in files[p] : Loadable(f) /\ f.offset = o

Start ==
    /\ mode \in {"down", "suspended"}
    /\ mode' = "running" /\ ended' = "no"
    /\ latest_' = NoReports /\ mu_' = None
    /\ IF HighestComplete(files) = {}
       THEN /\ worker' = FreshWorkers
            /\ routed' = 0 /\ source' = <<NewGenerator>>
            /\ complete_' = << >> /\ reported' = None
       ELSE \E o \in HighestComplete(files) :
              /\ worker' = [p \in Partitions |->
                    LET data == RestorePoint(p, o).data
                    IN  NewWorker(RestoreState(data), data.watermark, o)]
              /\ routed' = o /\ source' = Seek(log, o)
              /\ complete_' = <<o>> /\ reported' = o
    /\ UNCHANGED <<disk, ghost, bounds>>

(***************************************************************************)
(* The router.                                                             *)
(***************************************************************************)
\* A batch of one record and its control records, drawn or replayed.
Route ==
    /\ mode = "running" /\ ended = "no" /\ routed < NumRecords
    /\ routed' = routed + 1
    /\ IF routed < Len(log)
       THEN UNCHANGED ghost
       ELSE \E r \in Records : /\ log' = Append(log, r)
                               /\ history' = Extend(history, log', routed + 1)
    /\ source' = Draw(source, log', routed + 1)
    /\ UNCHANGED <<mode, ended, worker, tracker, reported, disk, bounds>>

\* The source is exhausted: EndOfStream to every worker.
EndOfInput ==
    /\ mode = "running" /\ ended = "no" /\ routed = NumRecords
    /\ ended' = "eos"
    /\ UNCHANGED <<mode, routed, source, worker, tracker, reported, disk, ghost,
                   bounds>>

\* The router sees a stop request: its barrier and sentinel are sent.
StopRouting(how) ==
    /\ mode = "running" /\ ended = "no" /\ stops < MaxStops
    /\ ended' = IF how = "suspend" THEN "suspend" ELSE "eos"
    /\ stops' = stops + 1
    /\ UNCHANGED <<mode, routed, source, worker, tracker, reported, disk, ghost,
                   failures>>

-----------------------------------------------------------------------------
(***************************************************************************)
(* Worker p.                                                               *)
(***************************************************************************)
\* The record at the next offset if it is p's, the watermark if due, and then
\* the barrier if due.
ApplyNext(p) ==
    /\ mode = "running"
    /\ worker[p].pc = "run" /\ worker[p].applied < routed /\ worker[p].outbox = NoResults
    /\ LET n == worker[p].applied + 1
           g == source[n + 1]
           after == RunItems(worker[p].state, worker[p].watermark, log[n], g, KeysOf(p))
       IN  worker' = [worker EXCEPT ![p] =
              [@ EXCEPT !.applied = n, !.state = after.state, !.watermark = after.watermark,
                        !.outbox = after.results,
                        !.pc = IF BarrierDue(g) THEN "due" ELSE "run",
                        !.offset = IF BarrierDue(g) THEN g.offset ELSE None]]
    /\ UNCHANGED <<mode, routed, source, ended, tracker, reported, disk, ghost, bounds>>

\* One result reaches the durable sink.
EmitResult(p, s) ==
    /\ mode = "running"
    /\ worker[p].outbox[s].count > 0
    /\ latest' = [latest EXCEPT ![s] = worker[p].outbox[s]]
    /\ worker' = [worker EXCEPT ![p].outbox[s] = NoPane]
    /\ UNCHANGED <<mode, routed, source, ended, tracker, reported, files, ghost,
                   bounds>>

Drained(p) == /\ mode = "running" /\ worker[p].pc = "run"
              /\ worker[p].applied = routed /\ worker[p].outbox = NoResults

\* The barrier the router sends before a Suspend, stamped with the offset the
\* source gives it, which it no longer calls.
SuspendBarrier(p) ==
    /\ ended = "suspend" /\ Drained(p)
    /\ worker' = [worker EXCEPT ![p].pc = "due", ![p].offset = CurrentOffset(source),
                                ![p].last = TRUE]
    /\ UNCHANGED <<mode, routed, source, ended, tracker, reported, disk, ghost, bounds>>

\* KeyedProcessor's barrier: the sink is flushed, the file published.
WriteCheckpoint(p) ==
    /\ worker[p].pc = "due" /\ worker[p].outbox = NoResults
    /\ files' = [files EXCEPT ![p] =
                    Publish(@, Capture(worker[p].state, worker[p].watermark, worker[p].offset))]
    /\ worker' = [worker EXCEPT ![p].pc = "written"]
    /\ UNCHANGED <<mode, routed, source, ended, tracker, reported, latest, ghost,
                   bounds>>

\* The minimum of the offsets reported: OnPartitionCheckpoint's candidate.
\* Mutant: the offset just reported, whatever the other partitions have.
CandidateOwn(reports) == Max({reports[p] : p \in Partitions})

Candidate(reports) == Min({reports[p] : p \in Partitions})

\* complete_ after pop_front down to the retention (1 when nothing is deleted).
Retained(offsets) ==
    LET keep == IF CheckpointRetention = 0 THEN 1 ELSE CheckpointRetention
    IN  IF Len(offsets) > keep
        THEN SubSeq(offsets, Len(offsets) - keep + 1, Len(offsets)) ELSE offsets

\* OnPartitionCheckpoint up to the pruning, which keeps the mutex.
Report(p) ==
    /\ worker[p].pc = "written" /\ mu_ = None
    /\ latest_' = [latest_ EXCEPT ![p] = worker[p].offset]
    /\ IF /\ \A q \in Partitions : latest_'[q] # None
          /\ complete_ = << >> \/ Candidate(latest_') > complete_[Len(complete_)]
       THEN /\ complete_' = Retained(Append(complete_, Candidate(latest_')))
            /\ IF CheckpointRetention > 0
               THEN mu_' = p /\ worker' = [worker EXCEPT ![p].pc = "pruning"]
               ELSE mu_' = None /\ worker' = [worker EXCEPT ![p].pc = "reported"]
       ELSE /\ worker' = [worker EXCEPT ![p].pc = "reported"]
            /\ UNCHANGED <<complete_, mu_>>
    /\ UNCHANGED <<mode, routed, source, ended, reported, disk, ghost, bounds>>

\* PruneBelowLocked(complete_.front()): the files it removes, one at a time.
Prunable == {pf \in UNION {{q} \X files[q] : q \in Partitions} : pf[2].offset < complete_[1]}

PruneOne(p) ==
    /\ worker[p].pc = "pruning"
    /\ \E pf \in Prunable : files' = [files EXCEPT ![pf[1]] = @ \ {pf[2]}]
    /\ UNCHANGED <<mode, routed, source, ended, worker, tracker, reported, latest,
                   ghost, bounds>>

PruneDone(p) ==
    /\ worker[p].pc = "pruning" /\ Prunable = {}
    /\ mu_' = None
    /\ worker' = [worker EXCEPT ![p].pc = "reported"]
    /\ UNCHANGED <<mode, routed, source, ended, latest_, complete_, reported, disk,
                   ghost, bounds>>

\* The listener reads LastComplete() under the mutex ...
ReadComplete(p) ==
    /\ worker[p].pc = "reported" /\ mu_ = None
    /\ worker' = [worker EXCEPT ![p].pc = "store",
                                ![p].seen = IF complete_ = << >> THEN None
                                            ELSE complete_[Len(complete_)]]
    /\ UNCHANGED <<mode, routed, source, ended, tracker, reported, disk, ghost, bounds>>

\* ... and stores it without; a suspended worker then exits.
StoreComplete(p) ==
    /\ worker[p].pc = "store"
    /\ reported' = IF worker[p].seen = None THEN reported ELSE worker[p].seen
    /\ worker' = [worker EXCEPT
          ![p].pc = IF worker[p].last THEN "exited" ELSE "run",
          ![p].offset = None, ![p].seen = None]
    /\ UNCHANGED <<mode, routed, source, ended, tracker, disk, ghost, bounds>>

\* FinalFlush after an EndOfStream.
BeginFinalFlush(p) ==
    /\ ended = "eos" /\ Drained(p)
    /\ worker' = [worker EXCEPT ![p].pc = "flushing",
                                ![p].outbox = FlushResults(worker[p].state),
                                ![p].state = AfterFlush(worker[p].state)]
    /\ UNCHANGED <<mode, routed, source, ended, tracker, reported, disk, ghost, bounds>>

FlushDone(p) ==
    /\ worker[p].pc = "flushing" /\ worker[p].outbox = NoResults
    /\ worker' = [worker EXCEPT ![p].pc = "exited"]
    /\ UNCHANGED <<mode, routed, source, ended, tracker, reported, disk, ghost, bounds>>

\* All threads are joined and Run returns.
Return ==
    /\ mode = "running" /\ \A p \in Partitions : worker[p].pc = "exited"
    /\ mode' = CASE ended = "suspend" -> "suspended"
                 [] ended = "eos" /\ routed = NumRecords -> "done"
                 [] OTHER -> "stopped"
    /\ UNCHANGED <<routed, source, ended, worker, tracker, reported, disk, ghost,
                   bounds>>

\* The process dies, or a thread throws and the job is torn down.
Crash ==
    /\ mode = "running" /\ failures < MaxFailures
    /\ failures' = failures + 1
    /\ mode' = "down" /\ routed' = 0 /\ source' = <<NewGenerator>> /\ ended' = "no"
    /\ worker' = FreshWorkers
    /\ latest_' = NoReports /\ complete_' = << >> /\ mu_' = None /\ reported' = None
    /\ UNCHANGED <<disk, ghost, stops>>

WorkerStep(p) ==
    \/ ApplyNext(p) \/ (\E s \in Slots : EmitResult(p, s))
    \/ SuspendBarrier(p) \/ WriteCheckpoint(p)
    \/ Report(p) \/ PruneOne(p) \/ PruneDone(p) \/ ReadComplete(p) \/ StoreComplete(p)
    \/ BeginFinalFlush(p) \/ FlushDone(p)

Next == \/ Start
        \/ Route
        \/ EndOfInput
        \/ \E how \in {"final", "suspend"} : StopRouting(how)
        \/ \E p \in Partitions : WorkerStep(p)
        \/ Return
        \/ Crash

Spec == Init /\ [][Next]_vars

-----------------------------------------------------------------------------
PCs == {"run", "due", "written", "pruning", "reported", "store", "flushing", "exited"}

(***************************************************************************)
(* Types of the variables.                                                 *)
(***************************************************************************)
TypeOK ==
    /\ mode \in {"down", "running", "suspended", "stopped", "done"}
    /\ routed \in 0..NumRecords /\ source \in Seq(Generators)
    /\ ended \in {"no", "eos", "suspend"}
    /\ \A p \in Partitions :
          /\ worker[p].state \in States /\ worker[p].watermark \in Int
          /\ worker[p].applied \in 0..routed /\ worker[p].outbox \in [Slots -> Panes]
          /\ worker[p].pc \in PCs /\ worker[p].last \in BOOLEAN
          /\ worker[p].offset \in Nat \cup {None} /\ worker[p].seen \in Nat \cup {None}
    /\ latest_ \in [Partitions -> Nat \cup {None}]
    /\ complete_ \in Seq(Nat) /\ mu_ \in Partitions \cup {None}
    /\ reported \in Nat \cup {None}
    /\ \A p \in Partitions : \A f \in files[p] : f.offset \in Nat /\ f.data.offset = f.offset
    /\ latest \in [Slots -> Panes]
    /\ log \in Seq(Records) /\ Len(history) = Len(log) + 1
    /\ failures \in 0..MaxFailures /\ stops \in 0..MaxStops

After(n) == history[n + 1]

ShardOf(st, p) == [s \in Slots |-> IF s \in SlotsOf(p) THEN st.panes[s] ELSE NoPane]

(***************************************************************************)
(* Partitioning is invisible: at every offset, the panes of a worker are   *)
(* those of the single-threaded run for its keys, and its watermark is the *)
(* global one, also after recovery.  The sets of fired windows may differ: *)
(* a window fired for another partition's keys is not fired here           *)
(* (PartitionForKey, the router's broadcast of control records).           *)
(***************************************************************************)
ShardsAgree ==
    \A p \in Partitions :
        /\ mode = "running" /\ worker[p].pc \notin {"flushing", "exited"} =>
              /\ worker[p].state.panes = ShardOf(After(worker[p].applied).state, p)
              /\ worker[p].watermark = After(worker[p].applied).watermark
        /\ \A f \in files[p] :
              RestoreState(f.data).panes = ShardOf(After(f.offset).state, p)

(***************************************************************************)
(* What the tracker calls complete can be restored: pruning and the other  *)
(* partitions' progress never take a file of a retained complete           *)
(* checkpoint away (OnPartitionCheckpoint, PruneBelowLocked).              *)
(***************************************************************************)
CompleteRestorable ==
    mode = "running" =>
        \A i \in 1..Len(complete_) : complete_[i] \in CommonOffsets(files)

ResumeOffset == Max({0} \cup CommonOffsets(files))
(***************************************************************************)
(* The job never destroys its last recovery cut: the offset a restart      *)
(* would resume from only grows, through crashes in the middle of writing, *)
(* reporting and pruning (distributed_checkpoint.h, "the last complete     *)
(* common cut always survives").                                           *)
(***************************************************************************)
ResumeAdvances == [][ResumeOffset' >= ResumeOffset]_vars

(***************************************************************************)
(* A job that reached the end of its input leaves in the sinks the result  *)
(* an uninterrupted run ends with (docs/recovery.md:118,                   *)
(* DurableFileSink::ReadLatest).                                           *)
(***************************************************************************)
CompletesExact == mode = "done" => latest = Finished(After(NumRecords))

(***************************************************************************)
(* Once no worker is inside its checkpoint listener, the reported progress *)
(* is the newest complete checkpoint (engine/job_control.h:75,             *)
(* PartitionedPipeline::Run's listener).                                   *)
(***************************************************************************)
ReportedNewest ==
    mode = "running" /\ complete_ # << >>
      /\ (\A p \in Partitions : worker[p].pc \in {"run", "due", "flushing", "exited"})
        => reported = complete_[Len(complete_)]
=============================================================================
