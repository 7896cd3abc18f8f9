------------------------------ MODULE Pipeline ------------------------------
(***************************************************************************)
(* The single-threaded job (engine/pipeline.cpp) with everything it drives *)
(* that outlives it: a replayable source (source/generator.cpp), the       *)
(* checkpoint directory with the job manifest                              *)
(* (checkpoint/job_manifest.cpp), and a durable sink seen through          *)
(* DurableFileSink::ReadLatest.  The process may crash between any two     *)
(* effects on disk, or in the middle of a row, and is restarted;           *)
(* checkpoint writes may fail; files may rot; the machine may lose power,  *)
(* and with it any change of the directory that was not synced.  A job of  *)
(* another configuration may be started on the same directory.             *)
(*                                                                         *)
(* log holds the part of the source's records drawn so far, which Seek     *)
(* replays; history is an auxiliary variable, the uninterrupted run.       *)
(*                                                                         *)
(* Steps that only touch memory are merged with the one before them: a     *)
(* record and the watermark behind it are one step, the results they fire  *)
(* wait in outbox and reach the sink one by one.                           *)
(***************************************************************************)
EXTENDS Replay

CONSTANTS BatchSize,          \* config.batch_size
          MaxFailures,        \* bound on crashes and failed writes
          MaxCorruptions,     \* bound on files that rot
          MaxStops,           \* bound on stop requests
          MaxForeignStarts    \* bound on starts with another configuration

ASSUME PipelineAssumption ==
    /\ BatchSize \in Nat \ {0}
    /\ MaxFailures \in Nat /\ MaxCorruptions \in Nat /\ MaxStops \in Nat
    /\ MaxForeignStarts \in Nat

VARIABLES mode,       \* "down" between processes; what Run is doing; how it ended
          pos,        \* records pulled from the source
          source,     \* *source_: the generator after each of them
          applied,    \* records applied to state_
          state, watermark,
          outbox,     \* results fired, not yet passed to sink_->Emit
          writing,    \* WriteCheckpoint in progress: its phase and offset
          stop,       \* control_->stop
          reported,   \* Progress().last_complete_checkpoint
          files, tmp, \* the checkpoint directory: *.ckpt and *.tmp
          latest,     \* the durable sink's newest result for each slot
          torn,       \* the sink's file ends in an incomplete record
          job,        \* configuration of the process: "own", "other"
          manifest,   \* job.manifest: the configuration it names, or "none"
          foreign,    \* the directory holds checkpoints of the other job
          synced,     \* the directory as of its last fsync
          unsure,     \* auxiliary: a process was killed between the manifest's rename
                      \* and the directory's fsync
          log, history, failures, corruptions, stops, visits

process == <<pos, source, applied, state, watermark, outbox, writing, stop, reported>>
owner   == <<job, manifest, foreign>>
sink    == <<latest, torn>>
disk    == <<files, tmp, sink, owner, synced>>
ghost   == <<log, history, unsure>>
bounds  == <<failures, corruptions, stops, visits>>
vars    == <<mode, process, disk, ghost, bounds>>

Alive == mode \in {"running", "suspending", "flushing"}
Starting == mode \in {"creating", "created", "restoring", "foreign"}
Modes == {"down", "creating", "created", "restoring", "foreign", "running", "suspending",
          "flushing", "suspended", "stopped", "done", "refused"}

None == -1
Idle == [phase |-> "idle", offset |-> None]

Init ==
    /\ mode = "down" /\ pos = 0 /\ source = <<NewGenerator>> /\ applied = 0
    /\ state = EmptyState /\ watermark = MinTime /\ outbox = NoResults
    /\ writing = Idle /\ stop = "none" /\ reported = None
    /\ files = {} /\ tmp = {} /\ latest = NoResults /\ torn = FALSE
    /\ job = "own" /\ manifest = "none" /\ foreign = FALSE
    /\ synced = [files |-> {}, manifest |-> "none", foreign |-> FALSE]
    /\ log = << >> /\ unsure = FALSE
    /\ history = NewHistory
    /\ failures = 0 /\ corruptions = 0 /\ stops = 0 /\ visits = 0

(***************************************************************************)
(* Start of a process: the sink is opened for appending, which cuts a torn *)
(* row, and TryRestore first compares the job manifest.  Another           *)
(* configuration is refused, and so are checkpoints without a manifest; in *)
(* an empty directory the manifest is created, durably, before anything    *)
(* else.                                                                   *)
(***************************************************************************)
\* Mutant: the file is opened for appending as it is.
CutTornTailNever == torn

CutTornTail == FALSE

HasCheckpointFiles == files # {} \/ foreign

ValidateOrCreateJobManifest(j) ==
    CASE manifest = j -> "restoring"
      [] manifest = "none" /\ ~HasCheckpointFiles -> "creating"
      [] OTHER -> "refused"

Open(j) ==
    /\ mode \in {"down", "suspended"}
    /\ job' = j
    /\ mode' = ValidateOrCreateJobManifest(j)
    /\ torn' = IF j = "own" THEN CutTornTail ELSE torn
    /\ UNCHANGED <<process, files, tmp, latest, manifest, foreign, synced, ghost,
                   failures, corruptions, stops>>

OpenOwn == Open("own") /\ UNCHANGED visits
OpenForeign ==
    /\ visits < MaxForeignStarts
    /\ ValidateOrCreateJobManifest("other") # "refused" \* else it changes nothing
    /\ Open("other")
    /\ visits' = visits + 1

\* WriteAtomically: temporary file and rename, then the directory's fsync.
RenameManifest ==
    /\ mode = "creating"
    /\ manifest' = job
    /\ mode' = "created"
    /\ UNCHANGED <<process, files, tmp, sink, job, foreign, synced, ghost, bounds>>

Sync == synced' = [files |-> files, manifest |-> manifest, foreign |-> foreign]

\* Mutant: the rename of the manifest is not made durable.
SyncManifestNever ==
    /\ mode = "created"
    /\ mode' = "restoring"
    /\ UNCHANGED <<process, disk, ghost, bounds>>

SyncManifest ==
    /\ mode = "created"
    /\ Sync
    /\ mode' = "restoring"
    /\ UNCHANGED <<process, files, tmp, sink, owner, ghost, bounds>>

\* The other job, reduced to what it leaves behind: checkpoints or none.
ForeignRuns ==
    /\ mode = "restoring" /\ job = "other"
    /\ mode' = "foreign"
    /\ foreign' = TRUE
    /\ UNCHANGED <<process, files, tmp, sink, job, manifest, synced, ghost, bounds>>

ForeignEnds ==
    /\ job = "other" /\ mode \in {"restoring", "foreign"}
    /\ IF mode = "foreign" THEN Sync ELSE UNCHANGED synced \* no checkpoint, no fsync
    /\ mode' = "down"
    /\ UNCHANGED <<process, files, tmp, sink, owner, ghost, bounds>>

(***************************************************************************)
(* The rest of TryRestore: temporary files are removed, the newest         *)
(* checkpoint that loads is restored and the source sought to its offset.  *)
(***************************************************************************)
RestoreFrom(data) ==
    /\ state' = RestoreState(data)
    /\ watermark' = Max({MinTime, data.watermark})
    /\ pos' = data.offset /\ applied' = data.offset
    /\ source' = Seek(log, data.offset)
    /\ reported' = data.offset

\* What a killed writer left behind is never read.
CleanTmpFiles == tmp' = {}

Start ==
    /\ mode = "restoring" /\ job = "own"
    /\ mode' = "running"
    /\ CleanTmpFiles
    /\ stop' = "none" /\ outbox' = NoResults /\ writing' = Idle
    /\ IF LoadLatest(files) = {}
       THEN /\ state' = EmptyState /\ watermark' = MinTime
            /\ pos' = 0 /\ source' = <<NewGenerator>> /\ applied' = 0
            /\ reported' = None
       ELSE \E f \in LoadLatest(files) : RestoreFrom(f.data)
    /\ UNCHANGED <<files, sink, owner, synced, ghost, bounds>>

\* RequestStop, from another thread; the first request wins.
RequestStop(how) ==
    /\ mode = "running" /\ stop = "none" /\ stops < MaxStops
    /\ stop' = how
    /\ stops' = stops + 1
    /\ UNCHANGED <<mode, pos, source, applied, state, watermark, outbox, writing,
                   reported, disk, ghost, failures, corruptions, visits>>

\* The items of the current batch are all processed.
BatchDone == applied = pos /\ outbox = NoResults /\ writing = Idle

\* Mutant: the last batch is not cut at the end of the input.
BatchEndUncut(offset) == offset + BatchSize

\* The source's offset after a batch of min(batch_size, remaining) records.
BatchEnd(offset) == Min({offset + BatchSize, NumRecords})

\* source_->Next() after the check for a stop; new records are drawn.
PullBatch ==
    /\ mode = "running" /\ BatchDone /\ stop = "none" /\ pos < NumRecords
    /\ pos' = BatchEnd(pos)
    /\ \E new \in [1..Max({0, pos' - Len(log)}) -> Records] : log' = log \o new
    /\ source' = Draw(source, log', pos')
    /\ UNCHANGED <<mode, applied, state, watermark, outbox, writing, stop, reported,
                   disk, history, unsure, bounds>>

CanApply == mode = "running" /\ applied < pos /\ outbox = NoResults /\ writing = Idle

\* The next record, its watermark if due; a barrier if due comes next, stamped
\* with the offset of the record before it.
ApplyNext ==
    /\ CanApply
    /\ LET n == applied + 1
           g == source[n + 1]
           after == RunItems(state, watermark, log[n], g, Keys)
       IN  /\ applied' = n
           /\ state' = after.state
           /\ watermark' = after.watermark
           /\ outbox' = after.results
           /\ writing' = IF BarrierDue(g)
                         THEN [phase |-> "due", offset |-> g.offset]
                         ELSE Idle
           /\ history' = IF n < Len(history) THEN history
                         ELSE Extend(history, log, n)
    /\ UNCHANGED <<mode, pos, source, stop, reported, disk, log, unsure, bounds>>

\* A row appended behind a torn one is read as the rest of it.
AppendRow(s) == latest' = IF torn THEN latest ELSE [latest EXCEPT ![s] = outbox[s]]

\* Mutant: an emitted result is not removed from what is left to emit.
EmitResultAgain(s) ==
    /\ Alive /\ outbox[s].count > 0
    /\ AppendRow(s)
    /\ UNCHANGED <<mode, process, files, tmp, torn, owner, synced, ghost, bounds>>

\* DurableFileSink::Emit of one result, durable when it returns.
EmitResult(s) ==
    /\ Alive /\ outbox[s].count > 0
    /\ AppendRow(s)
    /\ outbox' = [outbox EXCEPT ![s] = NoPane]
    /\ UNCHANGED <<mode, pos, source, applied, state, watermark, writing, stop,
                   reported, files, tmp, torn, owner, synced, ghost, bounds>>

-----------------------------------------------------------------------------
(***************************************************************************)
(* WriteCheckpoint: temporary file, fsync, rename, directory fsync, then   *)
(* the surplus files are unlinked one by one.                              *)
(***************************************************************************)
\* Mutant: the checkpoint does not wait for the results before it.
WriteTmpEarly ==
    /\ writing.phase = "due"
    /\ tmp' = tmp \cup {writing.offset}
    /\ writing' = [writing EXCEPT !.phase = "tmp"]
    /\ UNCHANGED <<mode, pos, source, applied, state, watermark, outbox, stop, reported,
                   files, sink, owner, synced, ghost, bounds>>

WriteTmp ==
    /\ writing.phase = "due" /\ outbox = NoResults
    /\ tmp' = tmp \cup {writing.offset}
    /\ writing' = [writing EXCEPT !.phase = "tmp"]
    /\ UNCHANGED <<mode, pos, source, applied, state, watermark, outbox, stop, reported,
                   files, sink, owner, synced, ghost, bounds>>

RenameTmp ==
    /\ writing.phase = "tmp"
    /\ files' = Publish(files, Capture(state, watermark, writing.offset))
    /\ tmp' = tmp \ {writing.offset}
    /\ writing' = [writing EXCEPT !.phase = "renamed"]
    /\ UNCHANGED <<mode, pos, source, applied, state, watermark, outbox, stop, reported,
                   sink, owner, synced, ghost, bounds>>

\* Mutant: the directory is not synced.
SyncDirectoryNever ==
    /\ writing.phase = "renamed"
    /\ writing' = [writing EXCEPT !.phase = "pruning"]
    /\ UNCHANGED <<mode, pos, source, applied, state, watermark, outbox, stop, reported,
                   disk, ghost, bounds>>

SyncDirectory ==
    /\ writing.phase = "renamed"
    /\ Sync
    /\ writing' = [writing EXCEPT !.phase = "pruning"]
    /\ UNCHANGED <<mode, pos, source, applied, state, watermark, outbox, stop, reported,
                   files, tmp, sink, owner, ghost, bounds>>

\* The next unlink of CleanOldCheckpoints, newest surplus name first.
PruneOne ==
    /\ writing.phase = "pruning"
    /\ \E f \in Surplus(files) :
          /\ \A g \in Surplus(files) : g.offset <= f.offset
          /\ files' = files \ {f}
    /\ UNCHANGED <<mode, process, tmp, sink, owner, synced, ghost, bounds>>

\* WriteCheckpoint returns: the checkpoint is reported, a suspended Run ends.
WriteDone ==
    /\ writing.phase = "pruning" /\ Surplus(files) = {}
    /\ reported' = writing.offset
    /\ writing' = Idle
    /\ mode' = IF mode = "suspending" THEN "suspended" ELSE mode
    /\ UNCHANGED <<pos, source, applied, state, watermark, outbox, stop, disk, ghost,
                   bounds>>

\* The process is gone, and with it everything in memory.
LoseProcess ==
    /\ mode' = "down" /\ pos' = 0 /\ source' = <<NewGenerator>> /\ applied' = 0
    /\ state' = EmptyState /\ watermark' = MinTime /\ outbox' = NoResults
    /\ writing' = Idle /\ stop' = "none" /\ reported' = None

\* A system call of WriteCheckpoint fails; the exception ends Run.  Before the
\* rename the temporary file is unlinked; after it the checkpoint stays.
WriteFails ==
    /\ writing.phase \in {"tmp", "renamed"} /\ failures < MaxFailures
    /\ tmp' = tmp \ {writing.offset}
    /\ failures' = failures + 1
    /\ LoseProcess
    /\ UNCHANGED <<files, sink, owner, synced, ghost, corruptions, stops, visits>>

\* SIGKILL, or an exception outside WriteCheckpoint.
Crash ==
    /\ (Alive \/ Starting) /\ failures < MaxFailures
    /\ failures' = failures + 1
    /\ unsure' = (unsure \/ mode = "created")
    /\ LoseProcess
    /\ UNCHANGED <<disk, log, history, corruptions, stops, visits>>

\* The process is killed, or the disk is full, in the middle of a row.
CrashInEmit ==
    /\ Alive /\ outbox # NoResults /\ failures < MaxFailures
    /\ torn' = TRUE
    /\ failures' = failures + 1
    /\ LoseProcess
    /\ UNCHANGED <<files, tmp, latest, owner, synced, ghost, corruptions, stops,
                   visits>>

\* Every name of the directory as it was last synced or as it is now.
Names(fs) == {f.offset : f \in fs}
Survivors(fs, gs) ==
    {kept \in SUBSET (fs \cup gs) :
        /\ fs \cap gs \subseteq kept
        /\ Names(fs) \cap Names(gs) \subseteq Names(kept)
        /\ \A f, g \in kept : f.offset = g.offset => f = g}

PowerLoss ==
    /\ mode \notin {"done", "stopped", "refused"} /\ failures < MaxFailures
    /\ synced # [files |-> files, manifest |-> manifest, foreign |-> foreign]
    /\ files' \in Survivors(files, synced.files)
    /\ manifest' \in {manifest, synced.manifest}
    /\ foreign' \in {foreign, synced.foreign}
    /\ synced' = [files |-> files', manifest |-> manifest', foreign |-> foreign']
    /\ failures' = failures + 1
    /\ LoseProcess
    /\ UNCHANGED <<tmp, sink, job, ghost, corruptions, stops, visits>>

\* A checkpoint file's bytes change under its CRC.
Rot(fs, f) == {IF g = f THEN [f EXCEPT !.crc_ok = FALSE] ELSE g : g \in fs}

Corrupt(f) ==
    /\ f.crc_ok /\ corruptions < MaxCorruptions
    /\ files' = Rot(files, f)
    /\ synced' = [synced EXCEPT !.files = Rot(@, f)]
    /\ corruptions' = corruptions + 1
    /\ UNCHANGED <<mode, process, tmp, sink, owner, ghost, failures, stops, visits>>

-----------------------------------------------------------------------------
(***************************************************************************)
(* The two ways Run ends.                                                  *)
(***************************************************************************)
\* Suspend: checkpoint at the source's offset, open windows stay unfired.
BeginSuspend ==
    /\ mode = "running" /\ BatchDone /\ stop = "suspend"
    /\ mode' = "suspending"
    /\ writing' = [phase |-> "due", offset |-> CurrentOffset(source)]
    /\ UNCHANGED <<pos, source, applied, state, watermark, outbox, stop, reported, disk,
                   ghost, bounds>>

\* End of input, or a final stop: every open window fires.
BeginFinalFlush ==
    /\ mode = "running" /\ BatchDone
    /\ stop = "final" \/ (stop = "none" /\ pos = NumRecords)
    /\ mode' = "flushing"
    /\ outbox' = FlushResults(state)
    /\ state' = AfterFlush(state)
    /\ UNCHANGED <<pos, source, applied, watermark, writing, stop, reported, disk,
                   ghost, bounds>>

FlushDone ==
    /\ mode = "flushing" /\ outbox = NoResults
    /\ mode' = IF stop = "none" THEN "done" ELSE "stopped"
    /\ UNCHANGED <<process, disk, ghost, bounds>>

\* Everything the job does by itself, and the restart of its supervisor.
Begin == OpenOwn \/ RenameManifest \/ SyncManifest \/ Start \/ ForeignEnds
Work == \/ PullBatch \/ (\E s \in Slots : EmitResult(s))
        \/ WriteTmp \/ RenameTmp \/ SyncDirectory \/ PruneOne \/ WriteDone
        \/ BeginSuspend \/ BeginFinalFlush \/ FlushDone
Run == Work \/ ApplyNext

Next == \/ Begin
        \/ Run
        \/ OpenForeign \/ ForeignRuns
        \/ \E how \in {"final", "suspend"} : RequestStop(how)
        \/ WriteFails
        \/ Crash \/ CrashInEmit \/ PowerLoss
        \/ \E f \in files : Corrupt(f)

Spec == Init /\ [][Next]_vars

\* The job's thread runs, and a supervisor restarts it.  Of all steps only
\* ApplyNext adds one to applied, so that the second conjunct is its fairness.
FairSpec == /\ Spec
            /\ WF_vars(Work)
            /\ WF_applied(CanApply /\ applied' = applied + 1)
            /\ WF_vars(Begin)
-----------------------------------------------------------------------------
Checkpoints == [offset : Nat, watermark : Int,
                panes : SUBSET [slot : Slots, pane : Panes],
                fired : SUBSET Windows, refired : SUBSET Windows]

(***************************************************************************)
(* Types of the variables.                                                 *)
(***************************************************************************)
TypeOK ==
    /\ mode \in Modes
    /\ pos \in 0..NumRecords /\ applied \in 0..pos
    /\ source \in Seq(Generators)
    /\ state \in States /\ watermark \in Int /\ outbox \in [Slots -> Panes]
    /\ writing.phase \in {"idle", "due", "tmp", "renamed", "pruning"}
    /\ writing.offset \in Nat \cup {None}
    /\ stop \in {"none", "final", "suspend"} /\ reported \in Nat \cup {None}
    /\ \A f \in files : f.offset \in Nat /\ f.crc_ok \in BOOLEAN /\ f.data \in Checkpoints
    /\ tmp \subseteq Nat /\ latest \in [Slots -> Panes]
    /\ log \in Seq(Records) /\ Len(log) <= NumRecords
    /\ \A n \in 1..Len(history) : /\ history[n].state \in States
                                  /\ history[n].watermark \in Int
                                  /\ history[n].latest \in [Slots -> Panes]
                                  /\ history[n].source \in Generators
    /\ failures \in 0..MaxFailures /\ corruptions \in 0..MaxCorruptions
    /\ stops \in 0..MaxStops /\ visits \in 0..MaxForeignStarts
    /\ torn \in BOOLEAN /\ foreign \in BOOLEAN /\ unsure \in BOOLEAN
    /\ job \in {"own", "other"} /\ manifest \in {"none", "own", "other"}

\* The uninterrupted run after n records.
After(n) == history[n + 1]

(***************************************************************************)
(* Recovery is exact: whatever crashed before, the state and watermark of  *)
(* a running job, and those a restart would take from any checkpoint that  *)
(* loads, are the ones an uninterrupted run has at the same offset, and    *)
(* the source's generator, sought to wherever a crash or a suspension left *)
(* the cadence of watermarks and barriers, stands where that run's does    *)
(* (Pipeline::TryRestore, WriteCheckpoint, Source::Seek).                  *)
(***************************************************************************)
RecoveryExact ==
    /\ mode \in {"running", "suspending"} =>
          /\ state = After(applied).state /\ watermark = After(applied).watermark
          /\ source[applied + 1] = After(applied).source
    /\ \A f \in files : Loadable(f) =>
          /\ f.offset < Len(history) /\ f.data.offset = f.offset
          /\ RestoreState(f.data) = After(f.offset).state
          /\ f.data.watermark = After(f.offset).watermark

NotBehind(s, n) ==
    \E m \in n..(Len(history) - 1) :
        s \in FlushEmits(After(m).state) \/ latest[s] = After(m).latest[s]

(***************************************************************************)
(* Output goes ahead of state: a restart from any checkpoint that loads    *)
(* loses no result.  Each slot's newest result in the sink is one that the *)
(* uninterrupted run shows at the checkpoint or later, unless the slot is  *)
(* still to be fired (again) there or later (Pipeline::WriteCheckpoint     *)
(* flushes the sink first; docs/recovery.md, "Sink and delivery            *)
(* contract").                                                             *)
(***************************************************************************)
OutputBeforeState == \A f \in files : Loadable(f) => \A s \in Slots : NotBehind(s, f.offset)

(***************************************************************************)
(* A job that reached the end of its input leaves in the sink, for every   *)
(* slot, the result an uninterrupted run ends with, whatever crashes,      *)
(* failed writes, suspensions and rotten checkpoints came before           *)
(* (DurableFileSink::ReadLatest, Pipeline::Run).                           *)
(***************************************************************************)
CompletesExact ==
    mode = "done" =>
        latest = Finished(After(NumRecords))

(***************************************************************************)
(* What Progress() reports as checkpointed stays there: the reported       *)
(* offset or a later one can be restored, unless the reported file itself  *)
(* has rotted (engine/job_control.h:75, Pipeline::WriteCheckpoint).        *)
(***************************************************************************)
ReportedRestorable ==
    reported # None /\ ~(\E f \in files : f.offset = reported /\ ~f.crc_ok)
        => \E o \in ValidOffsets(files) : o >= reported

\* The files no loss of power can take back, and where they let a job resume.
Durable == files \cap synced.files
ResumeOffset == Max({0} \cup ValidOffsets(Durable))

(***************************************************************************)
(* Progress is durable and never taken back: the newest offset a restart   *)
(* is sure to find, a loss of power included, only grows except when a     *)
(* file rots, and WriteCheckpoint returns only when it has such a file     *)
(* (CheckpointWriter::WriteCheckpoint, CleanOldCheckpoints).               *)
(***************************************************************************)
ResumeAdvances == [][/\ corruptions' = corruptions => ResumeOffset' >= ResumeOffset
                     /\ WriteDone => \E f \in Durable : f.offset >= writing.offset]_vars

(***************************************************************************)
(* The manifest tells whose checkpoints these are, whatever crashes and    *)
(* losses of power it was created through: a running job never shares its  *)
(* directory with checkpoints of another configuration, and a job is       *)
(* refused only where the other one came first, never locked out of its    *)
(* own checkpoints (ValidateOrCreateJobManifest; docs/recovery.md).  One   *)
(* case is excluded: a process killed between the manifest's rename and    *)
(* the directory's fsync leaves a manifest the next process accepts        *)
(* without syncing, which a loss of power can then take back alone.        *)
(***************************************************************************)
ManifestGuards == /\ Alive => ~foreign
                  /\ mode = "refused" /\ ~unsure => manifest = "other" /\ files = {}

(***************************************************************************)
(* With finitely many failures and stop requests the job ends: it reaches  *)
(* the end of its input, obeys a final stop, or is refused because of the  *)
(* manifest (Pipeline::Run).                                               *)
(***************************************************************************)
Ends == <>(mode \in {"done", "stopped", "refused"})
=============================================================================
