# A TLA+ verification of stormglass

stormglass is an event-time stream processor: records with an event time are
assigned to tumbling or sliding windows, aggregated per key and window, fired
when the watermark passes a window's end, re-fired when late data arrives, and
recovered from checkpoints after a crash. This directory holds TLA+ models of its
core, the TLC runs that check them, and TLAPS proofs about the operator instance,
the single-threaded job's recovery, the partitioned job's threads, the global
snapshots and their transport.

Paths are relative to the repository's root, called `src/` here: `src/src/` is
the library, `src/app/` the programs, `src/docs/` the documentation.

## 1. The system

| component | state | operations | what makes it correct |
| --- | --- | --- | --- |
| window assigners (`window/tumbling.cpp`, `window/sliding.cpp`) | none | `AssignWindows` | exactly the grid windows containing the event time |
| keyed window state (`window/state.cpp`) | panes per window and key, fired windows, windows waiting for a re-fire | `AddWithLateness`, `ExpiredWindows`, `FireWindow`, `RefiredWindows`/`ClearRefired`, `GarbageCollect` | a pane lives as long as it may change; every accepted record reaches a result |
| operator instance (`engine/keyed_processor.cpp`) | the above, the watermark, statistics | `ProcessRecord`, `ProcessControl` (watermark, barrier), `FinalFlush`, `Restore` | agrees with the oracle |
| oracle (`oracle/oracle.cpp`) | sums per key and window, watermark, predicted drops | `AddRecord`, `AdvanceWatermark`, `ComputeResults` | it is the reference |
| checkpoint writer and reader (`checkpoint/writer.cpp`, `reader.cpp`) | files in a directory | `WriteCheckpoint`, `CleanOldCheckpoints`, `LoadLatest`, `LoadOffset`, `ValidOffsets` | a published file restores the exact state; progress is never destroyed |
| single-threaded job (`engine/pipeline.cpp`) | source offset, operator, reported progress | `Run`, `TryRestore`, `WriteCheckpoint`, `RequestStop` | after any failures, the results of an uninterrupted run |
| generator (`source/generator.cpp`) | offset, cadence counters | `Next`, `Seek` | a `Seek` replays identically |
| job manifest (`checkpoint/job_manifest.cpp`) | a file naming the job's configuration | `ValidateOrCreateJobManifest` | a job never restores another one's checkpoints and is never locked out of its own |
| durable sink (`sink/durable_file_sink.cpp`) | an append-only file | open with the cut of a torn tail, `Emit`, `Flush`, `ReadLatest` | what was emitted survives; the newest value per slot wins |
| partitioned job (`engine/partitioned_pipeline.cpp`) | workers, queues, threads, per-partition directories | router, worker loop, cancellation, joins, restore from a complete checkpoint | equals the single-threaded job on each shard; always ends; all or nothing |
| checkpoint tracker (`checkpoint/distributed_checkpoint.cpp`) | newest offset per partition, retained complete offsets | `OnPartitionCheckpoint`, `LastComplete`, pruning | the last complete cut survives |
| bounded queue (`engine/bounded_queue.h`) | items, closed, two condition variables | `Push`, `Pop`, `Close` | nothing lost behind a close; no waiter left behind |
| source merge (`source/source_merge.cpp`) | per-channel progress, watermark combiner, open epoch | `Next`, `Seek`, idleness, alignment | aligned cuts, no deadlock, no lateness of its own making |
| global snapshots: participant, store, supervisor (`snapshot/chandy_lamport.cpp`, `store.cpp`, `src/app/snapshot/main.cpp`) | per-node counters, open snapshot, committed epochs | `Initiate`, `Send`, `Receive`, `Restore`, `SaveLocal`, `Commit`, `LoadLatestCommitted` | every committed snapshot is a consistent cut; recovery loses and duplicates nothing |
| global snapshots: application (`snapshot/window_operator.cpp`, `src/app/snapshot/main.cpp`) | a cursor per producer; at the aggregator a watermark per input and an operator instance | `Apply`, `Capture`, `Restore` | the state is what the messages received make it, through any restart |
| global snapshots: transport (`snapshot/tcp_transport.cpp`) | output frames and their byte count, partial input, per peer | `Queue`, `PollOnce` | FIFO channels over nonblocking sockets; no deadlock; failures only for a cause |

How they interact. A job pulls batches from a source; records go to the operator,
watermarks fire windows into the sink, barriers make the operator flush the sink
and write a checkpoint. A partitioned job does this in one thread per partition
behind a router thread that hashes keys and broadcasts control records through
bounded queues; each worker reports its checkpoints to a shared tracker, which
decides what is complete and what may be deleted. A merged source combines the
watermarks and barriers of several channels into one stream. Global snapshots are
a separate protocol between processes connected by TCP: producers send records and
watermarks to an aggregator, markers cut all channels consistently, and a supervisor
commits a cut and restarts all processes from one.

What is hard to test here: a crash between two effects on disk; a late record
between a fire, a barrier and a re-fire; torn checkpoints of several partitions
and the next run that meets their files; threads that throw while others wait on
full or empty queues, and notifications that arrive before the wait; a loss of
power between a rename and the directory's sync; channels that block each other at
barriers; markers crossing on channels with messages in flight; frames cut anywhere
while both sockets are full. `PROJECT.json` lists each hazard at
its line with the properties that cover it.

## 2. Modules and how they correspond to the code

```
WindowAssigner <- KeyedWindowState <- KeyedProcessor <- MCKeyedProcessor   (refines Oracle)
                                   <- CheckpointStore <- Replay <- Pipeline            <- MCPipeline
                                                                <- PartitionedRecovery <- MCPartitionedRecovery
                                   <- WindowOperator <- ChandyLamport <- MCChandyLamport
TcpTransport       <- MCTcpTransport   (refines FifoChannels, the channels of ChandyLamport)
PartitionedThreads <- MCPartitionedThreads
SourceMerge        <- MCSourceMerge
ReplayProofs <- PipelineProofs
             <- PartitionedRecoveryProofs
KeyedProcessorProofs, PartitionedThreadsProofs, TcpTransportProofs, SourceMergeProofs,
ChandyLamportProofs
```

A module `XProofs` extends `X` and holds its theorems; `KeyedProcessorProofs` extends
`MCKeyedProcessor`, whose probes of the assigners it also proves.

**WindowAssigner** translates the two assigners and the oracle's own walk as sets
of records `[start, end]`, next to the reference definition
`WindowsContaining(size, slide, t)`. The oracle's divisions truncate towards zero
(`Quotient`), and unlike the engine it takes any event time; the two meet only on
records that the engine's assigner accepts, since a job ends on any other.

**KeyedWindowState** is the data structure: a record of `panes` (a pane of count 0
is absent), `fired` and `refired`. Its operators are the methods of the class,
composed into `AfterWatermark` and `WatermarkEmits` as `ProcessControl` composes
them. A timestamp range `MinTime..MaxTime` and a sum range `MinSum..MaxSum` stand
for the 64-bit ones, so that saturation of deadlines and overflow of sums happen.

**KeyedProcessor** is the state machine of one operator instance: `ProcessRecord`,
`ProcessRecordThrows` (overflow; the job ends), `ProcessWatermark`, `FinalFlush`.
`latest` is what `DurableFileSink::ReadLatest` would show, `emissions` counts
results. A pane update that throws half-way through several windows leaves the
state of a job that ends; only that it ends is kept.

**Oracle** is the abstract specification: sums of the records that were not too
late. `KeyedProcessor!ImplementsOracle` instantiates it with the value of a slot
(its live pane or, once collected, its newest result): fires, re-fires,
collection and the final flush are stuttering steps.

**CheckpointStore** says what a checkpoint contains (`Capture`), what restoring it
gives (`RestoreState`), which file a restart picks (`LoadLatest`,
`HighestComplete`) and which are surplus. A file carries its CRC's verdict.

**Replay** is what all jobs share. The source is the deterministic generator with
the members that `Next` and `Seek` keep: offset, records since the last watermark and
barrier, greatest event time. `Drawn` is one record of it; `Seek` starts a new
generator and draws again up to the offset, so that a counter it did not restore would
send the next control record at another offset. `source` of the two jobs is the
generator after each record drawn, and `CurrentOffset` is read from it. `RunItems` is
the effect of a record and its control records on state and results; records are in
the assigner's domain and sums in range there, as the exceptions, which end the job,
are in KeyedProcessor. The module ends with the uninterrupted run that recovery is
compared with.

**Pipeline** is the single-threaded job with its directory and durable sink. The
source's records are chosen when they are first pulled and kept in `log`, which a
restart replays; `history` is the uninterrupted run on the same records. A process
starts by opening its sink, which cuts a torn row (`OpenOwn`), and by comparing the
manifest: it is accepted, refused, or, in a directory without checkpoints, created
(`RenameManifest`, `SyncManifest`); then `Start` restores. Disk effects are single
steps (`EmitResult`, `WriteTmp`, `RenameTmp`, `SyncDirectory`, `PruneOne`). `Crash`
may come between any two, `CrashInEmit` in the middle of a row; `PowerLoss` also takes
back any renames and unlinks since the directory was last synced (`synced`), name by
name. Rows are synced as they are written, but the sink never syncs the directory it
created its file in (`sink/durable_file_sink.cpp:111`): `PowerLoss` takes the file's
own directory entry as durable, which `src/docs/hardening-audit.md:47` leaves outside
the guarantee. `WriteFails` is a failing system call, `Corrupt` a file that rots. A
job of another configuration (`OpenForeign`) is reduced to the manifest and
checkpoints it leaves; it syncs the directory only if it wrote a checkpoint. Steps
that touch memory only are merged with their predecessor.

**PartitionedRecovery** is the partitioned job seen from its disk: workers apply the
routed stream at their own pace, write per-partition files, report to the tracker (its
mutex is `mu_`, pruning is one unlink per step), read the newest complete offset and
store it as progress in separate steps. A suspend barrier carries the source's
`CurrentOffset`, not the number of records routed. Each worker has its own durable
output, the configuration with a `worker_sink_factory`
(`engine/partitioned_pipeline.h`); the default forwarding sink only delays results
until the flush that precedes each checkpoint.

**PartitionedThreads** is the same code seen from its threads: main, router and
workers, thread creation that fails, exceptions anywhere, `fail()` as two
separate steps (the flag, then one close per queue), empty batches of a live source,
sentinels, joins. The queues are modelled with their condition variables: a thread
whose predicate is false joins `asleep`, and whoever changes the predicate unlocks
first and notifies in a later step (`owed`, `Notify`); wake-ups may be spurious. A
thread whose notification is missed sleeps for ever, and `Ends` fails. Batches
are opaque; `sent` and `consumed` record what the router pushed and a worker took.

**SourceMerge** is `ProduceOneMergedStep` split by what the channel whose turn it
is does: an idle tick, exhaustion, an empty pull of a live channel, a record, a
watermark, a barrier. `Seek` resets and replays with the same actions. `ReturnNullopt`
is the end of the stream; where the code returns an empty batch instead (a live merge
with nothing to service, `source/source_merge.cpp:325`), nothing changes and there is no
action. `EndsWhole` shows that this happens only once every channel is exhausted.
Replayable channels keep the contract that their batches are not empty; the
`logic_error` for one that does not (`source_merge.cpp:106`) is left out.
`forwarded` is the newest watermark the consumer was really given, `idled` the
channels that were ever idle, `at` the states of the first run by offset.

**WindowOperator** is the application of the global snapshots as operators on a
node's record: a producer's cursor and acknowledgement, and the aggregator's
operator with one watermark per input (`Apply`, `CaptureOperator`,
`RestoreOperator` with its checks). A result `Thrown` stands for an exception. It
ends in a reference: what the first messages of every input amount to, whatever
their interleaving (`ExpectedPane`, `ExpectedWatermark`). `OnTimeAssumption` says
that inputs send nothing late by their own watermarks, as the producers of the demo
do. `Acceptable` says that the assigner takes every record and that no pane
overflows on any prefix of the inputs; only two theorems need it, and TLC checks it
on the run's payloads.

**ChandyLamport** has a participant per node with this application, a FIFO per
direction (a crash empties them), the snapshot files, committed epochs, and a
supervisor that starts all nodes again from the newest snapshot that loads. A restart
restores the application and replays the channel logs through `Deliver`. A producer's
script holds records and watermarks in any order, where the demo sends all records and
then one watermark; its cursor counts both, where the demo's counts the records
(`src/app/snapshot/main.cpp:109`). The aggregator's `FinalFlush` before its
acknowledgements (`main.cpp:124`) is left out: it is for the comparison with the
expected results, and the demo takes no cut after it. `Initiate` poisons a participant
that cannot start the epoch, as the code does. The supervisor asks for an epoch only
after the one before, so that `NeverPoisoned` has to show that no participant refuses
it; a second initiator (`JoinEpoch`) asks only before a marker of the epoch has
reached it (section 6). The limit on the size of the captured state
(`snapshot/chandy_lamport.cpp:35`) is left out: `Capture` is a value without a size.

**TcpTransport** is one connection per pair of nodes, byte by byte: output frames
with `front_offset` and `queued_bytes`, the kernel's buffer per direction, the input
not yet decoded. `PollOnce` is split at its system calls (`SendSome`, `SendEnds`,
`ReceiveSome`, `Decode`, and their failures), so that a frame is cut anywhere; the
receive callback may queue. A process ends finished, by an exception, or killed, and
its sockets close with it; bytes under way may then be lost from the end. The 4-byte
length prefix of a frame is one byte here: a frame that is cut inside its prefix waits
as one that is cut behind it does (`snapshot/tcp_transport.cpp:199`). A process is
`Finished` when it has its messages and its output is drained, the aggregator's rule in
the demo, for every process; the demo's producer returns on its acknowledgement
(`main.cpp:112`), when it has sent everything that was answered.

**FifoChannels** is what the snapshot protocol asks of a transport. `ImplementsFifo`
of TcpTransport shows that the transport gives it, which justifies the queues of
ChandyLamport.

Definitions marked "Mutant" are plausible defects of the definition that follows
them. They are used by no specification; replacing the definition by its mutant
makes the property named with it in `PROJECT.json` fail.

## 3. Runs

`tlc -workers 2 -config X.cfg M` for each; every run finishes within four minutes.

| run | module, cfg | bounds | checks |
| --- | --- | --- | --- |
| processor_late | MCKeyedProcessor, Late | 2 keys, values 2 and -1, event times -1..3, watermarks 0..4, size 2, slide 1, lateness 1, 4 records, sums -2..5 | TypeOK, PaneLifetime, NoSuppressedUpdate, NoResurrection, ResultsGrow, ImplementsOracle |
| processor_zero | MCKeyedProcessor, Zero | the same with lateness 0; geometries 1..5 by 1..5 | EngineExact, OracleAgrees, FiresOnce |
| pipeline_recovery | MCPipeline, MCPipeline | 4 records in batches of 3, watermark and barrier every 2, 3 windows, lateness 2; 2 failures (crash, torn row, loss of power, failed write), 1 rotten file, 1 stop, 1 start of another job; 930 k states | TypeOK, RecoveryExact, OutputBeforeState, CompletesExact, ReportedRestorable, ManifestGuards, ResumeAdvances, Ends |
| partitioned_recovery | MCPartitionedRecovery, MCPartitionedRecovery | 2 partitions with one key each, 3 records, barrier every 2, retention 1; 1 crash, 1 suspension | ShardsAgree, CompleteRestorable, CompletesExact, ResumeAdvances |
| partitioned_threads | MCPartitionedThreads, MCPartitionedThreads | 2 workers, queues of 1, 2 batches, any thread may throw; 689 k states | TypeOK, NoTruncatedFlush, ReturnsWhole, NoLostWakeup, Ends |
| source_merge | MCSourceMerge, MCSourceMerge | 3 channels, each one of 3 scripts and with or without an idle span, live or not; 1 seek | EndsWhole, AlignedCut, NoSpuriousLateness, SeekExact, Drains |
| global_snapshot | MCChandyLamport, MCChandyLamport | the demo's 3 nodes; a record and a watermark from each producer, 1 acknowledgement, one unused channel; log limit 1, 2 epochs, 1 crash, 1 damaged snapshot; 267 k states | Conservation, OperatorExact, CompleteCutIsConsistent, NeverPoisoned, SnapshotCompletes |
| tcp_transport | MCTcpTransport, MCTcpTransport | 2 processes, 2 frames each of 2 or 3 bytes, sockets of 2 bytes, 5 bytes of output queue, 4 bytes per send, 2 per receive, 1 kill; 411 k states | QueueExact, NoSpuriousFailure, ImplementsFifo, AllEnd |
| pipeline_retention, partitioned_torn, partitioned_progress, source_merge_resume | | | one property each, violated: see section 6 |

Why the bounds are enough to be interesting. *processor*: two overlapping windows per
record, a record that is late for one and in time for the other, a fire, a re-fire and
a collection with records between them, overflow at both ends. *pipeline*: a late
record between two fires of its window with a barrier in between, barriers inside a
batch, a suspension between two control records, a crash during recovery from a crash,
fallback to an older checkpoint, a loss of power before the first checkpoint and after
it, the other job coming first, in between or never. *partitioned_recovery*: one
partition a checkpoint ahead of the other when the job dies. *threads*: the router
waits for a full queue while either worker throws, a worker is notified or its queue
closed before it sleeps. *source_merge*: all channels held at a barrier but one, which
idles or ends; a channel that resumes epochs behind. *global_snapshot*: a message in
flight in each direction, two initiators whose markers cross, a restart that falls
back, a window fired between two messages of different inputs and touched late.
*tcp_transport*: both sockets full at once, two frames that exceed the output queue or
do not, according to how much was sent between them.

`CHECK_DEADLOCK FALSE` everywhere: every model stops when its job has ended or its
bounds are used up. The liveness properties show that it does not stop earlier.

What the properties say, beyond their names:

- `RecoveryExact`: state and watermark of a running job, and of every loadable
  file, are those of the uninterrupted run at the same offset. A `Seek` that lost the
  cadence would break it: the replay's watermarks would come behind other records.
- `OutputBeforeState`: restarting from any loadable file loses no result; the
  sink's newest value of a slot is one the uninterrupted run shows at that offset
  or later, unless the slot is still to be fired there or later.
- `ManifestGuards`: a running job shares its directory with no other job's
  checkpoints, and is refused only where the other came first.
- `ResumeAdvances`: the newest offset that a restart is sure to find, a loss of
  power included, only grows, and a checkpoint is reported only once it is durable.
- `ShardsAgree`: the panes of a worker are the single-threaded run's panes of its
  keys. Fired sets may differ, and this is not asked for.
- `NoTruncatedFlush`: a final flush happens only behind the sentinel, when all that was
  sent was consumed, and that is the whole input or, after a final stop, what was
  routed until then; a sentinel pushed because of a cancellation is no excuse.
- `ReturnsWhole`: a normal return only when every worker has consumed everything.
- `EndsWhole`: whenever the merge has nothing to service, every channel is exhausted
  and every record went out.
- `NoLostWakeup`: a thread asleep on a condition variable whose predicate has become
  true is always owed a notification by a thread that will still send it.
- `NoSpuriousLateness`: a record of a channel that never idled is delivered under
  a watermark its own channel had declared.
- `Conservation`: sent = received + in flight on every channel, through snapshots,
  crashes, partial restarts and damaged files.
- `OperatorExact`: cursors, watermarks per input, panes and counts are those of the
  messages received, and a cut taken now would restore to the same.
- `NoSpuriousFailure`: a frame is never broken, and a lost connection has a killed
  or overrun process behind it. This is about a pair of processes. With three, a
  producer that has got its acknowledgement may close its socket while the
  aggregator still drains output for the other, and is then seen as a disconnect.

## 4. Fairness

- `Pipeline!FairSpec`: the job's thread keeps running and a supervisor restarts a
  job that died or was suspended (`Begin`). The thread's fairness is given as that
  of `ApplyNext`, in the form of the counter only it advances, and of its other
  steps (`Work`): the two are never enabled together, so that together they say no
  more than that the thread runs. Failures, stop requests and other jobs are
  bounded and not fair.
- `PartitionedThreads`: weak fairness of each thread and of its notifications.
  Operating-system threads run and mutexes are held for short critical sections
  only. A sleeping thread is woken by a notification or by chance, and chance is not
  fair. Strong fairness of `NextBatch`: a live source does not return empty batches
  for ever.
- `SourceMerge`: the consumer keeps calling `Next`.
- `ChandyLamport!FairSpec`: one weak-fairness condition, that some process with
  something to restore, receive or save does so, or the supervisor commits. Sends,
  new epochs, crashes and damage are not fair.
- `TcpTransport!FairSpec`: each process polls, returns when finished, and its end
  closes its sockets (weak fairness); the program queues what it has to send (strong
  fairness, since it may queue only between polls and in callbacks). A poll that
  would block is not enabled. Kills are not fair.

## 5. Proofs

`tlapm M.tla` for each of the eight modules; each takes ten minutes at most. A
theorem holds for every value of the constants that the named assumptions of the
module allow (`WindowAssumption`, `SourceAssumption`, `PipelineAssumption`, ...),
which say no more than that counts are natural numbers, sizes positive and so on;
further hypotheses are stated in the theorem and given below. The runs of section 3
check each property on an instance, and TLC has also checked each inductive invariant
on the same instance, save the parts that speak of a sequence of states that no
variable holds (`Replayable` in SourceMergeProofs); for `AppInv` of
ChandyLamportProofs, with the operator that `RestoreOperator` returns in place of its
`\E op`, which TLC cannot enumerate.

*KeyedProcessorProofs*, the assigners: for every size, slide and event time in the
domain the code accepts, `SlidingAssign` and `TumblingAssign` return exactly the
windows containing the event time (`SlidingAssignExact`, `TumblingAssignExact`), and
the oracle's walk returns the same (`OracleAssignAgrees`). The argument: the first
start the code computes is the least multiple of the slide above `t - size`
(`EarliestStartFacts`), and grid points are a slide apart (`GridStep`). So the
invariants `EngineExact` and `OracleAgrees` of `processor_zero` hold for every probe
and every bound of the probes (`EngineAssignsExactly`, `OracleAssignsAlike`).

*KeyedProcessorProofs*, the operator: for every set of keys, values, event times and
watermarks, every geometry and every lateness (`WindowAssumption`), `Spec => []IInv`.
None of the four safety properties is inductive alone. `IInv` adds `Bookkeeping`: an
absent pane is empty; fired windows still hold panes and exist only with lateness;
nothing was emitted for an open window that has not fired; a newest result is never
ahead of its pane; results are counted. For example `NoResurrection` needs to know
that a fired window keeps its panes until its deadline, and `NoSuppressedUpdate` after
a re-fire needs that only fired windows are marked. From `IInv` follow the theorems
`TypeCorrect`, `LifetimeCorrect`, `UpdatesReachSink`, `NothingResurrected`,
`ZeroLatenessFiresOnce` and the action property `ResultsOnlyGrow`.

`EngineImplementsOracle` is the refinement: initial states map to the oracle's initial
state, a record to `AddRecord` (the engine and the oracle drop it from the same
windows, `DropRule`, and assign it to the same windows, as above), a watermark to
`AdvanceWatermark`, the final flush and an overflow to a stutter. It assumes
`NoSaturation`, that a window's end plus the lateness is a timestamp: the oracle adds
without saturating where the engine saturates, so beyond that they differ.

*ReplayProofs* holds what any job's recovery rests on. `RoundTrip`: restoring what
was captured gives the state back, for every `Sound` state (no pane of count 0 but
the empty one, re-fires only of fired windows); records and watermarks keep a state
sound. `Chain(source, log, m)` says that the generators of a job are those of the first
m records with none left out, and that barriers come at the multiples of the interval;
drawing keeps it and `Seek` gives it, which is what makes a replay meet the same
control records. `Past(history, log)` says that a history is the uninterrupted run on the
records drawn; it stays so when records are drawn or one more is applied.
`Shows(history, latest, s, n)` is the condition of `OutputBeforeState` for one slot;
the central lemma `ShowsAdvances` says that a slot that is shown or waits to be
fired at offset n is emitted by record n + 1, or is still shown or waiting there.

*PipelineProofs*. `IInv` has one part per piece of state:

- `RunOK`, `ProcessOK`: history is the uninterrupted run, a running job is at its
  point `applied`, a checkpoint is written for `applied` with nothing left to emit;
- `FilesOK`: every file, in the directory and in the synced image that a loss of
  power may bring back, good or rotten, is the capture of the run at its offset; a
  file of the image that has left the directory has two newer names there, or was
  rotten and has been replaced; the same of the reported offset. `RecoveryExact`
  alone is not inductive because a loss of power brings back files it does not
  mention, and a file rots without changing its name;
- `OwnerOK`: the synced manifest is the manifest or none, checkpoints exist only
  under their owner's manifest, and, unless a process was killed in the gap of
  section 6's first observation, only under a synced one.

From it follow `RecoveryIsExact` and `ManifestGuarded`, for any number of crashes,
failed writes, losses of power, rotten files, stops and foreign starts.

The properties of the output need in addition that at most one file rots
(`MaxCorruptions =< 1`, a hypothesis of each of these theorems). This is no weakness
of the proof: with two rotten files retention deletes the only good one, and a job
whose files are all lost starts over (finding 3). `OutInv` says that the sink shows
every slot as of the newest good file or later (`ShowsAll`), that no good file, in
the directory or the synced image, is ahead of a running job, and what each slot of
`outbox` still owes (`Pending`, `Flushing`). The restart is the interesting step
(`LatestCovers`): a good file that is only in the synced image has two newer names,
one of which is good, so that the file restored is at least as new. From it follow
`OutputGoesFirst`, `EndsExact`, `ReportedStays` and the action property
`ProgressIsDurable`.

*PartitionedRecoveryProofs*: for every number of partitions, any assignment of keys to
them, and every source, geometry, lateness, cadence and retention. `IInv` has four
parts:

- `RunOK`: history is the uninterrupted single-threaded run, and at each of its points
  a live slot shows its pane or has taken in records since it was shown (`Fine`);
- `WorkersOK`: a running worker is its `Shard` of the run at its offset, with the same
  watermark. A shard has the run's panes for its keys but not its fired windows: a
  window fired for other keys alone is not fired here. What is needed of it instead is
  that a pane the worker will not fire again is the one the run shows. A worker has
  written a file for every due offset it has passed that is not below the retained ones;
- `Checkpoints`: a file is the capture of such a shard at its offset;
- `TrackerOK`: retained offsets ascend, each has a file in every partition, and none is
  above what any worker has applied or reported, so that pruning below the oldest
  retained one, file by file, takes none of them.

From it follow, for any number of crashes and stops, `ShardsTheorem`,
`CompleteTheorem` and the action property of `ResumeTheorem`. `CompletesTheorem`
(`CompletesExact`) has the hypothesis `MaxFailures =< 1`: with two crashes it is false
(finding 2). Its invariant `OutInv` shows where the first crash matters: before it no
file is ahead of its worker and the sinks are behind no file (`NoneAhead`,
`NoneBehind`); after it files of the first incarnation may be ahead of the workers
that replay, and all that remains is that the sinks are not behind the point from
which the job was restarted. A second crash could pick such a file as part of a
complete checkpoint.

*SourceMergeProofs*: for any number of channels, scripts and idle spans, any idle
timeout and any number of seeks. `IInv`: no channel is more than one barrier ahead of
the closed epochs, an idle one is not ahead at all, and while some channel is in the
alignment set one of them still has its barrier to come (`Alignment`); the merged
offset counts the records the cursors have passed (`Delivery`). The last part of
`Alignment` excludes that all wait for each other, and gives `EndsTheorem`
(`EndsWhole`) and `AlignedTheorem` (`AlignedCut`).

`StreamInv` adds what the combiner holds (each channel's watermark is the greatest it
delivered; the emitted one is not ahead of a channel that never was idle) and, for a
replayable merge, `Replayable`. Its step is a function of its state (`Stepped`, lemma
`Deterministic`), so all incarnations go through one sequence of states: the current
state is one of them, each remembered state is the first one of its offset, and the
watermark of the consumer and those of its checkpoints are ones that the sequence had
emitted by their offset. A seek goes back to the first state and keeps all of that.
From it follow `TypeTheorem`, `SeekTheorem` (`SeekExact`) and `LatenessTheorem`
(`NoSpuriousLateness`): a consumer restored from a checkpoint has a watermark that the
merge has not reached again while it is fast-forwarded, and has when that is over.

*PartitionedThreadsProofs*: for every number of workers, capacity and number of
batches. `IInv` says thread by thread and queue by queue: what was sent is what was
consumed followed by what is queued; a sentinel is the last message sent; a queue
that is closed without a failure has been sent its sentinel; a worker past its loop
has its sentinel or the flag is raised; the flag is raised only with an exception
kept or a failed thread creation. `NoTruncatedFlush` needs the whole chain, since a
worker sees only a closed and empty queue. From it follow `TypesHold`,
`FlushesWhole` and `ReturnsHold`. That the whole stream is the whole input (`EndInv`)
needs one fact more: the router ends with an end-of-stream sentinel only when the
source is finished, a final stop was asked for, or the job is cancelled, and a worker
that flushes has not seen it cancelled. `WakeupsKept` adds that a thread is asleep only
where its code waits, and that whoever made its predicate true still owes the
notification.

*TcpTransportProofs*: for any number of processes, any frames, limits and buffer
sizes. The invariant reads a connection as positions in the one byte stream of the
frames queued: delivered, in the input, in the socket, and in the output are
consecutive parts of it. `Total`, the sum of frame sizes, is a recursive function;
what is needed of it is proved by the least counterexample (`NatLeast`). From this
follow `CountExact`, `FramesStayWhole`, `TypesHold`, and the refinement
`TransportIsFifo` (`Queue` maps to `Send`, or to `Fail` where it overruns the output,
`Decode` to `Deliver`, the end of a process to `Fail`, everything else to a stutter).
`PairsEndWell` assumes two processes (`Pair`): for three `NoSpuriousFailure` is false
(section 3).

*ChandyLamportProofs*: for every set of nodes and every topology that
`TopologyAssumption` allows (symmetric; the aggregator's inputs talk to it alone), any
log limit and any number of epochs, crashes and damaged snapshots. In the first part
the application is opaque. The argument of the marker algorithm is made once, on
what it is about (`Core`): on a channel the messages in flight carry consecutive
numbers from the receiver's to the sender's; a cut's counters and its channel log
are what was received before and after the cut up to the marker; a node that has
taken its cut has sent one marker on every channel, behind the messages its cut
counts. From it follow `MessagesConserved`, `CutsConsistent`, `ProtocolHolds` (the
protocol's part of `NeverPoisoned`: no check on message numbers, markers, logs or
existing files fails) and `CommitsLoad`. That no participant refuses an epoch the
supervisor begins (`BeginCanStart`) rests on the epoch before being saved everywhere.

The second part opens the application, for every `Payloads` that is `Acceptable`.
An operator is `Exact` for what was received if its count, its watermarks and its
panes are those of the reference. `ApplyExact`: it takes the next message of any
input without an exception and stays exact (a record is never late, as the
combined watermark is at most its own input's; a watermark erases just the panes
past their deadline). `RoundTrip`: restoring a capture of an exact operator gives
that operator. `SumOf` and `Replayed` are recursive functions; that they exist and
what they compute is proved by a least counterexample and by well-founded
induction on finite sets. `AppInv` adds to `IInv` that every live application is
exact, that every cut, open, completed or saved, holds the capture of an exact
operator and a log of genuine messages, and that messages in flight are the next
ones of their sender. From both follow `OperatorTheorem` (`OperatorExact`) and, when
every node is an input or the aggregator, `NeverPoisonedTheorem` (`NeverPoisoned`).

Only model-checked:

- every liveness property (`Ends`, `Drains`, `SnapshotCompletes`, `AllEnd`): fairness
  is out of the prover's reach;
- `TypeOK` of `Pipeline`: that sums stay in their range depends on the values and on
  the number of records; the structural part of it is in `RunOK` and `ProcessOK`.

## 6. Findings

Each is a run that TLC refutes, with the quoted line it disagrees with in
`PROJECT.json`.

1. *partitioned_progress*: the checkpoint listener reads the newest complete
   offset and stores it in separate steps; an older value can overwrite a newer one
   in `Progress()`. Restores are unaffected.
2. *partitioned_torn*: a "complete" checkpoint may consist of files written by two
   incarnations of the job. After a second crash the sink's newest value of a
   window can stay the one before its late re-fire. It takes two crashes, which is
   why `partitioned_recovery`, with one, checks the same property and passes.
3. *pipeline_retention*: retention counts file names, not loadable files; below two
   damaged newer files a checkpoint is deleted as soon as it is written, and
   reported. It takes two damaged files; `pipeline_recovery` has one.
4. *source_merge_resume*: the watermark that a resuming channel releases is
   discarded, so `Current()` is not what was last emitted.

### Observations

These are outside what the repository promises, and are no findings.

- A process killed between the manifest's rename and the directory's sync leaves a
  manifest that the next process accepts without syncing it. A later loss of power
  may keep a synced checkpoint and lose the manifest, after which the job is refused
  (`checkpoint/job_manifest.cpp:125`). `ManifestGuards` excludes this case through
  `unsure`. `src/docs/hardening-audit.md:47` puts the durability of directory entries
  outside the tested guarantee.
- Likewise a checkpoint whose writer is killed between rename and directory sync is
  restored by the next process without being synced; a loss of power can take it
  back, and the job resumes earlier. This is harmless: nothing was pruned for it.
- `src/docs/chandy-lamport.md:88` calls simultaneous initiation of one epoch supported.
  It is, between participants that no marker of the epoch has reached (`JoinEpoch`, and
  `src/test/chandy_lamport_test.cpp:76`). One that is asked after a marker has come is
  poisoned (`snapshot/chandy_lamport.cpp:28`, `:50`), which no caller in the repository
  does.
- Whether a pane's sum overflows depends on the order of its records. A restored
  aggregator replays the channel log without the messages that its earlier run had
  interleaved with it after the cut, so a sum that stayed in range may leave it in
  the replay, and the restore throws (`snapshot/chandy_lamport.cpp:131`). `Acceptable`
  excludes this by asking for every prefix of the inputs.

## 7. What is not modelled

- Bytes: the encodings of checkpoints, rows, manifests, snapshots and frames, and
  their checksums. Their verdict is modelled.
- TCP connection set-up (`ListenTcp`, `ConnectTcp`, `AcceptTcp`): a sequence of
  system calls before any protocol state exists.
- Timeouts of the snapshot demo's supervisor: they end in the restart that `Crash`
  is.
- Statistics other than dropped records, sinks other than the durable one, the
  stopping source (a test's simulated kill).
- The test harnesses and programs: nemesis kills real processes, which `Crash` and
  `PowerLoss` do here; the differential harness compares engine and oracle on
  generated inputs, which `ImplementsOracle` states for all; benchmarks and command
  line keep no state of the system. They make up most of the lines no module maps.

## 8. Plan

Done, in this order: assigners, keyed state, operator and oracle, with proofs;
checkpoints and the single-threaded job; the partitioned job's recovery and
threads; source merge; global snapshots; then the job manifest, torn rows and losses
of power in `Pipeline`, condition variables in `PartitionedThreads`, the window
operator as the application of `ChandyLamport`, and the transport with its
refinement of FIFO channels; then the proofs, module by module as in section 5.

What is left: the liveness properties and the numeric bounds of `Pipeline`'s `TypeOK`,
which stay with TLC (section 5), and the parts of section 7.
