--------------------------- MODULE PipelineProofs ---------------------------
(***************************************************************************)
(* The recovery of the single-threaded job is right for every source, every *)
(* window geometry and lateness, every batch size and cadence, and any      *)
(* number of crashes, failed writes, losses of power, stops and restarts:   *)
(* the state is the one of an uninterrupted run, no result is lost, and the *)
(* job ends with the results of an uninterrupted run.                       *)
(***************************************************************************)
EXTENDS Pipeline, ReplayProofs

-----------------------------------------------------------------------------
(***************************************************************************)
(* The inductive invariant.                                                *)
(*                                                                         *)
(* History is the uninterrupted run on the records drawn, a running job is *)
(* inside it, and the source has drawn every record pulled, none twice.    *)
(***************************************************************************)
RunOK ==
    /\ log \in Seq(Records) /\ Len(log) =< NumRecords /\ Past(history, log)
    /\ pos \in 0..NumRecords /\ applied \in 0..pos
    /\ Chain(source, log, pos)
    /\ Alive => pos =< Len(log) /\ applied < Len(history)

\* The operator is where the uninterrupted run is after as many records; a
\* checkpoint is written for the records applied, behind their results.
ProcessOK ==
    /\ mode \in Modes /\ stop \in {"none", "final", "suspend"}
    /\ mode \in {"running", "suspending"} =>
          state = After(applied).state /\ watermark = After(applied).watermark
    /\ torn \in BOOLEAN /\ (Alive \/ (job = "own" /\ Starting) => ~torn)
    /\ latest \in [Slots -> Counted] /\ outbox \in [Slots -> Counted]
    /\ \/ writing = Idle
       \/ /\ mode \in {"running", "suspending"}
          /\ writing.phase \in {"due", "tmp", "renamed", "pruning"}
          /\ writing = [phase |-> writing.phase, offset |-> applied]
          /\ writing.phase # "due" => outbox = NoResults

\* A file is what was captured at its offset, whether its bytes are still good
\* or not.
IsCheckpoint(f) ==
    /\ f.offset \in Nat /\ f.offset < Len(history) /\ f.crc_ok \in BOOLEAN
    /\ f = [offset |-> f.offset, crc_ok |-> f.crc_ok,
            data |-> Capture(After(f.offset).state, After(f.offset).watermark, f.offset)]

\* Two files of the directory have higher offsets.
TwoNewer(o) == \E f, g \in files : f.offset > o /\ g.offset > o /\ f.offset # g.offset

\* A file unlinked or replaced since the last sync has two newer ones, or was
\* rotten and has been written again.
FilesOK ==
    /\ synced = [files |-> synced.files, manifest |-> synced.manifest, foreign |-> synced.foreign]
    /\ \A f \in files \cup synced.files : IsCheckpoint(f)
    /\ \A f, g \in files : f.offset = g.offset => f = g
    /\ \A h \in synced.files : \/ h \in files \/ TwoNewer(h.offset)
                               \/ ~h.crc_ok /\ \E f \in files : f.offset = h.offset
    /\ \/ reported = None
       \/ reported \in Nat /\ ((\E f \in files : f.offset = reported) \/ TwoNewer(reported))
    /\ writing.phase \in {"renamed", "pruning"} =>
          (\E f \in files : f.offset = applied) \/ TwoNewer(applied)
    /\ writing.phase = "pruning" => files \subseteq synced.files

\* Whose directory it is.
OwnerOK ==
    /\ job \in {"own", "other"} /\ unsure \in BOOLEAN
    /\ manifest \in {"none", "own", "other"} /\ synced.manifest \in {"none", manifest}
    /\ foreign \in BOOLEAN /\ synced.foreign \in BOOLEAN /\ (synced.foreign => foreign)
    /\ manifest = "own" => ~foreign
    /\ files # {} => manifest # "other" /\ ~foreign
    /\ mode = "creating" => manifest = "none" /\ files = {} /\ ~foreign
    /\ mode = "created" => files = {} /\ ~foreign
    /\ mode \in {"created", "restoring", "foreign"} => manifest = job
    /\ mode = "foreign" => job = "other"
    /\ Alive => manifest = "own"
    /\ ~unsure => /\ manifest = synced.manifest \/ mode = "created"
                  /\ files # {} \/ foreign => manifest # "none"

IInv == RunOK /\ ProcessOK /\ FilesOK /\ OwnerOK /\ ManifestGuards

(***************************************************************************)
(* With at most one rotten file: nothing the sink shows is behind a file   *)
(* that loads, in the directory or in what a loss of power may restore,    *)
(* and no such file is ahead of the running job.                           *)
(***************************************************************************)
RotOK ==
    /\ corruptions \in 0..MaxCorruptions
    /\ corruptions = 0 => \A f \in files \cup synced.files : f.crc_ok
    /\ \A f, g \in files \cup synced.files : ~f.crc_ok /\ ~g.crc_ok => f.offset = g.offset

ShowsAll(n) == \A s \in Slots : Shows(history, latest, s, n)

\* What is still to be emitted for a slot of a running job, and of a job that
\* fires everything at its end.
Pending(s) == /\ outbox[s].count > 0 => outbox[s] = After(applied).latest[s]
              /\ ~(outbox[s].count > 0) => Shows(history, latest, s, applied)
Flushing(s) ==
    LET st == After(applied).state
    IN  /\ s \in FlushEmits(st) => \/ outbox[s] = st.panes[s]
                                   \/ ~(outbox[s].count > 0) /\ latest[s] = st.panes[s]
        /\ s \notin FlushEmits(st) => ~(outbox[s].count > 0) /\ Shows(history, latest, s, applied)

OutputOK ==
    /\ ShowsAll(0)
    /\ \A f \in files \cup synced.files : f.crc_ok => ShowsAll(f.offset)
    /\ Alive => \A f \in files \cup synced.files : f.crc_ok => f.offset =< applied
    /\ mode \in {"running", "suspending"} => \A s \in Slots : Pending(s)
    /\ mode = "flushing" => \A s \in Slots : Flushing(s)
    /\ mode = "flushing" /\ stop = "none" => applied = NumRecords
    /\ CompletesExact

OutInv == RotOK /\ OutputOK

-----------------------------------------------------------------------------
(***************************************************************************)
(* The steps that only lose the process, and those that leave the run      *)
(* where it is.                                                            *)
(***************************************************************************)
Loses == Crash \/ CrashInEmit \/ PowerLoss \/ WriteFails

\* Steps of the directory and its owner, before and after a run.
Stands == \/ OpenOwn \/ OpenForeign \/ RenameManifest \/ SyncManifest \/ ForeignRuns \/ ForeignEnds

\* Steps of the writer behind a barrier.
Writes == WriteTmp \/ RenameTmp \/ SyncDirectory \/ PruneOne \/ WriteDone

Requests == \E how \in {"final", "suspend"} : RequestStop(how)
Rots == \E f \in files : Corrupt(f)
Emits == \E s \in Slots : EmitResult(s)

LEMMA NextCases ==
    [Next]_vars => \/ Loses \/ Stands \/ Start \/ Requests \/ Rots \/ Emits \/ Writes
                   \/ PullBatch \/ ApplyNext \/ BeginSuspend \/ BeginFinalFlush \/ FlushDone
                   \/ UNCHANGED vars
  BY DEF Next, Begin, Run, Work, Loses, Stands, Requests, Rots, Emits, Writes

\* Modes of a process that is gone or has not begun to run.
LEMMA Modality ==
    /\ Loses => mode' = "down"
    /\ Stands => mode' \in {"down", "creating", "created", "restoring", "foreign", "refused"}
  BY DEF Loses, Crash, CrashInEmit, PowerLoss, WriteFails, LoseProcess,
         Stands, OpenOwn, OpenForeign, Open, ValidateOrCreateJobManifest, RenameManifest,
         SyncManifest, ForeignRuns, ForeignEnds

\* What each kind of step leaves alone.
LEMMA LosesFrame ==
    ASSUME Loses
    PROVE  /\ mode' = "down" /\ pos' = 0 /\ source' = <<NewGenerator>> /\ applied' = 0
           /\ outbox' = NoResults
           /\ writing' = Idle /\ stop' = "none" /\ reported' = None
           /\ UNCHANGED <<log, history, latest, corruptions, job>>
           /\ torn' \in {torn, TRUE}
           /\ \/ UNCHANGED <<files, manifest, foreign, synced>>
              \/ /\ PowerLoss /\ UNCHANGED unsure
                 /\ files' \in Survivors(files, synced.files)
                 /\ manifest' \in {manifest, synced.manifest}
                 /\ foreign' \in {foreign, synced.foreign}
                 /\ synced' = [files |-> files', manifest |-> manifest', foreign |-> foreign']
  BY DEF Loses, Crash, CrashInEmit, PowerLoss, WriteFails, LoseProcess, disk, sink, owner,
         ghost

LEMMA StandsFrame ==
    ASSUME Stands
    PROVE  /\ UNCHANGED <<process, files, latest, ghost, corruptions>>
           /\ torn' \in {torn, FALSE}
  BY DEF Stands, OpenOwn, OpenForeign, Open, RenameManifest, SyncManifest, ForeignRuns,
         ForeignEnds, sink, owner, bounds, CutTornTail

LEMMA WritesFrame ==
    ASSUME Writes, ProcessOK
    PROVE  /\ mode \in {"running", "suspending"}
           /\ UNCHANGED <<pos, source, applied, state, watermark, outbox, stop, sink, owner, ghost,
                          corruptions>>
           /\ mode' \in {mode, "suspended"}
           /\ writing = [phase |-> writing.phase, offset |-> applied]
           /\ writing.phase # "due" => outbox = NoResults
<1>1. writing.phase # "idle"
  BY DEF Writes, WriteTmp, RenameTmp, SyncDirectory, PruneOne, WriteDone
<1>2. writing # Idle
  BY <1>1 DEF Idle
<1>3. /\ mode \in {"running", "suspending"}
      /\ writing = [phase |-> writing.phase, offset |-> applied]
      /\ writing.phase # "due" => outbox = NoResults
  BY <1>2 DEF ProcessOK
<1>4. /\ UNCHANGED <<pos, source, applied, state, watermark, outbox, stop, sink, owner, ghost,
                     corruptions>>
      /\ mode' \in {mode, "suspended"}
  BY DEF Writes, WriteTmp, RenameTmp, SyncDirectory, PruneOne, WriteDone, process, disk, sink,
         owner, ghost, bounds
<1> QED BY <1>3, <1>4

-----------------------------------------------------------------------------
(***************************************************************************)
(* The run.                                                                *)
(***************************************************************************)
LEMMA RunFrame ==
    ASSUME RunOK, UNCHANGED <<pos, source, applied, log, history>>, Alive' => Alive
    PROVE  RunOK'
  BY DEF RunOK

\* A file names a point of the run.
LEMMA CheckpointFacts ==
    ASSUME RunOK, NEW f, IsCheckpoint(f)
    PROVE  /\ f.offset \in Nat /\ f.offset < Len(history) /\ Len(history) \in Nat
           /\ f.offset =< NumRecords /\ f.offset =< Len(log)
           /\ f.data.offset = f.offset
           /\ f.data.watermark = After(f.offset).watermark
           /\ After(f.offset).watermark \in Int /\ After(f.offset).watermark >= MinTime
           /\ RestoreState(f.data) = After(f.offset).state
           /\ Loadable(f) <=> f.crc_ok
<1>1. PICK st, wm, o, d : /\ o = f.offset /\ st = After(o).state /\ wm = After(o).watermark
                          /\ d = Capture(st, wm, o)
  OBVIOUS
<1>2. o \in Nat /\ o < Len(history) /\ f = [offset |-> o, crc_ok |-> f.crc_ok, data |-> d]
  BY <1>1 DEF IsCheckpoint
<1>3. Past(history, log) /\ log \in Seq(Records) /\ Len(log) =< NumRecords
  BY DEF RunOK
<1>4. Len(history) \in Nat /\ Len(log) \in Nat /\ NumRecords \in Nat
  BY <1>3, LenProperties, SourceAssumption DEF Past
<1>5. Len(history) =< Len(log) + 1
  BY <1>3 DEF Past
<1>6. Sound(st) /\ wm \in Int /\ wm >= MinTime
  BY <1>1, <1>2, <1>3, PastPoints DEF After
<1>7. RestoreState(d) = st /\ Loadable(File(d))
  BY <1>1, <1>6, RoundTrip
<1>8. f.data = d /\ d.offset = o /\ d.watermark = wm
  BY <1>1, <1>2 DEF Capture
<1>9. d.refired \subseteq d.fired
  BY <1>7 DEF Loadable, File
<1>10. Loadable(f) <=> f.crc_ok
  BY <1>8, <1>9 DEF Loadable
<1>11. o =< NumRecords /\ o =< Len(log)
  BY <1>2, <1>3, <1>4, <1>5
<1> QED BY <1>1, <1>2, <1>4, <1>6, <1>7, <1>8, <1>10, <1>11

\* What Start restores: nothing, or the newest file that loads.
LEMMA StartFacts ==
    ASSUME IInv, Start
    PROVE  /\ mode' = "running" /\ outbox' = NoResults /\ writing' = Idle /\ stop' = "none"
           /\ UNCHANGED <<files, latest, torn, manifest, foreign, job, synced, log, history,
                          unsure, corruptions>>
           /\ manifest = "own"
           /\ pos' = applied' /\ applied' \in Nat /\ applied' < Len(history)
           /\ Chain(source', log, pos')
           /\ applied' =< NumRecords /\ applied' =< Len(log)
           /\ state' = After(applied').state /\ watermark' = After(applied').watermark
           /\ \/ applied' = 0 /\ reported' = None /\ LoadLatest(files) = {}
              \/ /\ reported' = applied'
                 /\ \E f \in LoadLatest(files) : f.offset = applied'
<1>1. /\ mode' = "running" /\ outbox' = NoResults /\ writing' = Idle /\ stop' = "none"
      /\ UNCHANGED <<files, latest, torn, manifest, foreign, job, synced, log, history, unsure,
                     corruptions>>
      /\ manifest = "own"
  BY DEF Start, sink, owner, ghost, bounds, IInv, OwnerOK
<1>2. RunOK /\ Past(history, log) /\ log \in Seq(Records)
  BY DEF IInv, RunOK
<1>3. CASE LoadLatest(files) = {}
  <2>1. /\ state' = EmptyState /\ watermark' = MinTime
        /\ pos' = 0 /\ source' = <<NewGenerator>> /\ applied' = 0 /\ reported' = None
    BY <1>3 DEF Start
  <2>2. Len(history) \in Nat /\ 0 < Len(history) /\ history[1] = NewHistory[1] /\ Len(log) \in Nat
    BY <1>2, LenProperties DEF Past
  <2>3. After(0) = NewHistory[1]
    BY <2>2 DEF After
  <2>4. After(0).state = EmptyState /\ After(0).watermark = MinTime
    BY <2>3 DEF NewHistory
  <2>5. 0 =< NumRecords /\ 0 =< Len(log)
    BY <2>2, SourceAssumption
  <2> QED BY <1>1, <1>3, <2>1, <2>2, <2>4, <2>5, ChainStarts
<1>4. CASE LoadLatest(files) # {}
  <2>1. PICK f \in LoadLatest(files) : RestoreFrom(f.data)
    BY <1>4 DEF Start
  <2>2. f \in files /\ IsCheckpoint(f)
    BY <2>1 DEF LoadLatest, IInv, FilesOK
  <2>3. PICK o, wm : o = f.offset /\ wm = After(o).watermark
    OBVIOUS
  <2>4. /\ o \in Nat /\ o < Len(history) /\ o =< NumRecords /\ o =< Len(log)
        /\ f.data.offset = o /\ f.data.watermark = wm /\ wm \in Int /\ wm >= MinTime
        /\ RestoreState(f.data) = After(o).state
    BY <1>2, <2>2, <2>3, CheckpointFacts
  <2>5. Max({MinTime, wm}) = wm
    <3>1. MinTime \in Int
      BY WindowAssumption
    <3>2. Max({MinTime, wm}) = IF MinTime >= wm THEN MinTime ELSE wm
      BY <2>4, <3>1, MaxOfTwo
    <3> QED BY <2>4, <3>1, <3>2
  <2>6. /\ state' = After(o).state /\ watermark' = wm /\ pos' = o /\ applied' = o
        /\ reported' = o /\ source' = Seek(log, o)
    BY <2>1, <2>4, <2>5 DEF RestoreFrom
  <2>7. Chain(Seek(log, o), log, o)
    BY <1>2, <2>4, SeekChain
  <2> QED BY <1>1, <2>1, <2>3, <2>4, <2>6, <2>7
<1> QED BY <1>3, <1>4

\* The run after a longer history is the same as far as it went.
Continues(h, g) == Len(h) \in Nat /\ Len(g) \in Nat /\ Len(h) =< Len(g)
                   /\ \A i \in 1..Len(h) : g[i] = h[i]

\* The next record takes the job to the next point of the run, which is drawn
\* now or was drawn before a restart.
LEMMA ApplyFacts ==
    ASSUME IInv, ApplyNext
    PROVE  /\ mode = "running" /\ outbox = NoResults /\ writing = Idle
           /\ applied' = applied + 1 /\ applied' =< pos
           /\ UNCHANGED <<mode, pos, source, stop, reported, files, latest, torn, job,
                          manifest, foreign, synced, log, unsure, corruptions>>
           /\ Past(history', log) /\ Continues(history, history')
           /\ Len(history') =< Len(history) + 1 /\ applied' < Len(history')
           /\ \E a : /\ a = RunItems(history'[applied'].state, history'[applied'].watermark,
                                     log[applied'], history'[applied' + 1].source, Keys)
                     /\ outbox' = a.results /\ outbox' \in [Slots -> Counted]
           /\ state' = history'[applied' + 1].state /\ watermark' = history'[applied' + 1].watermark
           /\ writing' = Idle \/ writing' = [phase |-> "due", offset |-> applied']
<1>1. PICK n, k \in Nat : n = applied + 1 /\ k = Len(history) /\ applied \in Nat
  <2>1. applied \in Nat
    BY SourceAssumption DEF IInv, RunOK
  <2>2. Len(history) \in Nat
    BY LenProperties DEF IInv, RunOK, Past
  <2> QED BY <2>1, <2>2
<1>2. /\ mode = "running" /\ outbox = NoResults /\ writing = Idle /\ applied < pos
      /\ applied' = n
      /\ UNCHANGED <<mode, pos, source, stop, reported, files, latest, torn, job, manifest,
                     foreign, synced, log, unsure, corruptions>>
      /\ writing' = Idle \/ writing' = [phase |-> "due", offset |-> source[n + 1].offset]
  BY <1>1 DEF ApplyNext, CanApply, disk, sink, owner, bounds
<1>3. /\ Past(history, log) /\ log \in Seq(Records) /\ pos \in Nat /\ pos =< Len(log)
      /\ applied < k /\ Len(log) \in Nat /\ k =< Len(log) + 1 /\ Chain(source, log, pos)
  BY <1>1, <1>2, LenProperties, SourceAssumption DEF IInv, RunOK, Alive, Past
<1>4. /\ state = history[n].state /\ watermark = history[n].watermark
  BY <1>1, <1>2 DEF IInv, ProcessOK, After
<1>5. PICK d : d = source[n + 1] /\ d.offset = n
  <2>1. n \in 0..pos
    BY <1>1, <1>2, <1>3
  <2> QED BY <1>3, <2>1, ChainOffset
<1>6. PICK a : a = RunItems(history[n].state, history[n].watermark, log[n], d, Keys)
  OBVIOUS
<1>7. state' = a.state /\ watermark' = a.watermark /\ outbox' = a.results
  BY <1>1, <1>4, <1>5, <1>6 DEF ApplyNext
<1>8. PICK g : g = history'
  OBVIOUS
<1>9. /\ Past(g, log) /\ Continues(history, g) /\ Len(g) =< k + 1 /\ n < Len(g)
  <2>1. CASE n < k
    <3>1. g = history
      BY <1>1, <1>8, <2>1 DEF ApplyNext
    <3> QED BY <1>1, <1>3, <2>1, <3>1 DEF Continues
  <2>2. CASE ~(n < k)
    <3>1. n = k /\ k =< Len(log)
      BY <1>1, <1>2, <1>3, <2>2
    <3>2. g = Extend(history, log, Len(history))
      BY <1>1, <1>8, <2>2, <3>1 DEF ApplyNext
    <3>3. /\ Past(g, log) /\ Len(g) = Len(history) + 1
          /\ \A i \in 1..Len(history) : g[i] = history[i]
      BY <1>1, <1>3, <3>1, <3>2, PastExtends
    <3> QED BY <1>1, <3>1, <3>3 DEF Continues
  <2> QED BY <2>1, <2>2
<1>10. g[n] = history[n] /\ n \in 1..(Len(g) - 1)
  <2>1. n \in 1..k /\ Len(g) \in Nat
    BY <1>1, <1>3, <1>9 DEF Continues
  <2> QED BY <1>1, <1>9, <2>1 DEF Continues
<1>11. g[n + 1] = Point(g[n], log[n])
  BY <1>9, <1>10 DEF Past
<1>12. g[n + 1].source = d /\ d = Drawn(g[n].source, log[n])
  <2>1. n < Len(g) /\ n =< pos
    BY <1>1, <1>2, <1>3, <1>9
  <2>2. source[n + 1] = g[n + 1].source
    BY <1>1, <1>3, <1>9, <2>1, PastChain
  <2>3. g[n + 1].source = Drawn(g[n].source, log[n])
    BY <1>11 DEF Point
  <2> QED BY <1>5, <2>2, <2>3
<1>13. g[n + 1].state = a.state /\ g[n + 1].watermark = a.watermark
  BY <1>6, <1>10, <1>11, <1>12 DEF Point
<1>14. a.results \in [Slots -> Counted]
  <2>1. PICK x, w, r : x = history[n].state /\ w = history[n].watermark /\ r = log[n]
    OBVIOUS
  <2>2. Sound(x) /\ w \in Int
    BY <1>1, <1>3, <2>1, PastPoints
  <2>3. n \in 1..Len(log)
    BY <1>1, <1>2, <1>3
  <2>4. r \in Records
    BY <1>3, <2>1, <2>3, ElementOfSeq
  <2>5. d \in Generators
    <3>1. n < Len(g)
      BY <1>9
    <3> QED BY <1>1, <1>9, <1>12, <3>1, PastPoints
  <2>6. a = RunItems(x, w, r, d, Keys)
    BY <1>6, <2>1
  <2> QED BY <2>2, <2>4, <2>5, <2>6, RunItemsSound
<1>15. applied' =< pos
  BY <1>1, <1>2, <1>3
<1>16. a = RunItems(g[n].state, g[n].watermark, log[n], g[n + 1].source, Keys)
  BY <1>6, <1>10, <1>12
<1> QED BY <1>1, <1>2, <1>5, <1>7, <1>8, <1>9, <1>13, <1>14, <1>15, <1>16

LEMMA ConcatLen == \A a, b \in Seq(Records) : Len(a \o b) = Len(a) + Len(b)
  BY ConcatProperties

\* A batch ends inside the input and draws the records it lacks.
LEMMA PullFacts ==
    ASSUME IInv, PullBatch
    PROVE  /\ pos' \in 0..NumRecords /\ pos' > pos
           /\ \E new \in Seq(Records) : /\ log' = log \o new
                                        /\ Len(log') =< NumRecords /\ pos' =< Len(log')
           /\ source' = Draw(source, log', pos')
           /\ UNCHANGED <<mode, applied, state, watermark, outbox, writing, stop, reported, files,
                          latest, torn, job, manifest, foreign, synced, history, unsure,
                          corruptions>>
<1>1. /\ pos' = BatchEnd(pos) /\ pos < NumRecords /\ source' = Draw(source, log', pos')
      /\ UNCHANGED <<mode, applied, state, watermark, outbox, writing, stop, reported, files,
                     latest, torn, job, manifest, foreign, synced, history, unsure, corruptions>>
  BY DEF PullBatch, disk, sink, owner, bounds
<1>2. pos \in Nat /\ NumRecords \in Nat /\ BatchSize \in Nat /\ BatchSize > 0
  BY SourceAssumption, PipelineAssumption DEF IInv, RunOK
<1>3. Min({pos + BatchSize, NumRecords}) =
         IF pos + BatchSize =< NumRecords THEN pos + BatchSize ELSE NumRecords
  BY <1>2, MinOfTwo
<1>4. pos' \in 0..NumRecords /\ pos' > pos
  BY <1>1, <1>2, <1>3 DEF BatchEnd
<1>5. log \in Seq(Records) /\ Len(log) \in Nat /\ Len(log) =< NumRecords
  BY LenProperties DEF IInv, RunOK
<1>6. PICK k : k = Max({0, pos' - Len(log)})
  OBVIOUS
<1>7. k \in Nat /\ k = (IF 0 >= pos' - Len(log) THEN 0 ELSE pos' - Len(log))
  <2>1. PICK z \in Int : z = pos' - Len(log)
    BY <1>2, <1>4, <1>5
  <2>2. Max({0, z}) = IF 0 >= z THEN 0 ELSE z
    BY MaxOfTwo
  <2> QED BY <1>6, <2>1, <2>2
<1>8. PICK new \in [1..k -> Records] : log' = log \o new
  BY <1>6 DEF PullBatch
<1>9. new \in Seq(Records) /\ Len(new) = k
  <2>1. new \in Seq(Records)
    BY <1>7, <1>8, SeqDef
  <2>2. DOMAIN new = 1..k
    BY <1>8
  <2>3. Len(new) = k
    BY <1>7, <2>1, <2>2, LenProperties
  <2> QED BY <2>1, <2>3
<1>10. Len(log') = Len(log) + k
  <2>1. Len(log \o new) = Len(log) + Len(new)
    BY <1>5, <1>9, ConcatLen
  <2> QED BY <1>8, <1>9, <2>1
<1>11. Len(log') =< NumRecords /\ pos' =< Len(log')
  BY <1>2, <1>4, <1>5, <1>7, <1>10
<1> QED BY <1>1, <1>4, <1>8, <1>9, <1>11

LEMMA RunStep == IInv /\ [Next]_vars => RunOK'
<1> SUFFICES ASSUME IInv, [Next]_vars PROVE RunOK'
  OBVIOUS
<1>0. RunOK /\ NumRecords \in Nat
  BY SourceAssumption DEF IInv
<1>1. CASE Loses
  <2>1. /\ mode' = "down" /\ pos' = 0 /\ source' = <<NewGenerator>> /\ applied' = 0
        /\ UNCHANGED <<log, history>>
    BY <1>1, LosesFrame
  <2>2. Chain(source', log', pos')
    BY <2>1, ChainStarts
  <2> QED BY <1>0, <2>1, <2>2 DEF RunOK, Alive
<1>2. CASE Stands
  <2>1. UNCHANGED <<pos, source, applied, log, history>>
    BY <1>2, StandsFrame DEF process, ghost
  <2>2. ~Alive'
    BY <1>2, Modality DEF Alive
  <2> QED BY <1>0, <2>1, <2>2, RunFrame
<1>3. CASE Start
  <2>1. /\ UNCHANGED <<log, history>> /\ pos' = applied' /\ applied' \in Nat
        /\ applied' < Len(history) /\ applied' =< NumRecords /\ applied' =< Len(log)
        /\ Chain(source', log, pos')
    BY <1>3, StartFacts
  <2>2. pos' \in 0..NumRecords /\ applied' \in 0..pos'
    BY <1>0, <2>1
  <2>3. /\ log' \in Seq(Records) /\ Len(log') =< NumRecords /\ Past(history', log')
        /\ pos' =< Len(log') /\ applied' < Len(history') /\ Chain(source', log', pos')
    BY <1>0, <2>1 DEF RunOK
  <2> QED BY <2>2, <2>3 DEF RunOK
<1>4. CASE Requests \/ Rots \/ Emits \/ BeginSuspend \/ BeginFinalFlush \/ FlushDone \/ UNCHANGED vars
  <2>1. UNCHANGED <<pos, source, applied, log, history>>
    BY <1>4 DEF Requests, Rots, Emits, RequestStop, Corrupt, EmitResult, BeginSuspend,
                BeginFinalFlush, FlushDone, vars, process, ghost
  <2>2. Alive' => Alive
    BY <1>4 DEF Requests, Rots, Emits, RequestStop, Corrupt, EmitResult, BeginSuspend,
                BeginFinalFlush, FlushDone, vars, Alive
  <2> QED BY <1>0, <2>1, <2>2, RunFrame
<1>5. CASE Writes
  <2>1. UNCHANGED <<pos, source, applied, log, history>> /\ mode \in {"running", "suspending"}
    BY <1>5, WritesFrame DEF ghost, IInv
  <2> QED BY <1>0, <2>1, RunFrame DEF Alive
<1>6. CASE PullBatch
  <2>1. PICK new \in Seq(Records) : /\ log' = log \o new
                                    /\ Len(log') =< NumRecords /\ pos' =< Len(log')
    BY <1>6, PullFacts
  <2>2. pos' \in 0..NumRecords /\ pos' > pos /\ UNCHANGED <<mode, applied, history>>
    BY <1>6, PullFacts
  <2>3. mode = "running"
    BY <1>6 DEF PullBatch
  <2>4. Past(history, log')
    BY <1>0, <2>1, PastGrows DEF RunOK
  <2>5. log' \in Seq(Records)
    BY <1>0, <2>1 DEF RunOK
  <2>6. applied' \in 0..pos' /\ applied' < Len(history')
    BY <1>0, <2>2, <2>3 DEF RunOK, Alive
  <2>7. Chain(source', log', pos')
    <3>1. pos \in Nat /\ pos' \in Nat /\ pos =< pos' /\ pos =< Len(log)
      BY <1>0, <2>2, <2>3 DEF RunOK, Alive
    <3>2. \A i \in 1..pos : log'[i] = log[i]
      <4>1. log \in Seq(Records) /\ Len(log) \in Nat
        BY <1>0, LenProperties DEF RunOK
      <4>2. \A i \in 1..Len(log) : (log \o new)[i] = log[i]
        BY <4>1, ConcatProperties
      <4> QED BY <2>1, <3>1, <4>1, <4>2
    <3>3. Chain(source, log', pos)
      BY <1>0, <3>1, <3>2, ChainReads DEF RunOK
    <3>4. source' = Draw(source, log', pos')
      BY <1>6, PullFacts
    <3> QED BY <2>1, <2>5, <3>1, <3>3, <3>4, DrawChain
  <2> QED BY <2>1, <2>2, <2>4, <2>5, <2>6, <2>7 DEF RunOK
<1>7. CASE ApplyNext
  <2>1. /\ applied' = applied + 1 /\ applied' =< pos /\ UNCHANGED <<mode, pos, source, log>>
        /\ Past(history', log) /\ applied' < Len(history') /\ mode = "running"
    BY <1>7, ApplyFacts
  <2>2. applied' \in 0..pos'
    BY <1>0, <2>1 DEF RunOK
  <2>3. pos' =< Len(log')
    BY <1>0, <2>1 DEF RunOK, Alive
  <2> QED BY <1>0, <2>1, <2>2, <2>3 DEF RunOK
<1> QED BY <1>1, <1>2, <1>3, <1>4, <1>5, <1>6, <1>7, NextCases

-----------------------------------------------------------------------------
(***************************************************************************)
(* The operator and the writer.                                            *)
(***************************************************************************)
LEMMA ProcessStep == IInv /\ [Next]_vars => ProcessOK'
<1> SUFFICES ASSUME IInv, [Next]_vars PROVE ProcessOK'
  OBVIOUS
<1>0. ProcessOK /\ NoResults \in [Slots -> Counted]
  BY EmptySound DEF IInv, NoResults
<1>1. CASE Loses
  <2>1. /\ mode' = "down" /\ outbox' = NoResults /\ writing' = Idle /\ stop' = "none"
        /\ UNCHANGED latest /\ torn' \in {torn, TRUE}
    BY <1>1, LosesFrame
  <2> QED BY <1>0, <2>1 DEF ProcessOK, Modes, Alive, Starting
<1>2. CASE Stands
  <2>1. /\ UNCHANGED <<outbox, writing, stop, latest>> /\ torn' \in {torn, FALSE}
        /\ mode' \in {"down", "creating", "created", "restoring", "foreign", "refused"}
    BY <1>2, StandsFrame, Modality DEF process
  <2>2. writing = Idle
    <3>1. mode \notin {"running", "suspending"}
      BY <1>2 DEF Stands, OpenOwn, OpenForeign, Open, RenameManifest, SyncManifest,
                  ForeignRuns, ForeignEnds
    <3> QED BY <1>0, <3>1 DEF ProcessOK
  <2>3. job' = "own" /\ Starting' => ~torn'
    <3>1. CASE OpenOwn \/ OpenForeign
      BY <3>1 DEF OpenOwn, OpenForeign, Open, CutTornTail
    <3>2. CASE RenameManifest \/ SyncManifest \/ ForeignRuns
      <4>1. UNCHANGED <<job, torn>> /\ Starting
        BY <3>2 DEF RenameManifest, SyncManifest, ForeignRuns, Starting, sink, owner
      <4> QED BY <1>0, <4>1 DEF ProcessOK
    <3>3. CASE ForeignEnds
      BY <3>3 DEF ForeignEnds, Starting
    <3> QED BY <1>2, <3>1, <3>2, <3>3 DEF Stands
  <2> QED BY <1>0, <2>1, <2>2, <2>3 DEF ProcessOK, Modes, Alive
<1>3. CASE Start
  <2>1. /\ mode' = "running" /\ outbox' = NoResults /\ writing' = Idle /\ stop' = "none"
        /\ UNCHANGED <<latest, torn, history>>
        /\ state' = After(applied').state /\ watermark' = After(applied').watermark
    BY <1>3, StartFacts
  <2>2. ~torn
    BY <1>0, <1>3 DEF Start, ProcessOK, Starting
  <2>3. state' = After(applied)'.state /\ watermark' = After(applied)'.watermark
    BY <2>1 DEF After
  <2> QED BY <1>0, <2>1, <2>2, <2>3 DEF ProcessOK, Modes, Alive
<1>4. CASE Requests \/ Rots \/ UNCHANGED vars
  <2>1. /\ UNCHANGED <<mode, applied, state, watermark, outbox, writing, latest, torn, job, history>>
        /\ stop' \in {stop, "final", "suspend"}
    BY <1>4 DEF Requests, Rots, RequestStop, Corrupt, vars, process, disk, sink, owner, ghost
  <2> QED BY <1>0, <2>1 DEF ProcessOK, After, Alive, Starting
<1>5. CASE Emits
  <2>1. PICK s \in Slots : EmitResult(s)
    BY <1>5 DEF Emits
  <2>2. /\ UNCHANGED <<mode, applied, state, watermark, writing, stop, torn, job, history>>
        /\ latest' = IF torn THEN latest ELSE [latest EXCEPT ![s] = outbox[s]]
        /\ outbox' = [outbox EXCEPT ![s] = NoPane] /\ outbox[s].count > 0
    BY <2>1 DEF EmitResult, AppendRow, owner, ghost
  <2>3. latest' \in [Slots -> Counted] /\ outbox' \in [Slots -> Counted]
    BY <1>0, <2>2, EmptySound DEF ProcessOK
  <2>4. outbox # NoResults
    BY <2>2, EmptySound DEF NoResults
  <2> QED BY <1>0, <2>2, <2>3, <2>4 DEF ProcessOK, After, Alive, Starting
<1>6. CASE BeginSuspend
  <2>1. /\ mode = "running" /\ mode' = "suspending" /\ applied = pos /\ outbox = NoResults
        /\ writing' = [phase |-> "due", offset |-> CurrentOffset(source)]
        /\ UNCHANGED <<applied, state, watermark, outbox, stop, latest, torn, history>>
    BY <1>6 DEF BeginSuspend, BatchDone, disk, sink, ghost
  <2>0. CurrentOffset(source) = pos
    <3>1. pos \in Nat /\ Chain(source, log, pos)
      BY SourceAssumption DEF IInv, RunOK
    <3> QED BY <3>1, ChainOffset
  <2>2. writing'.phase = "due" /\ writing' = [phase |-> writing'.phase, offset |-> applied']
    BY <2>0, <2>1
  <2> QED BY <1>0, <2>1, <2>2 DEF ProcessOK, After, Alive, Modes
<1>7. CASE BeginFinalFlush
  <2>1. /\ mode = "running" /\ mode' = "flushing" /\ writing = Idle
        /\ outbox' = FlushResults(state)
        /\ UNCHANGED <<applied, writing, stop, latest, torn, history>>
    BY <1>7 DEF BeginFinalFlush, BatchDone, disk, sink, ghost
  <2>2. Sound(state)
    <3>1. /\ Past(history, log) /\ applied \in Nat /\ applied < Len(history)
      BY <2>1, SourceAssumption DEF IInv, RunOK, Alive
    <3>2. Sound(After(applied).state)
      BY <3>1, PastPoints DEF After
    <3> QED BY <1>0, <2>1, <3>2 DEF ProcessOK
  <2>3. FlushResults(state) \in [Slots -> Counted]
    BY <2>2, SoundFields, EmptySound DEF FlushResults
  <2> QED BY <1>0, <2>1, <2>3 DEF ProcessOK, Alive, Modes
<1>8. CASE FlushDone
  <2>1. /\ mode = "flushing" /\ mode' \in {"done", "stopped"}
        /\ UNCHANGED <<outbox, writing, stop, latest, torn>>
    BY <1>8 DEF FlushDone, process, disk, sink
  <2> QED BY <1>0, <2>1 DEF ProcessOK, Alive, Starting, Modes
<1>9. CASE Writes
  <2>1. /\ mode \in {"running", "suspending"} /\ mode' \in {mode, "suspended"}
        /\ UNCHANGED <<applied, state, watermark, outbox, stop, latest, torn, history>>
        /\ writing = [phase |-> writing.phase, offset |-> applied]
        /\ writing.phase # "due" => outbox = NoResults
    BY <1>0, <1>9, WritesFrame DEF sink, ghost
  <2>2. CASE WriteTmp
    <3>1. outbox = NoResults /\ writing' = [writing EXCEPT !.phase = "tmp"] /\ mode' = mode
      BY <2>2 DEF WriteTmp
    <3>2. writing' = [phase |-> "tmp", offset |-> applied]
      BY <2>1, <3>1
    <3> QED BY <1>0, <2>1, <3>1, <3>2 DEF ProcessOK, After, Alive, Starting
  <2>3. CASE RenameTmp \/ SyncDirectory
    <3>1. /\ mode' = mode
          /\ \/ writing' = [writing EXCEPT !.phase = "renamed"] /\ writing.phase = "tmp"
             \/ writing' = [writing EXCEPT !.phase = "pruning"] /\ writing.phase = "renamed"
      BY <2>3 DEF RenameTmp, SyncDirectory
    <3>2. PICK ph \in {"renamed", "pruning"} : writing' = [phase |-> ph, offset |-> applied]
      BY <2>1, <3>1
    <3>3. outbox = NoResults
      BY <2>1, <3>1
    <3> QED BY <1>0, <2>1, <3>1, <3>2, <3>3 DEF ProcessOK, After, Alive, Starting
  <2>4. CASE PruneOne
    <3>1. UNCHANGED <<mode, writing>>
      BY <2>4 DEF PruneOne, process
    <3> QED BY <1>0, <2>1, <3>1 DEF ProcessOK, After, Alive, Starting
  <2>5. CASE WriteDone
    <3>1. writing' = Idle
      BY <2>5 DEF WriteDone
    <3> QED BY <1>0, <2>1, <3>1 DEF ProcessOK, After, Alive, Starting, Modes
  <2> QED BY <1>9, <2>2, <2>3, <2>4, <2>5 DEF Writes
<1>10. CASE PullBatch
  <2>1. UNCHANGED <<mode, applied, state, watermark, outbox, writing, stop, latest, torn, job, history>>
    BY <1>10, PullFacts
  <2> QED BY <1>0, <2>1 DEF ProcessOK, After, Alive, Starting
<1>11. CASE ApplyNext
  <2>1. /\ mode = "running" /\ UNCHANGED <<mode, stop, latest, torn>>
        /\ outbox' \in [Slots -> Counted]
        /\ state' = history'[applied' + 1].state /\ watermark' = history'[applied' + 1].watermark
        /\ writing' = Idle \/ writing' = [phase |-> "due", offset |-> applied']
    BY <1>11, ApplyFacts
  <2>2. writing' = Idle \/ (writing'.phase = "due" /\ writing' = [phase |-> writing'.phase, offset |-> applied'])
    BY <2>1
  <2> QED BY <1>0, <2>1, <2>2 DEF ProcessOK, After, Alive, Modes
<1> QED BY <1>1, <1>2, <1>3, <1>4, <1>5, <1>6, <1>7, <1>8, <1>9, <1>10, <1>11, NextCases

-----------------------------------------------------------------------------
(***************************************************************************)
(* The directory.                                                          *)
(***************************************************************************)
\* The uninterrupted run only grows.
LEMMA HistoryContinues == IInv /\ [Next]_vars => Continues(history, history')
<1> SUFFICES ASSUME IInv, [Next]_vars PROVE Continues(history, history')
  OBVIOUS
<1>1. CASE ApplyNext
  BY <1>1, ApplyFacts
<1>2. CASE ~ApplyNext
  <2>1. UNCHANGED history
    <3>1. CASE Loses
      BY <3>1, LosesFrame
    <3>2. CASE Stands
      BY <3>2, StandsFrame DEF ghost
    <3>3. CASE Start
      BY <3>3, StartFacts
    <3>4. CASE Writes
      BY <3>4, WritesFrame DEF ghost, IInv
    <3>5. CASE PullBatch
      BY <3>5, PullFacts
    <3>6. CASE Requests \/ Rots \/ Emits \/ BeginSuspend \/ BeginFinalFlush \/ FlushDone
               \/ UNCHANGED vars
      BY <3>6 DEF Requests, Rots, Emits, RequestStop, Corrupt, EmitResult, BeginSuspend,
                  BeginFinalFlush, FlushDone, vars, ghost
    <3> QED BY <1>2, <3>1, <3>2, <3>3, <3>4, <3>5, <3>6, NextCases
  <2>2. Len(history) \in Nat
    BY LenProperties DEF IInv, RunOK, Past
  <2> QED BY <2>1, <2>2 DEF Continues
<1> QED BY <1>1, <1>2

LEMMA CheckpointContinues ==
    ASSUME NEW f, IsCheckpoint(f), Continues(history, history')
    PROVE  IsCheckpoint(f)'
<1>1. PICK o : o = f.offset
  OBVIOUS
<1>2. /\ o \in Nat /\ o < Len(history) /\ f.crc_ok \in BOOLEAN
      /\ f = [offset |-> o, crc_ok |-> f.crc_ok,
              data |-> Capture(history[o + 1].state, history[o + 1].watermark, o)]
  BY <1>1 DEF IsCheckpoint, After
<1>3. o < Len(history') /\ o + 1 \in 1..Len(history)
  BY <1>2 DEF Continues
<1>4. history'[o + 1] = history[o + 1]
  BY <1>3 DEF Continues
<1> QED BY <1>1, <1>2, <1>3, <1>4 DEF IsCheckpoint, After

\* A file is told by its name and by whether it is still good.
LEMMA CheckpointUnique ==
    ASSUME NEW f, NEW g, IsCheckpoint(f), IsCheckpoint(g), f.offset = g.offset,
           f.crc_ok = g.crc_ok
    PROVE  f = g
<1>1. PICK o, c, d : o = f.offset /\ c = f.crc_ok
                     /\ d = Capture(After(o).state, After(o).watermark, o)
  OBVIOUS
<1>2. f = [offset |-> o, crc_ok |-> c, data |-> d]
  BY <1>1 DEF IsCheckpoint
<1>3. g = [offset |-> o, crc_ok |-> c, data |-> d]
  BY <1>1 DEF IsCheckpoint
<1> QED BY <1>2, <1>3

\* As long as no name disappears, what has two newer ones keeps them.
NamesStay == \A f \in files : \E g \in files' : g.offset = f.offset

LEMMA NewerStay == ASSUME NamesStay, NEW o, TwoNewer(o) PROVE TwoNewer(o)'
<1>1. PICK f \in files, g \in files : f.offset > o /\ g.offset > o /\ f.offset # g.offset
  BY DEF TwoNewer
<1>2. PICK a \in files', b \in files' : a.offset = f.offset /\ b.offset = g.offset
  BY DEF NamesStay
<1>3. a.offset > o /\ b.offset > o /\ a.offset # b.offset
  BY <1>1, <1>2
<1> QED BY <1>2, <1>3 DEF TwoNewer

\* A name is there, or has been unlinked behind two newer ones.
Passed(o) == (\E f \in files : f.offset = o) \/ TwoNewer(o)

LEMMA PassedStays == ASSUME NamesStay, NEW o, Passed(o) PROVE Passed(o)'
  BY NewerStay DEF Passed, NamesStay

LEMMA FilesFrame ==
    ASSUME FilesOK, UNCHANGED <<files, synced>>, Continues(history, history'),
           reported' \in {reported, None} \/ (reported' \in Nat /\ Passed(reported')),
           writing'.phase \in {"renamed", "pruning"} => UNCHANGED <<writing, applied>>
    PROVE  FilesOK'
<1>1. \A f \in files' \cup synced'.files : IsCheckpoint(f)'
  BY CheckpointContinues DEF FilesOK
<1>2. \A o : TwoNewer(o)' <=> TwoNewer(o)
  BY DEF TwoNewer
<1>3. \/ reported' = None
      \/ reported' \in Nat /\ ((\E f \in files' : f.offset = reported') \/ TwoNewer(reported)')
  <2>1. CASE UNCHANGED reported
    <3>1. TwoNewer(reported)' <=> TwoNewer(reported)
      BY <2>1 DEF TwoNewer
    <3> QED BY <2>1, <3>1 DEF FilesOK
  <2>2. CASE reported' = None
    BY <2>2
  <2>3. CASE reported' \in Nat /\ Passed(reported')
    <3>1. TwoNewer(reported') => TwoNewer(reported)'
      BY DEF TwoNewer
    <3> QED BY <2>3, <3>1 DEF Passed
  <2> QED BY <2>1, <2>2, <2>3
<1>4. writing'.phase \in {"renamed", "pruning"} =>
         (\E f \in files' : f.offset = applied') \/ TwoNewer(applied)'
  <2> SUFFICES ASSUME writing'.phase \in {"renamed", "pruning"}
               PROVE  (\E f \in files' : f.offset = applied') \/ TwoNewer(applied)'
    OBVIOUS
  <2>1. UNCHANGED <<writing, applied>>
    OBVIOUS
  <2>2. TwoNewer(applied)' <=> TwoNewer(applied)
    BY <2>1 DEF TwoNewer
  <2> QED BY <2>1, <2>2 DEF FilesOK
<1>5. \A h \in synced'.files : \/ h \in files' \/ TwoNewer(h.offset)'
                               \/ ~h.crc_ok /\ \E f \in files' : f.offset = h.offset
  BY <1>2 DEF FilesOK
<1> QED BY <1>1, <1>3, <1>4, <1>5 DEF FilesOK

\* The directory is synced, by the writer or by a process that has none.
LEMMA FilesSynced ==
    ASSUME FilesOK, Sync, UNCHANGED <<files, history, reported, applied>>,
           Continues(history, history'),
           writing'.phase \in {"renamed", "pruning"} => writing.phase \in {"renamed", "pruning"}
    PROVE  FilesOK'
<1>1. PICK a, b, c : synced' = [files |-> a, manifest |-> b, foreign |-> c] /\ a = files
  BY DEF Sync
<1>2. synced'.files = files' /\ synced' = [files |-> synced'.files, manifest |-> synced'.manifest,
                                           foreign |-> synced'.foreign]
  BY <1>1
<1>3. \A f \in files' \cup synced'.files : IsCheckpoint(f)'
  BY <1>2, CheckpointContinues DEF FilesOK
<1>4. TwoNewer(reported)' <=> TwoNewer(reported)
  BY DEF TwoNewer
<1>5. TwoNewer(applied)' <=> TwoNewer(applied)
  BY DEF TwoNewer
<1> QED BY <1>2, <1>3, <1>4, <1>5 DEF FilesOK

\* A loss of power leaves a mixture of the two directories, which is then on disk.
LEMMA FilesLost ==
    ASSUME FilesOK, files' \in Survivors(files, synced.files), UNCHANGED history,
           synced' = [files |-> files', manifest |-> manifest', foreign |-> foreign'],
           reported' = None, writing' = Idle, Continues(history, history')
    PROVE  FilesOK'
<1>1. /\ files' \subseteq files \cup synced.files
      /\ \A f, g \in files' : f.offset = g.offset => f = g
  BY DEF Survivors
<1>2. synced'.files = files' /\ synced' = [files |-> synced'.files, manifest |-> synced'.manifest,
                                           foreign |-> synced'.foreign]
  OBVIOUS
<1>3. \A f \in files' \cup synced'.files : IsCheckpoint(f)'
  BY <1>1, <1>2, CheckpointContinues DEF FilesOK
<1>4. writing'.phase = "idle"
  BY DEF Idle
<1> QED BY <1>1, <1>2, <1>3, <1>4 DEF FilesOK

\* A rotten file keeps its name.
Rotten(f, g) == IF g = f THEN [f EXCEPT !.crc_ok = FALSE] ELSE g

LEMMA RottenFacts ==
    ASSUME NEW f, NEW g, IsCheckpoint(f), IsCheckpoint(g)
    PROVE  /\ IsCheckpoint(Rotten(f, g)) /\ Rotten(f, g).offset = g.offset
           /\ g.crc_ok /\ ~Rotten(f, g).crc_ok => g = f
           /\ ~g.crc_ok /\ f.crc_ok => Rotten(f, g) = g
           /\ Rotten(f, g).crc_ok => Rotten(f, g) = g /\ g.crc_ok
<1>1. CASE g = f
  <2>1. PICK o, d : o = f.offset /\ d = Capture(After(o).state, After(o).watermark, o)
    OBVIOUS
  <2>2. o \in Nat /\ o < Len(history) /\ f = [offset |-> o, crc_ok |-> f.crc_ok, data |-> d]
    BY <2>1 DEF IsCheckpoint
  <2>3. Rotten(f, g) = [offset |-> o, crc_ok |-> FALSE, data |-> d]
    <3>1. PICK c : f = [offset |-> o, crc_ok |-> c, data |-> d]
      BY <2>2
    <3>2. \A z : [f EXCEPT !.crc_ok = z] = [offset |-> o, crc_ok |-> z, data |-> d]
      BY <3>1
    <3>3. [f EXCEPT !.crc_ok = FALSE] = [offset |-> o, crc_ok |-> FALSE, data |-> d]
      BY <3>2, Zenon
    <3> QED BY <1>1, <3>3 DEF Rotten
  <2>4. IsCheckpoint([offset |-> o, crc_ok |-> FALSE, data |-> d])
    BY <2>1, <2>2 DEF IsCheckpoint
  <2> QED BY <1>1, <2>1, <2>3, <2>4
<1>2. CASE g # f
  BY <1>2 DEF Rotten
<1> QED BY <1>1, <1>2

LEMMA FilesRot ==
    ASSUME FilesOK, NEW f \in files, Corrupt(f), Continues(history, history')
    PROVE  FilesOK'
<1>1. /\ UNCHANGED <<mode, process, history>> /\ f.crc_ok
      /\ files' = Rot(files, f) /\ synced' = [synced EXCEPT !.files = Rot(synced.files, f)]
  BY DEF Corrupt, ghost
<1>2. /\ synced'.files = Rot(synced.files, f)
      /\ synced' = [files |-> synced'.files, manifest |-> synced'.manifest,
                    foreign |-> synced'.foreign]
  BY <1>1 DEF FilesOK
<1>3. \A fs : Rot(fs, f) = {Rotten(f, g) : g \in fs}
  BY DEF Rot, Rotten
<1>4. PICK A, B : A = files /\ B = synced.files
  OBVIOUS
<1>5. files' = {Rotten(f, g) : g \in A} /\ synced'.files = {Rotten(f, g) : g \in B}
  BY <1>1, <1>2, <1>3, <1>4
<1>6. \A g \in A \cup B : /\ IsCheckpoint(Rotten(f, g)) /\ Rotten(f, g).offset = g.offset
                          /\ ~g.crc_ok => Rotten(f, g) = g
  BY <1>1, <1>4, RottenFacts DEF FilesOK
<1>7. NamesStay
  <2> SUFFICES ASSUME NEW g \in files PROVE \E h \in files' : h.offset = g.offset
    BY DEF NamesStay
  <2>1. Rotten(f, g) \in files' /\ Rotten(f, g).offset = g.offset
    BY <1>4, <1>5, <1>6
  <2> QED BY <2>1
<1>8. \A h \in files' \cup synced'.files : IsCheckpoint(h)'
  <2> SUFFICES ASSUME NEW h \in files' \cup synced'.files PROVE IsCheckpoint(h)'
    OBVIOUS
  <2>1. PICK g \in A \cup B : h = Rotten(f, g)
    BY <1>5
  <2>2. IsCheckpoint(h)
    BY <1>6, <2>1
  <2> QED BY <2>2, CheckpointContinues
<1>9. \A h, i \in files' : h.offset = i.offset => h = i
  <2> SUFFICES ASSUME NEW h \in files', NEW i \in files', h.offset = i.offset PROVE h = i
    OBVIOUS
  <2>1. PICK x \in A, y \in A : h = Rotten(f, x) /\ i = Rotten(f, y)
    BY <1>5
  <2>2. x.offset = y.offset
    BY <1>6, <2>1
  <2>3. x = y
    BY <1>4, <2>2 DEF FilesOK
  <2> QED BY <2>1, <2>3
<1>10. \A h \in synced'.files : \/ h \in files' \/ TwoNewer(h.offset)'
                                \/ ~h.crc_ok /\ \E i \in files' : i.offset = h.offset
  <2> SUFFICES ASSUME NEW h \in synced'.files
               PROVE  \/ h \in files' \/ TwoNewer(h.offset)'
                      \/ ~h.crc_ok /\ \E i \in files' : i.offset = h.offset
    OBVIOUS
  <2>1. PICK g \in B : h = Rotten(f, g)
    BY <1>5
  <2>2. h.offset = g.offset /\ (~g.crc_ok => h = g)
    BY <1>6, <2>1
  <2>3. CASE g \in files
    BY <1>4, <1>5, <2>1, <2>3
  <2>4. CASE TwoNewer(g.offset)
    BY <1>7, <2>2, <2>4, NewerStay
  <2>5. CASE ~g.crc_ok /\ \E i \in files : i.offset = g.offset
    BY <1>7, <2>2, <2>5 DEF NamesStay
  <2> QED BY <1>4, <2>3, <2>4, <2>5 DEF FilesOK
<1>11. UNCHANGED <<reported, writing, applied>>
  BY <1>1 DEF process
<1>12. \/ reported' = None
       \/ reported' \in Nat /\ ((\E g \in files' : g.offset = reported') \/ TwoNewer(reported)')
  <2>1. Passed(reported) => Passed(reported)'
    BY <1>7, <1>11, PassedStays DEF Passed, TwoNewer, NamesStay
  <2> QED BY <1>11, <2>1 DEF FilesOK, Passed
<1>13. writing'.phase \in {"renamed", "pruning"} =>
         (\E g \in files' : g.offset = applied') \/ TwoNewer(applied)'
  <2>1. Passed(applied) => Passed(applied)'
    BY <1>7, <1>11, PassedStays DEF Passed, TwoNewer, NamesStay
  <2> QED BY <1>11, <2>1 DEF FilesOK, Passed
<1>14. writing'.phase = "pruning" => files' \subseteq synced'.files
  <2>1. A \subseteq B => files' \subseteq synced'.files
    BY <1>5
  <2> QED BY <1>4, <1>11, <2>1 DEF FilesOK
<1> QED BY <1>2, <1>8, <1>9, <1>10, <1>12, <1>13, <1>14 DEF FilesOK

\* The rename publishes what an uninterrupted run has at the offset; it replaces
\* a rotten file of the name or an equal one.
LEMMA PublishFacts ==
    ASSUME IInv, RenameTmp
    PROVE  \E new : /\ IsCheckpoint(new) /\ new.offset = applied /\ new.crc_ok
                    /\ files' = {f \in files : f.offset # applied} \cup {new}
<1>1. /\ mode \in {"running", "suspending"}
      /\ writing = [phase |-> writing.phase, offset |-> applied]
  BY WritesFrame DEF IInv, Writes
<1>2. state = After(applied).state /\ watermark = After(applied).watermark
  BY <1>1 DEF IInv, ProcessOK
<1>3. applied \in Nat /\ applied < Len(history)
  BY <1>1, SourceAssumption DEF IInv, RunOK, Alive
<1>4. PICK d, new : /\ d = Capture(After(applied).state, After(applied).watermark, applied)
                    /\ new = [offset |-> applied, crc_ok |-> TRUE, data |-> d]
  OBVIOUS
<1>5. writing.offset = applied
  BY <1>1
<1>6. d.offset = applied /\ new = File(d)
  BY <1>4 DEF Capture, File
<1>7. files' = Publish(files, d)
  BY <1>2, <1>4, <1>5 DEF RenameTmp
<1>8. files' = {f \in files : f.offset # applied} \cup {new}
  BY <1>6, <1>7 DEF Publish
<1>9. IsCheckpoint(new) /\ new.offset = applied /\ new.crc_ok
  BY <1>3, <1>4 DEF IsCheckpoint
<1> QED BY <1>8, <1>9

LEMMA FilesPublish ==
    ASSUME IInv, RenameTmp, Continues(history, history')
    PROVE  FilesOK'
<1>0. FilesOK
  BY DEF IInv
<1>1. PICK new : /\ IsCheckpoint(new) /\ new.offset = applied /\ new.crc_ok
                 /\ files' = {f \in files : f.offset # applied} \cup {new}
  BY PublishFacts
<1>2. /\ writing' = [writing EXCEPT !.phase = "renamed"]
      /\ UNCHANGED <<applied, reported, synced, history>>
  BY DEF RenameTmp, ghost
<1>3. writing = [phase |-> writing.phase, offset |-> applied]
  BY WritesFrame DEF IInv, Writes
<1>4. writing'.phase = "renamed"
  BY <1>2, <1>3
<1>5. NamesStay
  BY <1>1 DEF NamesStay
<1>6. \A f \in files' \cup synced'.files : IsCheckpoint(f)'
  BY <1>0, <1>1, <1>2, CheckpointContinues DEF FilesOK
<1>7. \A f, g \in files' : f.offset = g.offset => f = g
  BY <1>0, <1>1 DEF FilesOK
<1>8. \A h \in synced'.files : \/ h \in files' \/ TwoNewer(h.offset)'
                               \/ ~h.crc_ok /\ \E f \in files' : f.offset = h.offset
  <2> SUFFICES ASSUME NEW h \in synced.files
               PROVE  \/ h \in files' \/ TwoNewer(h.offset)'
                      \/ ~h.crc_ok /\ \E f \in files' : f.offset = h.offset
    BY <1>2
  <2>1. CASE TwoNewer(h.offset)
    BY <1>5, <2>1, NewerStay
  <2>2. CASE ~h.crc_ok /\ \E f \in files : f.offset = h.offset
    BY <1>5, <2>2 DEF NamesStay
  <2>3. CASE h \in files /\ h.offset # applied
    BY <1>1, <2>3
  <2>4. CASE h \in files /\ h.offset = applied /\ ~h.crc_ok
    BY <1>1, <2>4
  <2>5. CASE h \in files /\ h.offset = applied /\ h.crc_ok
    <3>1. IsCheckpoint(h) /\ h.crc_ok \in BOOLEAN /\ new.crc_ok \in BOOLEAN
      BY <1>0, <1>1 DEF FilesOK, IsCheckpoint
    <3>2. h.crc_ok = new.crc_ok
      BY <1>1, <2>5, <3>1
    <3>3. h = new
      BY <1>1, <2>5, <3>1, <3>2, CheckpointUnique
    <3> QED BY <1>1, <3>3
  <2> QED BY <1>0, <2>1, <2>2, <2>3, <2>4, <2>5 DEF FilesOK
<1>9. \/ reported' = None
      \/ reported' \in Nat /\ ((\E g \in files' : g.offset = reported') \/ TwoNewer(reported)')
  <2>1. Passed(reported) => Passed(reported)'
    BY <1>5, <1>2, PassedStays DEF Passed, TwoNewer, NamesStay
  <2> QED BY <1>0, <1>2, <2>1 DEF FilesOK, Passed
<1>10. \E g \in files' : g.offset = applied'
  BY <1>1, <1>2
<1> QED BY <1>0, <1>2, <1>4, <1>6, <1>7, <1>8, <1>9, <1>10 DEF FilesOK

\* A file that is unlinked has two newer names, which stay.
LEMMA SurplusFacts ==
    ASSUME FilesOK, NEW f \in Surplus(files)
    PROVE  f \in files /\ TwoNewer(f.offset)
<1>1. PICK S : S = {g \in files : g.offset > f.offset}
  OBVIOUS
<1>2. f \in files /\ Cardinality(S) >= 2
  BY <1>1 DEF Surplus
<1>3. S # {}
  BY <1>2, FS_EmptySet
<1>4. PICK a : a \in S
  BY <1>3
<1>5. S # {a}
  BY <1>2, FS_Singleton
<1>6. PICK b \in S : b # a
  BY <1>4, <1>5
<1>7. a.offset # b.offset
  BY <1>1, <1>4, <1>6 DEF FilesOK
<1> QED BY <1>1, <1>2, <1>4, <1>6, <1>7 DEF TwoNewer

LEMMA NewerPruned ==
    ASSUME FilesOK, NEW f \in files, TwoNewer(f.offset), files' = files \ {f}, NEW o \in Nat
    PROVE  /\ TwoNewer(o) => TwoNewer(o)'
           /\ Passed(o) => Passed(o)'
<1>1. PICK a \in files, b \in files : a.offset > f.offset /\ b.offset > f.offset
                                      /\ a.offset # b.offset
  BY DEF TwoNewer
<1>2. \A g \in files : g.offset \in Nat
  BY DEF FilesOK, IsCheckpoint
<1>3. a \in files' /\ b \in files'
  <2>1. a # f /\ b # f
    BY <1>1, <1>2
  <2> QED BY <1>1, <2>1
<1>4. f.offset >= o => TwoNewer(o)'
  <2> SUFFICES ASSUME f.offset >= o PROVE TwoNewer(o)'
    OBVIOUS
  <2>1. a.offset > o /\ b.offset > o
    BY <1>1, <1>2
  <2> QED BY <1>1, <1>3, <2>1 DEF TwoNewer
<1>5. TwoNewer(o) => TwoNewer(o)'
  <2> SUFFICES ASSUME TwoNewer(o), ~(f.offset >= o) PROVE TwoNewer(o)'
    BY <1>4
  <2>1. PICK x \in files, y \in files : x.offset > o /\ y.offset > o /\ x.offset # y.offset
    BY DEF TwoNewer
  <2>2. x # f /\ y # f
    BY <1>2, <2>1
  <2> QED BY <2>1, <2>2 DEF TwoNewer
<1>6. Passed(o) => Passed(o)'
  <2> SUFFICES ASSUME NEW g \in files, g.offset = o PROVE Passed(o)'
    BY <1>5 DEF Passed
  <2>1. CASE g = f
    BY <1>2, <1>4, <2>1 DEF Passed
  <2>2. CASE g # f
    BY <2>2 DEF Passed
  <2> QED BY <2>1, <2>2
<1> QED BY <1>5, <1>6

LEMMA FilesPrune ==
    ASSUME IInv, PruneOne, Continues(history, history')
    PROVE  FilesOK'
<1>0. FilesOK /\ RunOK /\ applied \in Nat
  BY SourceAssumption DEF IInv, RunOK
<1>1. PICK f \in Surplus(files) : files' = files \ {f}
  BY DEF PruneOne
<1>2. UNCHANGED <<reported, writing, applied, synced, history>> /\ writing.phase = "pruning"
  BY DEF PruneOne, process, ghost
<1>3. f \in files /\ TwoNewer(f.offset)
  BY <1>0, <1>1, SurplusFacts
<1>4. \A h \in files \cup synced.files : IsCheckpoint(h) /\ h.offset \in Nat
  BY <1>0 DEF FilesOK, IsCheckpoint
<1>5. \A h \in files' \cup synced'.files : IsCheckpoint(h)'
  BY <1>1, <1>2, <1>4, CheckpointContinues
<1>6. \A o \in Nat : (TwoNewer(o) => TwoNewer(o)') /\ (Passed(o) => Passed(o)')
  BY <1>0, <1>1, <1>3, NewerPruned
<1>7. \A h \in synced'.files : \/ h \in files' \/ TwoNewer(h.offset)'
                               \/ ~h.crc_ok /\ \E g \in files' : g.offset = h.offset
  <2> SUFFICES ASSUME NEW h \in synced.files
               PROVE  \/ h \in files' \/ TwoNewer(h.offset)'
                      \/ ~h.crc_ok /\ \E g \in files' : g.offset = h.offset
    BY <1>2
  <2>1. CASE TwoNewer(h.offset)
    BY <1>4, <1>6, <2>1
  <2>2. CASE ~h.crc_ok /\ \E g \in files : g.offset = h.offset
    <3>1. Passed(h.offset)
      BY <2>2 DEF Passed
    <3>2. Passed(h.offset)'
      BY <1>4, <1>6, <3>1
    <3> QED BY <2>2, <3>2 DEF Passed
  <2>3. CASE h \in files
    <3>1. CASE h = f
      BY <1>3, <1>4, <1>6, <3>1
    <3>2. CASE h # f
      BY <1>1, <2>3, <3>2
    <3> QED BY <3>1, <3>2
  <2> QED BY <1>0, <2>1, <2>2, <2>3 DEF FilesOK
<1>8. \/ reported' = None
      \/ reported' \in Nat /\ ((\E g \in files' : g.offset = reported') \/ TwoNewer(reported)')
  <2> SUFFICES ASSUME reported # None
               PROVE  /\ reported' \in Nat
                      /\ (\E g \in files' : g.offset = reported') \/ TwoNewer(reported)'
    BY <1>2
  <2>1. PICK o \in Nat : o = reported /\ o = reported' /\ Passed(o)
    BY <1>0, <1>2 DEF FilesOK, Passed
  <2>2. Passed(o)'
    BY <1>6, <2>1
  <2> QED BY <2>1, <2>2 DEF Passed, TwoNewer
<1>9. (\E g \in files' : g.offset = applied') \/ TwoNewer(applied)'
  <2>1. PICK o \in Nat : o = applied /\ o = applied' /\ Passed(o)
    BY <1>0, <1>2 DEF FilesOK, Passed
  <2>2. Passed(o)'
    BY <1>6, <2>1
  <2> QED BY <2>1, <2>2 DEF Passed, TwoNewer
<1>10. files' \subseteq synced'.files /\ \A g, h \in files' : g.offset = h.offset => g = h
  BY <1>0, <1>1, <1>2 DEF FilesOK
<1> QED BY <1>0, <1>2, <1>5, <1>7, <1>8, <1>9, <1>10 DEF FilesOK

LEMMA FilesStep == IInv /\ [Next]_vars => FilesOK'
<1> SUFFICES ASSUME IInv, [Next]_vars PROVE FilesOK'
  OBVIOUS
<1>0. FilesOK /\ ProcessOK /\ Continues(history, history') /\ Idle.phase = "idle"
  BY HistoryContinues DEF IInv, Idle
<1>1. CASE Loses
  <2>1. reported' = None /\ writing' = Idle /\ UNCHANGED history
    BY <1>1, LosesFrame
  <2>2. CASE UNCHANGED <<files, synced>>
    BY <1>0, <2>1, <2>2, FilesFrame
  <2>3. CASE ~UNCHANGED <<files, synced>>
    <3>1. /\ files' \in Survivors(files, synced.files)
          /\ synced' = [files |-> files', manifest |-> manifest', foreign |-> foreign']
      BY <1>1, <2>3, LosesFrame
    <3> QED BY <1>0, <2>1, <3>1, FilesLost
  <2> QED BY <2>2, <2>3
<1>2. CASE Stands
  <2>1. UNCHANGED <<reported, writing, applied, files, history>>
    BY <1>2, StandsFrame DEF process, ghost
  <2>2. CASE Sync
    BY <1>0, <2>1, <2>2, FilesSynced
  <2>3. CASE UNCHANGED synced
    BY <1>0, <2>1, <2>3, FilesFrame
  <2>4. Sync \/ UNCHANGED synced
    BY <1>2 DEF Stands, OpenOwn, OpenForeign, Open, RenameManifest, SyncManifest,
                ForeignRuns, ForeignEnds
  <2> QED BY <2>2, <2>3, <2>4
<1>3. CASE Start
  <2>1. /\ UNCHANGED <<files, synced>> /\ writing' = Idle /\ applied' \in Nat
        /\ \/ reported' = None
           \/ reported' = applied' /\ \E f \in LoadLatest(files) : f.offset = applied'
    BY <1>3, StartFacts
  <2>2. reported' = None \/ (reported' \in Nat /\ Passed(reported'))
    BY <2>1 DEF Passed, LoadLatest
  <2> QED BY <1>0, <2>1, <2>2, FilesFrame
<1>4. CASE Requests \/ Emits \/ BeginFinalFlush \/ FlushDone \/ UNCHANGED vars
  <2>1. UNCHANGED <<files, synced, reported, writing, applied>>
    BY <1>4 DEF Requests, Emits, RequestStop, EmitResult, BeginFinalFlush, FlushDone, vars,
                process, disk
  <2> QED BY <1>0, <2>1, FilesFrame
<1>5. CASE BeginSuspend
  <2>1. UNCHANGED <<files, synced, reported>> /\ writing'.phase = "due"
    BY <1>5 DEF BeginSuspend, disk
  <2> QED BY <1>0, <2>1, FilesFrame
<1>6. CASE Rots
  BY <1>0, <1>6, FilesRot DEF Rots
<1>7. CASE PullBatch
  <2>1. UNCHANGED <<files, synced, reported, writing, applied>>
    BY <1>7, PullFacts
  <2> QED BY <1>0, <2>1, FilesFrame
<1>8. CASE ApplyNext
  <2>1. /\ UNCHANGED <<files, synced, reported>>
        /\ writing' = Idle \/ writing' = [phase |-> "due", offset |-> applied']
    BY <1>8, ApplyFacts
  <2>2. writing'.phase \in {"idle", "due"}
    BY <1>0, <2>1
  <2> QED BY <1>0, <2>1, <2>2, FilesFrame
<1>9. CASE Writes
  <2>1. /\ UNCHANGED <<applied, history>>
        /\ writing = [phase |-> writing.phase, offset |-> applied]
    BY <1>0, <1>9, WritesFrame DEF ghost
  <2>2. CASE WriteTmp
    <3>1. UNCHANGED <<files, synced, reported>> /\ writing' = [writing EXCEPT !.phase = "tmp"]
      BY <2>2 DEF WriteTmp
    <3>2. writing'.phase = "tmp"
      BY <2>1, <3>1
    <3> QED BY <1>0, <3>1, <3>2, FilesFrame
  <2>3. CASE RenameTmp
    BY <1>0, <2>3, FilesPublish
  <2>4. CASE SyncDirectory
    <3>1. UNCHANGED <<files, reported>> /\ Sync /\ writing.phase = "renamed"
      BY <2>4 DEF SyncDirectory
    <3> QED BY <1>0, <2>1, <3>1, FilesSynced
  <2>5. CASE PruneOne
    BY <1>0, <2>5, FilesPrune
  <2>6. CASE WriteDone
    <3>1. /\ UNCHANGED <<files, synced>> /\ writing' = Idle /\ reported' = writing.offset
          /\ writing.phase = "pruning"
      BY <2>6 DEF WriteDone, disk
    <3>2. reported' = applied /\ applied \in Nat /\ Passed(applied)
      BY <1>0, <2>1, <3>1, SourceAssumption DEF FilesOK, Passed, IInv, RunOK
    <3>3. reported' \in Nat /\ Passed(reported')
      BY <3>2
    <3> QED BY <1>0, <3>1, <3>3, FilesFrame
  <2> QED BY <1>9, <2>2, <2>3, <2>4, <2>5, <2>6 DEF Writes
<1> QED BY <1>1, <1>2, <1>3, <1>4, <1>5, <1>6, <1>7, <1>8, <1>9, NextCases

-----------------------------------------------------------------------------
(***************************************************************************)
(* Whose directory it is.                                                  *)
(***************************************************************************)
\* What a loss of power may do to an owned directory.
LEMMA OwnerLost ==
    ASSUME IInv, files' \in Survivors(files, synced.files), mode' = "down",
           UNCHANGED <<job, unsure>>,
           manifest' \in {manifest, synced.manifest}, foreign' \in {foreign, synced.foreign},
           synced' = [files |-> files', manifest |-> manifest', foreign |-> foreign']
    PROVE  OwnerOK' /\ ManifestGuards'
<1>0. OwnerOK /\ FilesOK
  BY DEF IInv
<1>1. synced'.files = files' /\ synced'.manifest = manifest' /\ synced'.foreign = foreign'
  OBVIOUS
<1>2. files = {} => files' = {}
  <2>1. files = {} => synced.files = {}
    BY <1>0 DEF FilesOK, TwoNewer
  <2>2. files' \subseteq files \cup synced.files
    BY DEF Survivors
  <2> QED BY <2>1, <2>2
<1>3. /\ manifest \in {"none", "own", "other"} /\ synced.manifest \in {"none", manifest}
      /\ foreign \in BOOLEAN /\ synced.foreign \in BOOLEAN /\ (synced.foreign => foreign)
      /\ job \in {"own", "other"} /\ unsure \in BOOLEAN
      /\ manifest = "own" => ~foreign
      /\ files # {} => manifest # "other" /\ ~foreign
      /\ mode = "created" => files = {} /\ ~foreign
      /\ ~unsure => /\ manifest = synced.manifest \/ mode = "created"
                    /\ files # {} \/ foreign => manifest # "none"
  BY <1>0 DEF OwnerOK
<1>4. foreign' \in BOOLEAN /\ (foreign' => foreign) /\ manifest' \in {"none", manifest}
  BY <1>3
<1>5. ~unsure' => (files' # {} \/ foreign' => manifest' # "none")
  BY <1>2, <1>3, <1>4
<1>6. ~Alive' /\ ~(mode' = "refused")
  BY DEF Alive
<1>7. ManifestGuards'
  BY <1>6 DEF ManifestGuards
<1>8. /\ manifest' \in {"none", "own", "other"} /\ synced'.manifest \in {"none", manifest'}
      /\ foreign' \in BOOLEAN /\ synced'.foreign \in BOOLEAN /\ (synced'.foreign => foreign')
      /\ job' \in {"own", "other"} /\ unsure' \in BOOLEAN
      /\ manifest' = "own" => ~foreign'
      /\ files' # {} => manifest' # "other" /\ ~foreign'
      /\ manifest' = synced'.manifest
  BY <1>1, <1>2, <1>3, <1>4
<1> QED BY <1>5, <1>6, <1>7, <1>8 DEF OwnerOK

\* Steps that leave the owner alone; the directory may be synced, and only a
\* running job adds to it.
LEMMA OwnerFrame ==
    ASSUME IInv, UNCHANGED <<manifest, foreign, job, unsure>>,
           \/ synced'.manifest = synced.manifest /\ synced'.foreign = synced.foreign
           \/ synced'.manifest = manifest /\ synced'.foreign = foreign,
           files' # {} => files # {} \/ Alive,
           \/ UNCHANGED mode
           \/ /\ mode # "created"
              /\ mode' \in {"down", "suspended", "done", "stopped"}
                   \/ (mode' \in {"running", "suspending", "flushing"} /\ manifest = "own")
    PROVE  OwnerOK' /\ ManifestGuards'
<1>0. OwnerOK /\ ManifestGuards
  BY DEF IInv
<1>1. /\ job' \in {"own", "other"} /\ unsure' \in BOOLEAN
      /\ manifest' \in {"none", "own", "other"} /\ synced'.manifest \in {"none", manifest'}
      /\ foreign' \in BOOLEAN /\ synced'.foreign \in BOOLEAN /\ (synced'.foreign => foreign')
      /\ manifest' = "own" => ~foreign'
  BY <1>0 DEF OwnerOK
<1>2. files' # {} => manifest' # "other" /\ ~foreign'
  BY <1>0 DEF OwnerOK
<1>3. /\ mode' = "creating" => manifest' = "none" /\ files' = {} /\ ~foreign'
      /\ mode' = "created" => files' = {} /\ ~foreign'
      /\ mode' \in {"created", "restoring", "foreign"} => manifest' = job'
      /\ mode' = "foreign" => job' = "other"
      /\ Alive' => manifest' = "own"
  BY <1>0 DEF OwnerOK, Alive
<1>4. ~unsure' => manifest' = synced'.manifest \/ mode' = "created"
  BY <1>0 DEF OwnerOK
<1>5. ~unsure' => (files' # {} \/ foreign' => manifest' # "none")
  BY <1>0 DEF OwnerOK
<1>6. Alive' => ~foreign'
  BY <1>1, <1>3
<1>7. mode' = "refused" /\ ~unsure' => manifest' = "other" /\ files' = {}
  <2> SUFFICES ASSUME mode' = "refused", ~unsure' PROVE manifest' = "other" /\ files' = {}
    OBVIOUS
  <2>1. mode = "refused"
    OBVIOUS
  <2>2. manifest = "other" /\ files = {} /\ ~Alive
    BY <1>0, <2>1 DEF ManifestGuards, Alive
  <2> QED BY <2>2
<1> QED BY <1>1, <1>2, <1>3, <1>4, <1>5, <1>6, <1>7 DEF OwnerOK, ManifestGuards

\* A crash; one in the middle of the manifest's creation is noted.
LEMMA OwnerCrash ==
    ASSUME IInv, UNCHANGED <<files, synced, manifest, foreign, job>>, mode' = "down",
           unsure' = (unsure \/ mode = "created")
    PROVE  OwnerOK' /\ ManifestGuards'
<1>0. OwnerOK
  BY DEF IInv
<1>1. ~Alive' /\ ~(mode' = "refused")
  BY DEF Alive
<1>2. unsure' \in BOOLEAN /\ (~unsure' => ~unsure /\ mode # "created")
  BY <1>0 DEF OwnerOK
<1>3. ~unsure' => /\ manifest' = synced'.manifest \/ mode' = "created"
                  /\ files' # {} \/ foreign' => manifest' # "none"
  BY <1>0, <1>2 DEF OwnerOK
<1>4. ManifestGuards'
  BY <1>1 DEF ManifestGuards
<1> QED BY <1>0, <1>1, <1>2, <1>3, <1>4 DEF OwnerOK

LEMMA OwnerOpens ==
    ASSUME IInv, NEW j \in {"own", "other"}, Open(j),
           j = "own" \/ ValidateOrCreateJobManifest(j) # "refused"
    PROVE  OwnerOK' /\ ManifestGuards'
<1>0. OwnerOK
  BY DEF IInv
<1>1. /\ UNCHANGED <<files, synced, manifest, foreign, unsure>> /\ job' = j
      /\ mode \in {"down", "suspended"} /\ mode' = ValidateOrCreateJobManifest(j)
  BY DEF Open, ghost
<1>2. \/ manifest = j /\ mode' = "restoring"
      \/ manifest = "none" /\ files = {} /\ ~foreign /\ mode' = "creating"
      \/ manifest # j /\ mode' = "refused" /\ ~(manifest = "none" /\ files = {} /\ ~foreign)
  BY <1>1 DEF ValidateOrCreateJobManifest, HasCheckpointFiles
<1>3. ~unsure => manifest = synced.manifest
  BY <1>0, <1>1 DEF OwnerOK
<1>4. mode' = "refused" /\ ~unsure' => manifest' = "other" /\ files' = {}
  BY <1>0, <1>1, <1>2 DEF OwnerOK
<1>5. ~Alive'
  BY <1>2 DEF Alive
<1>6. ManifestGuards'
  BY <1>4, <1>5 DEF ManifestGuards
<1> QED BY <1>0, <1>1, <1>2, <1>3, <1>5, <1>6 DEF OwnerOK

LEMMA OwnerStands == IInv /\ Stands => OwnerOK' /\ ManifestGuards'
<1> SUFFICES ASSUME IInv, Stands PROVE OwnerOK' /\ ManifestGuards'
  OBVIOUS
<1>0. OwnerOK /\ FilesOK
  BY DEF IInv
<1>1. CASE OpenOwn
  BY <1>1, OwnerOpens DEF OpenOwn
<1>2. CASE OpenForeign
  BY <1>2, OwnerOpens DEF OpenForeign
<1>3. CASE RenameManifest
  <2>1. /\ mode = "creating" /\ manifest' = job /\ mode' = "created"
        /\ UNCHANGED <<files, job, foreign, synced, unsure>>
    BY <1>3 DEF RenameManifest, ghost
  <2>2. manifest = "none" /\ files = {} /\ ~foreign /\ synced.manifest = "none" /\ ~Alive'
    BY <1>0, <2>1 DEF OwnerOK, Alive
  <2> QED BY <1>0, <2>1, <2>2 DEF OwnerOK, ManifestGuards
<1>4. CASE SyncManifest \/ ForeignEnds
  <2>1. /\ Sync \/ UNCHANGED synced
        /\ UNCHANGED <<files, job, foreign, manifest, unsure>>
        /\ \/ mode = "created" /\ mode' = "restoring" /\ Sync
           \/ mode \in {"restoring", "foreign"} /\ mode' = "down"
    BY <1>4 DEF SyncManifest, ForeignEnds, owner, ghost
  <2>2. \/ UNCHANGED synced
        \/ synced'.manifest = manifest /\ synced'.foreign = foreign /\ synced'.files = files
    BY <2>1 DEF Sync
  <2>5. mode = "created" => synced'.manifest = manifest
    BY <2>1 DEF Sync
  <2>3. ~Alive' /\ ~(mode' = "refused")
    BY <2>1 DEF Alive
  <2>4. ~unsure => (files # {} \/ foreign => manifest # "none")
    BY <1>0 DEF OwnerOK
  <2> QED BY <1>0, <2>1, <2>2, <2>3, <2>4, <2>5 DEF OwnerOK, ManifestGuards
<1>5. CASE ForeignRuns
  <2>1. /\ mode = "restoring" /\ job = "other" /\ mode' = "foreign" /\ foreign' = TRUE
        /\ UNCHANGED <<files, job, manifest, synced, unsure>>
    BY <1>5 DEF ForeignRuns, ghost
  <2>2. manifest = "other" /\ files = {} /\ ~Alive'
    BY <1>0, <2>1 DEF OwnerOK, Alive
  <2> QED BY <1>0, <2>1, <2>2 DEF OwnerOK, ManifestGuards
<1> QED BY <1>1, <1>2, <1>3, <1>4, <1>5 DEF Stands

LEMMA OwnerStep == IInv /\ [Next]_vars => OwnerOK' /\ ManifestGuards'
<1> SUFFICES ASSUME IInv, [Next]_vars PROVE OwnerOK' /\ ManifestGuards'
  OBVIOUS
<1>0. OwnerOK /\ FilesOK /\ ProcessOK /\ ManifestGuards
  BY DEF IInv
<1>1. CASE Loses
  <2>1. mode' = "down" /\ UNCHANGED job
    BY <1>1, LosesFrame
  <2>2. CASE Crash
    BY <2>1, <2>2, OwnerCrash DEF Crash, disk, owner
  <2>3. CASE CrashInEmit \/ WriteFails
    <3>1. UNCHANGED <<files, synced, manifest, foreign, unsure>> /\ mode # "created"
      <4>1. CASE CrashInEmit
        BY <4>1 DEF CrashInEmit, owner, ghost, Alive
      <4>2. CASE WriteFails
        <5>1. writing # Idle
          BY <4>2 DEF WriteFails, Idle
        <5>2. mode \in {"running", "suspending"}
          BY <1>0, <5>1 DEF ProcessOK
        <5> QED BY <4>2, <5>2 DEF WriteFails, owner, ghost
      <4> QED BY <2>3, <4>1, <4>2
    <3> QED BY <2>1, <3>1, OwnerFrame
  <2>4. CASE PowerLoss
    <3>1. /\ UNCHANGED unsure
          /\ files' \in Survivors(files, synced.files)
          /\ manifest' \in {manifest, synced.manifest}
          /\ foreign' \in {foreign, synced.foreign}
          /\ synced' = [files |-> files', manifest |-> manifest', foreign |-> foreign']
      BY <2>4 DEF PowerLoss, ghost
    <3> QED BY <2>1, <3>1, OwnerLost
  <2> QED BY <1>1, <2>2, <2>3, <2>4 DEF Loses
<1>2. CASE Stands
  BY <1>2, OwnerStands
<1>3. CASE Start
  <2>1. /\ UNCHANGED <<files, manifest, foreign, job, synced, unsure>> /\ manifest = "own"
        /\ mode' = "running"
    BY <1>3, StartFacts
  <2>2. mode # "created"
    BY <1>3 DEF Start
  <2> QED BY <2>1, <2>2, OwnerFrame
<1>4. CASE Requests \/ Emits \/ BeginSuspend \/ BeginFinalFlush \/ FlushDone \/ UNCHANGED vars
  <2>1. UNCHANGED <<files, manifest, foreign, job, synced, unsure>>
    BY <1>4 DEF Requests, Emits, RequestStop, EmitResult, BeginSuspend, BeginFinalFlush,
                FlushDone, vars, disk, owner, ghost
  <2>2. \/ UNCHANGED mode
        \/ Alive /\ mode' \in {"suspending", "flushing", "done", "stopped"}
    BY <1>4 DEF Requests, Emits, RequestStop, EmitResult, BeginSuspend, BeginFinalFlush,
                FlushDone, vars, Alive
  <2>3. Alive => manifest = "own" /\ mode # "created"
    BY <1>0 DEF OwnerOK, Alive
  <2> QED BY <2>1, <2>2, <2>3, OwnerFrame
<1>5. CASE Rots
  <2>1. /\ UNCHANGED <<manifest, foreign, job, unsure, mode>> /\ files # {}
        /\ \E fs : synced' = [synced EXCEPT !.files = fs]
    BY <1>5 DEF Rots, Corrupt, owner, ghost
  <2>2. synced'.manifest = synced.manifest /\ synced'.foreign = synced.foreign
    <3>1. PICK fs : synced' = [synced EXCEPT !.files = fs]
      BY <2>1
    <3>2. PICK a, b, c : synced = [files |-> a, manifest |-> b, foreign |-> c]
      BY <1>0 DEF FilesOK
    <3> QED BY <3>1, <3>2
  <2> QED BY <2>1, <2>2, OwnerFrame
<1>6. CASE PullBatch
  <2>1. UNCHANGED <<files, manifest, foreign, job, synced, unsure, mode>>
    BY <1>6, PullFacts
  <2> QED BY <2>1, OwnerFrame
<1>7. CASE ApplyNext
  <2>1. UNCHANGED <<files, manifest, foreign, job, synced, unsure, mode>>
    BY <1>7, ApplyFacts
  <2> QED BY <2>1, OwnerFrame
<1>8. CASE Writes
  <2>1. /\ mode \in {"running", "suspending"} /\ mode' \in {mode, "suspended"}
        /\ UNCHANGED <<manifest, foreign, job, unsure>>
    BY <1>0, <1>8, WritesFrame DEF owner, ghost
  <2>2. \/ synced'.manifest = synced.manifest /\ synced'.foreign = synced.foreign
        \/ synced'.manifest = manifest /\ synced'.foreign = foreign
    BY <1>8 DEF Writes, WriteTmp, RenameTmp, SyncDirectory, PruneOne, WriteDone, Sync, disk
  <2>3. Alive
    BY <2>1 DEF Alive
  <2> QED BY <2>1, <2>2, <2>3, OwnerFrame
<1> QED BY <1>1, <1>2, <1>3, <1>4, <1>5, <1>6, <1>7, <1>8, NextCases

-----------------------------------------------------------------------------
LEMMA InitHolds == Init => IInv
<1> SUFFICES ASSUME Init PROVE IInv
  OBVIOUS
<1>1. /\ mode = "down" /\ pos = 0 /\ source = <<NewGenerator>> /\ applied = 0
      /\ outbox = NoResults /\ writing = Idle
      /\ stop = "none" /\ reported = None /\ files = {} /\ latest = NoResults /\ torn = FALSE
      /\ job = "own" /\ manifest = "none" /\ foreign = FALSE /\ unsure = FALSE
      /\ synced = [files |-> {}, manifest |-> "none", foreign |-> FALSE]
      /\ log = << >> /\ history = NewHistory
  BY DEF Init
<1>2. ~Alive /\ NumRecords \in Nat /\ Idle.phase = "idle"
  BY <1>1, SourceAssumption DEF Alive, Idle
<1>3. RunOK
  <2>1. << >> \in Seq(Records) /\ Len(<< >>) = 0
    BY EmptySeq
  <2>2. Chain(source, log, pos)
    BY <1>1, ChainStarts
  <2> QED BY <1>1, <1>2, <2>1, <2>2, PastStarts DEF RunOK
<1>4. ProcessOK
  <2>1. NoResults \in [Slots -> Counted]
    BY EmptySound DEF NoResults
  <2> QED BY <1>1, <1>2, <2>1 DEF ProcessOK, Modes, Starting
<1>5. /\ synced.files = {} /\ synced.manifest = "none" /\ synced.foreign = FALSE
      /\ synced = [files |-> synced.files, manifest |-> synced.manifest,
                   foreign |-> synced.foreign]
  BY <1>1
<1>6. FilesOK
  BY <1>1, <1>2, <1>5 DEF FilesOK
<1>7. OwnerOK /\ ManifestGuards
  BY <1>1, <1>2, <1>5 DEF OwnerOK, ManifestGuards
<1> QED BY <1>3, <1>4, <1>6, <1>7 DEF IInv

(***************************************************************************)
(* The invariant holds whatever fails and rots, however often.             *)
(***************************************************************************)
THEOREM Invariance == Spec => []IInv
<1>1. IInv /\ [Next]_vars => IInv'
  BY RunStep, ProcessStep, FilesStep, OwnerStep DEF IInv
<1> QED BY <1>1, InitHolds, PTL DEF Spec

(***************************************************************************)
(* Recovery is exact for every source, window geometry, lateness, batch    *)
(* size and cadence, and for any number of crashes, failed writes, losses  *)
(* of power, rotten files and stops: a running job and every file that     *)
(* loads are at a point of the uninterrupted run, and the source's         *)
(* generator is where it is in that run (Pipeline::TryRestore,             *)
(* WriteCheckpoint, Source::Seek).                                         *)
(***************************************************************************)
THEOREM RecoveryIsExact == Spec => []RecoveryExact
<1>1. IInv => RecoveryExact
  <2> SUFFICES ASSUME IInv PROVE RecoveryExact
    OBVIOUS
  <2>1. ASSUME NEW f \in files
        PROVE  /\ f.offset < Len(history) /\ f.data.offset = f.offset
               /\ RestoreState(f.data) = After(f.offset).state
               /\ f.data.watermark = After(f.offset).watermark
    BY <2>1, CheckpointFacts DEF IInv, FilesOK
  <2>2. ASSUME mode \in {"running", "suspending"}
        PROVE  source[applied + 1] = After(applied).source
    <3>1. /\ Past(history, log) /\ Chain(source, log, pos) /\ pos \in Nat
          /\ applied \in Nat /\ applied =< pos /\ applied < Len(history)
      BY <2>2, SourceAssumption DEF IInv, RunOK, Alive
    <3> QED BY <3>1, PastChain DEF After
  <2> QED BY <2>1, <2>2 DEF RecoveryExact, IInv, ProcessOK
<1> QED BY <1>1, Invariance, PTL

(***************************************************************************)
(* The manifest guards the directory through any number of crashes and     *)
(* losses of power: no running job shares it with another configuration,   *)
(* and no job is locked out of its own checkpoints                         *)
(* (ValidateOrCreateJobManifest).                                          *)
(***************************************************************************)
THEOREM ManifestGuarded == Spec => []ManifestGuards
<1>1. IInv => ManifestGuards
  BY DEF IInv
<1> QED BY <1>1, Invariance, PTL

-----------------------------------------------------------------------------
(***************************************************************************)
(* With at most one rotten file.  The theorems below need this bound: with *)
(* two, retention can unlink the only file that loads.                     *)
(***************************************************************************)
Held == files \cup synced.files

\* A file of the directories after a step was there before it, unless the step
\* published it or rotted it.
LEMMA HeldStep ==
    ASSUME IInv, [Next]_vars, ~Rots
    PROVE  /\ UNCHANGED corruptions
           /\ \A f \in Held' : \/ f \in Held
                               \/ RenameTmp /\ f.offset = applied /\ f.crc_ok
<1>1. CASE Loses
  <2>1. UNCHANGED corruptions
    BY <1>1, LosesFrame
  <2>2. CASE UNCHANGED <<files, synced>>
    BY <2>1, <2>2 DEF Held
  <2>3. CASE ~UNCHANGED <<files, synced>>
    <3>1. /\ files' \in Survivors(files, synced.files)
          /\ synced' = [files |-> files', manifest |-> manifest', foreign |-> foreign']
      BY <1>1, <2>3, LosesFrame
    <3>2. files' \subseteq files \cup synced.files /\ synced'.files = files'
      BY <3>1 DEF Survivors
    <3> QED BY <2>1, <3>2 DEF Held
  <2> QED BY <2>2, <2>3
<1>2. CASE Stands
  <2>1. UNCHANGED <<files, corruptions>>
    BY <1>2, StandsFrame
  <2>2. synced'.files \subseteq Held
    BY <1>2 DEF Stands, OpenOwn, OpenForeign, Open, RenameManifest, SyncManifest, ForeignRuns,
                ForeignEnds, Sync, Held
  <2> QED BY <2>1, <2>2 DEF Held
<1>3. CASE Start
  BY <1>3, StartFacts DEF Held
<1>4. CASE Requests \/ Emits \/ BeginSuspend \/ BeginFinalFlush \/ FlushDone \/ UNCHANGED vars
  <2>1. UNCHANGED <<files, synced, corruptions>>
    BY <1>4 DEF Requests, Emits, RequestStop, EmitResult, BeginSuspend, BeginFinalFlush,
                FlushDone, vars, disk, bounds
  <2> QED BY <2>1 DEF Held
<1>5. CASE PullBatch
  BY <1>5, PullFacts DEF Held
<1>6. CASE ApplyNext
  <2>1. UNCHANGED <<files, synced, corruptions>>
    BY <1>6, ApplyFacts
  <2> QED BY <2>1 DEF Held
<1>7. CASE Writes
  <2>0. UNCHANGED corruptions
    BY <1>7, WritesFrame DEF IInv
  <2>1. CASE RenameTmp
    <3>1. PICK new : /\ new.offset = applied /\ new.crc_ok
                     /\ files' = {f \in files : f.offset # applied} \cup {new}
      BY <2>1, PublishFacts
    <3>2. UNCHANGED synced
      BY <2>1 DEF RenameTmp
    <3> QED BY <2>0, <2>1, <3>1, <3>2 DEF Held
  <2>2. CASE ~RenameTmp
    <3>1. files' \subseteq files
      BY <1>7, <2>2 DEF Writes, WriteTmp, SyncDirectory, PruneOne, WriteDone, disk
    <3>2. synced'.files \subseteq Held
      BY <1>7, <2>2 DEF Writes, WriteTmp, SyncDirectory, PruneOne, WriteDone, Sync, Held, disk
    <3> QED BY <2>0, <3>1, <3>2 DEF Held
  <2> QED BY <2>1, <2>2
<1> QED BY <1>1, <1>2, <1>3, <1>4, <1>5, <1>6, <1>7, NextCases

LEMMA HeldRots ==
    ASSUME IInv, NEW f \in files, Corrupt(f)
    PROVE  /\ f.crc_ok /\ corruptions < MaxCorruptions /\ corruptions' = corruptions + 1
           /\ UNCHANGED <<mode, applied, outbox, stop, latest, history>>
           /\ \A h \in Held' : h \in Held \/ (h.offset = f.offset /\ ~h.crc_ok)
<1>0. FilesOK
  BY DEF IInv
<1>1. /\ f.crc_ok /\ corruptions < MaxCorruptions /\ corruptions' = corruptions + 1
      /\ UNCHANGED <<mode, applied, outbox, stop, latest, history>>
      /\ files' = Rot(files, f) /\ synced' = [synced EXCEPT !.files = Rot(synced.files, f)]
  BY DEF Corrupt, process, sink, ghost
<1>2. synced'.files = Rot(synced.files, f)
  <2>1. PICK a, b, c : synced = [files |-> a, manifest |-> b, foreign |-> c]
    BY <1>0 DEF FilesOK
  <2> QED BY <1>1, <2>1
<1>3. ASSUME NEW h \in Held' PROVE h \in Held \/ (h.offset = f.offset /\ ~h.crc_ok)
  <2>1. PICK g \in Held : h = Rotten(f, g)
    BY <1>1, <1>2 DEF Held, Rot, Rotten
  <2>2. CASE g # f
    BY <2>1, <2>2 DEF Rotten
  <2>3. CASE g = f
    <3>1. IsCheckpoint(f) /\ IsCheckpoint(g)
      BY <1>0, <2>1 DEF FilesOK, Held
    <3>2. h.offset = g.offset /\ (h.crc_ok => h = g)
      BY <2>1, <3>1, RottenFacts
    <3> QED BY <2>1, <2>3, <3>2
  <2> QED BY <2>2, <2>3
<1> QED BY <1>1, <1>3

LEMMA RotStep ==
    ASSUME MaxCorruptions =< 1, IInv, RotOK, [Next]_vars
    PROVE  RotOK'
<1>0. MaxCorruptions \in Nat /\ corruptions \in Nat
  BY PipelineAssumption DEF RotOK
<1>1. CASE ~Rots
  <2>1. /\ UNCHANGED corruptions
        /\ \A f \in Held' : \/ f \in Held \/ f.crc_ok
    BY <1>1, HeldStep
  <2> QED BY <2>1 DEF RotOK, Held
<1>2. CASE Rots
  <2>1. PICK f \in files : Corrupt(f)
    BY <1>2 DEF Rots
  <2>2. /\ corruptions < MaxCorruptions /\ corruptions' = corruptions + 1
        /\ \A h \in Held' : \/ h \in Held \/ h.offset = f.offset
    BY <2>1, HeldRots
  <2>3. corruptions = 0 /\ corruptions' = 1 /\ corruptions' \in 0..MaxCorruptions
    BY <1>0, <2>2
  <2>4. \A h \in Held : h.crc_ok
    BY <2>3 DEF RotOK, Held
  <2> QED BY <2>2, <2>3, <2>4 DEF RotOK, Held
<1> QED BY <1>1, <1>2

-----------------------------------------------------------------------------
(***************************************************************************)
(* The sink.                                                               *)
(***************************************************************************)
\* Every good file after the step is a good one before it.
GoodStay == \A f \in Held' : f.crc_ok => f \in Held

LEMMA OutFrame ==
    ASSUME OutputOK, GoodStay, UNCHANGED <<latest, history, mode, applied, outbox>>,
           mode = "flushing" => UNCHANGED stop
    PROVE  OutputOK'
<1>1. \A n : ShowsAll(n)' <=> ShowsAll(n)
  BY DEF ShowsAll
<1>2. \A s : (Pending(s)' <=> Pending(s)) /\ (Flushing(s)' <=> Flushing(s))
  BY DEF Pending, Flushing, After
<1>3. CompletesExact' <=> CompletesExact
  BY DEF CompletesExact, After
<1>4. \A f \in files' \cup synced'.files : f.crc_ok => f \in files \cup synced.files
  BY DEF GoodStay, Held
<1>5. Alive' <=> Alive
  BY DEF Alive
<1> QED BY <1>1, <1>2, <1>3, <1>4, <1>5 DEF OutputOK

\* The process ends, is lost or is not running yet.
LEMMA OutStill ==
    ASSUME OutputOK, GoodStay, UNCHANGED <<latest, history>>,
           mode' \notin {"running", "suspending", "flushing", "done"}
    PROVE  OutputOK'
<1>1. \A n : ShowsAll(n)' <=> ShowsAll(n)
  BY DEF ShowsAll
<1>2. \A f \in files' \cup synced'.files : f.crc_ok => f \in files \cup synced.files
  BY DEF GoodStay, Held
<1>3. CompletesExact' /\ ~Alive'
  BY DEF CompletesExact, Alive
<1> QED BY <1>1, <1>2, <1>3 DEF OutputOK

\* The newest file that loads is as new as any that a loss of power may bring
\* back: an unlinked one has two newer names, of which one is good.
LEMMA LatestCovers ==
    ASSUME IInv, RotOK, NEW h \in Held, h.crc_ok
    PROVE  \E f \in LoadLatest(files) : h.offset =< f.offset
<1>0. FilesOK /\ RunOK /\ NumRecords \in Nat
  BY SourceAssumption DEF IInv
<1>1. \A f \in Held : /\ f.offset \in Nat /\ f.offset =< NumRecords /\ (Loadable(f) <=> f.crc_ok)
                      /\ f.crc_ok \in BOOLEAN
  <2> SUFFICES ASSUME NEW f \in Held
               PROVE  /\ f.offset \in Nat /\ f.offset =< NumRecords
                      /\ Loadable(f) <=> f.crc_ok
                      /\ f.crc_ok \in BOOLEAN
    OBVIOUS
  <2>1. IsCheckpoint(f)
    BY <1>0 DEF FilesOK, Held
  <2> QED BY <1>0, <2>1, CheckpointFacts DEF IsCheckpoint
<1>2. PICK g \in files : g.crc_ok /\ h.offset =< g.offset
  <2>1. CASE h \in files
    BY <1>1, <2>1
  <2>2. CASE h \notin files
    <3>1. TwoNewer(h.offset)
      BY <1>0, <2>2 DEF FilesOK, Held
    <3>2. PICK a \in files, b \in files : a.offset > h.offset /\ b.offset > h.offset
                                          /\ a.offset # b.offset
      BY <3>1 DEF TwoNewer
    <3>3. a.crc_ok \/ b.crc_ok
      BY <3>2 DEF RotOK
    <3> QED BY <1>1, <3>2, <3>3 DEF Held
  <2> QED BY <2>1, <2>2
<1>3. PICK S : S = {f.offset : f \in {x \in files : Loadable(x)}}
  OBVIOUS
<1>4. \A o \in S : \E f \in files : o = f.offset /\ Loadable(f)
  BY <1>3
<1>5. \A f \in files : Loadable(f) => f.offset \in S
  BY <1>3
<1>6. S \subseteq Int /\ S # {} /\ \A o \in S : o =< NumRecords
  BY <1>1, <1>2, <1>4, <1>5 DEF Held
<1>7. PICK o \in S : \A p \in S : p =< o
  <2>1. PICK b \in Int : \A p \in S : p =< b
    BY <1>0, <1>6
  <2> QED BY <1>6, <2>1, IntGreatest
<1>8. PICK f \in files : o = f.offset /\ Loadable(f)
  BY <1>4, <1>7
<1>9. f \in LoadLatest(files)
  BY <1>5, <1>7, <1>8 DEF LoadLatest
<1>10. h.offset =< f.offset
  <2>1. g.offset \in S
    BY <1>1, <1>2, <1>5 DEF Held
  <2>2. h.offset \in Nat /\ g.offset \in Nat /\ f.offset \in Nat
    BY <1>1, <1>2, <1>8 DEF Held
  <2> QED BY <1>2, <1>7, <1>8, <2>1, <2>2
<1> QED BY <1>9, <1>10

LEMMA ShowsContinues ==
    ASSUME NEW h, NEW g, Continues(h, g), NEW shown, NEW s, NEW n \in Nat, Shows(h, shown, s, n)
    PROVE  Shows(g, shown, s, n)
<1>1. PICK i \in n..(Len(h) - 1) : \/ s \in FlushEmits(h[i + 1].state)
                                   \/ shown[s] = h[i + 1].latest[s]
  BY DEF Shows
<1>2. i \in n..(Len(g) - 1) /\ i + 1 \in 1..Len(h)
  BY <1>1 DEF Continues
<1>3. g[i + 1] = h[i + 1]
  BY <1>2 DEF Continues
<1> QED BY <1>1, <1>2, <1>3 DEF Shows

\* Of a running job: where it is in the run, and that its sink is whole.
LEMMA AliveFacts ==
    ASSUME IInv, Alive
    PROVE  /\ applied \in Nat /\ applied < Len(history) /\ Len(history) \in Nat /\ ~torn
           /\ \A f \in Held : f.offset \in Nat
<1>1. applied \in Nat /\ applied < Len(history)
  BY SourceAssumption DEF IInv, RunOK
<1>2. Len(history) \in Nat
  BY LenProperties DEF IInv, RunOK, Past
<1>3. ~torn
  BY DEF IInv, ProcessOK
<1>4. \A f \in Held : f.offset \in Nat
  BY DEF IInv, FilesOK, IsCheckpoint, Held
<1> QED BY <1>1, <1>2, <1>3, <1>4

LEMMA OutStart == ASSUME IInv, OutInv, Start PROVE OutputOK'
<1>1. /\ mode' = "running" /\ outbox' = NoResults /\ UNCHANGED <<files, synced, latest, history>>
      /\ applied' \in Nat
      /\ \/ applied' = 0 /\ LoadLatest(files) = {}
         \/ \E f \in LoadLatest(files) : f.offset = applied'
  BY StartFacts
<1>2. OutputOK /\ RotOK
  BY DEF OutInv
<1>3. \A n : ShowsAll(n)' <=> ShowsAll(n)
  BY <1>1 DEF ShowsAll
<1>4. UNCHANGED Held
  BY <1>1 DEF Held
<1>5. \A f \in Held : f.crc_ok => f.offset =< applied'
  <2> SUFFICES ASSUME NEW h \in Held, h.crc_ok PROVE h.offset =< applied'
    OBVIOUS
  <2>1. PICK f \in LoadLatest(files) : h.offset =< f.offset
    BY <1>2, LatestCovers
  <2>2. PICK g \in LoadLatest(files) : g.offset = applied'
    BY <1>1, <2>1
  <2>3. f \in files /\ g \in files /\ Loadable(f) /\ f.offset =< g.offset
    BY <2>1, <2>2 DEF LoadLatest
  <2>4. h.offset \in Nat /\ f.offset \in Nat /\ g.offset \in Nat
    BY <2>3 DEF IInv, FilesOK, IsCheckpoint, Held
  <2> QED BY <2>1, <2>2, <2>3, <2>4
<1>6. ShowsAll(applied')
  <2>1. CASE applied' = 0
    BY <1>2, <2>1 DEF OutputOK
  <2>2. CASE \E f \in LoadLatest(files) : f.offset = applied'
    <3>1. PICK f \in files : Loadable(f) /\ f.offset = applied'
      BY <2>2 DEF LoadLatest
    <3>2. f.crc_ok
      BY <3>1 DEF Loadable
    <3> QED BY <1>2, <3>1, <3>2 DEF OutputOK
  <2> QED BY <1>1, <2>1, <2>2
<1>7. \A s \in Slots : Pending(s)'
  <2> SUFFICES ASSUME NEW s \in Slots PROVE Pending(s)'
    OBVIOUS
  <2>1. ~(outbox'[s].count > 0)
    BY <1>1, EmptySound DEF NoResults
  <2>2. Shows(history', latest', s, applied')
    BY <1>1, <1>6 DEF ShowsAll
  <2> QED BY <2>1, <2>2 DEF Pending
<1>8. CompletesExact'
  BY <1>1 DEF CompletesExact
<1>9. \A f \in files' \cup synced'.files : f.crc_ok => ShowsAll(f.offset)' /\ f.offset =< applied'
  BY <1>2, <1>3, <1>4, <1>5 DEF Held, OutputOK
<1>10. ShowsAll(0)'
  BY <1>2, <1>3 DEF OutputOK
<1> QED BY <1>1, <1>7, <1>8, <1>9, <1>10 DEF OutputOK

\* A result reaches the sink: it is what the run shows or will fire again.
LEMMA OutEmit == ASSUME IInv, OutInv, NEW s \in Slots, EmitResult(s) PROVE OutputOK'
<1>0. /\ applied \in Nat /\ applied < Len(history) /\ Len(history) \in Nat /\ ~torn
      /\ \A f \in Held : f.offset \in Nat
  BY AliveFacts DEF EmitResult
<1>1. /\ Alive /\ outbox[s].count > 0
      /\ latest' = [latest EXCEPT ![s] = outbox[s]]
      /\ outbox' = [outbox EXCEPT ![s] = NoPane]
      /\ UNCHANGED <<mode, applied, stop, files, synced, history>>
  BY <1>0 DEF EmitResult, AppendRow, ghost
<1>2. OutputOK /\ UNCHANGED Held
  BY <1>1 DEF OutInv, Held
<1>3. latest \in [Slots -> Counted] /\ outbox \in [Slots -> Counted]
  BY DEF IInv, ProcessOK
<1>4. /\ latest'[s] = outbox[s] /\ outbox'[s] = NoPane /\ ~(outbox'[s].count > 0)
      /\ \A t \in Slots : t # s => latest'[t] = latest[t] /\ outbox'[t] = outbox[t]
  BY <1>1, <1>3, EmptySound
<1>5. /\ s \in FlushEmits(After(applied).state) \/ outbox[s] = After(applied).latest[s]
      /\ mode = "flushing" => s \in FlushEmits(After(applied).state)
                              /\ outbox[s] = After(applied).state.panes[s]
  <2>1. CASE mode \in {"running", "suspending"}
    BY <1>1, <1>2, <2>1 DEF OutputOK, Pending
  <2>2. CASE mode = "flushing"
    BY <1>1, <1>2, <2>2 DEF OutputOK, Flushing
  <2> QED BY <1>1, <2>1, <2>2 DEF Alive
<1>6. ASSUME NEW n \in Nat, n =< applied PROVE Shows(history, latest', s, n)
  <2>1. s \in FlushEmits(history[applied + 1].state) \/ latest'[s] = history[applied + 1].latest[s]
    BY <1>4, <1>5 DEF After
  <2> QED BY <1>0, <1>6, <2>1, ShowsEmitted
<1>7. ASSUME NEW n \in Nat, n =< applied, ShowsAll(n) PROVE ShowsAll(n)'
  <2> SUFFICES ASSUME NEW t \in Slots PROVE Shows(history, latest', t, n)
    BY <1>1 DEF ShowsAll
  <2>1. CASE t = s
    BY <1>6, <1>7, <2>1
  <2>2. CASE t # s
    <3>1. Shows(history, latest, t, n) /\ latest'[t] = latest[t]
      BY <1>4, <1>7, <2>2 DEF ShowsAll
    <3> QED BY <3>1, ShowsSame
  <2> QED BY <2>1, <2>2
<1>8. ShowsAll(0)'
  BY <1>0, <1>2, <1>7 DEF OutputOK
<1>9. \A f \in files' \cup synced'.files : f.crc_ok => ShowsAll(f.offset)' /\ f.offset =< applied'
  <2> SUFFICES ASSUME NEW f \in Held, f.crc_ok PROVE ShowsAll(f.offset)' /\ f.offset =< applied
    BY <1>1 DEF Held
  <2>1. ShowsAll(f.offset) /\ f.offset =< applied /\ f.offset \in Nat
    BY <1>0, <1>1, <1>2 DEF OutputOK, Held
  <2> QED BY <1>7, <2>1
<1>10. mode' \in {"running", "suspending"} => \A t \in Slots : Pending(t)'
  <2> SUFFICES ASSUME mode \in {"running", "suspending"}, NEW t \in Slots PROVE Pending(t)'
    BY <1>1
  <2>1. Pending(t)
    BY <1>2 DEF OutputOK
  <2>2. CASE t = s
    <3>1. Shows(history, latest', s, applied)
      BY <1>0, <1>6
    <3>2. Shows(history', latest', t, applied') /\ ~(outbox'[t].count > 0)
      BY <1>1, <1>4, <2>2, <3>1
    <3> QED BY <3>2 DEF Pending
  <2>3. CASE t # s
    <3>1. outbox'[t] = outbox[t] /\ latest'[t] = latest[t]
      BY <1>4, <2>3
    <3>2. ~(outbox[t].count > 0) => Shows(history, latest', t, applied)
      BY <2>1, <3>1, ShowsSame DEF Pending
    <3> QED BY <1>1, <2>1, <3>1, <3>2 DEF Pending, After
  <2> QED BY <2>2, <2>3
<1>11. mode' = "flushing" => \A t \in Slots : Flushing(t)'
  <2> SUFFICES ASSUME mode = "flushing", NEW t \in Slots PROVE Flushing(t)'
    BY <1>1
  <2>1. Flushing(t)
    BY <1>2 DEF OutputOK
  <2>2. CASE t = s
    BY <1>1, <1>4, <1>5, <2>2 DEF Flushing, After
  <2>3. CASE t # s
    <3>1. outbox'[t] = outbox[t] /\ latest'[t] = latest[t]
      BY <1>4, <2>3
    <3>2. t \notin FlushEmits(After(applied).state) => Shows(history, latest', t, applied)
      BY <2>1, <3>1, ShowsSame DEF Flushing
    <3> QED BY <1>1, <2>1, <3>1, <3>2 DEF Flushing, After
  <2> QED BY <2>2, <2>3
<1>12. CompletesExact'
  BY <1>1 DEF CompletesExact, Alive
<1> QED BY <1>1, <1>2, <1>8, <1>9, <1>10, <1>11, <1>12 DEF OutputOK

\* A record takes the run on; what it does not emit still waits or is shown.
LEMMA OutApply == ASSUME IInv, OutInv, ApplyNext PROVE OutputOK'
<1>0. OutputOK
  BY DEF OutInv
<1>1. /\ mode = "running" /\ outbox = NoResults
      /\ applied' = applied + 1 /\ UNCHANGED <<mode, stop, files, latest, synced, log>>
      /\ Past(history', log) /\ Continues(history, history') /\ applied' < Len(history')
  BY ApplyFacts
<1>2. PICK a : /\ a = RunItems(history'[applied'].state, history'[applied'].watermark,
                              log[applied'], history'[applied' + 1].source, Keys)
               /\ outbox' = a.results
  BY ApplyFacts
<1>3. applied \in Nat /\ \A f \in Held : f.offset \in Nat
  BY <1>1, AliveFacts DEF Alive
<1>4. ASSUME NEW n \in Nat, ShowsAll(n) PROVE ShowsAll(n)'
  BY <1>1, <1>4, ShowsContinues DEF ShowsAll
<1>5. \A s \in Slots : Pending(s)'
  <2> SUFFICES ASSUME NEW s \in Slots PROVE Pending(s)'
    OBVIOUS
  <2>1. ~(outbox[s].count > 0)
    BY <1>1, EmptySound DEF NoResults
  <2>2. Shows(history, latest, s, applied)
    BY <1>0, <1>1, <2>1 DEF OutputOK, Pending
  <2>3. Shows(history', latest, s, applied)
    BY <1>1, <1>3, <2>2, ShowsContinues
  <2>0. PICK g : g = history'
    OBVIOUS
  <2>4. PICK n \in Nat : n = applied /\ g = history'
    BY <1>3, <2>0
  <2>5. log \in Seq(Records)
    BY DEF IInv, RunOK
  <2>6. a = RunItems(g[n + 1].state, g[n + 1].watermark, log[n + 1], g[n + 2].source, Keys)
    <3>1. applied' = n + 1 /\ applied' + 1 = n + 2
      BY <1>1, <2>4
    <3> QED BY <1>2, <2>4, <3>1
  <2>7. n + 1 < Len(g) /\ Past(g, log)
    BY <1>1, <2>4
  <2>8. /\ a.results[s].count > 0 => a.results[s] = g[n + 2].latest[s]
        /\ ~(a.results[s].count > 0) /\ Shows(g, latest, s, n) => Shows(g, latest, s, n + 1)
    BY <2>5, <2>6, <2>7, ShowsAdvances
  <2>9. applied' + 1 = n + 2 /\ applied' = n + 1
    BY <1>1, <2>4
  <2>10. outbox'[s].count > 0 => outbox'[s] = history'[applied' + 1].latest[s]
    BY <1>2, <2>4, <2>8, <2>9
  <2>11. ~(outbox'[s].count > 0) => Shows(history', latest', s, applied')
    BY <1>1, <1>2, <2>3, <2>4, <2>8, <2>9
  <2> QED BY <2>10, <2>11 DEF Pending, After
<1>6. \A f \in files' \cup synced'.files : f.crc_ok => ShowsAll(f.offset)' /\ f.offset =< applied'
  <2> SUFFICES ASSUME NEW f \in Held, f.crc_ok PROVE ShowsAll(f.offset)' /\ f.offset =< applied'
    BY <1>1 DEF Held
  <2>1. ShowsAll(f.offset) /\ f.offset =< applied /\ f.offset \in Nat
    BY <1>0, <1>1, <1>3 DEF OutputOK, Held, Alive
  <2> QED BY <1>1, <1>3, <1>4, <2>1
<1>7. ShowsAll(0)'
  BY <1>0, <1>4 DEF OutputOK
<1>8. CompletesExact'
  BY <1>1 DEF CompletesExact
<1> QED BY <1>1, <1>5, <1>6, <1>7, <1>8 DEF OutputOK

\* The end of the input: every window of the run fires.
LEMMA OutFlush == ASSUME IInv, OutInv, BeginFinalFlush PROVE OutputOK'
<1>0. OutputOK
  BY DEF OutInv
<1>1. /\ mode = "running" /\ mode' = "flushing" /\ outbox = NoResults /\ applied = pos
      /\ outbox' = FlushResults(state)
      /\ stop = "none" => pos = NumRecords
      /\ UNCHANGED <<applied, stop, latest, files, synced, history>>
  BY DEF BeginFinalFlush, BatchDone, disk, sink, ghost
<1>2. \A n : ShowsAll(n)' <=> ShowsAll(n)
  BY <1>1 DEF ShowsAll
<1>3. state = After(applied).state
  BY <1>1 DEF IInv, ProcessOK
<1>4. \A s \in Slots : Flushing(s)'
  <2> SUFFICES ASSUME NEW s \in Slots PROVE Flushing(s)'
    OBVIOUS
  <2>1. PICK st : st = After(applied).state /\ outbox' = FlushResults(st)
    BY <1>1, <1>3
  <2>2. outbox'[s] = IF s \in FlushEmits(st) THEN st.panes[s] ELSE NoPane
    BY <2>1 DEF FlushResults
  <2>3. Shows(history, latest, s, applied)
    <3>1. ~(outbox[s].count > 0)
      BY <1>1, EmptySound DEF NoResults
    <3> QED BY <1>0, <1>1, <3>1 DEF OutputOK, Pending
  <2>4. After(applied)'.state = st
    BY <1>1, <2>1 DEF After
  <2>5. s \in FlushEmits(st) => outbox'[s] = st.panes[s]
    BY <2>2
  <2>6. s \notin FlushEmits(st) => ~(outbox'[s].count > 0) /\ Shows(history', latest', s, applied')
    BY <1>1, <2>2, <2>3, EmptySound
  <2> QED BY <2>4, <2>5, <2>6 DEF Flushing
<1>5. CompletesExact'
  BY <1>1 DEF CompletesExact
<1>6. Alive
  BY <1>1 DEF Alive
<1> QED BY <1>0, <1>1, <1>2, <1>4, <1>5, <1>6 DEF OutputOK

\* The run has no point behind the end of the input.
LEMMA OutDone == ASSUME IInv, OutInv, FlushDone PROVE OutputOK'
<1>0. OutputOK
  BY DEF OutInv
<1>1. /\ mode = "flushing" /\ outbox = NoResults
      /\ mode' = IF stop = "none" THEN "done" ELSE "stopped"
      /\ UNCHANGED <<latest, history, files, synced>>
  BY DEF FlushDone, disk, sink, ghost
<1>2. \A n : ShowsAll(n)' <=> ShowsAll(n)
  BY <1>1 DEF ShowsAll
<1>3. ASSUME stop = "none" PROVE latest = Finished(After(NumRecords))
  <2>1. applied = NumRecords /\ NumRecords \in Nat
    BY <1>0, <1>1, <1>3, SourceAssumption DEF OutputOK
  <2>2. Len(history) \in Nat /\ Len(history) - 1 =< applied
    BY <2>1, LenProperties DEF IInv, RunOK, Past
  <2>3. PICK h : h = After(applied)
    OBVIOUS
  <2>4. latest \in [Slots -> Counted]
    BY DEF IInv, ProcessOK
  <2>5. ASSUME NEW s \in Slots PROVE latest[s] = Finished(h)[s]
    <3>0. /\ Finished(h)[s] = IF FlushResults(h.state)[s].count > 0 THEN FlushResults(h.state)[s]
                                                                   ELSE h.latest[s]
      BY DEF Finished, Overlay
    <3>1. FlushResults(h.state)[s] = IF s \in FlushEmits(h.state) THEN h.state.panes[s] ELSE NoPane
      BY DEF FlushResults
    <3>2. Flushing(s) /\ ~(outbox[s].count > 0)
      BY <1>0, <1>1, EmptySound DEF OutputOK, NoResults
    <3>3. CASE s \in FlushEmits(h.state)
      <4>1. h.state.panes[s].count > 0
        BY <3>3 DEF FlushEmits, ResultSlots, LiveSlots
      <4>2. latest[s] = h.state.panes[s]
        BY <2>3, <3>2, <3>3, <4>1 DEF Flushing
      <4> QED BY <3>0, <3>1, <3>3, <4>1, <4>2
    <3>4. CASE s \notin FlushEmits(h.state)
      <4>1. Shows(history, latest, s, applied)
        BY <2>3, <3>2, <3>4 DEF Flushing
      <4>2. PICK m \in applied..(Len(history) - 1) :
               s \in FlushEmits(history[m + 1].state) \/ latest[s] = history[m + 1].latest[s]
        BY <4>1 DEF Shows
      <4>3. m = applied
        BY <2>1, <2>2, <4>2
      <4>4. latest[s] = h.latest[s]
        BY <2>3, <3>4, <4>2, <4>3 DEF After
      <4> QED BY <3>0, <3>1, <3>4, <4>4, EmptySound
    <3> QED BY <3>3, <3>4
  <2>6. Finished(h) = [s \in Slots |-> Finished(h)[s]]
    BY DEF Finished, Overlay
  <2>7. latest = [s \in Slots |-> latest[s]]
    BY <2>4
  <2>8. latest = Finished(h)
    BY <2>5, <2>6, <2>7
  <2> QED BY <2>1, <2>3, <2>8
<1>4. CompletesExact'
  BY <1>1, <1>3 DEF CompletesExact, After
<1>5. ~Alive' /\ mode' \in {"done", "stopped"}
  BY <1>1 DEF Alive
<1> QED BY <1>0, <1>1, <1>2, <1>4, <1>5 DEF OutputOK

\* A checkpoint is written when nothing is left to emit, at the records applied.
LEMMA OutPublish == ASSUME IInv, OutInv, RenameTmp PROVE OutputOK'
<1>0. OutputOK
  BY DEF OutInv
<1>1. /\ mode \in {"running", "suspending"}
      /\ writing.phase # "due" => outbox = NoResults
      /\ UNCHANGED <<applied, outbox, stop, latest, history>>
  BY WritesFrame DEF IInv, Writes, sink, ghost
<1>2. writing.phase = "tmp" /\ UNCHANGED mode
  BY DEF RenameTmp
<1>3. ShowsAll(applied)
  <2> SUFFICES ASSUME NEW s \in Slots PROVE Shows(history, latest, s, applied)
    BY DEF ShowsAll
  <2>1. ~(outbox[s].count > 0)
    BY <1>1, <1>2, EmptySound DEF NoResults
  <2> QED BY <1>0, <1>1, <2>1 DEF OutputOK, Pending
<1>4. \A f \in Held' : f \in Held \/ f.offset = applied
  <2>1. PICK new : /\ new.offset = applied
                   /\ files' = {f \in files : f.offset # applied} \cup {new}
    BY PublishFacts
  <2>2. UNCHANGED synced
    BY DEF RenameTmp
  <2> QED BY <2>1, <2>2 DEF Held
<1>5. \A n : ShowsAll(n)' <=> ShowsAll(n)
  BY <1>1 DEF ShowsAll
<1>6. \A s : Pending(s)' <=> Pending(s)
  BY <1>1 DEF Pending, After
<1>7. Alive /\ applied \in Nat
  BY <1>1, AliveFacts DEF Alive
<1>8. \A f \in files' \cup synced'.files : f.crc_ok => ShowsAll(f.offset)' /\ f.offset =< applied'
  <2> SUFFICES ASSUME NEW f \in Held', f.crc_ok PROVE ShowsAll(f.offset)' /\ f.offset =< applied'
    BY DEF Held
  <2>1. CASE f \in Held
    BY <1>0, <1>1, <1>5, <1>7, <2>1 DEF OutputOK, Held
  <2>2. CASE f.offset = applied
    BY <1>1, <1>3, <1>5, <1>7, <2>2
  <2> QED BY <1>4, <2>1, <2>2
<1>9. CompletesExact'
  BY <1>1, <1>2 DEF CompletesExact
<1> QED BY <1>0, <1>1, <1>2, <1>5, <1>6, <1>8, <1>9 DEF OutputOK

LEMMA OutStep ==
    ASSUME MaxCorruptions =< 1
    PROVE  IInv /\ OutInv /\ [Next]_vars => OutInv'
<1> SUFFICES ASSUME IInv, OutInv, [Next]_vars PROVE OutInv'
  OBVIOUS
<1>0. OutputOK /\ RotOK
  BY DEF OutInv
<1>1. RotOK'
  BY <1>0, RotStep
<1>2. CASE Rots
  <2>1. PICK f \in files : Corrupt(f)
    BY <1>2 DEF Rots
  <2>2. UNCHANGED <<mode, applied, outbox, stop, latest, history>> /\ GoodStay
    BY <2>1, HeldRots DEF GoodStay
  <2> QED BY <1>0, <1>1, <2>2, OutFrame DEF OutInv
<1>3. CASE ~Rots /\ ~RenameTmp
  <2>0. GoodStay
    BY <1>3, HeldStep DEF GoodStay
  <2>1. CASE Loses
    <3>1. mode' = "down" /\ UNCHANGED <<latest, history>>
      BY <2>1, LosesFrame
    <3> QED BY <1>0, <1>1, <2>0, <3>1, OutStill DEF OutInv
  <2>2. CASE Stands
    <3>1. UNCHANGED <<latest, history>>
      BY <2>2, StandsFrame DEF ghost
    <3>2. mode' \notin {"running", "suspending", "flushing", "done"}
      BY <2>2, Modality
    <3> QED BY <1>0, <1>1, <2>0, <3>1, <3>2, OutStill DEF OutInv
  <2>3. CASE Start
    BY <1>1, <2>3, OutStart DEF OutInv
  <2>4. CASE Requests \/ UNCHANGED vars
    <3>1. UNCHANGED <<mode, applied, outbox, latest, history>> /\ (mode = "flushing" => UNCHANGED stop)
      BY <2>4 DEF Requests, RequestStop, vars, process, disk, sink, ghost
    <3> QED BY <1>0, <1>1, <2>0, <3>1, OutFrame DEF OutInv
  <2>5. CASE Emits
    BY <1>1, <2>5, OutEmit DEF Emits, OutInv
  <2>6. CASE PullBatch
    <3>1. UNCHANGED <<mode, applied, outbox, latest, history, stop>>
      BY <2>6, PullFacts
    <3> QED BY <1>0, <1>1, <2>0, <3>1, OutFrame DEF OutInv
  <2>7. CASE ApplyNext
    BY <1>1, <2>7, OutApply DEF OutInv
  <2>8. CASE BeginSuspend
    <3>1. /\ mode = "running" /\ mode' = "suspending"
          /\ UNCHANGED <<applied, outbox, latest, history, stop>>
      BY <2>8 DEF BeginSuspend, disk, sink, ghost
    <3>2. \A n : ShowsAll(n)' <=> ShowsAll(n)
      BY <3>1 DEF ShowsAll
    <3>3. \A s : Pending(s)' <=> Pending(s)
      BY <3>1 DEF Pending, After
    <3>4. Alive /\ CompletesExact'
      BY <3>1 DEF Alive, CompletesExact
    <3>5. \A f \in files' \cup synced'.files : f.crc_ok => f \in files \cup synced.files
      BY <2>0 DEF GoodStay, Held
    <3>6. OutputOK'
      BY <1>0, <3>1, <3>2, <3>3, <3>4, <3>5 DEF OutputOK
    <3> QED BY <1>1, <3>6 DEF OutInv
  <2>9. CASE BeginFinalFlush
    BY <1>1, <2>9, OutFlush DEF OutInv
  <2>10. CASE FlushDone
    BY <1>1, <2>10, OutDone DEF OutInv
  <2>11. CASE Writes
    <3>1. /\ mode' \in {mode, "suspended"}
          /\ UNCHANGED <<applied, outbox, stop, latest, history>>
      BY <2>11, WritesFrame DEF IInv, sink, ghost
    <3>2. CASE UNCHANGED mode
      BY <1>0, <1>1, <2>0, <3>1, <3>2, OutFrame DEF OutInv
    <3>3. CASE mode' = "suspended"
      BY <1>0, <1>1, <2>0, <3>1, <3>3, OutStill DEF OutInv
    <3> QED BY <3>1, <3>2, <3>3
  <2> QED BY <1>3, <2>1, <2>2, <2>3, <2>4, <2>5, <2>6, <2>7, <2>8, <2>9, <2>10, <2>11, NextCases
<1>4. CASE RenameTmp
  BY <1>1, <1>4, OutPublish DEF OutInv
<1> QED BY <1>2, <1>3, <1>4

-----------------------------------------------------------------------------
LEMMA OutInit == Init => OutInv
<1> SUFFICES ASSUME Init PROVE OutInv
  OBVIOUS
<1>1. /\ mode = "down" /\ files = {} /\ latest = NoResults /\ history = NewHistory
      /\ corruptions = 0 /\ synced = [files |-> {}, manifest |-> "none", foreign |-> FALSE]
  BY DEF Init
<1>2. synced.files = {}
  BY <1>1
<1>3. RotOK
  BY <1>1, <1>2, PipelineAssumption DEF RotOK
<1>4. ShowsAll(0)
  <2> SUFFICES ASSUME NEW s \in Slots PROVE Shows(history, latest, s, 0)
    BY DEF ShowsAll
  <2>1. Len(NewHistory) = 1 /\ NewHistory[0 + 1].latest = NoResults
    BY DEF NewHistory
  <2>2. 0 \in 0..(Len(history) - 1) /\ latest[s] = history[0 + 1].latest[s]
    BY <1>1, <2>1
  <2> QED BY <2>2 DEF Shows
<1>5. ~Alive /\ CompletesExact
  BY <1>1 DEF Alive, CompletesExact
<1> QED BY <1>1, <1>2, <1>3, <1>4, <1>5 DEF OutInv, OutputOK

(***************************************************************************)
(* With at most one rotten file, the sink is never behind a checkpoint     *)
(* that could be restored, now or after a loss of power.                   *)
(***************************************************************************)
THEOREM OutputInvariance ==
    ASSUME MaxCorruptions =< 1
    PROVE  Spec => []OutInv
<1>1. IInv /\ OutInv /\ [Next]_vars => OutInv'
  BY OutStep
<1> QED BY <1>1, OutInit, Invariance, PTL DEF Spec

(***************************************************************************)
(* A restart from any checkpoint that loads loses no result, whatever      *)
(* failed before: each slot shows a result of the checkpoint's offset or   *)
(* later, or is fired again (Pipeline::WriteCheckpoint flushes the sink    *)
(* before it captures the state).                                          *)
(***************************************************************************)
THEOREM OutputGoesFirst ==
    ASSUME MaxCorruptions =< 1
    PROVE  Spec => []OutputBeforeState
<1>1. OutInv => OutputBeforeState
  BY DEF OutInv, OutputOK, OutputBeforeState, ShowsAll, Shows, NotBehind, After, Loadable
<1> QED BY <1>1, OutputInvariance, PTL

(***************************************************************************)
(* A job that reaches the end of its input leaves in the sink exactly what *)
(* an uninterrupted run leaves, for every source and after any number of   *)
(* crashes, failed writes, losses of power and suspensions                 *)
(* (Pipeline::Run, DurableFileSink::ReadLatest).                           *)
(***************************************************************************)
THEOREM EndsExact ==
    ASSUME MaxCorruptions =< 1
    PROVE  Spec => []CompletesExact
<1>1. OutInv => CompletesExact
  BY DEF OutInv, OutputOK
<1> QED BY <1>1, OutputInvariance, PTL

\* Of two files that newer names make surplus one is good.
LEMMA NewerGood ==
    ASSUME RotOK, NEW o, TwoNewer(o)
    PROVE  \E f \in files : f.crc_ok /\ f.offset > o
<1>1. PICK a \in files, b \in files : a.offset > o /\ b.offset > o /\ a.offset # b.offset
  BY DEF TwoNewer
<1>2. a.crc_ok \/ b.crc_ok
  BY <1>1 DEF RotOK
<1> QED BY <1>1, <1>2

LEMMA HeldFacts ==
    ASSUME IInv
    PROVE  \A f \in Held : /\ f.offset \in Nat /\ f.offset =< NumRecords
                           /\ Loadable(f) <=> f.crc_ok
<1> SUFFICES ASSUME NEW f \in Held
             PROVE  /\ f.offset \in Nat /\ f.offset =< NumRecords
                    /\ Loadable(f) <=> f.crc_ok
  OBVIOUS
<1>1. IsCheckpoint(f) /\ RunOK
  BY DEF IInv, FilesOK, Held
<1> QED BY <1>1, CheckpointFacts

(***************************************************************************)
(* What Progress() reports stays restorable through any number of failures *)
(* unless that very file rots (Pipeline::WriteCheckpoint,                  *)
(* CleanOldCheckpoints, Pipeline::TryRestore).                             *)
(***************************************************************************)
THEOREM ReportedStays ==
    ASSUME MaxCorruptions =< 1
    PROVE  Spec => []ReportedRestorable
<1>1. IInv /\ OutInv => ReportedRestorable
  <2> SUFFICES ASSUME IInv, OutInv, reported # None,
                      ~(\E f \in files : f.offset = reported /\ ~f.crc_ok)
               PROVE  \E o \in ValidOffsets(files) : o >= reported
    BY DEF ReportedRestorable
  <2>1. reported \in Nat /\ ((\E f \in files : f.offset = reported) \/ TwoNewer(reported))
    BY DEF IInv, FilesOK
  <2>2. PICK f \in files : f.crc_ok /\ (f.offset = reported \/ f.offset > reported)
    BY <2>1, NewerGood DEF OutInv
  <2>3. f.offset \in Nat /\ Loadable(f)
    BY <2>2, HeldFacts DEF Held
  <2>4. f.offset \in ValidOffsets(files)
    BY <2>2, <2>3 DEF ValidOffsets
  <2> QED BY <2>1, <2>2, <2>3, <2>4
<1> QED BY <1>1, Invariance, OutputInvariance, PTL

\* Where a directory lets a job resume.
LEMMA ResumeFacts ==
    ASSUME NEW D, \A f \in D : f.offset \in Nat /\ f.offset =< NumRecords, NEW r,
           r = Max({0} \cup ValidOffsets(D))
    PROVE  /\ r \in Nat /\ (r = 0 \/ \E f \in D : Loadable(f) /\ f.offset = r)
           /\ \A f \in D : Loadable(f) => f.offset =< r
<1>1. PICK S : S = {0} \cup ValidOffsets(D)
  OBVIOUS
<1>2. /\ \A o \in S : o = 0 \/ \E f \in D : Loadable(f) /\ f.offset = o
      /\ 0 \in S /\ \A f \in D : Loadable(f) => f.offset \in S
  BY <1>1 DEF ValidOffsets
<1>3. NumRecords \in Nat
  BY SourceAssumption
<1>4. S \subseteq Nat /\ \A o \in S : o =< NumRecords
  BY <1>2, <1>3
<1>5. PICK b \in Int : \A o \in S : o =< b
  BY <1>3, <1>4
<1>6. S \subseteq Int /\ S # {}
  BY <1>2, <1>4
<1>7. Max(S) \in S /\ \A o \in S : o =< Max(S)
  BY <1>5, <1>6, MaxGreatest
<1> QED BY <1>1, <1>2, <1>4, <1>7

\* A good file that is sure to survive is there after the step, or a newer one.
LEMMA DurableStep ==
    ASSUME IInv, OutInv, [Next]_vars, ~Rots, NEW f \in Durable, f.crc_ok
    PROVE  \E g \in Durable' : g.crc_ok /\ (g = f \/ g.offset > f.offset)
<1>0. FilesOK /\ RotOK /\ f \in files /\ f \in synced.files
  BY DEF IInv, OutInv, Durable
<1>1. CASE UNCHANGED <<files, synced>>
  BY <1>1 DEF Durable
<1>2. CASE UNCHANGED files /\ Sync
  <2>1. synced'.files = files'
    BY <1>2 DEF Sync
  <2> QED BY <1>0, <1>2, <2>1 DEF Durable
<1>3. CASE PowerLoss
  <2>1. /\ files' \in Survivors(files, synced.files)
        /\ synced' = [files |-> files', manifest |-> manifest', foreign |-> foreign']
    BY <1>3 DEF PowerLoss
  <2>2. files \cap synced.files \subseteq files' /\ synced'.files = files'
    BY <2>1 DEF Survivors
  <2> QED BY <1>0, <2>2 DEF Durable
<1>4. CASE RenameTmp
  <2>1. PICK new : /\ IsCheckpoint(new) /\ new.offset = applied /\ new.crc_ok
                   /\ files' = {g \in files : g.offset # applied} \cup {new}
    BY <1>4, PublishFacts
  <2>2. UNCHANGED synced
    BY <1>4 DEF RenameTmp
  <2>3. CASE f.offset # applied
    BY <1>0, <2>1, <2>2, <2>3 DEF Durable
  <2>4. CASE f.offset = applied
    <3>1. IsCheckpoint(f) /\ f.crc_ok \in BOOLEAN /\ new.crc_ok \in BOOLEAN
      BY <1>0, <2>1 DEF FilesOK, IsCheckpoint
    <3>2. f.crc_ok = new.crc_ok
      BY <2>1, <3>1
    <3>3. f = new
      BY <2>1, <2>4, <3>1, <3>2, CheckpointUnique
    <3> QED BY <1>0, <2>1, <2>2, <3>3 DEF Durable
  <2> QED BY <2>3, <2>4
<1>5. CASE PruneOne
  <2>1. PICK g \in Surplus(files) : files' = files \ {g}
    BY <1>5 DEF PruneOne
  <2>2. files \subseteq synced.files /\ UNCHANGED synced
    BY <1>0, <1>5 DEF PruneOne, FilesOK
  <2>3. CASE f # g
    BY <1>0, <2>1, <2>2, <2>3 DEF Durable
  <2>4. CASE f = g
    <3>1. TwoNewer(f.offset)
      BY <1>0, <2>1, <2>4, SurplusFacts
    <3>2. PICK a \in files : a.crc_ok /\ a.offset > f.offset
      BY <1>0, <3>1, NewerGood
    <3>3. f.offset \in Nat
      BY <1>0 DEF FilesOK, IsCheckpoint
    <3>4. a # f
      BY <3>2, <3>3
    <3> QED BY <2>1, <2>2, <2>4, <3>2, <3>4 DEF Durable
  <2> QED BY <2>3, <2>4
<1>6. \/ UNCHANGED <<files, synced>> \/ (UNCHANGED files /\ Sync) \/ PowerLoss \/ RenameTmp
      \/ PruneOne
  <2>1. CASE Loses
    BY <2>1, LosesFrame
  <2>2. CASE Stands
    BY <2>2 DEF Stands, OpenOwn, OpenForeign, Open, RenameManifest, SyncManifest, ForeignRuns,
                ForeignEnds, Sync
  <2>3. CASE Start
    BY <2>3, StartFacts
  <2>4. CASE Requests \/ Emits \/ BeginSuspend \/ BeginFinalFlush \/ FlushDone \/ UNCHANGED vars
    BY <2>4 DEF Requests, Emits, RequestStop, EmitResult, BeginSuspend, BeginFinalFlush,
                FlushDone, vars, disk
  <2>5. CASE PullBatch
    BY <2>5, PullFacts
  <2>6. CASE ApplyNext
    BY <2>6, ApplyFacts
  <2>7. CASE Writes
    BY <2>7 DEF Writes, WriteTmp, SyncDirectory, WriteDone, disk
  <2> QED BY <2>1, <2>2, <2>3, <2>4, <2>5, <2>6, <2>7, NextCases
<1> QED BY <1>1, <1>2, <1>3, <1>4, <1>5, <1>6

(***************************************************************************)
(* Progress is durable and never taken back: no step but the rotting of a  *)
(* file lowers the offset a restart is sure to find, and WriteCheckpoint   *)
(* returns only when its own checkpoint or a newer one is on disk          *)
(* (CheckpointWriter::WriteCheckpoint, CleanOldCheckpoints).               *)
(***************************************************************************)
THEOREM ProgressIsDurable ==
    ASSUME MaxCorruptions =< 1
    PROVE  Spec => ResumeAdvances
<1> DEFINE Grows == corruptions' = corruptions => ResumeOffset' >= ResumeOffset
           Kept == WriteDone => \E f \in Durable : f.offset >= writing.offset
<1>1. IInv /\ IInv' /\ OutInv /\ [Next]_vars => Grows
  <2> SUFFICES ASSUME IInv, IInv', OutInv, [Next]_vars, corruptions' = corruptions
               PROVE  ResumeOffset' >= ResumeOffset
    OBVIOUS
  <2>1. ~Rots
    <3> SUFFICES ASSUME NEW f \in files, Corrupt(f) PROVE FALSE
      BY DEF Rots
    <3>1. corruptions' = corruptions + 1 /\ corruptions \in Nat
      BY HeldRots, PipelineAssumption DEF OutInv, RotOK
    <3> QED BY <3>1
  <2>2. PICK D, r : D = Durable /\ r = ResumeOffset
    OBVIOUS
  <2>3. PICK E, q : E = Durable' /\ q = ResumeOffset'
    OBVIOUS
  <2>4. \A f \in D : f.offset \in Nat /\ f.offset =< NumRecords /\ (Loadable(f) <=> f.crc_ok)
    BY <2>2, HeldFacts DEF Durable, Held
  <2>5. \A f \in E : f.offset \in Nat /\ f.offset =< NumRecords /\ (Loadable(f) <=> f.crc_ok)
    <3>1. (IInv => \A f \in Held : /\ f.offset \in Nat /\ f.offset =< NumRecords
                                   /\ Loadable(f) <=> f.crc_ok)'
      BY HeldFacts, PTL
    <3> QED BY <2>3, <3>1 DEF Durable, Held
  <2>6. /\ r \in Nat /\ (r = 0 \/ \E f \in D : Loadable(f) /\ f.offset = r)
    BY <2>2, <2>4, ResumeFacts DEF ResumeOffset
  <2>7. q \in Nat /\ \A f \in E : Loadable(f) => f.offset =< q
    BY <2>3, <2>5, ResumeFacts DEF ResumeOffset
  <2>8. CASE r = 0
    BY <2>2, <2>3, <2>7, <2>8
  <2>9. CASE \E f \in D : Loadable(f) /\ f.offset = r
    <3>1. PICK f \in D : Loadable(f) /\ f.offset = r
      BY <2>9
    <3>2. f.crc_ok /\ f \in Durable
      BY <2>2, <2>4, <3>1
    <3>3. PICK g \in E : g.crc_ok /\ (g = f \/ g.offset > f.offset)
      BY <2>1, <2>3, <3>2, DurableStep
    <3>4. g.offset =< q /\ g.offset \in Nat /\ g.offset >= r
      BY <2>5, <2>6, <2>7, <3>1, <3>3
    <3> QED BY <2>2, <2>3, <2>6, <2>7, <3>4
  <2> QED BY <2>6, <2>8, <2>9
<1>2. IInv /\ [Next]_vars => Kept
  <2> SUFFICES ASSUME IInv, WriteDone PROVE \E f \in Durable : f.offset >= writing.offset
    OBVIOUS
  <2>1. writing.phase = "pruning"
    BY DEF WriteDone
  <2>2. writing.offset = applied /\ applied \in Nat
    <3>1. writing = [phase |-> writing.phase, offset |-> applied]
      BY WritesFrame DEF IInv, Writes
    <3>2. applied \in Nat
      BY SourceAssumption DEF IInv, RunOK
    <3> QED BY <3>1, <3>2
  <2>3. /\ files \subseteq synced.files
        /\ (\E f \in files : f.offset = applied) \/ TwoNewer(applied)
    BY <2>1 DEF IInv, FilesOK
  <2>4. PICK f \in files : f.offset = applied \/ f.offset > applied
    BY <2>3 DEF TwoNewer
  <2>5. f.offset \in Nat
    BY HeldFacts DEF Held
  <2> QED BY <2>2, <2>3, <2>4, <2>5 DEF Durable
<1>3. IInv /\ IInv' /\ OutInv /\ [Next]_vars =>
         [/\ corruptions' = corruptions => ResumeOffset' >= ResumeOffset
          /\ WriteDone => \E f \in Durable : f.offset >= writing.offset]_vars
  BY <1>1, <1>2
<1> QED BY <1>3, Invariance, OutputInvariance, PTL DEF Spec, ResumeAdvances
=============================================================================
