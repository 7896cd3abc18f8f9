--------------------------- MODULE CheckpointStore ---------------------------
(***************************************************************************)
(* Checkpoint files (checkpoint/writer.cpp, checkpoint/reader.cpp).  The   *)
(* content of a file is what its sections hold: the offset and watermark   *)
(* of the header, one entry per live pane, the fired and the refired       *)
(* windows.  A directory is a set of files, one per offset, since the      *)
(* offset is the file's name; a file whose bytes no longer match their CRC *)
(* is one with crc_ok FALSE.                                               *)
(***************************************************************************)
EXTENDS KeyedWindowState

\* The payload CheckpointWriter::WriteCheckpoint builds from an instance.
Capture(st, wm, offset) ==
    [offset |-> offset, watermark |-> wm,
     panes |-> {[slot |-> s, pane |-> st.panes[s]] : s \in LiveSlots(st)},
     fired |-> st.fired, refired |-> st.refired]

\* RestorePane for every entry, RestoreFiredWindows, RestoreRefiredWindows,
\* on a fresh KeyedWindowState.
RestoreState(data) ==
    [panes |-> [s \in Slots |-> IF \E e \in data.panes : e.slot = s
                                THEN (CHOOSE e \in data.panes : e.slot = s).pane
                                ELSE NoPane],
     fired |-> data.fired, refired |-> data.refired]

File(data) == [offset |-> data.offset, crc_ok |-> TRUE, data |-> data]

\* TryLoad accepts the file.
Loadable(f) == f.crc_ok /\ f.data.refired \subseteq f.data.fired

\* The rename that publishes a file: it replaces one of the same name.
Publish(files, data) == {f \in files : f.offset # data.offset} \cup {File(data)}

\* ValidOffsets, LoadOffset: the offset found inside a file is its name's.
ValidOffsets(files) == {f.offset : f \in {g \in files : Loadable(g)}}

\* LoadLatest: the newest file that loads, as a set of at most one.
LoadLatest(files) ==
    {f \in files : Loadable(f) /\ \A g \in files : Loadable(g) => g.offset <= f.offset}

\* CleanOldCheckpoints: every file with two newer names, readable or not, goes.
\* Mutant: the sort is ascending, so the two oldest names are kept.
SurplusNewest(files) ==
    {f \in files : Cardinality({g \in files : g.offset < f.offset}) >= 2}

Surplus(files) == {f \in files : Cardinality({g \in files : g.offset > f.offset}) >= 2}

\* HighestCompleteCheckpoint over one directory per partition: the highest
\* offset that loads in every one, as a set of at most one.
CommonOffsets(dirs) ==
    {o \in UNION {ValidOffsets(dirs[p]) : p \in DOMAIN dirs} :
        \A p \in DOMAIN dirs : o \in ValidOffsets(dirs[p])}
HighestComplete(dirs) ==
    {o \in CommonOffsets(dirs) : \A c \in CommonOffsets(dirs) : c <= o}
=============================================================================
