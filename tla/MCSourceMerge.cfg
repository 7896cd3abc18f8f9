SPECIFICATION Spec
CONSTANTS
    NumChannels = 3
    IdleTimeout = 2
    Scripts <- MCScripts
    IdleSpans <- MCIdleSpans
    MaxSeeks = 1
    MaxQuiet = 2
INVARIANTS EndsWhole
PROPERTIES AlignedCut NoSpuriousLateness SeekExact Drains
CHECK_DEADLOCK FALSE
