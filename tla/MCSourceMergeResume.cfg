SPECIFICATION Spec
CONSTANTS
    NumChannels = 2
    IdleTimeout = 2
    Scripts <- MCScripts
    IdleSpans <- MCIdleSpans
    MaxSeeks = 0
    MaxQuiet = 2
INVARIANTS CurrentIsEmitted
CHECK_DEADLOCK FALSE
