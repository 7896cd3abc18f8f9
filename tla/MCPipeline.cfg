SPECIFICATION FairSpec
CONSTANTS
    Keys = {k1}
    Values = {1}
    EventTimes <- MCEventTimes
    Watermarks = {}
    Size = 2
    Slide = 2
    AllowedLateness = 2
    MinTime <- MCMinTime
    MaxTime = 20
    MinSum <- MCMinSum
    MaxSum = 9
    NumRecords = 4
    BatchSize = 3
    WatermarkInterval = 2
    CheckpointInterval = 2
    MaxDisorder = 0
    MaxFailures = 2
    MaxCorruptions = 1
    MaxStops = 1
    MaxForeignStarts = 1
INVARIANTS TypeOK RecoveryExact OutputBeforeState CompletesExact ReportedRestorable ManifestGuards
PROPERTIES ResumeAdvances Ends
CHECK_DEADLOCK FALSE
