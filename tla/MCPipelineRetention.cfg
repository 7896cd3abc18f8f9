SPECIFICATION Spec
CONSTANTS
    Keys = {k1}
    Values = {1}
    EventTimes = {1}
    Watermarks = {}
    Size = 2
    Slide = 2
    AllowedLateness = 2
    MinTime <- MCMinTime
    MaxTime = 20
    MinSum <- MCMinSum
    MaxSum = 9
    NumRecords = 3
    BatchSize = 3
    WatermarkInterval = 1
    CheckpointInterval = 1
    MaxDisorder = 0
    MaxFailures = 1
    MaxCorruptions = 2
    MaxStops = 0
    MaxForeignStarts = 0
INVARIANTS ReportedRestorable
CHECK_DEADLOCK FALSE
