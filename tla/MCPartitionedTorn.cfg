SPECIFICATION Spec
CONSTANTS
    k1 = k1
    k2 = k2
    Keys = {k1}
    Values = {1}
    EventTimes <- MCEventTimes
    Watermarks = {}
    Size = 2
    Slide = 2
    AllowedLateness = 2
    MinTime <- MCMinTime
    MaxTime = 20
    MinSum = 0
    MaxSum = 9
    NumRecords = 4
    WatermarkInterval = 1
    CheckpointInterval = 4
    MaxDisorder = 0
    Partitions <- MCPartitions
    PartitionForKey <- MCOneKey
    CheckpointRetention = 0
    MaxFailures = 2
    MaxStops = 0
INVARIANTS CompletesExact
CHECK_DEADLOCK FALSE
