SPECIFICATION Spec
CONSTANTS
    k1 = k1
    k2 = k2
    Keys = {k1, k2}
    Values = {1}
    EventTimes = {1, 3}
    Watermarks = {}
    Size = 2
    Slide = 2
    AllowedLateness = 2
    MinTime <- MCMinTime
    MaxTime = 20
    MinSum = 0
    MaxSum = 9
    NumRecords = 3
    WatermarkInterval = 1
    CheckpointInterval = 2
    MaxDisorder = 0
    Partitions <- MCPartitions
    PartitionForKey <- MCOwnKey
    CheckpointRetention = 1
    MaxFailures = 1
    MaxStops = 1
INVARIANTS ShardsAgree CompleteRestorable CompletesExact
PROPERTIES ResumeAdvances
CHECK_DEADLOCK FALSE
