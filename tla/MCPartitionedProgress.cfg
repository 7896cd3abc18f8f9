SPECIFICATION Spec
CONSTANTS
    k1 = k1
    k2 = k2
    Keys = {k1}
    Values = {1}
    EventTimes = {1}
    Watermarks = {}
    Size = 2
    Slide = 2
    AllowedLateness = 2
    MinTime <- MCMinTime
    MaxTime = 20
    MinSum = 0
    MaxSum = 9
    NumRecords = 3
    WatermarkInterval = 1
    CheckpointInterval = 1
    MaxDisorder = 0
    Partitions <- MCPartitions
    PartitionForKey <- MCOneKey
    CheckpointRetention = 1
    MaxFailures = 0
    MaxStops = 0
INVARIANTS ReportedNewest
CHECK_DEADLOCK FALSE
