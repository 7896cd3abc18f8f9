SPECIFICATION FairSpec
CONSTANTS
    Keys = {"k"}
    Values = {1, 2}
    EventTimes = {1}
    Watermarks = {2, 3}
    Size = 2
    Slide = 2
    AllowedLateness = 2
    MinTime <- MCMinTime
    MaxTime = 20
    MinSum = 0
    MaxSum = 9
    Aggregator = 2
    Inputs = {0, 1}
    Payloads <- MCPayloads
    Nodes = {0, 1, 2}
    Peers <- MCPeers
    Limit = 1
    MaxSent <- MCMaxSent
    MaxEpoch = 2
    MaxCrashes = 1
    MaxDamages = 1
INVARIANTS Conservation OperatorExact CompleteCutIsConsistent NeverPoisoned
PROPERTIES SnapshotCompletes
CHECK_DEADLOCK FALSE
