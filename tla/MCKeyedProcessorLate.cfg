SPECIFICATION Spec
CONSTANTS
    Keys = {k1, k2}
    Values <- MCValues
    EventTimes <- MCEventTimes
    Watermarks <- MCWatermarks
    Size = 2
    Slide = 1
    AllowedLateness = 1
    MinTime <- MCMinTime
    MaxTime = 100
    MinSum <- MCMinSum
    MaxSum = 5
    MaxRecords = 4
INVARIANTS TypeOK PaneLifetime NoSuppressedUpdate NoResurrection
PROPERTIES ResultsGrow ImplementsOracle
CHECK_DEADLOCK FALSE
