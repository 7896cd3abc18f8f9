SPECIFICATION Spec
CONSTANTS
    NumWorkers = 2
    QueueCapacity = 1
    NumBatches = 2
    Checkpointing = TRUE
INVARIANTS TypeOK NoTruncatedFlush ReturnsWhole NoLostWakeup
PROPERTIES Ends
CHECK_DEADLOCK FALSE
