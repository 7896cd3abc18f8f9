SPECIFICATION FairSpec
CONSTANTS
    Nodes = {1, 2}
    Workload <- WorkloadValue
    QueueLimit = 5
    SendBudget = 4
    ReceiveBuffer = 2
    SocketCapacity = 2
    MaxDeaths = 1
INVARIANTS QueueExact NoSpuriousFailure
PROPERTIES ImplementsFifo AllEnd
CHECK_DEADLOCK FALSE
