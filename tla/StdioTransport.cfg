SPECIFICATION FairProcessSpec
CONSTANTS
    Workloads <- MCWorkloads
    ChildWorkloads <- MCChildWorkloads
    MessageBuffer = 1
INVARIANTS
    Inv
    ProcessInv
PROPERTIES
    StreamsInOrder
    MessagesGetThrough
    CloseReturns
    ProcessEnds
CHECK_DEADLOCK FALSE
