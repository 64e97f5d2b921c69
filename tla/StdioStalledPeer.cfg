SPECIFICATION StalledChildSpec
CONSTANTS
    Workloads <- MCChildWorkloads
    ChildWorkloads <- MCChildWorkloads
    MessageBuffer = 1
PROPERTY
    CloseReturns
CHECK_DEADLOCK FALSE
