SPECIFICATION FairSpec
CONSTANTS
    MaxRequests = 4
    MaxConcurrentRequests = 2
    ChannelSize = 1
    Unencodable = {2}
INVARIANTS
    Inv
    AnsweredExactlyOnce
    StartedInOrder
PROPERTIES
    EveryRequestAnswered
    CloseReturns
CHECK_DEADLOCK FALSE
