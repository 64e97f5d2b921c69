SPECIFICATION TransportsSpec
CONSTANTS
    MaxRequests = 2
    BufferSize = 1
    Senders = {s1}
    Peer <- MCPeer
    MaxIncoming = 2
    MaxReconnects = 1
    UserKinds = {"notification"}
    MaxEvents = 1
    ClientCalls = 1
INVARIANTS
    OpenChannelHasCloser
    PanicNeedsTimeout
    AnswerIsFinal
    TransportsInv
PROPERTIES
    CloseReleasesWaiters
    EveryCallReturns
    GoroutinesExit
    TransportCloseReturns
CHECK_DEADLOCK FALSE
