SPECIFICATION Spec
CONSTANTS
    MaxRequests = 2
    BufferSize = 1
    Senders = {}
    Peer <- MCResponses
    MaxIncoming = 2
INVARIANTS
    TypeOK
    OpenChannelHasCloser
    PanicNeedsTimeout
    AnswerIsFinal
    FailedCallIsForgotten
PROPERTIES
    CloseReleasesWaiters
CHECK_DEADLOCK FALSE
