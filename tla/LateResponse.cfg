SPECIFICATION Spec
CONSTANTS
    MaxRequests = 1
    BufferSize = 1
    Senders = {}
    Peer <- MCResponses
    MaxIncoming = 1
INVARIANTS
    TimedOutChannelSkipped
    ChannelClosedOnce
CHECK_DEADLOCK FALSE
