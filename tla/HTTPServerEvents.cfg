SPECIFICATION EventsSpec
CONSTANTS
    MaxCalls = 2
    Id <- MCDistinct
    MessageBuffer = 1
    MaxStreams = 2
    MaxNotices = 2
    BadNotices = {2}
    Loads <- MCLoads
INVARIANTS
    EventsInv
PROPERTY
    EverybodyLeaves
CHECK_DEADLOCK FALSE
