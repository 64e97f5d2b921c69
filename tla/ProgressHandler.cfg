SPECIFICATION ProgressFairSpec
CONSTANTS
    MaxRequests = 1
    BufferSize = 1
    MaxProgress = 2
    MaxIncoming = 1
INVARIANTS
    ProgressInv
PROPERTIES
    ProgressCallReturns
CHECK_DEADLOCK FALSE
