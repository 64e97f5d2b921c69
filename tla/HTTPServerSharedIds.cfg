SPECIFICATION Spec
CONSTANTS
    MaxCalls = 2
    Id <- MCShared
    MessageBuffer = 1
INVARIANT
    OwnAnswer
CHECK_DEADLOCK FALSE
