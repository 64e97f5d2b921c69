SPECIFICATION Spec
CONSTANTS
    Callers = {c1, c2}
    MaxTokens = 3
    MaxFlows = 2
INVARIANTS
    TokensInv
    OnTheWayIsFresh
PROPERTIES
    NoRefusalAfterRefresh
CHECK_DEADLOCK FALSE
