SPECIFICATION OAuthFairSpec
CONSTANTS
    MaxCalls = 1
    MaxNotifications = 2
    MaxEvents = 2
    BufferSize = 1
    Slots = 1
    MaxReconnects = 1
    MaxTokens = 3
    MaxFlows = 1
INVARIANTS
    Inv
    TokensInv
PROPERTIES
    NotificationsPosted
    ShutdownCompletes
CHECK_DEADLOCK FALSE
