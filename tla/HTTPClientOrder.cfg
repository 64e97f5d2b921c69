SPECIFICATION Spec
CONSTANTS
    MaxCalls = 1
    MaxNotifications = 2
    MaxEvents = 2
    BufferSize = 1
    Slots = 2
    MaxReconnects = 1
INVARIANTS
    NotificationsInOrder
    LimitIsInARow
CHECK_DEADLOCK FALSE
