SPECIFICATION FairMessagesSpec
CONSTANTS
    MaxConnections = 2
    MaxReconnects = 1
    MessageBuffer = 1
    Loads = {"connections", "sending", "receiving"}
INVARIANTS
    MessagesInv
PROPERTIES
    TrafficResumes
    EverythingEnds
CHECK_DEADLOCK FALSE
