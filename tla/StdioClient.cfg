SPECIFICATION ClientSpec
CONSTANTS
    Workloads <- MCChatty
    ChildWorkloads <- MCNone
    MessageBuffer = 1
PROPERTY
    ResponsesGetThrough
CHECK_DEADLOCK FALSE
