SPECIFICATION Spec
CONSTANTS
    User = {u1}
    Port <- MCPort
    Message <- MCMessage
    MaxMsg = 1
    MaxTask = 1
    MaxReset = 0
PROPERTY AfterResultReplyIsSent
CHECK_DEADLOCK FALSE
