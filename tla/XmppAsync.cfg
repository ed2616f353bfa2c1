SPECIFICATION Spec
CONSTANTS
    User = {u1, u2}
    Port <- MCPort
    Message <- MCMessage
    MaxMsg = 2
    MaxTask = 2
    MaxReset = 1
INVARIANTS
    TypeOK
    NoMessageStuck
    ReplyToAsker
    OneFinalReply
    NoStaleEntry
PROPERTY FinalReplyComes
CHECK_DEADLOCK FALSE
