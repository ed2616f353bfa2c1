CONSTANTS
    MaxConn = 2
    MaxFd = 2
    MaxReq = 3
    Unknown = {2}
    OutOfMemory = FALSE
SPECIFICATION Spec
INVARIANTS TypeOK ResultsInOrder AnswerToSender ClientInfoOfSender EachInOnePlace ErrorOnlyIfCut
PROPERTY ServesInOrder
CHECK_DEADLOCK FALSE
