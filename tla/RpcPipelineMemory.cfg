CONSTANTS
    MaxConn = 2
    MaxFd = 2
    MaxReq = 2
    Unknown = {}
    OutOfMemory = TRUE
SPECIFICATION Spec
PROPERTY ImplementsService
CHECK_DEADLOCK FALSE
