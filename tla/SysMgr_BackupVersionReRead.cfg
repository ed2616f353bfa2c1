CONSTANTS
    Client = {c1, c2}
    MaxImage = 2
    MaxReads = 2
SPECIFICATION FairSpec
PROPERTY BackupVersionReRead
CHECK_DEADLOCK FALSE
