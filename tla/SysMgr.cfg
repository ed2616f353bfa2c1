CONSTANTS
    Client = {c1, c2}
    MaxImage = 2
    MaxReads = 2
SPECIFICATION FairSpec
INVARIANTS UpdateInstalls NoOlderImage CachedIsOnDisk
CHECK_DEADLOCK FALSE
