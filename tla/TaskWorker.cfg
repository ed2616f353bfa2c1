SPECIFICATION FairSpec
CONSTANTS
    MaxJobs = 3
    MaxResets = 2
INVARIANTS
    WakeupPerTask
    InFlightHasEntry
    OwnResult
    StatusStaysUntilRead
    EventAfterStatus
    FailedNeverRuns
PROPERTY
    NoTaskStuckInProgress
