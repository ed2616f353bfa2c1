CONSTANTS
    MaxCalls = 5
    MaxConnects = 3
SPECIFICATION ClientFairSpec
INVARIANT KilledOnlyIfCarriedOn
PROPERTIES OwnAnswer CallReturns
CHECK_DEADLOCK FALSE
