CONSTANTS
    MaxPlugs = 2
    MaxIp = 2
    MaxCalls = 1
    MaxBacklog = 1
    DISP_SCAN_DURATION = 2
SPECIFICATION DispFairSpec
INVARIANT DanglingOnlyIf
PROPERTIES AddressShown ShutdownEnds
CHECK_DEADLOCK FALSE
