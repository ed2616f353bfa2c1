CONSTANT MaxUpdates = 2
SPECIFICATION CardSpec
INVARIANT NextTimeUpdatedSystemWillBoot
CHECK_DEADLOCK FALSE
