CONSTANT MaxUpdates = 3
SPECIFICATION CardSpec
INVARIANTS Failsafe RunningIntact OkMeansUpdated ErrorKeepsBootFiles
CHECK_DEADLOCK FALSE
