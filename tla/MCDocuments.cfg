SPECIFICATION Spec
CONSTANT MaxRuns = 2
CHECK_DEADLOCK FALSE
INVARIANTS AwaitedMeansReceived NoFalseAlarm NoNeighborRefused NamedIsHeld OnlyNamedStay NoTempFileLeft
PROPERTIES Converges
