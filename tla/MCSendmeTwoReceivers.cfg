SPECIFICATION Spec
CONSTANTS
  Receiver = {r1, r2}
  NFiles = 1
  Chunks = 2
  Jobs = 1
  Targets <- AnyPaths
  MaxRuns = 1
  NoFile = NoFile
INVARIANT SuccessIsComplete
CHECK_DEADLOCK FALSE
