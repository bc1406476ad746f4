SPECIFICATION FairSpec
CONSTANTS
  Receiver = {r1}
  NFiles = 3
  Chunks = 2
  Jobs = 2
  Targets <- AnyPaths
  MaxRuns = 2
  NoFile = NoFile
INVARIANTS ExportedIsWhole SuccessIsComplete NothingLeftBehind
PROPERTIES NeverReplaced DownloadEnds
CHECK_DEADLOCK FALSE
