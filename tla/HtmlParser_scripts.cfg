SPECIFICATION FairSpec
CONSTANTS
  Page <- MCPage
  Chunks <- MCChunks
  MaxOps = 3
  MaxTasks = 3
  Interval = 3
  Depth = 3
  Blanks = {FALSE, TRUE}
  Kills = TRUE
INVARIANTS
  NoReentry
  FinalTextSeen
  WriteOrder
  StreamOnce
  TerminateNoticed
PROPERTIES
  CloseHonoured
CHECK_DEADLOCK FALSE
