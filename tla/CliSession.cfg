SPECIFICATION FairSpec
CONSTANTS
  Files = {"a", "target/s"}
  Skipped = {"target/s"}
  None = None
  Content <- MCContent
  Lossy <- MCLossy
  Starts <- Workspaces
  Edits = 2
  Outsiders = 1
  MayPause = TRUE
INVARIANTS
  AgentsWorkArrives
  
PROPERTIES
  CancelEnds
CHECK_DEADLOCK FALSE
