SPECIFICATION FairSpec
CONSTANTS
  Files = {"a", "target/s"}
  Skipped = {"target/s"}
  None = None
  Content <- MCContent
  Lossy <- MCLossy
  Starts <- Workspaces
  Edits = 1
  Outsiders = 1
  MayPause = FALSE
PROPERTIES
  StaleIsRejected
CHECK_DEADLOCK FALSE
