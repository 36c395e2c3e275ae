SPECIFICATION Spec
CONSTANTS
  N = 1
  Batch <- OneBatch
  Deps <- NoDeps
  Claims <- OneClaims
  Workdir <- OneDir
  Repos = {0}
  Limits = {2}
  PollEvery = 2
  Askers = {}
  Flawed = {}
  Fragile = {}
  MayCancel = FALSE
  Nobody = Nobody
INVARIANTS
  CompletedIsDone
CHECK_DEADLOCK FALSE
