SPECIFICATION FairSpec
CONSTANTS
  N = 2
  Batch <- TwoBatches
  Deps <- TwoDeps
  Claims <- TwoClaims
  Workdir <- OneDir
  Repos = {0}
  Limits = {1, 2}
  PollEvery = 2
  Askers <- JustA
  Flawed <- BothAs
  Fragile <- JustOtherA
  MayCancel = TRUE
  Nobody = Nobody
INVARIANTS
  WritersApart
  SlotsRespected
  StartsOnFinishedWork
  NoProjectPassedOver
PROPERTIES
  BatchEnds
CHECK_DEADLOCK FALSE
