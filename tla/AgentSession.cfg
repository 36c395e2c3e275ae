SPECIFICATION FairSpec
CONSTANTS
  Runs = 2
  MaxSteps = 3
  MaxNudges = 1
  KeepHead = 2
  KeepTail = 6
  CompactOver = 4
  MayPause = TRUE
  MayDie = TRUE
INVARIANTS
  ResultsFollowCalls
  SnapshotTellsAll
  PausedIsResumable
  CancelStopsWork
PROPERTIES
  SessionEnds
CHECK_DEADLOCK FALSE
