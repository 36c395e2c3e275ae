SPECIFICATION FairSpec
CONSTANTS
  Sessions = {"s1", "s2", "s3"}
  Slots = {"p", "q"}
  Chain <- MCChain
  Pinned <- JustS3
  Caps = {0, 1}
  Tries = 1
  Moves = 1
  Steps = 2
  None = None
INVARIANTS
  CapRespected
  CounterExact
  NoLostWakeup
PROPERTIES
  SessionsEnd
CHECK_DEADLOCK FALSE
