SPECIFICATION Spec
CONSTANTS
  o = o
  a = a
  l = l
  c = c
  NULL = NULL
  Providers <- ProviderSet
  Api <- ApiOf
  Kind <- KindOf
  Rates <- RatesOf
  Cli = c
  Replies <- RepliesOf
  KeepHead = 2
  KeepTail = 2
  MaxSteps = 3
  MaxNudges = 1
  MaxMigrations = 1
  Windows = 2
  MaxSends = 2
  Crowds <- CrowdSet
  MaxTasks = 2
  MaxProbes = 1
  MaxTexts = 1
  MaxCalls = 4
INVARIANTS
  WireTellsHistory
  BillsEachTokenOnce
  RowsAddUp
  ChargedToWhoServed
  TurnsAlternate
PROPERTIES
  RepliesArrive
CHECK_DEADLOCK FALSE
