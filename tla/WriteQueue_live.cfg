SPECIFICATION FairSpec
CONSTANTS
  Tickets = {"t1", "t2"}
  Readers = {"r1"}
  Keys = {"a", "b"}
  Files <- MCFiles
  Content = {"old", "new", "old+p"}
  None = None
  NoMatch = NoMatch
  Panics = Panics
  FileOf <- MCFileOf
  TmpOf <- MCTmpOf
  Req <- LiveReq
  ReadKey <- MCReadKey
  Merge <- MCMerge
  Workspaces <- Some
  Cap = 1
  LedgerMayFail = TRUE
  IoMayFail = TRUE
  MayShutdown = TRUE
INVARIANTS
  JournalTruthful
PROPERTIES
  EveryTicketAnswered
  EveryReadAnswered
CHECK_DEADLOCK FALSE
