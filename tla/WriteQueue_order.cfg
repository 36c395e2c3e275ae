SPECIFICATION Spec
CONSTANTS
  Tickets = {"t1", "t2", "t3", "t4"}
  Readers = {"r1"}
  Keys = {"a", "up"}
  Files <- MCFiles
  Content = {"old", "new", "old+p"}
  None = None
  NoMatch = NoMatch
  Panics = Panics
  FileOf <- MCFileOf
  TmpOf <- MCTmpOf
  Req <- OrderReq
  ReadKey <- MCReadKey
  Merge <- MCMerge
  Workspaces <- Old
  Cap = 0
  LedgerMayFail = FALSE
  IoMayFail = FALSE
  MayShutdown = FALSE
INVARIANTS
  FifoPerPath
  ReadYourWrites
  JournalBeforeAnswer
PROPERTIES
  ImplementsPathStore
CHECK_DEADLOCK FALSE
