SPECIFICATION FairSpec
CONSTANTS
  MAXPID = 5
  LINES = 3
  mm <- SomeTables
  NULL = NULL
  MAXCALLS = 2
  HALF = 2
  MAX_LEN = 26
  Packets <- SomePackets
  Lengths = {8, 24, 26}
INVARIANTS BranchIsLineage AnswerIsRight
PROPERTY WriteReturns
CHECK_DEADLOCK FALSE
