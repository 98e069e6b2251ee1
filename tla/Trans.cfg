SPECIFICATION Spec
CONSTANTS
  Options <- SomeOptions
  Addrs = {0, 4, 5, 8, 12, 2}
  MAXOPS = 6
  Fresh <- StaleLines
  Jobs <- SomeJobs
  NULL = NULL
INVARIANTS LinesAreAccountedFor TransposesAreRight SubmissionEarnsFullScore
PROPERTY ImplementsLru
CHECK_DEADLOCK FALSE
