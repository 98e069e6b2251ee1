SPECIFICATION FairSpec
CONSTANTS
  MAXJOBS = 2
  Pids = {1, 2}
  Masks = {{}, {"CHLD"}}
  Keys = {"TSTP"}
  Early = TRUE
  Hoisted = {FALSE}
PROPERTY WaitReturns
CHECK_DEADLOCK FALSE
