SPECIFICATION FairSpec
CONSTANTS
  MAXJOBS = 2
  Pids = {1, 2}
  Masks = {{"CHLD"}}
  Keys = {}
  Early = FALSE
  Hoisted = {FALSE}
PROPERTY FgReturns
CHECK_DEADLOCK FALSE
