SPECIFICATION Spec
CONSTANTS
  MAXJOBS = 2
  Pids = {1, 2}
  Masks = {{"CHLD"}}
  Keys = {"INT", "TSTP", "QUIT"}
  Early = TRUE
  Hoisted = {FALSE}
INVARIANTS TypeOK ForegroundIsWaitedFor SignalsSpareBackground JobsAreLive
CHECK_DEADLOCK FALSE
