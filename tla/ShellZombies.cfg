SPECIFICATION Spec
CONSTANTS
  MAXJOBS = 2
  Pids = {1, 2}
  Masks = {{"CHLD"}}
  Keys = {}
  Early = FALSE
  Hoisted = {FALSE}
INVARIANT ZombiesAreReaped
CHECK_DEADLOCK FALSE
