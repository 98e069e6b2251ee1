SPECIFICATION Spec
CONSTANTS
  Parts = {1, 2, 3}
  Ptrs = {1, 2, 3}
  Sizes = {1, 3}
  MAXCALLS = 4
  MAXBELOW = 1
INVARIANTS FindIsComplete ReportIsExact BytesBalance LibcIsSafe
CHECK_DEADLOCK FALSE
