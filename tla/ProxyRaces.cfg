SPECIFICATION Spec
CONSTANTS
  N = 3
  Requests <- TwoPaths
  Replies <- OneReply
  Overlap = 2
  MAX_CACHE_SIZE = 3
  MAX_OBJECT_SIZE = 3
  NULL = NULL
INVARIANT PointersAreValid
CHECK_DEADLOCK FALSE
