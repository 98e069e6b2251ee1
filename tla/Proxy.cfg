SPECIFICATION FairSpec
CONSTANTS
  N = 4
  Requests <- SomeRequests
  Replies <- SomeReplies
  Overlap = 1
  MAX_CACHE_SIZE = 5
  MAX_OBJECT_SIZE = 3
  NULL = NULL
INVARIANTS VolumeIsExact KeysAreDistinct VictimIsLeastRecent RepliesAreRelayed
PROPERTY ConnectionsClose
CHECK_DEADLOCK FALSE
