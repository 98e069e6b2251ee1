SPECIFICATION FairSpec
CONSTANTS
  Fds <- TwoFds
  Bytes <- AllBytes
  NEWLINE = 10
  CR = 13
  COLON = 58
  RIO_BUFSIZE = 3
  MAXEINTR = 1
  NULL = NULL
  Cases <- SomeCases
  REQUEST <- TheRequest
  DEFAULTS <- TheDefaults
  JUNK = 99
  MAXLINE = 5
  REQUEST_SIZE = 13
  MAX_OBJECT_SIZE = 7
INVARIANTS StreamIsIntact ShortCountMeansEnd RelayIsExact HeadersReachServer CacheIsExact DescriptorsBalance
PROPERTY RelayEnds
CHECK_DEADLOCK FALSE
