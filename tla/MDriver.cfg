SPECIFICATION Spec
CONSTANTS
  MAX_HEAP = 272
  CHUNKSIZE = 32
  DCHUNKSIZE = 64
  MINSIZE = 32
  SEG_SIZE = 8
  Indices = {0, 1, 2}
  Sizes = {5, 24, 80}
  Junk = {16843009}
  NUM_OPS = 4
  NUM_TRACES = 1
  PASSES = 3
INVARIANTS DriverFindsNoFault LiveDataIntact FreeListsExact FitIsComplete UtilIsAFraction
PROPERTIES ReplayRepeats ImplementsHeapBlocks
CHECK_DEADLOCK FALSE
