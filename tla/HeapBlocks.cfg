SPECIFICATION Spec
CONSTANTS
  LIMIT = 20
  BASE = 1
  CHUNK = 4
  DCHUNK = 5
  MINPLACE = 4
  Requests = {5, 20, 40}
INVARIANTS TypeOK Tiling Coalesced Capacity
