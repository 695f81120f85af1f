SPECIFICATION Spec
CONSTANTS
  Requests = {r1, r2, r3}
  Limit = 2
  Window = 2
  CountBound = 4
  Faults = 1
INVARIANTS
  NoEternalKey
