SPECIFICATION FairPoolSpec
CONSTANTS
  Runs = {r1, r2}
  Viewers = {v1}
  Probes = {p1}
  PoolSize = 1
  MaxOverflow = 1
  Nobody = Nobody
INVARIANTS
  NothingLeaks
PROPERTIES
  ExhaustionPasses
  EveryoneIsServed
