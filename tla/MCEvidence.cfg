SPECIFICATION PlanSpec
CONSTANTS
  c1 = c1
  c2 = c2
  junk = junk
  short = short
  long = long
  other = other
  blank = blank
  t1 = t1
  t2 = t2
  Uuids <- MCUuids
  Junk = junk
  Urls <- MCUrls
  Blank = blank
  PartOf <- MCPartOf
  Titles <- MCTitles
  Hits <- MCHits
  MaxQueries = 2
  MaxHits = 2
  TopN = 2
  Pools <- MCPools
  Arguments <- MCArguments
  None = None
INVARIANTS
  OrderDoesNotShow
  TextOfItsOwnUrl
  EveryFailureIsReported
  CitationsAreTheSources
CHECK_DEADLOCK FALSE
