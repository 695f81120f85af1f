SPECIFICATION Spec
CONSTANTS
  Configurations <- MCConfigurations
  NodeDeadline = 15
  Attempts = 3
  Base = 1
  Jitter = 1
  Lag = 1
INVARIANTS
  WithinDeadline
  GivenUpModelNotAsked
  ExhaustedAfterEveryTier
PROPERTIES
  CallEnds
