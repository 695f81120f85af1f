SPECIFICATION Spec
CONSTANTS
  Verdicts = {yes, inconclusive}
  Inconclusive = inconclusive
  None = None
  Confidences <- MCConfidences
  Threshold = 2
  MaxRoundsAsked <- MCMaxRoundsAsked
  PlatformCap = 2
  DbFaults = 2
INVARIANTS
  DoneRowComplete
  SidesArgueBlind
  FailsClosed
  ReplyIsTheFinalRow
PROPERTIES
  TerminalRowFrozen
  RunEnds
  RowIsPublicRecord
