SPECIFICATION StreamSpec
CONSTANTS
  Verdicts = {yes, inconclusive}
  Inconclusive = inconclusive
  None = None
  Confidences <- MCConfidences
  Threshold = 1
  RoundLimits <- MCRoundLimits
  Viewers = {v1}
INVARIANTS
  NothingHeldBack
  DoneIsTheFinalRow
PROPERTIES
  NeverBackwards
  StreamEnds
  EndReported
