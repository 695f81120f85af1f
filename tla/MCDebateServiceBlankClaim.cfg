SPECIFICATION Spec
CONSTANTS
  Verdicts = {yes, inconclusive}
  Inconclusive = inconclusive
  None = None
  Confidences <- MCConfidences
  Threshold = 2
  MaxRoundsAsked <- MCMaxRoundsAsked
  PlatformCap = 2
  DbFaults = 0
INVARIANTS
  RaisedRunIsFinal
