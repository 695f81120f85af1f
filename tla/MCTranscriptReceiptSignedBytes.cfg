SPECIFICATION ReceiptSpec
CONSTANTS
  Verdicts = {yes, inconclusive}
  Inconclusive = inconclusive
  None = None
  Confidences <- MCConfidences
  Threshold = 1
  RoundLimits <- MCRoundLimits
  SigningKeys = {k1, k2}
  NotAKey = {unset}
  MaxDeploys = 2
INVARIANT
  HashIsOfTheSignedBytes
