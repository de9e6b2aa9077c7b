SPECIFICATION FairSpec
CONSTANTS
  c1 = c1
  c2 = c2
  c3 = c3
  Calls = {c1, c2}
  May <- MCMay
  MaxRetries = 1
  NoCall = NoCall
  OtherCall = OtherCall
INVARIANTS TypeOK SingleFlight StaleOnlyByLateFill MissingExplained ForceEnsureFresh
PROPERTY CallsComplete
CHECK_DEADLOCK FALSE
