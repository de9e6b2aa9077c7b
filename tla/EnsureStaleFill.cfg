SPECIFICATION Spec
CONSTANTS
  c1 = c1
  c2 = c2
  c3 = c3
  Calls = {c1, c2, c3}
  May <- MCMayFill
  MaxRetries = 0
  NoCall = NoCall
  OtherCall = OtherCall
INVARIANT NoStaleEnsure
CHECK_DEADLOCK FALSE
