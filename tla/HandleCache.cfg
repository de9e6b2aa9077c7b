SPECIFICATION Spec
CONSTANTS
  c1 = c1
  c2 = c2
  Kinds = {"session", "peer"}
  Calls = {c1, c2}
  MaxRetries = 1
  MaxForeign = 1
  Initial = Initial
  Foreign = Foreign
  Unreadable = Unreadable
SYMMETRY CallSymmetry
INVARIANTS CacheCoherent QuietNoRegress ReadsFresh
CHECK_DEADLOCK FALSE
