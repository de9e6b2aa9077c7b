SPECIFICATION Spec
CONSTANTS
  c1 = c1
  c2 = c2
  Kinds = {"peer"}
  Calls = {c1, c2}
  MaxRetries = 0
  MaxForeign = 0
  Initial = Initial
  Foreign = Foreign
  Unreadable = Unreadable
SYMMETRY CallSymmetry
INVARIANT PeerCoherent
CHECK_DEADLOCK FALSE
