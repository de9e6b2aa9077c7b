SPECIFICATION UPFairSpec
CONSTANTS
  PipeBuf = 3
  MaxFile = 8
INVARIANTS NoTruncatedUpload ResultHonest
PROPERTY Settles
CHECK_DEADLOCK FALSE
