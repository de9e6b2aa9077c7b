SPECIFICATION FairSpec
CONSTANTS
  Threads = {"a", "b"}
  MaxItems = 3
  MaxPages = 2
  MaxNexts = 5
INVARIANTS TypeOK IterationHonest
PROPERTY CallsEnd
CHECK_DEADLOCK FALSE
