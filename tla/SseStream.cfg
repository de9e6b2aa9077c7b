SPECIFICATION FairSpec
CONSTANTS
  MaxLine = 3
  MaxBody = 6
  MaxChunk = 4
INVARIANTS TypeOK Prompt NothingLost GuardJustified
PROPERTY Completes
CHECK_DEADLOCK FALSE
