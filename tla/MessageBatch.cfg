SPECIFICATION FairSpec
CONSTANTS
  Batch = 3
  Sizes = {0, 1, 2, 3, 4, 6, 7, 8, 9, 10}
INVARIANT ReportAccurate
PROPERTIES ImplementsContract Ends
CHECK_DEADLOCK FALSE
