SPECIFICATION FairSpec
CONSTANTS
  Walks = {"stream", "collect", "peers"}
  Listings = {"workspace", "peer", "session", "scope"}
  PageSize = 2
  MaxPageSize = 2
  MaxPages = 2
  MaxItems = 5
  MaxRemoved = 2
  Levelled = {1, 2, 4, 5}
  Scoped = {1, 3, 4, 5}
INVARIANTS TypeOK InOrder ListedOnlyWhatWasAsked MissedBounded CapRespected
PROPERTY Terminates
CHECK_DEADLOCK FALSE
