SPECIFICATION Spec
CONSTANTS
  Walks = {"stream"}
  Listings = {"session"}
  PageSize = 2
  MaxPageSize = 2
  MaxPages = 2
  MaxItems = 3
  MaxRemoved = 1
  Levelled = {1, 3}
  Scoped = {1, 3}
INVARIANT MessagesFiltered
CHECK_DEADLOCK FALSE
