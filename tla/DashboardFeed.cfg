SPECIFICATION FeedSpec
CONSTANTS
  Sockets = {s1, s2}
  Filters = {"all", "id"}
  IdFilters = {"id"}
  NoFilter = "all"
  MaxChanges = 2
  MaxMessages = 1
INVARIANTS
  RoundIsFresh
PROPERTIES
  EventuallyShown
  ShutdownClosesSockets
