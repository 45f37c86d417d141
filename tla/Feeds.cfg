SPECIFICATION FairSpec
CONSTANTS
  Feeds = {f1, f2}
  Items = {a, b}
  FeedItems <- MCFeedItems
  Backlog = {f2}
  UrlConnections = 2
  UrlForce = FALSE
  MaxEvents = 2
  f1 = f1
  f2 = f2
  a = a
  b = b
INVARIANTS ItemsAccounted FetchedOnce
PROPERTIES ForcedFetchServed
CHECK_DEADLOCK FALSE
