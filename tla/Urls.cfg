SPECIFICATION FairSpec
CONSTANTS
  Items = {a}
  UrlConnections = 1
  UrlForce = FALSE
  Contents = {"nzb", "bad", "other", "archive"}
  MaxRetries = 1
  MaxEvents = 5
INVARIANTS UrlsConsistent UrlLoopAwake
PROPERTIES DeletedUrlLeaves
CHECK_DEADLOCK FALSE
