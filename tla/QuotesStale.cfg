\* A suggestion priced with a quote that aged since the wait: PricedIsFresh is violated.
SPECIFICATION FeedSpec
CONSTANTS
  Symbols = {o1, o2}
  Requests = {r1}
  FeedFailures = {}
  MaxSubscribed = 2
  MaxEvents = 2
  MaxConnections = 1
PROPERTIES PricedIsFresh
CHECK_DEADLOCK FALSE
