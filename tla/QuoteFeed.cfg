\* Two requests for up to two of three legs; the limit, an hour, a time-out and
\* a lost connection.
SPECIFICATION FeedSpec
CONSTANTS
  Symbols = {o1, o2, o3}
  Requests = {r1, r2}
  FeedFailures = {"drop", "timeout", "hour"}
  MaxSubscribed = 2
  MaxEvents = 2
  MaxConnections = 1
SYMMETRY Alike
INVARIANTS FirstStreamFeeds WithinSubscriptionLimit
CHECK_DEADLOCK FALSE
