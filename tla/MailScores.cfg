\* Three symbols share one selector, two of them at a time.
SPECIFICATION Spec
CONSTANTS
    None = None
    Watchlist = {"s1", "s2", "s3"}
    Slots = 2
INVARIANT ScoresAreOwn
CHECK_DEADLOCK FALSE
