\* A Senex Trident: two put spreads, one call spread.
SPECIFICATION Spec
CONSTANTS
    Targets = {p1, p2, c1}
    PutTargets = {p1, p2}
    Orders = {o1}
    FirstDte = 1
    MaxRetries = 3
    MaxFaults = 0
    MaxSyncs = 0
    None = None
PROPERTIES ClosesOnlyWhatIsOpen
CHECK_DEADLOCK FALSE
