\* One target, two days, three closing orders.
SPECIFICATION Spec
CONSTANTS
    Targets = {p1}
    PutTargets = {p1}
    Orders = {o1, o2, o3}
    FirstDte = 1
    MaxRetries = 2
    MaxFaults = 1
    MaxSyncs = 1
    None = None
INVARIANTS OneClosingOrder TargetsStayReplaced
PROPERTIES NotForgotten
CHECK_DEADLOCK FALSE
