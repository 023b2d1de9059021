\* Two cycles of one account, one after the other.
CONSTANTS
  Cycles = {c1, c2}
  Requests = {}
  Suggestions = {s1, s2}
  Accounts = {a1}
  Primary = a1
  Risk <- MCRisk
  Contracts <- MCContracts
  Capital = 20
  Tolerance <- MCTolerance
  Attempts = 1
  Overlap = FALSE
  DryRun = FALSE
SPECIFICATION Spec
INVARIANTS OnePositionPerDay
CHECK_DEADLOCK FALSE
