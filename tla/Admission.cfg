\* Two overlapping cycles of two accounts and a request; buying power for one of them.
CONSTANTS
  Cycles = {c1, c2}
  Requests = {r1}
  Suggestions = {s1, s2}
  Accounts = {a1, a2}
  Primary = a1
  Risk <- MCRisk
  Contracts <- MCContracts
  Capital = 10
  Tolerance <- MCTolerance
  Attempts = 2
  Overlap = TRUE
  DryRun = FALSE
SPECIFICATION Spec
INVARIANTS NeverOvercommitted StaleOrdersGone ApprovedIsInHand
SYMMETRY Symmetry
CHECK_DEADLOCK FALSE
