\* Reconciliation runs with calls that fail, under fairness.
SPECIFICATION FairSpec
CONSTANTS
  o1 = o1
  o2 = o2
  c1 = c1
  c2 = c2
  u1 = u1
  Orders = {o1, o2}
  Managed = {o1}
  Contracts = {c1}
  Underlyings = {u1}
  Of <- MCOf
  Legs <- MCLegs
  Own = {"target"}
  Stock = {}
  Runs = {w1}
  Syncs = {}
  None = None
PROPERTIES OpeningsAreFound GoneIsClosed HeldIsShown
CHECK_DEADLOCK FALSE
