\* Expected to fail: of two runs that overlap one writes back an old link.
SPECIFICATION Spec
CONSTANTS
  o1 = o1
  o2 = o2
  c1 = c1
  c2 = c2
  u1 = u1
  Orders = {o1, o2}
  Managed = {o1}
  Contracts = {c1}
  Underlyings = {u1}
  Of <- MCOf
  Legs <- MCLegs
  Own = {}
  Stock = {}
  Runs = {w1, w2}
  Syncs = {}
  None = None
PROPERTY LinksStay
CHECK_DEADLOCK FALSE
