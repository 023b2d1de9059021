\* A sync and a reconciliation run, one after the other, targets may be cancelled, go unanswered or be refused.
SPECIFICATION Spec
CONSTANTS
  Syncs = {s1}
  Fixers = {f1}
  Alone = {s1, f1}
  Failures = {"cancel", "error", "refuse"}
  OtherHoldings = TRUE
  Credits <- WithCredit
  MaxOrders = 4
INVARIANTS TypeOK BookedIsFilled ClosedIffEmpty ClosedMeansFlat CountedOnce
CHECK_DEADLOCK FALSE
