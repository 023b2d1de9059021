\* Two reconciliation runs, again and again; nothing is cancelled.
SPECIFICATION FairSpec
CONSTANTS
  Syncs = {s1}
  Fixers = {f1, f2}
  Alone = {s1}
  Failures = {"partial"}
  OtherHoldings = TRUE
  Credits <- WithCredit
  MaxOrders = 3
PROPERTIES BooksLedger EventuallyClosed
CHECK_DEADLOCK FALSE
