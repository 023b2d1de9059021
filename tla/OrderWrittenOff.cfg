\* A listener and one worker, nothing fails.
SPECIFICATION Spec
CONSTANTS
  Handlers = {h1}
  Workers = {w1}
  OtherHoldings = TRUE
  Failures = {}
INVARIANTS FilledIsKept
CHECK_DEADLOCK FALSE
