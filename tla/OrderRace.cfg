\* A listener and two workers; the stream and queries may fail.
SPECIFICATION Spec
CONSTANTS
  Handlers = {h1}
  Workers = {w1, w2}
  OtherHoldings = TRUE
  Failures = {"missed", "error"}
SYMMETRY AlikeWorkers
INVARIANTS TypeOK OpenMeansFilled PlacedIsKnown
CHECK_DEADLOCK FALSE
