\* A listener and one worker; the request, the stream and queries may fail.
SPECIFICATION FairSpec
CONSTANTS
  Handlers = {h1}
  Workers = {w1}
  OtherHoldings = TRUE
  Failures = {"refused", "lost", "unsaved", "dies", "missed", "error"}
INVARIANTS OpenMeansFilled PlacedIsKnown
PROPERTIES EntryResolved FillRecorded
CHECK_DEADLOCK FALSE
