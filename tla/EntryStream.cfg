\* Only the event stream: two deliveries of one fill, every failure.
SPECIFICATION Spec
CONSTANTS
  Workers = {w1, w2}
  Monitors = {}
  Fixers = {}
  NumTargets = 3
  Failures = {"crash", "reject", "raise", "leave", "slow"}
  NoMark = NoMark
SYMMETRY AlikeWorkers
INVARIANTS TypeOK OneCreator CreatedMeansComplete
PROPERTIES CreatedEndsPlacing
CHECK_DEADLOCK FALSE
