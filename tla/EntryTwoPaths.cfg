\* A delivery of the fill event races one monitoring pass, nothing fails.
SPECIFICATION Spec
CONSTANTS
  Workers = {w1}
  Monitors = {m1}
  Fixers = {}
  NumTargets = 2
  Failures = {}
  NoMark = NoMark
INVARIANTS OneSetOfTargets
CHECK_DEADLOCK FALSE
