\* All three detectors of the fill side by side, nothing fails.
SPECIFICATION FairSpec
CONSTANTS
  Workers = {w1}
  Monitors = {m1}
  Fixers = {f1}
  NumTargets = 2
  Failures = {}
  NoMark = NoMark
INVARIANTS TargetsAligned
PROPERTIES EntrySettles
CHECK_DEADLOCK FALSE
