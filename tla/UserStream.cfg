\* Two visits, an automated start and a removal; connections fail and drop.
SPECIFICATION Spec
CONSTANTS
  Viewers = {v1, v2}
  Starters = {a1}
  Removers = {r1}
  Cleanups = {k1}
  Failures = {"session", "connect", "drop", "timeout"}
  MaxManagers = 2
  MaxStreams = 2
SYMMETRY Alike
INVARIANTS ConnectingIsOwned
PROPERTIES CleanupSparesViewers
CHECK_DEADLOCK FALSE
