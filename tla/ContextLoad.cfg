\* Two loads, a reset and a write over a backend that is seeded and ratified.
SPECIFICATION Spec
CONSTANTS
  None = None
  CanonicalKey = CanonicalKey
  ErpKey = ErpKey
  Loads = {l1, l2}
  Resets = {r1}
  Writes = {w1}
  Outages = {"transport_error"}
  Published <- MCPublished
  Modes <- MCModes
  AuthConfigs <- MCAuthConfigs
  Locals <- MCLocals
  MaxEvents = 4
INVARIANTS
  FocusAgrees
  HandoffIsHonest
  SessionSurvives
PROPERTIES
  LoadsFinish
CHECK_DEADLOCK FALSE
