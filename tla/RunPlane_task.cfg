\* Two invocations of one task in one window; a statement fails, the lease expires.
SPECIFICATION FairSpec
CONSTANTS
  r1 = r1  r2 = r2  r3 = r3
  w1 = w1  w2 = w2
  t1 = t1  t2 = t2
  p1 = p1  p2 = p2
  Runs = {r1, r2}
  Windows = {w1}
  WindowOf <- OneWindow
  Tasks = {t1}
  Projects = {p1}
  HomeOf <- OneHome
  Branches = {main}
  CodexOutcomes = {"applied_changes"}
  TTL = 1
  MaxTime = 1
  MaxFaults = 1
  MaxCrashes = 0
  Timely = FALSE
  NoRun = NoRun
  NoTask = NoTask
  NoKey = NoKey
INVARIANTS
  OneRunPerTask
  OkIsReplayable
  ClosedWithEvidence
  ReplayIsHonest
PROPERTIES
  ImplementsLedger
  EveryRunReturns
CHECK_DEADLOCK FALSE
