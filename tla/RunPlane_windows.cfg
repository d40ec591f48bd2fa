\* Two windows on one project, one of which may die, and a task of another project; the heartbeat is on time.
SPECIFICATION Spec
CONSTANTS
  r1 = r1  r2 = r2  r3 = r3
  w1 = w1  w2 = w2
  t1 = t1  t2 = t2
  p1 = p1  p2 = p2
  Runs = {r1, r2}
  Windows = {w1, w2}
  WindowOf <- TwoWindows
  Tasks = {t1, t2}
  Projects = {p1, p2}
  HomeOf <- OneHome
  Branches = {main}
  CodexOutcomes = {"failed"}
  TTL = 2
  MaxTime = 3
  MaxFaults = 0
  MaxCrashes = 1
  Timely = TRUE
  NoRun = NoRun
  NoTask = NoTask
  NoKey = NoKey
INVARIANTS
  ExclusiveWriter
  StartedRunSettles
PROPERTIES
  LeaseNotStolen
  ImplementsSource
SYMMETRY Mirrored
VIEW WindowsView
CHECK_DEADLOCK FALSE
