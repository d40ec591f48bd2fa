\* Two jobs, one after the other; the workspace changes, a file cannot be read.
SPECIFICATION Spec
CONSTANTS
  Jobs = {j1, j2}
  Paths = {f, g}
  Texts = {A, B}
  NoJobPath = NoJobPath
  MaxScoped = 1
  Serial = TRUE
  MaxEdits = 3
  MaxMisses = 1
  MaxFaults = 0
INVARIANTS
  CleanRunIsExact
  PostRunKeepsIndex
  AcceptedRunIsIndexed
SYMMETRY Symmetry
VIEW SerialView
CHECK_DEADLOCK FALSE
