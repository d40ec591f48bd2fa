\* Three jobs that overlap on one file of two texts; a statement fails or a window dies.
SPECIFICATION Spec
CONSTANTS
  Jobs = {j1, j2, j3}
  Paths = {f}
  Texts = {A, B}
  NoJobPath = NoJobPath
  MaxScoped = 1
  Serial = FALSE
  MaxEdits = 1
  MaxMisses = 0
  MaxFaults = 1
INVARIANTS
  CleanRunRepairsFiles
  CleanRunTearsNothing
SYMMETRY Symmetry
VIEW OverlapView
CHECK_DEADLOCK FALSE
