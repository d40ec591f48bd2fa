\* Two invocations in two windows over an index that is rewritten meanwhile.
SPECIFICATION Spec
CONSTANTS
  Paths <- MCPaths
  Fragments <- MCFragments
  Versions <- MCVersions
  PathWeight <- MCPathWeight
  ActiveFile = None
  None = None
  MaxFiles = 2
  MaxChunks = 3
  MaxPerFile = 2
  MaxChars = 5
  Preps = {p1, p2}
  Windows = {w1, w2}
  Keys = {A, B}
  Vague = {B}
  MaxReindex = 1
  MaxFaults = 1
INVARIANTS
  NamedTasksAreComplete
  OkIsNotRepeated
  StoreTellsTheAnswer
  ContextIsFromTheIndex
  BudgetIsKept
  NoFileStarves
PROPERTIES
  ImplementsSource
SYMMETRY Symmetry
VIEW View
CHECK_DEADLOCK FALSE
