\* A process that may ignore SIGTERM and leave others holding its pipes.
SPECIFICATION FairSpec
CONSTANTS
  Heirs = TRUE
  Stubborn = TRUE
INVARIANTS
  SettledIsQuiet
  SettledMeansGone
  SignalsAreAsked
PROPERTIES
  ImplementsChild
  ExecutionReturns
CHECK_DEADLOCK FALSE
