\* Two workers, or one; retries, a cut call, proposals, a run of the seed.
SPECIFICATION Spec
CONSTANTS
  a = a
  b = b
  k1 = k1
  k2 = k2
  Workers = {w1, w2}
  Proposals = {p1, p2}
  Drafts <- CanonDrafts
  Targets <- MCTargets
  DecisionKeys = {"stack"}
  Seeded = {"stack"}
  Keys = {k1}
  NoKey = NoKey
  NoDraft = NoDraft
  NoDecision = NoDecision
  NoProposal = NoProposal
  Items = {a, b}
  Categories = {"canon", "note"}
  Policy <- CanonPolicy
  Requests <- CanonRequests
  NoRequest = NoRequest
  MaxCalls = 4
  MaxShared = 3
  MaxSeeds = 1
  MaxFaults = 1
INVARIANTS
  AnswersAreTrue
  WrittenOnceUnlessCut
  BatchRecordedOnce
  DecisionWasRatified
  TrailTellsTheVerdict
PROPERTIES
  GovernedWritesAreRatified
  ArchiveIsKept
  CanonChangeMakesStale
  ImplementsLedger
SYMMETRY Symmetry
VIEW View
CHECK_DEADLOCK FALSE
