\* Expected to fail: a call is cut after its domain commit, and sent again with its key.
SPECIFICATION Spec
CONSTANTS
  a = a
  b = b
  k1 = k1
  k2 = k2
  Workers = {w1}
  Proposals = {p1}
  Drafts <- EventDrafts
  Targets <- MCTargets
  DecisionKeys = {"stack"}
  Seeded = {"stack"}
  Keys = {k1, k2}
  NoKey = NoKey
  NoDraft = NoDraft
  NoDecision = NoDecision
  NoProposal = NoProposal
  Items = {a, b}
  Categories = {"canon", "note"}
  Policy <- CanonPolicy
  Requests <- EventRequests
  NoRequest = NoRequest
  MaxCalls = 2
  MaxShared = 2
  MaxSeeds = 0
  MaxFaults = 1
INVARIANTS
  WrittenOnce
CHECK_DEADLOCK FALSE
