\* One worker; two governed events after one ratification.
SPECIFICATION Spec
CONSTANTS
  a = a
  b = b
  k1 = k1
  k2 = k2
  Workers = {w1}
  Proposals = {p1}
  Drafts <- EventDrafts
  Targets <- MCTargets
  DecisionKeys = {"stack"}
  Seeded = {"stack"}
  Keys = {k1, k2}
  NoKey = NoKey
  NoDraft = NoDraft
  NoDecision = NoDecision
  NoProposal = NoProposal
  Items = {a, b}
  Categories = {"canon", "note"}
  Policy <- EventPolicy
  Requests <- EventRequests
  NoRequest = NoRequest
  MaxCalls = 4
  MaxShared = 3
  MaxSeeds = 0
  MaxFaults = 0
INVARIANTS
  RatificationIsConsumed
CHECK_DEADLOCK FALSE
