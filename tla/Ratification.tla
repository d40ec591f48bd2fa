---------------------------- MODULE Ratification ----------------------------
(***************************************************************************)
(* The deliberation tools of the MCP server: propose_change,               *)
(* ratify_proposal and reject_proposal over the tables proposals,          *)
(* approved_decisions and events, and the seed, which compose runs each     *)
(* time the stack is brought up and which writes decisions of its own.      *)
(*                                                                         *)
(* A worker is whatever executes tool calls against the database: one       *)
(* process that runs them one after the other in the shipped deployment.    *)
(* Which workers serve is chosen in Init, so every behaviour of one worker  *)
(* (Serial) is a behaviour here.  Each handler is one transaction under     *)
(* READ COMMITTED: its reads are steps of their own, its writes take effect *)
(* when it commits.  A reply lost at the commit leaves what the commit      *)
(* leaves: nothing follows it.                                             *)
(***************************************************************************)
EXTENDS Integers, FiniteSets

(* Faulty variants: an operator named X_<Fault> is not part of the model.  *)
(* It is X with a plausible mistake, kept to show that a property notices. *)

CONSTANTS
    Workers,
    Proposals,    \* ids of rows of proposals
    Drafts,       \* arguments of propose_change
    Targets,      \* target_key
    DecisionKeys, \* decision_key of the proposed payload
    Seeded,       \* the decision keys of seed_v5
    Keys,         \* idempotency keys
    NoKey, NoDraft, NoDecision, NoProposal,
    MaxCalls,     \* bound: tool calls when one worker serves
    MaxShared,    \* bound: tool calls when several do
    MaxSeeds,     \* bound: runs of the seed
    MaxFaults     \* bound: failing statements and dying processes

ASSUME DeliberationOK ==
    /\ Workers # {}
    /\ Drafts \subseteq [kind : {"decision", "context_item"}, target : Targets,
                         decision : DecisionKeys, key : Keys \union {NoKey}]
    /\ Seeded \subseteq DecisionKeys
    /\ NoKey \notin Keys /\ NoDraft \notin Drafts
    /\ NoDecision \notin DecisionKeys /\ NoProposal \notin Proposals
    /\ {"none", "seed"} \intersect Proposals = {}
    /\ MaxCalls \in Nat /\ MaxShared \in Nat /\ MaxSeeds \in Nat /\ MaxFaults \in Nat

VARIABLES
    active,      \* the workers that serve
    proposals,   \* rows, with status "none" for an id not in use
    decisions,   \* approved_decisions: whose text a row has, and its proposal_id
    trail,       \* events of a proposal by type
    canonical,   \* the seeded context_scopes row has is_current
    at,          \* where the call of a worker is
    draft,       \* propose_change: its arguments
    about,       \* the proposal the handler read
    found,       \* its status when it was read
    sawRow,      \* ratify_proposal: existing_decision is not None
    calls, seeds, faults

rowVars  == <<proposals, decisions, trail, canonical>>
talkVars == <<draft, about, found, sawRow>>
deliberationVars == <<active, rowVars, at, talkVars, calls, seeds, faults>>

Statuses == {"proposed", "in_review", "ratified", "rejected", "superseded"}

Terminal == {"ratified", "rejected", "superseded"}

AllowedTransitions_Reopened(s) ==
    CASE s = "proposed"  -> {"in_review", "rejected", "superseded"}
      [] s = "in_review" -> Terminal
      [] s = "ratified"  -> {"rejected", "superseded"}
      [] OTHER           -> {}

(* ALLOWED_TRANSITIONS: where a proposal may go from s.                    *)
AllowedTransitions(s) ==
    CASE s = "proposed"  -> {"in_review", "rejected", "superseded"}
      [] s = "in_review" -> Terminal
      [] OTHER           -> {}

NoRow == [status |-> "none", draft |-> NoDraft, ratifiedBy |-> FALSE, decision |-> NoDecision]

Serial == \A v, w \in active : v = w

InitRows ==
    /\ active \in SUBSET Workers \ {{}}
    /\ proposals = [p \in Proposals |-> NoRow]
    /\ decisions = [k \in DecisionKeys |->
                      [text |-> IF k \in Seeded THEN "seed" ELSE "none", proposal |-> NoProposal]]
    /\ trail = [p \in Proposals |-> [raised |-> 0, ratified |-> 0, rejected |-> 0]]
    /\ canonical = TRUE
    /\ at = [w \in Workers |-> "idle"]
    /\ draft = [w \in Workers |-> NoDraft]
    /\ about = [w \in Workers |-> NoProposal]
    /\ found = [w \in Workers |-> "none"]
    /\ sawRow = [w \in Workers |-> FALSE]
    /\ calls = 0 /\ seeds = 0 /\ faults = 0

(* A call arrives at an idle worker; the scope is resolved and the token   *)
(* has the scope of the tool, or the handler returns without a trace.      *)
Arrives(w, stage) ==
    /\ w \in active /\ at[w] = "idle"
    /\ calls < (IF Serial THEN MaxCalls ELSE MaxShared)
    /\ calls' = calls + 1
    /\ at' = [at EXCEPT ![w] = stage]

Returns(w) == at' = [at EXCEPT ![w] = "idle"]

Note(p, type) == trail' = [trail EXCEPT ![p][type] = @ + 1]

(***************************************************************************)
(* propose_change, with dry_run false (a dry run reads and writes nothing). *)
(***************************************************************************)
ProposeChange(w, d) ==
    /\ Arrives(w, "find")
    /\ draft' = [draft EXCEPT ![w] = d]
    /\ UNCHANGED <<active, rowVars, about, found, sawRow, seeds, faults>>

KeyTaken(key) == \E p \in Proposals : proposals[p].status # "none" /\ proposals[p].draft.key = key

(* create_proposal looks for a row with the idempotency key.               *)
FindByKey(w) ==
    /\ at[w] = "find"
    /\ about' = [about EXCEPT ![w] =
                   IF draft[w].key # NoKey /\ KeyTaken(draft[w].key)
                   THEN CHOOSE p \in Proposals :
                          proposals[p].status # "none" /\ proposals[p].draft.key = draft[w].key
                   ELSE NoProposal]
    /\ at' = [at EXCEPT ![w] = "propose"]
    /\ UNCHANGED <<active, rowVars, draft, found, sawRow, calls, seeds, faults>>

(* A row found is returned as it is, with one more proposal.raised event.  *)
(* A new one is inserted, moved to in_review and committed with its event; *)
(* the unique index on the key decides between two inserts.                *)
CommitProposal(w) ==
    /\ at[w] = "propose"
    /\ \/ /\ about[w] \in Proposals
          /\ Note(about[w], "raised")
          /\ UNCHANGED proposals
       \/ /\ about[w] = NoProposal
          /\ draft[w].key # NoKey /\ KeyTaken(draft[w].key)
          /\ UNCHANGED <<proposals, trail>>
       \/ /\ about[w] = NoProposal
          /\ draft[w].key = NoKey \/ ~KeyTaken(draft[w].key)
          /\ \E p \in Proposals :
               /\ proposals[p].status = "none"
               /\ proposals' = [proposals EXCEPT ![p] =
                                  [NoRow EXCEPT !.status = "in_review", !.draft = draft[w]]]
               /\ Note(p, "raised")
    /\ Returns(w)
    /\ UNCHANGED <<active, decisions, canonical, talkVars, calls, seeds, faults>>

(***************************************************************************)
(* ratify_proposal and reject_proposal: get_proposal, then the transaction. *)
(***************************************************************************)
Review(w, p, stage) ==
    /\ proposals[p].status # "none"
    /\ Arrives(w, stage)
    /\ about' = [about EXCEPT ![w] = p]
    /\ found' = [found EXCEPT ![w] = proposals[p].status]
    /\ UNCHANGED <<active, rowVars, draft, sawRow, seeds, faults>>

RatifyProposal(w, p) == Review(w, p, "lookup")

RejectProposal(w, p) == Review(w, p, "reject")

Decides_Always(p) == TRUE

Decides(p) == proposals[p].draft.kind = "decision"

LookUpDecision(w) ==
    /\ at[w] = "lookup"
    /\ at' = [at EXCEPT ![w] = "ratify"]
    /\ sawRow' = [sawRow EXCEPT ![w] =
                    Decides(about[w]) /\ decisions[proposals[about[w]].draft.decision].text # "none"]
    /\ UNCHANGED <<active, rowVars, draft, about, found, calls, seeds, faults>>

(* The decision row was inserted by another transaction since it was looked *)
(* up: the unique index refuses a second one.                              *)
Clashes(w) ==
    /\ Decides(about[w]) /\ ~sawRow[w]
    /\ decisions[proposals[about[w]].draft.decision].text # "none"

InvalidateContextForScope_OnlyNew(w) ==
    canonical' = IF Decides(about[w]) /\ sawRow[w] THEN canonical ELSE FALSE

InvalidateContextForScope(w) == canonical' = FALSE

(* The decision is written first, then the transition is checked against   *)
(* the status that was read; what raises rolls the decision back.          *)
CommitRatification(w) ==
    /\ at[w] = "ratify"
    /\ LET p == about[w]
           k == proposals[p].draft.decision
       IN IF "ratified" \in AllowedTransitions(found[w]) /\ ~Clashes(w)
          THEN /\ decisions' = IF Decides(p)
                               THEN [decisions EXCEPT ![k] = [text |-> p, proposal |-> p]]
                               ELSE decisions
               /\ proposals' = [proposals EXCEPT ![p] =
                                  [@ EXCEPT !.status = "ratified", !.ratifiedBy = TRUE,
                                            !.decision = IF Decides(p) THEN k ELSE NoDecision]]
               /\ Note(p, "ratified")
               /\ InvalidateContextForScope(w)
          ELSE UNCHANGED rowVars
    /\ Returns(w)
    /\ UNCHANGED <<active, talkVars, calls, seeds, faults>>

CommitRejection(w) ==
    /\ at[w] = "reject"
    /\ LET p == about[w]
       IN IF "rejected" \in AllowedTransitions(found[w])
          THEN /\ proposals' = [proposals EXCEPT ![p].status = "rejected"]
               /\ Note(p, "rejected")
          ELSE UNCHANGED <<proposals, trail>>
    /\ Returns(w)
    /\ UNCHANGED <<active, decisions, canonical, talkVars, calls, seeds, faults>>

(* The seed rewrites the text of its decisions in place and leaves their   *)
(* proposal_id alone; it makes its scope current again.                    *)
RunSeed ==
    /\ seeds < MaxSeeds
    /\ seeds' = seeds + 1
    /\ decisions' = [k \in DecisionKeys |->
                       IF k \in Seeded THEN [decisions[k] EXCEPT !.text = "seed"] ELSE decisions[k]]
    /\ canonical' = TRUE
    /\ UNCHANGED <<active, proposals, trail, at, talkVars, calls, faults>>

FindRatifiedProposal_AnyStatus(target) ==
    \E p \in Proposals : /\ proposals[p].status # "none"
                         /\ proposals[p].draft.kind = "context_item"
                         /\ proposals[p].draft.target = target

(* find_ratified_proposal: the gate of the write tools.                    *)
FindRatifiedProposal(target) ==
    \E p \in Proposals : /\ proposals[p].status = "ratified"
                         /\ proposals[p].draft.kind = "context_item"
                         /\ proposals[p].draft.target = target

Deliberate ==
    \/ \E w \in Workers :
         \/ \E d \in Drafts : ProposeChange(w, d)
         \/ FindByKey(w) \/ CommitProposal(w)
         \/ \E p \in Proposals : RatifyProposal(w, p) \/ RejectProposal(w, p)
         \/ LookUpDecision(w) \/ CommitRatification(w) \/ CommitRejection(w)
    \/ RunSeed
=============================================================================
