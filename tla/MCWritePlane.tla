---------------------------- MODULE MCWritePlane ----------------------------
(* An instance of WritePlane for TLC: two workers, two items, one           *)
(* or two idempotency keys, proposals for a decision of the seed and for   *)
(* the gate.                                                               *)
EXTENDS WritePlaneInv, TLC

CONSTANTS a, b, k1, k2

Mode(tools, categories) ==
    [by_tool |-> [t \in tools |-> "ratify"], by_category |-> [c \in categories |-> "ratify"],
     default |-> "auto"]

CanonPolicy == Mode({}, {"canon"})

EventPolicy == Mode({"append_context_event"}, {})

MCTargets == {<<"item", a>>, <<"event", "event">>}

ProposalFor(kind, target, key) ==
    [kind |-> kind, target |-> target, decision |-> "stack", key |-> key]

CanonDrafts ==
    {ProposalFor("decision", <<"item", a>>, NoKey), ProposalFor("context_item", <<"item", a>>, k1)}

EventDrafts == {ProposalFor("context_item", <<"event", "event">>, NoKey)}

Call(tool, category, expected, dry, key) ==
    [tool |-> tool, item |-> a, other |-> b, category |-> category,
     expected |-> expected, dry |-> dry, key |-> key]

CanonRequests ==
    {Call("upsert_context_item", "canon", 0, FALSE, k1),
     Call("upsert_context_item", "note", 1, FALSE, k1),
     Call("upsert_context_item", "note", 0, TRUE, k1)}
    \union {Call(t, "note", 0, FALSE, k1) : t \in WriteTools \ {"upsert_context_item"}}

EventRequests == {Call("append_context_event", "note", 0, FALSE, k) : k \in {k1, k2}}

(* The locals of a worker without a call are dead.                         *)
Live(w, x) == IF at[w] = "idle" THEN "over" ELSE x[w]

View ==
    <<active, rowVars, at, calls, seeds, faults, writeRows, auxVars,
      [w \in Workers |-> <<Live(w, draft), Live(w, about), Live(w, found), Live(w, sawRow),
                           Live(w, request), Live(w, seen), Live(w, other), Live(w, result)>>]>>

Symmetry == Permutations(Workers) \union Permutations(Proposals)
=============================================================================
