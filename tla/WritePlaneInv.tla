---------------------------- MODULE WritePlaneInv ----------------------------
(***************************************************************************)
(* The inductive invariant behind the safety properties of WritePlane.     *)
(* What makes them stable is that the audit row of a key is written once   *)
(* and never changed, so everything told is what is recorded (AuditInv),   *)
(* that the row of a batch stands for its only commit (BatchInv), that     *)
(* the draft of a proposal never changes once it has a row and a           *)
(* ratification, once written, stays (RowInv, RatifiedInv, GateInv), and,  *)
(* with one worker, that nothing moves between what a call reads and what  *)
(* it commits (SerialInv).                                                 *)
(***************************************************************************)
EXTENDS WritePlane

Reviewing == {"lookup", "ratify", "reject"}

Proposing == {"find", "propose"}

(* A worker that is not idle serves, and has the arguments of its call.    *)
CallInv ==
    \A w \in Workers :
        /\ at[w] # "idle" => w \in active
        /\ at[w] \in WriteStages => request[w] \in Requests
        /\ at[w] \in Proposing => draft[w] \in Drafts
        /\ at[w] = "propose" /\ about[w] # NoProposal => proposals[about[w]].status # "none"
        /\ at[w] \in Reviewing => about[w] \in Proposals /\ proposals[about[w]].status # "none"

RowInv ==
    \A p \in Proposals :
        /\ proposals[p].status # "none" => proposals[p].draft \in Drafts
        /\ proposals[p].status = "none" => proposals[p] = NoRow

(* A ratification, once written, stays, and names the decision it made.    *)
RatifiedInv ==
    \A p \in Proposals :
        /\ proposals[p].status = "ratified" => proposals[p].ratifiedBy
        /\ proposals[p].ratifiedBy /\ Decides(p) => proposals[p].decision = proposals[p].draft.decision

Opens(p, q) ==
    /\ proposals[p].ratifiedBy
    /\ proposals[p].draft.kind = "context_item"
    /\ proposals[p].draft.target = TargetKey(q)
    /\ Serial => proposals[p].status = "ratified"

(* A governed call past the gate has a proposal that opened it.            *)
GateOf(w) ==
    at[w] \in {"load", "commit"} /\ ~request[w].dry /\ RequiresRatification(request[w])
    => \E p \in Proposals : Opens(p, request[w])

GateInv == \A w \in Workers : GateOf(w)

(* What a call is about to record is true, and what is told is recorded.   *)
ResultOf(w) ==
    /\ at[w] = "commit" => ~request[w].dry
    /\ at[w] \in {"audit", "publish"} => result[w] \in Results
    /\ at[w] \in {"audit", "publish"} /\ result[w] \in Written =>
          request[w].key \in Keys /\ writes[IdOf(w)] > 0
    /\ at[w] = "publish" /\ request[w].key # NoKey => audit[IdOf(w)] = result[w]

ResultInv == \A w \in Workers : ResultOf(w)

AuditInv ==
    /\ \A tk \in Requested : audit[tk] \in Written => writes[tk] > 0
    /\ \A answer \in told : audit[answer[1]] = answer[2]

(* The row of a batch stands for the one commit of its key.                *)
BatchRow(k) == writes[<<"apply_sync_batch", k>>] = IF k \in batches THEN 1 ELSE 0

BatchOf(w) ==
    at[w] = "commit" /\ request[w].tool = "apply_sync_batch" /\ other[w]
    => request[w].key \in batches

BatchInv == (\A k \in Keys : BatchRow(k)) /\ (\A w \in Workers : BatchOf(w))

(* One worker reviews a proposal: its status is the one that was read.     *)
SerialReviewInv ==
    Serial =>
        /\ \A w \in Workers : at[w] \in Reviewing => found[w] = proposals[about[w]].status
        /\ \A p \in Proposals : proposals[p].ratifiedBy => proposals[p].status = "ratified"

(* One worker writes: no audit row stands for its key before it records    *)
(* one.                                                                    *)
SerialCallOf(w) ==
    at[w] \in {"gate", "load", "commit", "audit"} /\ request[w].key # NoKey
    => audit[IdOf(w)] = "none"

SerialCallInv == Serial => \A w \in Workers : SerialCallOf(w)

(* One worker writes: a commit of a key is cut, recorded, or about to be.  *)
Owed(tk) == audit[tk] \in Written \/ \E w \in Workers : Wrote(w) /\ IdOf(w) = tk

SerialWriteInv ==
    Serial => \A tk \in Requested : writes[tk] <= cut[tk] + (IF Owed(tk) THEN 1 ELSE 0)

(* An item has a status from its first version on, and what a call has     *)
(* read of a row it is about to change is of a row that is still there.    *)
Described(row) == row.status = "none" => row = NoItem

ItemInv ==
    /\ \A i \in Items : Described(items[i])
    /\ \A w \in Workers :
         /\ Described(seen[w])
         /\ at[w] = "commit" /\ seen[w] # NoItem => Exists(Item(w))
         /\ at[w] = "commit" /\ request[w].tool \in ByItemId => seen[w] # NoItem

IInv ==
    /\ TypeOK
    /\ CallInv /\ RowInv /\ RatifiedInv /\ DecisionWasRatified /\ GateInv
    /\ ResultInv /\ AuditInv /\ BatchInv
    /\ SerialReviewInv /\ SerialCallInv /\ SerialWriteInv /\ TrailTellsTheVerdict
=============================================================================
