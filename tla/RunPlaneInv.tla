---------------------------- MODULE RunPlaneInv -----------------------------
(***************************************************************************)
(* The inductive invariant behind the safety properties of RunPlane.  The  *)
(* properties alone do not carry over a step: what makes them stable is    *)
(* that the compare-and-set of BeginTask gives a task to one invocation    *)
(* (WinnerInv, OwnerInv), after which only that invocation moves the task, *)
(* so the control point it is at tells the task's state (PhaseInv) and     *)
(* whether its execution row exists (EvidenceInv).                         *)
(***************************************************************************)
EXTENDS RunPlane

Judged == {"moverecon", "reconlog", "collect", "persist", "close", "closelog", "settle"}

Begun == {"beginlog", "health", "codex"} \union Judged

Recovering == {"catchstate", "catchrunning", "catchrecon", "catchlog"}

Persisted == {"close", "closelog", "settle"}

(* An invocation that is past "idle" has resolved its project, task and    *)
(* branch, unless it returned at once; one that is not has done nothing.   *)
KeyInv ==
    \A r \in Runs :
        /\ pc[r] \notin {"idle", "done"} => req[r] \in Keys
        /\ hb[r].renew # {} => req[r] \in Keys
        /\ result[r] = "ok" => req[r] \in Keys
        /\ pc[r] = "idle" => ~Executed(r) /\ result[r] = "none" /\ hb[r] = Idle

(* Drafts and requests name tasks that exist, and bootstrap is reached     *)
(* only with a task of another project.                                    *)
RequestInv ==
    /\ \A w \in Windows : draft[w] # NoTask => task[draft[w]] # "absent"
    /\ \A r \in Runs : req[r] \in Keys => task[req[r].task] # "absent"
    /\ \A r \in Runs : pc[r] = "bootstrap" => HomeOf[req[r].task] # req[r].project

OutcomeInv == \A r \in Runs : pc[r] \in Judged => outcome[r] \in Outcomes

WinnerInv ==
    \A t \in Tasks :
        /\ winner[t] = NoRun <=> task[t] \in {"absent", "prepared"}
        /\ winner[t] # NoRun =>
              /\ winner[t] \in Runs /\ pc[winner[t]] # "idle"
              /\ req[winner[t]] \in Keys /\ req[winner[t]].task = t

OwnerInv ==
    \A r \in Runs :
        /\ Executed(r) \/ pc[r] \in Begun => req[r] \in Keys /\ winner[req[r].task] = r
        /\ pc[r] \in Recovering => started[r]

PhaseOf(r) ==
    /\ pc[r] \in {"beginlog", "health", "codex", "moverecon"} =>
          task[req[r].task] = "running"
    /\ pc[r] \in {"reconlog", "collect", "persist", "close"} =>
          task[req[r].task] = "reconciling"
    /\ pc[r] \in {"closelog", "settle"} =>
          task[req[r].task] = FinalTaskState[outcome[r]]

PhaseInv == \A r \in Runs : PhaseOf(r)

EvidenceOf(r) ==
    /\ pc[r] \in Persisted => execution[r] = outcome[r]
    /\ pc[r] \in Begun \ Persisted => execution[r] = "none"

EvidenceInv == \A r \in Runs : EvidenceOf(r)

IInv ==
    /\ TypeOK
    /\ KeyInv
    /\ RequestInv
    /\ OutcomeInv
    /\ WinnerInv
    /\ OwnerInv
    /\ PhaseInv
    /\ EvidenceInv
    /\ ClosedWithEvidence
    /\ ReplayIsHonest
    /\ OkIsReplayable
=============================================================================
