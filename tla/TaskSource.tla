----------------------------- MODULE TaskSource -----------------------------
(***************************************************************************)
(* What passes between localPrepareTask and localRunCodex: the one part of *)
(* a window's store and of a task that both see.  A preparation offers a   *)
(* task of its own in a window's store, once; a run takes it, once, as     *)
(* long as the store or a command of the window holds it; a task that      *)
(* nobody holds any more has lapsed for good.                              *)
(***************************************************************************)
CONSTANTS Windows, Tasks, NoTask

VARIABLES shelf, \* task_draft of a window's store
          state

sourceVars == <<shelf, state>>

Init ==
    /\ shelf = [w \in Windows |-> NoTask]
    /\ state = [t \in Tasks |-> "absent"]

(* Of the tasks on offer, those on no shelf may be held by nobody.         *)
Lapse(now) ==
    \E lapsed \in SUBSET {t \in Tasks : now[t] = "offered"} :
        /\ \A w \in Windows : shelf'[w] \notin lapsed
        /\ state' = [t \in Tasks |-> IF t \in lapsed THEN "lapsed" ELSE now[t]]

Offer(w, t) ==
    /\ state[t] = "absent"
    /\ shelf' = [shelf EXCEPT ![w] = t]
    /\ Lapse([state EXCEPT ![t] = "offered"])

Take(t) ==
    /\ state[t] = "offered"
    /\ state' = [state EXCEPT ![t] = "taken"]
    /\ UNCHANGED shelf

Close(w) ==
    /\ shelf' = [shelf EXCEPT ![w] = NoTask]
    /\ Lapse(state)

Drop == UNCHANGED shelf /\ Lapse(state)

Next ==
    \/ \E w \in Windows, t \in Tasks : Offer(w, t)
    \/ \E t \in Tasks : Take(t)
    \/ \E w \in Windows : Close(w)
    \/ Drop

Spec == Init /\ [][Next]_sourceVars
=============================================================================
