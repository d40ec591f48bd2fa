----------------------------- MODULE TaskLedger -----------------------------
(***************************************************************************)
(* What localRunCodex promises of the tasks, with no locks, claims, clocks *)
(* or failures: a task is given to one run for ever; that run may record   *)
(* one outcome; the task is closed once, with the verdict of the recorded  *)
(* outcome, or as failed.                                                  *)
(***************************************************************************)
CONSTANTS Runs, Tasks, NoRun,
          Outcomes,        \* ExecutionOutcome
          Final,           \* final lifecycle states
          FinalTaskState   \* the verdict of an outcome

VARIABLES owner, recorded, verdict

ledgerVars == <<owner, recorded, verdict>>

Init ==
    /\ owner = [t \in Tasks |-> NoRun]
    /\ recorded = [t \in Tasks |-> "none"]
    /\ verdict = [t \in Tasks |-> "open"]

Give(t, r) ==
    /\ owner[t] = NoRun
    /\ owner' = [owner EXCEPT ![t] = r]
    /\ UNCHANGED <<recorded, verdict>>

Record(t, o) ==
    /\ owner[t] # NoRun /\ recorded[t] = "none" /\ verdict[t] = "open"
    /\ recorded' = [recorded EXCEPT ![t] = o]
    /\ UNCHANGED <<owner, verdict>>

Close(t) ==
    /\ recorded[t] \in Outcomes /\ verdict[t] = "open"
    /\ verdict' = [verdict EXCEPT ![t] = FinalTaskState[recorded[t]]]
    /\ UNCHANGED <<owner, recorded>>

Fail(t) ==
    /\ owner[t] # NoRun /\ verdict[t] = "open"
    /\ verdict' = [verdict EXCEPT ![t] = "failed"]
    /\ UNCHANGED <<owner, recorded>>

Next ==
    \E t \in Tasks :
        \/ \E r \in Runs : Give(t, r)
        \/ \E o \in Outcomes : Record(t, o)
        \/ Close(t)
        \/ Fail(t)

Spec == Init /\ [][Next]_ledgerVars
=============================================================================
