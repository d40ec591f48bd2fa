----------------------------- MODULE WriteLedger -----------------------------
(***************************************************************************)
(* What the write tools promise of an idempotency key, with no gates,      *)
(* audit transactions, clashes, crashes or retries: the key of a tool has  *)
(* one answer for ever, every client hears that one, and it says that      *)
(* something was written only if something was.  Where one call is served  *)
(* after the other nothing is written under a key that has its answer; a   *)
(* batch is written once per key in any case.                              *)
(***************************************************************************)
EXTENDS Naturals

CONSTANTS
    Requested,  \* pairs of a tool and an idempotency key
    Batches,    \* those of the tool that records batches
    Results, Written

VARIABLES
    oneAtATime, \* one worker serves
    commits, answer, told

ledgerVars == <<oneAtATime, commits, answer, told>>

Init ==
    /\ oneAtATime \in BOOLEAN
    /\ commits = [tk \in Requested |-> 0]
    /\ answer = [tk \in Requested |-> "none"]
    /\ told = {}

Commit(tk) ==
    /\ oneAtATime => answer[tk] = "none"
    /\ tk \in Batches => commits[tk] = 0
    /\ commits' = [commits EXCEPT ![tk] = @ + 1]
    /\ UNCHANGED <<oneAtATime, answer, told>>

Record(tk, res) ==
    /\ answer[tk] = "none"
    /\ res \in Written => commits[tk] > 0
    /\ answer' = [answer EXCEPT ![tk] = res]
    /\ UNCHANGED <<oneAtATime, commits, told>>

Tell(tk) ==
    /\ answer[tk] # "none"
    /\ told' = told \union {<<tk, answer[tk]>>}
    /\ UNCHANGED <<oneAtATime, commits, answer>>

Next ==
    \E tk \in Requested :
        Commit(tk) \/ (\E res \in Results : Record(tk, res)) \/ Tell(tk)

Spec == Init /\ [][Next]_ledgerVars
=============================================================================
