----------------------------- MODULE CodexChild -----------------------------
(***************************************************************************)
(* What RunPlane takes for granted of the codex processes of a run: the    *)
(* health check refuses or starts one; when it closes it is gone, and the  *)
(* run was cancelled exactly if the abort came first.                      *)
(***************************************************************************)
VARIABLES stage, aborted, alive, verdict

childVars == <<stage, aborted, alive, verdict>>

Verdicts(stopped) == IF stopped THEN {"cancelled"} ELSE {"ok", "failed", "timeout"}

Init == stage = "health" /\ aborted = FALSE /\ alive = FALSE /\ verdict = "none"

Abort ==
    /\ ~aborted /\ aborted' = TRUE
    /\ UNCHANGED <<stage, alive, verdict>>

Refuse ==
    /\ stage = "health" /\ stage' = "closed"
    /\ verdict' \in Verdicts(aborted) \ {"ok"}
    /\ UNCHANGED <<aborted, alive>>

Start ==
    /\ stage = "health" /\ ~aborted
    /\ stage' = "codex" /\ alive' = TRUE
    /\ UNCHANGED <<aborted, verdict>>

Close ==
    /\ stage = "codex" /\ stage' = "closed"
    /\ alive' = FALSE
    /\ verdict' \in Verdicts(aborted)
    /\ UNCHANGED aborted

Spec == Init /\ [][Abort \/ Refuse \/ Start \/ Close]_childVars
=============================================================================
