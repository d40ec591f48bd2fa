----------------------------- MODULE RunOutcome -----------------------------
(***************************************************************************)
(* What a reconciled codex run amounts to: executionOutcomeClassifier.ts,  *)
(* the precedence of a lost lease in LocalCommandService.localRunCodex,    *)
(* and the decision of postRunReviewer.ts.  Reasons and texts are left     *)
(* out.  A reindex is its mode and whether it returned.                    *)
(***************************************************************************)

(* execution.cancelled, isTimeoutMessage(execution.error), execution.ok.   *)
Executions == {"ok", "failed", "timeout", "cancelled"}

(* warnings_count = 0, or > 0 without or with a severe reason.             *)
Warnings == {"none", "mild", "severe"}

ClassifyExecutionOutcome(execution, changed, warnings, reindex) ==
    CASE execution # "ok" -> execution
      [] execution = "ok" /\ changed = {} -> "no_op"
      [] OTHER ->
           IF warnings = "severe" \/ ~reindex.ok \/ reindex.mode = "fallback_full"
           THEN "partial_changes" ELSE "applied_changes"

EffectiveOutcome(lost, outcome) == IF lost THEN "blocked" ELSE outcome

Decision_IgnoresDeleted(outcome, deleted, warnings) ==
    CASE outcome = "blocked" -> "blocked"
      [] outcome = "failed" -> "reject"
      [] outcome \in {"timeout", "cancelled", "no_op"} -> "retry_recommended"
      [] outcome = "partial_changes" -> "needs_manual_review"
      [] outcome = "applied_changes" ->
           IF warnings # "none" THEN "accept_with_warnings" ELSE "accept"

Decision(outcome, deleted, warnings) ==
    CASE outcome = "blocked" -> "blocked"
      [] outcome = "failed" -> "reject"
      [] outcome \in {"timeout", "cancelled", "no_op"} -> "retry_recommended"
      [] outcome = "partial_changes" -> "needs_manual_review"
      [] outcome = "applied_changes" ->
           IF deleted # {} THEN "needs_manual_review"
           ELSE IF warnings # "none" THEN "accept_with_warnings" ELSE "accept"

Accepts == {"accept", "accept_with_warnings"}

(* Whatever the classifier said, no run whose reindex fell back or failed  *)
(* is accepted.                                                            *)
Review(outcome, deleted, warnings, reindex) ==
    LET decision == Decision(outcome, deleted, warnings)
    IN  IF decision \in Accepts /\ (reindex.mode = "fallback_full" \/ ~reindex.ok)
        THEN "needs_manual_review" ELSE decision
=============================================================================
