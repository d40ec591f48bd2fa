------------------------------ MODULE RunPlane ------------------------------
(***************************************************************************)
(* The run plane of the VS Code extension: LocalCommandService.localRunCodex *)
(* over the Postgres tables project_run_locks, idempotency_records, tasks,  *)
(* task_state_transitions and executions.  Several extension hosts          *)
(* (windows) share the database; each command invocation is one element of  *)
(* Runs, because lock_id and claim_id are fresh UUIDs of the invocation.    *)
(* An action is one database statement (or one external event); pc[r] names *)
(* the statement the invocation awaits.  One unit of the clock is the       *)
(* heartbeat interval (60 s); TTL is the lease in those units (180 s = 3).  *)
(***************************************************************************)
EXTENDS Integers, FiniteSets

CONSTANTS
    Runs,        \* invocations of localRunCodex
    Windows,     \* extension hosts, each with its in-memory runtime store
    WindowOf,    \* the window an invocation is made in
    Tasks,       \* task drafts built by localPrepareTask (random ids)
    Projects,    \* project rows (profile, workspace_root, repo_root)
    HomeOf,      \* the project a task row belongs to
    Branches,    \* git branches, a part of the run's idempotency key
    NoRun, NoTask, NoKey,
    TTL,         \* lease length, in heartbeat intervals
    CodexOutcomes, \* bound: how a codex process that is not stopped may end
    MaxTime,     \* bound: the clock stops here
    MaxFaults,   \* bound: statements that fail or whose reply is lost
    MaxCrashes,  \* bound: windows that die
    Timely       \* TRUE: every heartbeat tick ends before the next is due

Outcomes == {"applied_changes", "no_op", "partial_changes",
             "cancelled", "timeout", "failed", "blocked"}

Final == {"completed", "partial", "failed", "timeout", "cancelled", "blocked"}

Lifecycle == {"absent", "prepared", "running", "reconciling"} \union Final

Keys == [project : Projects, task : Tasks, branch : Branches]

Renewals == {"lock", "claim"}

ASSUME ConstantsOK ==
    /\ NoRun \notin Runs /\ NoTask \notin Tasks /\ NoKey \notin Keys
    /\ WindowOf \in [Runs -> Windows]
    /\ HomeOf \in [Tasks -> Projects]
    /\ CodexOutcomes \subseteq Outcomes \ {"cancelled", "blocked"}
    /\ TTL \in Nat \ {0}
    /\ MaxTime \in Nat /\ MaxFaults \in Nat /\ MaxCrashes \in Nat
    /\ Timely \in BOOLEAN

(* Faulty variants: an operator named X_<Fault> is not part of the model.  *)
(* It is X with a plausible mistake, kept to show that a property notices. *)

(* finalTaskStateFromOutcome *)
FinalTaskState ==
    [o \in Outcomes |->
        CASE o \in {"applied_changes", "no_op"} -> "completed"
          [] o = "partial_changes" -> "partial"
          [] OTHER -> o]

OkOutcomes == {"applied_changes", "no_op", "partial_changes"}

VARIABLES
    lock,       \* project_run_locks: project -> owner lock_id and expires_at
    claim,      \* idempotency_records of local_run_codex: key -> row
    task,       \* tasks.lifecycle_state
    history,    \* task_state_transitions: pairs of a task and a to_state
    execution,  \* executions: invocation -> outcome of the row it committed
    draft,      \* store.task_draft of each window
    now, faults, crashes,
    pc,         \* the await each invocation is at
    req,        \* what the invocation resolved: project, task, branch
    started,    \* stateTransitionStarted
    outcome,    \* execution result, then effectiveOutcome
    result,     \* what the command returned
    hb,         \* lease heartbeat: timer, inFlight, outstanding statements
    lost,       \* heartbeat state: lockLeaseLost or claimLeaseLost
    aborted,    \* internalAbortController.signal.aborted
    child,      \* a "codex exec" process of the invocation is alive
    winner      \* auxiliary: the invocation that moved the task to running

dbVars   == <<lock, claim, task, history, execution, winner>>
runVars  == <<req, started, outcome, lost, aborted, child>>
ctlVars  == <<pc, result, faults>>
envVars  == <<draft, now, crashes>>
vars     == <<dbVars, runVars, ctlVars, envVars, hb>>

(***************************************************************************)
(* Control points.                                                         *)
(***************************************************************************)
Statements == {"acquire", "claim", "reclaim", "failclaim", "getstate",
               "bootstrap", "begin", "beginlog", "moverecon", "reconlog",
               "persist", "close", "closelog", "settle", "catchclaim",
               "catchstate", "catchrunning", "catchrecon", "catchlog",
               "release"}

Ended == {"done", "crashed"}

Labels == Statements \union Ended
            \union {"idle", "firstbeat", "health", "codex", "collect", "stop"}

(* The try block after activeClaim is set: an exception there settles the  *)
(* claim first.                                                            *)
Guarded == {"failclaim", "getstate", "bootstrap", "begin", "beginlog",
            "health", "codex", "moverecon", "reconlog", "collect",
            "persist", "close", "closelog", "settle"}

(* Where control goes when the statement at s throws: the catch block, the *)
(* best-effort steps inside it, or the finally block.                      *)
Handler(r, s) ==
    CASE s \in Guarded -> "catchclaim"
      [] s = "catchclaim" /\ started[r] -> "catchstate"
      [] s = "release" -> "done"
      [] OTHER -> "stop"

(* Only an exception of the try block becomes the command's result; those  *)
(* of the catch and finally blocks are swallowed.                          *)
Swallowed == {"catchclaim", "catchstate", "catchrunning", "catchrecon",
              "catchlog", "release"}

Returns(r, next, res) ==
    /\ pc' = [pc EXCEPT ![r] = next]
    /\ result' = [result EXCEPT ![r] = res]
    /\ UNCHANGED faults

Goes(r, next) == Returns(r, next, result[r])

Raises(r) ==
    /\ pc' = [pc EXCEPT ![r] = Handler(r, pc[r])]
    /\ result' = [result EXCEPT ![r] = IF pc[r] \in Swallowed THEN @ ELSE "error"]

(* A statement that fails in the database, or whose reply is lost.         *)
Throws(r) ==
    /\ faults < MaxFaults
    /\ faults' = faults + 1
    /\ Raises(r)

(* After the effect of a statement: the reply arrives, or it is lost.      *)
Answers(r, next) == Goes(r, next) \/ Throws(r)

Idle == [timer |-> FALSE, inFlight |-> FALSE, renew |-> {},
         refused |-> FALSE, beat |-> 0]

Init ==
    /\ lock = [p \in Projects |-> [owner |-> NoRun, expires |-> 0]]
    /\ claim = [k \in Keys |-> [status |-> "absent", owner |-> NoRun, lease |-> 0]]
    /\ task = [t \in Tasks |-> "absent"]
    /\ history = {}
    /\ execution = [r \in Runs |-> "none"]
    /\ winner = [t \in Tasks |-> NoRun]
    /\ draft = [w \in Windows |-> NoTask]
    /\ now = 0 /\ faults = 0 /\ crashes = 0
    /\ pc = [r \in Runs |-> "idle"]
    /\ req = [r \in Runs |-> NoKey]
    /\ started = [r \in Runs |-> FALSE]
    /\ outcome = [r \in Runs |-> "none"]
    /\ result = [r \in Runs |-> "none"]
    /\ hb = [r \in Runs |-> Idle]
    /\ lost = [r \in Runs |-> FALSE]
    /\ aborted = [r \in Runs |-> FALSE]
    /\ child = [r \in Runs |-> FALSE]

(***************************************************************************)
(* The environment: localPrepareTask (as far as a run can see it), time,   *)
(* the user, a dying window.                                               *)
(***************************************************************************)
PrepareTask(w, t) ==
    /\ task[t] = "absent"
    /\ task' = [task EXCEPT ![t] = "prepared"]
    /\ draft' = [draft EXCEPT ![w] = t]
    /\ history' = history \union {<<t, "prepared">>}
    /\ UNCHANGED <<lock, claim, execution, winner, now, crashes, runVars, ctlVars, hb>>

(* A renewal is in flight, its timer is due, or its first answer has still *)
(* to arm the timer (a microtask).                                         *)
BeatDue(r) ==
    \/ hb[r].inFlight \/ pc[r] = "firstbeat"
    \/ hb[r].timer /\ hb[r].beat < now /\ pc[r] \notin {"stop", "release"} \union Ended

Tick ==
    /\ now < MaxTime
    /\ Timely => \A r \in Runs : ~BeatDue(r)
    /\ now' = now + 1
    /\ UNCHANGED <<dbVars, runVars, ctlVars, draft, crashes, hb>>

(* A cancellation is read by the health check and by the codex process;    *)
(* after them the signal changes nothing.                                  *)
UserAbort(r) ==
    /\ pc[r] \in {"acquire", "claim", "reclaim", "firstbeat", "getstate",
                  "begin", "beginlog", "health", "codex"}
    /\ ~aborted[r]
    /\ aborted' = [aborted EXCEPT ![r] = TRUE]
    /\ UNCHANGED <<dbVars, req, started, outcome, lost, child, ctlVars, envVars, hb>>

(* The extension host dies: its invocations vanish with the store; a codex *)
(* process it had spawned may die with it or be orphaned.                  *)
Crash(w) ==
    LET dead == {r \in Runs : WindowOf[r] = w /\ pc[r] \notin {"idle"} \union Ended}
    IN  /\ crashes < MaxCrashes
        /\ crashes' = crashes + 1
        /\ pc' = [r \in Runs |-> IF r \in dead THEN "crashed" ELSE pc[r]]
        /\ hb' = [r \in Runs |-> IF WindowOf[r] = w THEN Idle ELSE hb[r]]
        /\ \E orphans \in SUBSET {r \in dead : child[r]} :
             child' = [r \in Runs |-> child[r] /\ (r \in dead => r \in orphans)]
        /\ draft' = [draft EXCEPT ![w] = NoTask]
        /\ UNCHANGED <<dbVars, req, started, outcome, lost, aborted, result, faults, now>>

OrphanExit(r) ==
    /\ pc[r] = "crashed" /\ child[r]
    /\ child' = [child EXCEPT ![r] = FALSE]
    /\ UNCHANGED <<dbVars, req, started, outcome, lost, aborted, ctlVars, envVars, hb>>

(***************************************************************************)
(* Before the task starts: resolve the draft, take the project lock, claim *)
(* the idempotency key, start the heartbeat.                               *)
(***************************************************************************)
Invoke(r) ==
    LET t == draft[WindowOf[r]]
    IN  /\ pc[r] = "idle"
        /\ \/ /\ t = NoTask
              /\ Returns(r, "done", "no_draft")
              /\ UNCHANGED req
           \/ /\ t # NoTask
              /\ \E p \in Projects, b \in Branches :
                   req' = [req EXCEPT ![r] = [project |-> p, task |-> t, branch |-> b]]
              /\ Goes(r, "acquire")
        /\ UNCHANGED <<dbVars, started, outcome, lost, aborted, child, envVars, hb>>

AcquireProjectRunLock(r) ==
    LET p == req[r].project
        free == lock[p].owner = NoRun \/ lock[p].expires <= now
    IN  /\ pc[r] = "acquire"
        /\ \/ /\ free
              /\ lock' = [lock EXCEPT ![p] = [owner |-> r, expires |-> now + TTL]]
              /\ Answers(r, "claim")
           \/ /\ ~free
              /\ Returns(r, "stop", "busy")
              /\ UNCHANGED lock
        /\ UNCHANGED <<claim, task, history, execution, winner, runVars, envVars, hb>>

(* The first renewTick is sent before the interval timer exists.           *)
SendBeat(r, timer) ==
    hb' = [hb EXCEPT ![r] = [timer |-> timer, inFlight |-> TRUE, renew |-> Renewals,
                             refused |-> FALSE, beat |-> now]]

Held(r) == [status |-> "in_progress", owner |-> r, lease |-> now + TTL]

(* INSERT ... ON CONFLICT DO NOTHING, then SELECT of the row in the way.   *)
ClaimIdempotency(r) ==
    LET k == req[r]
    IN  /\ pc[r] = "claim"
        /\ \/ /\ claim[k].status = "absent"
              /\ claim' = [claim EXCEPT ![k] = Held(r)]
              /\ \/ Goes(r, "firstbeat") /\ SendBeat(r, FALSE)
                 \/ Throws(r) /\ UNCHANGED hb
           \/ /\ claim[k].status \in {"completed", "failed"}
              /\ Returns(r, "stop", IF claim[k].status = "completed"
                                    THEN "replay_ok" ELSE "replay_error")
              /\ UNCHANGED <<claim, hb>>
           \/ /\ claim[k].status = "in_progress"
              /\ Goes(r, "reclaim")
              /\ UNCHANGED <<claim, hb>>
        /\ UNCHANGED <<lock, task, history, execution, winner, runVars, envVars>>

(* The conditional UPDATE that takes over an expired claim.                *)
ReclaimIdempotency(r) ==
    LET k == req[r]
        expired == claim[k].status = "in_progress" /\ claim[k].lease <= now
    IN  /\ pc[r] = "reclaim"
        /\ \/ /\ expired
              /\ claim' = [claim EXCEPT ![k] = Held(r)]
              /\ \/ Goes(r, "firstbeat") /\ SendBeat(r, FALSE)
                 \/ Throws(r) /\ UNCHANGED hb
           \/ /\ ~expired
              /\ Returns(r, "stop", "in_progress")
              /\ UNCHANGED <<claim, hb>>
        /\ UNCHANGED <<lock, task, history, execution, winner, runVars, envVars>>

(* startLeaseHeartbeat returns; an invalid codexCliCommand ends the run.   *)
HeartbeatStarted(r) ==
    /\ pc[r] = "firstbeat" /\ ~hb[r].inFlight
    /\ hb' = [hb EXCEPT ![r].timer = ~lost[r]]
    /\ \/ Goes(r, "getstate")
       \/ Goes(r, "failclaim")
    /\ UNCHANGED <<dbVars, runVars, envVars>>

(***************************************************************************)
(* The heartbeat: an interval callback that renews both leases, and skips  *)
(* its turn while the previous renewal is in flight.                       *)
(***************************************************************************)
BeatFires(r) ==
    /\ hb[r].timer /\ hb[r].beat < now
    /\ pc[r] \notin {"stop", "release"} \union Ended
    /\ IF hb[r].inFlight
       THEN hb' = [hb EXCEPT ![r].beat = now]
       ELSE SendBeat(r, TRUE)
    /\ UNCHANGED <<dbVars, runVars, ctlVars, envVars>>

LoseLease(r) ==
    /\ lost' = [lost EXCEPT ![r] = TRUE]
    /\ aborted' = [aborted EXCEPT ![r] = TRUE]

(* One of the two statements of Promise.all answers; the last answer ends  *)
(* the tick.                                                               *)
RenewalAnswers(r, s, ok) ==
    LET rest == hb[r].renew \ {s}
        refused == hb[r].refused \/ (hb[r].inFlight /\ ~ok)
        last == hb[r].inFlight /\ rest = {}
    IN  /\ hb' = [hb EXCEPT ![r].renew = rest, ![r].refused = refused /\ ~last,
                            ![r].inFlight = @ /\ ~last]
        /\ IF last /\ refused THEN LoseLease(r) ELSE UNCHANGED <<lost, aborted>>
        /\ UNCHANGED faults

RenewalThrows_StaysInFlight(r, s) ==
    /\ faults < MaxFaults
    /\ faults' = faults + 1
    /\ hb' = [hb EXCEPT ![r].renew = @ \ {s}]
    /\ IF hb[r].inFlight THEN LoseLease(r) ELSE UNCHANGED <<lost, aborted>>

(* It throws: Promise.all rejects at once and both leases count as lost.   *)
RenewalThrows(r, s) ==
    /\ faults < MaxFaults
    /\ faults' = faults + 1
    /\ hb' = [hb EXCEPT ![r].renew = @ \ {s}, ![r].inFlight = FALSE,
                        ![r].refused = FALSE]
    /\ IF hb[r].inFlight THEN LoseLease(r) ELSE UNCHANGED <<lost, aborted>>

RenewProjectRunLock_AnyOwner(r) ==
    LET p == req[r].project
    IN  /\ "lock" \in hb[r].renew
        /\ lock' = [lock EXCEPT ![p].expires = now + TTL]
        /\ RenewalAnswers(r, "lock", TRUE) \/ RenewalThrows(r, "lock")
        /\ UNCHANGED <<claim, task, history, execution, winner, req, started,
                       outcome, child, pc, result, envVars>>

RenewProjectRunLock(r) ==
    LET p == req[r].project
        ok == lock[p].owner = r /\ lock[p].expires > now
    IN  /\ "lock" \in hb[r].renew
        /\ lock' = IF ok THEN [lock EXCEPT ![p].expires = now + TTL] ELSE lock
        /\ RenewalAnswers(r, "lock", ok) \/ RenewalThrows(r, "lock")
        /\ UNCHANGED <<claim, task, history, execution, winner, req, started,
                       outcome, child, pc, result, envVars>>

RenewIdempotencyClaim(r) ==
    LET k == req[r]
        ok == /\ claim[k].status = "in_progress" /\ claim[k].owner = r
              /\ claim[k].lease > now
    IN  /\ "claim" \in hb[r].renew
        /\ claim' = IF ok THEN [claim EXCEPT ![k].lease = now + TTL] ELSE claim
        /\ RenewalAnswers(r, "claim", ok) \/ RenewalThrows(r, "claim")
        /\ UNCHANGED <<lock, task, history, execution, winner, req, started,
                       outcome, child, pc, result, envVars>>

RenewalFails(r) ==
    /\ \E s \in hb[r].renew : RenewalThrows(r, s)
    /\ UNCHANGED <<dbVars, req, started, outcome, child, pc, result, envVars>>

(***************************************************************************)
(* transitionTaskState: a compare-and-set UPDATE of tasks, then, in a      *)
(* statement of its own, the INSERT of the history row.                    *)
(***************************************************************************)
RowExists(r) == task[req[r].task] # "absent" /\ HomeOf[req[r].task] = req[r].project

TransitionTaskState_AnyState(r, at, from, to, next) ==
    /\ pc[r] = at
    /\ task' = [task EXCEPT ![req[r].task] = to]
    /\ Answers(r, next)
    /\ UNCHANGED <<lock, claim, history, execution, runVars, envVars, hb>>

TransitionTaskState(r, at, from, to, next) ==
    LET t == req[r].task
        match == RowExists(r) /\ task[t] = from
    IN  /\ pc[r] = at
        /\ IF match
           THEN task' = [task EXCEPT ![t] = to] /\ Answers(r, next)
           ELSE UNCHANGED <<task, faults>> /\ Raises(r)
        /\ UNCHANGED <<lock, claim, history, execution, runVars, envVars, hb>>

LogTransition(r, at, to, next) ==
    /\ pc[r] = at
    /\ history' = history \union {<<req[r].task, to>>}
    /\ Answers(r, next)
    /\ UNCHANGED <<lock, claim, task, execution, winner, req, outcome, lost,
                   aborted, child, envVars, hb>>

GetTaskLifecycleState(r) ==
    /\ pc[r] = "getstate"
    /\ \/ ~RowExists(r) /\ Goes(r, "bootstrap")
       \/ RowExists(r) /\ task[req[r].task] # "prepared"
            /\ Returns(r, "stop", "not_prepared")
       \/ RowExists(r) /\ task[req[r].task] = "prepared" /\ Goes(r, "begin")
    /\ UNCHANGED <<dbVars, runVars, envVars, hb>>

(* from_state null matches any state of the row, but there is no row.      *)
BootstrapTaskState(r) ==
    LET t == req[r].task
    IN  /\ pc[r] = "bootstrap"
        /\ IF RowExists(r)
           THEN task' = [task EXCEPT ![t] = "prepared"] /\ Answers(r, "begin")
           ELSE UNCHANGED <<task, faults>> /\ Raises(r)
        /\ UNCHANGED <<lock, claim, history, execution, winner, runVars, envVars, hb>>

BeginTask_NoCompare(r) ==
    /\ TransitionTaskState(r, "begin", task[req[r].task], "running", "beginlog")
    /\ winner' = [winner EXCEPT ![req[r].task] = r]

BeginTask(r) ==
    /\ TransitionTaskState(r, "begin", "prepared", "running", "beginlog")
    /\ winner' = IF RowExists(r) /\ task[req[r].task] = "prepared"
                 THEN [winner EXCEPT ![req[r].task] = r] ELSE winner

(* stateTransitionStarted is set when transitionTaskState has returned.    *)
LogBegin(r) ==
    /\ LogTransition(r, "beginlog", "running", "health")
    /\ started' = IF pc'[r] = "health" THEN [started EXCEPT ![r] = TRUE] ELSE started

(***************************************************************************)
(* PostRunReconciler.reconcile around the codex process.                   *)
(***************************************************************************)
HealthCheck(r) ==
    /\ pc[r] = "health"
    /\ \/ /\ aborted[r]
          /\ outcome' = [outcome EXCEPT ![r] = "cancelled"]
          /\ Goes(r, "moverecon")
          /\ UNCHANGED child
       \/ /\ ~aborted[r]
          /\ \E o \in CodexOutcomes \ OkOutcomes : outcome' = [outcome EXCEPT ![r] = o]
          /\ Goes(r, "moverecon")
          /\ UNCHANGED child
       \/ /\ ~aborted[r]
          /\ child' = [child EXCEPT ![r] = TRUE]
          /\ Goes(r, "codex")
          /\ UNCHANGED outcome
    /\ UNCHANGED <<dbVars, req, started, lost, aborted, envVars, hb>>

(* The process closes: by itself, by its timeout, or stopped by the abort  *)
(* signal (SIGTERM, then SIGKILL).  An abort wins over the other reasons.  *)
(* The close waits for everybody who holds its pipes, so that it may never *)
(* come, whatever was signalled.                                           *)
CodexCloses(r) ==
    /\ pc[r] = "codex"
    /\ child' = [child EXCEPT ![r] = FALSE]
    /\ \E o \in IF aborted[r] THEN {"cancelled"} ELSE CodexOutcomes :
         outcome' = [outcome EXCEPT ![r] = o]
    /\ Goes(r, "moverecon")
    /\ UNCHANGED <<dbVars, req, started, lost, aborted, envVars, hb>>

MoveToReconciling(r) ==
    /\ TransitionTaskState(r, "moverecon", "running", "reconciling", "reconlog")
    /\ UNCHANGED winner

LogReconciling(r) ==
    /\ LogTransition(r, "reconlog", "reconciling", "collect")
    /\ UNCHANGED started

(* The snapshot, diff and reindex after the run are done, and the service  *)
(* reads the heartbeat's state, once.                                      *)
CollectOutcome(r) ==
    /\ pc[r] = "collect"
    /\ outcome' = IF lost[r] THEN [outcome EXCEPT ![r] = "blocked"] ELSE outcome
    /\ Goes(r, "persist")
    /\ UNCHANGED <<dbVars, req, started, lost, aborted, child, envVars, hb>>

(* A workspace snapshot throws.                                            *)
SnapshotThrows(r) ==
    /\ pc[r] \in {"health", "collect"}
    /\ Raises(r)
    /\ UNCHANGED <<dbVars, runVars, envVars, hb, faults>>

PersistExecution_GoesOn(r) ==
    /\ pc[r] = "persist"
    /\ \/ execution' = [execution EXCEPT ![r] = outcome[r]]
       \/ UNCHANGED execution
    /\ Goes(r, "close")
    /\ UNCHANGED <<lock, claim, task, history, winner, runVars, envVars, hb>>

(* runInTransaction: execution, artifacts, decision and event, or nothing. *)
PersistExecution(r) ==
    /\ pc[r] = "persist"
    /\ execution' = [execution EXCEPT ![r] = outcome[r]]
    /\ Answers(r, "close")
    /\ UNCHANGED <<lock, claim, task, history, winner, runVars, envVars, hb>>

CloseTask(r) ==
    /\ pc[r] = "close"
    /\ TransitionTaskState(r, "close", "reconciling", FinalTaskState[outcome[r]], "closelog")
    /\ UNCHANGED winner

LogClose(r) ==
    /\ pc[r] = "closelog"
    /\ LogTransition(r, "closelog", FinalTaskState[outcome[r]], "settle")
    /\ UNCHANGED started

(* completeIdempotencyClaim and failIdempotencyClaim.                      *)
HoldsClaim(r) == claim[req[r]].status = "in_progress" /\ claim[req[r]].owner = r

SettleClaim(r, status) ==
    claim' = IF HoldsClaim(r)
             THEN [claim EXCEPT ![req[r]] = [status |-> status, owner |-> r, lease |-> 0]]
             ELSE claim

AnswersResult(r, next, res) == Returns(r, next, res) \/ Throws(r)

FinishRun_IgnoresLostClaim(r) ==
    /\ pc[r] = "settle"
    /\ SettleClaim(r, IF outcome[r] \in OkOutcomes THEN "completed" ELSE "failed")
    /\ AnswersResult(r, "stop", IF outcome[r] \in OkOutcomes THEN "ok" ELSE "error")
    /\ UNCHANGED <<lock, task, history, execution, winner, runVars, envVars, hb>>

FinishRun_AlwaysCompletes(r) ==
    /\ pc[r] = "settle"
    /\ SettleClaim(r, "completed")
    /\ AnswersResult(r, "stop", IF outcome[r] \in OkOutcomes THEN "ok" ELSE "error")
    /\ UNCHANGED <<lock, task, history, execution, winner, runVars, envVars, hb>>

FinishRun(r) ==
    /\ pc[r] = "settle"
    /\ IF outcome[r] \in OkOutcomes
       THEN /\ SettleClaim(r, "completed")
            /\ IF HoldsClaim(r)
               THEN AnswersResult(r, "stop", "ok")
               ELSE Raises(r) /\ UNCHANGED faults
       ELSE /\ SettleClaim(r, "failed")
            /\ AnswersResult(r, "stop", "error")
    /\ UNCHANGED <<lock, task, history, execution, winner, runVars, envVars, hb>>

RejectCommand(r) ==
    /\ pc[r] = "failclaim"
    /\ SettleClaim(r, "failed")
    /\ AnswersResult(r, "stop", "error")
    /\ UNCHANGED <<lock, task, history, execution, winner, runVars, envVars, hb>>

(***************************************************************************)
(* The catch block: fail the claim, then move the task to failed if it was *)
(* seen to start.  Every step is best effort.                              *)
(***************************************************************************)
SafeFailClaim(r) ==
    /\ pc[r] = "catchclaim"
    /\ SettleClaim(r, "failed")
    /\ Answers(r, IF started[r] THEN "catchstate" ELSE "stop")
    /\ UNCHANGED <<lock, task, history, execution, winner, runVars, envVars, hb>>

ReadStateAfterFailure_OnlyRunning(r) ==
    /\ pc[r] = "catchstate"
    /\ Goes(r, IF task[req[r].task] = "running" THEN "catchrunning" ELSE "stop")
    /\ UNCHANGED <<dbVars, runVars, envVars, hb>>

ReadStateAfterFailure(r) ==
    /\ pc[r] = "catchstate"
    /\ Goes(r, CASE task[req[r].task] = "running" -> "catchrunning"
                 [] task[req[r].task] = "reconciling" -> "catchrecon"
                 [] OTHER -> "stop")
    /\ UNCHANGED <<dbVars, runVars, envVars, hb>>

FailTask_ForRetry(r) ==
    /\ \/ TransitionTaskState(r, "catchrunning", "running", "prepared", "catchlog")
       \/ TransitionTaskState(r, "catchrecon", "reconciling", "prepared", "catchlog")
    /\ UNCHANGED winner

FailTask(r) ==
    /\ \/ TransitionTaskState(r, "catchrunning", "running", "failed", "catchlog")
       \/ TransitionTaskState(r, "catchrecon", "reconciling", "failed", "catchlog")
    /\ UNCHANGED winner

LogFailure(r) ==
    /\ LogTransition(r, "catchlog", "failed", "stop")
    /\ UNCHANGED started

(***************************************************************************)
(* The finally block: stop the heartbeat (and wait for a renewal that is   *)
(* in flight), then release the lock by lock_id, whatever happened.        *)
(***************************************************************************)
StopHeartbeat(r) ==
    /\ pc[r] = "stop" /\ ~hb[r].inFlight
    /\ hb' = [hb EXCEPT ![r].timer = FALSE, ![r].beat = 0]
    /\ Goes(r, "release")
    /\ UNCHANGED <<dbVars, runVars, envVars>>

ReleaseProjectRunLock_ByProject(r) ==
    /\ pc[r] = "release"
    /\ lock' = [lock EXCEPT ![req[r].project] = [owner |-> NoRun, expires |-> 0]]
    /\ Answers(r, "done")
    /\ UNCHANGED <<claim, task, history, execution, winner, runVars, envVars, hb>>

ReleaseProjectRunLock(r) ==
    LET p == req[r].project
    IN  /\ pc[r] = "release"
        /\ lock' = IF lock[p].owner = r
                   THEN [lock EXCEPT ![p] = [owner |-> NoRun, expires |-> 0]] ELSE lock
        /\ Answers(r, "done")
        /\ UNCHANGED <<claim, task, history, execution, winner, runVars, envVars, hb>>

(* A statement that fails before it takes effect.                          *)
StatementFails(r) ==
    /\ pc[r] \in Statements
    /\ Throws(r)
    /\ UNCHANGED <<dbVars, runVars, envVars, hb>>

(***************************************************************************)
(* The specification.                                                      *)
(***************************************************************************)
Advance(r) ==
    \/ Invoke(r) \/ AcquireProjectRunLock(r) \/ ClaimIdempotency(r)
    \/ ReclaimIdempotency(r) \/ HeartbeatStarted(r) \/ RejectCommand(r)
    \/ GetTaskLifecycleState(r) \/ BootstrapTaskState(r)
    \/ BeginTask(r) \/ LogBegin(r) \/ HealthCheck(r) \/ CodexCloses(r)
    \/ MoveToReconciling(r) \/ LogReconciling(r) \/ CollectOutcome(r)
    \/ SnapshotThrows(r) \/ PersistExecution(r) \/ CloseTask(r) \/ LogClose(r)
    \/ FinishRun(r) \/ SafeFailClaim(r) \/ ReadStateAfterFailure(r)
    \/ FailTask(r) \/ LogFailure(r) \/ StopHeartbeat(r)
    \/ ReleaseProjectRunLock(r) \/ StatementFails(r)

Renew(r) == RenewProjectRunLock(r) \/ RenewIdempotencyClaim(r) \/ RenewalFails(r)

Next ==
    \/ \E w \in Windows, t \in Tasks : PrepareTask(w, t)
    \/ \E w \in Windows : Crash(w)
    \/ \E r \in Runs : Advance(r) \/ Renew(r) \/ BeatFires(r) \/ UserAbort(r) \/ OrphanExit(r)
    \/ Tick

Spec == Init /\ [][Next]_vars

(* Where an invocation waits for a codex process, that of the health check *)
(* or that of the run.                                                     *)
AwaitsClose(r) == pc[r] \in {"health", "codex"}

(* Fairness: the event loop resumes an invocation whose await has ended,   *)
(* and Postgres answers.  No command is ever bound to be invoked, no clock *)
(* to advance, no codex process to close: timeout and SIGKILL end it, not  *)
(* a process it left behind that holds its pipes (CodexProcess).           *)
Progress(r) == pc[r] # "idle" /\ ~AwaitsClose(r) /\ Advance(r)

FairSpec == Spec /\ \A r \in Runs : WF_vars(Progress(r)) /\ WF_vars(Renew(r))

-----------------------------------------------------------------------------
(***************************************************************************)
(* Properties.                                                             *)
(***************************************************************************)
ClaimStatus == {"absent", "in_progress", "completed", "failed"}

Results == {"none", "no_draft", "busy", "replay_ok", "replay_error",
            "in_progress", "not_prepared", "ok", "error"}

(* The type of every variable.                                             *)
TypeOK ==
    /\ lock \in [Projects -> [owner : Runs \union {NoRun}, expires : Nat]]
    /\ claim \in [Keys -> [status : ClaimStatus, owner : Runs \union {NoRun}, lease : Nat]]
    /\ task \in [Tasks -> Lifecycle]
    /\ history \in SUBSET (Tasks \X Lifecycle)
    /\ execution \in [Runs -> Outcomes \union {"none"}]
    /\ winner \in [Tasks -> Runs \union {NoRun}]
    /\ draft \in [Windows -> Tasks \union {NoTask}]
    /\ now \in Nat /\ faults \in Nat /\ crashes \in Nat
    /\ pc \in [Runs -> Labels]
    /\ req \in [Runs -> Keys \union {NoKey}]
    /\ started \in [Runs -> BOOLEAN]
    /\ outcome \in [Runs -> Outcomes \union {"none"}]
    /\ result \in [Runs -> Results]
    /\ hb \in [Runs -> [timer : BOOLEAN, inFlight : BOOLEAN, renew : SUBSET Renewals,
                        refused : BOOLEAN, beat : Nat]]
    /\ lost \in [Runs -> BOOLEAN]
    /\ aborted \in [Runs -> BOOLEAN]
    /\ child \in [Runs -> BOOLEAN]

(* An invocation executed: it was seen to start, or it ran codex, or it    *)
(* left an execution row.                                                  *)
Executed(r) == started[r] \/ child[r] \/ execution[r] # "none"

(* A task is executed by at most one invocation, whatever leases expire,   *)
(* statements fail, windows die and keys differ between branches.          *)
OneRunPerTask ==
    \A r, q \in Runs :
        Executed(r) /\ Executed(q) /\ req[r].task = req[q].task => r = q

(* A task that closed with anything but "failed" has the execution row of  *)
(* the run that won it, and its state is the one of the recorded outcome.  *)
ClosedWithEvidence ==
    \A t \in Tasks :
        task[t] \in Final \ {"failed"} =>
            /\ winner[t] \in Runs
            /\ execution[winner[t]] \in Outcomes
            /\ FinalTaskState[execution[winner[t]]] = task[t]

(* A claim that replays success was completed by the run that closed the   *)
(* task, with a persisted execution of the outcome the task state tells.   *)
ReplayIsHonest ==
    \A k \in Keys :
        claim[k].status = "completed" =>
            /\ claim[k].owner = winner[k.task]
            /\ execution[winner[k.task]] \in OkOutcomes
            /\ task[k.task] = FinalTaskState[execution[winner[k.task]]]

(* An invocation that answered ok owns the completed claim of its key for  *)
(* good: every later retry replays that very answer.                       *)
OkIsReplayable ==
    \A r \in Runs :
        result[r] = "ok" =>
            claim[req[r]].status = "completed" /\ claim[req[r]].owner = r

(* Between the start of the task and its closing, an invocation that has   *)
(* not lost its leases is the only such one of its project.                *)
Writing(r) ==
    /\ pc[r] \in {"health", "codex", "moverecon", "reconlog", "collect",
                  "persist", "close", "closelog", "settle"}
    /\ ~lost[r]

ExclusiveWriter ==
    \A r, q \in Runs :
        Writing(r) /\ Writing(q) /\ req[r].project = req[q].project => r = q

(* A run lock changes hands only after its lease expired, or when its own  *)
(* owner is releasing it: not by the finally block of an invocation that   *)
(* was told the project is busy, nor by a renewal that comes too late.     *)
LeaseNotStolen ==
    [][\A p \in Projects :
          lock[p].owner \in Runs /\ lock'[p].owner # lock[p].owner =>
              lock[p].expires <= now \/ pc[lock[p].owner] = "release"]_vars

(* An invocation that saw its task start leaves, when it returns, the task *)
(* in a final state and no claim of its own in progress.                   *)
StartedRunSettles ==
    \A r \in Runs :
        pc[r] = "done" /\ started[r] =>
            /\ task[req[r].task] \in Final
            /\ ~(claim[req[r]].status = "in_progress" /\ claim[req[r]].owner = r)

(* ADR-EXECUTION-STATE-MACHINE: an exception that interrupts running or    *)
(* reconciling moves the task to failed.  Said of every task an invocation *)
(* that returned had moved to running.                                     *)
InterruptedTaskFails ==
    \A r \in Runs :
        pc[r] = "done" => \A t \in Tasks : winner[t] = r => task[t] \in Final

(* Every invocation returns, or its window dies, unless a codex process it *)
(* waits for never closes: no fault of a statement or of a renewal, and no *)
(* lost lease, leaves it waiting for anything else.                        *)
EveryRunReturns ==
    \A r \in Runs :
        \/ pc[r] = "acquire" ~> pc[r] \in Ended
        \/ <>[]AwaitsClose(r)

(***************************************************************************)
(* What the run plane promises of each task.                               *)
(***************************************************************************)
Ledger ==
    INSTANCE TaskLedger WITH
        owner <- winner,
        recorded <- [t \in Tasks |->
            IF winner[t] = NoRun THEN "none" ELSE execution[winner[t]]],
        verdict <- [t \in Tasks |->
            IF task[t] \in Final THEN task[t] ELSE "open"]

ImplementsLedger == Ledger!Spec

(***************************************************************************)
(* What it takes for granted of localPrepareTask, and what it promises of  *)
(* the tasks that are offered: it begins a task at most once, and only one *)
(* that the store of the window still shows or that an invocation took     *)
(* from there and has not given up.  PrepareTask implements the same       *)
(* TaskSource.                                                             *)
(***************************************************************************)
Holds(r, t) == pc[r] \notin {"idle"} \union Ended /\ req[r].task = t

Standing(t) ==
    IF task[t] = "absent" THEN "absent"
    ELSE IF task[t] # "prepared" THEN "taken"
    ELSE IF (\E w \in Windows : draft[w] = t) \/ (\E r \in Runs : Holds(r, t))
         THEN "offered" ELSE "lapsed"

Source ==
    INSTANCE TaskSource WITH shelf <- draft, state <- [t \in Tasks |-> Standing(t)]

ImplementsSource == Source!Spec
=============================================================================
