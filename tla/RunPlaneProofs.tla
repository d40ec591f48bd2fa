--------------------------- MODULE RunPlaneProofs ---------------------------
(***************************************************************************)
(* RunPlane keeps its inductive invariant IInv, for any sets of            *)
(* invocations, windows, tasks, projects and branches, any lease, and any  *)
(* number of faults and crashes; hence its safety properties, and that it  *)
(* implements TaskLedger and TaskSource.                                   *)
(*                                                                         *)
(* Every action is first reduced to what it does to the control state      *)
(* (Moves) and to the type of what it writes.  Most actions then fall      *)
(* under one of two lemmas: StepAside, for an invocation that moves to a   *)
(* control point about which the invariant says little, and SilentStep,    *)
(* for a step that moves no invocation.  The others, those that begin,     *)
(* execute, close or fail a task, are treated one by one.                  *)
(***************************************************************************)
EXTENDS RunPlaneInv, TLAPS

CtlType == pc' \in [Runs -> Labels] /\ result' \in [Runs -> Results] /\ faults' \in Nat

(* A step of invocation r alone: it goes to one of the given control       *)
(* points and does not turn into a success.                                *)
Moves(r, to) ==
    /\ CtlType
    /\ \A q \in Runs \ {r} : pc'[q] = pc[q] /\ result'[q] = result[q]
    /\ pc'[r] \in to
    /\ result'[r] = "ok" => result[r] = "ok"

(* The invariant without its type part.                                    *)
Rest ==
    /\ KeyInv /\ RequestInv /\ OutcomeInv /\ WinnerInv /\ OwnerInv
    /\ PhaseInv /\ EvidenceInv
    /\ ClosedWithEvidence /\ ReplayIsHonest /\ OkIsReplayable

Aside == Labels \ (Begun \union {"idle", "bootstrap"})

(* No completed claim appears or disappears.                               *)
ClaimsOpen ==
    \A k \in Keys :
        \/ claim'[k] = claim[k]
        \/ claim[k].status # "completed" /\ claim'[k].status # "completed"

LEMMA HandlerLabel ==
    ASSUME NEW r \in Runs, NEW s
    PROVE  /\ Handler(r, s) \in {"catchclaim", "catchstate", "done", "stop"}
           /\ s \in Guarded => Handler(r, s) = "catchclaim"
           /\ Handler(r, s) = "catchstate" => started[r]
  BY DEF Handler, Guarded

LEMMA FinalTaskStateType == \A o \in Outcomes : FinalTaskState[o] \in Final
  BY DEF FinalTaskState, Outcomes, Final

LEMMA RaisesMoves ==
    ASSUME TypeOK, NEW r \in Runs, Raises(r), UNCHANGED faults
    PROVE  Moves(r, {Handler(r, pc[r])})
  BY HandlerLabel DEF TypeOK, Raises, Labels, Statements, Ended, Results, Moves, CtlType

LEMMA ThrowsMoves ==
    ASSUME TypeOK, NEW r \in Runs, Throws(r)
    PROVE  Moves(r, {Handler(r, pc[r])})
  BY HandlerLabel DEF TypeOK, Throws, Raises, Labels, Statements, Ended, Results, Moves, CtlType

LEMMA ReturnsMoves ==
    ASSUME TypeOK, NEW r \in Runs, NEW n \in Labels, NEW x \in Results \ {"ok"}, Returns(r, n, x)
    PROVE  Moves(r, {n})
  BY DEF TypeOK, Returns, Moves, CtlType

LEMMA GoesMoves ==
    ASSUME TypeOK, NEW r \in Runs, NEW n \in Labels, Goes(r, n)
    PROVE  Moves(r, {n})
  BY DEF TypeOK, Goes, Returns, Moves, CtlType

LEMMA AnswersMoves ==
    ASSUME TypeOK, NEW r \in Runs, NEW n \in Labels, Answers(r, n)
    PROVE  Moves(r, {n, Handler(r, pc[r])})
  BY GoesMoves, ThrowsMoves DEF Answers, Moves

LEMMA AnswersResultMoves ==
    ASSUME TypeOK, NEW r \in Runs, NEW n \in Labels, NEW x \in Results \ {"ok"},
           AnswersResult(r, n, x)
    PROVE  Moves(r, {n, Handler(r, pc[r])})
  BY ReturnsMoves, ThrowsMoves DEF AnswersResult, Moves

LEMMA ReqType ==
    ASSUME IInv, NEW r \in Runs, pc[r] \notin {"idle", "done"} \/ hb[r].renew # {}
    PROVE  /\ req[r] \in Keys
           /\ req[r].project \in Projects /\ req[r].task \in Tasks /\ req[r].branch \in Branches
  BY DEF IInv, KeyInv, Keys

(* An invocation steps aside: no task, execution or draft changes.         *)
LEMMA StepAside ==
    ASSUME IInv, NEW r \in Runs, req[r] \in Keys, Moves(r, Aside),
           pc'[r] \in Recovering => started[r],
           \A q \in Runs \ {r} : hb'[q] = hb[q],
           UNCHANGED <<task, execution, winner, req, started, outcome, draft, child>>,
           ClaimsOpen
    PROVE  Rest'
  <1>a. KeyInv'
    BY DEF IInv, Moves, Aside, KeyInv, Executed
  <1>b. RequestInv'
    BY DEF IInv, Moves, Aside, RequestInv
  <1>c. (OutcomeInv /\ WinnerInv)'
    BY DEF IInv, Moves, Aside, OutcomeInv, WinnerInv, Judged, Begun
  <1>d. OwnerInv'
    BY DEF IInv, Moves, Aside, OwnerInv, Executed, Judged, Begun, Recovering
  <1>2. (PhaseInv /\ EvidenceInv)'
    BY DEF IInv, TypeOK, Moves, Aside, PhaseInv, PhaseOf, EvidenceInv, EvidenceOf, Persisted, Judged, Begun
  <1>3. ClosedWithEvidence'
    BY DEF IInv, ClosedWithEvidence
  <1>4. ReplayIsHonest'
    BY DEF IInv, ClaimsOpen, ReplayIsHonest
  <1>5. OkIsReplayable'
    <2>1. \A q \in Runs : result'[q] = "ok" => result[q] = "ok"
      BY DEF Moves
    <2>2. \A q \in Runs : result[q] = "ok" => req[q] \in Keys
      BY DEF IInv, KeyInv
    <2> QED BY <2>1, <2>2 DEF IInv, ClaimsOpen, OkIsReplayable
  <1> QED BY <1>a, <1>b, <1>c, <1>d, <1>2, <1>3, <1>4, <1>5 DEF Rest

(* A step that moves no invocation.                                        *)
LEMMA SilentStep ==
    ASSUME IInv,
           UNCHANGED <<pc, result, task, execution, winner, req, started, outcome, draft>>,
           \A q \in Runs : child'[q] => child[q],
           \A q \in Runs : hb'[q] # hb[q] => pc[q] # "idle" /\ req[q] \in Keys,
           ClaimsOpen
    PROVE  Rest'
  <1>1. (KeyInv /\ RequestInv /\ OutcomeInv /\ WinnerInv /\ OwnerInv)'
    BY DEF IInv, KeyInv, RequestInv, OutcomeInv, WinnerInv, OwnerInv, Executed
  <1>2. (PhaseInv /\ EvidenceInv /\ ClosedWithEvidence)'
    BY DEF IInv, PhaseInv, PhaseOf, EvidenceInv, EvidenceOf, ClosedWithEvidence
  <1>3. ReplayIsHonest'
    BY DEF IInv, ClaimsOpen, ReplayIsHonest
  <1>4. OkIsReplayable'
    BY DEF IInv, ClaimsOpen, OkIsReplayable, KeyInv
  <1> QED BY <1>1, <1>2, <1>3, <1>4 DEF Rest

-----------------------------------------------------------------------------
(* Before the task starts.                                                 *)

LEMMA InvokeKeeps == ASSUME IInv, NEW r \in Runs, Invoke(r) PROVE IInv'
  <1>1. TypeOK /\ pc[r] = "idle" /\ WindowOf[r] \in Windows
    BY ConstantsOK DEF IInv, Invoke, ConstantsOK
  <1>2. CASE draft[WindowOf[r]] = NoTask
    <2>1. Moves(r, {"done"}) /\ UNCHANGED <<req, hb, dbVars, started, outcome, lost, aborted, child, envVars>>
      <3>1. "done" \in Labels /\ "no_draft" \in Results \ {"ok"}
        BY DEF Labels, Ended, Results
      <3> QED BY <1>1, <1>2, <3>1, ReturnsMoves DEF Invoke
    <2>2. TypeOK'
      BY <1>1, <2>1 DEF TypeOK, Moves, CtlType, dbVars, envVars
    <2>3. (KeyInv /\ RequestInv /\ OutcomeInv /\ WinnerInv /\ OwnerInv)'
      BY <1>1, <2>1 DEF IInv, Moves, KeyInv, RequestInv, OutcomeInv, WinnerInv, OwnerInv,
                        Executed, Judged, Begun, Recovering, Idle, dbVars, envVars
    <2>4. (PhaseInv /\ EvidenceInv /\ ClosedWithEvidence /\ ReplayIsHonest /\ OkIsReplayable)'
      BY <1>1, <2>1 DEF IInv, Moves, PhaseInv, PhaseOf, EvidenceInv, EvidenceOf, Persisted, Judged, Begun, dbVars,
                        ClosedWithEvidence, ReplayIsHonest, OkIsReplayable
    <2> QED BY <2>2, <2>3, <2>4 DEF IInv
  <1>3. CASE draft[WindowOf[r]] # NoTask
    <2>1. PICK p \in Projects, b \in Branches :
            req' = [req EXCEPT ![r] = [project |-> p, task |-> draft[WindowOf[r]], branch |-> b]]
      BY <1>3 DEF Invoke
    <2>2. draft[WindowOf[r]] \in Tasks
      BY <1>1, <1>3 DEF TypeOK
    <2>3. /\ [project |-> p, task |-> draft[WindowOf[r]], branch |-> b] \in Keys
          /\ req' \in [Runs -> Keys \union {NoKey}] /\ req'[r] \in Keys
          /\ req'[r].task = draft[WindowOf[r]]
          /\ \A q \in Runs \ {r} : req'[q] = req[q]
      BY <1>1, <2>1, <2>2 DEF TypeOK, Keys
    <2>4. Moves(r, {"acquire"}) /\ UNCHANGED <<hb, dbVars, started, outcome, lost, aborted, child, envVars>>
      <3>1. "acquire" \in Labels
        BY DEF Labels, Statements
      <3> QED BY <1>1, <1>3, <3>1, GoesMoves DEF Invoke
    <2>5. TypeOK'
      BY <1>1, <2>3, <2>4 DEF TypeOK, Moves, CtlType, dbVars, envVars
    <2>6. ~Executed(r) /\ result[r] = "none" /\ result'[r] # "ok"
      <3>1. ~started[r] /\ result[r] = "none" /\ result'[r] # "ok"
        BY <1>1, <2>4 DEF IInv, KeyInv, Executed, Moves
      <3>2. ~Executed(r)
        BY <1>1 DEF IInv, KeyInv
      <3> QED BY <3>1, <3>2
    <2>7. (KeyInv /\ OutcomeInv /\ WinnerInv)'
      BY <1>1, <2>3, <2>4, <2>6 DEF IInv, Moves, KeyInv, Executed, OutcomeInv, WinnerInv, Judged, Idle, dbVars, envVars
    <2>8. RequestInv'
      BY <1>1, <1>3, <2>3, <2>4 DEF IInv, Moves, RequestInv, dbVars, envVars
    <2>9. (OwnerInv /\ PhaseInv /\ EvidenceInv)'
      BY <1>1, <2>3, <2>4, <2>6 DEF IInv, Moves, OwnerInv, PhaseInv, PhaseOf, EvidenceInv, EvidenceOf, Executed,
                        Judged, Begun, Recovering, Persisted, dbVars
    <2>10. (ClosedWithEvidence /\ ReplayIsHonest /\ OkIsReplayable)'
      BY <1>1, <2>3, <2>4, <2>6 DEF IInv, Moves, dbVars, ClosedWithEvidence, ReplayIsHonest, OkIsReplayable
    <2> QED BY <2>5, <2>7, <2>8, <2>9, <2>10 DEF IInv
  <1> QED BY <1>2, <1>3

LEMMA AcquireKeeps == ASSUME IInv, NEW r \in Runs, AcquireProjectRunLock(r) PROVE IInv'
  <1>1. TypeOK /\ pc[r] = "acquire" /\ req[r] \in Keys /\ req[r].project \in Projects
    BY ReqType DEF IInv, AcquireProjectRunLock
  <1>2. Moves(r, {"claim", "stop"})
    <2>1. {"claim", "stop"} \subseteq Labels /\ "busy" \in Results \ {"ok"}
      BY DEF Labels, Statements, Results
    <2>2. Handler(r, "acquire") = "stop"
      BY DEF Handler, Guarded
    <2> QED BY <1>1, <2>1, <2>2, AnswersMoves, ReturnsMoves DEF AcquireProjectRunLock, Moves
  <1>3. lock' \in [Projects -> [owner : Runs \union {NoRun}, expires : Nat]]
    <2>1. now + TTL \in Nat /\ lock \in [Projects -> [owner : Runs \union {NoRun}, expires : Nat]]
      BY <1>1, ConstantsOK DEF ConstantsOK, TypeOK
    <2> QED BY <1>1, <2>1 DEF AcquireProjectRunLock
  <1>4. UNCHANGED <<claim, task, history, execution, winner, runVars, envVars, hb>>
    BY DEF AcquireProjectRunLock
  <1>5. TypeOK'
    BY <1>1, <1>2, <1>3, <1>4 DEF Moves, CtlType, TypeOK, runVars, envVars
  <1>6. Rest'
    BY <1>1, <1>2, <1>4, StepAside DEF Moves, Aside, Labels, Statements, Begun, Judged, Recovering,
                                       ClaimsOpen, runVars, envVars
  <1> QED BY <1>5, <1>6 DEF Rest, IInv

(* What the statements that write a claim or the heartbeat leave behind.   *)
LEMMA HeldType ==
    ASSUME IInv, NEW r \in Runs, NEW k \in Keys, claim[k].status # "completed",
           claim' = [claim EXCEPT ![k] = Held(r)]
    PROVE  ClaimsOpen
           /\ claim' \in [Keys -> [status : ClaimStatus, owner : Runs \union {NoRun}, lease : Nat]]
  <1>1. Held(r) \in [status : ClaimStatus, owner : Runs \union {NoRun}, lease : Nat]
        /\ Held(r).status = "in_progress"
    BY ConstantsOK DEF ConstantsOK, IInv, TypeOK, Held, ClaimStatus
  <1> QED BY <1>1 DEF IInv, TypeOK, ClaimsOpen

LEMMA SettleType ==
    ASSUME IInv, NEW r \in Runs, req[r] \in Keys, SettleClaim(r, "failed")
    PROVE  ClaimsOpen
           /\ claim' \in [Keys -> [status : ClaimStatus, owner : Runs \union {NoRun}, lease : Nat]]
  <1>1. CASE HoldsClaim(r)
    <2> DEFINE row == [status |-> "failed", owner |-> r, lease |-> 0]
    <2>1. row \in [status : ClaimStatus, owner : Runs \union {NoRun}, lease : Nat]
          /\ row.status = "failed" /\ claim[req[r]].status = "in_progress"
      BY <1>1 DEF HoldsClaim, ClaimStatus
    <2>2. claim' = [claim EXCEPT ![req[r]] = row]
      BY <1>1 DEF SettleClaim
    <2> HIDE DEF row
    <2> QED BY <2>1, <2>2 DEF IInv, TypeOK, ClaimsOpen
  <1>2. CASE ~HoldsClaim(r)
    BY <1>2 DEF SettleClaim, IInv, TypeOK, ClaimsOpen
  <1> QED BY <1>1, <1>2

LEMMA SendBeatType ==
    ASSUME IInv, NEW r \in Runs, NEW timer \in BOOLEAN, SendBeat(r, timer)
    PROVE  /\ hb' \in [Runs -> [timer : BOOLEAN, inFlight : BOOLEAN, renew : SUBSET Renewals,
                                refused : BOOLEAN, beat : Nat]]
           /\ \A q \in Runs \ {r} : hb'[q] = hb[q]
  BY DEF IInv, TypeOK, SendBeat

LEMMA ClaimKeeps == ASSUME IInv, NEW r \in Runs, ClaimIdempotency(r) PROVE IInv'
  <1>1. TypeOK /\ pc[r] = "claim" /\ req[r] \in Keys
    BY ReqType DEF IInv, ClaimIdempotency
  <1>2. Moves(r, {"firstbeat", "reclaim", "stop"})
    <2>1. {"firstbeat", "reclaim", "stop"} \subseteq Labels
          /\ {"replay_ok", "replay_error"} \subseteq Results \ {"ok"}
      BY DEF Labels, Statements, Results
    <2>2. Handler(r, "claim") = "stop"
      BY DEF Handler, Guarded
    <2>3. CASE Goes(r, "firstbeat")
      BY <1>1, <2>1, <2>3, GoesMoves DEF Moves
    <2>4. CASE Goes(r, "reclaim")
      BY <1>1, <2>1, <2>4, GoesMoves DEF Moves
    <2>5. CASE Throws(r)
      BY <1>1, <2>2, <2>5, ThrowsMoves DEF Moves
    <2>6. CASE Returns(r, "stop", IF claim[req[r]].status = "completed"
                                  THEN "replay_ok" ELSE "replay_error")
      BY <1>1, <2>1, <2>6, ReturnsMoves DEF Moves
    <2> QED BY <2>3, <2>4, <2>5, <2>6 DEF ClaimIdempotency
  <1>3. ClaimsOpen
        /\ claim' \in [Keys -> [status : ClaimStatus, owner : Runs \union {NoRun}, lease : Nat]]
    <2>1. CASE claim[req[r]].status = "absent" /\ claim' = [claim EXCEPT ![req[r]] = Held(r)]
      BY <1>1, <2>1, HeldType
    <2>2. CASE claim' = claim
      BY <1>1, <2>2 DEF TypeOK, ClaimsOpen
    <2> QED BY <2>1, <2>2 DEF ClaimIdempotency
  <1>4. /\ hb' \in [Runs -> [timer : BOOLEAN, inFlight : BOOLEAN, renew : SUBSET Renewals,
                             refused : BOOLEAN, beat : Nat]]
        /\ \A q \in Runs \ {r} : hb'[q] = hb[q]
    <2>1. SendBeat(r, FALSE) \/ hb' = hb
      BY DEF ClaimIdempotency
    <2> QED BY <1>1, <2>1, SendBeatType DEF TypeOK
  <1>5. UNCHANGED <<lock, task, history, execution, winner, runVars, envVars>>
    BY DEF ClaimIdempotency
  <1>6. TypeOK'
    BY <1>1, <1>2, <1>3, <1>4, <1>5 DEF Moves, CtlType, TypeOK, runVars, envVars
  <1>7. Rest'
    BY <1>1, <1>2, <1>3, <1>4, <1>5, StepAside
    DEF Moves, Aside, Labels, Statements, Begun, Judged, Recovering, runVars, envVars
  <1> QED BY <1>6, <1>7 DEF Rest, IInv

LEMMA ReclaimKeeps == ASSUME IInv, NEW r \in Runs, ReclaimIdempotency(r) PROVE IInv'
  <1>1. TypeOK /\ pc[r] = "reclaim" /\ req[r] \in Keys
    BY ReqType DEF IInv, ReclaimIdempotency
  <1>2. Moves(r, {"firstbeat", "stop"})
    <2>1. {"firstbeat", "stop"} \subseteq Labels /\ "in_progress" \in Results \ {"ok"}
      BY DEF Labels, Statements, Results
    <2>2. Handler(r, "reclaim") = "stop"
      BY DEF Handler, Guarded
    <2>3. CASE Goes(r, "firstbeat")
      BY <1>1, <2>1, <2>3, GoesMoves DEF Moves
    <2>4. CASE Throws(r)
      BY <1>1, <2>2, <2>4, ThrowsMoves DEF Moves
    <2>5. CASE Returns(r, "stop", "in_progress")
      BY <1>1, <2>1, <2>5, ReturnsMoves DEF Moves
    <2> QED BY <2>3, <2>4, <2>5 DEF ReclaimIdempotency
  <1>3. ClaimsOpen
        /\ claim' \in [Keys -> [status : ClaimStatus, owner : Runs \union {NoRun}, lease : Nat]]
    <2>1. CASE claim[req[r]].status = "in_progress" /\ claim' = [claim EXCEPT ![req[r]] = Held(r)]
      BY <1>1, <2>1, HeldType
    <2>2. CASE claim' = claim
      BY <1>1, <2>2 DEF TypeOK, ClaimsOpen
    <2> QED BY <2>1, <2>2 DEF ReclaimIdempotency
  <1>4. /\ hb' \in [Runs -> [timer : BOOLEAN, inFlight : BOOLEAN, renew : SUBSET Renewals,
                             refused : BOOLEAN, beat : Nat]]
        /\ \A q \in Runs \ {r} : hb'[q] = hb[q]
    <2>1. SendBeat(r, FALSE) \/ hb' = hb
      BY DEF ReclaimIdempotency
    <2> QED BY <1>1, <2>1, SendBeatType DEF TypeOK
  <1>5. UNCHANGED <<lock, task, history, execution, winner, runVars, envVars>>
    BY DEF ReclaimIdempotency
  <1>6. TypeOK'
    BY <1>1, <1>2, <1>3, <1>4, <1>5 DEF Moves, CtlType, TypeOK, runVars, envVars
  <1>7. Rest'
    BY <1>1, <1>2, <1>3, <1>4, <1>5, StepAside
    DEF Moves, Aside, Labels, Statements, Ended, Begun, Judged, Recovering, runVars, envVars
  <1> QED BY <1>6, <1>7 DEF Rest, IInv

LEMMA HeartbeatStartedKeeps == ASSUME IInv, NEW r \in Runs, HeartbeatStarted(r) PROVE IInv'
  <1>1. TypeOK /\ pc[r] = "firstbeat" /\ req[r] \in Keys
    BY ReqType DEF IInv, HeartbeatStarted
  <1>2. Moves(r, {"getstate", "failclaim"})
    <2>1. {"getstate", "failclaim"} \subseteq Labels
      BY DEF Labels, Statements
    <2> QED BY <1>1, <2>1, GoesMoves DEF HeartbeatStarted, Moves
  <1>3. /\ hb' \in [Runs -> [timer : BOOLEAN, inFlight : BOOLEAN, renew : SUBSET Renewals,
                             refused : BOOLEAN, beat : Nat]]
        /\ \A q \in Runs \ {r} : hb'[q] = hb[q]
    <2>1. PICK b \in BOOLEAN : hb' = [hb EXCEPT ![r].timer = b]
      BY <1>1 DEF TypeOK, HeartbeatStarted
    <2>2. PICK h : h = [hb[r] EXCEPT !.timer = b]
      OBVIOUS
    <2>3. hb \in [Runs -> [timer : BOOLEAN, inFlight : BOOLEAN, renew : SUBSET Renewals,
                          refused : BOOLEAN, beat : Nat]]
      BY <1>1 DEF TypeOK
    <2>4. h \in [timer : BOOLEAN, inFlight : BOOLEAN, renew : SUBSET Renewals,
                 refused : BOOLEAN, beat : Nat]
      BY <2>2, <2>3
    <2>5. hb' = [hb EXCEPT ![r] = h]
      BY <2>1, <2>2
    <2> QED BY <2>3, <2>4, <2>5
  <1>4. UNCHANGED <<dbVars, runVars, envVars>>
    BY DEF HeartbeatStarted
  <1>5. TypeOK'
    BY <1>1, <1>2, <1>3, <1>4 DEF Moves, CtlType, TypeOK, dbVars, runVars, envVars
  <1>6. Rest'
    BY <1>1, <1>2, <1>3, <1>4, StepAside
    DEF Moves, Aside, Labels, Statements, Begun, Judged, Recovering, ClaimsOpen, dbVars, runVars, envVars
  <1> QED BY <1>5, <1>6 DEF Rest, IInv

LEMMA RejectKeeps == ASSUME IInv, NEW r \in Runs, RejectCommand(r) PROVE IInv'
  <1>1. TypeOK /\ pc[r] = "failclaim" /\ req[r] \in Keys
    BY ReqType DEF IInv, RejectCommand
  <1>2. Moves(r, {"stop", "catchclaim"})
    <2>1. "stop" \in Labels /\ "error" \in Results \ {"ok"}
      BY DEF Labels, Results
    <2>2. Handler(r, "failclaim") = "catchclaim"
      BY DEF Handler, Guarded
    <2> QED BY <1>1, <2>1, <2>2, AnswersResultMoves DEF RejectCommand, Moves
  <1>3. ClaimsOpen
        /\ claim' \in [Keys -> [status : ClaimStatus, owner : Runs \union {NoRun}, lease : Nat]]
    BY <1>1, SettleType DEF RejectCommand
  <1>4. UNCHANGED <<lock, task, history, execution, winner, runVars, envVars, hb>>
    BY DEF RejectCommand
  <1>5. TypeOK'
    BY <1>1, <1>2, <1>3, <1>4 DEF Moves, CtlType, TypeOK, runVars, envVars
  <1>6. Rest'
    BY <1>1, <1>2, <1>3, <1>4, StepAside
    DEF Moves, Aside, Labels, Statements, Begun, Judged, Recovering, runVars, envVars
  <1> QED BY <1>5, <1>6 DEF Rest, IInv

LEMMA GetStateKeeps == ASSUME IInv, NEW r \in Runs, GetTaskLifecycleState(r) PROVE IInv'
  <1>1. TypeOK /\ pc[r] = "getstate" /\ req[r] \in Keys /\ req[r].task \in Tasks
    BY ReqType DEF IInv, GetTaskLifecycleState
  <1>2. UNCHANGED <<dbVars, runVars, envVars, hb>>
    BY DEF GetTaskLifecycleState
  <1>3. {"bootstrap", "stop", "begin"} \subseteq Labels /\ "not_prepared" \in Results \ {"ok"}
    BY DEF Labels, Statements, Results
  <1>4. CASE Moves(r, {"stop", "begin"})
    <2>1. TypeOK'
      BY <1>1, <1>2, <1>4 DEF Moves, CtlType, TypeOK, dbVars, runVars, envVars
    <2>2. Rest'
      BY <1>1, <1>2, <1>4, StepAside
      DEF Moves, Aside, Labels, Statements, Begun, Judged, Recovering, ClaimsOpen, dbVars, runVars, envVars
    <2> QED BY <2>1, <2>2 DEF Rest, IInv
  <1>5. CASE ~RowExists(r) /\ Moves(r, {"bootstrap"})
    <2>1. TypeOK'
      BY <1>1, <1>2, <1>5 DEF Moves, CtlType, TypeOK, dbVars, runVars, envVars
    <2>2. HomeOf[req[r].task] # req[r].project
      BY <1>1, <1>5 DEF IInv, RequestInv, RowExists
    <2>3. (KeyInv /\ RequestInv /\ OutcomeInv /\ WinnerInv)'
      BY <1>1, <1>2, <1>5, <2>2 DEF IInv, Moves, KeyInv, Executed, RequestInv, OutcomeInv,
                                    WinnerInv, Judged, dbVars, runVars, envVars
    <2>4. (OwnerInv /\ PhaseInv /\ EvidenceInv)'
      BY <1>1, <1>2, <1>5 DEF IInv, Moves, Executed, OwnerInv, PhaseInv, PhaseOf, EvidenceInv,
                              EvidenceOf, Begun, Judged, Persisted, Recovering, dbVars, runVars
    <2>5. (ClosedWithEvidence /\ ReplayIsHonest /\ OkIsReplayable)'
      BY <1>1, <1>2, <1>5 DEF IInv, Moves, ClosedWithEvidence, ReplayIsHonest, OkIsReplayable,
                              dbVars, runVars
    <2> QED BY <2>1, <2>3, <2>4, <2>5 DEF IInv
  <1>6. CASE ~RowExists(r) /\ Goes(r, "bootstrap")
    BY <1>1, <1>3, <1>5, <1>6, GoesMoves
  <1>7. CASE Returns(r, "stop", "not_prepared")
    <2>1. Moves(r, {"stop"})
      BY <1>1, <1>3, <1>7, ReturnsMoves
    <2> QED BY <1>4, <2>1 DEF Moves
  <1>8. CASE Goes(r, "begin")
    <2>1. Moves(r, {"begin"})
      BY <1>1, <1>3, <1>8, GoesMoves
    <2> QED BY <1>4, <2>1 DEF Moves
  <1> QED BY <1>6, <1>7, <1>8 DEF GetTaskLifecycleState

(* An invocation goes to its handler, or to a given control point aside,   *)
(* and the step changes at most the lock, the history and the heartbeat.   *)
LEMMA StepAsideKeeps ==
    ASSUME IInv, NEW r \in Runs, pc[r] \notin {"idle", "done"},
           NEW to \in SUBSET (Aside \ Recovering),
           Moves(r, to \union {Handler(r, pc[r])}) \/ (started[r] /\ Moves(r, Aside)),
           lock' \in [Projects -> [owner : Runs \union {NoRun}, expires : Nat]],
           history' \in SUBSET (Tasks \X Lifecycle),
           hb' \in [Runs -> [timer : BOOLEAN, inFlight : BOOLEAN, renew : SUBSET Renewals,
                             refused : BOOLEAN, beat : Nat]],
           \A q \in Runs \ {r} : hb'[q] = hb[q],
           UNCHANGED <<claim, task, execution, winner, runVars, envVars>>
    PROVE  IInv'
  <1>1. TypeOK /\ req[r] \in Keys
    BY ReqType DEF IInv
  <1>2. Moves(r, Aside) /\ (pc'[r] \in Recovering => started[r])
    <2>1. Handler(r, pc[r]) \in Aside /\ (Handler(r, pc[r]) \in Recovering => started[r])
      BY HandlerLabel DEF Aside, Labels, Statements, Ended, Begun, Judged, Recovering
    <2> QED BY <2>1 DEF Moves
  <1>3. TypeOK'
    BY <1>1, <1>2 DEF Moves, CtlType, TypeOK, runVars, envVars
  <1>4. Rest'
    BY <1>1, <1>2, StepAside DEF ClaimsOpen, runVars, envVars
  <1> QED BY <1>3, <1>4 DEF Rest, IInv

LEMMA BootstrapKeeps == ASSUME IInv, NEW r \in Runs, BootstrapTaskState(r) PROVE IInv'
  <1>1. TypeOK /\ pc[r] = "bootstrap" /\ ~RowExists(r)
    BY DEF IInv, RequestInv, RowExists, BootstrapTaskState
  <1>2. Raises(r) /\ UNCHANGED <<faults, dbVars, runVars, envVars, hb>>
    BY <1>1 DEF BootstrapTaskState, dbVars
  <1>3. Moves(r, {Handler(r, pc[r])})
    BY <1>1, <1>2, RaisesMoves
  <1>4. Moves(r, {} \union {Handler(r, pc[r])})
    BY <1>3 DEF Moves
  <1>5. {} \in SUBSET (Aside \ Recovering)
    OBVIOUS
  <1> QED BY <1>1, <1>2, <1>4, <1>5, StepAsideKeeps DEF dbVars, TypeOK

LEMMA StatementFailsKeeps == ASSUME IInv, NEW r \in Runs, StatementFails(r) PROVE IInv'
  <1>1. TypeOK /\ pc[r] \notin {"idle", "done"}
    BY DEF IInv, StatementFails, Statements
  <1>2. Throws(r) /\ UNCHANGED <<dbVars, runVars, envVars, hb>>
    BY DEF StatementFails
  <1>3. Moves(r, {} \union {Handler(r, pc[r])})
    BY <1>1, <1>2, ThrowsMoves DEF Moves
  <1>4. {} \in SUBSET (Aside \ Recovering)
    OBVIOUS
  <1> QED BY <1>1, <1>2, <1>3, <1>4, StepAsideKeeps DEF dbVars, TypeOK

LEMMA SnapshotThrowsKeeps == ASSUME IInv, NEW r \in Runs, SnapshotThrows(r) PROVE IInv'
  <1>1. TypeOK /\ pc[r] \notin {"idle", "done"}
    BY DEF IInv, SnapshotThrows
  <1>2. Raises(r) /\ UNCHANGED <<faults, dbVars, runVars, envVars, hb>>
    BY DEF SnapshotThrows
  <1>3. Moves(r, {} \union {Handler(r, pc[r])})
    BY <1>1, <1>2, RaisesMoves DEF Moves
  <1>4. {} \in SUBSET (Aside \ Recovering)
    OBVIOUS
  <1> QED BY <1>1, <1>2, <1>3, <1>4, StepAsideKeeps DEF dbVars, TypeOK

LEMMA ReadStateKeeps == ASSUME IInv, NEW r \in Runs, ReadStateAfterFailure(r) PROVE IInv'
  <1>1. TypeOK /\ pc[r] = "catchstate" /\ started[r]
    BY DEF IInv, OwnerInv, Recovering, ReadStateAfterFailure
  <1>2. UNCHANGED <<dbVars, runVars, envVars, hb>>
    BY DEF ReadStateAfterFailure
  <1>3. Moves(r, Aside)
    <2>1. PICK n \in {"catchrunning", "catchrecon", "stop"} : Goes(r, n)
      BY DEF ReadStateAfterFailure
    <2>2. n \in Labels /\ n \in Aside
      BY DEF Labels, Statements, Aside, Begun, Judged
    <2>3. Moves(r, {n})
      BY <1>1, <2>1, <2>2, GoesMoves
    <2> QED BY <2>2, <2>3 DEF Moves
  <1>4. {} \in SUBSET (Aside \ Recovering)
    OBVIOUS
  <1> QED BY <1>1, <1>2, <1>3, <1>4, StepAsideKeeps DEF dbVars, TypeOK

LEMMA LogFailureKeeps == ASSUME IInv, NEW r \in Runs, LogFailure(r) PROVE IInv'
  <1>1. TypeOK /\ pc[r] = "catchlog" /\ req[r].task \in Tasks
    BY ReqType DEF IInv, LogFailure, LogTransition
  <1>2. history' = history \union {<<req[r].task, "failed">>}
        /\ UNCHANGED <<lock, claim, task, execution, winner, runVars, envVars, hb>>
    BY DEF LogFailure, LogTransition, runVars
  <1>3. history' \in SUBSET (Tasks \X Lifecycle)
    BY <1>1, <1>2 DEF TypeOK, Lifecycle, Final
  <1>4. Moves(r, {"stop"} \union {Handler(r, pc[r])})
    <2>1. "stop" \in Labels
      BY DEF Labels
    <2> QED BY <1>1, <2>1, AnswersMoves DEF LogFailure, LogTransition, Moves
  <1>5. {"stop"} \in SUBSET (Aside \ Recovering)
    BY DEF Aside, Labels, Begun, Judged, Recovering
  <1> QED BY <1>1, <1>2, <1>3, <1>4, <1>5, StepAsideKeeps DEF TypeOK

LEMMA StopKeeps == ASSUME IInv, NEW r \in Runs, StopHeartbeat(r) PROVE IInv'
  <1>1. TypeOK /\ pc[r] = "stop"
    BY DEF IInv, StopHeartbeat
  <1>2. UNCHANGED <<dbVars, runVars, envVars>>
    BY DEF StopHeartbeat
  <1>3. Moves(r, {"release"} \union {Handler(r, pc[r])})
    <2>1. "release" \in Labels
      BY DEF Labels, Statements
    <2> QED BY <1>1, <2>1, GoesMoves DEF StopHeartbeat, Moves
  <1>4. {"release"} \in SUBSET (Aside \ Recovering)
    BY DEF Aside, Labels, Statements, Begun, Judged, Recovering
  <1>5. /\ hb' \in [Runs -> [timer : BOOLEAN, inFlight : BOOLEAN, renew : SUBSET Renewals,
                             refused : BOOLEAN, beat : Nat]]
        /\ \A q \in Runs \ {r} : hb'[q] = hb[q]
    <2>1. PICK h : h = [hb[r] EXCEPT !.timer = FALSE, !.beat = 0]
      OBVIOUS
    <2>2. hb \in [Runs -> [timer : BOOLEAN, inFlight : BOOLEAN, renew : SUBSET Renewals,
                          refused : BOOLEAN, beat : Nat]]
      BY <1>1 DEF TypeOK
    <2>3. h \in [timer : BOOLEAN, inFlight : BOOLEAN, renew : SUBSET Renewals,
                 refused : BOOLEAN, beat : Nat]
      BY <2>1, <2>2
    <2>4. hb' = [hb EXCEPT ![r] = h]
      BY <2>1 DEF StopHeartbeat
    <2> QED BY <2>2, <2>3, <2>4
  <1> QED BY <1>1, <1>2, <1>3, <1>4, <1>5, StepAsideKeeps DEF dbVars, TypeOK

LEMMA ReleaseKeeps == ASSUME IInv, NEW r \in Runs, ReleaseProjectRunLock(r) PROVE IInv'
  <1>1. TypeOK /\ pc[r] = "release" /\ req[r].project \in Projects
    BY ReqType DEF IInv, ReleaseProjectRunLock
  <1>2. UNCHANGED <<claim, task, history, execution, winner, runVars, envVars, hb>>
    BY DEF ReleaseProjectRunLock
  <1>3. Moves(r, {"done"} \union {Handler(r, pc[r])})
    <2>1. "done" \in Labels
      BY DEF Labels, Ended
    <2> QED BY <1>1, <2>1, AnswersMoves DEF ReleaseProjectRunLock, Moves
  <1>4. {"done"} \in SUBSET (Aside \ Recovering)
    BY DEF Aside, Labels, Ended, Begun, Judged, Recovering
  <1>5. lock' \in [Projects -> [owner : Runs \union {NoRun}, expires : Nat]]
    BY <1>1 DEF TypeOK, ReleaseProjectRunLock
  <1> QED BY <1>1, <1>2, <1>3, <1>4, <1>5, StepAsideKeeps DEF TypeOK

LEMMA SafeFailClaimKeeps == ASSUME IInv, NEW r \in Runs, SafeFailClaim(r) PROVE IInv'
  <1>1. TypeOK /\ pc[r] = "catchclaim" /\ req[r] \in Keys
    BY ReqType DEF IInv, SafeFailClaim
  <1>2. Moves(r, {"catchstate", "stop"}) /\ (pc'[r] \in Recovering => started[r])
    <2>1. {"catchstate", "stop"} \subseteq Labels
      BY DEF Labels, Statements
    <2>2. Handler(r, "catchclaim") = IF started[r] THEN "catchstate" ELSE "stop"
      BY DEF Handler, Guarded
    <2>3. Moves(r, {IF started[r] THEN "catchstate" ELSE "stop"})
      BY <1>1, <2>1, <2>2, AnswersMoves DEF SafeFailClaim, Moves
    <2> QED BY <2>3 DEF Moves, Recovering
  <1>3. ClaimsOpen
        /\ claim' \in [Keys -> [status : ClaimStatus, owner : Runs \union {NoRun}, lease : Nat]]
    BY <1>1, SettleType DEF SafeFailClaim
  <1>4. UNCHANGED <<lock, task, history, execution, winner, runVars, envVars, hb>>
    BY DEF SafeFailClaim
  <1>5. TypeOK'
    BY <1>1, <1>2, <1>3, <1>4 DEF Moves, CtlType, TypeOK, runVars, envVars
  <1>6. Rest'
    BY <1>1, <1>2, <1>3, <1>4, StepAside
    DEF Moves, Aside, Labels, Statements, Begun, Judged, runVars, envVars
  <1> QED BY <1>5, <1>6 DEF Rest, IInv

-----------------------------------------------------------------------------
(* Steps of the invocation that has the task.                              *)

Later == Labels \ {"idle", "bootstrap"}

(* A step between two control points that leaves task and execution alone. *)
LEMMA StepOn ==
    ASSUME IInv, NEW r \in Runs, pc[r] \in Begun, Moves(r, Later),
           UNCHANGED <<claim, task, execution, winner, req, draft, hb>>,
           \A q \in Runs \ {r} : started'[q] = started[q] /\ outcome'[q] = outcome[q]
                                 /\ child'[q] = child[q],
           pc'[r] \in Judged => outcome'[r] \in Outcomes,
           pc'[r] \in Recovering => started'[r],
           PhaseOf(r)', EvidenceOf(r)'
    PROVE  Rest'
  <1>1. req[r] \in Keys /\ winner[req[r].task] = r
    BY DEF IInv, OwnerInv
  <1>2. (KeyInv /\ RequestInv /\ OutcomeInv /\ WinnerInv)'
    BY <1>1 DEF IInv, Moves, Later, KeyInv, Executed, RequestInv, OutcomeInv, WinnerInv
  <1>3. OwnerInv'
    BY <1>1 DEF IInv, Moves, OwnerInv, Executed
  <1>4. (PhaseInv /\ EvidenceInv)'
    BY DEF IInv, Moves, PhaseInv, PhaseOf, EvidenceInv, EvidenceOf
  <1>5. (ClosedWithEvidence /\ ReplayIsHonest /\ OkIsReplayable)'
    BY DEF IInv, Moves, ClosedWithEvidence, ReplayIsHonest, OkIsReplayable
  <1> QED BY <1>2, <1>3, <1>4, <1>5 DEF Rest

(* A step that moves the task of the invocation.                           *)
LEMMA StepMovesTask ==
    ASSUME IInv, NEW r \in Runs, NEW to \in {"reconciling"} \union Final,
           req[r] \in Keys, winner[req[r].task] = r,
           task[req[r].task] \in {"running", "reconciling"},
           pc[r] \notin {"idle", "done"}, Moves(r, Later),
           task' = [task EXCEPT ![req[r].task] = to],
           UNCHANGED <<claim, execution, winner, req, started, outcome, child, draft, hb>>,
           pc'[r] \in Judged => outcome[r] \in Outcomes,
           pc'[r] \in Recovering => started[r],
           PhaseOf(r)', EvidenceOf(r)',
           to \in Final \ {"failed"} =>
               execution[r] \in Outcomes /\ FinalTaskState[execution[r]] = to
    PROVE  Rest'
  <1>1. /\ req[r].task \in Tasks /\ task'[req[r].task] = to
        /\ \A t \in Tasks \ {req[r].task} : task'[t] = task[t]
    BY DEF IInv, TypeOK, Keys
  <1>2. to \notin {"absent", "prepared"} /\ \A q \in Runs : req[q] \in Keys => req[q].task \in Tasks
    BY DEF Final, Keys
  <1>3. (KeyInv /\ OutcomeInv /\ WinnerInv)'
    BY <1>1, <1>2 DEF IInv, Moves, Later, KeyInv, Executed, OutcomeInv, WinnerInv
  <1>4. RequestInv'
    BY <1>1, <1>2 DEF IInv, TypeOK, Moves, Later, RequestInv
  <1>5. OwnerInv'
    BY DEF IInv, Moves, OwnerInv, Executed
  <1>6. PhaseInv'
    <2>1. \A q \in Runs \ {r} : pc[q] \in Begun => req[q] \in Keys /\ winner[req[q].task] = q
      BY DEF IInv, OwnerInv
    <2>2. \A q \in Runs \ {r} : pc[q] \in Begun => req[q].task # req[r].task
      BY <2>1
    <2>3. \A q \in Runs \ {r} : PhaseOf(q)'
      BY <1>1, <1>2, <2>1, <2>2 DEF IInv, Moves, PhaseInv, PhaseOf, Begun, Judged
    <2> QED BY <2>3 DEF PhaseInv
  <1>7. EvidenceInv'
    BY DEF IInv, Moves, EvidenceInv, EvidenceOf
  <1>8. ClosedWithEvidence'
    BY <1>1 DEF IInv, ClosedWithEvidence
  <1>9. ReplayIsHonest'
    <2>1. \A o \in Outcomes : FinalTaskState[o] \notin {"running", "reconciling"}
      BY FinalTaskStateType DEF Final
    <2>2. \A k \in Keys : claim[k].status = "completed" => k.task # req[r].task
      BY <2>1 DEF IInv, ReplayIsHonest, OkOutcomes, Outcomes
    <2>3. \A k \in Keys : k.task \in Tasks
      BY DEF Keys
    <2> QED BY <1>1, <2>2, <2>3 DEF IInv, ReplayIsHonest
  <1>10. OkIsReplayable'
    BY DEF IInv, Moves, OkIsReplayable
  <1> QED BY <1>3, <1>4, <1>5, <1>6, <1>7, <1>8, <1>9, <1>10 DEF Rest

(* A compare-and-set that does not match, or matches and loses its reply.  *)
LEMMA NoMatchKeeps ==
    ASSUME IInv, NEW r \in Runs, pc[r] \notin {"idle", "done"},
           Raises(r), UNCHANGED <<faults, dbVars, runVars, envVars, hb>>
    PROVE  IInv'
  <1>1. Moves(r, {} \union {Handler(r, pc[r])})
    BY RaisesMoves DEF IInv, Moves
  <1>2. {} \in SUBSET (Aside \ Recovering)
    OBVIOUS
  <1> QED BY <1>1, <1>2, StepAsideKeeps DEF IInv, TypeOK, dbVars

LEMMA LogBeginKeeps == ASSUME IInv, NEW r \in Runs, LogBegin(r) PROVE IInv'
  <1>1. /\ TypeOK /\ pc[r] = "beginlog" /\ req[r] \in Keys /\ req[r].task \in Tasks
        /\ "health" \in Labels /\ Handler(r, pc[r]) = "catchclaim"
    BY ReqType, HandlerLabel DEF IInv, LogBegin, LogTransition, Labels, Guarded
  <1>2. history' = history \union {<<req[r].task, "running">>}
        /\ UNCHANGED <<lock, claim, task, execution, winner, req, outcome, lost, aborted, child, envVars, hb>>
    BY DEF LogBegin, LogTransition
  <1>3. Moves(r, {"health", "catchclaim"})
    BY <1>1, AnswersMoves DEF LogBegin, LogTransition, Moves
  <1>4. started' \in [Runs -> BOOLEAN] /\ \A q \in Runs \ {r} : started'[q] = started[q]
    BY <1>1 DEF TypeOK, LogBegin
  <1>5. history' \in SUBSET (Tasks \X Lifecycle)
    BY <1>1, <1>2 DEF TypeOK, Lifecycle
  <1>6. TypeOK'
    BY <1>1, <1>2, <1>3, <1>4, <1>5 DEF Moves, CtlType, TypeOK, envVars
  <1>7. PhaseOf(r)' /\ EvidenceOf(r)'
    BY <1>1, <1>2, <1>3 DEF IInv, Moves, PhaseInv, PhaseOf, EvidenceInv, EvidenceOf,
                            Begun, Judged, Persisted
  <1>8. Moves(r, Later) /\ pc[r] \in Begun /\ pc'[r] \notin Judged /\ pc'[r] \notin Recovering
    BY <1>1, <1>3 DEF Moves, Later, Labels, Statements, Begun, Judged, Recovering
  <1>9. Rest'
    BY <1>1, <1>2, <1>4, <1>7, <1>8, StepOn DEF envVars
  <1> QED BY <1>6, <1>9 DEF Rest, IInv

LEMMA LogReconcilingKeeps == ASSUME IInv, NEW r \in Runs, LogReconciling(r) PROVE IInv'
  <1>1. /\ TypeOK /\ pc[r] = "reconlog" /\ req[r] \in Keys /\ req[r].task \in Tasks
        /\ "collect" \in Labels /\ Handler(r, pc[r]) = "catchclaim" /\ outcome[r] \in Outcomes
    BY ReqType, HandlerLabel DEF IInv, OutcomeInv, Judged, LogReconciling, LogTransition, Labels, Guarded
  <1>2. history' = history \union {<<req[r].task, "reconciling">>}
        /\ UNCHANGED <<lock, claim, task, execution, winner, runVars, envVars, hb>>
    BY DEF LogReconciling, LogTransition, runVars
  <1>3. Moves(r, {"collect", "catchclaim"})
    BY <1>1, AnswersMoves DEF LogReconciling, LogTransition, Moves
  <1>4. history' \in SUBSET (Tasks \X Lifecycle)
    BY <1>1, <1>2 DEF TypeOK, Lifecycle
  <1>5. TypeOK'
    BY <1>1, <1>2, <1>3, <1>4 DEF Moves, CtlType, TypeOK, runVars, envVars
  <1>6. PhaseOf(r)' /\ EvidenceOf(r)'
    BY <1>1, <1>2, <1>3 DEF IInv, Moves, PhaseInv, PhaseOf, EvidenceInv, EvidenceOf,
                            Begun, Judged, Persisted, runVars
  <1>7. Moves(r, Later) /\ pc[r] \in Begun /\ pc'[r] \notin Recovering
    BY <1>1, <1>3 DEF Moves, Later, Labels, Statements, Begun, Judged, Recovering
  <1>8. Rest'
    BY <1>1, <1>2, <1>6, <1>7, StepOn DEF runVars, envVars
  <1> QED BY <1>5, <1>8 DEF Rest, IInv

LEMMA LogCloseKeeps == ASSUME IInv, NEW r \in Runs, LogClose(r) PROVE IInv'
  <1>1. /\ TypeOK /\ pc[r] = "closelog" /\ req[r] \in Keys /\ req[r].task \in Tasks
        /\ "settle" \in Labels /\ Handler(r, pc[r]) = "catchclaim" /\ outcome[r] \in Outcomes
    BY ReqType, HandlerLabel DEF IInv, OutcomeInv, Judged, LogClose, Labels, Statements, Guarded
  <1>2. history' = history \union {<<req[r].task, FinalTaskState[outcome[r]]>>}
        /\ UNCHANGED <<lock, claim, task, execution, winner, runVars, envVars, hb>>
    BY DEF LogClose, LogTransition, runVars
  <1>3. Moves(r, {"settle", "catchclaim"})
    BY <1>1, AnswersMoves DEF LogClose, LogTransition, Moves
  <1>4. history' \in SUBSET (Tasks \X Lifecycle)
    BY <1>1, <1>2, FinalTaskStateType DEF TypeOK, Lifecycle
  <1>5. TypeOK'
    BY <1>1, <1>2, <1>3, <1>4 DEF Moves, CtlType, TypeOK, runVars, envVars
  <1>6. PhaseOf(r)' /\ EvidenceOf(r)'
    BY <1>1, <1>2, <1>3 DEF IInv, Moves, PhaseInv, PhaseOf, EvidenceInv, EvidenceOf,
                            Begun, Judged, Persisted, runVars
  <1>7. Moves(r, Later) /\ pc[r] \in Begun /\ pc'[r] \notin Recovering
    BY <1>1, <1>3 DEF Moves, Later, Labels, Statements, Begun, Judged, Recovering
  <1>8. Rest'
    BY <1>1, <1>2, <1>6, <1>7, StepOn DEF runVars, envVars
  <1> QED BY <1>5, <1>8 DEF Rest, IInv

LEMMA HealthCheckKeeps == ASSUME IInv, NEW r \in Runs, HealthCheck(r) PROVE IInv'
  <1>1. /\ TypeOK /\ pc[r] = "health" /\ req[r] \in Keys
        /\ {"moverecon", "codex"} \subseteq Labels /\ CodexOutcomes \subseteq Outcomes
    BY ReqType, ConstantsOK DEF ConstantsOK, IInv, HealthCheck, Labels, Statements
  <1>2. UNCHANGED <<dbVars, req, started, lost, aborted, envVars, hb>>
    BY DEF HealthCheck
  <1>3. Moves(r, {"moverecon", "codex"})
    BY <1>1, GoesMoves DEF HealthCheck, Moves
  <1>4. /\ outcome' \in [Runs -> Outcomes \union {"none"}]
        /\ \A q \in Runs \ {r} : outcome'[q] = outcome[q]
        /\ pc'[r] = "moverecon" => outcome'[r] \in Outcomes
    <2>1. CASE Goes(r, "moverecon") /\ \E o \in Outcomes : outcome' = [outcome EXCEPT ![r] = o]
      BY <1>1, <2>1 DEF TypeOK
    <2>2. CASE Goes(r, "codex") /\ UNCHANGED outcome
      BY <1>1, <2>2 DEF TypeOK, Goes, Returns
    <2> QED BY <1>1, <2>1, <2>2 DEF HealthCheck, Outcomes
  <1>5. child' \in [Runs -> BOOLEAN] /\ \A q \in Runs \ {r} : child'[q] = child[q]
    BY <1>1 DEF TypeOK, HealthCheck
  <1>6. TypeOK'
    BY <1>1, <1>2, <1>3, <1>4, <1>5 DEF Moves, CtlType, TypeOK, dbVars, envVars
  <1>7. PhaseOf(r)' /\ EvidenceOf(r)'
    BY <1>1, <1>2, <1>3 DEF IInv, Moves, PhaseInv, PhaseOf, EvidenceInv, EvidenceOf,
                            Begun, Judged, Persisted, dbVars
  <1>8. /\ Moves(r, Later) /\ pc[r] \in Begun /\ pc'[r] \notin Recovering
        /\ pc'[r] \in Judged => outcome'[r] \in Outcomes
    BY <1>1, <1>3, <1>4 DEF Moves, Later, Labels, Statements, Begun, Judged, Recovering
  <1>9. Rest'
    BY <1>1, <1>2, <1>4, <1>5, <1>7, <1>8, StepOn DEF dbVars, envVars
  <1> QED BY <1>6, <1>9 DEF Rest, IInv

LEMMA CodexClosesKeeps == ASSUME IInv, NEW r \in Runs, CodexCloses(r) PROVE IInv'
  <1>1. /\ TypeOK /\ pc[r] = "codex" /\ req[r] \in Keys
        /\ "moverecon" \in Labels /\ CodexOutcomes \subseteq Outcomes
    BY ReqType, ConstantsOK DEF ConstantsOK, IInv, CodexCloses, Labels, Statements
  <1>2. UNCHANGED <<dbVars, req, started, lost, aborted, envVars, hb>>
    BY DEF CodexCloses
  <1>3. Moves(r, {"moverecon"})
    BY <1>1, GoesMoves DEF CodexCloses
  <1>4. PICK o \in Outcomes : outcome' = [outcome EXCEPT ![r] = o]
    BY <1>1 DEF CodexCloses, Outcomes
  <1>5. child' \in [Runs -> BOOLEAN] /\ \A q \in Runs \ {r} : child'[q] = child[q]
    BY <1>1 DEF TypeOK, CodexCloses
  <1>6. TypeOK'
    BY <1>1, <1>2, <1>3, <1>4, <1>5 DEF Moves, CtlType, TypeOK, dbVars, envVars
  <1>7. PhaseOf(r)' /\ EvidenceOf(r)'
    BY <1>1, <1>2, <1>3 DEF IInv, Moves, PhaseInv, PhaseOf, EvidenceInv, EvidenceOf,
                            Begun, Judged, Persisted, dbVars
  <1>8. /\ Moves(r, Later) /\ pc[r] \in Begun /\ pc'[r] \notin Recovering
        /\ outcome'[r] \in Outcomes /\ \A q \in Runs \ {r} : outcome'[q] = outcome[q]
    BY <1>1, <1>3, <1>4 DEF TypeOK, Moves, Later, Labels, Statements, Begun, Judged, Recovering
  <1>9. Rest'
    BY <1>1, <1>2, <1>5, <1>7, <1>8, StepOn DEF dbVars, envVars
  <1> QED BY <1>6, <1>9 DEF Rest, IInv

LEMMA CollectKeeps == ASSUME IInv, NEW r \in Runs, CollectOutcome(r) PROVE IInv'
  <1>1. /\ TypeOK /\ pc[r] = "collect" /\ req[r] \in Keys
        /\ "persist" \in Labels /\ outcome[r] \in Outcomes
    BY ReqType DEF IInv, OutcomeInv, Judged, CollectOutcome, Labels, Statements
  <1>2. UNCHANGED <<dbVars, req, started, lost, aborted, child, envVars, hb>>
    BY DEF CollectOutcome
  <1>3. Moves(r, {"persist"})
    BY <1>1, GoesMoves DEF CollectOutcome
  <1>4. PICK o \in Outcomes : outcome' = [outcome EXCEPT ![r] = o]
    <2>1. outcome' = [outcome EXCEPT ![r] = "blocked"] \/ outcome' = [outcome EXCEPT ![r] = outcome[r]]
      BY <1>1 DEF TypeOK, CollectOutcome
    <2> QED BY <1>1, <2>1 DEF Outcomes
  <1>5. TypeOK'
    BY <1>1, <1>2, <1>3, <1>4 DEF Moves, CtlType, TypeOK, dbVars, envVars
  <1>6. PhaseOf(r)' /\ EvidenceOf(r)'
    BY <1>1, <1>2, <1>3 DEF IInv, Moves, PhaseInv, PhaseOf, EvidenceInv, EvidenceOf,
                            Begun, Judged, Persisted, dbVars
  <1>7. /\ Moves(r, Later) /\ pc[r] \in Begun /\ pc'[r] \notin Recovering
        /\ outcome'[r] \in Outcomes /\ \A q \in Runs \ {r} : outcome'[q] = outcome[q]
    BY <1>1, <1>3, <1>4 DEF TypeOK, Moves, Later, Labels, Statements, Begun, Judged, Recovering
  <1>8. Rest'
    BY <1>1, <1>2, <1>6, <1>7, StepOn DEF dbVars, envVars
  <1> QED BY <1>5, <1>8 DEF Rest, IInv

LEMMA MoveToReconcilingKeeps == ASSUME IInv, NEW r \in Runs, MoveToReconciling(r) PROVE IInv'
  <1>1. /\ pc[r] = "moverecon" /\ req[r] \in Keys /\ req[r].task \in Tasks
        /\ "reconlog" \in Labels /\ winner' = winner
        /\ winner[req[r].task] = r /\ outcome[r] \in Outcomes
    BY ReqType DEF IInv, OwnerInv, OutcomeInv, Begun, Judged, MoveToReconciling,
                   TransitionTaskState, Labels, Statements
  <1>2. UNCHANGED <<lock, claim, history, execution, winner, runVars, envVars, hb>>
    BY <1>1 DEF MoveToReconciling, TransitionTaskState
  <1>3. CASE UNCHANGED <<task, faults>> /\ Raises(r)
    BY <1>1, <1>2, <1>3, NoMatchKeeps DEF dbVars
  <1>4. CASE /\ task[req[r].task] = "running"
             /\ task' = [task EXCEPT ![req[r].task] = "reconciling"]
             /\ Answers(r, "reconlog")
    <2>1. Moves(r, {"reconlog", "catchclaim"})
      <3>1. TypeOK /\ Handler(r, pc[r]) = "catchclaim"
        BY <1>1, HandlerLabel DEF IInv, Guarded
      <3> QED BY <1>1, <1>4, <3>1, AnswersMoves DEF Moves
    <2>2. TypeOK'
      BY <1>1, <1>2, <1>4, <2>1 DEF IInv, TypeOK, Lifecycle, Moves, CtlType, runVars, envVars
    <2>3. PhaseOf(r)' /\ EvidenceOf(r)'
      BY <1>1, <1>2, <1>4, <2>1 DEF IInv, TypeOK, Moves, PhaseOf, EvidenceInv, EvidenceOf,
                                    Begun, Judged, Persisted, runVars
    <2>4. Moves(r, Later) /\ pc'[r] \notin Recovering
      BY <2>1 DEF Moves, Later, Labels, Statements, Recovering
    <2>5. Rest'
      BY <1>1, <1>2, <1>4, <2>3, <2>4, StepMovesTask DEF Final, runVars, envVars
    <2> QED BY <2>2, <2>5 DEF Rest, IInv
  <1> QED BY <1>3, <1>4 DEF MoveToReconciling, TransitionTaskState

LEMMA CloseTaskKeeps == ASSUME IInv, NEW r \in Runs, CloseTask(r) PROVE IInv'
  <1> DEFINE final == FinalTaskState[outcome[r]]
  <1>1. /\ pc[r] = "close" /\ req[r] \in Keys /\ req[r].task \in Tasks
        /\ "closelog" \in Labels /\ winner' = winner
        /\ winner[req[r].task] = r /\ outcome[r] \in Outcomes /\ final \in Final
        /\ execution[r] = outcome[r]
    BY ReqType, FinalTaskStateType
    DEF IInv, OwnerInv, OutcomeInv, EvidenceInv, EvidenceOf, Persisted, Begun, Judged, CloseTask,
        Labels, Statements
  <1>2. UNCHANGED <<lock, claim, history, execution, winner, runVars, envVars, hb>>
    BY <1>1 DEF CloseTask, TransitionTaskState
  <1>3. CASE UNCHANGED <<task, faults>> /\ Raises(r)
    BY <1>1, <1>2, <1>3, NoMatchKeeps DEF dbVars
  <1>4. CASE /\ task[req[r].task] = "reconciling"
             /\ task' = [task EXCEPT ![req[r].task] = final]
             /\ Answers(r, "closelog")
    <2>1. Moves(r, {"closelog", "catchclaim"})
      <3>1. TypeOK /\ Handler(r, pc[r]) = "catchclaim"
        BY <1>1, HandlerLabel DEF IInv, Guarded
      <3> QED BY <1>1, <1>4, <3>1, AnswersMoves DEF Moves
    <2>2. TypeOK'
      BY <1>1, <1>2, <1>4, <2>1 DEF IInv, TypeOK, Lifecycle, Moves, CtlType, runVars, envVars
    <2>3. PhaseOf(r)' /\ EvidenceOf(r)'
      BY <1>1, <1>2, <1>4, <2>1 DEF IInv, TypeOK, Moves, PhaseOf, EvidenceInv, EvidenceOf,
                                    Begun, Judged, Persisted, runVars
    <2>4. Moves(r, Later) /\ pc'[r] \notin Recovering
      BY <2>1 DEF Moves, Later, Labels, Statements, Recovering
    <2> HIDE DEF final
    <2>5. final \in Final \ {"failed"} =>
            execution[r] \in Outcomes /\ FinalTaskState[execution[r]] = final
      BY <1>1 DEF final
    <2>6. Rest'
      BY <1>1, <1>2, <1>4, <2>3, <2>4, <2>5, StepMovesTask DEF runVars, envVars
    <2> QED BY <2>2, <2>6 DEF Rest, IInv
  <1> QED BY <1>3, <1>4 DEF CloseTask, TransitionTaskState

LEMMA FailTaskKeeps == ASSUME IInv, NEW r \in Runs, FailTask(r) PROVE IInv'
  <1>1. /\ pc[r] \in {"catchrunning", "catchrecon"} /\ req[r] \in Keys /\ req[r].task \in Tasks
        /\ "catchlog" \in Labels /\ winner' = winner
        /\ started[r] /\ winner[req[r].task] = r
    BY ReqType DEF IInv, OwnerInv, Executed, Recovering, FailTask, TransitionTaskState, Labels, Statements
  <1>2. UNCHANGED <<lock, claim, history, execution, winner, runVars, envVars, hb>>
    BY <1>1 DEF FailTask, TransitionTaskState
  <1>3. CASE UNCHANGED <<task, faults>> /\ Raises(r)
    BY <1>1, <1>2, <1>3, NoMatchKeeps DEF dbVars
  <1>4. CASE /\ task[req[r].task] \in {"running", "reconciling"}
             /\ task' = [task EXCEPT ![req[r].task] = "failed"]
             /\ Answers(r, "catchlog")
    <2>1. Moves(r, {"catchlog", "stop"})
      <3>1. TypeOK /\ Handler(r, pc[r]) = "stop"
        BY <1>1 DEF IInv, Handler, Guarded
      <3> QED BY <1>1, <1>4, <3>1, AnswersMoves DEF Moves
    <2>2. TypeOK'
      BY <1>1, <1>2, <1>4, <2>1 DEF IInv, TypeOK, Lifecycle, Final, Moves, CtlType, runVars, envVars
    <2>3. PhaseOf(r)' /\ EvidenceOf(r)'
      BY <2>1 DEF Moves, PhaseOf, EvidenceOf, Begun, Judged, Persisted
    <2>4. Moves(r, Later) /\ pc'[r] \notin Judged
      BY <2>1 DEF Moves, Later, Labels, Statements, Judged
    <2>5. "failed" \in {"reconciling"} \union Final /\ "failed" \notin Final \ {"failed"}
          /\ pc[r] \notin {"idle", "done"}
      BY <1>1 DEF Final
    <2>6. Rest'
      BY <1>1, <1>2, <1>4, <2>3, <2>4, <2>5, StepMovesTask DEF runVars, envVars
    <2> QED BY <2>2, <2>6 DEF Rest, IInv
  <1> QED BY <1>3, <1>4 DEF FailTask, TransitionTaskState

LEMMA BeginTaskKeeps == ASSUME IInv, NEW r \in Runs, BeginTask(r) PROVE IInv'
  <1> DEFINE t == req[r].task
  <1>1. /\ TypeOK /\ pc[r] = "begin" /\ req[r] \in Keys /\ t \in Tasks
        /\ "beginlog" \in Labels /\ Handler(r, pc[r]) = "catchclaim"
    BY ReqType, HandlerLabel DEF IInv, BeginTask, TransitionTaskState, Labels, Statements, Guarded
  <1>2. UNCHANGED <<lock, claim, history, execution, runVars, envVars, hb>>
    BY DEF BeginTask, TransitionTaskState
  <1>3. CASE ~(RowExists(r) /\ task[t] = "prepared")
    <2>1. Raises(r) /\ UNCHANGED <<task, faults, winner>>
      BY <1>3 DEF BeginTask, TransitionTaskState
    <2> QED BY <1>1, <1>2, <2>1, NoMatchKeeps DEF dbVars
  <1>4. CASE RowExists(r) /\ task[t] = "prepared"
    <2>1. task' = [task EXCEPT ![t] = "running"] /\ winner' = [winner EXCEPT ![t] = r]
      BY <1>4 DEF BeginTask, TransitionTaskState
    <2>2. Moves(r, {"beginlog", "catchclaim"})
      BY <1>1, <1>4, AnswersMoves DEF BeginTask, TransitionTaskState, Moves
    <2>3. /\ task'[t] = "running" /\ winner'[t] = r
          /\ \A u \in Tasks \ {t} : task'[u] = task[u] /\ winner'[u] = winner[u]
      BY <1>1, <2>1 DEF TypeOK
    <2>4. TypeOK'
      BY <1>1, <1>2, <2>1, <2>2 DEF TypeOK, Lifecycle, Moves, CtlType, runVars, envVars
    <2>5. winner[t] = NoRun
      BY <1>1, <1>4 DEF IInv, WinnerInv
    <2>6. \A q \in Runs : Executed(q) \/ pc[q] \in Begun => req[q].task # t
      BY <2>5, ConstantsOK DEF ConstantsOK, IInv, OwnerInv
    <2>7. \A q \in Runs : req[q] \in Keys => req[q].task \in Tasks
      BY DEF Keys
    <2> HIDE DEF t
    <2>8. (KeyInv /\ OutcomeInv)'
      BY <1>1, <1>2, <2>2 DEF IInv, Moves, KeyInv, Executed, OutcomeInv, Judged, runVars
    <2>9. RequestInv'
      BY <1>1, <1>2, <2>2, <2>3, <2>7 DEF IInv, TypeOK, Moves, RequestInv, runVars, envVars
    <2>10. WinnerInv'
      <3>1. pc'[r] # "idle" /\ req'[r] \in Keys /\ req'[r].task = t /\ r # NoRun
        BY <1>1, <1>2, <2>2, ConstantsOK DEF ConstantsOK, Moves, t, runVars
      <3>2. \A q \in Runs : pc[q] # "idle" => pc'[q] # "idle"
        BY <2>2, <3>1 DEF Moves
      <3> QED BY <1>2, <2>3, <3>1, <3>2 DEF IInv, WinnerInv, runVars
    <2>11. OwnerInv'
      <3>1. ~Executed(r)
        BY <2>6 DEF t
      <3>2. req'[r] \in Keys /\ winner'[req'[r].task] = r
        BY <1>1, <1>2, <2>3 DEF t, runVars
      <3>3. \A q \in Runs \ {r} : Executed(q)' \/ pc'[q] \in Begun =>
               req'[q] \in Keys /\ winner'[req'[q].task] = q
        BY <1>2, <2>2, <2>3, <2>6, <2>7 DEF IInv, Moves, OwnerInv, Executed, runVars
      <3>4. \A q \in Runs : pc'[q] \in Recovering => started'[q]
        BY <1>2, <2>2 DEF IInv, Moves, OwnerInv, Recovering, runVars
      <3> QED BY <3>2, <3>3, <3>4 DEF OwnerInv
    <2>12. PhaseInv'
      <3>1. PhaseOf(r)'
        BY <1>1, <1>2, <2>2, <2>3 DEF Moves, PhaseOf, t, runVars
      <3>2. \A q \in Runs \ {r} : PhaseOf(q)'
        <4>1. \A q \in Runs : pc[q] \in Begun => req[q] \in Keys
          BY DEF IInv, OwnerInv
        <4> QED BY <1>2, <2>2, <2>3, <2>6, <2>7, <4>1
            DEF IInv, Moves, PhaseInv, PhaseOf, Begun, Judged, runVars
      <3> QED BY <3>1, <3>2 DEF PhaseInv
    <2>13. EvidenceInv'
      <3>1. execution[r] = "none"
        BY <2>6 DEF Executed, t
      <3>2. EvidenceOf(r)'
        BY <1>2, <2>2, <3>1 DEF Moves, EvidenceOf, Persisted, Begun, Judged, runVars
      <3>3. \A q \in Runs \ {r} : EvidenceOf(q)'
        BY <1>2, <2>2 DEF IInv, Moves, EvidenceInv, EvidenceOf, runVars
      <3> QED BY <3>2, <3>3 DEF EvidenceInv
    <2>14. ClosedWithEvidence'
      BY <1>2, <2>3 DEF IInv, ClosedWithEvidence, Final
    <2>15. ReplayIsHonest'
      <3>1. \A k \in Keys : claim[k].status = "completed" => k.task # t
        BY <1>4, FinalTaskStateType DEF t, IInv, ReplayIsHonest, OkOutcomes, Outcomes, Final
      <3>2. \A k \in Keys : k.task \in Tasks
        BY DEF Keys
      <3> QED BY <1>2, <2>3, <3>1, <3>2 DEF IInv, ReplayIsHonest
    <2>16. OkIsReplayable'
      BY <1>2, <2>2 DEF IInv, Moves, OkIsReplayable, runVars
    <2> QED BY <2>4, <2>8, <2>9, <2>10, <2>11, <2>12, <2>13, <2>14, <2>15, <2>16 DEF IInv
  <1> QED BY <1>3, <1>4

LEMMA PersistKeeps == ASSUME IInv, NEW r \in Runs, PersistExecution(r) PROVE IInv'
  <1>1. /\ TypeOK /\ pc[r] = "persist" /\ req[r] \in Keys /\ req[r].task \in Tasks
        /\ "close" \in Labels /\ Handler(r, pc[r]) = "catchclaim"
        /\ winner[req[r].task] = r /\ outcome[r] \in Outcomes
        /\ task[req[r].task] = "reconciling"
    BY ReqType, HandlerLabel DEF IInv, OwnerInv, OutcomeInv, PhaseInv, PhaseOf, Begun, Judged,
                                 PersistExecution, Labels, Statements, Guarded
  <1>2. UNCHANGED <<lock, claim, task, history, winner, runVars, envVars, hb>>
    BY DEF PersistExecution
  <1>3. Moves(r, {"close", "catchclaim"})
    BY <1>1, AnswersMoves DEF PersistExecution, Moves
  <1>4. /\ execution' \in [Runs -> Outcomes \union {"none"}] /\ execution'[r] = outcome[r]
        /\ \A q \in Runs \ {r} : execution'[q] = execution[q]
    BY <1>1 DEF TypeOK, PersistExecution
  <1>5. TypeOK'
    BY <1>1, <1>2, <1>3, <1>4 DEF Moves, CtlType, TypeOK, runVars, envVars
  <1>6. (KeyInv /\ RequestInv /\ OutcomeInv /\ WinnerInv)'
    BY <1>1, <1>2, <1>3, <1>4 DEF IInv, Moves, KeyInv, Executed, RequestInv, OutcomeInv,
                                  WinnerInv, Judged, runVars, envVars
  <1>7. OwnerInv'
    BY <1>1, <1>2, <1>3, <1>4 DEF IInv, Moves, OwnerInv, Executed, Begun, Judged, Recovering, runVars
  <1>8. (PhaseInv /\ EvidenceInv)'
    BY <1>1, <1>2, <1>3, <1>4 DEF IInv, Moves, PhaseInv, PhaseOf, EvidenceInv, EvidenceOf,
                                  Begun, Judged, Persisted, runVars
  <1>9. \A o \in Outcomes : FinalTaskState[o] # "reconciling"
    BY FinalTaskStateType DEF Final
  <1>10. ClosedWithEvidence'
    <2>1. \A t \in Tasks : task[t] \in Final => winner[t] # r \/ t # req[r].task
      BY <1>1 DEF Final
    <2>2. \A t \in Tasks : task[t] \in Final \ {"failed"} => winner[t] # r
      <3> SUFFICES ASSUME NEW t \in Tasks, task[t] \in Final \ {"failed"}, winner[t] = r PROVE FALSE
        OBVIOUS
      <3>1. execution[r] \in Outcomes
        BY DEF IInv, ClosedWithEvidence
      <3>2. execution[r] = "none"
        BY <1>1 DEF IInv, EvidenceInv, EvidenceOf, Begun, Judged, Persisted
      <3> QED BY <3>1, <3>2 DEF Outcomes
    <2> QED BY <1>2, <1>4, <2>2 DEF IInv, ClosedWithEvidence
  <1>11. ReplayIsHonest'
    <2>1. execution[r] = "none"
      BY <1>1 DEF IInv, EvidenceInv, EvidenceOf, Begun, Judged, Persisted
    <2>2. \A k \in Keys : claim[k].status = "completed" =>
              winner[k.task] \in Runs \union {NoRun} /\ winner[k.task] # r
      BY <1>1, <2>1 DEF IInv, ReplayIsHonest, TypeOK, OkOutcomes, Keys
    <2>3. \A k \in Keys : claim[k].status = "completed" => winner[k.task] \in Runs
      <3> SUFFICES ASSUME NEW k \in Keys, claim[k].status = "completed" PROVE winner[k.task] \in Runs
        OBVIOUS
      <3>1. k.task \in Tasks
        BY DEF Keys
      <3>2. task[k.task] \in Final
        BY FinalTaskStateType DEF IInv, ReplayIsHonest, OkOutcomes, Outcomes
      <3>3. task[k.task] \notin {"absent", "prepared"}
        BY <3>2 DEF Final
      <3>4. winner[k.task] # NoRun
        BY <3>1, <3>3 DEF IInv, WinnerInv
      <3> QED BY <1>1, <3>1, <3>4 DEF TypeOK
    <2> QED BY <1>2, <1>4, <2>2, <2>3 DEF IInv, ReplayIsHonest
  <1>12. OkIsReplayable'
    BY <1>2, <1>3 DEF IInv, Moves, OkIsReplayable, runVars
  <1> QED BY <1>5, <1>6, <1>7, <1>8, <1>10, <1>11, <1>12 DEF IInv

(* The run that holds its claim completes it: the one step that answers ok. *)
LEMMA FinishRunKeeps == ASSUME IInv, NEW r \in Runs, FinishRun(r) PROVE IInv'
  <1>1. /\ TypeOK /\ pc[r] = "settle" /\ req[r] \in Keys /\ req[r].task \in Tasks
        /\ "stop" \in Labels /\ Handler(r, pc[r]) = "catchclaim"
        /\ winner[req[r].task] = r /\ outcome[r] \in Outcomes /\ execution[r] = outcome[r]
        /\ task[req[r].task] = FinalTaskState[outcome[r]]
        /\ {"ok", "error"} \subseteq Results
    BY ReqType, HandlerLabel
    DEF IInv, OwnerInv, OutcomeInv, PhaseInv, PhaseOf, EvidenceInv, EvidenceOf, Persisted,
        Begun, Judged, FinishRun, Labels, Guarded, Results
  <1>2. UNCHANGED <<lock, task, history, execution, winner, runVars, envVars, hb>>
    BY DEF FinishRun
  <1>3. ASSUME Moves(r, {"stop", "catchclaim"}), ClaimsOpen,
               claim' \in [Keys -> [status : ClaimStatus, owner : Runs \union {NoRun}, lease : Nat]]
        PROVE  IInv'
    <2>1. TypeOK'
      BY <1>1, <1>2, <1>3 DEF Moves, CtlType, TypeOK, runVars, envVars
    <2>2. Rest'
      BY <1>1, <1>2, <1>3, StepAside
      DEF Moves, Aside, Labels, Statements, Begun, Judged, Recovering, runVars, envVars
    <2> QED BY <2>1, <2>2 DEF Rest, IInv
  <1>4. CASE outcome[r] \notin OkOutcomes
    <2>1. SettleClaim(r, "failed") /\ AnswersResult(r, "stop", "error")
      BY <1>4 DEF FinishRun
    <2>2. Moves(r, {"stop", "catchclaim"})
      BY <1>1, <2>1, AnswersResultMoves
    <2> QED BY <1>1, <1>3, <2>1, <2>2, SettleType
  <1>5. CASE outcome[r] \in OkOutcomes /\ ~HoldsClaim(r)
    <2>1. claim' = claim /\ Raises(r) /\ UNCHANGED faults
      BY <1>5 DEF FinishRun, SettleClaim
    <2>2. Moves(r, {"stop", "catchclaim"})
      BY <1>1, <2>1, RaisesMoves DEF Moves
    <2> QED BY <1>1, <1>3, <2>1, <2>2 DEF ClaimsOpen, TypeOK
  <1>6. CASE outcome[r] \in OkOutcomes /\ HoldsClaim(r)
    <2> DEFINE row == [status |-> "completed", owner |-> r, lease |-> 0]
    <2>1. claim' = [claim EXCEPT ![req[r]] = row] /\ AnswersResult(r, "stop", "ok")
      BY <1>6 DEF FinishRun, SettleClaim
    <2>2. row \in [status : ClaimStatus, owner : Runs \union {NoRun}, lease : Nat]
          /\ row.status = "completed" /\ row.owner = r
      BY DEF ClaimStatus
    <2> HIDE DEF row
    <2>3. /\ CtlType /\ pc'[r] \in {"stop", "catchclaim"}
          /\ \A q \in Runs \ {r} : pc'[q] = pc[q] /\ result'[q] = result[q]
      <3>1. CASE Returns(r, "stop", "ok")
        BY <1>1, <3>1 DEF TypeOK, Returns, CtlType
      <3>2. CASE Throws(r)
        BY <1>1, <3>2, ThrowsMoves DEF Moves
      <3> QED BY <2>1, <3>1, <3>2 DEF AnswersResult
    <2>4. /\ claim'[req[r]] = row
          /\ \A k \in Keys \ {req[r]} : claim'[k] = claim[k]
      BY <1>1, <2>1 DEF TypeOK
    <2>5. TypeOK'
      BY <1>1, <1>2, <2>1, <2>2, <2>3 DEF CtlType, TypeOK, runVars, envVars
    <2>6. (KeyInv /\ RequestInv /\ OutcomeInv /\ WinnerInv /\ OwnerInv)'
      BY <1>1, <1>2, <2>3 DEF IInv, KeyInv, RequestInv, OutcomeInv, WinnerInv, OwnerInv, Executed,
                              Begun, Judged, Recovering, runVars, envVars
    <2>7. (PhaseInv /\ EvidenceInv /\ ClosedWithEvidence)'
      BY <1>1, <1>2, <2>3 DEF IInv, PhaseInv, PhaseOf, EvidenceInv, EvidenceOf, Begun, Judged,
                              Persisted, ClosedWithEvidence, runVars
    <2>8. ReplayIsHonest'
      BY <1>1, <1>2, <1>6, <2>2, <2>4 DEF IInv, ReplayIsHonest
    <2>9. OkIsReplayable'
      <3>1. claim[req[r]].status = "in_progress"
        BY <1>6 DEF HoldsClaim
      <3>2. \A q \in Runs \ {r} : result[q] = "ok" => req[q] \in Keys /\ req[q] # req[r]
        BY <3>1 DEF IInv, KeyInv, OkIsReplayable
      <3> QED BY <1>2, <2>2, <2>3, <2>4, <3>2 DEF IInv, OkIsReplayable, runVars
    <2> QED BY <2>5, <2>6, <2>7, <2>8, <2>9 DEF IInv
  <1> QED BY <1>4, <1>5, <1>6

-----------------------------------------------------------------------------
(* Steps that move no invocation: the heartbeat and the environment.       *)

HeartbeatType ==
    /\ hb' \in [Runs -> [timer : BOOLEAN, inFlight : BOOLEAN, renew : SUBSET Renewals,
                         refused : BOOLEAN, beat : Nat]]
    /\ lost' \in [Runs -> BOOLEAN] /\ aborted' \in [Runs -> BOOLEAN] /\ faults' \in Nat

LEMMA RenewalAnswersType ==
    ASSUME TypeOK, NEW r \in Runs, NEW s \in Renewals, NEW ok \in BOOLEAN, RenewalAnswers(r, s, ok)
    PROVE  HeartbeatType /\ \A q \in Runs \ {r} : hb'[q] = hb[q]
  <1>0. hb \in [Runs -> [timer : BOOLEAN, inFlight : BOOLEAN, renew : SUBSET Renewals,
                         refused : BOOLEAN, beat : Nat]]
    BY DEF TypeOK
  <1>1. PICK a \in SUBSET Renewals, b \in BOOLEAN, c \in BOOLEAN :
          hb' = [hb EXCEPT ![r].renew = a, ![r].refused = b, ![r].inFlight = c]
    <2> DEFINE A == hb[r].renew \ {s}
               L == hb[r].inFlight /\ A = {}
               B == (hb[r].refused \/ (hb[r].inFlight /\ ~ok)) /\ ~L
               C == hb[r].inFlight /\ ~L
    <2>1. hb' = [hb EXCEPT ![r].renew = A, ![r].refused = B, ![r].inFlight = C]
      BY DEF RenewalAnswers, TypeOK
    <2>2. A \in SUBSET Renewals /\ B \in BOOLEAN /\ C \in BOOLEAN
      BY DEF TypeOK
    <2> HIDE DEF A, B, C
    <2> QED BY <2>1, <2>2
  <1>2. hb' \in [Runs -> [timer : BOOLEAN, inFlight : BOOLEAN, renew : SUBSET Renewals,
                          refused : BOOLEAN, beat : Nat]]
        /\ \A q \in Runs \ {r} : hb'[q] = hb[q]
    <2>1. hb'[r] = [timer |-> hb[r].timer, inFlight |-> c, renew |-> a, refused |-> b,
                    beat |-> hb[r].beat]
      BY <1>1, <1>0, ZenonT(60)
    <2>2. hb'[r] \in [timer : BOOLEAN, inFlight : BOOLEAN, renew : SUBSET Renewals,
                      refused : BOOLEAN, beat : Nat]
      BY <2>1, <1>0
    <2>3. hb' = [hb EXCEPT ![r] = hb'[r]]
      BY <1>1, <1>0
    <2> QED BY <2>2, <2>3, <1>0
  <1>3. lost' \in [Runs -> BOOLEAN] /\ aborted' \in [Runs -> BOOLEAN] /\ faults' \in Nat
    BY DEF TypeOK, RenewalAnswers, LoseLease
  <1> QED BY <1>2, <1>3 DEF HeartbeatType

LEMMA RenewalThrowsType ==
    ASSUME TypeOK, NEW r \in Runs, NEW s, RenewalThrows(r, s)
    PROVE  HeartbeatType /\ \A q \in Runs \ {r} : hb'[q] = hb[q]
  <1>0. hb \in [Runs -> [timer : BOOLEAN, inFlight : BOOLEAN, renew : SUBSET Renewals,
                         refused : BOOLEAN, beat : Nat]]
    BY DEF TypeOK
  <1>1. hb' \in [Runs -> [timer : BOOLEAN, inFlight : BOOLEAN, renew : SUBSET Renewals,
                          refused : BOOLEAN, beat : Nat]]
        /\ \A q \in Runs \ {r} : hb'[q] = hb[q]
    <2>1. PICK a \in SUBSET Renewals :
            hb' = [hb EXCEPT ![r].renew = a, ![r].inFlight = FALSE, ![r].refused = FALSE]
      <3>1. hb[r].renew \ {s} \in SUBSET Renewals
        BY DEF TypeOK
      <3> QED BY <3>1 DEF RenewalThrows, TypeOK
    <2>2. hb'[r] = [timer |-> hb[r].timer, inFlight |-> FALSE, renew |-> a, refused |-> FALSE,
                    beat |-> hb[r].beat]
      BY <2>1, <1>0, ZenonT(60)
    <2>3. hb'[r] \in [timer : BOOLEAN, inFlight : BOOLEAN, renew : SUBSET Renewals,
                      refused : BOOLEAN, beat : Nat]
      BY <2>2, <1>0
    <2>4. hb' = [hb EXCEPT ![r] = hb'[r]]
      BY <2>1, <1>0
    <2> QED BY <2>3, <2>4, <1>0
  <1>2. lost' \in [Runs -> BOOLEAN] /\ aborted' \in [Runs -> BOOLEAN] /\ faults' \in Nat
    BY SMTT(60) DEF TypeOK, RenewalThrows, LoseLease
  <1> QED BY <1>1, <1>2 DEF HeartbeatType

(* A renewal in flight belongs to an invocation that is past "idle".       *)
LEMMA RenewingRun ==
    ASSUME IInv, NEW r \in Runs, hb[r].renew # {}
    PROVE  pc[r] # "idle" /\ req[r] \in Keys
  BY DEF IInv, KeyInv, Idle

LEMMA RenewLockKeeps == ASSUME IInv, NEW r \in Runs, RenewProjectRunLock(r) PROVE IInv'
  <1>1. TypeOK /\ req[r].project \in Projects /\ pc[r] # "idle" /\ req[r] \in Keys
    BY RenewingRun, ReqType DEF IInv, RenewProjectRunLock
  <1>2. UNCHANGED <<claim, task, history, execution, winner, req, started, outcome, child, pc, result, envVars>>
    BY DEF RenewProjectRunLock
  <1>3. HeartbeatType /\ \A q \in Runs \ {r} : hb'[q] = hb[q]
    <2> DEFINE ok == lock[req[r].project].owner = r /\ lock[req[r].project].expires > now
    <2>1. ok \in BOOLEAN /\ "lock" \in Renewals
      BY DEF Renewals
    <2>2. RenewalAnswers(r, "lock", ok) \/ RenewalThrows(r, "lock")
      BY DEF RenewProjectRunLock
    <2> HIDE DEF ok
    <2> QED BY <1>1, <2>1, <2>2, RenewalAnswersType, RenewalThrowsType
  <1>4. lock' \in [Projects -> [owner : Runs \union {NoRun}, expires : Nat]]
    <2>1. now + TTL \in Nat
      BY <1>1, ConstantsOK DEF ConstantsOK, TypeOK
    <2>2. \/ lock' = lock
          \/ lock' = [lock EXCEPT ![req[r].project].expires = now + TTL]
      BY DEF RenewProjectRunLock
    <2>3. lock \in [Projects -> [owner : Runs \union {NoRun}, expires : Nat]]
      BY <1>1 DEF TypeOK
    <2> QED BY <1>1, <2>1, <2>2, <2>3
  <1>5. TypeOK'
    BY <1>1, <1>2, <1>3, <1>4 DEF TypeOK, HeartbeatType, envVars
  <1>6. Rest'
    BY <1>1, <1>2, <1>3, SilentStep DEF ClaimsOpen, envVars
  <1> QED BY <1>5, <1>6 DEF Rest, IInv

LEMMA RenewClaimKeeps == ASSUME IInv, NEW r \in Runs, RenewIdempotencyClaim(r) PROVE IInv'
  <1> DEFINE ok == /\ claim[req[r]].status = "in_progress" /\ claim[req[r]].owner = r
                   /\ claim[req[r]].lease > now
  <1>1. TypeOK /\ pc[r] # "idle" /\ req[r] \in Keys
    BY RenewingRun DEF IInv, RenewIdempotencyClaim
  <1>2. UNCHANGED <<lock, task, history, execution, winner, req, started, outcome, child, pc, result, envVars>>
    BY DEF RenewIdempotencyClaim
  <1>3. HeartbeatType /\ \A q \in Runs \ {r} : hb'[q] = hb[q]
    <2>1. ok \in BOOLEAN /\ "claim" \in Renewals
      BY DEF Renewals
    <2>2. RenewalAnswers(r, "claim", ok) \/ RenewalThrows(r, "claim")
      BY DEF RenewIdempotencyClaim
    <2> HIDE DEF ok
    <2> QED BY <1>1, <2>1, <2>2, RenewalAnswersType, RenewalThrowsType
  <1>4. ClaimsOpen
        /\ claim' \in [Keys -> [status : ClaimStatus, owner : Runs \union {NoRun}, lease : Nat]]
    <2>1. now + TTL \in Nat
      BY <1>1, ConstantsOK DEF ConstantsOK, TypeOK
    <2>0. claim \in [Keys -> [status : ClaimStatus, owner : Runs \union {NoRun}, lease : Nat]]
      BY <1>1 DEF TypeOK
    <2>2. CASE ok
      <3>1. PICK e \in Nat : claim' = [claim EXCEPT ![req[r]].lease = e]
        BY <2>1, <2>2 DEF RenewIdempotencyClaim
      <3>2. claim[req[r]].status # "completed" /\ claim'[req[r]].status # "completed"
        BY <1>1, <2>2, <2>0, <3>1
      <3>3. \A k \in Keys \ {req[r]} : claim'[k] = claim[k]
        BY <1>1, <2>0, <3>1
      <3>4. claim' \in [Keys -> [status : ClaimStatus, owner : Runs \union {NoRun}, lease : Nat]]
        BY <1>1, <2>0, <3>1
      <3> QED BY <3>2, <3>3, <3>4 DEF ClaimsOpen
    <2>3. CASE ~ok
      BY <1>1, <2>3 DEF TypeOK, RenewIdempotencyClaim, ClaimsOpen
    <2> QED BY <2>2, <2>3
  <1>5. TypeOK'
    BY <1>1, <1>2, <1>3, <1>4 DEF TypeOK, HeartbeatType, envVars
  <1>6. Rest'
    BY <1>1, <1>2, <1>3, <1>4, SilentStep DEF envVars
  <1> QED BY <1>5, <1>6 DEF Rest, IInv

LEMMA RenewalFailsKeeps == ASSUME IInv, NEW r \in Runs, RenewalFails(r) PROVE IInv'
  <1>1. PICK s \in hb[r].renew : RenewalThrows(r, s)
    BY DEF RenewalFails
  <1>2. TypeOK /\ pc[r] # "idle" /\ req[r] \in Keys
    BY <1>1, RenewingRun DEF IInv
  <1>3. UNCHANGED <<dbVars, req, started, outcome, child, pc, result, envVars>>
    BY DEF RenewalFails
  <1>4. HeartbeatType /\ \A q \in Runs \ {r} : hb'[q] = hb[q]
    BY <1>1, <1>2, RenewalThrowsType
  <1>5. TypeOK'
    BY <1>2, <1>3, <1>4 DEF TypeOK, HeartbeatType, dbVars, envVars
  <1>6. Rest'
    BY <1>2, <1>3, <1>4, SilentStep DEF ClaimsOpen, dbVars, envVars
  <1> QED BY <1>5, <1>6 DEF Rest, IInv

LEMMA BeatFiresKeeps == ASSUME IInv, NEW r \in Runs, BeatFires(r) PROVE IInv'
  <1>1. TypeOK /\ pc[r] # "idle" /\ req[r] \in Keys
    <2>1. pc[r] \notin {"idle", "done"}
      BY DEF IInv, KeyInv, Idle, BeatFires, Ended
    <2> QED BY <2>1, ReqType DEF IInv
  <1>2. UNCHANGED <<dbVars, runVars, ctlVars, envVars>>
    BY DEF BeatFires
  <1>3. /\ hb' \in [Runs -> [timer : BOOLEAN, inFlight : BOOLEAN, renew : SUBSET Renewals,
                             refused : BOOLEAN, beat : Nat]]
        /\ \A q \in Runs \ {r} : hb'[q] = hb[q]
    <2>1. CASE SendBeat(r, TRUE)
      BY <2>1, SendBeatType
    <2>2. CASE hb' = [hb EXCEPT ![r].beat = now]
      BY <1>1, <2>2, ZenonT(60) DEF TypeOK
    <2> QED BY <2>1, <2>2 DEF BeatFires
  <1>4. TypeOK'
    BY <1>1, <1>2, <1>3 DEF TypeOK, dbVars, runVars, ctlVars, envVars
  <1>5. Rest'
    BY <1>1, <1>2, <1>3, SilentStep DEF ClaimsOpen, dbVars, runVars, ctlVars, envVars
  <1> QED BY <1>4, <1>5 DEF Rest, IInv

LEMMA UserAbortKeeps == ASSUME IInv, NEW r \in Runs, UserAbort(r) PROVE IInv'
  <1>1. UNCHANGED <<dbVars, req, started, outcome, lost, child, ctlVars, envVars, hb>>
        /\ aborted' = [aborted EXCEPT ![r] = TRUE]
    BY DEF UserAbort
  <1>2. TypeOK'
    BY <1>1 DEF IInv, TypeOK, dbVars, ctlVars, envVars
  <1>3. Rest'
    BY <1>1, SilentStep DEF ClaimsOpen, dbVars, ctlVars, envVars
  <1> QED BY <1>2, <1>3 DEF Rest, IInv

LEMMA OrphanExitKeeps == ASSUME IInv, NEW r \in Runs, OrphanExit(r) PROVE IInv'
  <1>1. UNCHANGED <<dbVars, req, started, outcome, lost, aborted, ctlVars, envVars, hb>>
        /\ child' = [child EXCEPT ![r] = FALSE]
    BY DEF OrphanExit
  <1>2. TypeOK' /\ \A q \in Runs : child'[q] => child[q]
    BY <1>1 DEF IInv, TypeOK, dbVars, ctlVars, envVars
  <1>3. Rest'
    BY <1>1, <1>2, SilentStep DEF ClaimsOpen, dbVars, ctlVars, envVars
  <1> QED BY <1>2, <1>3 DEF Rest, IInv

LEMMA TickKeeps == ASSUME IInv, Tick PROVE IInv'
  <1>1. UNCHANGED <<dbVars, runVars, ctlVars, draft, crashes, hb>> /\ now' = now + 1
    BY DEF Tick
  <1>2. TypeOK'
    BY <1>1 DEF IInv, TypeOK, dbVars, runVars, ctlVars
  <1>3. Rest'
    BY <1>1, SilentStep DEF ClaimsOpen, dbVars, runVars, ctlVars
  <1> QED BY <1>2, <1>3 DEF Rest, IInv

LEMMA PrepareKeeps == ASSUME IInv, NEW w \in Windows, NEW t \in Tasks, PrepareTask(w, t) PROVE IInv'
  <1>1. /\ TypeOK /\ task[t] = "absent"
        /\ task' = [task EXCEPT ![t] = "prepared"] /\ draft' = [draft EXCEPT ![w] = t]
        /\ history' = history \union {<<t, "prepared">>}
        /\ UNCHANGED <<lock, claim, execution, winner, now, crashes, runVars, ctlVars, hb>>
    BY DEF IInv, PrepareTask
  <1>2. TypeOK'
    BY <1>1 DEF TypeOK, Lifecycle, runVars, ctlVars
  <1>3. task'[t] = "prepared" /\ \A u \in Tasks \ {t} : task'[u] = task[u]
    BY <1>1 DEF TypeOK
  <1>4. (KeyInv /\ OutcomeInv /\ OwnerInv /\ EvidenceInv)'
    BY <1>1 DEF IInv, KeyInv, Executed, OutcomeInv, OwnerInv, EvidenceInv, EvidenceOf, runVars, ctlVars
  <1>5. RequestInv'
    BY <1>1, <1>3 DEF IInv, TypeOK, RequestInv, runVars, ctlVars
  <1>6. WinnerInv'
    BY <1>1, <1>3 DEF IInv, WinnerInv, runVars, ctlVars
  <1>7. PhaseInv'
    <2>1. \A q \in Runs : pc[q] \in Begun =>
             req[q] \in Keys /\ req[q].task \in Tasks /\ task[req[q].task] # "absent"
      BY DEF IInv, OwnerInv, RequestInv, Keys
    <2>2. \A q \in Runs : pc[q] \in Begun => task'[req[q].task] = task[req[q].task]
      BY <1>1, <1>3, <2>1
    <2> QED BY <1>1, <2>2 DEF IInv, PhaseInv, PhaseOf, Begun, Judged, runVars, ctlVars
  <1>8. ClosedWithEvidence'
    BY <1>1, <1>3 DEF IInv, ClosedWithEvidence, Final
  <1>9. ReplayIsHonest'
    <2>1. \A k \in Keys : claim[k].status = "completed" => k.task # t
      BY <1>1, FinalTaskStateType DEF IInv, ReplayIsHonest, OkOutcomes, Outcomes, Final
    <2>2. \A k \in Keys : k.task \in Tasks
      BY DEF Keys
    <2> QED BY <1>1, <1>3, <2>1, <2>2 DEF IInv, ReplayIsHonest
  <1>10. OkIsReplayable'
    BY <1>1 DEF IInv, OkIsReplayable, runVars, ctlVars
  <1> QED BY <1>2, <1>4, <1>5, <1>6, <1>7, <1>8, <1>9, <1>10 DEF IInv

LEMMA CrashKeeps == ASSUME IInv, NEW w \in Windows, Crash(w) PROVE IInv'
  <1> DEFINE dead == {r \in Runs : WindowOf[r] = w /\ pc[r] \notin {"idle"} \union Ended}
  <1>1. /\ TypeOK /\ crashes' = crashes + 1
        /\ pc' = [r \in Runs |-> IF r \in dead THEN "crashed" ELSE pc[r]]
        /\ hb' = [r \in Runs |-> IF WindowOf[r] = w THEN Idle ELSE hb[r]]
        /\ \A r \in Runs : child'[r] => child[r]
        /\ draft' = [draft EXCEPT ![w] = NoTask]
        /\ UNCHANGED <<dbVars, req, started, outcome, lost, aborted, result, faults, now>>
    BY DEF IInv, Crash
  <1>2. child' \in [Runs -> BOOLEAN]
    BY DEF Crash
  <1>3. "crashed" \in Labels /\ Idle \in [timer : BOOLEAN, inFlight : BOOLEAN, renew : SUBSET Renewals,
                                          refused : BOOLEAN, beat : Nat]
    BY DEF Labels, Ended, Idle
  <1>4. pc' \in [Runs -> Labels] /\ hb' \in [Runs -> [timer : BOOLEAN, inFlight : BOOLEAN,
                                     renew : SUBSET Renewals, refused : BOOLEAN, beat : Nat]]
    BY <1>1, <1>3 DEF TypeOK
  <1>5. TypeOK'
    BY <1>1, <1>2, <1>4 DEF TypeOK, dbVars
  <1>6. \A r \in Runs : /\ pc'[r] = pc[r] \/ (pc'[r] = "crashed" /\ pc[r] \notin {"idle", "done"})
                        /\ hb'[r] = hb[r] \/ hb'[r] = Idle
    BY <1>1 DEF Ended
  <1> HIDE DEF dead
  <1>7. Idle.renew = {}
    BY DEF Idle
  <1>8. (KeyInv /\ RequestInv /\ OutcomeInv /\ WinnerInv /\ OwnerInv)'
    <2>1. KeyInv'
      BY <1>1, <1>6, <1>7 DEF IInv, KeyInv, Executed, dbVars
    <2>2. RequestInv'
      BY <1>1, <1>6 DEF IInv, TypeOK, RequestInv, dbVars
    <2>3. (OutcomeInv /\ WinnerInv /\ OwnerInv)'
      BY <1>1, <1>6 DEF IInv, OutcomeInv, WinnerInv, OwnerInv, Executed, Judged, Begun, Recovering, dbVars
    <2> QED BY <2>1, <2>2, <2>3
  <1>9. (PhaseInv /\ EvidenceInv)'
    BY <1>1, <1>6 DEF IInv, PhaseInv, PhaseOf, EvidenceInv, EvidenceOf, Persisted, Judged, Begun, dbVars
  <1>10. (ClosedWithEvidence /\ ReplayIsHonest /\ OkIsReplayable)'
    BY <1>1 DEF IInv, ClosedWithEvidence, ReplayIsHonest, OkIsReplayable, dbVars
  <1> QED BY <1>5, <1>8, <1>9, <1>10 DEF IInv

-----------------------------------------------------------------------------
(* The theorems.                                                           *)

LEMMA InitEstablishes == Init => IInv
  <1> SUFFICES ASSUME Init PROVE IInv
    OBVIOUS
  <1>1. TypeOK
    BY ConstantsOK DEF Init, TypeOK, ConstantsOK, ClaimStatus, Lifecycle, Labels, Results, Idle
  <1>2. KeyInv /\ RequestInv /\ OutcomeInv /\ WinnerInv /\ OwnerInv
    BY ConstantsOK DEF Init, ConstantsOK, KeyInv, RequestInv, OutcomeInv, WinnerInv, OwnerInv,
                       Executed, Idle, Judged, Begun, Recovering
  <1>3. PhaseInv /\ EvidenceInv
    BY DEF Init, PhaseInv, PhaseOf, EvidenceInv, EvidenceOf, Persisted, Begun, Judged
  <1>4. ClosedWithEvidence /\ ReplayIsHonest /\ OkIsReplayable
    BY DEF Init, ClosedWithEvidence, ReplayIsHonest, OkIsReplayable, Final
  <1> QED BY <1>1, <1>2, <1>3, <1>4 DEF IInv

LEMMA StutterKeeps == ASSUME IInv, UNCHANGED vars PROVE IInv'
  <1>1. TypeOK'
    BY DEF IInv, TypeOK, vars, dbVars, runVars, ctlVars, envVars
  <1>2. Rest'
    BY SilentStep DEF ClaimsOpen, vars, dbVars, runVars, ctlVars, envVars
  <1> QED BY <1>1, <1>2 DEF Rest, IInv

LEMMA AdvanceKeeps == ASSUME IInv, NEW r \in Runs, Advance(r) PROVE IInv'
  BY InvokeKeeps, AcquireKeeps, ClaimKeeps, ReclaimKeeps, HeartbeatStartedKeeps, RejectKeeps,
     GetStateKeeps, BootstrapKeeps, BeginTaskKeeps, LogBeginKeeps, HealthCheckKeeps,
     CodexClosesKeeps, MoveToReconcilingKeeps, LogReconcilingKeeps, CollectKeeps,
     SnapshotThrowsKeeps, PersistKeeps, CloseTaskKeeps, LogCloseKeeps, FinishRunKeeps,
     SafeFailClaimKeeps, ReadStateKeeps, FailTaskKeeps, LogFailureKeeps, StopKeeps,
     ReleaseKeeps, StatementFailsKeeps
  DEF Advance

LEMMA NextKeeps == ASSUME IInv, Next PROVE IInv'
  <1>1. CASE \E w \in Windows, t \in Tasks : PrepareTask(w, t)
    BY <1>1, PrepareKeeps
  <1>2. CASE \E w \in Windows : Crash(w)
    BY <1>2, CrashKeeps
  <1>3. CASE \E r \in Runs : Advance(r)
    BY <1>3, AdvanceKeeps
  <1>4. CASE \E r \in Runs : Renew(r)
    BY <1>4, RenewLockKeeps, RenewClaimKeeps, RenewalFailsKeeps DEF Renew
  <1>5. CASE \E r \in Runs : BeatFires(r) \/ UserAbort(r) \/ OrphanExit(r)
    BY <1>5, BeatFiresKeeps, UserAbortKeeps, OrphanExitKeeps
  <1>6. CASE Tick
    BY <1>6, TickKeeps
  <1> QED BY <1>1, <1>2, <1>3, <1>4, <1>5, <1>6 DEF Next

(* The inductive invariant holds in every reachable state.                 *)
THEOREM Inductive == Spec => []IInv
  <1>1. Init => IInv
    BY InitEstablishes
  <1>2. IInv /\ [Next]_vars => IInv'
    BY NextKeeps, StutterKeeps
  <1> QED BY <1>1, <1>2, PTL DEF Spec

(* Every variable keeps its type: control points, table rows, claims.      *)
THEOREM TypeCorrect == Spec => []TypeOK
  <1>1. IInv => TypeOK
    BY DEF IInv
  <1> QED BY <1>1, Inductive, PTL

(* Exclusive execution of a task: BeginTask's compare-and-set alone gives  *)
(* it, whatever becomes of locks, claims, heartbeats and windows.          *)
THEOREM ExclusiveExecution == Spec => []OneRunPerTask
  <1>1. IInv => OneRunPerTask
    BY DEF IInv, OwnerInv, OneRunPerTask
  <1> QED BY <1>1, Inductive, PTL

(* A task that closed without failing has the execution row that tells why. *)
THEOREM Evidence == Spec => []ClosedWithEvidence
  <1>1. IInv => ClosedWithEvidence
    BY DEF IInv
  <1> QED BY <1>1, Inductive, PTL

(* A replayed success is the one of the run that closed the task.          *)
THEOREM HonestReplay == Spec => []ReplayIsHonest
  <1>1. IInv => ReplayIsHonest
    BY DEF IInv
  <1> QED BY <1>1, Inductive, PTL

(* What was answered ok is what every later retry of the key replays.      *)
THEOREM DurableAnswer == Spec => []OkIsReplayable
  <1>1. IInv => OkIsReplayable
    BY DEF IInv
  <1> QED BY <1>1, Inductive, PTL

(***************************************************************************)
(* RunPlane implements TaskLedger: seen through the refinement mapping of  *)
(* RunPlane!Ledger, BeginTask gives a task to a run, PersistExecution      *)
(* records its outcome, CloseTask closes the task, FailTask fails it, and  *)
(* every other step is a stutter.                                          *)
(***************************************************************************)

(* The mapping, named as in TaskLedger.                                    *)
Recorded == [t \in Tasks |-> IF winner[t] = NoRun THEN "none" ELSE execution[winner[t]]]

Verdict == [t \in Tasks |-> IF task[t] \in Final THEN task[t] ELSE "open"]

LEMMA LedgerVars ==
    ASSUME winner' = winner, Recorded' = Recorded, Verdict' = Verdict
    PROVE  UNCHANGED Ledger!ledgerVars
  BY DEF Ledger!ledgerVars, Recorded, Verdict

(* A step that writes neither task, winner nor execution is not seen.      *)
LEMMA Unseen ==
    ASSUME UNCHANGED <<winner, execution, task>> PROVE UNCHANGED Ledger!ledgerVars
  BY LedgerVars DEF Recorded, Verdict

(* Nor is one that keeps every task that is final, and makes none final.   *)
LEMMA OpenStaysOpen ==
    ASSUME UNCHANGED <<winner, execution>>,
           \A t \in Tasks : task'[t] = task[t] \/ {task[t], task'[t]} \intersect Final = {}
    PROVE  UNCHANGED Ledger!ledgerVars
  <1>1. Recorded' = Recorded
    BY DEF Recorded
  <1>2. \A t \in Tasks : (IF task'[t] \in Final THEN task'[t] ELSE "open")
                         = (IF task[t] \in Final THEN task[t] ELSE "open")
    OBVIOUS
  <1>3. Verdict' = Verdict
    BY <1>2 DEF Verdict
  <1> QED BY <1>1, <1>3, LedgerVars

(* A task that becomes final gets its state as verdict.                    *)
LEMMA VerdictGiven ==
    ASSUME TypeOK, NEW t \in Tasks, NEW to \in Final, task[t] \notin Final,
           task' = [task EXCEPT ![t] = to]
    PROVE  Verdict[t] = "open" /\ Verdict' = [Verdict EXCEPT ![t] = to]
  <1>1. \A u \in Tasks : task'[u] = IF u = t THEN to ELSE task[u]
    BY DEF TypeOK
  <1>2. Verdict' = [u \in Tasks |-> IF task'[u] \in Final THEN task'[u] ELSE "open"]
    BY DEF Verdict
  <1> QED BY <1>1, <1>2 DEF Verdict

(* BeginTask gives the task.                                               *)
LEMMA BeginGives == ASSUME IInv, NEW r \in Runs, BeginTask(r) PROVE [Ledger!Next]_Ledger!ledgerVars
  <1>0. PICK t \in Tasks : t = req[r].task
    BY ReqType DEF BeginTask, TransitionTaskState
  <1>1. TypeOK /\ t \in Tasks /\ execution' = execution /\ req[r] \in Keys
    BY <1>0, ReqType DEF IInv, BeginTask, TransitionTaskState
  <1>2. CASE ~(RowExists(r) /\ task[t] = "prepared")
    <2>1. UNCHANGED <<winner, task>>
      BY <1>0, <1>2 DEF BeginTask, TransitionTaskState
    <2> QED BY <1>1, <2>1, Unseen
  <1>3. CASE RowExists(r) /\ task[t] = "prepared"
    <2>1. task' = [task EXCEPT ![t] = "running"] /\ winner' = [winner EXCEPT ![t] = r]
      BY <1>0, <1>3 DEF BeginTask, TransitionTaskState
    <2>2. winner[t] = NoRun /\ r # NoRun
      BY <1>0, <1>1, <1>3, ConstantsOK DEF ConstantsOK, IInv, WinnerInv
    <2>3. execution[r] = "none"
      BY <1>0, <1>1, <2>2 DEF IInv, OwnerInv, Executed
    <2>4. /\ task'[t] = "running" /\ winner'[t] = r
          /\ \A u \in Tasks \ {t} : task'[u] = task[u] /\ winner'[u] = winner[u]
      BY <1>1, <2>1 DEF TypeOK
    <2>5. Recorded' = Recorded
      <3>1. \A u \in Tasks : (IF winner'[u] = NoRun THEN "none" ELSE execution'[winner'[u]])
                             = (IF winner[u] = NoRun THEN "none" ELSE execution[winner[u]])
        BY <1>1, <2>2, <2>3, <2>4
      <3> QED BY <3>1 DEF Recorded
    <2>6. Verdict' = Verdict
      <3>1. \A u \in Tasks : (IF task'[u] \in Final THEN task'[u] ELSE "open")
                             = (IF task[u] \in Final THEN task[u] ELSE "open")
        BY <1>3, <2>4 DEF Final
      <3> QED BY <3>1 DEF Verdict
    <2>7. Ledger!Give(t, r)
      BY <2>1, <2>2, <2>5, <2>6 DEF Ledger!Give, Recorded, Verdict
    <2> QED BY <2>7 DEF Ledger!Next
  <1> QED BY <1>2, <1>3

(* PersistExecution records the outcome.                                   *)
LEMMA PersistRecords ==
    ASSUME IInv, NEW r \in Runs, PersistExecution(r) PROVE [Ledger!Next]_Ledger!ledgerVars
  <1>0. PICK t \in Tasks : t = req[r].task
    BY ReqType DEF PersistExecution
  <1>a. PICK o \in Outcomes : o = outcome[r]
    BY DEF IInv, OutcomeInv, Judged, PersistExecution
  <1>1. /\ TypeOK /\ pc[r] = "persist" /\ t \in Tasks /\ winner[t] = r /\ r # NoRun
        /\ outcome[r] = o /\ task[t] = "reconciling" /\ execution[r] = "none"
    BY <1>0, <1>a, ReqType, ConstantsOK
    DEF ConstantsOK, IInv, OwnerInv, OutcomeInv, PhaseInv, PhaseOf, EvidenceInv, EvidenceOf,
        Begun, Judged, Persisted, PersistExecution
  <1>2. execution' = [execution EXCEPT ![r] = o] /\ UNCHANGED <<task, winner>>
    BY <1>a DEF PersistExecution
  <1>3. \A u \in Tasks \ {t} : winner[u] = NoRun \/ (winner[u] \in Runs /\ winner[u] # r)
    BY <1>0, <1>1 DEF IInv, WinnerInv
  <1>4. /\ execution'[r] = o
        /\ \A q \in Runs \ {r} : execution'[q] = execution[q]
    BY <1>1, <1>2 DEF TypeOK
  <1>5. /\ Recorded[t] = "none" /\ Verdict[t] = "open"
    BY <1>1 DEF Recorded, Verdict, Final
  <1>6. Recorded' = [Recorded EXCEPT ![t] = o]
    <2>1. Recorded' = [u \in Tasks |-> IF winner[u] = NoRun THEN "none" ELSE execution'[winner[u]]]
      BY <1>2 DEF Recorded
    <2>2. \A u \in Tasks : (IF winner[u] = NoRun THEN "none" ELSE execution'[winner[u]])
                           = IF u = t THEN o ELSE Recorded[u]
      BY <1>1, <1>3, <1>4 DEF Recorded
    <2> QED BY <2>1, <2>2 DEF Recorded
  <1>7. Verdict' = Verdict
    BY <1>2 DEF Verdict
  <1>8. Ledger!Record(t, o)
    BY <1>1, <1>2, <1>5, <1>6, <1>7 DEF Ledger!Record, Recorded, Verdict
  <1> QED BY <1>8 DEF Ledger!Next

(* CloseTask closes the task with the verdict of the recorded outcome.     *)
LEMMA CloseCloses == ASSUME IInv, NEW r \in Runs, CloseTask(r) PROVE [Ledger!Next]_Ledger!ledgerVars
  <1>0. PICK t \in Tasks : t = req[r].task
    BY ReqType DEF CloseTask, TransitionTaskState
  <1>1. /\ TypeOK /\ pc[r] = "close" /\ t \in Tasks /\ winner[t] = r /\ r # NoRun
        /\ outcome[r] \in Outcomes /\ task[t] = "reconciling" /\ execution[r] = outcome[r]
    BY <1>0, ReqType, ConstantsOK
    DEF ConstantsOK, IInv, OwnerInv, OutcomeInv, PhaseInv, PhaseOf, EvidenceInv, EvidenceOf,
        Begun, Judged, Persisted, CloseTask, TransitionTaskState
  <1>2. UNCHANGED <<execution, winner>>
    BY <1>0 DEF CloseTask, TransitionTaskState
  <1>3. CASE UNCHANGED task
    BY <1>2, <1>3, Unseen
  <1>4. CASE task' = [task EXCEPT ![t] = FinalTaskState[outcome[r]]]
    <2>1. FinalTaskState[outcome[r]] \in Final /\ task[t] \notin Final
      BY <1>1, FinalTaskStateType DEF Final
    <2>2. Verdict[t] = "open" /\ Verdict' = [Verdict EXCEPT ![t] = FinalTaskState[outcome[r]]]
      BY <1>1, <1>4, <2>1, VerdictGiven
    <2>3. Recorded[t] = outcome[r] /\ Recorded' = Recorded
      BY <1>1, <1>2 DEF Recorded
    <2>4. Ledger!Close(t)
      BY <1>1, <1>2, <2>2, <2>3 DEF Ledger!Close, Recorded, Verdict
    <2> QED BY <2>4 DEF Ledger!Next
  <1> QED BY <1>0, <1>3, <1>4 DEF CloseTask, TransitionTaskState

(* FailTask fails it.                                                      *)
LEMMA FailFails == ASSUME IInv, NEW r \in Runs, FailTask(r) PROVE [Ledger!Next]_Ledger!ledgerVars
  <1>0. PICK t \in Tasks : t = req[r].task
    BY ReqType DEF FailTask, TransitionTaskState
  <1>1. TypeOK /\ pc[r] \in {"catchrunning", "catchrecon"} /\ t \in Tasks
    BY <1>0, ReqType DEF IInv, FailTask, TransitionTaskState
  <1>2. UNCHANGED <<execution, winner>>
    BY <1>0 DEF FailTask, TransitionTaskState
  <1>3. CASE UNCHANGED task
    BY <1>2, <1>3, Unseen
  <1>4. CASE task[t] \in {"running", "reconciling"} /\ task' = [task EXCEPT ![t] = "failed"]
    <2>1. "failed" \in Final /\ task[t] \notin Final /\ winner[t] # NoRun
      BY <1>0, <1>1, <1>4 DEF Final, IInv, WinnerInv
    <2>2. Verdict[t] = "open" /\ Verdict' = [Verdict EXCEPT ![t] = "failed"]
      BY <1>1, <1>4, <2>1, VerdictGiven
    <2>3. Recorded' = Recorded
      BY <1>2 DEF Recorded
    <2>4. Ledger!Fail(t)
      BY <1>2, <2>1, <2>2, <2>3 DEF Ledger!Fail, Recorded, Verdict
    <2> QED BY <2>4 DEF Ledger!Next
  <1> QED BY <1>0, <1>3, <1>4 DEF FailTask, TransitionTaskState

(* Going to reconciling, and preparing a task, decide nothing.             *)
LEMMA ReconcilingUnseen ==
    ASSUME IInv, NEW r \in Runs, MoveToReconciling(r) PROVE UNCHANGED Ledger!ledgerVars
  <1>1. TypeOK /\ req[r].task \in Tasks
    BY ReqType DEF IInv, MoveToReconciling, TransitionTaskState
  <1>2. UNCHANGED <<winner, execution>>
        /\ \/ UNCHANGED task
           \/ task[req[r].task] = "running" /\ task' = [task EXCEPT ![req[r].task] = "reconciling"]
    BY DEF MoveToReconciling, TransitionTaskState
  <1>3. \A u \in Tasks : task'[u] = task[u] \/ (task[u] = "running" /\ task'[u] = "reconciling")
    BY <1>1, <1>2 DEF TypeOK
  <1>4. {"running", "reconciling"} \intersect Final = {}
    BY DEF Final
  <1> QED BY <1>2, <1>3, <1>4, OpenStaysOpen

LEMMA PrepareUnseen ==
    ASSUME IInv, NEW w \in Windows, NEW t \in Tasks, PrepareTask(w, t)
    PROVE  UNCHANGED Ledger!ledgerVars
  <1>1. UNCHANGED <<winner, execution>> /\ task[t] = "absent" /\ task' = [task EXCEPT ![t] = "prepared"]
    BY DEF PrepareTask
  <1>2. \A u \in Tasks : task'[u] = task[u] \/ (task[u] = "absent" /\ task'[u] = "prepared")
    BY <1>1 DEF IInv, TypeOK
  <1>3. {"absent", "prepared"} \intersect Final = {}
    BY DEF Final
  <1> QED BY <1>1, <1>2, <1>3, OpenStaysOpen

LEMMA InitMaps == Init => Ledger!Init
  <1> SUFFICES ASSUME Init PROVE Ledger!Init
    OBVIOUS
  <1>1. "absent" \notin Final
    BY DEF Final
  <1> QED BY <1>1 DEF Init, Ledger!Init

LEMMA AdvanceMaps ==
    ASSUME IInv, NEW r \in Runs, Advance(r) PROVE [Ledger!Next]_Ledger!ledgerVars
  <1>1. CASE BeginTask(r)
    BY <1>1, BeginGives
  <1>2. CASE PersistExecution(r)
    BY <1>2, PersistRecords
  <1>3. CASE CloseTask(r)
    BY <1>3, CloseCloses
  <1>4. CASE FailTask(r)
    BY <1>4, FailFails
  <1>5. CASE MoveToReconciling(r)
    BY <1>5, ReconcilingUnseen
  <1>6. CASE BootstrapTaskState(r)
    <2>1. ~RowExists(r)
      BY <1>6 DEF IInv, RequestInv, RowExists, BootstrapTaskState
    <2> QED BY <1>6, <2>1, Unseen DEF BootstrapTaskState
  <1>7. CASE \/ LogBegin(r) \/ LogReconciling(r) \/ LogClose(r) \/ LogFailure(r)
    BY <1>7, Unseen DEF LogBegin, LogReconciling, LogClose, LogFailure, LogTransition
  <1>8. CASE \/ AcquireProjectRunLock(r) \/ ClaimIdempotency(r) \/ ReclaimIdempotency(r)
             \/ RejectCommand(r) \/ FinishRun(r) \/ SafeFailClaim(r) \/ ReleaseProjectRunLock(r)
    BY <1>8, Unseen DEF AcquireProjectRunLock, ClaimIdempotency, ReclaimIdempotency,
                        RejectCommand, FinishRun, SafeFailClaim, ReleaseProjectRunLock
  <1>9. CASE \/ Invoke(r) \/ HeartbeatStarted(r) \/ GetTaskLifecycleState(r) \/ HealthCheck(r)
             \/ CodexCloses(r) \/ CollectOutcome(r) \/ SnapshotThrows(r)
             \/ ReadStateAfterFailure(r) \/ StopHeartbeat(r) \/ StatementFails(r)
    BY <1>9, Unseen DEF Invoke, HeartbeatStarted, GetTaskLifecycleState, HealthCheck,
                        CodexCloses, CollectOutcome, SnapshotThrows, ReadStateAfterFailure,
                        StopHeartbeat, StatementFails, dbVars
  <1> QED BY <1>1, <1>2, <1>3, <1>4, <1>5, <1>6, <1>7, <1>8, <1>9 DEF Advance

LEMMA NextMaps == ASSUME IInv, Next PROVE [Ledger!Next]_Ledger!ledgerVars
  <1>1. CASE \E w \in Windows, t \in Tasks : PrepareTask(w, t)
    BY <1>1, PrepareUnseen
  <1>2. CASE \E r \in Runs : Advance(r)
    BY <1>2, AdvanceMaps
  <1>3. CASE \E r \in Runs : Renew(r)
    BY <1>3, Unseen DEF Renew, RenewProjectRunLock, RenewIdempotencyClaim, RenewalFails, dbVars
  <1>4. CASE (\E w \in Windows : Crash(w)) \/ Tick
    BY <1>4, Unseen DEF Crash, Tick, dbVars
  <1>5. CASE \E r \in Runs : BeatFires(r) \/ UserAbort(r) \/ OrphanExit(r)
    BY <1>5, Unseen DEF BeatFires, UserAbort, OrphanExit, dbVars
  <1> QED BY <1>1, <1>2, <1>3, <1>4, <1>5 DEF Next

(* The run plane keeps the promise of TaskLedger: a task is given once, its *)
(* outcome recorded once, and it is closed once, with the verdict recorded. *)
THEOREM RefinesLedger == Spec => ImplementsLedger
  <1>1. Init => Ledger!Init
    BY InitMaps
  <1>2. IInv /\ [Next]_vars => [Ledger!Next]_Ledger!ledgerVars
    <2>1. ASSUME UNCHANGED vars PROVE UNCHANGED Ledger!ledgerVars
      BY <2>1, Unseen DEF vars, dbVars
    <2> QED BY <2>1, NextMaps
  <1> QED BY <1>1, <1>2, Inductive, PTL DEF Spec, Ledger!Spec, ImplementsLedger

(***************************************************************************)
(* RunPlane implements TaskSource: PrepareTask offers a task, BeginTask    *)
(* takes it, a window that dies closes, and an offer lapses when the last  *)
(* invocation that holds a task no store shows gives it up.                *)
(***************************************************************************)
State == [t \in Tasks |-> Standing(t)]

InHand(t) == (\E w \in Windows : draft[w] = t) \/ (\E r \in Runs : Holds(r, t))

LEMMA Stands ==
    ASSUME NEW t \in Tasks
    PROVE  /\ task[t] = "absent" => Standing(t) = "absent"
           /\ task[t] \notin {"absent", "prepared"} => Standing(t) = "taken"
           /\ task[t] = "prepared" /\ InHand(t) => Standing(t) = "offered"
           /\ task[t] = "prepared" /\ ~InHand(t) => Standing(t) = "lapsed"
  BY DEF Standing, InHand

LEMMA StandsNext ==
    ASSUME NEW t \in Tasks
    PROVE  /\ task'[t] = "absent" => Standing(t)' = "absent"
           /\ task'[t] \notin {"absent", "prepared"} => Standing(t)' = "taken"
           /\ task'[t] = "prepared" /\ InHand(t)' => Standing(t)' = "offered"
           /\ task'[t] = "prepared" /\ ~InHand(t)' => Standing(t)' = "lapsed"
  BY DEF Standing, InHand

LEMMA Drops ==
    ASSUME UNCHANGED draft,
           \A u \in Tasks :
               \/ Standing(u)' = Standing(u)
               \/ Standing(u) = "offered" /\ Standing(u)' = "lapsed" /\ \A w \in Windows : draft[w] # u
    PROVE  Source!Drop
  <1>1. PICK lapsed : lapsed = {u \in Tasks : Standing(u) = "offered" /\ Standing(u)' = "lapsed"}
    OBVIOUS
  <1>2. /\ lapsed \in SUBSET {u \in Tasks : State[u] = "offered"}
        /\ \A w \in Windows : draft'[w] \notin lapsed
    BY <1>1 DEF State
  <1>3. State' = [u \in Tasks |-> IF u \in lapsed THEN "lapsed" ELSE State[u]]
    <2>1. State' = [u \in Tasks |-> Standing(u)']
      BY DEF State
    <2>2. \A u \in Tasks : Standing(u)' = IF u \in lapsed THEN "lapsed" ELSE State[u]
      BY <1>1 DEF State
    <2> QED BY <2>1, <2>2
  <1> QED BY <1>2, <1>3 DEF Source!Drop, Source!Lapse, State

(* A task that is not written and comes into nobody's hands.               *)
LEMMA Falls ==
    ASSUME NEW u \in Tasks, task'[u] = task[u], InHand(u)' => InHand(u)
    PROVE  \/ Standing(u)' = Standing(u)
           \/ Standing(u) = "offered" /\ Standing(u)' = "lapsed" /\ ~InHand(u)'
  BY DEF Standing, InHand

(* A step that moves no task out of the store's sight or into it, and in   *)
(* which no invocation comes to hold a task that nobody held.              *)
LEMMA QuietSource ==
    ASSUME UNCHANGED draft,
           \A u \in Tasks :
               \/ task'[u] = task[u]
               \/ task[u] \notin {"absent", "prepared"} /\ task'[u] \notin {"absent", "prepared"},
           \A q \in Runs, u \in Tasks : Holds(q, u)' => InHand(u)
    PROVE  Source!Drop
  <1>1. ASSUME NEW u \in Tasks
        PROVE  \/ Standing(u)' = Standing(u)
               \/ Standing(u) = "offered" /\ Standing(u)' = "lapsed" /\ \A w \in Windows : draft[w] # u
    <2>1. CASE task[u] \notin {"absent", "prepared"} /\ task'[u] \notin {"absent", "prepared"}
      BY <2>1, Stands, StandsNext
    <2>2. CASE task'[u] = task[u]
      <3>1. InHand(u)' => InHand(u)
        BY DEF InHand
      <3>2. (\E w \in Windows : draft[w] = u) => InHand(u)'
        BY DEF InHand
      <3> QED BY <2>2, <3>1, <3>2, Falls
    <2> QED BY <2>1, <2>2
  <1> QED BY <1>1, Drops

(* Every step of an invocation but its first.                              *)
RunMoves(r) ==
    /\ pc[r] \notin {"idle"} \union Ended
    /\ \A q \in Runs \ {r} : pc'[q] = pc[q]
    /\ UNCHANGED <<draft, req>>

LEMMA MovesOn ==
    ASSUME IInv, NEW r \in Runs, Advance(r), ~Invoke(r)
    PROVE  RunMoves(r)
  <1> USE DEF RunMoves, Ended, Statements, Returns, Goes, Raises, Throws, Answers, AnswersResult,
              runVars, envVars
  <1>0. pc \in [Runs -> Labels]
    BY DEF IInv, TypeOK
  <1>1. CASE \/ AcquireProjectRunLock(r) \/ ClaimIdempotency(r) \/ ReclaimIdempotency(r)
    BY <1>0, <1>1 DEF AcquireProjectRunLock, ClaimIdempotency, ReclaimIdempotency
  <1>2. CASE HeartbeatStarted(r) \/ RejectCommand(r) \/ GetTaskLifecycleState(r)
    BY <1>0, <1>2 DEF HeartbeatStarted, RejectCommand, GetTaskLifecycleState
  <1>3. CASE BootstrapTaskState(r)
    BY <1>0, <1>3 DEF BootstrapTaskState
  <1>4. CASE BeginTask(r)
    BY <1>0, <1>4 DEF BeginTask, TransitionTaskState
  <1>5. CASE LogBegin(r) \/ LogReconciling(r) \/ LogClose(r) \/ LogFailure(r)
    BY <1>0, <1>5 DEF LogBegin, LogReconciling, LogClose, LogFailure, LogTransition
  <1>6. CASE HealthCheck(r) \/ CodexCloses(r) \/ CollectOutcome(r) \/ SnapshotThrows(r)
    BY <1>0, <1>6 DEF HealthCheck, CodexCloses, CollectOutcome, SnapshotThrows
  <1>7. CASE MoveToReconciling(r) \/ CloseTask(r) \/ FailTask(r)
    BY <1>0, <1>7 DEF MoveToReconciling, CloseTask, FailTask, TransitionTaskState
  <1>8. CASE PersistExecution(r) \/ FinishRun(r) \/ SafeFailClaim(r) \/ ReadStateAfterFailure(r)
    BY <1>0, <1>8 DEF PersistExecution, FinishRun, SafeFailClaim, ReadStateAfterFailure
  <1>9. CASE StopHeartbeat(r) \/ ReleaseProjectRunLock(r) \/ StatementFails(r)
    BY <1>0, <1>9 DEF StopHeartbeat, ReleaseProjectRunLock, StatementFails
  <1> QED BY <1>1, <1>2, <1>3, <1>4, <1>5, <1>6, <1>7, <1>8, <1>9 DEF Advance

(* It holds what it held, or gives it up.                                  *)
LEMMA MovesHold ==
    ASSUME NEW r \in Runs, RunMoves(r), NEW q \in Runs, NEW u \in Tasks, Holds(q, u)'
    PROVE  Holds(q, u)
  BY DEF RunMoves, Holds

(* A run that writes a task it moved to running before, or none.           *)
LEMMA RunsQuietly ==
    ASSUME IInv, NEW r \in Runs, Advance(r), ~Invoke(r),
           \/ UNCHANGED task
           \/ \E t \in Tasks, to \in Lifecycle \ {"absent", "prepared"} :
                  task[t] \notin {"absent", "prepared"} /\ task' = [task EXCEPT ![t] = to]
    PROVE  Source!Drop
  <1>1. RunMoves(r) /\ task \in [Tasks -> Lifecycle]
    BY MovesOn DEF IInv, TypeOK
  <1>2. \A u \in Tasks :
            \/ task'[u] = task[u]
            \/ task[u] \notin {"absent", "prepared"} /\ task'[u] \notin {"absent", "prepared"}
    BY <1>1
  <1>3. UNCHANGED draft
    BY <1>1 DEF RunMoves
  <1>4. \A q \in Runs, u \in Tasks : Holds(q, u)' => InHand(u)
    BY <1>1, MovesHold DEF InHand
  <1> QED BY <1>2, <1>3, <1>4, QuietSource

LEMMA BeginTakes ==
    ASSUME IInv, NEW r \in Runs, BeginTask(r)
    PROVE  Source!Drop \/ \E t \in Tasks : Source!Take(t)
  <1>1. Advance(r) /\ ~Invoke(r)
    BY DEF Advance, BeginTask, TransitionTaskState, Invoke
  <1>2. PICK t \in Tasks : t = req[r].task
    BY ReqType DEF BeginTask, TransitionTaskState
  <1>3. CASE UNCHANGED task
    BY <1>1, <1>3, RunsQuietly
  <1>4. CASE task[t] = "prepared" /\ task' = [task EXCEPT ![t] = "running"]
    <2>1. task'[t] = "running" /\ \A u \in Tasks \ {t} : task'[u] = task[u]
      BY <1>4 DEF IInv, TypeOK
    <2>2. InHand(t) /\ Standing(t) = "offered" /\ Standing(t)' = "taken"
      <3>1. Holds(r, t)
        BY <1>2 DEF Holds, BeginTask, TransitionTaskState, Ended
      <3> QED BY <1>4, <2>1, <3>1, Stands, StandsNext DEF InHand
    <2>3. ASSUME NEW u \in Tasks \ {t} PROVE Standing(u)' = Standing(u)
      <3>1. /\ RunMoves(r) /\ pc'[r] \notin {"idle"} \union Ended
        <4>1. pc \in [Runs -> Labels]
          BY DEF IInv, TypeOK
        <4>2. pc'[r] \in {"beginlog", "catchclaim"}
          BY <4>1 DEF BeginTask, TransitionTaskState, Answers, Goes, Returns, Throws, Raises,
             Handler, Guarded
        <4> QED BY <1>1, <4>2, MovesOn DEF Ended
      <3>2. \A q \in Runs : Holds(q, u)' <=> Holds(q, u)
        BY <3>1 DEF RunMoves, Holds
      <3> QED BY <2>1, <3>1, <3>2 DEF Standing, RunMoves
    <2>4. State' = [State EXCEPT ![t] = "taken"]
      <3>1. State' = [u \in Tasks |-> Standing(u)']
        BY DEF State
      <3> QED BY <2>2, <2>3, <3>1 DEF State
    <2>5. UNCHANGED draft
      BY DEF BeginTask, TransitionTaskState, envVars
    <2>6. Source!Take(t)
      BY <2>2, <2>4, <2>5 DEF Source!Take, State
    <2> QED BY <2>6
  <1> QED BY <1>2, <1>3, <1>4 DEF BeginTask, TransitionTaskState

(* Invoke takes what its store shows.                                      *)
LEMMA InvokeHolds == ASSUME IInv, NEW r \in Runs, Invoke(r) PROVE Source!Drop
  <1>1. UNCHANGED <<draft, task>>
    BY DEF Invoke, envVars, dbVars
  <1>2. pc \in [Runs -> Labels] /\ req \in [Runs -> Keys \union {NoKey}] /\ WindowOf[r] \in Windows
    BY ConstantsOK DEF IInv, TypeOK, ConstantsOK
  <1>3. \A q \in Runs \ {r} : pc'[q] = pc[q] /\ req'[q] = req[q]
    BY <1>2 DEF Invoke, Goes, Returns
  <1>4. pc'[r] = "done" \/ req'[r].task = draft[WindowOf[r]]
    BY <1>2 DEF Invoke, Goes, Returns
  <1>5. ASSUME NEW q \in Runs, NEW u \in Tasks, Holds(q, u)' PROVE InHand(u)
    <2>1. CASE q = r
      BY <1>2, <1>4, <1>5, <2>1 DEF Holds, InHand, Ended
    <2>2. CASE q # r
      BY <1>3, <1>5, <2>2 DEF Holds, InHand
    <2> QED BY <2>1, <2>2
  <1> QED BY <1>1, <1>5, QuietSource

LEMMA PrepareOffers ==
    ASSUME IInv, NEW w \in Windows, NEW t \in Tasks, PrepareTask(w, t)
    PROVE  Source!Offer(w, t)
  <1>1. /\ task[t] = "absent" /\ task'[t] = "prepared" /\ \A u \in Tasks \ {t} : task'[u] = task[u]
        /\ draft' = [draft EXCEPT ![w] = t]
        /\ draft'[w] = t /\ \A v \in Windows \ {w} : draft'[v] = draft[v]
        /\ UNCHANGED <<req, pc>>
    BY DEF IInv, TypeOK, PrepareTask, runVars, ctlVars
  <1>2. Standing(t) = "absent" /\ Standing(t)' = "offered"
    BY <1>1, Stands, StandsNext DEF InHand
  <1>3. ASSUME NEW u \in Tasks \ {t}
        PROVE  \/ Standing(u)' = Standing(u)
               \/ Standing(u) = "offered" /\ Standing(u)' = "lapsed" /\ ~InHand(u)'
    <2>1. InHand(u)' => InHand(u)
      BY <1>1, <1>3 DEF InHand, Holds
    <2> QED BY <1>1, <2>1, Falls
  <1>4. PICK lapsed : lapsed = {u \in Tasks \ {t} : Standing(u) = "offered" /\ Standing(u)' = "lapsed"}
    OBVIOUS
  <1>5. PICK offering : offering = [State EXCEPT ![t] = "offered"]
    OBVIOUS
  <1>6. offering[t] = "offered" /\ \A u \in Tasks \ {t} : offering[u] = Standing(u)
    BY <1>5 DEF State
  <1>7. /\ lapsed \in SUBSET {u \in Tasks : offering[u] = "offered"}
        /\ \A v \in Windows : draft'[v] \notin lapsed
    BY <1>1, <1>2, <1>3, <1>4, <1>6 DEF InHand
  <1>8. State' = [u \in Tasks |-> IF u \in lapsed THEN "lapsed" ELSE offering[u]]
    <2>1. State' = [u \in Tasks |-> Standing(u)']
      BY DEF State
    <2>2. \A u \in Tasks : Standing(u)' = IF u \in lapsed THEN "lapsed" ELSE offering[u]
      BY <1>2, <1>3, <1>4, <1>6
    <2> QED BY <2>1, <2>2
  <1> QED BY <1>1, <1>2, <1>5, <1>7, <1>8 DEF Source!Offer, Source!Lapse, State

LEMMA CrashCloses ==
    ASSUME IInv, NEW w \in Windows, Crash(w)
    PROVE  Source!Close(w)
  <1>1. /\ draft' = [draft EXCEPT ![w] = NoTask] /\ UNCHANGED <<task, req>>
        /\ draft'[w] = NoTask /\ \A v \in Windows \ {w} : draft'[v] = draft[v]
    BY DEF IInv, TypeOK, Crash, dbVars
  <1>2. \A q \in Runs : pc'[q] = pc[q] \/ pc'[q] = "crashed"
    BY DEF Crash
  <1>3. ASSUME NEW u \in Tasks
        PROVE  \/ Standing(u)' = Standing(u)
               \/ Standing(u) = "offered" /\ Standing(u)' = "lapsed" /\ ~InHand(u)'
    <2>1. \A q \in Runs : Holds(q, u)' => Holds(q, u)
      BY <1>1, <1>2 DEF Holds, Ended
    <2>2. InHand(u)' => InHand(u)
      BY <1>1, <2>1, ConstantsOK DEF InHand, ConstantsOK
    <2> QED BY <1>1, <2>2, Falls
  <1>4. PICK lapsed : lapsed = {u \in Tasks : Standing(u) = "offered" /\ Standing(u)' = "lapsed"}
    OBVIOUS
  <1>5. /\ lapsed \in SUBSET {u \in Tasks : State[u] = "offered"}
        /\ \A v \in Windows : draft'[v] \notin lapsed
    BY <1>3, <1>4 DEF InHand, State
  <1>6. State' = [u \in Tasks |-> IF u \in lapsed THEN "lapsed" ELSE State[u]]
    <2>1. State' = [u \in Tasks |-> Standing(u)']
      BY DEF State
    <2>2. \A u \in Tasks : Standing(u)' = IF u \in lapsed THEN "lapsed" ELSE State[u]
      BY <1>3, <1>4 DEF State
    <2> QED BY <2>1, <2>2
  <1> QED BY <1>1, <1>5, <1>6 DEF Source!Close, Source!Lapse, State

LEMMA AdvanceSource ==
    ASSUME IInv, NEW r \in Runs, Advance(r) PROVE Source!Next
  <1> USE DEF Source!Next
  <1>1. CASE Invoke(r)
    BY <1>1, InvokeHolds
  <1>2. CASE BeginTask(r)
    BY <1>2, BeginTakes
  <1>3. CASE MoveToReconciling(r) \/ CloseTask(r) \/ FailTask(r)
    <2>1. ~Invoke(r) /\ req[r].task \in Tasks /\ pc[r] \in {"moverecon", "close", "catchrunning", "catchrecon"}
      BY <1>3, ReqType DEF MoveToReconciling, CloseTask, FailTask, TransitionTaskState, Invoke
    <2>2. pc[r] = "close" => FinalTaskState[outcome[r]] \in Final
      BY FinalTaskStateType DEF IInv, OutcomeInv, Judged
    <2>3. \/ UNCHANGED task
          \/ \E t \in Tasks, to \in Lifecycle \ {"absent", "prepared"} :
                 task[t] \notin {"absent", "prepared"} /\ task' = [task EXCEPT ![t] = to]
      BY <1>3, <2>1, <2>2 DEF MoveToReconciling, CloseTask, FailTask, TransitionTaskState, Lifecycle, Final
    <2> QED BY <2>1, <2>3, RunsQuietly
  <1>4. CASE BootstrapTaskState(r)
    <2>1. ~RowExists(r) /\ ~Invoke(r)
      BY <1>4 DEF IInv, RequestInv, RowExists, BootstrapTaskState, Invoke
    <2> QED BY <1>4, <2>1, RunsQuietly DEF BootstrapTaskState
  <1>5. ASSUME ~Invoke(r), UNCHANGED task PROVE Source!Next
    BY <1>5, RunsQuietly
  <1>6. CASE \/ LogBegin(r) \/ LogReconciling(r) \/ LogClose(r) \/ LogFailure(r)
    BY <1>1, <1>5, <1>6 DEF LogBegin, LogReconciling, LogClose, LogFailure, LogTransition
  <1>7. CASE \/ AcquireProjectRunLock(r) \/ ClaimIdempotency(r) \/ ReclaimIdempotency(r)
             \/ RejectCommand(r) \/ FinishRun(r) \/ SafeFailClaim(r) \/ ReleaseProjectRunLock(r)
             \/ PersistExecution(r)
    BY <1>1, <1>5, <1>7 DEF AcquireProjectRunLock, ClaimIdempotency, ReclaimIdempotency,
                        RejectCommand, FinishRun, SafeFailClaim, ReleaseProjectRunLock, PersistExecution
  <1>8. CASE \/ HeartbeatStarted(r) \/ GetTaskLifecycleState(r) \/ HealthCheck(r)
             \/ CodexCloses(r) \/ CollectOutcome(r) \/ SnapshotThrows(r)
             \/ ReadStateAfterFailure(r) \/ StopHeartbeat(r) \/ StatementFails(r)
    BY <1>1, <1>5, <1>8 DEF HeartbeatStarted, GetTaskLifecycleState, HealthCheck,
                        CodexCloses, CollectOutcome, SnapshotThrows, ReadStateAfterFailure,
                        StopHeartbeat, StatementFails, dbVars
  <1> QED BY <1>1, <1>2, <1>3, <1>4, <1>6, <1>7, <1>8 DEF Advance

LEMMA StillSource ==
    ASSUME UNCHANGED <<draft, task, pc, req>> PROVE Source!Drop
  <1>1. \A q \in Runs, u \in Tasks : Holds(q, u)' => InHand(u)
    BY DEF Holds, InHand
  <1> QED BY <1>1, QuietSource

LEMMA NextSource == ASSUME IInv, [Next]_vars PROVE Source!Next
  <1>1. CASE \E w \in Windows, t \in Tasks : PrepareTask(w, t)
    BY <1>1, PrepareOffers DEF Source!Next
  <1>2. CASE \E w \in Windows : Crash(w)
    BY <1>2, CrashCloses DEF Source!Next
  <1>3. CASE \E r \in Runs : Advance(r)
    BY <1>3, AdvanceSource
  <1>4. CASE \E r \in Runs : Renew(r)
    BY <1>4, StillSource DEF Renew, RenewProjectRunLock, RenewIdempotencyClaim, RenewalFails,
       dbVars, envVars, Source!Next
  <1>5. CASE Tick \/ \E r \in Runs : BeatFires(r) \/ UserAbort(r) \/ OrphanExit(r)
    BY <1>5, StillSource DEF Tick, BeatFires, UserAbort, OrphanExit, dbVars, runVars, ctlVars, envVars,
       Source!Next
  <1>6. CASE UNCHANGED vars
    BY <1>6, StillSource DEF vars, dbVars, runVars, ctlVars, envVars, Source!Next
  <1> QED BY <1>1, <1>2, <1>3, <1>4, <1>5, <1>6 DEF Next

(* localRunCodex begins a task at most once, while the store of its window *)
(* or an invocation holds it, and what it takes for granted of             *)
(* localPrepareTask is no more than TaskSource says.                       *)
THEOREM RefinesSource == Spec => ImplementsSource
  <1>1. Init => Source!Init
    <2> SUFFICES ASSUME Init PROVE Source!Init
      OBVIOUS
    <2>1. draft = [w \in Windows |-> NoTask] /\ \A t \in Tasks : Standing(t) = "absent"
      BY DEF Init, Standing
    <2> QED BY <2>1 DEF Source!Init
  <1>2. IInv /\ [Next]_vars => [Source!Next]_Source!sourceVars
    BY NextSource
  <1> QED BY <1>1, <1>2, Inductive, PTL DEF Spec, Source!Spec, ImplementsSource
=============================================================================
