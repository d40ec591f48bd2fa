--------------------------- MODULE RunPlaneLeases ---------------------------
(***************************************************************************)
(* The run lock and the end of an invocation, beyond the invariant of      *)
(* RunPlaneProofs.  That a lease is not stolen follows from the three      *)
(* statements that write it.  That the holder is the only writer needs the *)
(* clock: a heartbeat that is on time renews a lease of more than one      *)
(* interval before it can expire (LeaseInv).  That a started invocation    *)
(* leaves a settled task and claim needs the catch block step by step, and *)
(* statements that do not fail (SettledInv).                               *)
(***************************************************************************)
EXTENDS RunPlaneProofs

(* The control points from the first renewal to the finally or the catch   *)
(* block.                                                                  *)
Leased == {"failclaim", "getstate", "bootstrap", "begin"} \union Begun

Owns(r) == lock[req[r].project].owner = r

(* The lease lasts until the next heartbeat is due, and longer.            *)
Fresh(r) == Owns(r) /\ lock[req[r].project].expires >= hb[r].beat + TTL

LeaseOf(r) ==
    pc[r] \in Leased \union {"firstbeat"} /\ ~lost[r] =>
        /\ req[r] \in Keys
        /\ hb[r].beat <= now /\ now <= hb[r].beat + 1
        /\ hb[r].inFlight \/ pc[r] = "firstbeat" => hb[r].beat = now
        /\ hb[r].refused => hb[r].inFlight
        /\ pc[r] # "firstbeat" =>
              hb[r].timer /\ Owns(r) /\ lock[req[r].project].expires > now
        /\ ~hb[r].refused /\ (hb[r].inFlight => "lock" \notin hb[r].renew) => Fresh(r)

LeaseInv == \A r \in Runs : LeaseOf(r)

Unstarted == {"idle", "acquire", "claim", "reclaim", "firstbeat", "failclaim", "getstate",
              "bootstrap", "begin", "beginlog"}

Leaving == {"stop", "release", "done"}

SettledOf(r) ==
    /\ started[r] => pc[r] \notin Unstarted
    /\ started[r] \/ pc[r] = "beginlog" => HomeOf[req[r].task] = req[r].project
    /\ pc[r] \in Recovering => ~HoldsClaim(r)
    /\ pc[r] = "catchrunning" => task[req[r].task] = "running"
    /\ pc[r] = "catchrecon" => task[req[r].task] = "reconciling"
    /\ pc[r] = "catchlog" => task[req[r].task] = "failed"
    /\ started[r] /\ pc[r] \in Leaving => task[req[r].task] \in Final /\ ~HoldsClaim(r)

SettledInv == faults = 0 /\ \A r \in Runs : SettledOf(r)

-----------------------------------------------------------------------------
(***************************************************************************)
(* What a step does to a run lock.                                         *)
(***************************************************************************)
LockStep ==
    \A p \in Projects :
        \/ lock'[p] = lock[p]
        \/ lock[p].owner = NoRun \/ lock[p].expires <= now
        \/ lock'[p].owner = lock[p].owner /\ lock'[p].expires = now + TTL
        \/ lock[p].owner \in Runs /\ pc[lock[p].owner] = "release"

LEMMA SameLock == ASSUME lock' = lock PROVE LockStep
  BY DEF LockStep

LEMMA AcquireLock == ASSUME IInv, NEW r \in Runs, AcquireProjectRunLock(r) PROVE LockStep
  <1>1. lock \in [Projects -> [owner : Runs \union {NoRun}, expires : Nat]]
    BY DEF IInv, TypeOK
  <1> QED
    BY <1>1 DEF AcquireProjectRunLock, LockStep

LEMMA ReleaseLock == ASSUME IInv, NEW r \in Runs, ReleaseProjectRunLock(r) PROVE LockStep
  <1>1. lock \in [Projects -> [owner : Runs \union {NoRun}, expires : Nat]]
    BY DEF IInv, TypeOK
  <1> QED
    BY <1>1 DEF ReleaseProjectRunLock, LockStep

LEMMA RenewLock == ASSUME IInv, NEW r \in Runs, RenewProjectRunLock(r) PROVE LockStep
  <1>1. lock \in [Projects -> [owner : Runs \union {NoRun}, expires : Nat]]
    BY DEF IInv, TypeOK
  <1>2. \/ lock' = lock
        \/ lock' = [lock EXCEPT ![req[r].project].expires = now + TTL]
    BY DEF RenewProjectRunLock
  <1> QED
    BY <1>1, <1>2 DEF LockStep

(* Only three of the steps of an invocation write a lock.                  *)
LEMMA AdvanceLock == ASSUME IInv, NEW r \in Runs, Advance(r) PROVE LockStep
  <1>1. CASE AcquireProjectRunLock(r)
    BY <1>1, AcquireLock
  <1>2. CASE ReleaseProjectRunLock(r)
    BY <1>2, ReleaseLock
  <1>3. ASSUME ~AcquireProjectRunLock(r), ~ReleaseProjectRunLock(r) PROVE lock' = lock
    <2>1. CASE Invoke(r) \/ ClaimIdempotency(r) \/ ReclaimIdempotency(r) \/ HeartbeatStarted(r)
      BY <2>1 DEF Invoke, ClaimIdempotency, ReclaimIdempotency, HeartbeatStarted, dbVars
    <2>2. CASE RejectCommand(r) \/ GetTaskLifecycleState(r) \/ BootstrapTaskState(r) \/ BeginTask(r)
      BY <2>2 DEF RejectCommand, GetTaskLifecycleState, BootstrapTaskState, BeginTask,
                  TransitionTaskState, dbVars
    <2>3. CASE LogBegin(r) \/ HealthCheck(r) \/ CodexCloses(r) \/ MoveToReconciling(r)
      BY <2>3 DEF LogBegin, HealthCheck, CodexCloses, MoveToReconciling, LogTransition,
                  TransitionTaskState, dbVars
    <2>4. CASE LogReconciling(r) \/ CollectOutcome(r) \/ SnapshotThrows(r) \/ PersistExecution(r)
      BY <2>4 DEF LogReconciling, CollectOutcome, SnapshotThrows, PersistExecution, LogTransition, dbVars
    <2>5. CASE CloseTask(r) \/ LogClose(r) \/ FinishRun(r) \/ SafeFailClaim(r)
      BY <2>5 DEF CloseTask, LogClose, FinishRun, SafeFailClaim, LogTransition, TransitionTaskState
    <2>6. CASE ReadStateAfterFailure(r) \/ FailTask(r) \/ LogFailure(r)
      BY <2>6 DEF ReadStateAfterFailure, FailTask, LogFailure, LogTransition, TransitionTaskState, dbVars
    <2>7. CASE StopHeartbeat(r) \/ StatementFails(r)
      BY <2>7 DEF StopHeartbeat, StatementFails, dbVars
    <2> QED
      BY <1>3, <2>1, <2>2, <2>3, <2>4, <2>5, <2>6, <2>7 DEF Advance
  <1> QED
    BY <1>1, <1>2, <1>3, SameLock

LEMMA NextLock == ASSUME IInv, [Next]_vars PROVE LockStep
  <1>1. CASE UNCHANGED vars
    BY <1>1, SameLock DEF vars, dbVars
  <1>2. ASSUME NEW w \in Windows, NEW t \in Tasks, PrepareTask(w, t) PROVE LockStep
    BY <1>2, SameLock DEF PrepareTask
  <1>3. ASSUME NEW w \in Windows, Crash(w) PROVE LockStep
    BY <1>3, SameLock DEF Crash, dbVars
  <1>4. ASSUME NEW r \in Runs, Renew(r) PROVE LockStep
    <2>1. CASE RenewProjectRunLock(r)
      BY <2>1, RenewLock
    <2>2. CASE RenewIdempotencyClaim(r) \/ RenewalFails(r)
      BY <2>2, SameLock DEF RenewIdempotencyClaim, RenewalFails, dbVars
    <2> QED
      BY <1>4, <2>1, <2>2 DEF Renew
  <1>5. ASSUME NEW r \in Runs, BeatFires(r) \/ UserAbort(r) \/ OrphanExit(r) PROVE LockStep
    BY <1>5, SameLock DEF BeatFires, UserAbort, OrphanExit, dbVars
  <1>6. CASE Tick
    BY <1>6, SameLock DEF Tick, dbVars
  <1> QED
    BY <1>1, <1>2, <1>3, <1>4, <1>5, <1>6, AdvanceLock DEF Next

(* A run lock changes hands only after its lease expired, or when its own  *)
(* owner releases it.                                                      *)
THEOREM LocksAreKept == Spec => LeaseNotStolen
<1>1. ASSUME IInv, [Next]_vars
      PROVE  [\A p \in Projects :
                lock[p].owner \in Runs /\ lock'[p].owner # lock[p].owner =>
                    lock[p].expires <= now \/ pc[lock[p].owner] = "release"]_vars
  BY <1>1, NextLock, ConstantsOK DEF LockStep, ConstantsOK
<1> QED
  BY <1>1, Inductive, PTL DEF Spec, LeaseNotStolen

-----------------------------------------------------------------------------
(***************************************************************************)
(* Where a step takes an invocation, and what it does to its heartbeat.    *)
(***************************************************************************)
SameRun(q) ==
    /\ pc'[q] = pc[q] /\ hb'[q] = hb[q] /\ req'[q] = req[q] /\ lost'[q] = lost[q]
    /\ started'[q] = started[q]

(* The lease of a run is over, goes on, or is about to be renewed first.   *)
Place(r) ==
    \/ pc'[r] \notin Leased \union {"firstbeat"}
    \/ pc[r] \in Leased /\ pc'[r] \in Leased /\ UNCHANGED <<hb, req, lost>>
    \/ pc[r] \in Leased \union {"firstbeat"} /\ pc'[r] = pc[r] /\ UNCHANGED <<hb, req, lost>>
    \/ /\ ClaimIdempotency(r) \/ ReclaimIdempotency(r)
       /\ pc'[r] = "firstbeat" /\ SendBeat(r, FALSE) /\ UNCHANGED <<req, lost>>
    \/ HeartbeatStarted(r)

Alone(r) == UNCHANGED now /\ Place(r) /\ \A q \in Runs \ {r} : SameRun(q)

LEMMA Controls ==
    ASSUME TypeOK, NEW r \in Runs, NEW n
    PROVE  /\ Raises(r) => /\ \A q \in Runs \ {r} : pc'[q] = pc[q]
                           /\ pc'[r] = Handler(r, pc[r])
                           /\ pc'[r] \notin Leased \union {"firstbeat"}
           /\ Throws(r) => Raises(r) /\ faults < MaxFaults
           /\ Goes(r, n) => (\A q \in Runs \ {r} : pc'[q] = pc[q]) /\ pc'[r] = n
           /\ \A x : Returns(r, n, x) => (\A q \in Runs \ {r} : pc'[q] = pc[q]) /\ pc'[r] = n
  <1>1. Handler(r, pc[r]) \notin Leased \union {"firstbeat"}
    BY HandlerLabel DEF Leased, Begun, Judged
  <1> QED
    BY <1>1 DEF TypeOK, Raises, Throws, Goes, Returns

LEMMA InvokeAlone == ASSUME IInv, NEW r \in Runs, Invoke(r) PROVE Alone(r)
  <1>1. req \in [Runs -> Keys \union {NoKey}] /\ TypeOK
    BY DEF IInv, TypeOK
  <1>2. (Returns(r, "done", "no_draft") \/ Goes(r, "acquire")) /\ UNCHANGED <<started, lost, hb, now>>
    BY DEF Invoke, envVars
  <1>3. pc'[r] \in {"done", "acquire"} /\ \A q \in Runs \ {r} : pc'[q] = pc[q]
    BY <1>1, <1>2, Controls
  <1>4. \A q \in Runs \ {r} : req'[q] = req[q]
    BY <1>1 DEF Invoke
  <1> QED
    BY <1>2, <1>3, <1>4 DEF Alone, Place, SameRun, Leased, Begun, Judged

LEMMA LockAlone ==
    ASSUME IInv, NEW r \in Runs, AcquireProjectRunLock(r) \/ ReleaseProjectRunLock(r)
    PROVE  Alone(r)
  <1>1. TypeOK /\ UNCHANGED <<started, lost, req, hb, now>>
    BY DEF IInv, AcquireProjectRunLock, ReleaseProjectRunLock, runVars, envVars
  <1>2. Goes(r, "claim") \/ Goes(r, "done") \/ Throws(r) \/ Returns(r, "stop", "busy")
    BY DEF AcquireProjectRunLock, ReleaseProjectRunLock, Answers
  <1>3. (\A q \in Runs \ {r} : pc'[q] = pc[q])
        /\ (pc'[r] \notin Leased \union {"firstbeat"} \/ pc'[r] \in {"claim", "done", "stop"})
    BY <1>1, <1>2, Controls
  <1> QED
    BY <1>1, <1>3 DEF Alone, Place, SameRun, Leased, Begun, Judged

LEMMA ClaimAlone ==
    ASSUME IInv, NEW r \in Runs, ClaimIdempotency(r) \/ ReclaimIdempotency(r)
    PROVE  Alone(r)
  <1>1. TypeOK /\ hb \in [Runs -> [timer : BOOLEAN, inFlight : BOOLEAN, renew : SUBSET Renewals,
                                   refused : BOOLEAN, beat : Nat]]
    BY DEF IInv, TypeOK
  <1>2. UNCHANGED <<runVars, envVars>>
    BY DEF ClaimIdempotency, ReclaimIdempotency
  <1>3. \/ Goes(r, "firstbeat") /\ SendBeat(r, FALSE)
        \/ Throws(r) /\ UNCHANGED hb
        \/ UNCHANGED hb /\ \E x : Returns(r, "stop", x)
        \/ UNCHANGED hb /\ Goes(r, "reclaim")
    BY DEF ClaimIdempotency, ReclaimIdempotency, Returns
  <1>4. CASE Goes(r, "firstbeat") /\ SendBeat(r, FALSE)
    BY <1>1, <1>2, <1>4, Controls DEF SendBeat, Alone, Place, SameRun, envVars, runVars
  <1>5. CASE UNCHANGED hb /\ (Throws(r) \/ Goes(r, "reclaim") \/ \E x : Returns(r, "stop", x))
    <2>1. (\A q \in Runs \ {r} : pc'[q] = pc[q])
          /\ (pc'[r] \notin Leased \union {"firstbeat"} \/ pc'[r] \in {"reclaim", "stop"})
      <3>1. CASE \E x : Returns(r, "stop", x)
        BY <1>1, <3>1 DEF Returns, TypeOK
      <3> QED
        BY <1>1, <1>5, <3>1, Controls
    <2> QED
      BY <1>2, <1>5, <2>1 DEF Alone, Place, SameRun, Leased, Begun, Judged, envVars, runVars
  <1> QED
    BY <1>3, <1>4, <1>5

LEMMA HeartbeatAlone == ASSUME IInv, NEW r \in Runs, HeartbeatStarted(r) PROVE Alone(r)
  <1>1. TypeOK /\ hb \in [Runs -> [timer : BOOLEAN, inFlight : BOOLEAN, renew : SUBSET Renewals,
                                   refused : BOOLEAN, beat : Nat]]
    BY DEF IInv, TypeOK
  <1>2. (Goes(r, "getstate") \/ Goes(r, "failclaim")) /\ UNCHANGED <<runVars, envVars>>
        /\ hb' = [hb EXCEPT ![r].timer = ~lost[r]]
    BY DEF HeartbeatStarted
  <1>3. \A q \in Runs \ {r} : hb'[q] = hb[q] /\ pc'[q] = pc[q]
    BY <1>1, <1>2, Controls
  <1> QED
    BY <1>2, <1>3 DEF Alone, Place, SameRun, envVars, runVars

LEMMA StopAlone == ASSUME IInv, NEW r \in Runs, StopHeartbeat(r) PROVE Alone(r)
  <1>1. TypeOK /\ hb \in [Runs -> [timer : BOOLEAN, inFlight : BOOLEAN, renew : SUBSET Renewals,
                                   refused : BOOLEAN, beat : Nat]]
    BY DEF IInv, TypeOK
  <1>2. Goes(r, "release") /\ UNCHANGED <<runVars, envVars>>
        /\ hb' = [hb EXCEPT ![r].timer = FALSE, ![r].beat = 0]
    BY DEF StopHeartbeat
  <1>3. \A q \in Runs \ {r} : hb'[q] = hb[q]
    BY <1>1, <1>2
  <1>4. pc'[r] = "release" /\ \A q \in Runs \ {r} : pc'[q] = pc[q]
    BY <1>1, <1>2, Controls
  <1> QED
    BY <1>2, <1>3, <1>4 DEF Alone, Place, SameRun, envVars, runVars, Leased, Begun, Judged

(* An invocation under its lease goes on under it, or leaves it.           *)
LEMMA GoesOn ==
    ASSUME IInv, NEW r \in Runs, UNCHANGED <<hb, req, lost, now>>,
           \A q \in Runs \ {r} : started'[q] = started[q] /\ pc'[q] = pc[q],
           \/ pc'[r] \notin Leased \union {"firstbeat"}
           \/ pc'[r] \in Leased /\ pc[r] \in Leased
    PROVE  Alone(r)
  BY DEF Alone, Place, SameRun

LEMMA TransitionAlone ==
    ASSUME IInv, NEW r \in Runs, NEW at, NEW from, NEW to, NEW n \in Leased \union Recovering,
           TransitionTaskState(r, at, from, to, n), n \in Leased => at \in Leased
    PROVE  Alone(r)
  <1>1. UNCHANGED <<runVars, envVars, hb>> /\ pc[r] = at
        /\ (Raises(r) \/ Throws(r) \/ Goes(r, n))
    BY DEF TransitionTaskState, Answers
  <1>2. TypeOK /\ \A x \in Recovering : x # "firstbeat"
    BY DEF IInv, Recovering
  <1>3. (\A q \in Runs \ {r} : pc'[q] = pc[q]) /\ (pc'[r] \notin Leased \union {"firstbeat"} \/ pc'[r] = n)
    BY <1>1, <1>2, Controls
  <1> QED
    BY <1>1, <1>2, <1>3, GoesOn DEF runVars, envVars

LEMMA LogAlone ==
    ASSUME IInv, NEW r \in Runs, NEW at, NEW to, NEW n \in Leased \union {"stop"},
           LogTransition(r, at, to, n), n \in Leased => at \in Leased,
           \A q \in Runs \ {r} : started'[q] = started[q]
    PROVE  Alone(r)
  <1>1. UNCHANGED <<hb, req, lost, now>> /\ pc[r] = at /\ (Throws(r) \/ Goes(r, n)) /\ TypeOK
    BY DEF LogTransition, Answers, envVars, IInv
  <1>2. (\A q \in Runs \ {r} : pc'[q] = pc[q]) /\ (pc'[r] \notin Leased \union {"firstbeat"} \/ pc'[r] = n)
    BY <1>1, Controls
  <1> QED
    BY <1>1, <1>2, GoesOn

(* Every step of an invocation but its renewals leaves the others alone.   *)
LEMMA AdvanceAlone == ASSUME IInv, NEW r \in Runs, Advance(r) PROVE Alone(r)
  <1>0. TypeOK
    BY DEF IInv
  <1>1. CASE Invoke(r) \/ AcquireProjectRunLock(r) \/ ReleaseProjectRunLock(r)
    BY <1>1, InvokeAlone, LockAlone
  <1>2. CASE ClaimIdempotency(r) \/ ReclaimIdempotency(r) \/ HeartbeatStarted(r) \/ StopHeartbeat(r)
    BY <1>2, ClaimAlone, HeartbeatAlone, StopAlone
  <1>3. CASE RejectCommand(r) \/ FinishRun(r)
    <2>1. UNCHANGED <<hb, req, lost, started, now>>
          /\ (Raises(r) \/ Throws(r) \/ \E x : Returns(r, "stop", x))
      BY <1>3 DEF RejectCommand, FinishRun, AnswersResult, runVars, envVars
    <2>2. (\A q \in Runs \ {r} : pc'[q] = pc[q])
          /\ (pc'[r] \notin Leased \union {"firstbeat"} \/ pc'[r] = "stop")
      <3>1. CASE \E x : Returns(r, "stop", x)
        BY <1>0, <3>1 DEF Returns, TypeOK
      <3> QED
        BY <1>0, <2>1, <3>1, Controls
    <2> QED
      BY <2>1, <2>2, GoesOn DEF Leased, Begun, Judged
  <1>4. CASE GetTaskLifecycleState(r)
    <2>1. UNCHANGED <<hb, req, lost, started, now>> /\ pc[r] = "getstate"
          /\ (Goes(r, "bootstrap") \/ Returns(r, "stop", "not_prepared") \/ Goes(r, "begin"))
      BY <1>4 DEF GetTaskLifecycleState, runVars, envVars
    <2>2. (\A q \in Runs \ {r} : pc'[q] = pc[q]) /\ pc'[r] \in {"bootstrap", "stop", "begin"}
      BY <1>0, <2>1, Controls
    <2> QED
      BY <2>1, <2>2, GoesOn DEF Leased, Begun, Judged
  <1>5. CASE BootstrapTaskState(r)
    <2>1. UNCHANGED <<hb, req, lost, started, now>> /\ pc[r] = "bootstrap"
          /\ (Raises(r) \/ Throws(r) \/ Goes(r, "begin"))
      BY <1>5 DEF BootstrapTaskState, Answers, runVars, envVars
    <2>2. (\A q \in Runs \ {r} : pc'[q] = pc[q])
          /\ (pc'[r] \notin Leased \union {"firstbeat"} \/ pc'[r] = "begin")
      BY <1>0, <2>1, Controls
    <2> QED
      BY <2>1, <2>2, GoesOn DEF Leased
  <1>6. CASE BeginTask(r)
    BY <1>6, TransitionAlone DEF BeginTask, Leased, Begun
  <1>7. CASE MoveToReconciling(r)
    BY <1>7, TransitionAlone DEF MoveToReconciling, Leased, Begun, Judged
  <1>8. CASE CloseTask(r)
    BY <1>8, TransitionAlone DEF CloseTask, TransitionTaskState, Leased, Begun, Judged
  <1>9. CASE FailTask(r)
    BY <1>9, TransitionAlone DEF FailTask, Recovering, Leased, Begun, Judged
  <1>10. CASE LogBegin(r)
    <2>1. \A q \in Runs \ {r} : started'[q] = started[q]
      BY <1>10, <1>0 DEF LogBegin, TypeOK
    <2> QED
      BY <1>10, <2>1, LogAlone DEF LogBegin, Leased, Begun, Judged
  <1>11. CASE LogReconciling(r)
    BY <1>11, LogAlone DEF LogReconciling, Leased, Begun, Judged
  <1>12. CASE LogClose(r)
    BY <1>12, LogAlone DEF LogClose, Leased, Begun, Judged
  <1>13. CASE LogFailure(r)
    BY <1>13, LogAlone DEF LogFailure, Leased, Begun, Judged
  <1>14. CASE HealthCheck(r) \/ CodexCloses(r) \/ CollectOutcome(r)
    <2>1. UNCHANGED <<hb, req, lost, started, now>> /\ pc[r] \in Begun
          /\ (Goes(r, "moverecon") \/ Goes(r, "codex") \/ Goes(r, "persist"))
      BY <1>14 DEF HealthCheck, CodexCloses, CollectOutcome, envVars, Begun, Judged
    <2>2. (\A q \in Runs \ {r} : pc'[q] = pc[q]) /\ pc'[r] \in {"moverecon", "codex", "persist"}
      BY <1>0, <2>1, Controls
    <2> QED
      BY <2>1, <2>2, GoesOn DEF Leased, Begun, Judged
  <1>15. CASE PersistExecution(r) \/ SafeFailClaim(r) \/ ReadStateAfterFailure(r)
    <2>1. UNCHANGED <<hb, req, lost, started, now>>
          /\ \/ Throws(r) \/ Goes(r, "catchstate") \/ Goes(r, "catchrunning")
             \/ Goes(r, "catchrecon") \/ Goes(r, "stop")
             \/ pc[r] = "persist" /\ Goes(r, "close")
      BY <1>15 DEF PersistExecution, SafeFailClaim, ReadStateAfterFailure, Answers, runVars, envVars
    <2>2. /\ \A q \in Runs \ {r} : pc'[q] = pc[q]
          /\ \/ pc'[r] \notin Leased \union {"firstbeat"}
             \/ pc'[r] \in {"catchstate", "catchrunning", "catchrecon", "stop"}
             \/ pc[r] = "persist" /\ pc'[r] = "close"
      BY <1>0, <2>1, Controls
    <2> QED
      BY <2>1, <2>2, GoesOn DEF Leased, Begun, Judged
  <1>16. CASE SnapshotThrows(r) \/ StatementFails(r)
    <2>1. UNCHANGED <<hb, req, lost, started, now>> /\ (Raises(r) \/ Throws(r))
      BY <1>16 DEF SnapshotThrows, StatementFails, runVars, envVars
    <2> QED
      BY <1>0, <2>1, Controls, GoesOn
  <1> QED
    BY <1>1, <1>2, <1>3, <1>4, <1>5, <1>6, <1>7, <1>8, <1>9, <1>10, <1>11, <1>12, <1>13,
       <1>14, <1>15, <1>16 DEF Advance

-----------------------------------------------------------------------------
(***************************************************************************)
(* The lease of an invocation under a heartbeat that is on time.           *)
(***************************************************************************)
Beat == [timer : BOOLEAN, inFlight : BOOLEAN, renew : SUBSET Renewals, refused : BOOLEAN, beat : Nat]

LEMMA Typed ==
    ASSUME IInv
    PROVE  /\ lock \in [Projects -> [owner : Runs \union {NoRun}, expires : Nat]]
           /\ hb \in [Runs -> Beat] /\ lost \in [Runs -> BOOLEAN]
           /\ now \in Nat /\ TTL \in Nat
           /\ \A r \in Runs : req[r] \in Keys => req[r].project \in Projects
  BY ConstantsOK DEF IInv, TypeOK, ConstantsOK, Beat, Keys

(* A lease that has not expired is kept by whatever happens to the lock.   *)
LEMMA LeaseKept ==
    ASSUME IInv, TTL > 1, LockStep, UNCHANGED now, NEW q \in Runs, req[q] \in Keys,
           UNCHANGED <<req[q], hb[q]>>, pc[q] # "release", Owns(q),
           lock[req[q].project].expires > now, hb[q].beat <= now
    PROVE  Owns(q)' /\ lock'[req[q].project].expires > now /\ (Fresh(q) => Fresh(q)')
  <1> DEFINE p == req[q].project
  <1>1. /\ p \in Projects /\ lock[p].owner = q /\ q # NoRun
        /\ lock[p].expires \in Nat /\ now \in Nat /\ TTL \in Nat /\ hb[q].beat \in Nat
    BY Typed, ConstantsOK DEF Owns, Beat, ConstantsOK
  <1>2. ~(lock[p].expires <= now)
    BY <1>1
  <1>3. \/ lock'[p] = lock[p]
        \/ lock'[p].owner = lock[p].owner /\ lock'[p].expires = now + TTL
    BY <1>1, <1>2 DEF LockStep
  <1>4. req'[q].project = p /\ hb'[q] = hb[q]
    OBVIOUS
  <1> QED
    BY <1>1, <1>3, <1>4 DEF Owns, Fresh

LEMMA LeaseStays ==
    ASSUME IInv, TTL > 1, LockStep, UNCHANGED now, NEW q \in Runs, LeaseOf(q),
           UNCHANGED <<req[q], hb[q], lost[q]>>,
           \/ pc'[q] \notin Leased \union {"firstbeat"}
           \/ pc'[q] \in Leased /\ pc[q] \in Leased
           \/ pc'[q] = pc[q]
    PROVE  LeaseOf(q)'
  <1> SUFFICES ASSUME pc'[q] \in Leased \union {"firstbeat"}, ~lost'[q]
               PROVE  LeaseOf(q)'
    BY DEF LeaseOf
  <1>1. /\ pc[q] \in Leased \union {"firstbeat"} /\ ~lost[q] /\ pc[q] # "release"
        /\ pc'[q] = "firstbeat" <=> pc[q] = "firstbeat"
    BY DEF Leased, Begun, Judged
  <1>2. /\ req[q] \in Keys
        /\ hb[q].beat <= now /\ now <= hb[q].beat + 1
        /\ hb[q].inFlight \/ pc[q] = "firstbeat" => hb[q].beat = now
        /\ hb[q].refused => hb[q].inFlight
        /\ pc[q] # "firstbeat" =>
              hb[q].timer /\ Owns(q) /\ lock[req[q].project].expires > now
        /\ ~hb[q].refused /\ (hb[q].inFlight => "lock" \notin hb[q].renew) => Fresh(q)
    BY <1>1 DEF LeaseOf
  <1>3. hb[q].beat \in Nat /\ now \in Nat /\ TTL \in Nat /\ lock[req[q].project].expires \in Nat
    BY <1>2, Typed DEF Beat
  <1>4. pc[q] = "firstbeat" /\ Fresh(q) => Owns(q) /\ lock[req[q].project].expires > now
    BY <1>2, <1>3 DEF Fresh
  <1>5. Owns(q) /\ lock[req[q].project].expires > now =>
          Owns(q)' /\ lock'[req[q].project].expires > now /\ (Fresh(q) => Fresh(q)')
    BY <1>1, <1>2, LeaseKept
  <1>6. pc[q] # "firstbeat" => Owns(q)' /\ lock'[req[q].project].expires > now
    BY <1>2, <1>5
  <1>7. Fresh(q) => Fresh(q)'
    BY <1>2, <1>4, <1>5
  <1> QED
    BY <1>1, <1>2, <1>6, <1>7 DEF LeaseOf

LEMMA FirstBeatLease ==
    ASSUME IInv, NEW r \in Runs, ClaimIdempotency(r) \/ ReclaimIdempotency(r),
           pc'[r] = "firstbeat", SendBeat(r, FALSE), UNCHANGED <<req, lost, now>>
    PROVE  LeaseOf(r)'
  <1>1. req[r] \in Keys
    BY ReqType DEF ClaimIdempotency, ReclaimIdempotency
  <1>2. hb'[r] = [timer |-> FALSE, inFlight |-> TRUE, renew |-> Renewals, refused |-> FALSE, beat |-> now]
    BY Typed DEF SendBeat
  <1>3. now \in Nat
    BY Typed
  <1> QED
    BY <1>1, <1>2, <1>3 DEF LeaseOf, Renewals

LEMMA StartedLease ==
    ASSUME IInv, TTL > 1, NEW r \in Runs, LeaseOf(r), HeartbeatStarted(r)
    PROVE  LeaseOf(r)'
  <1> SUFFICES ASSUME ~lost[r]
               PROVE  LeaseOf(r)'
    BY DEF LeaseOf, HeartbeatStarted, runVars
  <1>1. pc[r] = "firstbeat" /\ ~hb[r].inFlight /\ UNCHANGED <<lock, req, lost, now>>
    BY DEF HeartbeatStarted, dbVars, runVars, envVars
  <1>2. /\ req[r] \in Keys /\ hb[r].beat <= now /\ now <= hb[r].beat + 1 /\ hb[r].beat = now
        /\ ~hb[r].refused /\ Fresh(r)
    BY <1>1 DEF LeaseOf
  <1>3. hb'[r] = [hb[r] EXCEPT !.timer = ~lost[r]] /\ hb[r] \in Beat
    BY Typed DEF HeartbeatStarted
  <1>4. /\ hb'[r].timer /\ hb'[r].beat = hb[r].beat /\ hb'[r].inFlight = hb[r].inFlight
        /\ hb'[r].refused = hb[r].refused
    BY <1>3 DEF Beat
  <1>5. Owns(r)' /\ lock'[req'[r].project].expires > now'
    BY <1>1, <1>2, Typed DEF Fresh, Owns, Beat
  <1>6. Fresh(r)'
    BY <1>1, <1>2, <1>4, <1>5 DEF Fresh
  <1> QED
    BY <1>1, <1>2, <1>4, <1>5, <1>6 DEF LeaseOf

LEMMA AdvanceLease ==
    ASSUME IInv, TTL > 1, LeaseInv, NEW r \in Runs, Advance(r)
    PROVE  LeaseInv'
  <1>1. LockStep /\ Alone(r)
    BY AdvanceLock, AdvanceAlone
  <1>2. ASSUME NEW q \in Runs \ {r} PROVE LeaseOf(q)'
    BY <1>1, <1>2, LeaseStays DEF Alone, SameRun, LeaseInv
  <1>3. LeaseOf(r)'
    <2>1. CASE \/ pc'[r] \notin Leased \union {"firstbeat"}
      BY <2>1 DEF LeaseOf
    <2>2. CASE \/ pc[r] \in Leased /\ pc'[r] \in Leased /\ UNCHANGED <<hb, req, lost>>
               \/ pc'[r] = pc[r] /\ UNCHANGED <<hb, req, lost>>
      BY <1>1, <2>2, LeaseStays DEF Alone, LeaseInv
    <2>3. CASE HeartbeatStarted(r)
      BY <2>3, StartedLease DEF LeaseInv
    <2>4. CASE /\ ClaimIdempotency(r) \/ ReclaimIdempotency(r)
               /\ pc'[r] = "firstbeat" /\ SendBeat(r, FALSE) /\ UNCHANGED <<req, lost>>
      BY <1>1, <2>4, FirstBeatLease DEF Alone
    <2> QED
      BY <1>1, <2>1, <2>2, <2>3, <2>4 DEF Alone, Place
  <1> QED
    BY <1>2, <1>3 DEF LeaseInv

(* What a renewal that answers or throws does to the heartbeat of r.       *)
LEMMA AnswerBeat ==
    ASSUME IInv, NEW r \in Runs, NEW s \in Renewals, NEW ok \in BOOLEAN, RenewalAnswers(r, s, ok),
           ~lost'[r]
    PROVE  /\ ~lost[r]
           /\ hb'[r].renew = hb[r].renew \ {s}
           /\ hb'[r].timer = hb[r].timer /\ hb'[r].beat = hb[r].beat
           /\ hb'[r].inFlight => hb[r].inFlight
           /\ hb'[r].refused => hb'[r].inFlight \/ (~hb[r].inFlight /\ hb[r].refused)
           /\ ~hb'[r].refused => ~hb[r].refused /\ (hb[r].inFlight => ok)
           /\ hb[r].inFlight /\ ~hb'[r].inFlight => hb[r].renew \ {s} = {}
  <1> DEFINE rest == hb[r].renew \ {s}
             refused == hb[r].refused \/ (hb[r].inFlight /\ ~ok)
             last == hb[r].inFlight /\ rest = {}
  <1>1. hb \in [Runs -> Beat] /\ lost \in [Runs -> BOOLEAN]
    BY Typed
  <1>2. ~lost[r] /\ ~(last /\ refused)
    <2>1. (last /\ refused /\ lost'[r]) \/ (~(last /\ refused) /\ lost' = lost)
      BY <1>1 DEF RenewalAnswers, LoseLease
    <2> QED
      BY <2>1
  <1>3. hb' = [hb EXCEPT ![r].renew = rest, ![r].refused = refused /\ ~last,
                         ![r].inFlight = hb[r].inFlight /\ ~last]
    BY DEF RenewalAnswers
  <1>4. /\ hb'[r].renew = rest /\ hb'[r].timer = hb[r].timer /\ hb'[r].beat = hb[r].beat
        /\ hb'[r].refused = (refused /\ ~last) /\ hb'[r].inFlight = (hb[r].inFlight /\ ~last)
    BY <1>1, <1>3 DEF Beat
  <1> QED
    BY <1>2, <1>4

LEMMA ThrowBeat ==
    ASSUME IInv, NEW r \in Runs, NEW s, RenewalThrows(r, s), ~lost'[r]
    PROVE  /\ ~lost[r] /\ ~hb[r].inFlight
           /\ hb'[r].renew = hb[r].renew \ {s}
           /\ hb'[r].timer = hb[r].timer /\ hb'[r].beat = hb[r].beat
           /\ ~hb'[r].inFlight /\ ~hb'[r].refused
  <1>1. hb \in [Runs -> Beat] /\ lost \in [Runs -> BOOLEAN]
    BY Typed
  <1>2. ~lost[r] /\ ~hb[r].inFlight
    <2>1. (hb[r].inFlight /\ lost'[r]) \/ (~hb[r].inFlight /\ lost' = lost)
      BY <1>1 DEF RenewalThrows, LoseLease
    <2> QED
      BY <2>1
  <1>3. hb' = [hb EXCEPT ![r].renew = hb[r].renew \ {s}, ![r].inFlight = FALSE, ![r].refused = FALSE]
    BY DEF RenewalThrows
  <1>4. /\ hb'[r].renew = hb[r].renew \ {s} /\ hb'[r].timer = hb[r].timer
        /\ hb'[r].beat = hb[r].beat /\ hb'[r].refused = FALSE /\ hb'[r].inFlight = FALSE
    BY <1>1, <1>3 DEF Beat
  <1> QED
    BY <1>2, <1>4

(* The statement s of the heartbeat of r ends.                             *)
Renewed(r, s) ==
    /\ \/ \E ok \in BOOLEAN :
            /\ RenewalAnswers(r, s, ok)
            /\ s = "lock" => (ok <=> Owns(r) /\ lock[req[r].project].expires > now)
            /\ s = "lock" /\ ok => lock' = [lock EXCEPT ![req[r].project].expires = now + TTL]
       \/ RenewalThrows(r, s)
    /\ LockStep /\ UNCHANGED <<req, pc, now>>

LEMMA RenewedLease ==
    ASSUME IInv, TTL > 1, NEW r \in Runs, NEW s \in hb[r].renew, LeaseOf(r), Renewed(r, s)
    PROVE  LeaseOf(r)'
  <1> SUFFICES ASSUME pc'[r] \in Leased \union {"firstbeat"}, ~lost'[r]
               PROVE  LeaseOf(r)'
    BY DEF LeaseOf
  <1>0. s \in Renewals
    BY Typed DEF Beat
  <1>1. /\ ~lost[r] /\ hb'[r].renew = hb[r].renew \ {s}
        /\ hb'[r].timer = hb[r].timer /\ hb'[r].beat = hb[r].beat
        /\ hb'[r].inFlight => hb[r].inFlight
        /\ hb'[r].refused => hb'[r].inFlight \/ (~hb[r].inFlight /\ hb[r].refused)
    BY <1>0, AnswerBeat, ThrowBeat DEF Renewed
  <1>2. UNCHANGED <<req, pc, now>> /\ LockStep /\ pc[r] # "release"
    BY DEF Renewed, Leased, Begun, Judged
  <1>3. /\ req[r] \in Keys
        /\ hb[r].beat <= now /\ now <= hb[r].beat + 1
        /\ hb[r].inFlight \/ pc[r] = "firstbeat" => hb[r].beat = now
        /\ hb[r].refused => hb[r].inFlight
        /\ pc[r] # "firstbeat" =>
              hb[r].timer /\ Owns(r) /\ lock[req[r].project].expires > now
        /\ ~hb[r].refused /\ (hb[r].inFlight => "lock" \notin hb[r].renew) => Fresh(r)
    BY <1>1, <1>2 DEF LeaseOf
  <1> DEFINE p == req[r].project
  <1>4. /\ hb[r].beat \in Nat /\ now \in Nat /\ TTL \in Nat /\ lock[p].expires \in Nat
        /\ p \in Projects
    BY <1>3, Typed DEF Beat
  <1>5. r # NoRun
    BY ConstantsOK DEF ConstantsOK
  <1>6. Owns(r) /\ lock[p].expires > now =>
          /\ Owns(r)' /\ lock'[p].expires > now
          /\ lock'[p].expires = lock[p].expires \/ lock'[p].expires = now + TTL
    BY <1>2, <1>4, <1>5 DEF Owns, LockStep
  <1>7. pc[r] # "firstbeat" => Owns(r)' /\ lock'[p].expires > now
    BY <1>3, <1>6
  <1>8. Fresh(r) => Fresh(r)'
    BY <1>1, <1>2, <1>3, <1>4, <1>6 DEF Fresh
  <1>9. ~hb'[r].refused /\ (hb'[r].inFlight => "lock" \notin hb'[r].renew) => Fresh(r)'
    <2>1. CASE RenewalThrows(r, s)
      <3>1. ~hb[r].inFlight
        BY <2>1, ThrowBeat
      <3> QED
        BY <3>1, <1>3, <1>8
    <2>2. ASSUME NEW ok \in BOOLEAN, RenewalAnswers(r, s, ok),
                 s = "lock" => (ok <=> Owns(r) /\ lock[p].expires > now),
                 s = "lock" /\ ok => lock' = [lock EXCEPT ![p].expires = now + TTL],
                 ~hb'[r].refused, hb'[r].inFlight => "lock" \notin hb'[r].renew
          PROVE  Fresh(r)'
      <3>1. /\ ~hb[r].refused /\ (hb[r].inFlight => ok)
            /\ hb[r].inFlight /\ ~hb'[r].inFlight => hb[r].renew \ {s} = {}
        BY <1>0, <2>2, AnswerBeat
      <3>2. CASE ~hb[r].inFlight
        BY <1>3, <1>8, <3>1, <3>2
      <3>3. CASE hb[r].inFlight /\ s = "lock"
        <4>1. Owns(r) /\ lock' = [lock EXCEPT ![p].expires = now + TTL]
          BY <2>2, <3>1, <3>3
        <4>2. lock'[p].owner = r /\ lock'[p].expires = now + TTL
          BY <4>1, <1>4, Typed DEF Owns
        <4> QED
          BY <1>1, <1>2, <1>3, <1>4, <4>2 DEF Fresh, Owns
      <3>4. CASE hb[r].inFlight /\ s # "lock"
        <4>1. "lock" \notin hb[r].renew
          BY <1>1, <2>2, <3>1, <3>4
        <4> QED
          BY <1>3, <1>8, <3>1, <4>1
      <3> QED
        BY <3>2, <3>3, <3>4
    <2> QED
      BY <2>1, <2>2 DEF Renewed
  <1> QED
    BY <1>1, <1>2, <1>3, <1>7, <1>9 DEF LeaseOf

LEMMA RenewRenews ==
    ASSUME IInv, NEW r \in Runs, Renew(r)
    PROVE  /\ \E s \in hb[r].renew : Renewed(r, s)
           /\ \A q \in Runs \ {r} : hb'[q] = hb[q] /\ lost'[q] = lost[q]
  <1>0. TypeOK
    BY DEF IInv
  <1>1. LockStep
    BY NextLock DEF Next
  <1>2. UNCHANGED <<req, pc, now>>
    BY DEF Renew, RenewProjectRunLock, RenewIdempotencyClaim, RenewalFails, envVars
  <1>3. \A s : RenewalThrows(r, s) => \A q \in Runs \ {r} : hb'[q] = hb[q] /\ lost'[q] = lost[q]
    BY <1>0, RenewalThrowsType, Typed DEF RenewalThrows, LoseLease
  <1>4. \A s \in Renewals, ok \in BOOLEAN :
          RenewalAnswers(r, s, ok) => \A q \in Runs \ {r} : hb'[q] = hb[q] /\ lost'[q] = lost[q]
    BY <1>0, RenewalAnswersType, Typed DEF RenewalAnswers, LoseLease
  <1>5. CASE RenewalFails(r)
    BY <1>1, <1>2, <1>3, <1>5 DEF RenewalFails, Renewed
  <1>6. CASE RenewProjectRunLock(r)
    <2> DEFINE ok == lock[req[r].project].owner = r /\ lock[req[r].project].expires > now
    <2>1. /\ "lock" \in hb[r].renew /\ (RenewalAnswers(r, "lock", ok) \/ RenewalThrows(r, "lock"))
          /\ ok => lock' = [lock EXCEPT ![req[r].project].expires = now + TTL]
      BY <1>6 DEF RenewProjectRunLock
    <2>2. ok \in BOOLEAN /\ "lock" \in Renewals /\ (ok <=> Owns(r) /\ lock[req[r].project].expires > now)
      BY DEF Renewals, Owns
    <2> HIDE DEF ok
    <2> QED
      BY <1>1, <1>2, <1>3, <1>4, <2>1, <2>2 DEF Renewed
  <1>7. CASE RenewIdempotencyClaim(r)
    <2> DEFINE ok == /\ claim[req[r]].status = "in_progress" /\ claim[req[r]].owner = r
                     /\ claim[req[r]].lease > now
    <2>1. "claim" \in hb[r].renew /\ (RenewalAnswers(r, "claim", ok) \/ RenewalThrows(r, "claim"))
      BY <1>7 DEF RenewIdempotencyClaim
    <2>2. ok \in BOOLEAN /\ "claim" \in Renewals /\ "claim" # "lock"
      BY DEF Renewals
    <2> HIDE DEF ok
    <2> QED
      BY <1>1, <1>2, <1>3, <1>4, <2>1, <2>2 DEF Renewed
  <1> QED
    BY <1>5, <1>6, <1>7 DEF Renew

LEMMA BeatLease ==
    ASSUME IInv, TTL > 1, NEW r \in Runs, LeaseOf(r), BeatFires(r)
    PROVE  LeaseOf(r)' /\ \A q \in Runs \ {r} : hb'[q] = hb[q]
  <1>1. hb \in [Runs -> Beat] /\ now \in Nat /\ hb[r].beat \in Nat
    BY Typed DEF Beat
  <1>2. UNCHANGED <<pc, req, lost, lock, now>> /\ hb[r].timer /\ hb[r].beat < now
    BY DEF BeatFires, dbVars, runVars, ctlVars, envVars
  <1>3. \/ hb[r].inFlight /\ hb' = [hb EXCEPT ![r].beat = now]
        \/ ~hb[r].inFlight /\ SendBeat(r, TRUE)
    BY DEF BeatFires
  <1>4. \A q \in Runs \ {r} : hb'[q] = hb[q]
    BY <1>1, <1>3 DEF SendBeat
  <1>5. ASSUME pc[r] \in Leased \union {"firstbeat"}, ~lost[r] PROVE LeaseOf(r)'
    <2>1. ~hb[r].inFlight
      BY <1>1, <1>2, <1>5 DEF LeaseOf
    <2>2. hb'[r] = [timer |-> TRUE, inFlight |-> TRUE, renew |-> Renewals, refused |-> FALSE, beat |-> now]
      BY <1>1, <1>3, <2>1 DEF SendBeat
    <2>3. /\ req[r] \in Keys
          /\ pc[r] # "firstbeat" => Owns(r) /\ lock[req[r].project].expires > now
      BY <1>5 DEF LeaseOf
    <2> QED
      BY <1>1, <1>2, <2>2, <2>3 DEF LeaseOf, Owns, Renewals
  <1> QED
    BY <1>2, <1>4, <1>5 DEF LeaseOf

(* The clock moves only when no renewal is due, and then by less than the  *)
(* lease has left.                                                         *)
LEMMA TickLease == ASSUME IInv, Timely, TTL > 1, LeaseInv, Tick PROVE LeaseInv'
  <1> SUFFICES ASSUME NEW q \in Runs, pc[q] \in Leased \union {"firstbeat"}, ~lost[q]
               PROVE  LeaseOf(q)'
    BY DEF LeaseInv, LeaseOf, Tick, runVars, ctlVars
  <1>1. UNCHANGED <<pc, req, lost, lock, hb>> /\ now' = now + 1
    BY DEF Tick, dbVars, runVars, ctlVars
  <1>2. ~BeatDue(q)
    BY DEF Tick
  <1>3. /\ req[q] \in Keys /\ hb[q].beat <= now
        /\ hb[q].refused => hb[q].inFlight
        /\ pc[q] # "firstbeat" => hb[q].timer
        /\ ~hb[q].refused /\ (hb[q].inFlight => "lock" \notin hb[q].renew) => Fresh(q)
    BY DEF LeaseInv, LeaseOf
  <1>4. /\ hb[q].beat \in Nat /\ now \in Nat /\ TTL \in Nat /\ lock[req[q].project].expires \in Nat
    BY <1>3, Typed DEF Beat
  <1>5. pc[q] # "firstbeat" /\ ~hb[q].inFlight /\ pc[q] \notin {"stop", "release"} \union Ended
    BY <1>2 DEF BeatDue, Ended, Leased, Begun, Judged
  <1>6. hb[q].beat = now
    BY <1>2, <1>3, <1>4, <1>5 DEF BeatDue
  <1>7. Fresh(q)
    BY <1>3, <1>5
  <1>8. Owns(q) /\ lock[req[q].project].expires >= now + TTL
    BY <1>6, <1>7 DEF Fresh
  <1>9. Owns(q)' /\ Fresh(q)' /\ lock'[req'[q].project].expires > now'
    BY <1>1, <1>4, <1>7, <1>8 DEF Owns, Fresh
  <1> QED
    BY <1>1, <1>3, <1>4, <1>5, <1>6, <1>9 DEF LeaseOf

LEMMA CrashLease ==
    ASSUME IInv, TTL > 1, LeaseInv, NEW w \in Windows, Crash(w) PROVE LeaseInv'
  <1>1. UNCHANGED <<lock, req, lost, now>> /\ LockStep
    BY SameLock DEF Crash, dbVars
  <1>2. ASSUME NEW q \in Runs PROVE LeaseOf(q)'
    <2>1. CASE WindowOf[q] = w
      <3>1. pc'[q] \in {"crashed", "idle", "done"}
        BY <2>1 DEF Crash, Ended
      <3> QED
        BY <3>1 DEF LeaseOf, Leased, Begun, Judged
    <2>2. CASE WindowOf[q] # w
      <3>1. pc'[q] = pc[q] /\ hb'[q] = hb[q]
        BY <2>2 DEF Crash
      <3> QED
        BY <1>1, <3>1, LeaseStays DEF LeaseInv
    <2> QED
      BY <2>1, <2>2
  <1> QED
    BY <1>2 DEF LeaseInv

LEMMA LeaseStep ==
    ASSUME Timely, TTL > 1, IInv, LeaseInv, [Next]_vars PROVE LeaseInv'
  <1>1. ASSUME LockStep, UNCHANGED <<pc, hb, req, lost, now>> PROVE LeaseInv'
    BY <1>1, LeaseStays DEF LeaseInv
  <1>2. CASE UNCHANGED vars
    BY <1>1, <1>2, SameLock DEF vars, dbVars, runVars, ctlVars, envVars
  <1>3. ASSUME NEW w \in Windows, NEW t \in Tasks, PrepareTask(w, t) PROVE LeaseInv'
    BY <1>1, <1>3, SameLock DEF PrepareTask, runVars, ctlVars
  <1>4. ASSUME NEW r \in Runs, UserAbort(r) \/ OrphanExit(r) PROVE LeaseInv'
    BY <1>1, <1>4, SameLock DEF UserAbort, OrphanExit, dbVars, ctlVars, envVars
  <1>5. ASSUME NEW r \in Runs, Renew(r) PROVE LeaseInv'
    <2>1. PICK s \in hb[r].renew : Renewed(r, s)
      BY <1>5, RenewRenews
    <2>2. LeaseOf(r)'
      BY <2>1, RenewedLease DEF LeaseInv
    <2>3. ASSUME NEW q \in Runs \ {r} PROVE LeaseOf(q)'
      BY <1>5, <2>1, <2>3, RenewRenews, LeaseStays DEF LeaseInv, Renewed
    <2> QED
      BY <2>2, <2>3 DEF LeaseInv
  <1>6. ASSUME NEW r \in Runs, BeatFires(r) PROVE LeaseInv'
    <2>1. UNCHANGED <<pc, req, lost, lock, now>> /\ LockStep
      BY <1>6, SameLock DEF BeatFires, dbVars, runVars, ctlVars, envVars
    <2>2. LeaseOf(r)' /\ \A q \in Runs \ {r} : hb'[q] = hb[q]
      BY <1>6, BeatLease DEF LeaseInv
    <2>3. ASSUME NEW q \in Runs \ {r} PROVE LeaseOf(q)'
      BY <2>1, <2>2, <2>3, LeaseStays DEF LeaseInv
    <2> QED
      BY <2>2, <2>3 DEF LeaseInv
  <1> QED
    BY <1>2, <1>3, <1>4, <1>5, <1>6, AdvanceLease, CrashLease, TickLease DEF Next

LEMMA LeasesStart == Init => LeaseInv
  BY DEF Init, LeaseInv, LeaseOf, Leased, Begun, Judged

LEMMA LeasesExclude == ASSUME LeaseInv PROVE ExclusiveWriter
  <1>1. \A r \in Runs : Writing(r) => Owns(r)
    BY DEF LeaseInv, LeaseOf, Writing, Leased, Begun, Judged
  <1> QED
    BY <1>1 DEF ExclusiveWriter, Owns

(* With heartbeats on time and leases of more than one interval, what      *)
(* happens between the start of a task and its closing happens to one      *)
(* invocation of the project, whatever statements fail and windows die.    *)
THEOREM OneWriter == ASSUME Timely, TTL > 1 PROVE Spec => []ExclusiveWriter
<1>1. Init => LeaseInv
  BY LeasesStart
<1>2. IInv /\ LeaseInv /\ [Next]_vars => LeaseInv'
  BY LeaseStep
<1>3. LeaseInv => ExclusiveWriter
  BY LeasesExclude
<1> QED
  BY <1>1, <1>2, <1>3, Inductive, PTL DEF Spec

-----------------------------------------------------------------------------
(***************************************************************************)
(* What an invocation that saw its task start leaves behind.               *)
(***************************************************************************)
(* Nobody comes to hold a claim but who claims it.                         *)
ClaimStep ==
    \A k \in Keys :
        claim'[k].status = "in_progress" =>
            \/ claim[k].status = "in_progress" /\ claim'[k].owner = claim[k].owner
            \/ pc[claim'[k].owner] \in {"claim", "reclaim"}

(* A task that was begun is moved by nobody but r, who began it.           *)
TaskStep(r) ==
    \A t \in Tasks : task'[t] = task[t] \/ task[t] \in {"absent", "prepared"} \/ winner[t] = r

LEMMA ClaimTyped ==
    ASSUME IInv
    PROVE  claim \in [Keys -> [status : ClaimStatus, owner : Runs \union {NoRun}, lease : Nat]]
  BY DEF IInv, TypeOK

LEMMA SameClaim == ASSUME claim' = claim PROVE ClaimStep
  BY DEF ClaimStep

LEMMA SettleClaimStep ==
    ASSUME IInv, NEW r \in Runs, req[r] \in Keys, NEW s \in {"completed", "failed"}, SettleClaim(r, s),
           UNCHANGED req
    PROVE  ClaimStep /\ ~HoldsClaim(r)'
  <1>1. CASE HoldsClaim(r)
    <2>1. claim' = [claim EXCEPT ![req[r]] = [status |-> s, owner |-> r, lease |-> 0]]
      BY <1>1 DEF SettleClaim
    <2> QED
      BY <2>1, ClaimTyped DEF ClaimStep, HoldsClaim
  <1>2. CASE ~HoldsClaim(r)
    BY <1>2, SameClaim DEF SettleClaim, HoldsClaim
  <1> QED
    BY <1>1, <1>2

LEMMA ClaimClaims ==
    ASSUME IInv, NEW r \in Runs, ClaimIdempotency(r) \/ ReclaimIdempotency(r)
    PROVE  ClaimStep
  <1>1. req[r] \in Keys
    BY ReqType DEF ClaimIdempotency, ReclaimIdempotency
  <1>2. pc[r] \in {"claim", "reclaim"} /\ (claim' = claim \/ claim' = [claim EXCEPT ![req[r]] = Held(r)])
    BY DEF ClaimIdempotency, ReclaimIdempotency
  <1> QED
    BY <1>1, <1>2, ClaimTyped DEF ClaimStep, Held

LEMMA RenewClaims == ASSUME IInv, NEW r \in Runs, Renew(r) PROVE ClaimStep
  <1>1. CASE RenewIdempotencyClaim(r)
    <2>1. \/ claim' = claim
          \/ claim' = [claim EXCEPT ![req[r]].lease = now + TTL]
      BY <1>1 DEF RenewIdempotencyClaim
    <2> QED
      BY <2>1, ClaimTyped DEF ClaimStep
  <1>2. CASE RenewProjectRunLock(r) \/ RenewalFails(r)
    BY <1>2, SameClaim DEF RenewProjectRunLock, RenewalFails, dbVars
  <1> QED
    BY <1>1, <1>2 DEF Renew

LEMMA AdvanceClaims == ASSUME IInv, NEW r \in Runs, Advance(r) PROVE ClaimStep
  <1>1. CASE ClaimIdempotency(r) \/ ReclaimIdempotency(r)
    BY <1>1, ClaimClaims
  <1>2. CASE RejectCommand(r) \/ FinishRun(r) \/ SafeFailClaim(r)
    <2>1. req[r] \in Keys
      BY <1>2, ReqType DEF RejectCommand, FinishRun, SafeFailClaim
    <2>2. UNCHANGED req /\ (SettleClaim(r, "completed") \/ SettleClaim(r, "failed"))
      BY <1>2 DEF RejectCommand, FinishRun, SafeFailClaim, runVars
    <2> QED
      BY <2>1, <2>2, SettleClaimStep
  <1>3. ASSUME ~(ClaimIdempotency(r) \/ ReclaimIdempotency(r)),
               ~(RejectCommand(r) \/ FinishRun(r) \/ SafeFailClaim(r))
        PROVE  claim' = claim
    <2>1. CASE Invoke(r) \/ AcquireProjectRunLock(r) \/ ReleaseProjectRunLock(r) \/ HeartbeatStarted(r)
      BY <2>1 DEF Invoke, AcquireProjectRunLock, ReleaseProjectRunLock, HeartbeatStarted, dbVars
    <2>2. CASE GetTaskLifecycleState(r) \/ BootstrapTaskState(r) \/ BeginTask(r)
      BY <2>2 DEF GetTaskLifecycleState, BootstrapTaskState, BeginTask, TransitionTaskState, dbVars
    <2>3. CASE LogBegin(r) \/ HealthCheck(r) \/ CodexCloses(r) \/ MoveToReconciling(r)
      BY <2>3 DEF LogBegin, HealthCheck, CodexCloses, MoveToReconciling, LogTransition,
                  TransitionTaskState, dbVars
    <2>4. CASE LogReconciling(r) \/ CollectOutcome(r) \/ SnapshotThrows(r) \/ PersistExecution(r)
      BY <2>4 DEF LogReconciling, CollectOutcome, SnapshotThrows, PersistExecution, LogTransition, dbVars
    <2>5. CASE CloseTask(r) \/ LogClose(r)
      BY <2>5 DEF CloseTask, LogClose, LogTransition, TransitionTaskState
    <2>6. CASE ReadStateAfterFailure(r) \/ FailTask(r) \/ LogFailure(r)
      BY <2>6 DEF ReadStateAfterFailure, FailTask, LogFailure, LogTransition, TransitionTaskState, dbVars
    <2>7. CASE StopHeartbeat(r) \/ StatementFails(r)
      BY <2>7 DEF StopHeartbeat, StatementFails, dbVars
    <2> QED
      BY <1>3, <2>1, <2>2, <2>3, <2>4, <2>5, <2>6, <2>7 DEF Advance
  <1> QED
    BY <1>1, <1>2, <1>3, SameClaim

(* An invocation that began its task or recovers from a failure has won it. *)
LEMMA Won ==
    ASSUME IInv, NEW r \in Runs, pc[r] \in Begun \/ started[r]
    PROVE  /\ req[r] \in Keys /\ req[r].task \in Tasks /\ winner[req[r].task] = r
           /\ task[req[r].task] \in {"running", "reconciling"} \union Final
  <1>1. req[r] \in Keys /\ winner[req[r].task] = r
    BY DEF IInv, OwnerInv, Executed
  <1>2. req[r].task \in Tasks /\ r # NoRun
    BY <1>1, ConstantsOK DEF Keys, ConstantsOK
  <1> QED
    BY <1>1, <1>2 DEF IInv, WinnerInv, TypeOK, Lifecycle

LEMMA TransitionTasks ==
    ASSUME IInv, NEW r \in Runs, NEW at \in Begun \union Recovering, NEW from, NEW to, NEW n,
           TransitionTaskState(r, at, from, to, n)
    PROVE  TaskStep(r)
  <1>1. pc[r] = at /\ task \in [Tasks -> Lifecycle]
    BY DEF TransitionTaskState, IInv, TypeOK
  <1>2. winner[req[r].task] = r /\ req[r].task \in Tasks
    BY <1>1, Won DEF IInv, OwnerInv
  <1>3. task' = task \/ task' = [task EXCEPT ![req[r].task] = to]
    BY DEF TransitionTaskState
  <1> QED
    BY <1>1, <1>2, <1>3 DEF TaskStep

LEMMA AdvanceTasks == ASSUME IInv, NEW r \in Runs, Advance(r) PROVE TaskStep(r)
  <1>0. task \in [Tasks -> Lifecycle]
    BY DEF IInv, TypeOK
  <1>1. CASE BeginTask(r)
    <2>1. \/ task' = task
          \/ /\ task[req[r].task] = "prepared"
             /\ task' = [task EXCEPT ![req[r].task] = "running"]
      BY <1>1 DEF BeginTask, TransitionTaskState
    <2> QED
      BY <1>0, <2>1 DEF TaskStep
  <1>2. CASE BootstrapTaskState(r)
    <2>1. ~RowExists(r)
      BY <1>2 DEF IInv, RequestInv, BootstrapTaskState, RowExists
    <2> QED
      BY <1>2, <2>1 DEF BootstrapTaskState, TaskStep
  <1>3. CASE MoveToReconciling(r)
    BY <1>3, TransitionTasks DEF MoveToReconciling, Begun, Judged
  <1>4. CASE CloseTask(r)
    BY <1>4, TransitionTasks DEF CloseTask, TransitionTaskState, Begun, Judged
  <1>5. CASE FailTask(r)
    BY <1>5, TransitionTasks DEF FailTask, Recovering
  <1>6. ASSUME ~BeginTask(r), ~BootstrapTaskState(r), ~MoveToReconciling(r), ~CloseTask(r), ~FailTask(r)
        PROVE  task' = task
    <2>1. CASE Invoke(r) \/ AcquireProjectRunLock(r) \/ ReleaseProjectRunLock(r) \/ HeartbeatStarted(r)
      BY <2>1 DEF Invoke, AcquireProjectRunLock, ReleaseProjectRunLock, HeartbeatStarted, dbVars
    <2>2. CASE ClaimIdempotency(r) \/ ReclaimIdempotency(r) \/ GetTaskLifecycleState(r) \/ LogBegin(r)
      BY <2>2 DEF ClaimIdempotency, ReclaimIdempotency, GetTaskLifecycleState, LogBegin, LogTransition, dbVars
    <2>3. CASE HealthCheck(r) \/ CodexCloses(r) \/ LogReconciling(r) \/ CollectOutcome(r)
      BY <2>3 DEF HealthCheck, CodexCloses, LogReconciling, CollectOutcome, LogTransition, dbVars
    <2>4. CASE SnapshotThrows(r) \/ PersistExecution(r) \/ LogClose(r) \/ StatementFails(r)
      BY <2>4 DEF SnapshotThrows, PersistExecution, LogClose, StatementFails, LogTransition, dbVars
    <2>5. CASE RejectCommand(r) \/ FinishRun(r) \/ SafeFailClaim(r)
      BY <2>5 DEF RejectCommand, FinishRun, SafeFailClaim
    <2>6. CASE ReadStateAfterFailure(r) \/ LogFailure(r) \/ StopHeartbeat(r)
      BY <2>6 DEF ReadStateAfterFailure, LogFailure, StopHeartbeat, LogTransition, dbVars
    <2> QED
      BY <1>6, <2>1, <2>2, <2>3, <2>4, <2>5, <2>6 DEF Advance
  <1> QED
    BY <1>1, <1>2, <1>3, <1>4, <1>5, <1>6 DEF TaskStep

LEMMA SettledStays ==
    ASSUME IInv, NEW q \in Runs, SettledOf(q), ClaimStep,
           UNCHANGED <<pc[q], req[q], started[q]>>,
           pc[q] \in Begun \/ started[q] => task'[req[q].task] = task[req[q].task]
    PROVE  SettledOf(q)'
  <1>1. started[q] \/ pc[q] \in Recovering => started[q] /\ req[q] \in Keys
    BY Won DEF IInv, OwnerInv
  <1>2. ASSUME pc[q] \in Recovering \union Leaving, started[q], ~HoldsClaim(q)
        PROVE  ~HoldsClaim(q)'
    <2>1. req[q] \in Keys /\ pc[q] \notin {"claim", "reclaim"}
      BY <1>1, <1>2 DEF Recovering, Leaving
    <2> QED
      BY <1>2, <2>1 DEF ClaimStep, HoldsClaim
  <1> QED
    BY <1>1, <1>2 DEF SettledOf, Recovering, Leaving

LEMMA OthersSettle ==
    ASSUME IInv, NEW q \in Runs, SettledOf(q), ClaimStep, NEW r, r # q, TaskStep(r),
           UNCHANGED <<pc[q], req[q], started[q]>>
    PROVE  SettledOf(q)'
  <1>1. pc[q] \in Begun \/ started[q] => task'[req[q].task] = task[req[q].task]
    <2> SUFFICES ASSUME pc[q] \in Begun \/ started[q]
                 PROVE  task'[req[q].task] = task[req[q].task]
      OBVIOUS
    <2>1. /\ req[q].task \in Tasks /\ winner[req[q].task] = q
          /\ task[req[q].task] \in {"running", "reconciling"} \union Final
      BY Won
    <2> QED
      BY <2>1 DEF TaskStep, Final
  <1> QED
    BY <1>1, SettledStays

(* Without faults a statement that throws is one that found no row to move *)
(* or a claim that was lost.                                               *)
LEMMA NoThrows == ASSUME MaxFaults = 0, faults = 0, NEW r PROVE ~Throws(r)
  BY DEF Throws

LEMMA UnstartedSettles ==
    ASSUME IInv, NEW r \in Runs, SettledOf(r), pc[r] \in Unstarted, Advance(r), ~LogBegin(r),
           MaxFaults = 0, faults = 0
    PROVE  ~started[r] /\ started'[r] = FALSE /\ pc'[r] \notin Recovering
           /\ (pc'[r] = "beginlog" => HomeOf[req'[r].task] = req'[r].project)
  <1>0. TypeOK /\ ~started[r] /\ ~Throws(r)
    BY NoThrows DEF IInv, SettledOf
  <1>1. Handler(r, pc[r]) \notin Recovering /\ Handler(r, pc[r]) # "beginlog"
    BY <1>0, HandlerLabel DEF Recovering
  <1>2. Raises(r) => pc'[r] \notin Recovering /\ pc'[r] # "beginlog"
    BY <1>0, <1>1, Controls
  <1>3. CASE Invoke(r) \/ AcquireProjectRunLock(r) \/ ClaimIdempotency(r) \/ ReclaimIdempotency(r)
    <2>1. started' = started
          /\ pc' \in {[pc EXCEPT ![r] = n] : n \in {"done", "acquire", "claim", "stop", "reclaim", "firstbeat"}}
      BY <1>0, <1>3 DEF Invoke, AcquireProjectRunLock, ClaimIdempotency, ReclaimIdempotency, Answers,
                        Goes, Returns, runVars
    <2> QED
      BY <1>0, <2>1 DEF TypeOK, Recovering
  <1>4. CASE HeartbeatStarted(r) \/ RejectCommand(r) \/ GetTaskLifecycleState(r)
    <2>1. started' = started
          /\ pc' \in {[pc EXCEPT ![r] = n] : n \in {"getstate", "failclaim", "stop", "bootstrap", "begin"}}
      BY <1>0, <1>4 DEF HeartbeatStarted, RejectCommand, GetTaskLifecycleState, AnswersResult, Goes,
                        Returns, runVars
    <2> QED
      BY <1>0, <2>1 DEF TypeOK, Recovering
  <1>5. CASE BootstrapTaskState(r)
    <2>1. started' = started /\ (Raises(r) \/ Goes(r, "begin"))
      BY <1>0, <1>5 DEF BootstrapTaskState, Answers, runVars
    <2> QED
      BY <1>0, <1>2, <2>1, Controls DEF Recovering
  <1>6. CASE BeginTask(r)
    <2>1. UNCHANGED <<req, started>> /\ (Raises(r) \/ RowExists(r))
          /\ (Raises(r) \/ Goes(r, "beginlog"))
      BY <1>0, <1>6 DEF BeginTask, TransitionTaskState, Answers, runVars
    <2> QED
      BY <1>0, <1>2, <2>1, Controls DEF Recovering, RowExists
  <1>7. CASE StatementFails(r)
    BY <1>0, <1>7 DEF StatementFails
  <1>8. pc[r] \notin {"health", "codex", "moverecon", "reconlog", "collect", "persist", "close",
                      "closelog", "settle", "catchclaim", "catchstate", "catchrunning", "catchrecon",
                      "catchlog", "stop", "release"}
    BY DEF Unstarted
  <1> QED
    BY <1>0, <1>3, <1>4, <1>5, <1>6, <1>7, <1>8 DEF Advance, HealthCheck, CodexCloses,
       MoveToReconciling, LogReconciling, CollectOutcome, SnapshotThrows, PersistExecution,
       CloseTask, LogClose, FinishRun, SafeFailClaim, ReadStateAfterFailure, FailTask, LogFailure,
       StopHeartbeat, ReleaseProjectRunLock, TransitionTaskState, LogTransition

(* Between the start of the task and the settling of the claim nothing is  *)
(* claimed of the run but that its task is its own.                        *)
LEMMA BegunSettles ==
    ASSUME IInv, NEW r \in Runs, SettledOf(r), pc[r] \in Begun \ {"settle"}, Advance(r),
           MaxFaults = 0, faults = 0
    PROVE  SettledOf(r)'
  <1>0. TypeOK /\ ~Throws(r)
    BY NoThrows DEF IInv
  <1>1. pc[r] \in Guarded
    BY DEF Guarded, Begun, Judged
  <1>2. Raises(r) => pc'[r] = "catchclaim"
    BY <1>0, <1>1, Controls, HandlerLabel
  <1>3. UNCHANGED req
        /\ (pc'[r] = "catchclaim" \/ pc'[r] \in Begun \ {"beginlog"})
        /\ (started'[r] => started[r] \/ pc[r] = "beginlog")
    <2>1. CASE LogBegin(r)
      <3>1. UNCHANGED req /\ Goes(r, "health") /\ pc[r] = "beginlog"
        BY <1>0, <2>1 DEF LogBegin, LogTransition, Answers
      <3> QED
        BY <1>0, <3>1, Controls DEF Begun
    <2>2. CASE HealthCheck(r) \/ CodexCloses(r) \/ CollectOutcome(r) \/ PersistExecution(r)
      <3>1. UNCHANGED <<req, started>>
            /\ (Goes(r, "moverecon") \/ Goes(r, "codex") \/ Goes(r, "persist") \/ Goes(r, "close"))
        BY <1>0, <2>2 DEF HealthCheck, CodexCloses, CollectOutcome, PersistExecution, Answers, runVars
      <3> QED
        BY <1>0, <3>1, Controls DEF Begun, Judged
    <2>3. CASE LogReconciling(r) \/ LogClose(r)
      <3>1. UNCHANGED <<req, started>> /\ (Goes(r, "collect") \/ Goes(r, "settle"))
        BY <1>0, <2>3 DEF LogReconciling, LogClose, LogTransition, Answers
      <3> QED
        BY <1>0, <3>1, Controls DEF Begun, Judged
    <2>4. CASE MoveToReconciling(r) \/ CloseTask(r)
      <3>1. UNCHANGED <<req, started>> /\ (Raises(r) \/ Goes(r, "reconlog") \/ Goes(r, "closelog"))
        BY <1>0, <2>4 DEF MoveToReconciling, CloseTask, TransitionTaskState, Answers, runVars
      <3> QED
        BY <1>0, <1>2, <3>1, Controls DEF Begun, Judged
    <2>5. CASE SnapshotThrows(r)
      BY <1>2, <2>5 DEF SnapshotThrows, runVars
    <2>6. CASE StatementFails(r)
      BY <1>0, <2>6 DEF StatementFails
    <2>7. pc[r] \notin {"idle", "acquire", "claim", "reclaim", "firstbeat", "failclaim", "getstate",
                        "bootstrap", "begin", "settle", "catchclaim", "catchstate", "catchrunning",
                        "catchrecon", "catchlog", "stop", "release"}
      BY DEF Begun, Judged
    <2> QED
      BY <2>1, <2>2, <2>3, <2>4, <2>5, <2>6, <2>7 DEF Advance, Invoke, AcquireProjectRunLock,
         ClaimIdempotency, ReclaimIdempotency, HeartbeatStarted, RejectCommand, GetTaskLifecycleState,
         BootstrapTaskState, BeginTask, FinishRun, SafeFailClaim, ReadStateAfterFailure, FailTask,
         LogFailure, StopHeartbeat, ReleaseProjectRunLock, TransitionTaskState, LogTransition
  <1>4. pc'[r] \notin Unstarted \union Recovering \union Leaving
    BY <1>3 DEF Unstarted, Recovering, Leaving, Begun, Judged
  <1> QED
    BY <1>3, <1>4 DEF SettledOf, Unstarted, Recovering, Leaving

LEMMA FinishSettles ==
    ASSUME IInv, NEW r \in Runs, SettledOf(r), FinishRun(r), MaxFaults = 0, faults = 0
    PROVE  SettledOf(r)'
  <1>0. TypeOK /\ ~Throws(r) /\ pc[r] = "settle" /\ req[r] \in Keys
        /\ UNCHANGED <<task, req, started>>
    BY NoThrows, ReqType DEF IInv, FinishRun, runVars
  <1>1. pc'[r] \in {"stop", "catchclaim"}
    <2>1. Raises(r) => pc'[r] = "catchclaim"
      BY <1>0, Controls, HandlerLabel DEF Guarded
    <2>2. Raises(r) \/ Returns(r, "stop", "ok") \/ Returns(r, "stop", "error")
      BY <1>0 DEF FinishRun, AnswersResult
    <2> QED
      BY <1>0, <2>1, <2>2, Controls
  <1>2. ~HoldsClaim(r)'
    BY <1>0, SettleClaimStep DEF FinishRun
  <1>3. task[req[r].task] \in Final
    BY <1>0, FinalTaskStateType DEF IInv, PhaseInv, PhaseOf, OutcomeInv, Judged
  <1> QED
    BY <1>0, <1>1, <1>2, <1>3 DEF SettledOf, Unstarted, Recovering

LEMMA FailClaimSettles ==
    ASSUME IInv, NEW r \in Runs, SettledOf(r), SafeFailClaim(r), MaxFaults = 0, faults = 0
    PROVE  SettledOf(r)'
  <1>0. TypeOK /\ ~Throws(r) /\ pc[r] = "catchclaim" /\ req[r] \in Keys /\ UNCHANGED <<req, started>>
    BY NoThrows, ReqType DEF IInv, SafeFailClaim, runVars
  <1>1. Goes(r, IF started[r] THEN "catchstate" ELSE "stop") /\ SettleClaim(r, "failed")
    BY <1>0 DEF SafeFailClaim, Answers
  <1>2. ~HoldsClaim(r)'
    BY <1>0, <1>1, SettleClaimStep
  <1>3. (started[r] /\ pc'[r] = "catchstate") \/ (~started[r] /\ pc'[r] = "stop")
    BY <1>0, <1>1 DEF Goes, Returns, TypeOK
  <1> QED
    BY <1>0, <1>2, <1>3 DEF SettledOf, Unstarted, Recovering, Leaving

(* The catch block reads the state the task is in and moves it from there. *)
LEMMA CatchSettles ==
    ASSUME IInv, NEW r \in Runs, SettledOf(r), MaxFaults = 0, faults = 0,
           ReadStateAfterFailure(r) \/ FailTask(r) \/ LogFailure(r)
    PROVE  SettledOf(r)'
  <1>0. TypeOK /\ ~Throws(r) /\ pc[r] \in Recovering /\ UNCHANGED <<claim, req, started>>
    BY NoThrows DEF IInv, ReadStateAfterFailure, FailTask, LogFailure, TransitionTaskState,
                    LogTransition, Recovering, dbVars, runVars
  <1>1. /\ req[r] \in Keys /\ req[r].task \in Tasks /\ started[r]
        /\ task[req[r].task] \in {"running", "reconciling"} \union Final
    BY <1>0, Won DEF IInv, OwnerInv
  <1>2. ~HoldsClaim(r) /\ ~HoldsClaim(r)' /\ HomeOf[req[r].task] = req[r].project
    BY <1>0, <1>1 DEF SettledOf, HoldsClaim
  <1>3. CASE ReadStateAfterFailure(r)
    <2>1. UNCHANGED task
          /\ Goes(r, CASE task[req[r].task] = "running" -> "catchrunning"
                       [] task[req[r].task] = "reconciling" -> "catchrecon"
                       [] OTHER -> "stop")
      BY <1>3 DEF ReadStateAfterFailure, dbVars
    <2>2. \/ task[req[r].task] = "running" /\ pc'[r] = "catchrunning"
          \/ task[req[r].task] = "reconciling" /\ pc'[r] = "catchrecon"
          \/ task[req[r].task] \in Final /\ pc'[r] = "stop"
      <3>1. "running" # "reconciling" /\ "running" \notin Final /\ "reconciling" \notin Final
        BY DEF Final
      <3>2. CASE task[req[r].task] = "running"
        BY <1>0, <2>1, <3>1, <3>2, Controls
      <3>3. CASE task[req[r].task] = "reconciling"
        BY <1>0, <2>1, <3>1, <3>3, Controls
      <3>4. CASE task[req[r].task] \in Final
        BY <1>0, <2>1, <3>1, <3>4, Controls
      <3> QED
        BY <1>1, <3>2, <3>3, <3>4
    <2> QED
      BY <1>0, <1>1, <1>2, <2>1, <2>2 DEF SettledOf, Unstarted, Leaving
  <1>4. CASE FailTask(r)
    <2>1. task[req[r].task] = IF pc[r] = "catchrunning" THEN "running" ELSE "reconciling"
      BY <1>4 DEF SettledOf, FailTask, TransitionTaskState
    <2>2. RowExists(r)
      BY <1>2, <2>1 DEF RowExists
    <2>3. task' = [task EXCEPT ![req[r].task] = "failed"] /\ Goes(r, "catchlog")
      BY <1>0, <1>4, <2>1, <2>2 DEF FailTask, TransitionTaskState, Answers
    <2>4. task'[req[r].task] = "failed" /\ pc'[r] = "catchlog"
      BY <1>0, <1>1, <2>3, Controls DEF TypeOK
    <2> QED
      BY <1>0, <1>1, <1>2, <2>4 DEF SettledOf, Unstarted, Leaving
  <1>5. CASE LogFailure(r)
    <2>1. Goes(r, "stop") /\ UNCHANGED task /\ pc[r] = "catchlog"
      BY <1>0, <1>5 DEF LogFailure, LogTransition, Answers
    <2>2. pc'[r] = "stop" /\ task'[req[r].task] \in Final
      BY <1>0, <2>1, Controls DEF SettledOf, Final
    <2> QED
      BY <1>0, <1>1, <1>2, <2>2 DEF SettledOf, Unstarted, Leaving, Recovering
  <1> QED
    BY <1>3, <1>4, <1>5

LEMMA LeavingSettles ==
    ASSUME IInv, NEW r \in Runs, SettledOf(r), MaxFaults = 0, faults = 0,
           StopHeartbeat(r) \/ ReleaseProjectRunLock(r)
    PROVE  SettledOf(r)'
  <1>0. TypeOK /\ ~Throws(r) /\ pc[r] \in Leaving /\ UNCHANGED <<task, claim, req, started>>
    BY NoThrows DEF IInv, StopHeartbeat, ReleaseProjectRunLock, Leaving, dbVars, runVars
  <1>1. Goes(r, "release") \/ Goes(r, "done")
    BY <1>0 DEF StopHeartbeat, ReleaseProjectRunLock, Answers
  <1>2. pc'[r] \in {"release", "done"}
    BY <1>0, <1>1, Controls
  <1> QED
    BY <1>0, <1>2 DEF SettledOf, Unstarted, Recovering, Leaving, HoldsClaim

LEMMA AdvanceSettles ==
    ASSUME IInv, NEW r \in Runs, SettledOf(r), Advance(r), MaxFaults = 0, faults = 0
    PROVE  SettledOf(r)'
  <1>0. pc[r] \in Labels
    BY DEF IInv, TypeOK
  <1>1. CASE pc[r] \in Unstarted /\ LogBegin(r)
    BY <1>1, BegunSettles DEF LogBegin, LogTransition, Begun
  <1>2. CASE pc[r] \in Unstarted /\ ~LogBegin(r)
    BY <1>2, UnstartedSettles DEF SettledOf, Recovering
  <1>3. CASE pc[r] \in Begun \ {"settle"}
    BY <1>3, BegunSettles
  <1>4. CASE pc[r] \in {"settle", "catchclaim"} \union Recovering \union Leaving
    <2>1. CASE StatementFails(r)
      BY <2>1, NoThrows DEF StatementFails
    <2>2. CASE FinishRun(r) \/ SafeFailClaim(r)
      BY <2>2, FinishSettles, FailClaimSettles
    <2>3. CASE ReadStateAfterFailure(r) \/ FailTask(r) \/ LogFailure(r)
      BY <2>3, CatchSettles
    <2>4. CASE StopHeartbeat(r) \/ ReleaseProjectRunLock(r)
      BY <2>4, LeavingSettles
    <2>5. pc[r] \notin {"idle", "acquire", "claim", "reclaim", "firstbeat", "failclaim", "getstate",
                        "bootstrap", "begin", "beginlog", "health", "codex", "moverecon", "reconlog",
                        "collect", "persist", "close", "closelog"}
      BY <1>4 DEF Recovering, Leaving
    <2> QED
      BY <2>1, <2>2, <2>3, <2>4, <2>5 DEF Advance, Invoke, AcquireProjectRunLock, ClaimIdempotency,
         ReclaimIdempotency, HeartbeatStarted, RejectCommand, GetTaskLifecycleState,
         BootstrapTaskState, BeginTask, LogBegin, HealthCheck, CodexCloses, MoveToReconciling,
         LogReconciling, CollectOutcome, SnapshotThrows, PersistExecution, CloseTask, LogClose,
         TransitionTaskState, LogTransition
  <1>5. CASE pc[r] = "crashed"
    BY <1>5 DEF Advance, Invoke, AcquireProjectRunLock, ClaimIdempotency, ReclaimIdempotency,
       HeartbeatStarted, RejectCommand, GetTaskLifecycleState, BootstrapTaskState, BeginTask,
       LogBegin, HealthCheck, CodexCloses, MoveToReconciling, LogReconciling, CollectOutcome,
       SnapshotThrows, PersistExecution, CloseTask, LogClose, FinishRun, SafeFailClaim,
       ReadStateAfterFailure, FailTask, LogFailure, StopHeartbeat, ReleaseProjectRunLock,
       StatementFails, TransitionTaskState, LogTransition, Statements
  <1> QED
    BY <1>0, <1>1, <1>2, <1>3, <1>4, <1>5 DEF Labels, Statements, Ended, Unstarted, Begun, Judged,
       Recovering, Leaving

(* Faults are counted by the statements that throw.                        *)
LEMMA AdvanceFaults ==
    ASSUME NEW r \in Runs, Advance(r), MaxFaults = 0, faults = 0 PROVE faults' = 0
  <1>0. ~Throws(r)
    BY NoThrows
  <1>1. CASE Invoke(r) \/ AcquireProjectRunLock(r) \/ ReleaseProjectRunLock(r) \/ HeartbeatStarted(r)
    BY <1>0, <1>1 DEF Invoke, AcquireProjectRunLock, ReleaseProjectRunLock, HeartbeatStarted, Answers,
                      Goes, Returns
  <1>2. CASE ClaimIdempotency(r) \/ ReclaimIdempotency(r) \/ GetTaskLifecycleState(r) \/ LogBegin(r)
    BY <1>0, <1>2 DEF ClaimIdempotency, ReclaimIdempotency, GetTaskLifecycleState, LogBegin,
                      LogTransition, Answers, Goes, Returns
  <1>3. CASE HealthCheck(r) \/ CodexCloses(r) \/ LogReconciling(r) \/ CollectOutcome(r)
    BY <1>0, <1>3 DEF HealthCheck, CodexCloses, LogReconciling, CollectOutcome, LogTransition,
                      Answers, Goes, Returns
  <1>4. CASE SnapshotThrows(r) \/ PersistExecution(r) \/ LogClose(r) \/ StatementFails(r)
    BY <1>0, <1>4 DEF SnapshotThrows, PersistExecution, LogClose, StatementFails, LogTransition,
                      Answers, Goes, Returns
  <1>5. CASE RejectCommand(r) \/ FinishRun(r) \/ SafeFailClaim(r)
    BY <1>0, <1>5 DEF RejectCommand, FinishRun, SafeFailClaim, AnswersResult, Answers, Goes, Returns
  <1>6. CASE ReadStateAfterFailure(r) \/ LogFailure(r) \/ StopHeartbeat(r)
    BY <1>0, <1>6 DEF ReadStateAfterFailure, LogFailure, StopHeartbeat, LogTransition, Answers, Goes,
                      Returns
  <1>7. CASE BeginTask(r) \/ BootstrapTaskState(r) \/ MoveToReconciling(r) \/ CloseTask(r) \/ FailTask(r)
    BY <1>0, <1>7 DEF BeginTask, BootstrapTaskState, MoveToReconciling, CloseTask, FailTask,
                      TransitionTaskState, Answers, Goes, Returns
  <1> QED
    BY <1>1, <1>2, <1>3, <1>4, <1>5, <1>6, <1>7 DEF Advance

LEMMA CrashSettles ==
    ASSUME IInv, NEW w \in Windows, Crash(w), NEW q \in Runs, SettledOf(q)
    PROVE  SettledOf(q)'
  <1>1. UNCHANGED <<task, claim, req, started>> /\ (pc'[q] = pc[q] \/ pc'[q] = "crashed")
    BY DEF Crash, dbVars
  <1> QED
    BY <1>1 DEF SettledOf, HoldsClaim, Unstarted, Recovering, Leaving

LEMMA SettledStep ==
    ASSUME MaxFaults = 0, IInv, SettledInv, [Next]_vars PROVE SettledInv'
  <1>0. faults = 0 /\ \A q \in Runs : SettledOf(q)
    BY DEF SettledInv
  <1>1. ASSUME UNCHANGED <<claim, pc, req, started, faults>>,
               \A t \in Tasks : task'[t] = task[t] \/ task[t] = "absent"
        PROVE  SettledInv'
    <2>1. \A q \in Runs : pc[q] \in Begun \/ started[q] => task'[req[q].task] = task[req[q].task]
      BY <1>1, Won DEF Final
    <2> QED
      BY <1>0, <1>1, <2>1, SameClaim, SettledStays DEF SettledInv
  <1>2. CASE UNCHANGED vars
    BY <1>1, <1>2 DEF vars, dbVars, runVars, ctlVars
  <1>3. ASSUME NEW w \in Windows, NEW t \in Tasks, PrepareTask(w, t) PROVE SettledInv'
    <2>1. task \in [Tasks -> Lifecycle]
      BY DEF IInv, TypeOK
    <2> QED
      BY <1>1, <1>3, <2>1 DEF PrepareTask, runVars, ctlVars
  <1>4. CASE Tick
    BY <1>1, <1>4 DEF Tick, dbVars, runVars, ctlVars
  <1>5. ASSUME NEW r \in Runs, BeatFires(r) \/ UserAbort(r) \/ OrphanExit(r) PROVE SettledInv'
    BY <1>1, <1>5 DEF BeatFires, UserAbort, OrphanExit, dbVars, runVars, ctlVars
  <1>6. ASSUME NEW w \in Windows, Crash(w) PROVE SettledInv'
    BY <1>0, <1>6, CrashSettles DEF SettledInv, Crash
  <1>7. ASSUME NEW r \in Runs, Renew(r) PROVE SettledInv'
    <2>1. UNCHANGED <<task, pc, req, started>> /\ ClaimStep
      BY <1>7, RenewClaims DEF Renew, RenewProjectRunLock, RenewIdempotencyClaim, RenewalFails, dbVars
    <2>2. faults' = 0
      <3>1. ~(faults < MaxFaults)
        BY <1>0
      <3> QED
        BY <1>0, <1>7, <3>1 DEF Renew, RenewProjectRunLock, RenewIdempotencyClaim, RenewalFails,
           RenewalAnswers, RenewalThrows
    <2> QED
      BY <1>0, <2>1, <2>2, SettledStays DEF SettledInv
  <1>8. ASSUME NEW r \in Runs, Advance(r) PROVE SettledInv'
    <2>1. ASSUME NEW q \in Runs \ {r} PROVE SettledOf(q)'
      BY <1>0, <1>8, <2>1, AdvanceAlone, AdvanceClaims, AdvanceTasks, OthersSettle DEF Alone, SameRun
    <2>2. SettledOf(r)'
      BY <1>0, <1>8, AdvanceSettles
    <2>3. faults' = 0
      BY <1>0, <1>8, AdvanceFaults
    <2> QED
      BY <2>1, <2>2, <2>3 DEF SettledInv
  <1> QED
    BY <1>2, <1>3, <1>4, <1>5, <1>6, <1>7, <1>8 DEF Next

LEMMA SettledStart == Init => SettledInv
  BY DEF Init, SettledInv, SettledOf, Unstarted, Recovering, Leaving

(* When no statement fails, an invocation that saw its task start returns  *)
(* only after the task is final and its claim settled, whatever windows    *)
(* die, leases expire and invocations overlap.                             *)
THEOREM StartedRuns == ASSUME MaxFaults = 0 PROVE Spec => []StartedRunSettles
<1>1. Init => SettledInv
  BY SettledStart
<1>2. IInv /\ SettledInv /\ [Next]_vars => SettledInv'
  BY SettledStep
<1>3. SettledInv => StartedRunSettles
  BY DEF SettledInv, SettledOf, StartedRunSettles, HoldsClaim, Leaving
<1> QED
  BY <1>1, <1>2, <1>3, Inductive, PTL DEF Spec

=============================================================================
