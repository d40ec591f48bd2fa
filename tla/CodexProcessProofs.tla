------------------------- MODULE CodexProcessProofs -------------------------
(***************************************************************************)
(* CodexProcess keeps its safety properties and implements CodexChild,     *)
(* whether or not the process ignores SIGTERM or leaves others behind.     *)
(***************************************************************************)
EXTENDS CodexProcess, TLAPS

LEMMA InitInv == Init => IInv
BY DEF Init, IInv, TypeOK, SettledIsQuiet, SettledMeansGone, SignalsAreAsked, AbortHeard,
       ExecutionKnown, Settled

(* A new execution: nobody was told to stop it but by an abort before it.  *)
LEMMA SpawnInv ==
    ASSUME IInv, Spawn, aborted' = aborted, stage' \in {"health", "run"}, outputFile' \in BOOLEAN
    PROVE  IInv'
BY ConstantsOK DEF ConstantsOK, Spawn, IInv, TypeOK, SettledIsQuiet, SettledMeansGone, SignalsAreAsked,
       AbortHeard, ExecutionKnown, Settled

(* An execution settles with v, of a process that has ended.               *)
LEMMA FinishInv ==
    ASSUME IInv, NEW v \in {"ok", "cancelled", "timeout", "failed"}, Finish(v),
           ~Settled, ~heirs, proc \in {"gone", "unborn"},
           cancelled <=> v = "cancelled",
           v = "ok" => exit = "zero" /\ ~timedOut
    PROVE  IInv'
BY DEF Finish, osVars, IInv, TypeOK, SettledIsQuiet, SettledMeansGone,
       SignalsAreAsked, AbortHeard, ExecutionKnown, Settled

LEMMA NextInv == IInv /\ [Next]_vars => IInv'
<1> SUFFICES ASSUME IInv, [Next]_vars PROVE IInv'
  OBVIOUS
<1> USE DEF IInv, TypeOK, SettledIsQuiet, SettledMeansGone, SignalsAreAsked, AbortHeard,
            ExecutionKnown, Settled
<1>1. CASE StartHealthcheck
  <2> HIDE DEF IInv
  <2> QED BY <1>1, SpawnInv DEF StartHealthcheck, IInv
<1>2. CASE StartRun
  <2> HIDE DEF IInv
  <2> QED BY <1>2, SpawnInv DEF StartRun, IInv
<1>3. CASE ErrorEvent
  <2> DEFINE v == IF cancelled THEN "cancelled" ELSE "failed"
  <2>1. Finish(v) /\ ~Settled /\ proc = "unborn" /\ ~heirs
    BY <1>3 DEF ErrorEvent
  <2> HIDE DEF IInv
  <2>2. v \in {"ok", "cancelled", "timeout", "failed"} /\ (cancelled <=> v = "cancelled") /\ v # "ok"
    OBVIOUS
  <2> HIDE DEF v
  <2> QED BY <2>1, <2>2, FinishInv
<1>4. CASE CloseEvent
  <2>1. Finish(VerdictOfClose) /\ ~Settled /\ proc = "gone" /\ ~heirs
    BY <1>4 DEF CloseEvent
  <2>2. /\ VerdictOfClose \in {"ok", "cancelled", "timeout", "failed"}
        /\ cancelled <=> VerdictOfClose = "cancelled"
        /\ VerdictOfClose = "ok" => exit = "zero" /\ ~timedOut
    BY DEF VerdictOfClose
  <2> HIDE DEF IInv
  <2> QED BY <2>1, <2>2, FinishInv
<1>5. CASE TimeoutFires
  BY <1>5 DEF TimeoutFires, RequestStop, osVars
<1>6. CASE ForceKillFires
  BY <1>6 DEF ForceKillFires, osVars
<1>7. CASE Abort
  BY <1>7, ZenonT(60) DEF Abort, RequestStop, osVars
<1>8. CASE ProcessExits
  BY <1>8 DEF ProcessExits, Ends, stopVars
<1>9. CASE ProcessKilled
  BY <1>9 DEF ProcessKilled, Ends, stopVars
<1>10. CASE WritesOutput
  BY <1>10 DEF WritesOutput, osVars, stopVars
<1>11. CASE HeirsEnd
  BY <1>11, ZenonT(60) DEF HeirsEnd, stopVars
<1>12. CASE Refused
  BY <1>12 DEF Refused, osVars, stopVars
<1>13. CASE CancelledBeforeRun
  BY <1>13 DEF CancelledBeforeRun, osVars, stopVars
<1>14. CASE RunReturns
  BY <1>14 DEF RunReturns, osVars, stopVars
<1>15. CASE UNCHANGED vars
  BY <1>15 DEF vars, osVars, stopVars
<1> QED BY <1>1, <1>2, <1>3, <1>4, <1>5, <1>6, <1>7, <1>8, <1>9, <1>10, <1>11, <1>12, <1>13, <1>14, <1>15
        DEF Next, Runner

LEMMA Invariant == Spec => []IInv
BY InitInv, NextInv, PTL DEF Spec

(* A settled execution left no timer and no abort listener behind.         *)
THEOREM QuietWhenSettled == Spec => []SettledIsQuiet
BY Invariant, PTL DEF IInv

(* An execution settles only after its process and its heirs are gone.     *)
THEOREM GoneWhenSettled == Spec => []SettledMeansGone
BY Invariant, PTL DEF IInv

(* Every signal was asked for, and an ok execution got none.               *)
THEOREM AskedSignals == Spec => []SignalsAreAsked
BY Invariant, PTL DEF IInv

-----------------------------------------------------------------------------
(* The two executions of a run are, to the run plane, one child that the   *)
(* health check refuses or starts and that closes with a true verdict.     *)
LEMMA ChildInit == Init => Child!Init
BY DEF Init, Child!Init, Over, Settled

LEMMA ChildStep == IInv /\ [Next]_vars => [Child!Abort \/ Child!Refuse \/ Child!Start \/ Child!Close]_(Child!childVars)
<1> SUFFICES ASSUME IInv, [Next]_vars
             PROVE  \/ Child!Abort \/ Child!Refuse \/ Child!Start \/ Child!Close
                    \/ UNCHANGED Child!childVars
  OBVIOUS
<1> USE DEF Over, Settled
<1>1. CASE StartHealthcheck
  BY <1>1 DEF StartHealthcheck, Spawn, Child!childVars, IInv, ExecutionKnown
<1>2. CASE StartRun
  BY <1>2 DEF StartRun, Spawn, Child!Start
<1>3. CASE ErrorEvent \/ CloseEvent
  <2>1. aborted => cancelled
    BY <1>3 DEF ErrorEvent, CloseEvent, IInv, AbortHeard
  <2>2. verdict' \in Child!Verdicts(aborted)
    BY <1>3, <2>1 DEF ErrorEvent, CloseEvent, Finish, VerdictOfClose, Child!Verdicts, IInv,
       AbortHeard
  <2>3. UNCHANGED <<stage, aborted>> /\ ~Settled /\ stage \in {"health", "run"}
    BY <1>3 DEF ErrorEvent, CloseEvent, Finish, IInv, TypeOK, ExecutionKnown
  <2>4. CASE stage = "run"
    BY <2>2, <2>3, <2>4 DEF Child!Close, Child!Verdicts
  <2>5. CASE stage = "health" /\ verdict' = "ok"
    BY <2>3, <2>5 DEF Child!childVars
  <2>6. CASE stage = "health" /\ verdict' # "ok"
    BY <2>2, <2>3, <2>6 DEF Child!Refuse, Child!Verdicts
  <2> QED BY <2>3, <2>4, <2>5, <2>6
<1>4. CASE Abort
  BY <1>4 DEF Abort, Child!Abort
<1>5. CASE TimeoutFires \/ ForceKillFires \/ ProcessExits \/ ProcessKilled \/ WritesOutput \/ HeirsEnd
  BY <1>5 DEF TimeoutFires, ForceKillFires, ProcessExits, ProcessKilled, Ends, WritesOutput,
     HeirsEnd, Child!childVars
<1>6. CASE Refused \/ RunReturns
  BY <1>6 DEF Refused, RunReturns, Child!childVars
<1>7. CASE CancelledBeforeRun
  BY <1>7 DEF CancelledBeforeRun, Child!Refuse, Child!Verdicts
<1>8. CASE UNCHANGED vars
  BY <1>8 DEF vars, Child!childVars
<1> QED BY <1>1, <1>2, <1>3, <1>4, <1>5, <1>6, <1>7, <1>8 DEF Next, Runner

(* CodexProcess implements what RunPlane takes for granted of its child.   *)
THEOREM RefinesChild == Spec => ImplementsChild
BY ChildInit, Invariant, ChildStep, PTL DEF Spec, Child!Spec, ImplementsChild
=============================================================================
