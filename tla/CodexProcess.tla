---------------------------- MODULE CodexProcess ----------------------------
(***************************************************************************)
(* CodexCliRunner.execute, as localRunCodex uses it: one process for the   *)
(* health check and, if it was ok and nobody aborted, one for the run.     *)
(* Each execution is a promise settled once by an event of the child, with *)
(* an abort listener, a timeout and a second timer that escalates SIGTERM  *)
(* to SIGKILL.  Node delivers "close" when the process ended and its pipes *)
(* are closed, which a process it started may keep open.                   *)
(***************************************************************************)
CONSTANTS
    Heirs,      \* TRUE: codex may leave processes behind that hold its pipes
    Stubborn    \* TRUE: it may ignore SIGTERM

ASSUME ConstantsOK == Heirs \in BOOLEAN /\ Stubborn \in BOOLEAN

(* Faulty variants: an operator named X_<Fault> is not part of the model.  *)
(* It is X with a plausible mistake, kept to show that a property notices. *)
VARIABLES
    stage,      \* "health" or "run": which execution; "returned": both are over
    aborted,    \* the AbortSignal
    proc,       \* the process: none yet, alive, gone, or unborn (spawn failed)
    exit,       \* how it ended
    stubborn, heirs,
    sent,       \* signals sent
    timer,      \* timeout
    forceKill,  \* forceKillTimer
    listening,  \* the abort listener
    cancelled, timedOut,
    verdict,    \* of the settled execution
    outputFile  \* the -o file of a run exists

osVars   == <<proc, exit, stubborn, heirs>>
stopVars == <<sent, timer, forceKill, listening, cancelled, timedOut>>
vars     == <<stage, aborted, osVars, stopVars, verdict, outputFile>>

Init ==
    /\ stage = "health" /\ aborted = FALSE
    /\ proc = "none" /\ exit = "none" /\ stubborn = FALSE /\ heirs = FALSE
    /\ sent = {} /\ timer = "off" /\ forceKill = "off" /\ listening = FALSE
    /\ cancelled = FALSE /\ timedOut = FALSE
    /\ verdict = "none" /\ outputFile = FALSE

Settled == verdict # "none"

(***************************************************************************)
(* execute: spawn, listen, and stop at once if the signal is aborted.      *)
(***************************************************************************)
Spawn ==
    /\ \/ /\ proc' = "alive"
          /\ stubborn' \in {FALSE, Stubborn}
          /\ heirs' \in {FALSE, Heirs}
       \/ proc' = "unborn" /\ stubborn' = FALSE /\ heirs' = FALSE
    /\ exit' = "none"
    /\ timer' = "armed" /\ listening' = TRUE
    /\ cancelled' = aborted /\ timedOut' = FALSE
    /\ sent' = IF aborted THEN {"SIGTERM"} ELSE {}
    /\ forceKill' = IF aborted THEN "armed" ELSE "off"
    /\ verdict' = "none"

StartHealthcheck ==
    /\ stage = "health" /\ proc = "none"
    /\ Spawn
    /\ UNCHANGED <<stage, aborted, outputFile>>

RequestStop_NeverEscalates ==
    /\ sent' = sent \union {"SIGTERM"}
    /\ UNCHANGED forceKill

(* requestStop: repeated signals, one escalation timer.                    *)
RequestStop ==
    /\ sent' = sent \union {"SIGTERM"}
    /\ forceKill' = IF forceKill = "off" THEN "armed" ELSE forceKill

Abort_NotMarked ==
    /\ ~aborted /\ aborted' = TRUE
    /\ IF listening THEN RequestStop ELSE UNCHANGED <<sent, forceKill>>
    /\ UNCHANGED <<stage, osVars, timer, listening, cancelled, timedOut, verdict, outputFile>>

Abort ==
    /\ ~aborted /\ aborted' = TRUE
    /\ IF listening
       THEN RequestStop /\ cancelled' = TRUE
       ELSE UNCHANGED <<sent, forceKill, cancelled>>
    /\ UNCHANGED <<stage, osVars, timer, listening, timedOut, verdict, outputFile>>

TimeoutFires ==
    /\ timer = "armed" /\ timer' = "fired"
    /\ timedOut' = TRUE
    /\ RequestStop
    /\ UNCHANGED <<stage, aborted, osVars, listening, cancelled, verdict, outputFile>>

ForceKillFires ==
    /\ forceKill = "armed" /\ forceKill' = "fired"
    /\ sent' = sent \union {"SIGKILL"}
    /\ UNCHANGED <<stage, aborted, osVars, timer, listening, cancelled, timedOut,
                   verdict, outputFile>>

(***************************************************************************)
(* The processes.                                                          *)
(***************************************************************************)
Ends(how) ==
    /\ proc = "alive" /\ proc' = "gone"
    /\ exit' = how
    /\ UNCHANGED <<stage, aborted, stubborn, heirs, stopVars, verdict, outputFile>>

ProcessExits ==
    /\ \E code \in {"zero", "nonzero"} : Ends(code)

ProcessKilled ==
    /\ "SIGKILL" \in sent \/ ("SIGTERM" \in sent /\ ~stubborn)
    /\ Ends("signal")

WritesOutput ==
    /\ stage = "run" /\ proc = "alive" /\ ~outputFile
    /\ outputFile' = TRUE
    /\ UNCHANGED <<stage, aborted, osVars, stopVars, verdict>>

HeirsEnd ==
    /\ heirs /\ proc = "gone"
    /\ heirs' = FALSE
    /\ UNCHANGED <<stage, aborted, proc, exit, stubborn, stopVars, verdict, outputFile>>

(***************************************************************************)
(* finish, by the first event of the child.                                *)
(***************************************************************************)
Finish_KeepsTimer(v) ==
    /\ verdict' = v
    /\ forceKill' = "off" /\ listening' = FALSE
    /\ UNCHANGED <<stage, aborted, osVars, timer, sent, cancelled, timedOut, outputFile>>

Finish(v) ==
    /\ verdict' = v
    /\ timer' = "off" /\ forceKill' = "off" /\ listening' = FALSE
    /\ UNCHANGED <<stage, aborted, osVars, sent, cancelled, timedOut, outputFile>>

(* The spawn failed.  classifyExecutionOutcome asks for cancelled first.   *)
ErrorEvent ==
    /\ proc = "unborn" /\ ~Settled
    /\ Finish(IF cancelled THEN "cancelled" ELSE "failed")

VerdictOfClose_TimeoutFirst ==
    CASE timedOut -> "timeout"
      [] cancelled /\ ~timedOut -> "cancelled"
      [] exit = "zero" /\ ~cancelled /\ ~timedOut -> "ok"
      [] OTHER -> "failed"

VerdictOfClose ==
    CASE cancelled -> "cancelled"
      [] timedOut /\ ~cancelled -> "timeout"
      [] exit = "zero" /\ ~cancelled /\ ~timedOut -> "ok"
      [] OTHER -> "failed"

CloseEvent_OnExit ==
    /\ proc = "gone" /\ ~Settled
    /\ Finish(VerdictOfClose)

CloseEvent ==
    /\ proc = "gone" /\ ~heirs /\ ~Settled
    /\ Finish(VerdictOfClose)

(***************************************************************************)
(* localRunCodex between the executions.                                   *)
(***************************************************************************)
Refused ==
    /\ stage = "health" /\ Settled /\ verdict # "ok"
    /\ stage' = "returned"
    /\ UNCHANGED <<aborted, osVars, stopVars, verdict, outputFile>>

CancelledBeforeRun ==
    /\ stage = "health" /\ verdict = "ok" /\ aborted
    /\ stage' = "returned" /\ verdict' = "cancelled"
    /\ UNCHANGED <<aborted, osVars, stopVars, outputFile>>

StartRun ==
    /\ stage = "health" /\ verdict = "ok" /\ ~aborted
    /\ stage' = "run"
    /\ Spawn
    /\ UNCHANGED <<aborted, outputFile>>

(* run: read the last message, delete the file, return.                    *)
RunReturns ==
    /\ stage = "run" /\ Settled
    /\ stage' = "returned" /\ outputFile' = FALSE
    /\ UNCHANGED <<aborted, osVars, stopVars, verdict>>

Runner ==
    \/ StartHealthcheck \/ TimeoutFires \/ ForceKillFires \/ ErrorEvent \/ CloseEvent
    \/ Refused \/ CancelledBeforeRun \/ StartRun \/ RunReturns

Next == Runner \/ Abort \/ ProcessExits \/ ProcessKilled \/ WritesOutput \/ HeirsEnd

Spec == Init /\ [][Next]_vars

(* Fairness: timers fire and events are delivered, the kernel delivers a   *)
(* signal that cannot be ignored.  A process need not end by itself, nor   *)
(* one that holds its pipes.                                               *)
FairSpec ==
    /\ Spec
    /\ WF_vars(StartHealthcheck \/ StartRun \/ CancelledBeforeRun \/ Refused \/ RunReturns)
    /\ WF_vars(TimeoutFires) /\ WF_vars(ForceKillFires)
    /\ WF_vars(ErrorEvent \/ CloseEvent) /\ WF_vars(ProcessKilled)

-----------------------------------------------------------------------------
(***************************************************************************)
(* Properties.                                                             *)
(***************************************************************************)
(* The type of every variable.                                             *)
TypeOK ==
    /\ stage \in {"health", "run", "returned"}
    /\ proc \in {"none", "alive", "gone", "unborn"}
    /\ exit \in {"none", "zero", "nonzero", "signal"}
    /\ sent \in SUBSET {"SIGTERM", "SIGKILL"}
    /\ timer \in {"off", "armed", "fired"} /\ forceKill \in {"off", "armed", "fired"}
    /\ verdict \in {"none", "ok", "cancelled", "timeout", "failed"}
    /\ {aborted, stubborn, heirs, listening, cancelled, timedOut, outputFile} \subseteq BOOLEAN

(* A settled execution has no timer left that could signal a process id it *)
(* no longer owns, and no listener on the shared abort signal.             *)
SettledIsQuiet ==
    Settled => timer = "off" /\ forceKill = "off" /\ ~listening

(* Nothing of the process is left when its execution settles: it has ended *)
(* and everybody who could still write to its pipes has.                   *)
SettledMeansGone == Settled => proc \in {"gone", "unborn"} /\ ~heirs

(* SIGKILL comes only after SIGTERM and only to an execution someone asked *)
(* to stop; a run that reports ok was not signalled at all.                *)
SignalsAreAsked ==
    /\ sent # {} => cancelled \/ timedOut
    /\ "SIGKILL" \in sent => "SIGTERM" \in sent
    /\ verdict = "ok" => sent = {} /\ exit = "zero"

(* Both executions are over some time, whatever the process does, unless   *)
(* somebody it left behind holds its pipes for ever.                       *)
ExecutionReturns == <>(stage = "returned") \/ <>[]heirs

(* The mapping onto what RunPlane assumes.  An execution that settled with *)
(* anything but an ok health check has closed.                             *)
Over == stage = "returned" \/ (Settled /\ ~(stage = "health" /\ verdict = "ok"))

Child ==
    INSTANCE CodexChild WITH
        stage <- IF Over THEN "closed" ELSE IF stage = "run" THEN "codex" ELSE "health",
        alive <- stage = "run" /\ ~Over,
        verdict <- IF Over THEN verdict ELSE "none"

ImplementsChild == Child!Spec

(* The inductive invariant of the proofs: an execution that listens has    *)
(* heard every abort so far, one that is settled recorded why.             *)
AbortHeard ==
    /\ cancelled => aborted
    /\ listening /\ aborted => cancelled
    /\ listening <=> proc # "none" /\ ~Settled
    /\ verdict = "cancelled" => aborted
    /\ verdict \in {"timeout", "failed", "ok"} => ~cancelled

ExecutionKnown ==
    /\ proc = "none" => stage = "health" /\ ~Settled
    /\ proc \in {"none", "alive"} => exit = "none"
    /\ heirs => proc \in {"alive", "gone"}
    /\ forceKill # "off" => "SIGTERM" \in sent
    /\ stage = "returned" => Settled

IInv ==
    /\ TypeOK
    /\ SettledIsQuiet
    /\ SettledMeansGone
    /\ SignalsAreAsked
    /\ AbortHeard
    /\ ExecutionKnown
=============================================================================
