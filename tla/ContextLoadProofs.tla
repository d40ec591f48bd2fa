------------------------- MODULE ContextLoadProofs -------------------------
(***************************************************************************)
(* ContextLoad keeps one focus and one session and hands over honestly,    *)
(* for any commands, servers, settings and bounds.                         *)
(***************************************************************************)
EXTENDS ContextLoad, FiniteSetTheorems, TLAPS

(***************************************************************************)
(* The focus.                                                              *)
(***************************************************************************)
FocusInv ==
    /\ \E t \in tasks : active = {t}
    /\ tasks \subseteq Projects
    /\ \A s \in sessions : s.key \in {CanonicalKey, ErpKey}
    /\ \A s \in current : s.task \in active

LEMMA FocusInitInv == Init => FocusInv
BY DEF Init, FocusInit, FocusInv, Session, Projects

LEMMA SeedV5Inv == FocusInv /\ SeedV5 => FocusInv'
<1> SUFFICES ASSUME FocusInv, SeedV5 PROVE FocusInv'
  OBVIOUS
<1> PICK t \in active :
         /\ tasks' = tasks \union {t} /\ active' = active \union {t}
         /\ UpsertSession(CanonicalKey, "chatgpt", t)
         /\ current' = {[key |-> CanonicalKey, task |-> t]}
  BY DEF FocusInv, SeedV5
<1>1. active' = active /\ tasks' = tasks
  BY DEF FocusInv
<1>2. \A s \in sessions' : s.key \in {CanonicalKey, ErpKey}
  BY DEF FocusInv, UpsertSession, Session
<1> QED
  BY <1>1, <1>2 DEF FocusInv

LEMMA SeedErpInv == FocusInv /\ SeedErp => FocusInv'
BY DEF FocusInv, SeedErp, UpsertSession, Session, Projects

LEMMA InvalidateInv ==
    ASSUME FocusInv, NEW t \in Projects, InvalidateContextForScope(t)
    PROVE  FocusInv'
BY DEF FocusInv, InvalidateContextForScope

LEMMA FocusStep == FocusInv /\ [Next]_vars => FocusInv'
<1> SUFFICES ASSUME FocusInv, [Next]_vars PROVE FocusInv'
  OBVIOUS
<1>1. CASE Backend
  BY <1>1, SeedV5Inv, SeedErpInv, InvalidateInv DEF Backend
<1>2. CASE UNCHANGED focusVars
  BY <1>2 DEF FocusInv, focusVars
<1>3. CASE UNCHANGED vars
  BY <1>3, <1>2 DEF vars, focusVars
<1>4. ASSUME NEW p \in Procs, Step(p) PROVE UNCHANGED focusVars
  BY <1>4 DEF Step, Blocked, Allowed, KeyStored, DateStored, StoreFails
<1>5. ASSUME NEW l \in Loads, LoadStep(l) PROVE UNCHANGED focusVars
  BY <1>5 DEF LoadStep, Inspect, ConnectionFails, Connect, ListTools, CallTool, CallFails, Answered, Finish
<1>6. Backend \/ UNCHANGED focusVars \/ UNCHANGED vars
  BY <1>4, <1>5 DEF Next, Activate, Reload, ConfigureToken, ClearToken, PrepareHandoff,
     ResetSession, Begin, CallWrite
<1> QED
  BY <1>1, <1>2, <1>3, <1>6

(* What is served to a request that names no task, project or session.     *)
LEMMA FocusIsServed == FocusInv => FocusAgrees
<1> SUFFICES ASSUME FocusInv PROVE FocusAgrees
  OBVIOUS
<1> PICK t \in tasks : active = {t}
  BY DEF FocusInv
<1>1. Cardinality(active) = 1
  BY FS_Singleton
<1>2. current # {} => CurrentScope.task \in active
  BY DEF FocusInv, CurrentScope
<1>3. Effective(active) \in active /\ Effective(Projects) \in active
  BY DEF FocusInv, Effective
<1>4. Rows(None) = {}
  BY FocusConstantsOK DEF FocusConstantsOK, FocusInv, Rows
<1>5. \A task, source : Found(task, source).task = task
  BY DEF Found, Resolved
<1>6. Canonical.task \in active
  BY <1>2, <1>3, <1>5 DEF Canonical
<1>7. Named("workspace_id", None).task \in active
  BY <1>3, <1>5 DEF Named
<1>8. ASSUME NEW c \in Consumers \union {None}, NEW by \in {None, "workspace_id"}
      PROVE  ResolveScope(c, None, by, None).task \in active
  BY <1>4, <1>6, <1>7 DEF ResolveScope, UnknownConsumer, UnknownSession, OthersSession
<1>9. GetActiveTask \in active
  BY <1>2, <1>3 DEF GetActiveTask
<1> QED
  BY <1>1, <1>8, <1>9 DEF FocusAgrees

(* One focus is served, whichever seeds ran and whatever was ratified: by  *)
(* the five read tools and by the REST API (focus_resolver.py,             *)
(* task_service.py).                                                       *)
THEOREM OneFocus == Spec => []FocusAgrees
BY FocusInitInv, FocusStep, FocusIsServed, PTL DEF Spec

(***************************************************************************)
(* The session.  A key is written before its creation time, so between the *)
(* two a window that dies leaves one without the other; and every write    *)
(* stores the whole of what get reads, so keys only grow.                  *)
(***************************************************************************)
SessionTypes ==
    /\ TypeOK
    /\ pc[Activation] \in {"idle", "keyed", "dated", "done", "failed"}
    /\ \A r \in Resets : pc[r] \in {"idle", "keyed", "dated", "done", "failed", "lost"}

KeysGrow ==
    /\ disk.key <= memory.key /\ memory.key <= issued
    /\ \A p \in Procs : held[p] <= issued /\ (pc[p] = "keyed" => held[p] # 0)

ActivationDates ==
    /\ pc[Activation] \in {"keyed", "dated", "done"} => memory.key # 0
    /\ pc[Activation] \in {"dated", "done"} => memory.created # 0

ResetIsKept(r) ==
    /\ pc[r] \in {"keyed", "dated", "done"} => memory.key >= held[r]
    /\ pc[r] \in {"dated", "done"} => disk.key >= held[r]

SessionInv == SessionTypes /\ KeysGrow /\ ActivationDates /\ \A r \in Resets : ResetIsKept(r)

LEMMA KeyRow ==
    ASSUME NEW m \in SessionRecord, NEW k \in Nat
    PROVE  /\ [m EXCEPT !.key = k] \in SessionRecord
           /\ [m EXCEPT !.key = k].key = k /\ [m EXCEPT !.key = k].created = m.created
BY DEF SessionRecord

LEMMA CreatedRow ==
    ASSUME NEW m \in SessionRecord, NEW k \in Nat
    PROVE  /\ [m EXCEPT !.created = k] \in SessionRecord
           /\ [m EXCEPT !.created = k].created = k /\ [m EXCEPT !.created = k].key = m.key
BY DEF SessionRecord

LEMMA ProcsAreDisjoint ==
    /\ Activation \notin Resets /\ Activation \notin Loads /\ Activation \notin Writes
    /\ \A p \in Loads \union Writes : p \notin Resets
    /\ Activation \in Procs /\ Resets \subseteq Procs /\ Loads \union Writes \subseteq Procs
    /\ Procs = {Activation} \union Resets \union Loads \union Writes
BY ContextConstantsOK DEF ContextConstantsOK, Commands, Procs

LEMMA SessionInitInv == Init => SessionInv
<1> SUFFICES ASSUME Init PROVE SessionInv
  OBVIOUS
<1>1. memory \in SessionRecord /\ disk \in SessionRecord /\ memory.key = 0 /\ disk.key = 0
  BY DEF Init, NoSession, SessionRecord
<1>2. \A p \in Procs : pc[p] = "idle" /\ held[p] = 0
  BY DEF Init
<1>3. held \in [Procs -> Nat] /\ pc \in [Procs -> Labels] /\ issued = 0
  BY DEF Init, Labels
<1> QED
  BY <1>1, <1>2, <1>3, ProcsAreDisjoint
     DEF SessionInv, SessionTypes, TypeOK, KeysGrow, ActivationDates, ResetIsKept

(* A command moves on without touching the session.                        *)
LEMMA QuietMove ==
    ASSUME SessionInv, NEW p \in Loads \union Writes, NEW label \in Labels \ {"keyed"},
           Goes(p, label), held' = held \/ held' = [held EXCEPT ![p] = 0], UNCHANGED sessionVars
    PROVE  SessionInv'
<1>1. /\ pc' \in [Procs -> Labels] /\ held' \in [Procs -> Nat]
      /\ pc'[p] = label /\ held'[p] \in {held[p], 0}
      /\ \A q \in Procs \ {p} : pc'[q] = pc[q] /\ held'[q] = held[q]
  BY ProcsAreDisjoint DEF SessionInv, SessionTypes, TypeOK, Goes
<1>2. memory' = memory /\ disk' = disk /\ issued' = issued
  BY DEF sessionVars
<1>3. SessionTypes'
  BY <1>1, <1>2, ProcsAreDisjoint DEF SessionInv, SessionTypes, TypeOK
<1>4. KeysGrow'
  BY <1>1, <1>2, ProcsAreDisjoint DEF SessionInv, SessionTypes, TypeOK, KeysGrow
<1>5. ActivationDates' /\ \A r \in Resets : ResetIsKept(r)'
  BY <1>1, <1>2, ProcsAreDisjoint DEF SessionInv, ActivationDates, ResetIsKept
<1> QED
  BY <1>3, <1>4, <1>5 DEF SessionInv

LEMMA CreateSessionInv ==
    ASSUME SessionInv, NEW p \in Procs, CreateSession(p), UNCHANGED disk
    PROVE  SessionInv'
<1>1. /\ memory' \in SessionRecord /\ memory'.key = issued + 1 /\ memory'.created = memory.created
      /\ issued' = issued + 1 /\ issued \in Nat /\ disk' = disk
  BY KeyRow DEF CreateSession, SessionInv, SessionTypes, TypeOK
<1>2. /\ pc' \in [Procs -> Labels] /\ held' \in [Procs -> Nat]
      /\ pc'[p] = "keyed" /\ held'[p] = issued + 1
      /\ \A q \in Procs \ {p} : pc'[q] = pc[q] /\ held'[q] = held[q]
  BY <1>1 DEF SessionInv, SessionTypes, TypeOK, CreateSession, Goes, Labels
<1>3. SessionTypes'
  BY <1>1, <1>2, ProcsAreDisjoint DEF SessionInv, SessionTypes, TypeOK
<1>4. memory.key \in Nat /\ disk.key \in Nat /\ held \in [Procs -> Nat]
  BY DEF SessionInv, SessionTypes, TypeOK, SessionRecord
<1>5. KeysGrow'
  BY <1>1, <1>2, <1>4 DEF SessionInv, KeysGrow
<1>6. ActivationDates'
  BY <1>1, <1>2, ProcsAreDisjoint DEF SessionInv, ActivationDates
<1>7. \A r \in Resets : ResetIsKept(r)'
  BY <1>1, <1>2, <1>4, ProcsAreDisjoint DEF SessionInv, KeysGrow, ResetIsKept
<1> QED
  BY <1>3, <1>5, <1>6, <1>7 DEF SessionInv

LEMMA GetOrCreateInv ==
    ASSUME SessionInv, NEW p \in Procs \ Resets, GetOrCreateSession(p), UNCHANGED disk
    PROVE  SessionInv'
<1>1. CASE CreateSession(p)
  BY <1>1, CreateSessionInv
<1>2. CASE ~CreateSession(p)
  <2>1. /\ memory.key # 0 /\ issued' = issued /\ disk' = disk
        /\ held' = [held EXCEPT ![p] = memory.key]
        /\ \/ memory.created = 0 /\ memory' = [memory EXCEPT !.created = memory.key] /\ Goes(p, "dated")
           \/ memory.created # 0 /\ Goes(p, AfterSession(p)) /\ memory' = memory
    BY <1>2 DEF GetOrCreateSession
  <2>2. /\ memory \in SessionRecord /\ memory.key \in Nat /\ disk.key \in Nat
        /\ held \in [Procs -> Nat] /\ issued \in Nat
    BY DEF SessionInv, SessionTypes, TypeOK, SessionRecord
  <2>3. memory' \in SessionRecord /\ memory'.key = memory.key /\ memory'.created # 0
    BY <2>1, <2>2, CreatedRow, ZenonT(60)
  <2> DEFINE label == pc'[p]
  <2>4. AfterSession(p) \in {"inspecting", "calling", "done"}
        /\ (p = Activation => AfterSession(p) = "done")
    BY ProcsAreDisjoint DEF AfterSession
  <2>5. /\ pc' \in [Procs -> Labels] /\ held' \in [Procs -> Nat]
        /\ pc'[p] \in {"dated", AfterSession(p)} /\ held'[p] = memory.key
        /\ \A q \in Procs \ {p} : pc'[q] = pc[q] /\ held'[q] = held[q]
    BY <2>1, <2>2, <2>4 DEF SessionInv, SessionTypes, TypeOK, Goes, Labels, Over
  <2>6. SessionTypes'
    BY <2>1, <2>2, <2>3, <2>4, <2>5, ProcsAreDisjoint DEF SessionInv, SessionTypes, TypeOK
  <2>7. KeysGrow'
    BY <2>1, <2>2, <2>3, <2>4, <2>5 DEF SessionInv, KeysGrow
  <2>8. ActivationDates'
    BY <2>1, <2>3, <2>5, ProcsAreDisjoint DEF SessionInv, ActivationDates
  <2>9. \A r \in Resets : ResetIsKept(r)'
    BY <2>1, <2>3, <2>5, ProcsAreDisjoint DEF SessionInv, ResetIsKept
  <2> QED
    BY <2>6, <2>7, <2>8, <2>9 DEF SessionInv
<1> QED
  BY <1>1, <1>2

LEMMA KeyStoredInv == ASSUME SessionInv, NEW p \in Procs, KeyStored(p) PROVE SessionInv'
<1>1. /\ memory \in SessionRecord /\ memory.key \in Nat /\ disk.key \in Nat
      /\ held \in [Procs -> Nat] /\ issued \in Nat /\ held[p] # 0 /\ pc[p] = "keyed"
  BY DEF SessionInv, SessionTypes, TypeOK, SessionRecord, KeysGrow, KeyStored
<1>2. memory' \in SessionRecord /\ memory'.key = memory.key /\ memory'.created # 0
  BY <1>1, CreatedRow DEF KeyStored
<1>3. disk' = memory /\ issued' = issued /\ held' = held
  BY DEF KeyStored
<1>4. /\ pc' \in [Procs -> Labels] /\ pc'[p] = "dated" /\ \A q \in Procs \ {p} : pc'[q] = pc[q]
  BY DEF SessionInv, SessionTypes, TypeOK, KeyStored, Goes, Labels
<1>5. SessionTypes'
  BY <1>1, <1>2, <1>3, <1>4, ProcsAreDisjoint DEF SessionInv, SessionTypes, TypeOK
<1>6. KeysGrow'
  BY <1>1, <1>2, <1>3, <1>4 DEF SessionInv, KeysGrow
<1>7. ActivationDates'
  BY <1>1, <1>2, <1>4, ProcsAreDisjoint DEF SessionInv, ActivationDates
<1>8. \A r \in Resets : ResetIsKept(r)'
  BY <1>1, <1>2, <1>3, <1>4, ProcsAreDisjoint DEF SessionInv, KeysGrow, ResetIsKept
<1> QED
  BY <1>5, <1>6, <1>7, <1>8 DEF SessionInv

LEMMA DateStoredInv == ASSUME SessionInv, NEW p \in Procs, DateStored(p) PROVE SessionInv'
<1>1. /\ memory \in SessionRecord /\ memory.key \in Nat /\ disk.key \in Nat
      /\ held \in [Procs -> Nat] /\ issued \in Nat /\ pc[p] = "dated"
  BY DEF SessionInv, SessionTypes, TypeOK, SessionRecord, DateStored
<1>2. disk' = memory /\ memory' = memory /\ issued' = issued /\ held' = held
  BY DEF DateStored
<1>3. /\ AfterSession(p) \in {"inspecting", "calling", "done"}
      /\ (p \in {Activation} \union Resets => AfterSession(p) = "done")
  BY ProcsAreDisjoint DEF AfterSession
<1>4. /\ pc' \in [Procs -> Labels] /\ pc'[p] = AfterSession(p)
      /\ \A q \in Procs \ {p} : pc'[q] = pc[q]
  BY <1>3 DEF SessionInv, SessionTypes, TypeOK, DateStored, Goes, Labels, Over
<1>5. SessionTypes'
  BY <1>1, <1>2, <1>3, <1>4, ProcsAreDisjoint DEF SessionInv, SessionTypes, TypeOK
<1>6. KeysGrow'
  BY <1>1, <1>2, <1>3, <1>4 DEF SessionInv, KeysGrow
<1>7. ActivationDates'
  BY <1>1, <1>2, <1>4, ProcsAreDisjoint DEF SessionInv, ActivationDates
<1>8. \A r \in Resets : ResetIsKept(r)'
  BY <1>1, <1>2, <1>3, <1>4, ProcsAreDisjoint DEF SessionInv, KeysGrow, ResetIsKept
<1> QED
  BY <1>5, <1>6, <1>7, <1>8 DEF SessionInv

LEMMA StoreFailsInv == ASSUME SessionInv, NEW p \in Procs, StoreFails(p) PROVE SessionInv'
<1>1. memory' = memory /\ disk' = disk /\ issued' = issued /\ held' = held
  BY DEF StoreFails, sessionVars
<1>2. /\ pc' \in [Procs -> Labels] /\ pc'[p] = "failed" /\ \A q \in Procs \ {p} : pc'[q] = pc[q]
  BY DEF SessionInv, SessionTypes, TypeOK, StoreFails, Goes, Labels, Over
<1> QED
  BY <1>1, <1>2, ProcsAreDisjoint
     DEF SessionInv, SessionTypes, TypeOK, KeysGrow, ActivationDates, ResetIsKept

(* A reload goes back to what is on disk, which no finished reset is ahead *)
(* of.                                                                     *)
LEMMA ReloadInv == ASSUME SessionInv, Reload PROVE SessionInv'
<1>1. /\ memory' = disk /\ disk' = disk /\ issued' = issued
      /\ disk \in SessionRecord /\ disk.key \in Nat /\ issued \in Nat /\ memory.key \in Nat
      /\ held \in [Procs -> Nat]
  BY DEF Reload, SessionInv, SessionTypes, TypeOK, SessionRecord
<1>2. \A p \in Procs : /\ held'[p] = IF p \in Resets /\ pc[p] = "done" THEN held[p] ELSE 0
                       /\ pc'[p] = IF p = Activation THEN "idle"
                                   ELSE IF p \in Running THEN "lost" ELSE pc[p]
  BY DEF Reload
<1>3. held' \in [Procs -> Nat] /\ pc' \in [Procs -> Labels]
  BY <1>1 DEF Reload, SessionInv, SessionTypes, TypeOK, Labels, Over
<1>4. \A p \in Procs \ {Activation} : pc'[p] \in Over \union {"idle"}
                                    /\ pc'[p] \in {pc[p], "lost"}
  BY <1>2 DEF Running, Commands, Procs, Over
<1>5. pc'[Activation] = "idle"
  BY <1>2, ProcsAreDisjoint
<1>6. SessionTypes'
  BY <1>1, <1>3, <1>4, <1>5, ProcsAreDisjoint DEF SessionInv, SessionTypes, TypeOK
<1>7. KeysGrow'
  <2>1. disk'.key <= memory'.key /\ memory'.key <= issued'
    BY <1>1 DEF SessionInv, KeysGrow
  <2>2. \A p \in Procs : pc'[p] # "keyed"
    BY <1>4, <1>5 DEF Over
  <2>3. \A p \in Procs : held'[p] <= issued'
    BY <1>1, <1>2 DEF SessionInv, KeysGrow
  <2> QED
    BY <2>1, <2>2, <2>3 DEF KeysGrow
<1>8. ActivationDates'
  BY <1>5 DEF ActivationDates
<1>9. \A r \in Resets : ResetIsKept(r)'
  <2> SUFFICES ASSUME NEW r \in Resets PROVE ResetIsKept(r)'
    OBVIOUS
  <2>1. pc'[r] \notin {"keyed", "dated"} /\ (pc'[r] = "done" => pc[r] = "done")
    BY <1>4, ProcsAreDisjoint DEF Over
  <2>2. pc[r] = "done" => held'[r] = held[r] /\ disk.key >= held[r]
    BY <1>2, ProcsAreDisjoint DEF SessionInv, ResetIsKept
  <2> QED
    BY <1>1, <2>1, <2>2 DEF ResetIsKept
<1> QED
  BY <1>6, <1>7, <1>8, <1>9 DEF SessionInv

LEMMA StepInv == ASSUME SessionInv, NEW p \in Procs, Step(p) PROVE SessionInv'
<1>1. CASE Blocked(p) \/ Allowed(p)
  <2>1. p \in Loads \union Writes
    BY <1>1, ProcsAreDisjoint DEF SessionInv, SessionTypes, TypeOK, Blocked, Allowed
  <2>2. CASE Blocked(p)
    BY <2>1, <2>2, QuietMove DEF Blocked, Labels, Over
  <2>3. CASE Allowed(p)
    BY <2>1, <2>3, GetOrCreateInv, ProcsAreDisjoint DEF Allowed
  <2> QED
    BY <1>1, <2>2, <2>3
<1> QED
  BY <1>1, KeyStoredInv, DateStoredInv, StoreFailsInv DEF Step

LEMMA LoadStepInv == ASSUME SessionInv, NEW l \in Loads, LoadStep(l) PROVE SessionInv'
<1>1. CASE Inspect(l)
  BY <1>1, QuietMove DEF Inspect, Bundle, Labels
<1>2. CASE ConnectionFails(l)
  BY <1>2, QuietMove DEF ConnectionFails, Bundle, Labels
<1>3. CASE Connect(l)
  BY <1>3, QuietMove DEF Connect, Labels
<1>4. CASE ListTools(l)
  BY <1>4, QuietMove DEF ListTools, Labels
<1>5. ASSUME NEW kind, Answered(l, kind) PROVE SessionInv'
  <2>1. CASE UNCHANGED pc
    BY <1>5, <2>1 DEF Answered, sessionVars, SessionInv, SessionTypes, TypeOK, KeysGrow, ActivationDates,
       ResetIsKept
  <2>2. CASE Goes(l, "closing")
    BY <1>5, <2>2, QuietMove DEF Answered, Labels
  <2> QED
    BY <1>5, <2>1, <2>2 DEF Answered
<1>6. CASE CallTool(l) \/ CallFails(l)
  BY <1>5, <1>6 DEF CallTool, CallFails
<1>7. CASE Finish(l)
  BY <1>7, QuietMove DEF Finish, Forget, Labels, Over
<1> QED
  BY <1>1, <1>2, <1>3, <1>4, <1>6, <1>7 DEF LoadStep

LEMMA SessionStep == SessionInv /\ [Next]_vars => SessionInv'
<1> SUFFICES ASSUME SessionInv, [Next]_vars PROVE SessionInv'
  OBVIOUS
<1>1. ASSUME UNCHANGED <<memory, disk, issued, held, pc>> PROVE SessionInv'
  BY <1>1 DEF SessionInv, SessionTypes, TypeOK, KeysGrow, ActivationDates, ResetIsKept
<1>2. CASE UNCHANGED vars
  BY <1>1, <1>2 DEF vars, sessionVars
<1>3. CASE ConfigureToken \/ ClearToken \/ PrepareHandoff \/ Backend
  BY <1>1, <1>3 DEF ConfigureToken, ClearToken, PrepareHandoff, Backend, sessionVars
<1>4. CASE Activate
  BY <1>4, GetOrCreateInv, ProcsAreDisjoint DEF Activate
<1>5. CASE Reload
  BY <1>5, ReloadInv
<1>6. ASSUME NEW r \in Resets, ResetSession(r) PROVE SessionInv'
  BY <1>6, CreateSessionInv, ProcsAreDisjoint DEF ResetSession
<1>7. ASSUME NEW p \in Loads \union Writes, NEW config \in AuthConfigs, Begin(p, config)
      PROVE  SessionInv'
  BY <1>7, QuietMove DEF Begin, Labels
<1>8. ASSUME NEW w \in Writes, CallWrite(w) PROVE SessionInv'
  <2>1. PICK status : Goes(w, Outcome(status))
    BY <1>8 DEF CallWrite
  <2>2. Outcome(status) \in Labels \ {"keyed"}
    BY DEF Outcome, Labels, Over
  <2> QED
    BY <1>8, <2>1, <2>2, QuietMove DEF CallWrite
<1> QED
  BY <1>2, <1>3, <1>4, <1>5, <1>6, <1>7, <1>8, StepInv, LoadStepInv DEF Next

(* What the commands and the session keep stays of its type.               *)
THEOREM TypeCorrect == Spec => []TypeOK
<1>1. SessionInv => TypeOK
  BY DEF SessionInv, SessionTypes
<1> QED
  BY <1>1, SessionInitInv, SessionStep, PTL DEF Spec

(* The session has its key and its creation time while commands run, and a *)
(* reset that was reported survives every reload (sessionManager.ts).      *)
THEOREM SessionIsKept == Spec => []SessionSurvives
<1>1. SessionInv => SessionSurvives
  BY DEF SessionInv, ActivationDates, ResetIsKept, SessionSurvives, Open
<1> QED
  BY <1>1, SessionInitInv, SessionStep, PTL DEF Spec
(***************************************************************************)
(* The handoff.  The two stores are written in one turn, so they agree.    *)
(* The five calls of a load are counted by what they answered: nothing is  *)
(* known before the first, and all five are known when the gateway closes. *)
(* So an envelope is composed of five answers, of settings and of an       *)
(* inspection the program can read, and its issues fit the open risks.     *)
(***************************************************************************)
InputTypes ==
    /\ mode \in [Loads -> Modes \union {None}]
    /\ local \in [Loads -> Locals \union {None}]
    /\ got \in [Loads -> Seq(Kinds)]

HasMode == {"keyed", "dated", "inspecting", "connecting", "listing", "reading", "closing"}

HasLocal == {"connecting", "listing", "reading", "closing"}

Answers(l) ==
    /\ pc[l] \in HasMode => mode[l] \in Modes
    /\ pc[l] \in HasLocal => local[l] \in Locals
    /\ pc[l] = "reading" => Len(got[l]) < Len(WIS_TOOLS)
    /\ pc[l] = "closing" => Len(got[l]) = Len(WIS_TOOLS)
    /\ pc[l] \notin {"reading", "closing"} => got[l] = <<>>

IsEnvelope(e) ==
    /\ e.kinds \in Seq(Kinds) /\ Len(e.kinds) = Len(WIS_TOOLS)
    /\ \E found \in Locals, scenario \in Modes :
         /\ e.load_state = ClassifyLoadState(e.kinds, found)
         /\ e.issues = Issues(e.kinds, found, scenario)

IsHandoff(h) ==
    h.envelope # None =>
      /\ IsEnvelope(h.envelope)
      /\ h.status = ClassifyBuildStatus(h.envelope)
      /\ h.risks = OpenRisks(h.envelope)

StoresInv ==
    /\ store = shown
    /\ store # None => IsEnvelope(store)
    /\ IsHandoff(handoff)

HandoffInv == InputTypes /\ (\A l \in Loads : Answers(l)) /\ StoresInv

LEMMA NotedFacts ==
    ASSUME NEW source \in Sources, NEW holds
    PROVE  /\ Noted(holds, source) \in Seq(Sources)
           /\ Len(Noted(holds, source)) <= 1
           /\ ~holds => Len(Noted(holds, source)) = 0
           /\ holds => source \in ToSet(Noted(holds, source))
BY DEF Noted, ToSet

LEMMA JoinFacts ==
    ASSUME NEW s \in Seq(Sources), NEW t \in Seq(Sources)
    PROVE  /\ s \o t \in Seq(Sources) /\ Len(s \o t) = Len(s) + Len(t)
           /\ ToSet(s) \subseteq ToSet(s \o t) /\ ToSet(t) \subseteq ToSet(s \o t)
<1>1. s \o t \in Seq(Sources) /\ Len(s \o t) = Len(s) + Len(t)
  OBVIOUS
<1>2. ASSUME NEW i \in DOMAIN s PROVE s[i] \in ToSet(s \o t)
  <2>1. (s \o t)[i] = s[i] /\ i \in DOMAIN (s \o t)
    OBVIOUS
  <2> QED
    BY <2>1 DEF ToSet
<1>3. ASSUME NEW i \in DOMAIN t PROVE t[i] \in ToSet(s \o t)
  <2>1. (s \o t)[i + Len(s)] = t[i] /\ i + Len(s) \in DOMAIN (s \o t)
    OBVIOUS
  <2> QED
    BY <2>1 DEF ToSet
<1> QED
  BY <1>1, <1>2, <1>3 DEF ToSet

LEMMA FirstOfAll ==
    ASSUME NEW s \in Seq(Sources), NEW n \in Nat, Len(s) <= n
    PROVE  FirstOf(s, n) = s
<1>1. FirstOf(s, n) = SubSeq(s, 1, Len(s))
  BY DEF FirstOf
<1> QED
  BY <1>1

LEMMA ToolFacts ==
    /\ WIS_TOOLS \in Seq(Tools) /\ Len(WIS_TOOLS) = 5 /\ DOMAIN WIS_TOOLS = 1..5
    /\ \A i \in 1..5 : WIS_TOOLS[i] \in Sources
<1>1. Len(WIS_TOOLS) = 5 /\ DOMAIN WIS_TOOLS = 1..5
  BY DEF WIS_TOOLS
<1>2. \A i \in 1..5 : WIS_TOOLS[i] \in Tools
  BY <1>1 DEF Tools, ToSet
<1> QED
  BY <1>1, <1>2 DEF WIS_TOOLS, Sources

IsJoin(m, a, b, c, d, e) ==
    /\ m = a \o b \o c \o d \o e
    /\ Len(m) = Len(a) + Len(b) + Len(c) + Len(d) + Len(e)
    /\ \A s \in {a, b, c, d, e} : ToSet(s) \subseteq ToSet(m)

LEMMA JoinFive ==
    ASSUME NEW a \in Seq(Sources), NEW b \in Seq(Sources), NEW c \in Seq(Sources),
           NEW d \in Seq(Sources), NEW e \in Seq(Sources)
    PROVE  \E m \in Seq(Sources) : IsJoin(m, a, b, c, d, e)
<1>1. /\ a \o b \in Seq(Sources) /\ Len(a \o b) = Len(a) + Len(b)
      /\ ToSet(a) \subseteq ToSet(a \o b) /\ ToSet(b) \subseteq ToSet(a \o b)
  BY JoinFacts
<1> PICK ab \in Seq(Sources) : ab = a \o b
  BY <1>1
<1>2. /\ ab \o c \in Seq(Sources) /\ Len(ab \o c) = Len(ab) + Len(c)
      /\ ToSet(ab) \subseteq ToSet(ab \o c) /\ ToSet(c) \subseteq ToSet(ab \o c)
  BY JoinFacts
<1> PICK abc \in Seq(Sources) : abc = ab \o c
  BY <1>2
<1>3. /\ abc \o d \in Seq(Sources) /\ Len(abc \o d) = Len(abc) + Len(d)
      /\ ToSet(abc) \subseteq ToSet(abc \o d) /\ ToSet(d) \subseteq ToSet(abc \o d)
  BY JoinFacts
<1> PICK abcd \in Seq(Sources) : abcd = abc \o d
  BY <1>3
<1>4. /\ abcd \o e \in Seq(Sources) /\ Len(abcd \o e) = Len(abcd) + Len(e)
      /\ ToSet(abcd) \subseteq ToSet(abcd \o e) /\ ToSet(e) \subseteq ToSet(abcd \o e)
  BY JoinFacts
<1>5. \A s \in {a, b, c, d, e} : ToSet(s) \subseteq ToSet(abcd \o e)
  BY <1>1, <1>2, <1>3, <1>4
<1>6. Len(abcd \o e) = Len(a) + Len(b) + Len(c) + Len(d) + Len(e)
  BY <1>1, <1>2, <1>3, <1>4
<1> QED
  BY <1>4, <1>5, <1>6 DEF IsJoin

LEMMA JoinThree ==
    ASSUME NEW a \in Seq(Sources), NEW b \in Seq(Sources), NEW c \in Seq(Sources)
    PROVE  \E m \in Seq(Sources) : m = a \o b \o c /\ Len(m) = Len(a) + Len(b) + Len(c)
<1>1. a \o b \in Seq(Sources) /\ Len(a \o b) = Len(a) + Len(b)
  BY JoinFacts
<1> PICK ab \in Seq(Sources) : ab = a \o b
  BY <1>1
<1>2. ab \o c \in Seq(Sources) /\ Len(ab \o c) = Len(ab) + Len(c)
  BY JoinFacts
<1> QED
  BY <1>1, <1>2

LEMMA FiveAtMost ==
    \A a, b, c, d, e \in Nat :
      a <= 1 /\ b <= 1 /\ c <= 1 /\ d <= 1 /\ e <= 1 =>
        a + b + c + d + e <= 5 /\ (a = 0 => a + b + c + d + e <= 4)
OBVIOUS

LEMMA LenIsNat == \A s \in Seq(Sources) : Len(s) \in Nat
OBVIOUS

(* The issues of the bundle name what did not answer, and are at most five *)
(* or, when get_active_task did, four.                                     *)
LEMMA BundleIssuesFacts ==
    ASSUME NEW kinds \in Seq(Kinds)
    PROVE  /\ BundleIssues(kinds) \in Seq(Sources)
           /\ Len(BundleIssues(kinds)) <= 5
           /\ kinds[1] = "ok" => Len(BundleIssues(kinds)) <= 4
           /\ \A i \in 1..5 : kinds[i] # "ok" => WIS_TOOLS[i] \in ToSet(BundleIssues(kinds))
<1>1. \A i \in 1..5 : Lacks(kinds, i) \in Seq(Sources) /\ Len(Lacks(kinds, i)) <= 1
  BY NotedFacts, ToolFacts DEF Lacks
<1>2. \A i \in 1..5 : kinds[i] # "ok" => WIS_TOOLS[i] \in ToSet(Lacks(kinds, i))
  BY NotedFacts, ToolFacts DEF Lacks
<1>3. kinds[1] = "ok" => Lacks(kinds, 1) = <<>>
  BY DEF Lacks, Noted
<1>4. PICK a \in Seq(Sources) : a = Lacks(kinds, 1)
  BY <1>1
<1>5. PICK b \in Seq(Sources) : b = Lacks(kinds, 2)
  BY <1>1
<1>6. PICK c \in Seq(Sources) : c = Lacks(kinds, 3)
  BY <1>1
<1>7. PICK d \in Seq(Sources) : d = Lacks(kinds, 4)
  BY <1>1
<1>8. PICK e \in Seq(Sources) : e = Lacks(kinds, 5)
  BY <1>1
<1>9. PICK m \in Seq(Sources) : IsJoin(m, a, b, c, d, e)
  BY JoinFive
<1>10. BundleIssues(kinds) = m
  BY <1>4, <1>5, <1>6, <1>7, <1>8, <1>9 DEF BundleIssues, IsJoin
<1>11. Len(m) <= 5 /\ (kinds[1] = "ok" => Len(m) <= 4)
  <2>1. Len(a) <= 1 /\ Len(b) <= 1 /\ Len(c) <= 1 /\ Len(d) <= 1 /\ Len(e) <= 1
    BY <1>1, <1>4, <1>5, <1>6, <1>7, <1>8
  <2>2. /\ Len(a) \in Nat /\ Len(b) \in Nat /\ Len(c) \in Nat /\ Len(d) \in Nat
        /\ Len(e) \in Nat
    BY LenIsNat
  <2>3. kinds[1] = "ok" => Len(a) = 0
    BY <1>3, <1>4
  <2> QED
    BY <1>9, <2>1, <2>2, <2>3, FiveAtMost DEF IsJoin
<1>12. \A i \in 1..5 : Lacks(kinds, i) \in {a, b, c, d, e}
  BY <1>4, <1>5, <1>6, <1>7, <1>8
<1>13. \A i \in 1..5 : kinds[i] # "ok" => WIS_TOOLS[i] \in ToSet(m)
  BY <1>2, <1>9, <1>12 DEF IsJoin
<1> QED
  BY <1>10, <1>11, <1>13

(* At most seven issues: with the builder's own the eight risks suffice.   *)
LEMMA IssuesFacts ==
    ASSUME NEW kinds \in Seq(Kinds), NEW found, NEW scenario
    PROVE  /\ Issues(kinds, found, scenario) \in Seq(Sources)
           /\ Len(Issues(kinds, found, scenario)) <= 7
           /\ \A i \in 1..5 : kinds[i] # "ok" => WIS_TOOLS[i] \in ToSet(Issues(kinds, found, scenario))
<1> DEFINE branchDiffers == kinds[1] = "ok" /\ found.branch \notin {None, "main"}
<1>1. {"environment_inspector", "validation_stale", "authority_map"} \subseteq Sources
  BY DEF Sources
<1>2. PICK m \in Seq(Sources) : m = BundleIssues(kinds)
  BY BundleIssuesFacts
<1>3. PICK a \in Seq(Sources) : a = Noted(found.status # "ok", "environment_inspector")
  BY <1>1, NotedFacts
<1>4. PICK b \in Seq(Sources) : b = Noted(scenario = "validation_stale", "validation_stale")
  BY <1>1, NotedFacts
<1>5. PICK c \in Seq(Sources) : c = Noted(branchDiffers, "authority_map")
  BY <1>1, NotedFacts
<1>6. Len(a) <= 1 /\ Len(b) <= 1 /\ Len(c) <= 1
  BY <1>1, <1>3, <1>4, <1>5, NotedFacts
<1>7. kinds[1] # "ok" => Len(c) = 0
  BY <1>5 DEF Noted
<1>8. Len(m) <= 5 /\ (kinds[1] = "ok" => Len(m) <= 4)
  BY <1>2, BundleIssuesFacts
<1>9. \A i \in 1..5 : kinds[i] # "ok" => WIS_TOOLS[i] \in ToSet(m)
  BY <1>2, BundleIssuesFacts
<1>10. PICK n \in Seq(Sources) : n = a \o b \o c /\ Len(n) = Len(a) + Len(b) + Len(c)
  BY JoinThree
<1>11. /\ m \o n \in Seq(Sources) /\ Len(m \o n) = Len(m) + Len(n)
       /\ ToSet(m) \subseteq ToSet(m \o n)
  BY JoinFacts
<1>12. Issues(kinds, found, scenario) = m \o n
  BY <1>2, <1>3, <1>4, <1>5, <1>10 DEF Issues, LocalIssues
<1>13. Len(m) + Len(n) <= 7
  <2>1. Len(m) \in Nat /\ Len(a) \in Nat /\ Len(b) \in Nat /\ Len(c) \in Nat
    BY LenIsNat
  <2> QED
    BY <1>6, <1>7, <1>8, <1>10, <2>1
<1> QED
  BY <1>9, <1>11, <1>12, <1>13

LEMMA RisksFacts ==
    ASSUME NEW e, IsEnvelope(e)
    PROVE  /\ \A i \in 1..5 : e.kinds[i] # "ok" => WIS_TOOLS[i] \in ToSet(OpenRisks(e))
           /\ ClassifyBuildStatus(e) = "partial" => "handoff_builder" \in ToSet(OpenRisks(e))
<1>1. PICK m \in Seq(Sources) :
        /\ m = e.issues /\ Len(m) <= 7
        /\ \A i \in 1..5 : e.kinds[i] # "ok" => WIS_TOOLS[i] \in ToSet(m)
  BY IssuesFacts DEF IsEnvelope
<1>2. "handoff_builder" \in Sources
  BY DEF Sources
<1>3. PICK b \in Seq(Sources) : b = Noted(ClassifyBuildStatus(e) = "partial", "handoff_builder")
  BY <1>2, NotedFacts
<1>4. Len(b) <= 1 /\ (ClassifyBuildStatus(e) = "partial" => "handoff_builder" \in ToSet(b))
  BY <1>2, <1>3, NotedFacts
<1>5. PICK n \in Seq(Sources) :
        /\ n = m \o b /\ Len(n) = Len(m) + Len(b)
        /\ ToSet(m) \subseteq ToSet(n) /\ ToSet(b) \subseteq ToSet(n)
  BY JoinFacts
<1>6. Len(n) <= 8
  BY <1>1, <1>4, <1>5, LenIsNat
<1>7. FirstOf(n, 8) = n
  BY <1>6, FirstOfAll
<1>8. OpenRisks(e) = n
  BY <1>1, <1>3, <1>5, <1>7 DEF OpenRisks, MAX_RISKS
<1> QED
  BY <1>1, <1>4, <1>5, <1>8

(* Ready means that all five answered.                                     *)
LEMMA ReadyMeansAll ==
    ASSUME NEW e, IsEnvelope(e)
    PROVE  ClassifyBuildStatus(e) = "ready" <=> Unanswered(e) = {}
<1>1. DOMAIN e.kinds = 1..5 /\ DOMAIN WIS_TOOLS = 1..5
  BY ToolFacts DEF IsEnvelope
<1>2. Unanswered(e) = {} <=> \A i \in 1..5 : e.kinds[i] = "ok"
  BY <1>1 DEF Unanswered
<1>3. ToSet(e.kinds) = {e.kinds[i] : i \in 1..5}
  BY <1>1 DEF ToSet
<1>4. ToSet(e.kinds) = {"ok"} <=> \A i \in 1..5 : e.kinds[i] = "ok"
  <2>1. e.kinds[1] \in ToSet(e.kinds)
    BY <1>3
  <2> QED
    BY <1>3, <2>1
<1>5. e.load_state = "loaded" <=> ToSet(e.kinds) = {"ok"}
  BY DEF IsEnvelope, ClassifyLoadState
<1>6. ClassifyBuildStatus(e) = "ready" <=> e.load_state = "loaded"
  BY DEF ClassifyBuildStatus
<1> QED
  BY <1>2, <1>4, <1>5, <1>6

LEMMA HandoffIsHonestOf == StoresInv => HandoffIsHonest
<1> SUFFICES ASSUME StoresInv, handoff.envelope # None
             PROVE  /\ handoff.status = "ready" <=> Unanswered(handoff.envelope) = {}
                    /\ Unanswered(handoff.envelope) \subseteq ToSet(handoff.risks)
                    /\ handoff.status = "partial" => "handoff_builder" \in ToSet(handoff.risks)
  BY DEF StoresInv, HandoffIsHonest
<1>1. /\ IsEnvelope(handoff.envelope)
      /\ handoff.status = ClassifyBuildStatus(handoff.envelope)
      /\ handoff.risks = OpenRisks(handoff.envelope)
  BY DEF StoresInv, IsHandoff
<1>2. Unanswered(handoff.envelope) \subseteq ToSet(OpenRisks(handoff.envelope))
  BY <1>1, RisksFacts, ToolFacts DEF Unanswered
<1> QED
  BY <1>1, <1>2, RisksFacts, ReadyMeansAll
LEMMA HandoffInitInv == Init => HandoffInv
<1> SUFFICES ASSUME Init PROVE HandoffInv
  OBVIOUS
<1>1. Loads \subseteq Procs
  BY ProcsAreDisjoint
<1>2. \A l \in Loads : pc[l] = "idle" /\ got[l] = <<>>
  BY <1>1 DEF Init
<1>3. InputTypes
  BY DEF Init, InputTypes
<1>4. store = None /\ shown = None /\ handoff.envelope = None
  BY DEF Init, NoHandoff
<1> QED
  BY <1>2, <1>3, <1>4 DEF HandoffInv, Answers, HasMode, HasLocal, StoresInv, IsHandoff

(* A load keeps what it has while nothing of it changes.                   *)
LEMMA LoadKeeps ==
    ASSUME NEW l \in Loads, Answers(l),
           pc'[l] = pc[l], mode'[l] = mode[l], local'[l] = local[l], got'[l] = got[l]
    PROVE  Answers(l)'
BY DEF Answers, HasMode, HasLocal

(* One load, or a command that is none, goes on.                           *)
LEMMA OneMoves ==
    ASSUME SessionInv, HandoffInv, NEW p \in Procs, NEW label, Goes(p, label),
           InputTypes',
           \A l \in Loads \ {p} : mode'[l] = mode[l] /\ local'[l] = local[l] /\ got'[l] = got[l],
           p \in Loads => Answers(p)', UNCHANGED storeVars
    PROVE  HandoffInv'
<1>1. \A q \in Procs \ {p} : pc'[q] = pc[q]
  BY DEF Goes, SessionInv, SessionTypes, TypeOK
<1>2. ASSUME NEW l \in Loads \ {p} PROVE Answers(l)'
  BY <1>1, LoadKeeps, ProcsAreDisjoint DEF HandoffInv
<1>3. \A l \in Loads : Answers(l)'
  BY <1>2
<1>4. StoresInv'
  BY DEF HandoffInv, StoresInv, storeVars
<1> QED
  BY <1>3, <1>4 DEF HandoffInv

LEMMA GoesTo ==
    ASSUME SessionInv, NEW p \in Procs, NEW label, Goes(p, label)
    PROVE  pc'[p] = label
BY DEF Goes, SessionInv, SessionTypes, TypeOK

(* A command that is no load leaves the loads alone, and one that is keeps *)
(* its inputs while it has nothing to lose.                                *)
LEMMA PlainMove ==
    ASSUME SessionInv, HandoffInv, NEW p \in Procs, NEW label, Goes(p, label),
           UNCHANGED <<mode, local, got>>, UNCHANGED storeVars,
           p \in Loads =>
             /\ label \notin {"reading", "closing"} /\ pc[p] \notin {"reading", "closing"}
             /\ label \in HasMode => pc[p] \in HasMode
             /\ label \in HasLocal => pc[p] \in HasLocal
    PROVE  HandoffInv'
<1>1. InputTypes'
  BY DEF HandoffInv, InputTypes
<1>2. pc'[p] = label
  BY GoesTo
<1>3. ASSUME p \in Loads PROVE Answers(p)'
  BY <1>2, <1>3 DEF HandoffInv, Answers
<1> QED
  BY <1>1, <1>3, OneMoves

LEMMA SessionLabel ==
    ASSUME NEW p \in Procs, GetOrCreateSession(p)
    PROVE  \E label \in {"keyed", "dated", AfterSession(p)} : Goes(p, label)
BY DEF GetOrCreateSession, CreateSession

LEMMA ActivateHandoff == ASSUME SessionInv, HandoffInv, Activate PROVE HandoffInv'
<1>1. PICK label : Goes(Activation, label)
  BY SessionLabel, ProcsAreDisjoint DEF Activate
<1> QED
  BY <1>1, PlainMove, ProcsAreDisjoint DEF Activate, inputVars

(* The settings are read when the policy lets the load go on.              *)
LEMMA AllowedHandoff ==
    ASSUME SessionInv, HandoffInv, NEW p \in Procs, Allowed(p)
    PROVE  HandoffInv'
<1>1. PICK label \in {"keyed", "dated", AfterSession(p)} : Goes(p, label)
  BY SessionLabel DEF Allowed
<1>2. CASE p \notin Loads
  BY <1>1, <1>2, PlainMove DEF Allowed
<1>3. CASE p \in Loads
  <2>1. label \in {"keyed", "dated", "inspecting"}
    BY <1>1, <1>3 DEF AfterSession
  <2>2. PICK m \in Modes : mode' = [mode EXCEPT ![p] = m]
    BY <1>3 DEF Allowed
  <2>3. local' = local /\ got' = got /\ UNCHANGED storeVars
    BY DEF Allowed
  <2>4. InputTypes' /\ mode'[p] \in Modes /\ \A l \in Loads \ {p} : mode'[l] = mode[l]
    BY <1>3, <2>2, <2>3 DEF HandoffInv, InputTypes
  <2>5. got[p] = <<>>
    BY <1>3 DEF HandoffInv, Answers, Allowed
  <2>6. pc'[p] = label
    BY <1>1, GoesTo
  <2>7. Answers(p)'
    BY <2>1, <2>3, <2>4, <2>5, <2>6 DEF Answers, HasLocal
  <2> QED
    BY <1>1, <2>3, <2>4, <2>7, OneMoves
<1> QED
  BY <1>2, <1>3

LEMMA StepHandoff ==
    ASSUME SessionInv, HandoffInv, NEW p \in Procs, Step(p)
    PROVE  HandoffInv'
<1>1. CASE Blocked(p)
  BY <1>1, PlainMove DEF Blocked, HasMode, HasLocal
<1>2. CASE KeyStored(p)
  BY <1>2, PlainMove DEF KeyStored, HasMode, HasLocal, inputVars
<1>3. CASE DateStored(p)
  <2>1. p \in Loads => AfterSession(p) = "inspecting"
    BY DEF AfterSession
  <2>2. p \in Loads => pc[p] \in HasMode /\ pc[p] \notin {"reading", "closing"}
    BY <1>3 DEF DateStored, HasMode
  <2> QED
    BY <1>3, <2>1, <2>2, PlainMove DEF DateStored, HasLocal, inputVars
<1>4. CASE StoreFails(p)
  BY <1>4, PlainMove DEF StoreFails, HasMode, HasLocal, inputVars
<1> QED
  BY <1>1, <1>2, <1>3, <1>4, AllowedHandoff DEF Step

LEMMA ReloadHandoff == ASSUME SessionInv, HandoffInv, Reload PROVE HandoffInv'
<1>1. InputTypes' /\ \A l \in Loads : got'[l] = <<>>
  BY DEF Reload, InputTypes
<1>2. ASSUME NEW l \in Loads PROVE pc'[l] \in Over \union {"idle"}
  <2>1. l \in Commands /\ l \in Procs /\ l # Activation
    BY ProcsAreDisjoint DEF Commands
  <2>2. pc'[l] = IF l \in Running THEN "lost" ELSE pc[l]
    BY <2>1 DEF Reload
  <2> QED
    BY <2>1, <2>2 DEF Running, Over
<1>3. \A l \in Loads : Answers(l)'
  BY <1>1, <1>2 DEF Answers, HasMode, HasLocal, Over
<1>4. store' = None /\ shown' = None /\ handoff'.envelope = None
  BY DEF Reload, NoHandoff
<1> QED
  BY <1>1, <1>3, <1>4 DEF HandoffInv, StoresInv, IsHandoff

LEMMA FiveKinds == \A f \in [1..5 -> Kinds] : f \in Seq(Kinds) /\ Len(f) = 5
<1> SUFFICES ASSUME NEW f \in [1..5 -> Kinds] PROVE f \in Seq(Kinds) /\ Len(f) = 5
  OBVIOUS
<1>1. DOMAIN f = 1..5 /\ \A i \in 1..5 : f[i] \in Kinds
  OBVIOUS
<1>2. f \in Seq(Kinds)
  <2>1. \E n \in Nat : f \in [1..n -> Kinds]
    BY 5 \in Nat
  <2> QED
    BY <2>1
<1> QED
  BY <1>1, <1>2

LEMMA FixtureFacts ==
    ASSUME NEW scenario \in Scenarios
    PROVE  Fixture(scenario) \in Seq(Kinds) /\ Len(Fixture(scenario)) = Len(WIS_TOOLS)
<1>1. \A tool : FixtureKind(scenario, tool) \in Kinds
  BY DEF Scenarios, FixtureKind, Kinds
<1>2. Fixture(scenario) \in [1..5 -> Kinds]
  BY <1>1, ToolFacts DEF Fixture
<1> QED
  BY <1>2, FiveKinds, ToolFacts

LEMMA EveryFacts ==
    ASSUME NEW kind \in Kinds
    PROVE  Every(kind) \in Seq(Kinds) /\ Len(Every(kind)) = Len(WIS_TOOLS)
<1>1. Every(kind) \in [1..5 -> Kinds]
  BY ToolFacts DEF Every
<1> QED
  BY <1>1, FiveKinds, ToolFacts

(* A bundle of five answers closes the gateway.                            *)
LEMMA BundleHandoff ==
    ASSUME SessionInv, HandoffInv, NEW l \in Loads, NEW kinds \in Seq(Kinds),
           Len(kinds) = Len(WIS_TOOLS), Bundle(l, kinds), mode[l] \in Modes,
           mode' = mode, local' \in [Loads -> Locals \union {None}], local'[l] \in Locals,
           \A k \in Loads \ {l} : local'[k] = local[k], UNCHANGED storeVars
    PROVE  HandoffInv'
<1>1. /\ InputTypes' /\ got'[l] = kinds
      /\ \A k \in Loads \ {l} : mode'[k] = mode[k] /\ local'[k] = local[k] /\ got'[k] = got[k]
  BY DEF HandoffInv, InputTypes, Bundle
<1>2. l \in Procs
  BY ProcsAreDisjoint
<1>3. Goes(l, "closing") /\ pc'[l] = "closing"
  BY <1>2, GoesTo DEF Bundle
<1>4. Answers(l)'
  BY <1>1, <1>3 DEF Answers
<1> QED
  BY <1>1, <1>2, <1>3, <1>4, OneMoves

LEMMA InspectHandoff ==
    ASSUME SessionInv, HandoffInv, NEW l \in Loads, Inspect(l)
    PROVE  HandoffInv'
<1>1. PICK found \in Locals : local' = [local EXCEPT ![l] = found]
  BY DEF Inspect
<1>2. /\ local' \in [Loads -> Locals \union {None}] /\ local'[l] \in Locals
      /\ \A k \in Loads \ {l} : local'[k] = local[k]
  BY <1>1 DEF HandoffInv, InputTypes
<1>3. mode' = mode /\ mode[l] \in Modes /\ got[l] = <<>> /\ UNCHANGED storeVars
  BY DEF HandoffInv, Answers, Inspect, HasMode
<1>4. CASE mode[l] # "mcp"
  <2>1. mode[l] \in Scenarios
    BY <1>3, <1>4, ContextConstantsOK DEF ContextConstantsOK
  <2>2. Bundle(l, Fixture(mode[l]))
    BY <1>4 DEF Inspect
  <2> QED
    BY <1>2, <1>3, <2>1, <2>2, FixtureFacts, BundleHandoff
<1>5. CASE mode[l] = "mcp"
  <2>1. Goes(l, "connecting") /\ got' = got /\ l \in Procs
    BY <1>5, ProcsAreDisjoint DEF Inspect
  <2>2. pc'[l] = "connecting"
    BY <2>1, GoesTo
  <2>3. InputTypes'
    BY <1>2, <1>3, <2>1 DEF HandoffInv, InputTypes
  <2>4. Answers(l)'
    BY <1>2, <1>3, <2>1, <2>2 DEF Answers
  <2> QED
    BY <1>2, <1>3, <2>1, <2>3, <2>4, OneMoves
<1> QED
  BY <1>4, <1>5

LEMMA OutagesAreKinds == Outages \subseteq Kinds
BY ContextConstantsOK DEF ContextConstantsOK, Kinds

LEMMA ConnectionFailsHandoff ==
    ASSUME SessionInv, HandoffInv, NEW l \in Loads, ConnectionFails(l)
    PROVE  HandoffInv'
<1>1. PICK kind \in Outages : Bundle(l, Every(kind))
  BY DEF ConnectionFails
<1>2. mode[l] \in Modes /\ local[l] \in Locals
  BY DEF HandoffInv, Answers, ConnectionFails, HasMode, HasLocal
<1>3. mode' = mode /\ local' = local /\ UNCHANGED storeVars
  BY DEF ConnectionFails
<1>4. local' \in [Loads -> Locals \union {None}]
  BY <1>3 DEF HandoffInv, InputTypes
<1> QED
  BY <1>1, <1>2, <1>3, <1>4, OutagesAreKinds, EveryFacts, BundleHandoff

LEMMA ConnectHandoff ==
    ASSUME SessionInv, HandoffInv, NEW l \in Loads, Connect(l)
    PROVE  HandoffInv'
BY PlainMove, ProcsAreDisjoint DEF Connect, HasMode, HasLocal, inputVars

(* The calls start with no answer.                                         *)
LEMMA ListToolsHandoff ==
    ASSUME SessionInv, HandoffInv, NEW l \in Loads, ListTools(l)
    PROVE  HandoffInv'
<1>1. Goes(l, "reading") /\ l \in Procs /\ mode' = mode /\ local' = local /\ got' = got
  BY ProcsAreDisjoint DEF ListTools
<1>2. pc'[l] = "reading"
  BY <1>1, GoesTo
<1>3. got[l] = <<>> /\ mode[l] \in Modes /\ local[l] \in Locals
  BY DEF HandoffInv, Answers, ListTools, HasMode, HasLocal
<1>4. Len(got'[l]) < Len(WIS_TOOLS)
  BY <1>1, <1>3, ToolFacts
<1>5. Answers(l)'
  BY <1>1, <1>2, <1>3, <1>4 DEF Answers
<1>6. InputTypes' /\ UNCHANGED storeVars
  BY <1>1 DEF HandoffInv, InputTypes, ListTools
<1> QED
  BY <1>1, <1>5, <1>6, OneMoves

(* Each answer is counted, and the fifth closes the gateway.               *)
LEMMA AnsweredHandoff ==
    ASSUME SessionInv, HandoffInv, NEW l \in Loads, pc[l] = "reading", NEW kind \in Kinds,
           Answered(l, kind)
    PROVE  HandoffInv'
<1>1. /\ got[l] \in Seq(Kinds) /\ Len(got[l]) < Len(WIS_TOOLS)
      /\ mode[l] \in Modes /\ local[l] \in Locals
  BY DEF HandoffInv, InputTypes, Answers, HasMode, HasLocal
<1>2. /\ got'[l] = Append(got[l], kind) /\ \A k \in Loads \ {l} : got'[k] = got[k]
      /\ mode' = mode /\ local' = local /\ UNCHANGED storeVars
  BY DEF HandoffInv, InputTypes, Answered
<1>3. got'[l] \in Seq(Kinds) /\ Len(got'[l]) = Len(got[l]) + 1
  BY <1>1, <1>2
<1>4. InputTypes'
  BY <1>1, <1>2, <1>3 DEF HandoffInv, InputTypes, Answered
<1>5. l \in Procs
  BY ProcsAreDisjoint
<1>6. CASE Len(got[l]) + 1 = Len(WIS_TOOLS)
  <2>1. Goes(l, "closing")
    BY <1>6 DEF Answered
  <2>2. pc'[l] = "closing"
    BY <1>5, <2>1, GoesTo
  <2>3. Answers(l)'
    BY <1>1, <1>2, <1>3, <1>6, <2>2 DEF Answers
  <2> QED
    BY <1>2, <1>4, <1>5, <2>1, <2>3, OneMoves
<1>7. CASE Len(got[l]) + 1 # Len(WIS_TOOLS)
  <2>1. pc' = pc
    BY <1>7 DEF Answered
  <2>2. Len(got'[l]) < Len(WIS_TOOLS)
    BY <1>1, <1>3, <1>7, ToolFacts
  <2>3. Answers(l)'
    BY <1>1, <1>2, <2>1, <2>2 DEF Answers
  <2>4. \A k \in Loads : Answers(k)'
    BY <1>2, <2>1, <2>3, LoadKeeps DEF HandoffInv
  <2> QED
    BY <1>2, <1>4, <2>4 DEF HandoffInv, StoresInv, storeVars
<1> QED
  BY <1>6, <1>7

LEMMA FinishHandoff ==
    ASSUME SessionInv, HandoffInv, NEW l \in Loads, Finish(l)
    PROVE  HandoffInv'
<1>1. /\ got[l] \in Seq(Kinds) /\ Len(got[l]) = Len(WIS_TOOLS)
      /\ mode[l] \in Modes /\ local[l] \in Locals
  BY DEF HandoffInv, InputTypes, Answers, Finish, HasMode, HasLocal
<1>2. IsEnvelope(Compose(l))
  BY <1>1 DEF IsEnvelope, Compose
<1>3. StoresInv'
  BY <1>2 DEF HandoffInv, StoresInv, Finish
<1>4. /\ InputTypes' /\ got'[l] = <<>>
      /\ \A k \in Loads \ {l} : mode'[k] = mode[k] /\ local'[k] = local[k] /\ got'[k] = got[k]
  BY DEF HandoffInv, InputTypes, Finish, Forget
<1>5. l \in Procs /\ Goes(l, "done")
  BY ProcsAreDisjoint DEF Finish
<1>6. pc'[l] = "done" /\ \A q \in Procs \ {l} : pc'[q] = pc[q]
  BY <1>5 DEF Goes, SessionInv, SessionTypes, TypeOK
<1>7. Answers(l)'
  BY <1>4, <1>6 DEF Answers, HasMode, HasLocal
<1>8. ASSUME NEW k \in Loads \ {l} PROVE Answers(k)'
  BY <1>4, <1>6, LoadKeeps, ProcsAreDisjoint DEF HandoffInv
<1>9. \A k \in Loads : Answers(k)'
  BY <1>7, <1>8
<1> QED
  BY <1>3, <1>4, <1>9 DEF HandoffInv

LEMMA LoadStepHandoff ==
    ASSUME SessionInv, HandoffInv, NEW l \in Loads, LoadStep(l)
    PROVE  HandoffInv'
<1>1. CASE CallTool(l)
  <2>1. PICK kind \in Kinds : Answered(l, kind)
    BY <1>1 DEF CallTool, Kinds
  <2> QED
    BY <1>1, <2>1, AnsweredHandoff DEF CallTool
<1>2. CASE CallFails(l)
  <2>1. PICK kind \in Outages : Answered(l, kind)
    BY <1>2 DEF CallFails
  <2> QED
    BY <1>2, <2>1, OutagesAreKinds, AnsweredHandoff DEF CallFails
<1> QED
  BY <1>1, <1>2, InspectHandoff, ConnectionFailsHandoff, ConnectHandoff, ListToolsHandoff,
     FinishHandoff DEF LoadStep

LEMMA PrepareHandoffHandoff ==
    ASSUME SessionInv, HandoffInv, PrepareHandoff
    PROVE  HandoffInv'
<1>1. IsHandoff(handoff')
  <2>1. CASE store = None \/ ClassifyBuildStatus(store) = "blocked"
    BY <2>1 DEF PrepareHandoff, BlockedHandoff, IsHandoff
  <2>2. CASE ~(store = None \/ ClassifyBuildStatus(store) = "blocked")
    BY <2>2 DEF PrepareHandoff, IsHandoff, HandoffInv, StoresInv
  <2> QED
    BY <2>1, <2>2
<1>2. StoresInv'
  BY <1>1 DEF PrepareHandoff, HandoffInv, StoresInv
<1> QED
  BY <1>2 DEF PrepareHandoff, HandoffInv, InputTypes, Answers, inputVars

LEMMA HandoffStep == SessionInv /\ HandoffInv /\ [Next]_vars => HandoffInv'
<1> SUFFICES ASSUME SessionInv, HandoffInv, [Next]_vars PROVE HandoffInv'
  OBVIOUS
<1>1. ASSUME UNCHANGED <<pc, mode, local, got, store, shown, handoff>> PROVE HandoffInv'
  BY <1>1 DEF HandoffInv, InputTypes, Answers, StoresInv
<1>2. CASE UNCHANGED vars
  BY <1>1, <1>2 DEF vars, inputVars, storeVars
<1>3. CASE ConfigureToken \/ ClearToken \/ Backend
  BY <1>1, <1>3 DEF ConfigureToken, ClearToken, Backend, inputVars, storeVars
<1>4. CASE Activate \/ Reload \/ PrepareHandoff
  BY <1>4, ActivateHandoff, ReloadHandoff, PrepareHandoffHandoff
<1>5. ASSUME NEW r \in Resets, ResetSession(r) PROVE HandoffInv'
  BY <1>5, PlainMove, ProcsAreDisjoint, ContextConstantsOK
     DEF ResetSession, CreateSession, inputVars, ContextConstantsOK
<1>6. ASSUME NEW p \in Loads \union Writes, NEW config \in AuthConfigs, Begin(p, config)
      PROVE  HandoffInv'
  BY <1>6, PlainMove, ProcsAreDisjoint DEF Begin, HasMode, HasLocal
<1>7. ASSUME NEW w \in Writes, CallWrite(w) PROVE HandoffInv'
  <2>1. PICK status : Goes(w, Outcome(status))
    BY <1>7 DEF CallWrite
  <2>2. w \in Procs /\ w \notin Loads
    BY ProcsAreDisjoint, ContextConstantsOK DEF ContextConstantsOK
  <2> QED
    BY <1>7, <2>1, <2>2, PlainMove DEF CallWrite, inputVars
<1> QED
  BY <1>2, <1>3, <1>4, <1>5, <1>6, <1>7, StepHandoff, LoadStepHandoff DEF Next

(* A handoff is built from the envelope that was presented last, says      *)
(* ready only of five answers, and names every answer it lacks and its own *)
(* uncertainty (composeOperationalContext.ts, handoffBuilder.ts).          *)
THEOREM HonestHandoff == Spec => []HandoffIsHonest
<1>1. SessionInv /\ HandoffInv => HandoffIsHonest
  BY HandoffIsHonestOf DEF HandoffInv
<1> QED
  BY <1>1, SessionInitInv, SessionStep, HandoffInitInv, HandoffStep, PTL DEF Spec
=============================================================================
