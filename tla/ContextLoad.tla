----------------------------- MODULE ContextLoad -----------------------------
(***************************************************************************)
(* The control plane of the extension against the backend of Focus: the    *)
(* session it keeps in workspaceState, the commands that load the          *)
(* operational context, reset the session and write to the context plane,  *)
(* and the handoff built from the last envelope.  Commands overlap: each   *)
(* is cut at its awaits.                                                   *)
(***************************************************************************)
EXTENDS Focus, Sequences, SequencesExt

CONSTANTS
    Loads, Resets, Writes, \* invocations of the commands
    Outages,     \* what a failing request is classified as
    Published,   \* the sets of tools a server may list
    Modes,       \* runtimeMode and fixtureScenario: "mcp" or a scenario
    AuthConfigs, \* authMode, requireAuthentication, whether the header has a name
    Locals,      \* what EnvironmentInspector may find
    MaxEvents    \* bound: commands begun, reloads, seeds, ratifications, token
                 \* changes, requests and updates that fail

Activation == "activation"

Commands == Loads \union Resets \union Writes

Procs == {Activation} \union Commands

Scenarios == {"success_full", "validation_stale", "no_active_task",
              "partial_missing_recent_errors", "transport_error", "degraded_no_remote_bundle"}

WIS_TOOLS == <<"get_active_task", "get_context_snapshot", "get_validation_status",
               "get_approved_decisions", "get_recent_errors">>

Tools == ToSet(WIS_TOOLS)

Kinds == {"ok", "remote_error", "transport_error", "schema_error", "unavailable"}

MAX_RISKS == 8

ASSUME ContextConstantsOK ==
    /\ Activation \notin Commands
    /\ Loads \intersect Resets = {} /\ Loads \intersect Writes = {} /\ Resets \intersect Writes = {}
    /\ CanonicalKey \notin Nat /\ ErpKey \notin Nat
    /\ Outages \subseteq {"transport_error", "schema_error", "unavailable"}
    /\ Published \subseteq SUBSET Tools
    /\ Modes \subseteq Scenarios \union {"mcp"}
    /\ MaxEvents \in Nat

VARIABLES
    events,
    memory,  \* workspaceState as get reads it: [key, created]
    disk,    \* as the next window will find it
    issued,  \* keys made so far; a key is a number, 0 is none
    token,   \* SecretStorage holds a token
    pc, auth, mode, local, available, got,
    held,    \* the session key a command has
    store,   \* InMemoryOperationalContextStore
    shown,   \* the envelope presented last
    handoff  \* InMemoryHandoffArtifactStore

sessionVars == <<memory, disk, issued>>
inputVars == <<auth, mode, local, available, got>>
storeVars == <<store, shown, handoff>>
vars == <<focusVars, events, sessionVars, token, pc, inputVars, held, storeVars>>

Over == {"done", "blocked", "failed", "completed", "lost"}

Idle == {p \in Procs : pc[p] = "idle"}

Running == {p \in Commands : pc[p] \notin Over \union {"idle"}}

NoSession == [key |-> 0, created |-> 0]

NoHandoff == [status |-> "none", envelope |-> None, risks |-> <<>>]

Init ==
    /\ FocusInit
    /\ events = 0
    /\ memory = NoSession /\ disk = NoSession /\ issued = 0
    /\ token = FALSE
    /\ pc = [p \in Procs |-> "idle"]
    /\ auth = [p \in Commands |-> None] /\ mode = [l \in Loads |-> None]
    /\ local = [l \in Loads |-> None] /\ available = [l \in Loads |-> {}]
    /\ got = [l \in Loads |-> <<>>]
    /\ held = [p \in Procs |-> 0]
    /\ store = None /\ shown = None /\ handoff = NoHandoff

Event == events < MaxEvents /\ events' = events + 1

Open == pc[Activation] = "done"

Goes(p, label) == pc' = [pc EXCEPT ![p] = label]

(***************************************************************************)
(* SessionManager.  workspaceState.update changes what get reads at once   *)
(* and its promise resolves when the whole of it is on disk.               *)
(***************************************************************************)
AfterSession(p) ==
    IF p \in Loads THEN "inspecting" ELSE IF p \in Writes THEN "calling" ELSE "done"

CreateSession(p) ==
    /\ issued' = issued + 1
    /\ memory' = [memory EXCEPT !.key = issued + 1]
    /\ held' = [held EXCEPT ![p] = issued + 1]
    /\ Goes(p, "keyed")

(* A session whose creation time is missing gets one.                      *)
GetOrCreateSession(p) ==
    \/ /\ memory.key # 0
       /\ held' = [held EXCEPT ![p] = memory.key]
       /\ IF memory.created = 0
          THEN memory' = [memory EXCEPT !.created = memory.key] /\ Goes(p, "dated")
          ELSE Goes(p, AfterSession(p)) /\ UNCHANGED memory
       /\ UNCHANGED issued
    \/ memory.key = 0 /\ CreateSession(p)

KeyStored_NotAwaited(p) ==
    /\ pc[p] = "keyed"
    /\ memory' = [memory EXCEPT !.created = held[p]]
    /\ Goes(p, AfterSession(p))
    /\ UNCHANGED <<focusVars, events, disk, issued, token, inputVars, held, storeVars>>

(* The key is on disk: its creation time follows.                          *)
KeyStored(p) ==
    /\ pc[p] = "keyed"
    /\ disk' = memory
    /\ memory' = [memory EXCEPT !.created = held[p]]
    /\ Goes(p, "dated")
    /\ UNCHANGED <<focusVars, events, issued, token, inputVars, held, storeVars>>

DateStored(p) ==
    /\ pc[p] = "dated"
    /\ disk' = memory
    /\ Goes(p, AfterSession(p))
    /\ UNCHANGED <<focusVars, events, memory, issued, token, inputVars, held, storeVars>>

(* The update is refused: the command, or the activation, throws.          *)
StoreFails(p) ==
    /\ pc[p] \in {"keyed", "dated"} /\ Event
    /\ Goes(p, "failed")
    /\ UNCHANGED <<focusVars, sessionVars, token, inputVars, held, storeVars>>

ResetSession(r) ==
    /\ Open /\ pc[r] = "idle" /\ Event
    /\ CreateSession(r)
    /\ UNCHANGED <<focusVars, disk, token, inputVars, storeVars>>

Activate ==
    /\ pc[Activation] = "idle"
    /\ GetOrCreateSession(Activation)
    /\ UNCHANGED <<focusVars, events, disk, token, inputVars, storeVars>>

(* The window is reloaded, or its extension host dies, whatever it awaits. *)
Reload ==
    /\ pc[Activation] # "idle" /\ Event
    /\ memory' = disk
    /\ pc' = [p \in Procs |-> IF p = Activation THEN "idle"
                              ELSE IF p \in Running THEN "lost" ELSE pc[p]]
    /\ auth' = [p \in Commands |-> None] /\ mode' = [l \in Loads |-> None]
    /\ local' = [l \in Loads |-> None] /\ available' = [l \in Loads |-> {}]
    /\ got' = [l \in Loads |-> <<>>]
    /\ store' = None /\ shown' = None /\ handoff' = NoHandoff
    /\ held' = [p \in Procs |-> IF p \in Resets /\ pc[p] = "done" THEN held[p] ELSE 0]
    /\ UNCHANGED <<focusVars, disk, issued, token>>

(***************************************************************************)
(* AuthManager and RuntimeAuthPolicy: a command resolves the settings and  *)
(* the stored token, and goes on only if they fit together.                *)
(***************************************************************************)
ConfigureToken ==
    /\ Open /\ Event
    /\ \E c \in AuthConfigs : c.mode # "none"
    /\ token' = TRUE
    /\ UNCHANGED <<focusVars, sessionVars, pc, inputVars, held, storeVars>>

ClearToken ==
    /\ Open /\ token /\ Event
    /\ token' = FALSE
    /\ UNCHANGED <<focusVars, sessionVars, pc, inputVars, held, storeVars>>

Evaluate(config, has) ==
    IF config.mode = "none" THEN ~config.required /\ ~has
    ELSE has /\ (config.mode = "api_key" => config.named)

Begin(p, config) ==
    /\ Open /\ p \in Loads \union Writes /\ pc[p] = "idle" /\ Event
    /\ auth' = [auth EXCEPT ![p] = config]
    /\ Goes(p, "resolving")
    /\ UNCHANGED <<focusVars, sessionVars, token, mode, local, available, got, held, storeVars>>

Blocked(p) ==
    /\ pc[p] = "resolving" /\ ~Evaluate(auth[p], token)
    /\ auth' = [auth EXCEPT ![p] = None]
    /\ Goes(p, "blocked")
    /\ UNCHANGED <<focusVars, events, sessionVars, token, mode, local, available, got, held, storeVars>>

(* Until the first await of getOrCreateSession; the load has read its      *)
(* settings.                                                               *)
Allowed(p) ==
    /\ pc[p] = "resolving" /\ Evaluate(auth[p], token)
    /\ auth' = [auth EXCEPT ![p] = None]
    /\ IF p \in Loads THEN \E m \in Modes : mode' = [mode EXCEPT ![p] = m] ELSE UNCHANGED mode
    /\ GetOrCreateSession(p)
    /\ UNCHANGED <<focusVars, events, disk, token, local, available, got, storeVars>>

(***************************************************************************)
(* The bundle: the five read tools, one after the other.                   *)
(***************************************************************************)
Every(kind) == [i \in DOMAIN WIS_TOOLS |-> kind]

FixtureKind(scenario, tool) ==
    CASE scenario \in {"success_full", "validation_stale"} -> "ok"
      [] scenario = "no_active_task" -> "remote_error"
      [] scenario = "transport_error" -> "transport_error"
      [] scenario = "degraded_no_remote_bundle" -> "unavailable"
      [] scenario = "partial_missing_recent_errors" ->
           IF tool = "get_recent_errors" THEN "transport_error" ELSE "ok"

Fixture(scenario) == [i \in DOMAIN WIS_TOOLS |-> FixtureKind(scenario, WIS_TOOLS[i])]

Bundle(l, kinds) ==
    /\ got' = [got EXCEPT ![l] = kinds]
    /\ Goes(l, "closing")

(* The gateway is made, and a fixture answers by itself.                   *)
Inspect(l) ==
    /\ pc[l] = "inspecting"
    /\ \E found \in Locals : local' = [local EXCEPT ![l] = found]
    /\ IF mode[l] # "mcp" THEN Bundle(l, Fixture(mode[l]))
       ELSE Goes(l, "connecting") /\ UNCHANGED got
    /\ UNCHANGED <<focusVars, events, sessionVars, token, auth, mode, available, held, storeVars>>

(* What fails outside a tool call speaks for every tool.                   *)
ConnectionFails(l) ==
    /\ pc[l] \in {"connecting", "listing"} /\ Event
    /\ \E kind \in Outages : Bundle(l, Every(kind))
    /\ UNCHANGED <<focusVars, sessionVars, token, auth, mode, local, available, held, storeVars>>

Connect(l) ==
    /\ pc[l] = "connecting"
    /\ Goes(l, "listing")
    /\ UNCHANGED <<focusVars, events, sessionVars, token, inputVars, held, storeVars>>

ListTools(l) ==
    /\ pc[l] = "listing"
    /\ \E tools \in Published : available' = [available EXCEPT ![l] = tools]
    /\ Goes(l, "reading")
    /\ UNCHANGED <<focusVars, events, sessionVars, token, auth, mode, local, got, held, storeVars>>

(* The extension names itself and its session, never a scope.              *)
Answer(p) == ResolveScope("vscode_extension", held[p], None, None)

NextTool(l) == WIS_TOOLS[Len(got[l]) + 1]

Answered(l, kind) ==
    /\ got' = [got EXCEPT ![l] = Append(@, kind)]
    /\ IF Len(got[l]) + 1 = Len(WIS_TOOLS) THEN Goes(l, "closing") ELSE UNCHANGED pc
    /\ UNCHANGED <<focusVars, sessionVars, token, auth, mode, local, available, held, storeVars>>

CallTool_WaitsForMissing(l) ==
    /\ pc[l] = "reading" /\ NextTool(l) \in available[l]
    /\ Answered(l, IF Answer(l).status = "ok" THEN "ok" ELSE "remote_error")
    /\ UNCHANGED events

(* A tool the server does not list is not called.                          *)
CallTool(l) ==
    /\ pc[l] = "reading"
    /\ Answered(l, IF NextTool(l) \notin available[l] THEN "unavailable"
                   ELSE IF Answer(l).status = "ok" THEN "ok" ELSE "remote_error")
    /\ UNCHANGED events

CallFails(l) ==
    /\ pc[l] = "reading" /\ NextTool(l) \in available[l] /\ Event
    /\ \E kind \in Outages : Answered(l, kind)

(***************************************************************************)
(* composeOperationalContext.                                              *)
(***************************************************************************)
Usable(kinds) == ToSet(kinds) \intersect {"ok", "remote_error"} # {}

ClassifyLoadState(kinds, found) ==
    IF ToSet(kinds) = {"ok"} THEN "loaded"
    ELSE IF Usable(kinds) THEN "partially_loaded"
    ELSE IF found.usable THEN "degraded"
    ELSE "failed"

ClassifyTransportStatus(kinds) ==
    IF ToSet(kinds) = {"ok"} THEN "ok"
    ELSE IF "schema_error" \in ToSet(kinds) THEN "schema_error"
    ELSE IF "transport_error" \in ToSet(kinds) THEN "transport_error"
    ELSE IF Usable(kinds) THEN "partial"
    ELSE "unavailable"

(* What the envelope reports, in its order and each by its source.         *)
Noted(holds, source) == IF holds THEN <<source>> ELSE <<>>

Lacks(kinds, i) == Noted(kinds[i] # "ok", WIS_TOOLS[i])

BundleIssues(kinds) ==
    Lacks(kinds, 1) \o Lacks(kinds, 2) \o Lacks(kinds, 3) \o Lacks(kinds, 4) \o Lacks(kinds, 5)

(* Branches are compared when get_active_task, the first tool, gave one.   *)
LocalIssues(kinds, found, scenario) ==
    Noted(found.status # "ok", "environment_inspector")
    \o Noted(scenario = "validation_stale", "validation_stale")
    \o Noted(kinds[1] = "ok" /\ found.branch \notin {None, "main"}, "authority_map")

Issues(kinds, found, scenario) == BundleIssues(kinds) \o LocalIssues(kinds, found, scenario)

Compose(l) ==
    [key |-> held[l], mode |-> mode[l], kinds |-> got[l],
     load_state |-> ClassifyLoadState(got[l], local[l]),
     transport_status |-> ClassifyTransportStatus(got[l]),
     issues |-> Issues(got[l], local[l], mode[l])]

Forget(l) ==
    /\ mode' = [mode EXCEPT ![l] = None]
    /\ local' = [local EXCEPT ![l] = None] /\ available' = [available EXCEPT ![l] = {}]
    /\ got' = [got EXCEPT ![l] = <<>>] /\ held' = [held EXCEPT ![l] = 0]

(* close, and in one turn compose, setLast and present.                    *)
Finish(l) ==
    /\ pc[l] = "closing"
    /\ shown' = Compose(l)
    /\ store' = Compose(l)
    /\ Forget(l)
    /\ Goes(l, "done")
    /\ UNCHANGED <<focusVars, events, sessionVars, token, auth, handoff>>

(***************************************************************************)
(* HandoffBuilder.build.                                                   *)
(***************************************************************************)
ClassifyBuildStatus(e) ==
    CASE e.load_state = "loaded" -> "ready"
      [] e.load_state \in {"partially_loaded", "degraded"} -> "partial"
      [] OTHER -> "blocked"

FirstOf(s, n) == SubSeq(s, 1, IF Len(s) < n THEN Len(s) ELSE n)

OpenRisks_Short(e) ==
    FirstOf(e.issues \o Noted(ClassifyBuildStatus(e) = "partial", "handoff_builder"), MAX_RISKS - 2)

OpenRisks(e) ==
    FirstOf(e.issues \o Noted(ClassifyBuildStatus(e) = "partial", "handoff_builder"), MAX_RISKS)

BlockedHandoff == [status |-> "blocked", envelope |-> None, risks |-> <<>>]

(* The artifact speaks of the envelope it was built from.                  *)
PrepareHandoff ==
    /\ Open /\ Event
    /\ handoff' = IF store = None \/ ClassifyBuildStatus(store) = "blocked" THEN BlockedHandoff
                  ELSE [status |-> ClassifyBuildStatus(store), envelope |-> store,
                        risks |-> OpenRisks(store)]
    /\ UNCHANGED <<focusVars, sessionVars, token, pc, inputVars, held, store, shown>>

(***************************************************************************)
(* A write command that is not a dry run, with a fresh idempotency key.    *)
(***************************************************************************)
Refusals == {"forbidden", "unauthorized", "invalid_request", "error"}

(* What the write tool answers once its scope is resolved (WritePlane).    *)
Verdicts == {"ok", "ratification_required"} \union Refusals

Outcome(status) == IF status \in Refusals \union {"transport_error"} THEN "failed" ELSE "completed"

(* A request that fails may have been committed: the command cannot tell.  *)
CallWrite(w) ==
    /\ pc[w] = "calling"
    /\ \E status \in {"transport_error"}
                     \union (IF Answer(w).status = "ok" THEN Verdicts ELSE {Answer(w).status}) :
         Goes(w, Outcome(status))
    /\ held' = [held EXCEPT ![w] = 0]
    /\ UNCHANGED <<focusVars, events, sessionVars, token, inputVars, storeVars>>

Step(p) ==
    \/ Blocked(p) \/ Allowed(p) \/ KeyStored(p) \/ DateStored(p)
    \/ StoreFails(p)

LoadStep(l) ==
    \/ Inspect(l) \/ ConnectionFails(l) \/ Connect(l) \/ ListTools(l) \/ CallTool(l) \/ CallFails(l)
    \/ Finish(l)

(* What other programs do to the backend.                                  *)
Backend ==
    /\ Event
    /\ SeedV5 \/ SeedErp \/ \E t \in Projects : InvalidateContextForScope(t)
    /\ UNCHANGED <<sessionVars, token, pc, inputVars, held, storeVars>>

Next ==
    \/ Activate \/ Reload \/ ConfigureToken \/ ClearToken \/ PrepareHandoff \/ Backend
    \/ \E r \in Resets : ResetSession(r)
    \/ \E p \in Procs : Step(p)
    \/ \E p \in Loads \union Writes, config \in AuthConfigs : Begin(p, config)
    \/ \E l \in Loads : LoadStep(l)
    \/ \E w \in Writes : CallWrite(w)

(* Every await ends: the requests have a timeout, and what they reject     *)
(* with is caught.                                                         *)
Fairness ==
    /\ \A p \in Procs \ Loads : WF_vars(Step(p))
    /\ \A l \in Loads : WF_vars(Step(l) \/ LoadStep(l))

Spec == Init /\ [][Next]_vars /\ Fairness

-----------------------------------------------------------------------------
(***************************************************************************)
(* Properties.                                                             *)
(***************************************************************************)
Sources == Tools \union {"environment_inspector", "validation_stale", "authority_map", "handoff_builder"}

SessionRecord == [key : Nat, created : Nat]

Labels == Over \union {"idle", "resolving", "keyed", "dated", "inspecting",
                       "connecting", "listing", "reading", "closing", "calling"}

(* The type of what the commands and the session keep.                     *)
TypeOK ==
    /\ memory \in SessionRecord /\ disk \in SessionRecord /\ issued \in Nat
    /\ held \in [Procs -> Nat] /\ pc \in [Procs -> Labels]

Unanswered(e) == {WIS_TOOLS[i] : i \in {j \in DOMAIN WIS_TOOLS : e.kinds[j] # "ok"}}

(* However loads overlap, the next handoff is built from the envelope the  *)
(* user was shown last.  It says ready only if all five tools answered ok  *)
(* in that load; one built from less names every tool that did not, and    *)
(* its own uncertainty, among its at most eight open risks.                *)
HandoffIsHonest ==
    /\ store = shown
    /\ handoff.envelope # None =>
         /\ handoff.status = "ready" <=> Unanswered(handoff.envelope) = {}
         /\ Unanswered(handoff.envelope) \subseteq ToSet(handoff.risks)
         /\ handoff.status = "partial" => "handoff_builder" \in ToSet(handoff.risks)

(* While commands run the session has a key and a creation time, also      *)
(* after a window that died between the two writes; and a reset that was   *)
(* reported outlives every reload: neither the window nor the next one     *)
(* goes back to an older key.                                              *)
SessionSurvives ==
    /\ Open => memory.key # 0 /\ memory.created # 0
    /\ \A r \in Resets : pc[r] = "done" => memory.key >= held[r] /\ disk.key >= held[r]

(* A load that was begun ends, whatever the server does.                   *)
LoadsFinish == \A l \in Loads : pc[l] # "idle" ~> pc[l] \in Over

-----------------------------------------------------------------------------
(* A load whose five calls were answered finds the focus that the backend  *)
(* has, and ends loaded.                                                   *)
LoadReachesTheFocus ==
    store # None /\ store.mode = "mcp" /\ ToSet(store.kinds) \subseteq {"ok", "remote_error"} =>
        store.load_state = "loaded"
=============================================================================
