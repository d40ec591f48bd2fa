-------------------------------- MODULE Focus --------------------------------
(***************************************************************************)
(* What the backend answers when it is asked for "the" context: the rows a *)
(* scope is resolved from (tasks, execution_sessions, context_scopes), who *)
(* writes them (the two seeds and a ratification), and resolve_scope.      *)
(* There is one workspace, and each seeded project has one task, so a task *)
(* is named by its project.                                                *)
(***************************************************************************)
EXTENDS Naturals, FiniteSets

CONSTANTS
    None,
    CanonicalKey, \* session keys the seeds write
    ErpKey

ASSUME FocusConstantsOK ==
    CanonicalKey # ErpKey /\ None \notin {CanonicalKey, ErpKey}

(* Faulty variants: an operator named X_<Fault> is not part of the model.  *)
(* It is X with a plausible mistake, kept to show that a property notices. *)
Projects == {"default_project", "erp_v2"}

Consumers == {"chatgpt", "vscode_extension", "codex", "github_copilot"}

VARIABLES
    tasks,    \* projects whose task exists
    active,   \* tasks with is_active
    sessions, \* execution_sessions: [key, consumer, task]
    current   \* context_scopes with is_current: [key, task]

focusVars == <<tasks, active, sessions, current>>

Session(key, consumer, task) == [key |-> key, consumer |-> consumer, task |-> task]

(* docker-compose.yml runs the migrations and seed_v5 before the backend.  *)
FocusInit ==
    /\ tasks = {"default_project"} /\ active = {"default_project"}
    /\ sessions = {Session(CanonicalKey, "chatgpt", "default_project")}
    /\ current = {[key |-> CanonicalKey, task |-> "default_project"]}

UpsertSession(key, consumer, task) ==
    sessions' = {s \in sessions : s.key # key} \union {Session(key, consumer, task)}

(* seed_v5 after seed_v1: the scope of the active task, created if there   *)
(* is none, becomes the only current one.                                  *)
SeedV5 ==
    \E t \in IF active = {} THEN {"default_project"} ELSE active :
        /\ tasks' = tasks \union {t}
        /\ active' = active \union {t}
        /\ UpsertSession(CanonicalKey, "chatgpt", t)
        /\ current' = {[key |-> CanonicalKey, task |-> t]}

SeedErp_KeepsActive ==
    /\ tasks' = tasks \union {"erp_v2"}
    /\ active' = active \union {"erp_v2"}
    /\ UpsertSession(ErpKey, "vscode_extension", "erp_v2")
    /\ current' = {[key |-> ErpKey, task |-> "erp_v2"]}

(* seed_erp_v2: its task becomes the only active one of the system.        *)
SeedErp ==
    /\ tasks' = tasks \union {"erp_v2"}
    /\ active' = {"erp_v2"}
    /\ UpsertSession(ErpKey, "vscode_extension", "erp_v2")
    /\ current' = {[key |-> ErpKey, task |-> "erp_v2"]}

(* A ratification (Ratification.tla) leaves no current scope for its task. *)
InvalidateContextForScope(t) ==
    /\ t \in tasks
    /\ current' = {s \in current : s.task # t}
    /\ UNCHANGED <<tasks, active, sessions>>

-----------------------------------------------------------------------------
(* The newest of the active tasks of a set, else its newest task.  Never   *)
(* are two tasks active (FocusAgrees), so there is nothing to order.       *)
Effective(of) ==
    IF of \intersect active # {} THEN CHOOSE t \in of \intersect active : TRUE
    ELSE IF of \intersect tasks # {} THEN CHOOSE t \in of \intersect tasks : TRUE
    ELSE None

Resolved(status, task, source) == [status |-> status, task |-> task, source |-> source]

Found(task, source) == Resolved(IF task = None THEN "no_scope" ELSE "ok", task, source)

CurrentScope == CHOOSE s \in current : TRUE

(* A request that names no workspace, project or task and no session.      *)
Canonical ==
    IF current # {} THEN Found(CurrentScope.task, "canonical_scope")
    ELSE Found(IF active = {} THEN None ELSE Effective(active), "legacy_active_task")

(* What a request names: by is None, "task_id", "project_id" or            *)
(* "workspace_id", and id the task, or the project, it gives.              *)
Named(by, id) ==
    IF by = "workspace_id" THEN Found(Effective(Projects), by)
    ELSE IF id \notin tasks THEN Resolved("scope_not_found", None, by)
    ELSE Found(IF by = "task_id" THEN id ELSE Effective({id}), by)

Rows(key) == {s \in sessions : s.key = key}

UnknownConsumer(consumer) == consumer # None /\ consumer \notin Consumers

UnknownSession(key) == key # None /\ Rows(key) = {}

OthersSession(consumer, key) == consumer # None /\ \E s \in Rows(key) : s.consumer # consumer

BySession(key) == Found((CHOOSE s \in Rows(key) : TRUE).task, "session_key")

ResolveScope(consumer, key, by, id) ==
    IF UnknownConsumer(consumer) THEN Resolved("scope_not_found", None, "request")
    ELSE IF UnknownSession(key) THEN Resolved("scope_not_found", None, "request")
    ELSE IF OthersSession(consumer, key) THEN Resolved("scope_conflict", None, "request")
    ELSE IF by # None THEN Named(by, id)
    ELSE IF key # None THEN BySession(key)
    ELSE Canonical

(* The task the REST API serves as the active one.                         *)
GetActiveTask == IF current # {} THEN CurrentScope.task ELSE Effective(active)

(* However the focus is asked for without naming a task, project or        *)
(* session (an MCP tool with no arguments, one with the workspace, the     *)
(* REST API), it is the one active task, whichever seeds ran and whatever  *)
(* was ratified since.                                                     *)
FocusAgrees ==
    /\ Cardinality(active) = 1
    /\ \A c \in Consumers \union {None} :
         /\ ResolveScope(c, None, None, None).task \in active
         /\ ResolveScope(c, None, "workspace_id", None).task \in active
    /\ GetActiveTask \in active
=============================================================================
