----------------------------- MODULE PrepareTask -----------------------------
(***************************************************************************)
(* localPrepareTask: invocations of several windows over one project.  An  *)
(* invocation asks idempotency_records for its key, retrieves a context    *)
(* from an index that others rewrite meanwhile, and persists the task, its *)
(* context and its move to "prepared" in separate statements before it     *)
(* puts the draft into its window's store and records its answer.  The     *)
(* task of an invocation is named after it: its id is a fresh UUID.        *)
(***************************************************************************)
EXTENDS Retrieval

CONSTANTS
    Preps,      \* invocations
    Windows,
    Keys,       \* what buildIdempotencyKey makes of an intent and where it is asked
    Vague,      \* keys of intents without a useful token
    MaxReindex, \* bound: files whose active text changes
    MaxFaults   \* bound: failing statements, lost replies, dying windows

(* Faulty variants: an operator named X_<Fault> is not part of the model.  *)
(* It is X with a plausible mistake, kept to show that a property notices. *)
ASSUME PrepareConstantsOK ==
    /\ None \notin Preps /\ Vague \subseteq Keys
    /\ MaxReindex \in Nat /\ MaxFaults \in Nat

VARIABLES
    index,      \* files joined with file_chunks
    reindexed, faults,
    record,     \* idempotency_records: key -> the task the stored answer names
    task,       \* tasks: lifecycle_state and whether retrieval_context_ref is set
    context,    \* task_context: tasks that have a row
    history,    \* task_state_transitions: tasks with the move to prepared
    draft,      \* task_draft of a window's store
    offer,      \* auxiliary: "open" for a task that was in a store whose window
                \* is still open, "closed" for one whose window is not
    runtime,    \* its runtime_state
    pc,         \* the await each invocation is at
    win, key,
    got,        \* what an invocation has retrieved so far
    answer,
    after,      \* auxiliary: the invocations that were over when it started
    apart       \* auxiliary: its window ran nothing beside it and is still open

indexVars == <<index, reindexed>>
tableVars == <<record, task, context, history>>
storeVars == <<draft, offer, runtime>>
callVars  == <<win, key, after, apart>>
vars == <<indexVars, faults, tableVars, storeVars, pc, got, answer, callVars>>

Retrieving == {"search", "supplement"}

Statements == Retrieving \union
    {"inspect", "resolve", "saveTask", "saveContext", "saveRef", "transition", "history", "record"}

Over == {"done", "dead"}

Running == {p \in Preps : pc[p] \notin Over \union {"idle"}}

NoAnswer == [status |-> "none", task |-> None, fresh |-> FALSE]

NoContext == [Fallback EXCEPT !.candidates = <<>>]

(* asked: which of the two concurrent queries have answered; files, chunks *)
(* and ctx: what they returned and the context made of it; shown, which is *)
(* auxiliary: what the index showed meanwhile.                             *)
Nothing == [asked |-> {}, files |-> {}, chunks |-> {}, ctx |-> NoContext, shown |-> {}]

Shows(files) == {<<p, files[p]>> : p \in {q \in Paths : files[q] # "gone"}}

Init ==
    /\ index = [f \in Paths |-> "gone"] /\ reindexed = 0 /\ faults = 0
    /\ record = [k \in Keys |-> None]
    /\ task = [p \in Preps |-> [state |-> "none", ref |-> FALSE]]
    /\ context = {} /\ history = {}
    /\ draft = [w \in Windows |-> None] /\ offer = [p \in Preps |-> "no"]
    /\ runtime = [w \in Windows |-> "idle"]
    /\ pc = [p \in Preps |-> "idle"]
    /\ win = [p \in Preps |-> None] /\ key = [p \in Preps |-> None]
    /\ got = [p \in Preps |-> Nothing]
    /\ answer = [p \in Preps |-> NoAnswer]
    /\ after = [p \in Preps |-> {}] /\ apart = [p \in Preps |-> TRUE]

(***************************************************************************)
(* The outcome of an invocation: pushResult and return.                    *)
(***************************************************************************)
PushResult(w, failed) ==
    runtime' = [runtime EXCEPT ![w] = IF failed THEN "error"
                                      ELSE IF @ = "running" THEN "ready" ELSE @]

Returns(p, status, t, fresh) ==
    /\ pc' = [pc EXCEPT ![p] = "done"]
    /\ answer' = [answer EXCEPT ![p] = [status |-> status, task |-> t, fresh |-> fresh]]
    /\ PushResult(win[p], status # "ok")
    /\ got' = [got EXCEPT ![p] = Nothing]

Fault == faults < MaxFaults /\ faults' = faults + 1

Goes(p, next) ==
    /\ pc' = [pc EXCEPT ![p] = next]
    /\ UNCHANGED <<faults, runtime, answer, got>>

(* The catch block.                                                        *)
Throws(p) == Fault /\ Returns(p, "error", None, FALSE)

(* A statement took effect; its reply may be lost.                         *)
Replies(p, next) == Goes(p, next) \/ Throws(p)

(***************************************************************************)
(* The command starts and is refused or goes on.  Another profile or an    *)
(* empty intent is refused at once, a boundary or a database that does not *)
(* hold after the store was set to running.                                *)
(***************************************************************************)
Start(p, w, k) ==
    /\ pc[p] = "idle"
    /\ win' = [win EXCEPT ![p] = w] /\ key' = [key EXCEPT ![p] = k]
    /\ pc' = [pc EXCEPT ![p] = "inspect"]
    /\ after' = [after EXCEPT ![p] = {q \in Preps : pc[q] = "done"}]
    /\ apart' = LET beside == {q \in Running : win[q] = w}
                IN  [q \in Preps |-> apart[q] /\ q \notin beside /\ (q = p => beside = {})]
    /\ UNCHANGED <<indexVars, faults, tableVars, storeVars, got, answer>>

Refuse(p) ==
    /\ pc[p] = "inspect"
    /\ Returns(p, "error", None, FALSE)
    /\ UNCHANGED <<indexVars, faults, tableVars, draft, offer, callVars>>

(* inspect, applyEnvironment, the boundary, the health check, the project. *)
Inspect(p) ==
    /\ pc[p] = "inspect"
    /\ runtime' = [runtime EXCEPT ![win[p]] = "running"]
    /\ pc' = [pc EXCEPT ![p] = "resolve"]
    /\ UNCHANGED <<indexVars, faults, tableVars, draft, offer, got, answer, callVars>>

(* While nobody retrieves, index jobs change what they like unseen: a      *)
(* retrieval that begins alone finds any index.                            *)
BeginsRetrieval(p) ==
    /\ IF \E q \in Preps : pc[q] \in Retrieving THEN UNCHANGED index ELSE index' \in Index
    /\ got' = [got EXCEPT ![p].shown = Shows(index')]

ResolveIdempotentResult_RestoresDraft(p) ==
    LET t == record[key[p]]
    IN  /\ pc[p] = "resolve"
        /\ \/ /\ t # None /\ Returns(p, "ok", t, FALSE)
              /\ draft' = [draft EXCEPT ![win[p]] = t]
              /\ UNCHANGED index
           \/ /\ t = None
              /\ pc' = [pc EXCEPT ![p] = IF key[p] \in Vague THEN "saveTask" ELSE "search"]
              /\ IF key[p] \in Vague
                 THEN got' = [got EXCEPT ![p].ctx = Fallback] /\ UNCHANGED index
                 ELSE BeginsRetrieval(p)
              /\ UNCHANGED <<runtime, answer, draft>>
        /\ UNCHANGED <<reindexed, faults, tableVars, offer, callVars>>

(* A stored answer is given again.  With no useful token there is nothing  *)
(* to search for: the task is built from the fallback.                     *)
ResolveIdempotentResult(p) ==
    LET t == record[key[p]]
    IN  /\ pc[p] = "resolve"
        /\ \/ t # None /\ Returns(p, "ok", t, FALSE) /\ UNCHANGED index
           \/ /\ t = None
              /\ IF key[p] \in Vague
                 THEN /\ pc' = [pc EXCEPT ![p] = "saveTask"]
                      /\ got' = [got EXCEPT ![p].ctx = Fallback]
                      /\ UNCHANGED index
                 ELSE /\ pc' = [pc EXCEPT ![p] = "search"]
                      /\ BeginsRetrieval(p)
              /\ UNCHANGED <<runtime, answer>>
        /\ UNCHANGED <<reindexed, faults, tableVars, draft, offer, callVars>>

(***************************************************************************)
(* retrieve: two concurrent queries, then a third over the files found.    *)
(***************************************************************************)
AfterSearch(p, now) ==
    \/ /\ now.asked # {"files", "chunks"}
       /\ got' = [got EXCEPT ![p] = now]
       /\ UNCHANGED pc
    \/ /\ now.asked = {"files", "chunks"} /\ (now.files # {} \/ now.chunks # {})
       /\ got' = [got EXCEPT ![p] = now]
       /\ pc' = [pc EXCEPT ![p] = "supplement"]
    \/ /\ now.asked = {"files", "chunks"} /\ now.files = {} /\ now.chunks = {}
       /\ got' = [got EXCEPT ![p] = [now EXCEPT !.ctx = Fallback]]
       /\ pc' = [pc EXCEPT ![p] = "saveTask"]

QueryFiles(p) ==
    /\ pc[p] = "search" /\ "files" \notin got[p].asked
    /\ AfterSearch(p, [got[p] EXCEPT !.asked = @ \union {"files"},
                                     !.files = SearchIndexedFiles(index)])
    /\ UNCHANGED <<indexVars, faults, tableVars, storeVars, answer, callVars>>

QueryChunks(p) ==
    /\ pc[p] = "search" /\ "chunks" \notin got[p].asked
    /\ AfterSearch(p, [got[p] EXCEPT !.asked = @ \union {"chunks"},
                                     !.chunks = SearchFileChunks(index)])
    /\ UNCHANGED <<indexVars, faults, tableVars, storeVars, answer, callVars>>

CandidateFiles(g) == g.files \union {c.path : c \in g.chunks}

(* The third query; ranking, budget and buildTask need no further await.   *)
Supplement(p) ==
    LET g == got[p]
    IN  /\ pc[p] = "supplement"
        /\ got' = [got EXCEPT ![p].ctx =
                     Retrieved(g.files, g.chunks,
                               GetFileChunksByFileIds(index, CandidateFiles(g)))]
        /\ pc' = [pc EXCEPT ![p] = "saveTask"]
        /\ UNCHANGED <<indexVars, faults, tableVars, storeVars, answer, callVars>>

(***************************************************************************)
(* The task is persisted.                                                  *)
(***************************************************************************)
(* saveTask is an upsert that sets lifecycle_state to "draft".  The rows   *)
(* and the answer carry the context; nothing later depends on what it is.  *)
SaveTask(p) ==
    /\ pc[p] = "saveTask"
    /\ task' = [task EXCEPT ![p] = [state |-> "draft", ref |-> FALSE]]
    /\ \/ /\ pc' = [pc EXCEPT ![p] = "saveContext"]
          /\ got' = [got EXCEPT ![p] = Nothing]
          /\ UNCHANGED <<faults, runtime, answer>>
       \/ Throws(p)
    /\ UNCHANGED <<indexVars, record, context, history, draft, offer, callVars>>

SaveTaskContext(p) ==
    /\ pc[p] = "saveContext"
    /\ context' = context \union {p}
    /\ Replies(p, "saveRef")
    /\ UNCHANGED <<indexVars, record, task, history, draft, offer, callVars>>

SaveTaskRef(p) ==
    /\ pc[p] = "saveRef"
    /\ task' = [task EXCEPT ![p] = [state |-> "draft", ref |-> TRUE]]
    /\ Replies(p, "transition")
    /\ UNCHANGED <<indexVars, record, context, history, draft, offer, callVars>>

(* transitionTaskState: the compare-and-set, then the history row.  No     *)
(* other statement moves a task out of draft, so the comparison holds.     *)
TransitionTaskState(p) ==
    /\ pc[p] = "transition" /\ task[p].state = "draft"
    /\ task' = [task EXCEPT ![p].state = "prepared"]
    /\ Replies(p, "history")
    /\ UNCHANGED <<indexVars, record, context, history, draft, offer, callVars>>

StoreDraft_OnlyIfEmpty(p) ==
    /\ draft' = [draft EXCEPT ![win[p]] = IF @ = None THEN p ELSE @]
    /\ offer' = [offer EXCEPT ![p] = "open"]
    /\ runtime' = [runtime EXCEPT ![win[p]] = "ready"]

(* store.update runs in the same turn as the reply of the history INSERT.  *)
StoreDraft(p) ==
    /\ draft' = [draft EXCEPT ![win[p]] = p] /\ offer' = [offer EXCEPT ![p] = "open"]
    /\ runtime' = [runtime EXCEPT ![win[p]] = "ready"]

WriteHistory(p) ==
    /\ pc[p] = "history"
    /\ history' = history \union {p}
    /\ \/ /\ pc' = [pc EXCEPT ![p] = "record"]
          /\ StoreDraft(p)
          /\ UNCHANGED <<faults, answer, got>>
       \/ Throws(p) /\ UNCHANGED <<draft, offer>>
    /\ UNCHANGED <<indexVars, record, task, context, callVars>>

SaveIdempotentResult_Early(p) ==
    /\ pc[p] = "transition" /\ record[key[p]] # p
    /\ record' = [record EXCEPT ![key[p]] = p]
    /\ UNCHANGED <<indexVars, faults, task, context, history, storeVars, pc, got, answer, callVars>>

SaveIdempotentResult_Lost(p) ==
    /\ pc[p] = "record"
    /\ Returns(p, "ok", p, TRUE)
    /\ UNCHANGED <<indexVars, faults, tableVars, draft, offer, callVars>>

(* Also an upsert: of two invocations with one key the later is replayed.  *)
SaveIdempotentResult(p) ==
    /\ pc[p] = "record"
    /\ record' = [record EXCEPT ![key[p]] = p]
    /\ \/ Returns(p, "ok", p, TRUE) /\ UNCHANGED faults
       \/ Throws(p)
    /\ UNCHANGED <<indexVars, task, context, history, draft, offer, callVars>>

(* An await that fails before its statement took effect.                   *)
StatementFails(p) ==
    /\ pc[p] \in Statements
    /\ Throws(p)
    /\ UNCHANGED <<indexVars, tableVars, draft, offer, callVars>>

(***************************************************************************)
(* What happens around an invocation.                                      *)
(***************************************************************************)
(* An index job changes the active text of a file (WorkspaceIndex) while   *)
(* somebody retrieves.                                                     *)
Reindex(f, text) ==
    /\ \E p \in Preps : pc[p] \in Retrieving
    /\ reindexed < MaxReindex /\ text \in Versions[f] \union {"gone"} /\ index[f] # text
    /\ reindexed' = reindexed + 1
    /\ index' = [index EXCEPT ![f] = text]
    /\ got' = [p \in Preps |->
                 IF pc[p] \in Retrieving /\ text # "gone"
                 THEN [got[p] EXCEPT !.shown = @ \union {<<f, text>>}]
                 ELSE got[p]]
    /\ UNCHANGED <<faults, tableVars, storeVars, pc, answer, callVars>>

(* localRunCodex begins a task it took from the store of its window, which *)
(* may hold another draft by then (RunPlane).                              *)
RunDraft(t) ==
    /\ offer[t] = "open" /\ task[t].state = "prepared"
    /\ task' = [task EXCEPT ![t].state = "run"]
    /\ UNCHANGED <<indexVars, faults, record, context, history, storeVars, pc, got, answer, callVars>>

(* The window is closed or its extension host dies, and it is opened again. *)
WindowDies(w) ==
    LET cut == {p \in Running : win[p] = w}
    IN  /\ Fault
        /\ draft' = [draft EXCEPT ![w] = None] /\ runtime' = [runtime EXCEPT ![w] = "idle"]
        /\ offer' = [p \in Preps |-> IF offer[p] = "open" /\ win[p] = w THEN "closed" ELSE offer[p]]
        /\ pc' = [p \in Preps |-> IF p \in cut THEN "dead" ELSE pc[p]]
        /\ got' = [p \in Preps |-> IF p \in cut THEN Nothing ELSE got[p]]
        /\ apart' = [p \in Preps |-> apart[p] /\ win[p] # w]
        /\ UNCHANGED <<indexVars, tableVars, win, key, answer, after>>

Prepare(p) ==
    \/ \E w \in Windows, k \in Keys : Start(p, w, k)
    \/ Refuse(p) \/ Inspect(p) \/ ResolveIdempotentResult(p)
    \/ QueryFiles(p) \/ QueryChunks(p) \/ Supplement(p)
    \/ SaveTask(p) \/ SaveTaskContext(p) \/ SaveTaskRef(p)
    \/ TransitionTaskState(p) \/ WriteHistory(p) \/ SaveIdempotentResult(p)
    \/ StatementFails(p)

Next ==
    \/ \E p \in Preps : Prepare(p) \/ RunDraft(p)
    \/ \E f \in Paths, text \in Texts \union {"gone"} : Reindex(f, text)
    \/ \E w \in Windows : WindowDies(w)

Spec == Init /\ [][Next]_vars

-----------------------------------------------------------------------------
(***************************************************************************)
(* Properties.                                                             *)
(***************************************************************************)
(* The type of every variable but index, which is one of Index at all      *)
(* times, the counters of the bounds, and got, which holds what the        *)
(* functions of Retrieval return.                                          *)
TypeOK ==
    /\ record \in [Keys -> Preps \union {None}]
    /\ task \in [Preps -> [state : {"none", "draft", "prepared", "run"}, ref : BOOLEAN]]
    /\ context \in SUBSET Preps /\ history \in SUBSET Preps
    /\ draft \in [Windows -> Preps \union {None}]
    /\ offer \in [Preps -> {"no", "open", "closed"}]
    /\ runtime \in [Windows -> {"idle", "ready", "running", "error"}]
    /\ pc \in [Preps -> Statements \union Over \union {"idle"}]
    /\ win \in [Preps -> Windows \union {None}] /\ key \in [Preps -> Keys \union {None}]
    /\ answer \in [Preps -> [status : {"none", "ok", "error"}, task : Preps \union {None},
                              fresh : BOOLEAN]]
    /\ after \in [Preps -> SUBSET Preps] /\ apart \in [Preps -> BOOLEAN]

Complete(t) ==
    /\ task[t].state \in {"prepared", "run"} /\ task[t].ref
    /\ t \in context /\ t \in history

(* A stored answer names a task of its key that was moved to prepared with *)
(* its context and its history row, whichever statements failed around it  *)
(* and whichever of two invocations with the key wrote it last; an answer  *)
(* ok, fresh or replayed, names such a task; and so does the draft that    *)
(* localRunCodex takes from the store of the window it was prepared in,    *)
(* also when its invocation failed afterwards.                             *)
NamedTasksAreComplete ==
    /\ \A k \in Keys : record[k] # None => Complete(record[k]) /\ key[record[k]] = k
    /\ \A p \in Preps :
         answer[p].status = "ok" => Complete(answer[p].task) /\ key[answer[p].task] = key[p]
    /\ \A w \in Windows : draft[w] # None => Complete(draft[w]) /\ win[draft[w]] = w

(* An invocation that starts after one with its key answered ok saves no   *)
(* second task: only invocations that overlap, or one that failed or died  *)
(* before it answered, leave two tasks for one key.                        *)
OkIsNotRepeated ==
    \A p \in Preps : \A q \in after[p] :
        answer[q].status = "ok" /\ key[q] = key[p] =>
            task[p].state = "none" /\ ~answer[p].fresh

(* After an answer that was not replayed the store holds the very task it  *)
(* names, until the window starts another preparation or closes; and a     *)
(* window whose invocations are over does not go on showing "running".     *)
(* Only a replay answers ok and leaves another draft, or none, behind.     *)
StoreTellsTheAnswer ==
    /\ \A p \in Preps :
         /\ answer[p].fresh /\ apart[p]
         /\ \A q \in Preps : win[q] = win[p] /\ q # p => pc[q] = "idle" \/ q \in after[p]
         => draft[win[p]] = p
    /\ \A w \in Windows : runtime[w] = "running" => \E p \in Running : win[p] = w

(***************************************************************************)
(* What localRunCodex takes for granted, and what it promises (RunDraft):  *)
(* RunPlane implements the same TaskSource.  For localRunCodex a task is   *)
(* there when it is put into a store, all of its rows at once; none is     *)
(* offered twice, whatever is saved or answered again, and none that was   *)
(* taken or lapsed comes back.                                             *)
(***************************************************************************)
Standing(p) ==
    IF offer[p] = "no" THEN "absent"
    ELSE IF task[p].state = "run" THEN "taken"
    ELSE IF offer[p] = "open" THEN "offered" ELSE "lapsed"

Source ==
    INSTANCE TaskSource WITH
        Tasks <- Preps, NoTask <- None,
        shelf <- draft, state <- [p \in Preps |-> Standing(p)]

ImplementsSource == Source!Spec

-----------------------------------------------------------------------------
Fetched(p) == pc[p] = "saveTask" /\ key[p] \notin Vague

(* The context holds what the index showed during the retrieval: no chunk  *)
(* of a file that was deleted all the while, no place of a file twice, and *)
(* chunks of two texts of one file only if it was reindexed meanwhile.     *)
ContextIsFromTheIndex == \A p \in Preps : Fetched(p) => IsFrom(got[p].ctx, got[p].shown)

(* The selection keeps every limit of the budget, says it is truncated if  *)
(* and only if something ranked was left out, and then gives a reason.     *)
BudgetIsKept == \A p \in Preps : Fetched(p) => KeepsBudget(got[p].ctx)

(* No file crowds out another: a candidate gets a second chunk only after  *)
(* the best one of every other had its turn, so one that got none had too  *)
(* large a best chunk even beside the best ones of the files before it.    *)
NoFileStarves == \A p \in Preps : Fetched(p) => StarvesNone(got[p].ctx)
=============================================================================
