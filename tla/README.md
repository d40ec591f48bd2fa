# Verification of the shared dev context layer

TLA+ specifications, TLC configurations and TLAPS proofs for the code in this
repository: the VS Code extension that indexes a workspace, prepares tasks and
runs Codex on them over a local Postgres (`vscode-extension/`), and the MCP
server that keeps the shared context (`backend/`).

| system part | specification | invariant and proofs | instance for TLC |
|---|---|---|---|
| execution of a task | `RunPlane`, abstract `TaskLedger` and `TaskSource` | `RunPlaneInv`, `RunPlaneProofs`, `RunPlaneLeases` | `MCRunPlane` |
| workspace index, outcome of a run | `WorkspaceIndex`, which extends `RunOutcome` | `WorkspaceIndexProofs` | `MCWorkspaceIndex` |
| codex processes | `CodexProcess`, abstract `CodexChild` | `CodexProcessProofs` | `MCCodexProcess` |
| MCP writes and deliberation | `WritePlane`, which extends `Ratification`; abstract `WriteLedger` | `WritePlaneInv`, `WritePlaneProofs` | `MCWritePlane` |
| task preparation, retrieval | `PrepareTask`, which extends `Retrieval`; abstract `TaskSource` | `RetrievalProofs`, `PrepareTaskProofs` | `MCPrepareTask` |
| context loading, focus | `ContextLoad`, which extends `Focus` | `ContextLoadProofs` | `MCContextLoad` |

How to run, in this directory:

    tlc -workers 2 -config RunPlane_task.cfg MCRunPlane.tla
    tlapm WritePlaneProofs.tla

`PROJECT.json` has the components, the runs, the lines each definition models,
the hazards and the findings. In every specification an operator named after
another with a suffix, as `BeginTask_NoCompare`, is that operator with a plausible
mistake: it is no part of the model and shows that a property notices the mistake.

## 1. The system

### 1.1 Components of the extension

| component | state it keeps | operations | hard behaviour | what makes it correct |
|---|---|---|---|---|
| **Local run plane** `local/localCommandService.ts` `localRunCodex` | a try/catch/finally over some twenty awaited statements; a lease heartbeat on an interval timer; an abort controller | run Codex on the prepared task | interleaving of invocations in one window and in several, leases that expire under a live owner, statements that fail or whose reply is lost, a window that dies | a task is executed once; a final state has its evidence; a replay tells the truth; a lease is not stolen; everything settles |
| **Run plane tables** `local/persistence/postgresPersistenceAdapter.ts`, `migrations/local_private` | `project_run_locks`, `idempotency_records`, `tasks`, `task_state_transitions`, `executions`, `files`, `file_chunks`, `index_runs` | acquire / renew / release, claim / reclaim / settle, transition, upsert, replace chunks | each statement is atomic, sequences of them are not | conditional updates decide every race |
| **Task preparation** `localPrepareTask`, `local/taskBuilder` | task, context and trace rows; the window's draft; an idempotency record | build a task from an intent | two preparations with one key; failure between the writes; a replay that does not restore the draft | a result of ok means a prepared task |
| **Workspace indexer** `local/indexing` | `files` and `file_chunks` rows | full index, index by paths, soft delete | the workspace changes while it is read; two index runs at once; one of several writes fails; a read error looks like a deletion | what the index calls fresh is what was on disk |
| **Codex process runner** `local/codexCliRunner.ts` | a child process, two timers, the listeners | spawn, abort, time out, kill | abort against timeout against exit; an error event of a live process; pipes held open by a descendant | settles once, the reason is the true one, and it settles |
| **Post-run reconciliation** `postRunReconciler.ts`, `workspaceSnapshotter.ts`, `workspaceDiffAnalyzer.ts`, `executionOutcomeClassifier.ts`, `postRunReviewer.ts` | two snapshots | capture, diff, reindex, classify, review | scan errors look like deletions; the reindex falls back | outcome, severity and review agree with the facts |
| **Retrieval** `local/retrieval` | none | three queries, rank, select under a budget | the index changes between the queries; four limits at once | the context is from the index, within the budget, and says what it leaves out |
| **Runtime store** `local/localRuntimeStore.ts` | one in-memory snapshot per window | replace fields | last writer wins | shows the last result |
| **Context loading** `application/*` | the last loaded context, the last handoff | load, compose, build a handoff | two loads overlap; tools that fail one by one | the stored context is the one shown, and a handoff says what it lacks |
| **Gateways** `infrastructure/wis` | a connection, a tool list | connect, call a tool, fall back to a fixture | a failure while another call is under way | errors are reported as such |
| **Session, authentication** `sessionManager.ts`, `auth/` | a session key and its creation time, a token | create, reuse, reset | overlapping commands; a window that dies between two writes | there is always a whole session, and a reset stays |
| **Environment, doctor, playbooks, guard** | none | read-only inspection | none | |
| **Activation, presentation, configuration** | registrations | start commands, render | invocations are not serialised (`activation/registrars/localRuntimeRegistrar.ts` 33-48) | |

### 1.2 Components of the backend

| component | state | operations | hard behaviour | what makes it correct |
|---|---|---|---|---|
| **MCP write plane** `mcp/server.py`, `audit/` | domain rows, `context_write_audit` | audited, idempotent tool calls | the domain commit and the audit commit are two transactions; retries; dry runs | a request id replays its own answer, and writes again only after a call was cut |
| **Context items** `services/context_item_service.py` | items with a version, relations, sync batches | upsert, publish, supersede, link, apply a batch | version check and update are separate | a late write does not revive what was archived |
| **Proposals** `services/proposal_service.py` and its neighbours | proposals, decisions, staleness marks | propose, review, ratify, reject, gate | two reviewers at once; a ratified proposal is never consumed | a governed write has a ratification behind it |
| **Focus, snapshots** `services/focus_resolver.py` | tasks, sessions and scopes that seeds and ratifications write | resolve a scope | four sources that must agree | one focus, however it is asked for |
| **Transport observability** `mcp/observability.py` | log records | | none | |
| **Authentication, policy** `auth/`, `policies/` | key cache | decide per call | none | |
| **Seed** `db/seed_v5.py` | canonical decisions and scope | rewrites them at every start of the stack | it runs over rows that ratifications wrote | what a ratification wrote survives |
| **REST API, schema** | | thin handlers, migrations | none | |

### 1.3 Interactions

`localIndex` -> indexer -> adapter; `localPrepareTask` -> retrieval -> task builder
-> adapter -> store; `localRunCodex` -> adapter (lock, claim, transitions) ->
reconciler -> (snapshot, codex runner, snapshot, diff, reindex, classifier) ->
adapter (transaction with the evidence) -> adapter (close, settle, release).
Windows interact through the database only. The context commands of the
extension call the MCP server, each with an idempotency key of its own.

## 2. RunPlane: the execution of a task

`RunPlane.tla` is `localRunCodex` with the statements of the adapter it awaits.
An element of `Runs` is one invocation of the command (its `lock_id` and
`claim_id` are fresh UUIDs of that invocation, so the invocation is the owner).
`WindowOf` puts invocations in extension hosts; each window has one draft.

| TLA+ | code |
|---|---|
| `lock` | `project_run_locks`: owner `lock_id` and `expires_at` |
| `claim` | `idempotency_records`, keyed by `runIdempotencyKey` (project, task, branch) |
| `task`, `history` | `tasks.lifecycle_state`, `task_state_transitions` |
| `execution` | `executions`, with the other evidence of the same transaction |
| `draft` | `store.task_draft` of a window |
| `pc[r]` | the await the invocation is at; `Handler` is the catch and finally structure |
| `hb[r]`, `lost[r]`, `aborted[r]` | `startLeaseHeartbeat`: timer, renewal in flight, outstanding statements, lost flags, the abort controller |
| `child[r]` | a live `codex exec` process |
| `winner` | auxiliary: who moved the task to `running` |

One action is one database statement with both of its ends: its effect and then
either the reply or a lost one (`Answers`), or its failure before any effect
(`StatementFails`). The clock counts heartbeat intervals (60 s), and the lease is
`TTL` of them (180 s = 3).

Abstractions. The early returns in front of the lock (profile, inspection,
boundary, health, project row) are one: "no_draft". `PrepareTask` is only what a
run sees of a preparation: a task row in `prepared` and the draft. `nowIso()` is
computed by the client when it issues the statement; the model reads the clock
when the statement takes effect, and assumes the clocks of the windows agree. The
outcome is any the classifier can return, and `execution.ok` is a function of it
(`OkOutcomes`).

`TaskLedger.tla` is what the plane promises of each task with locks, claims,
clocks and failures left out: a task is given to one run for ever, that run
records at most one outcome, and the task is closed once, with the verdict of the
recorded outcome or as failed. `Ledger` in `RunPlane` is the refinement mapping.

`TaskSource.tla` is what the plane takes for granted of the preparation, and what it does to
a prepared task in return. It has two variables, the draft each store shows (`shelf`) and the
standing of a task: absent, offered, taken, or lapsed. A preparation offers a task of its own
once; a run takes it once; what nobody holds any more has lapsed for good. `PrepareTask`
(section 6) and `RunPlane` both implement it (`ImplementsSource`), and each lets the other do
whatever it allows (`PrepareTask` here offers any absent task, `RunDraft` there begins any task
on offer): that is why the five writes of a preparation may be one step here. In `RunPlane` a task is offered while
it is `prepared` and a store shows it or an invocation that took it from there is under way.

### Runs

| run | bounds | shows |
|---|---|---|
| `run_task` | two invocations of one window, one task, TTL 1, one tick, one fault; a codex that applies changes or is cancelled; fair; 236 thousand states | `OneRunPerTask`, `OkIsReplayable`, `ClosedWithEvidence`, `ReplayIsHonest`, `ImplementsLedger`, `EveryRunReturns`, while the lease expires at any moment and a second invocation takes lock and claim over from a live owner |
| `run_windows` | two windows, two projects, TTL 2, three ticks that are on time (`Timely`), one window dies at any step; a codex that fails; 942 thousand states | `ExclusiveWriter`: with a heartbeat on time, one owner at a time is between start and settlement; `StartedRunSettles`, also on a project the task is not of; `LeaseNotStolen`; `ImplementsSource`: no failure, retry or replay makes a run begin a task twice or after its store and its invocation are gone |
| `run_stuck` | one invocation, one fault | violated: `InterruptedTaskFails` (finding 1) |

Two invocations are enough for every contention in the code: each conditional
update decides between the caller and one other owner, and ownership is by
identity, so a third contender meets the same two cases. One task per window is
what a window holds. A lease of 1 or 2 intervals expires in every position
relative to the statements of its owner, and `MaxTime` lets it expire and be
taken over. One fault per behaviour places it at each statement; the proofs have
no such bound. `CHECK_DEADLOCK FALSE` everywhere: invocations end, nobody has to
invoke another, and the clock stops at its bound.

The two windows of `run_windows` are interchangeable (symmetry `Mirrored`), and
`WindowsView` hides what neither a statement nor a property of that run reads: the
evidence, the locals of an invocation that crashed and by how much a lease has
expired. How the codex ends matters there only as an end that leaves the task to be
settled, so one failing outcome is enough; `run_task` has the other kind.

Fairness (`FairSpec`). Weak fairness of `Progress(r)`, the next step of an
invocation under way: the event loop resumes an await that has ended, Postgres
answers or the pool fails. Weak fairness of `Renew(r)` for the same reason. Nothing obliges
anyone to invoke a command, nor the clock to advance, nor a codex process to close
(`AwaitsClose` is no part of `Progress`): the runner kills it at its timeout, but waits for
`close` (`codexCliRunner.ts:217`), which a process that codex left behind with its pipes
withholds as long as it lives (section 4). So `EveryRunReturns` says that an invocation returns or waits
for such a process for ever; while it waits its heartbeat goes on, and it keeps the lock of
the project.

### Proofs

`RunPlaneProofs.tla` and `RunPlaneLeases.tla` prove, for every set of
invocations, windows, tasks, projects and branches, every lease and any number of
faults and crashes (`ConstantsOK`, and the assumptions named here):

- `TypeCorrect`, `ExclusiveExecution` (`OneRunPerTask`), `Evidence`
  (`ClosedWithEvidence`), `HonestReplay` (`ReplayIsHonest`), `DurableAnswer`
  (`OkIsReplayable`), all from `Inductive` (`IInv`);
- `RefinesLedger` and `RefinesSource`: the plane implements `TaskLedger` and `TaskSource`;
- `LocksAreKept` (`LeaseNotStolen`), whatever fails;
- `OneWriter` (`ExclusiveWriter`), for heartbeats on time (`Timely`) and `TTL > 1`;
- `StartedRuns` (`StartedRunSettles`), for `MaxFaults = 0`: windows may die, leases may
  expire, statements do not fail. With a failing statement it is false (finding 1).

The argument. None of the four properties is inductive: whether another
invocation may close a task cannot be told from the task's row. What carries them
is that `BeginTask` is a compare-and-set from `prepared`, and no statement ever
leads back to `prepared`: it gives the task to one invocation (`WinnerInv`,
`OwnerInv`). After it only the winner moves the task, so its control point tells
the task's state (`PhaseInv`) and whether its execution row exists
(`EvidenceInv`). Locks and leases play no part: safety of the ledger does not rest
on the clock, which is why an expired lease costs a wasted process and
not a second execution. `OkIsReplayable` uses that a claim changes owner only while
in progress, and a settled one never again.

In the proof each action is one lemma. Actions that leave task, winner and
execution alone are handled together (`StepAside`, `SilentStep`, `StepOn`), those
that move the task by `StepMovesTask`.

`LeaseNotStolen` needs no invariant but the types: three statements write the lock,
and each says whose it is. `ExclusiveWriter` needs the clock. `LeaseInv` says of an invocation between its
first renewal and its end that has not lost its lease: it owns the lock, the lease is in the
future, the last tick was at most one interval ago, and once that tick's
renewal is through the lease lasts `TTL` intervals from it. With `TTL > 1` the next tick, which is on
time, renews before it ends, so two writers of a project would both own its lock. `SettledInv` walks
through the catch block: a claim is given up before the task is looked at,
`catchrunning` and `catchrecon` are reached with the task in the state they start from, and nobody
else can move it (`Won`), so the compare-and-set of the catch block succeeds.

For `RefinesSource` a task that is `prepared` stands or falls with who holds it. No statement but
`Invoke` makes an invocation hold a task, and that takes it from a store (`QuietSource`), so a held
task is never found again once it was let go; and only `BeginTask` leaves `prepared`.

Model-checked only: `EveryRunReturns` (liveness is outside the prover's reach).

### Finding and observations

Finding 1. `localCommandService.ts:635` sets `stateTransitionStarted` after
`transitionTaskState` returned, but that function commits its UPDATE and its
history INSERT as two statements. If the INSERT fails or its reply is lost, the
task is already `running` and the catch block skips its defensive transition:
the task stays `running` for ever.

What the model shows besides. A lost lease is
noticed by the owner's next tick only: a tick delayed past the lease
(`Timely = FALSE`) lets a second window start a codex process on the same project
while the first still has one, which the lock was to rule out
(`docs/context/ADR-IDEMPOTENCY-AND-LOCKING.md` 42); `run_windows` shows that a heartbeat on
time does rule it out. The return for a task that
is not `prepared` (`localCommandService.ts:612`) comes with the claim taken and leaves it
`in_progress`: a retry is refused until the lease expires, and then takes over
instead of replaying.


## 3. WorkspaceIndex: the index and the workspace

`WorkspaceIndex.tla` is `IncrementalWorkspaceIndexer` in the two ways it is run:
`localIndex`, a full index with a row in `index_runs`, and the reconciler after a
codex run, which takes a snapshot before and after, compares them and indexes the
paths that differ, or everything if there are more than `maxScopedReindexPaths` or
the scoped index throws. Nothing in the code keeps two of these from overlapping.

| TLA+ | code |
|---|---|
| `disk` | the workspace: per path a text, nothing, or a file that is too large or binary |
| `file` | `files`: `is_deleted` and `content_hash` |
| `chunk` | `file_chunks`: the text the rows of a path were cut from |
| `row` | `index_runs.status` |
| `pc`, `kind`, `mode` | the await of a job, who started it, and how it indexes |
| `todo`, `cur` | what the current loop has left, and the path it writes |
| `seen`, `before`, `diff` | what the last scan or load read, the snapshot before codex, what it and the one after differ in |
| `known` | `existingByPath`, read once after the scan |
| `clash` | rows of the path were inserted by another transaction after this one's DELETE: `UNIQUE(file_id, chunk_index)` refuses the INSERT |
| `marked` | the paths of `deletedFileIds` |
| `errs`, `result` | `metrics.errors` is not zero, how the job ended |
| `calm` | auxiliary: the job was alone, the workspace kept still, the index was exact when it began, the files it found torn |

Hash and chunks are functions of the content, so a content, its hash and its
chunks are one value. `RunOutcome` is the classifier, the precedence of a lost lease
and the decision of the reviewer as functions; their reasons and texts are left out.
The loops take paths in any order where the code sorts them.
`replaceFileChunks` is one transaction with two steps, since what another one
commits between its DELETE and its INSERT decides whether it fails. A statement of
`persistCandidate` that throws is counted and the loop goes on (`Counted`); any
other throws out of the job (`Raises`). The workspace changes at any moment
(`Edit`), a file may be unreadable at any moment (`Miss`), and a window may die.

| run | bounds | shows |
|---|---|---|
| `index_serial` | two jobs one after the other, two paths, two texts, three edits, one unreadable file; 1.9 million states | `CleanRunIsExact`: a full index without errors leaves the index exact, whatever an earlier job read of a changing workspace; `PostRunKeepsIndex`: reindexing the diff keeps an exact index exact; `AcceptedRunIsIndexed`: a run the review accepts changed something, deleted nothing, and retrieval finds every changed text as it is on disk |
| `index_overlap` | three jobs that overlap, one path, two texts, one edit, one fault; 1.0 million states | `CleanRunRepairsFiles`: after any overlap and failure a clean full index that runs alone makes all file rows exact; `CleanRunTearsNothing`: an index that ran alone and counted no error leaves no file torn from its chunks that it had not found so |

A second path shows what a job does to a path it was not about, and makes the diff
larger than `MaxScoped`; a second text makes a modification different from a creation.
Three edits fit before, between and after two readings. Three jobs are two that overlap
and one that repairs. Jobs, paths and texts are interchangeable (`Symmetry`). `SerialView`
leaves out the locals of jobs that are over once something else happened;
`OverlapView` besides what its two properties do not ask of jobs that are over or no
longer alone. There is no
fairness: the properties are about what is there when a job ends.

What the model shows the code does not promise. The chunks of jobs that overlap
may stay those of another text for good. What one failing statement tears stays torn as well: `persistCandidate`
commits the new hash before it replaces the chunks (`incrementalWorkspaceIndexer.ts:300`), so
when the replacement fails, or the window dies in between, every later index finds the hash
unchanged (`:283`) and never writes the chunks; retrieval goes on with the old text. The code
promises no repair; what it does promise is that the run which tore the file does not count as
clean, and that is `CleanRunTearsNothing`. A scoped index that fails after such an error falls back to a full one
whose metrics begin at zero (`postRunReconciler.ts:256`); the property leaves it out. The chunks of a deleted
file whose second DELETE failed are never removed, because a later index only
looks at files that are not deleted (`incrementalWorkspaceIndexer.ts` 116, 329);
retrieval joins with `is_deleted` and does not see them. A full index deletes a file it
could not read, and counts an error: `CleanRunIsExact` speaks of runs without. The
reconciler reads only whether an index threw (`postRunReconciler.ts` 229-240), so a codex run whose
changed files were counted as errors is still `applied_changes`, and may be accepted:
`AcceptedRunIsIndexed` speaks of runs without errors too. If `createIndexRun` loses its
reply, or the statements of the catch block fail as well, the row of the run stays
`started` (`localCommandService.ts:213`).

### Proofs

`WorkspaceIndexProofs.tla` proves, from `ConstantsOK`, for any jobs, paths, texts, limits, edits and
unreadable files:

- `TypeCorrect`, `FilesAreRepaired` (`CleanRunRepairsFiles`) and `NothingTorn`
  (`CleanRunTearsNothing`), with any overlaps and faults;
- `TextIsSeen` (`RetrievalSeesText`: the chunks of an active file are those of its hash, or
  about to be replaced), `CleanRuns` (`CleanRunIsExact`), `PostRuns`
  (`PostRunKeepsIndex`) and `AcceptedRuns` (`AcceptedRunIsIndexed`), for jobs one after the other
  and without faults (`Serial`, `MaxFaults = 0`), which they need: a single fault tears
  a row from its chunks for good.

The argument. `IndexInv` follows one job that is alone over a still workspace. While it reads, what it
has read is what is on disk, or could not be read (`ReadInv`). While it loops, the row of a path it has
still to write is the one it knew (`LoopInv`): it is alone and writes each path once. So a path
it has written, or found equal, is exact, and at the end of a full index that is every path
(`FullInv`). After a codex run the index still holds what the first snapshot read
(`SnapInv`), whatever codex changed; what the two snapshots agree on is then exact without being
touched, unless one of them could not read it (`BlindAt`), and what they differ in is written
(`ScopedInv`). Each of these is guarded by `Still`, which an edit or a second job
makes false, so steps of others disturb nothing. That chunks follow the hash
(`RetrievalSeesText`) is part of the invariant only without overlap and fault, and the
proof uses it where the indexer skips a path whose hash has not changed. `TornInv` is for
`NothingTorn`: while a job is alone and has counted no error, the only file it may have torn is
the one it is about to write, between its row and its chunks (`TornStep`).

## 4. CodexProcess: the processes of a run

`CodexProcess.tla` is `CodexCliRunner.execute` as `localRunCodex` calls it: once for
the health check and, if that was ok and nobody aborted, once for the run.

| TLA+ | code |
|---|---|
| `stage` | which of the two executions, or that both are over |
| `aborted` | the `AbortSignal` that the heartbeat or the user aborts |
| `proc`, `exit`, `stubborn`, `heirs` | the process: whether it lives, how it ended, whether it ignores SIGTERM, whether one it started holds its pipes |
| `sent` | signals sent by `requestStop` and the escalation |
| `timer`, `forceKill`, `listening` | the timeout, the escalation timer, the abort listener |
| `cancelled`, `timedOut` | the flags of the closure |
| `verdict` | the result the promise was settled with |
| `outputFile` | the file for the last message |

`SettledIsQuiet`: no timer or listener outlives the execution, so nothing signals
a process id that is no longer the runner's. `SettledMeansGone`: when the
promise settles, the process and all who hold its pipes are gone.
`SignalsAreAsked`: SIGKILL follows SIGTERM, signals have a cause, and an
execution that reports ok got none. `ImplementsChild`: the two executions
implement `CodexChild`, a child that the health check refuses or starts and
that closes as cancelled exactly if the abort came first. This is what `RunPlane`
assumes of codex (`SnapshotThrows` and `child` there); a spawn that throws at once is
`RunPlane`'s failing step at "health".

The run `codex` takes every combination (`Heirs`, `Stubborn` TRUE; 562 states; no
counter needs a bound) and checks besides `ExecutionReturns`: both executions are over
some time, unless a process codex left behind holds the pipes for ever, since `close` waits
for them. Fairness: timers fire and events are delivered because
the event loop runs; the kernel delivers a signal that cannot be ignored. A
process need not end by itself, nor one that holds its pipes.

`CodexProcessProofs.tla` proves `QuietWhenSettled`, `GoneWhenSettled`, `AskedSignals` and
`RefinesChild` from `ConstantsOK`. The invariant adds what an abort finds
(`AbortHeard`: an execution that listens has heard every abort so far, which is
why a verdict other than cancelled implies that none came before it) and what
each state of the process implies (`ExecutionKnown`). Not modelled: a kill that
fails with EPERM, and the texts of prompt and output.

## 5. Ratification and WritePlane: writes of the MCP server

`Ratification.tla` is `propose_change`, `ratify_proposal` and `reject_proposal` with the
seed; `WritePlane.tla` extends it with the six audited write tools, whose gate
looks for ratified proposals.

| TLA+ | code |
|---|---|
| `active` | the workers that serve, chosen in `Init` |
| `proposals` | `proposals`: status, arguments, `ratified_by`, `decision_id` |
| `decisions` | `approved_decisions` by `decision_key`: whose text it has, `proposal_id` |
| `trail` | `events` of a proposal, counted by type |
| `canonical` | the seeded row of `context_scopes` has `is_current` |
| `items`, `links`, `batches` | `context_items` (version, status), `context_item_links`, keys of `context_sync_batches` |
| `audit` | `context_write_audit`: tool and request id to the recorded result |
| `at` | where the call of a worker is: its next read or commit |
| `draft`, `about`, `found`, `sawRow` | locals of the deliberation tools: arguments, the proposal as it was read, whether a decision row was found |
| `request`, `seen`, `other`, `result` | locals of the write tools: arguments, the rows the service read, what it returned |
| `writes`, `cut`, `told` | auxiliary: domain commits per tool and key, those whose call ended unaudited, answers given |
| `calls`, `seeds`, `faults` | counters for the bounds |

A write call looks its request id up (`Replay`), passes the gate (`Gate`), reads
(`Load`), commits its domain write (`CommitWrite`, one disjunct per tool), commits its
audit row (`RecordWriteAudit`) and the publish row (`RecordPublishAudit`), and answers:
three transactions. `Fault` ends a call at any step, as a failing statement, a lost reply
or a dying process does, and `Clash` is a unique constraint. A deliberation tool has one transaction at its end; a
reply lost there leaves what the commit leaves. Reads are under READ COMMITTED and
therefore steps of their own.

Workers. The shipped deployment is one MCP process that executes calls one after
the other (`docker-compose.yml` 60-75). A second process on the same database is
possible and no code forbids it. Every behaviour of one worker is a behaviour of
the model, and a property that needs it says `Serial`. So one run checks both.

Abstractions. Titles, contents, labels and link metadata are left out. The rows of
`publish_audit` are left out, as nothing reads them, but their commit is a step. A dry run without a key gets
a fresh request id, whose row nobody looks up. Scope resolution and token scopes come
before every step and leave nothing. The snapshots that `propose_change` may refer to
are not modelled. The reads of `link_context_entities` are one step. The unique clash of two
overlapping `set_context_labels` calls on one item is left to `Fault`, which ends a call in the same way.

| run | bounds | shows |
|---|---|---|
| `write_plane` | one worker and four calls, or two and three; two items, one key, two proposals, one seed run, one fault; 966 thousand states | the properties below |
| `write_unconsumed` | one worker, two keys, a policy for events | violated: `RatificationIsConsumed` (finding 2) |
| `write_double` | one worker, two calls, one fault | violated: `WrittenOnce`, no key commits twice (finding 3) |

- `AnswersAreTrue`: an answer that says something was written, replays included, is
  given only for a key under which something was; with one worker, an answer that says
  nothing was written is not given over a write of that key, except a cut one.
- `WrittenOnceUnlessCut`: one worker repeats the write of a key only after a call of
  it was cut between its domain and its audit commit. That it may then is finding 3.
- `BatchRecordedOnce`: a batch is recorded once per key with any number of workers.
- `DecisionWasRatified`: a decision that names a proposal was made by its
  ratification; with one worker that proposal is ratified still.
- `TrailTellsTheVerdict`: with one worker a verdict is final and in the trail once.
- `GovernedWritesAreRatified`: a write the policy governs commits only for a target
  some proposal was ratified for.
- `ArchiveIsKept`: with any number of workers, an archived item becomes active again only
  by an upsert that has read it archived; a change of labels or an upsert that read it before
  may overwrite its version, not its status, because the session writes the columns that
  differ from what it read.
- `CanonChangeMakesStale`: a ratification that changes a decision leaves no current
  scope behind.
- `ImplementsLedger`: the tools implement `WriteLedger`, which has no gates, audit
  transactions, clashes, cuts or retries: a key of a tool gets one answer for ever, every client
  hears that one, it claims a write only if there was one, and a batch is written once per
  key; with one worker nothing is written under a key that has its answer. `Ledger` in
  `WritePlane` is the refinement mapping: commits are `writes`, the answer is the row
  of `audit`.

Bounds. Four calls are enough to propose, ratify, write and retry; with two
workers three calls overlap in every position, and the properties that need four
calls are about one. One key makes every call a possible retry of every other, also
across tools, which is where a replay can go wrong. `k2` is used where two keys are the
point. Workers and proposals are interchangeable; `View` leaves out the locals of a
worker without a call. The proofs have no bound. There is no fairness, as no
handler waits for anything; `CHECK_DEADLOCK FALSE` because calls are bounded.

What the model shows the code does not promise, without contradicting a document:
a dry run with an explicit key consumes the key, and the real call is then answered
`dry_run`; a conflict is recorded and replayed in the same way; `propose_change` sent again
with its key adds another `proposal.raised` event; `apply_sync_batch` records its
operations and executes none; a proposal for the row id of an item does not open
the gate for an upsert by its key, nor the reverse; with several workers the last
of two verdicts wins, and an update of an item (its content, labels and version) may be lost.

The seed runs at every start of the stack and writes its text over a
decision that was ratified, whose `proposal_id` stays (`seed_v5.py:133`): the row then names
a proposal that did not say what it says.

Finding 2. Nothing marks a proposal as consumed, so one ratification opens the gate
for any number of writes (`server.py:2118`), where the ADR (131) says the commit consumes it.

Finding 3. The service of a write tool commits before `record_write_audit` does, and only the
latter's row makes a key known (`server.py:466`, `:1164`). A call that ends in between is not replayed, and its retry
commits again: `append_context_event` adds a second event. The ADR
(`ADR-deliberative-context-ratification.md` 203) says "`idempotency_key` repetido → replay, sin doble commit".
`WrittenOnceUnlessCut` shows that there is no other way to a second commit in one process.

### Proofs

`WritePlaneProofs.tla` proves `IInv`, the invariants and action properties above and the
refinement (`RefinesLedger`) for any number of workers, any policy, proposals, requests and bounds, from `DeliberationOK` and `WritesOK`, which say
that the constants have their shapes and that a call that is not a dry run has a
key (`_ensure_idempotency_key`).

The argument. What is told is true because the audit row of a key is written once
and never changed: all that is told is recorded, and what is recorded as written was
(`AuditInv`, and `ResultInv` for a call on its way there). A batch stands for its only commit
(`BatchInv`), because the unique key refuses a second. A proposal's arguments never
change once it has a row, and a ratification once written stays (`RowInv`, `RatifiedInv`), so
the proposal that opened a gate is still there at the commit (`GateInv`), and a decision still
goes back to the proposal it names. For one worker nothing moves between a read
and the commit that rests on it: the status under review is the one that was read
(`SerialReviewInv`), no audit row stands for the key
(`SerialCallInv`), and each commit of a key is recorded, cut, or about to be one of these
(`SerialWriteInv`). `ArchiveIsKept` needs no such premise: what a call holds of an item it is about to
write is a row that was there (`ItemInv`), and a write changes the status only against the one it has read.

In the proof the deliberation steps that only read or arrive are handled together
(`ArrivingStep`, `ReadingStep`, `CommittingStep`), each commit has a lemma, and a write step is
split into what it does to its own call and a frame for the other workers
(`WriteFrame`). The action properties follow from the invariant and one step
(`GovernedStep`, `ItemStep`, `StaleStep`). For the refinement a commit maps to `Commit`
(`CommitMaps`; a batch by `BatchInv`), the audit row to `Record` (`RecordMaps`), a replay and the end of a call to `Tell`
(`TellMaps`), and everything else to a stutter (`Unseen`).

## 6. Retrieval and PrepareTask: the preparation of a task

`Retrieval.tla` has the pure part of `HybridContextRetriever`: what its three queries
return of an index, the deduplication, the ranking of files and chunks, and the
selection under four limits (files, chunks, chunks per file, characters).
`PrepareTask.tla` is `localPrepareTask`, one action per awaited statement, and says
when each query reads the index.

| TLA+ | code |
|---|---|
| `index` | `files` joined with `file_chunks`: the text an active path's chunks were cut from |
| `record` | `idempotency_records`: the task the stored answer of a key names |
| `task`, `context`, `history` | `tasks.lifecycle_state` and `retrieval_context_ref`, `task_context`, `task_state_transitions` |
| `draft`, `runtime` | `task_draft` and `runtime_state` of a window's store |
| `offer` | auxiliary: the task was put into a store, and whether that window is still open |
| `pc`, `win`, `key` | the await an invocation is at, its window, its idempotency key |
| `got` | what it has retrieved: the matches, and the context made of them |
| `answer` | the result returned, and whether it was made afresh or replayed |
| `after`, `apart`, `got.shown` | auxiliary: the invocations over when it started, whether its window ran nothing beside it, what the index showed during its retrieval |

The task of an invocation is named after it, since its id is a fresh UUID. Two of the
queries run at once and answer in any order; another process may change the
text of a file between any two of the three (`Reindex`). `Start` until `Inspect` is
the part without a database; the boundary, the health check and the project row are
read there, and refuse (`Refuse`). Each statement may fail, or take effect and lose its
reply; a window may close and open again. `RunDraft` is what `RunPlane` does to a
prepared task, as seen from here: an invocation took it from the store while its window was open,
and begins it, when the store may show another one.

Abstractions. A text is the sequence of its chunks, a chunk has a size and a number
of matches, and a path has a weight; what the scorer makes of them keeps its
arithmetic (the penalty for chunks of the same file, the bonus for several). The
limits of 24 files and 48 chunks of the queries lie beyond the instance, and the scorer's
negative hints for paths are left out. The
words of the draft and of the evidence are left out; whether an intent has a useful
token at all decides between retrieval and the fallback (`Vague`).

| run | bounds | shows |
|---|---|---|
| `prepare` | two invocations, two windows, two keys of which one is vague, three files with every combination of texts, one change of the index while somebody retrieves, one fault | the properties below |

- `NamedTasksAreComplete`: an answer ok, a stored answer and the draft of a store name
  a task that was prepared with context and history, whatever failed around it.
- `OkIsNotRepeated`: an invocation that starts after its key was answered ok saves no
  second task.
- `StoreTellsTheAnswer`: after a fresh answer the store holds its task until something
  else happens in the window, and no window shows `running` for ever.
- `ImplementsSource`: `localRunCodex` sees a task only when all its rows are there, and once: no
  failure, retry or replay offers it again after it was taken or its window is gone. A replay that put its old
  draft back into the store would.
- `ContextIsFromTheIndex`, `BudgetIsKept`, `NoFileStarves`: what is selected was in the
  index during the retrieval, keeps the four limits, is called truncated if and only
  if something was left out, and no candidate file is crowded out by second chunks.

Two invocations meet each other in every order, with one key or two, in one window or
two. Three files are one more than the budget takes; a text of three chunks, one of a
single large chunk and one of none reach each limit. While nobody retrieves the index
is hidden (`View`), and a retrieval that begins alone finds any index. There is no
fairness; nothing here waits for another.

### Proofs

`PrepareTaskProofs.tla` proves all seven (`RefinesSource` for `ImplementsSource`), with the types, for
every number of invocations, windows, keys and faults, any index, any limits and any
texts (`PrepareConstantsOK`, `RetrievalConstantsOK`: finitely many paths, limits that are not 0).

The argument for the tables: `Stage` says what they hold of a task at each await of the invocation
that makes it, and no other invocation writes that task; so a task is complete before
anything names it. `Later` carries the replay: an invocation for which an ok was
already given finds the stored answer and never reaches a statement that saves. `OInv` adds that
a task on offer is complete with nothing but the stored answer left to write, and that what a store shows is
on offer; so only the reply of the history row offers a task.

The argument for the context (`RInv`): while an invocation retrieves, everything the index shows is in
its history `shown`, and so is what it has fetched, one chunk for each place of a file
(`Gathers`); a change of the index is added to the history of whoever retrieves. Everything else is
about functions, in `RetrievalProofs.tla`, whose theorem `RetrievedKeeps` says what a
context is for any answers of the queries:

- Ranking (`RankedFacts`). `Sorted` is a CHOOSE, so the first thing to show is that a sorted
  sequence exists (`SortedExists`); no two elements compare equal because no two chunks of a file have one
  place and no two files one path. So each file's ranked chunks are, once each, chunks that were found.
- The loop of the budget. `Sound` is its invariant: what a file has taken is what of the selection
  is from it, in the order of its queue up to its cursor; the characters are the sum of the sizes; a chunk
  behind a cursor was taken or did not fit and then the context is truncated with a reason.
  `Grows` says what one visit may change. `VisitSound` and `VisitGrows` are cut by what a
  visit does: `Take`, `Skip` or stay.
- The end of the loop. Each round but the last takes a chunk, so after `MaxChunks + 1` rounds the
  selection is full or the last round made no progress (`LastRoundFacts`); a round without progress has taken
  all chunks of a file or has met a limit there, which gave a reason (`Settled`). From this and `Sound` follows
  that a context is truncated exactly if something ranked is missing in it, and then says why
  (`MadeKeepsBudget`).
- No file starves (`MadeStarvesNone`). A file with two chunks got the second after the first round was over, so the
  first round visited every file once (`VisitsOnce`), with room left. A file that has
  nothing then skipped its best chunk, when only best chunks of the files before it had been
  taken: `FirstsBefore` bounds the characters used at that moment.

Induction in these lemmas is over sets: `UpTo` takes a set that has 0 and with each number the
next, and `Recursion` shows that a function defined by recursion on 0..N exists; the equations of
`Turns`, `Rounds`, `Chars` and `FirstsBefore` (`TurnsEquation` and the like) come from it.

What the model shows the code does not promise. Two overlapping invocations with one
key save two tasks, and the later is replayed. A replay answers ok and leaves the
store as it is, so that the next run takes another draft or none. If the answer
cannot be stored, the command reports an error though the task is prepared and in
the store, and a retry makes a second. A round of the selection in which the next
chunk of every file is too large ends the loop, also when a later chunk would
fit; the context is then marked truncated.

## 7. Focus and ContextLoad: the operational context

`Focus.tla` is what the backend answers when it is asked for "the" context:
`resolve_scope` and the active task of the REST API, over the rows that the two
seeds and a ratification write. `ContextLoad.tla` is the control plane of the
extension against it: activation, the session, authentication, the loads cut at
their awaits, the handoff, a write command, and the reload of a window.

| TLA+ | code |
|---|---|
| `tasks`, `active`, `sessions`, `current` | `tasks`, `is_active`, `execution_sessions`, `context_scopes.is_current` |
| `memory`, `disk` | `workspaceState` as the window reads it, and as the next one will: session key and creation time |
| `issued` | session keys made so far (UUIDs) |
| `token` | SecretStorage holds a token |
| `pc`, `held` | the await a command is at, the session key it has |
| `auth`, `mode`, `local`, `available`, `got` | the settings a command read, what the inspector found, the tools the server lists, the kinds of the answers so far |
| `store`, `shown`, `handoff` | the two stores and the envelope presented last |

`GetOrCreateSession` writes key and creation time with two awaited updates
(`KeyStored`, `DateStored`), each of which may be refused. A load connects, lists the
tools and calls the five of them one after the other; a failure of the connection
speaks for all, one of a call for its tool (`CallFails`). Composing, storing and
presenting an envelope is one turn of the event loop (`Finish`). A payload is the
kind it is normalized to, an issue is its source. Fixture modes answer by themselves.
Cancellation does not reach a load.

A project without a task is left out, as every seed makes one, and so is the answer
`scope_invalid`, to an id that is no UUID: the extension sends no ids. Seeds run one at a time and are one step each, as the scripts commit once; each
seeded project has one task, so a task is named by its project.

| run | bounds | shows |
|---|---|---|
| `context` | two loads, a reset and a write; a server that lacks one tool; with and without authentication; any four events (a command begun, a reload, a seed, a ratification, a token change, a failing request or update); fair | the properties below |
| `context_scope` | one load, all tools, three events | violated: `LoadReachesTheFocus` (finding 4) |

- `FocusAgrees`: one task is active, and whoever asks without naming a task, a
  project or a session gets it, over MCP and REST.
- `HandoffIsHonest`: the store has the envelope that was shown last; a handoff is ready
  only if all five tools answered, and otherwise names each that did not among its
  eight risks.
- `SessionSurvives`: while commands run the session has key and creation time, also
  after a window that died between the two writes; a reported reset is never undone.
- `LoadsFinish`: a load that was begun ends.

Four events are two overlapping loads with a failure in one and a reload or a reset
between them. A failing request is "transport_error" in the run; the other kinds are
handled alike. Fairness: weak fairness of each command's next step, since every
request has a timeout and what rejects is caught. A reload, a failure, a seed and a new
command are never obliged to happen. `CHECK_DEADLOCK FALSE`: everything may be over.

### Proofs

`ContextLoadProofs.tla` proves `FocusAgrees` (`OneFocus`), `SessionSurvives` (`SessionIsKept`) and
`HandoffIsHonest` (`HonestHandoff`) for any commands, keys, servers, settings and number of
events (the projects and consumers are those the seeds write), from `FocusConstantsOK` and `ContextConstantsOK`. `FocusAgrees` needs that both seeds leave
one active task and that a current scope is always of it; `SessionSurvives` that the disk is at most one
write behind the memory, with a key whenever a command waits for the second. `TypeOK` covers what the
commands and the session keep (`TypeCorrect`).

`HandoffIsHonest` needs to know what an envelope was composed of (`HandoffInv`). A load has no answers until
its tools are listed, fewer than five while it reads and five when it closes (`Answers`), so
an envelope has five, together with settings and an inspection that exist
(`IsEnvelope`), also when a reload or a failure cut the load short. The rest is arithmetic that is
tight: five missing answers, an inspector, a stale validation and the builder's own doubt
are eight, and the ninth risk, of another branch, needs `get_active_task` to have answered
(`BundleIssuesFacts`, `IssuesFacts`), so `MAX_RISKS` cuts nothing off (`RisksFacts`).

Finding 4. A load names the session the extension made for itself and no scope.
`resolve_scope` answers `scope_not_found` to a session it does not know, and only the
seeds write sessions (`focus_resolver.py:138`), so none of the five tools falls back to
the current scope, as `docs/mcp/vscode_read_model_contract.md` 17-30 says.

What the model shows the code does not promise. `McpContextPlaneClient.ts:120` counts
`scope_not_found` and `ratification_required` as ok, so that the write command reports
"completado" (`commandExecutors.ts:51`). A retry of a write whose answer was lost carries a
new idempotency key. After a crash between the two writes of a reset the next window
finds the new key with the creation time of the old one. Answers `forbidden` and
`unauthorized` have no task payload and are shown as schema errors. Snapshots are served after
a ratification without a staleness mark (`snapshot_service.py` 36-44). Of overlapping
loads the one that ends last is stored and shown.

## 8. What is left

The order of the chunks within a context is not stated: a text-level property, since the
scorer's weights are abstracted.

## 9. Limits

Model-checked only: all liveness (`EveryRunReturns`, `ExecutionReturns`, `LoadsFinish`), since the
prover does not reach fairness and ENABLED. Every invariant and every other action property and refinement
of the passing runs is proved. What a RECURSIVE definition or a fold computes is out of the prover's
reach; the model has none that a theorem rests on: its recursion is over functions on 0..N. The
types and the inductive invariants of `RunPlane`, `WorkspaceIndex`, `CodexProcess`, `WritePlane`,
`PrepareTask` and `ContextLoad` are proved and are no part of the runs.

Not modelled. Parts without state over time: doctor, playbooks,
boundary guard, presentation, settings, token validation, policy
tables, transport logs, the thin REST handlers, timelines and snapshots. Texts: what a prompt, a
summary or a risk says, chunk boundaries, the parsing of queries and of the output of
codex. The migrations are data; the constraints the code relies on
(unique keys, conditional updates) are in the actions that meet them. Clocks of
different windows are assumed to agree, and Postgres to keep what it committed.
