--------------------------- MODULE WorkspaceIndex ---------------------------
(***************************************************************************)
(* IncrementalWorkspaceIndexer over the tables files and file_chunks, in    *)
(* the two ways it is run: LocalCommandService.localIndex (a full index     *)
(* with an index_runs row) and PostRunReconciler (two snapshots around a    *)
(* codex run, then an index of the paths that differ, or a full one).       *)
(* Nothing serialises the two: an element of Jobs is one such invocation.   *)
(* A text stands for a content, its hash and its chunks (sha256 and the     *)
(* chunker are functions of the content).  A path is scanned, loaded and    *)
(* written in any order; the code sorts them.                               *)
(***************************************************************************)
EXTENDS Integers, FiniteSets, RunOutcome

CONSTANTS
    Jobs,       \* invocations: localIndex or a reconciled codex run
    Paths,      \* files under the project root with an included extension
    Texts,      \* contents the indexer accepts
    NoJobPath,
    MaxScoped,  \* maxScopedReindexPaths
    Serial,     \* TRUE: no two invocations overlap
    MaxEdits,   \* bound: changes of the workspace
    MaxMisses,  \* bound: files that cannot be read
    MaxFaults   \* bound: failing statements, lost replies, dying windows

(* Faulty variants: an operator named X_<Fault> is not part of the model.  *)
(* It is X with a plausible mistake, kept to show that a property notices. *)
ASSUME ConstantsOK ==
    /\ NoJobPath \notin Paths
    /\ {"gone", "skipped", "unread"} \intersect Texts = {}
    /\ MaxScoped \in Nat /\ MaxEdits \in Nat
    /\ MaxMisses \in Nat /\ MaxFaults \in Nat
    /\ Serial \in BOOLEAN

(* What a file is on disk: a text, absent, or too large or binary.         *)
OnDisk == Texts \union {"gone", "skipped"}

(* What reading it tells.                                                  *)
Reading == OnDisk \union {"unread"}

Absent == [state |-> "absent", hash |-> "gone"]

Active(text) == [state |-> "active", hash |-> text]

VARIABLES
    disk,       \* the workspace
    file,       \* files: path -> is_deleted and content_hash
    chunk,      \* file_chunks: path -> the text its rows were cut from
    row,        \* index_runs: job -> status of the row it created
    edits, misses, faults,
    pc,         \* the await each job is at
    kind,       \* localIndex or reconcile
    mode,       \* full, scoped, fallback_full or skipped
    todo,       \* paths the current loop has left
    seen,       \* what the last scan, or the load of a path, read
    before,     \* the snapshot taken before the codex run
    diff,       \* what it and the one taken after differ in
    known,      \* existingByPath
    cur,        \* the path being written
    clash,      \* another transaction inserted chunks of cur since our DELETE
    marked,     \* deletedFileIds
    errs,       \* metrics.errors > 0
    result,
    calm        \* auxiliary: the job ran alone, over a still workspace, from an exact index,
                \* or one whose torn files these are

diskVars == <<disk, edits, misses>>
dbVars   == <<file, chunk, row>>
loopVars == <<todo, seen, cur>>
workVars == <<kind, mode, before, diff, known, marked>>
vars     == <<diskVars, dbVars, loopVars, workVars, pc, clash, errs, result, calm, faults>>

Snapshots == {"before", "after"}

Statements == {"create", "list", "upsert", "cut", "insert", "mark", "purge",
               "metrics", "complete", "failmetrics", "failcomplete"}

Quiet == {"idle", "done"}

Labels == Statements \union Snapshots \union Quiet \union {"codex", "scan", "next"}

(* The index, as retrieval reads it (chunks of files that are not deleted),*)
(* is the workspace.                                                       *)
FileExact(p) ==
    IF disk[p] \in Texts THEN file[p] = Active(disk[p]) ELSE file[p].state # "active"

Exact(p) == FileExact(p) /\ (disk[p] \in Texts => chunk[p] = disk[p])

(* Retrieval finds other chunks than those of the hash the row names.      *)
Torn(p) == file[p].state = "active" /\ chunk[p] # file[p].hash

Init ==
    /\ disk \in [Paths -> OnDisk]
    /\ \E indexed \in [Paths -> Texts \union {"gone"}] :
         /\ file = [p \in Paths |-> IF indexed[p] \in Texts THEN Active(indexed[p]) ELSE Absent]
         /\ chunk = indexed
    /\ row = [j \in Jobs |-> "none"]
    /\ edits = 0 /\ misses = 0 /\ faults = 0
    /\ pc = [j \in Jobs |-> "idle"]
    /\ kind = [j \in Jobs |-> "none"]
    /\ mode = [j \in Jobs |-> "full"]
    /\ todo = [j \in Jobs |-> {}]
    /\ seen = [j \in Jobs |-> [p \in Paths |-> "unread"]]
    /\ before = [j \in Jobs |-> [p \in Paths |-> "unread"]]
    /\ diff = [j \in Jobs |-> [changed |-> {}, deleted |-> {}]]
    /\ known = [j \in Jobs |-> [p \in Paths |-> Absent]]
    /\ cur = [j \in Jobs |-> NoJobPath]
    /\ clash = [j \in Jobs |-> FALSE]
    /\ marked = [j \in Jobs |-> {}]
    /\ errs = [j \in Jobs |-> FALSE]
    /\ result = [j \in Jobs |-> "none"]
    /\ calm = [j \in Jobs |-> [alone |-> FALSE, still |-> FALSE, exact |-> FALSE, torn |-> {}]]

(***************************************************************************)
(* The workspace changes: the user, codex, another tool.  A workspace that *)
(* changes only while codex runs was still for the job's own reading.      *)
(***************************************************************************)
Edit(p, v) ==
    /\ edits < MaxEdits /\ disk[p] # v
    /\ edits' = edits + 1
    /\ disk' = [disk EXCEPT ![p] = v]
    /\ calm' = [j \in Jobs |-> [calm[j] EXCEPT !.still = @ /\ pc[j] = "codex"]]
    /\ UNCHANGED <<misses, dbVars, loopVars, workVars, pc, clash, errs, result, faults>>

Running == {j \in Jobs : pc[j] \notin Quiet}

Start(j, k) ==
    /\ pc[j] = "idle" /\ (Serial => Running = {})
    /\ kind' = [kind EXCEPT ![j] = k]
    /\ todo' = [todo EXCEPT ![j] = Paths]
    /\ pc' = [pc EXCEPT ![j] = IF k = "localIndex" THEN "create" ELSE "before"]
    /\ calm' = [i \in Jobs |->
                  IF i = j THEN [alone |-> Running = {}, still |-> TRUE,
                                 exact |-> \A p \in Paths : Exact(p),
                                 torn |-> {p \in Paths : Torn(p)}]
                  ELSE [calm[i] EXCEPT !.alone = FALSE]]
    /\ UNCHANGED <<diskVars, dbVars, seen, cur, mode, before, diff, known, marked, clash,
                   errs, result, faults>>

(***************************************************************************)
(* Control.                                                                *)
(***************************************************************************)
Goes(j, next) == pc' = [pc EXCEPT ![j] = next] /\ UNCHANGED faults

Ends(j, res) ==
    /\ pc' = [pc EXCEPT ![j] = "done"]
    /\ result' = [result EXCEPT ![j] = res]

(* A rejected await outside persistCandidate.  localIndex records the run  *)
(* as failed; a scoped index falls back to a full one, whose own failure   *)
(* is reported and not thrown.                                             *)
Raises(j) ==
    IF kind[j] = "localIndex"
    THEN /\ \/ /\ pc[j] \in {"create", "failmetrics", "failcomplete"}
               /\ Ends(j, "error")
            \/ /\ pc[j] \notin {"create", "failmetrics", "failcomplete"}
               /\ pc' = [pc EXCEPT ![j] = "failmetrics"]
               /\ UNCHANGED result
         /\ UNCHANGED <<mode, todo, errs>>
    ELSE IF mode[j] = "scoped"
    THEN /\ pc' = [pc EXCEPT ![j] = "scan"]
         /\ mode' = [mode EXCEPT ![j] = "fallback_full"]
         /\ todo' = [todo EXCEPT ![j] = Paths]
         /\ errs' = [errs EXCEPT ![j] = FALSE]
         /\ UNCHANGED result
    ELSE Ends(j, "error") /\ UNCHANGED <<mode, todo, errs>>

Fault == faults < MaxFaults /\ faults' = faults + 1

Miss == misses < MaxMisses /\ misses' = misses + 1

Counted_Silent(j) == pc' = [pc EXCEPT ![j] = "next"] /\ UNCHANGED errs

(* A statement of persistCandidate that throws is caught and counted.      *)
Counted(j) ==
    /\ pc' = [pc EXCEPT ![j] = "next"]
    /\ errs' = [errs EXCEPT ![j] = TRUE]

Replies(j, next) ==
    \/ Goes(j, next) /\ UNCHANGED <<result, mode, todo, errs>>
    \/ Fault /\ Raises(j)

CreateIndexRun(j) ==
    /\ pc[j] = "create"
    /\ row' = [row EXCEPT ![j] = "started"]
    /\ Replies(j, "scan")
    /\ UNCHANGED <<diskVars, file, chunk, seen, cur, kind, before, diff, known, marked, clash, calm>>

(***************************************************************************)
(* Reading the workspace.  A file that cannot be read is left out of the   *)
(* scan; a full index counts it as an error, a snapshot does not.          *)
(***************************************************************************)
Scanning == Snapshots \union {"scan"}

ScanFile(j, p) ==
    /\ pc[j] \in Scanning /\ p \in todo[j]
    /\ todo' = [todo EXCEPT ![j] = @ \ {p}]
    /\ \/ /\ seen' = [seen EXCEPT ![j][p] = disk[p]]
          /\ UNCHANGED <<errs, misses>>
       \/ /\ Miss
          /\ seen' = [seen EXCEPT ![j][p] = "unread"]
          /\ errs' = [errs EXCEPT ![j] = @ \/ pc[j] = "scan"]
    /\ UNCHANGED <<disk, edits, faults, dbVars, cur, workVars, pc, clash, result, calm>>

Scanned(j, at) == pc[j] = at /\ todo[j] = {}

SnapshotBefore(j) ==
    /\ Scanned(j, "before")
    /\ before' = [before EXCEPT ![j] = seen[j]]
    /\ Goes(j, "codex")
    /\ UNCHANGED <<diskVars, dbVars, loopVars, kind, mode, diff, known, marked, clash, errs,
                   result, calm>>

CodexReturns(j) ==
    /\ pc[j] = "codex"
    /\ todo' = [todo EXCEPT ![j] = Paths]
    /\ Goes(j, "after")
    /\ UNCHANGED <<diskVars, dbVars, seen, cur, workVars, clash, errs, result, calm>>

(* WorkspaceDiffAnalyzer.analyze: created, deleted and modified files.     *)
Diff_IgnoresCreated(b, a) == {p \in Paths : b[p] \in Texts /\ a[p] # b[p]}

Diff(b, a) ==
    {p \in Paths : (b[p] \in Texts \/ a[p] \in Texts) /\ a[p] # b[p]}

Deleted(b, a) == {p \in Paths : b[p] \in Texts /\ a[p] \notin Texts}

PlanReindex(j) ==
    LET changed == Diff(before[j], seen[j])
    IN  /\ Scanned(j, "after")
        /\ diff' = [diff EXCEPT ![j] = [changed |-> changed,
                                        deleted |-> Deleted(before[j], seen[j])]]
        /\ \/ /\ changed = {}
              /\ Ends(j, "ok")
              /\ mode' = [mode EXCEPT ![j] = "skipped"]
              /\ UNCHANGED todo
           \/ /\ changed # {} /\ Cardinality(changed) <= MaxScoped
              /\ mode' = [mode EXCEPT ![j] = "scoped"]
              /\ todo' = [todo EXCEPT ![j] = changed]
              /\ pc' = [pc EXCEPT ![j] = "list"]
              /\ UNCHANGED result
           \/ /\ Cardinality(changed) > MaxScoped
              /\ mode' = [mode EXCEPT ![j] = "fallback_full"]
              /\ todo' = [todo EXCEPT ![j] = Paths]
              /\ pc' = [pc EXCEPT ![j] = "scan"]
              /\ UNCHANGED result
        /\ UNCHANGED <<diskVars, dbVars, seen, cur, kind, before, known, marked, clash, errs,
                       calm, faults>>

(***************************************************************************)
(* runIndex and runIndexByPaths, from listProjectFiles on.                 *)
(***************************************************************************)
ScanEnds(j) ==
    /\ Scanned(j, "scan")
    /\ Goes(j, "list")
    /\ UNCHANGED <<diskVars, dbVars, loopVars, workVars, clash, errs, result, calm>>

Scoped(j) == mode[j] = "scoped"

Candidates(j) == {p \in Paths : seen[j][p] \in Texts}

ListProjectFiles(j) ==
    /\ pc[j] = "list"
    /\ known' = [known EXCEPT ![j] = file]
    /\ marked' = [marked EXCEPT ![j] = {}]
    /\ \/ /\ Goes(j, "next")
          /\ todo' = IF Scoped(j) THEN todo ELSE [todo EXCEPT ![j] = Candidates(j)]
          /\ UNCHANGED <<result, mode, errs>>
       \/ Fault /\ Raises(j)
    /\ UNCHANGED <<diskVars, dbVars, seen, cur, kind, before, diff, clash, calm>>

(* The loop of a full index takes the next candidate of the scan.          *)
TakeCandidate(j, p) ==
    /\ pc[j] = "next" /\ ~Scoped(j) /\ p \in todo[j]
    /\ cur' = [cur EXCEPT ![j] = p]
    /\ todo' = [todo EXCEPT ![j] = @ \ {p}]
    /\ Goes(j, "upsert")
    /\ UNCHANGED <<diskVars, dbVars, seen, workVars, clash, errs, result, calm>>

(* loadCandidateFromPath; what is no longer a text is to be soft-deleted,  *)
(* what cannot be read is not.                                             *)
LoadCandidate(j, p) ==
    /\ pc[j] = "next" /\ Scoped(j) /\ p \in todo[j]
    /\ cur' = [cur EXCEPT ![j] = p]
    /\ todo' = [todo EXCEPT ![j] = @ \ {p}]
    /\ \/ /\ seen' = [seen EXCEPT ![j][p] = disk[p]]
          /\ \/ disk[p] \in Texts /\ Goes(j, "upsert") /\ UNCHANGED marked
             \/ /\ disk[p] \notin Texts
                /\ marked' = IF known[j][p].state = "active"
                             THEN [marked EXCEPT ![j] = @ \union {p}] ELSE marked
                /\ Goes(j, "next")
          /\ UNCHANGED <<errs, misses>>
       \/ /\ Miss
          /\ seen' = [seen EXCEPT ![j][p] = "unread"]
          /\ errs' = [errs EXCEPT ![j] = TRUE]
          /\ UNCHANGED <<pc, faults, marked>>
    /\ UNCHANGED <<disk, edits, dbVars, kind, mode, before, diff, known, clash, result, calm>>

(* shouldRewriteChunks: the file is new, was deleted, or has another hash. *)
Rewrites(j) == known[j][cur[j]] # Active(seen[j][cur[j]])

UpsertIndexedFile_KeepsDeleted(j) ==
    /\ pc[j] = "upsert"
    /\ file' = [file EXCEPT ![cur[j]].hash = seen[j][cur[j]],
                            ![cur[j]].state = IF @ = "absent" THEN "active" ELSE @]
    /\ \/ Goes(j, IF Rewrites(j) THEN "cut" ELSE "next") /\ UNCHANGED errs
       \/ Fault /\ Counted(j)
    /\ UNCHANGED <<diskVars, chunk, row, loopVars, workVars, clash, result, calm>>

UpsertIndexedFile(j) ==
    /\ pc[j] = "upsert"
    /\ file' = [file EXCEPT ![cur[j]] = Active(seen[j][cur[j]])]
    /\ \/ Goes(j, IF Rewrites(j) THEN "cut" ELSE "next") /\ UNCHANGED errs
       \/ Fault /\ Counted(j)
    /\ UNCHANGED <<diskVars, chunk, row, loopVars, workVars, clash, result, calm>>

(* replaceFileChunks, one transaction: BEGIN and DELETE, whose effect is   *)
(* seen at COMMIT only; rows another transaction commits in between are    *)
(* not deleted and UNIQUE(file_id, chunk_index) makes the INSERT fail.     *)
DeleteOldChunks(j) ==
    /\ pc[j] = "cut"
    /\ clash' = [clash EXCEPT ![j] = FALSE]
    /\ Goes(j, "insert")
    /\ UNCHANGED <<diskVars, dbVars, loopVars, workVars, errs, result, calm>>

InsertChunks(j) ==
    /\ pc[j] = "insert"
    /\ \/ /\ ~clash[j]
          /\ chunk' = [chunk EXCEPT ![cur[j]] = seen[j][cur[j]]]
          /\ clash' = [i \in Jobs |-> clash[i] \/ (pc[i] = "insert" /\ cur[i] = cur[j] /\ i # j)]
          /\ \/ Goes(j, "next") /\ UNCHANGED errs
             \/ Fault /\ Counted(j)
       \/ /\ clash[j]
          /\ Counted(j)
          /\ UNCHANGED <<chunk, clash, faults>>
    /\ UNCHANGED <<diskVars, file, row, loopVars, workVars, result, calm>>

ToDelete_ScopedRule(j) == marked[j]

(* softDeletePaths: of a full index, the active files it knew and did not  *)
(* scan; of a scoped one, those it loaded and found gone or skipped.       *)
ToDelete(j) ==
    IF Scoped(j) THEN marked[j]
    ELSE {p \in Paths : known[j][p].state = "active" /\ p \notin Candidates(j)}

Finishes(j) ==
    \/ kind[j] = "localIndex" /\ Goes(j, "metrics") /\ UNCHANGED result
    \/ kind[j] = "reconcile" /\ Ends(j, "ok") /\ UNCHANGED faults

LoopEnds(j) ==
    /\ pc[j] = "next" /\ todo[j] = {}
    /\ \/ ToDelete(j) # {} /\ Goes(j, "mark") /\ UNCHANGED result
       \/ ToDelete(j) = {} /\ Finishes(j)
    /\ UNCHANGED <<diskVars, dbVars, loopVars, workVars, clash, errs, calm>>

MarkFilesDeleted(j) ==
    LET hit == {p \in ToDelete(j) : file[p].state = "active"}
    IN  /\ pc[j] = "mark"
        /\ file' = [p \in Paths |-> IF p \in hit THEN [file[p] EXCEPT !.state = "deleted"]
                                    ELSE file[p]]
        /\ marked' = [marked EXCEPT ![j] = hit]
        /\ \/ /\ \/ hit # {} /\ Goes(j, "purge") /\ UNCHANGED result
                 \/ hit = {} /\ Finishes(j)
              /\ UNCHANGED <<mode, todo, errs>>
           \/ Fault /\ Raises(j)
        /\ UNCHANGED <<diskVars, chunk, row, seen, cur, kind, before, diff, known, clash, calm>>

DeleteChunksByFileIds(j) ==
    /\ pc[j] = "purge"
    /\ chunk' = [p \in Paths |-> IF p \in marked[j] THEN "gone" ELSE chunk[p]]
    /\ \/ Finishes(j) /\ UNCHANGED <<mode, todo, errs>>
       \/ Fault /\ Raises(j)
    /\ UNCHANGED <<diskVars, file, row, seen, cur, kind, before, diff, known, marked, clash, calm>>

(***************************************************************************)
(* localIndex: the counts and the status of its index_runs row.            *)
(***************************************************************************)
UpdateMetrics(j) ==
    /\ pc[j] = "metrics"
    /\ Replies(j, "complete")
    /\ UNCHANGED <<diskVars, dbVars, seen, cur, kind, before, diff, known, marked, clash, calm>>

CompleteIndexRun(j) ==
    /\ pc[j] = "complete"
    /\ row' = [row EXCEPT ![j] = "completed"]
    /\ \/ Ends(j, "ok") /\ UNCHANGED <<mode, todo, errs, faults>>
       \/ Fault /\ Raises(j)
    /\ UNCHANGED <<diskVars, file, chunk, seen, cur, kind, before, diff, known, marked, clash, calm>>

ZeroMetrics(j) ==
    /\ pc[j] = "failmetrics"
    /\ Replies(j, "failcomplete")
    /\ UNCHANGED <<diskVars, dbVars, seen, cur, kind, before, diff, known, marked, clash, calm>>

FailIndexRun(j) ==
    /\ pc[j] = "failcomplete"
    /\ row' = [row EXCEPT ![j] = "failed"]
    /\ Ends(j, "error")
    /\ UNCHANGED faults \/ Fault
    /\ UNCHANGED <<diskVars, file, chunk, loopVars, workVars, clash, errs, calm>>

(* A statement that fails before it takes effect.                          *)
StatementFails(j) ==
    /\ pc[j] \in Statements /\ Fault
    /\ \/ /\ pc[j] \in {"upsert", "cut", "insert"}
          /\ Counted(j)
          /\ UNCHANGED <<result, mode, todo>>
       \/ pc[j] \notin {"upsert", "cut", "insert"} /\ Raises(j)
    /\ UNCHANGED <<diskVars, dbVars, seen, cur, kind, before, diff, known, marked, clash, calm>>

(* The extension host dies; an open transaction is rolled back.            *)
WindowDies(j) ==
    /\ pc[j] \notin Quiet /\ Fault
    /\ pc' = [pc EXCEPT ![j] = "done"]
    /\ UNCHANGED <<diskVars, dbVars, loopVars, workVars, clash, errs, result, calm>>

Advance(j) ==
    \/ CreateIndexRun(j) \/ SnapshotBefore(j) \/ CodexReturns(j) \/ PlanReindex(j)
    \/ ScanEnds(j) \/ ListProjectFiles(j) \/ UpsertIndexedFile(j) \/ DeleteOldChunks(j)
    \/ InsertChunks(j) \/ LoopEnds(j) \/ MarkFilesDeleted(j) \/ DeleteChunksByFileIds(j)
    \/ UpdateMetrics(j) \/ CompleteIndexRun(j) \/ ZeroMetrics(j) \/ FailIndexRun(j)
    \/ StatementFails(j) \/ WindowDies(j)
    \/ \E p \in Paths : ScanFile(j, p) \/ TakeCandidate(j, p) \/ LoadCandidate(j, p)

Next ==
    \/ \E p \in Paths, v \in OnDisk : Edit(p, v)
    \/ \E j \in Jobs, k \in {"localIndex", "reconcile"} : Start(j, k)
    \/ \E j \in Jobs : Advance(j)

Spec == Init /\ [][Next]_vars

-----------------------------------------------------------------------------
(***************************************************************************)
(* Properties.                                                             *)
(***************************************************************************)
FileRow == [state : {"absent", "active", "deleted"}, hash : Texts \union {"gone"}]

CalmRow == [alone : BOOLEAN, still : BOOLEAN, exact : BOOLEAN, torn : SUBSET Paths]

(* The type of every variable.                                             *)
TypeOK ==
    /\ disk \in [Paths -> OnDisk]
    /\ file \in [Paths -> FileRow]
    /\ chunk \in [Paths -> Texts \union {"gone"}]
    /\ row \in [Jobs -> {"none", "started", "completed", "failed"}]
    /\ edits \in Nat /\ misses \in Nat /\ faults \in Nat
    /\ pc \in [Jobs -> Labels]
    /\ kind \in [Jobs -> {"none", "localIndex", "reconcile"}]
    /\ mode \in [Jobs -> {"full", "scoped", "fallback_full", "skipped"}]
    /\ todo \in [Jobs -> SUBSET Paths]
    /\ seen \in [Jobs -> [Paths -> Reading]]
    /\ before \in [Jobs -> [Paths -> Reading]]
    /\ diff \in [Jobs -> [changed : SUBSET Paths, deleted : SUBSET Paths]]
    /\ known \in [Jobs -> [Paths -> FileRow]]
    /\ cur \in [Jobs -> Paths \union {NoJobPath}]
    /\ clash \in [Jobs -> BOOLEAN]
    /\ marked \in [Jobs -> SUBSET Paths]
    /\ errs \in [Jobs -> BOOLEAN]
    /\ result \in [Jobs -> {"none", "ok", "error"}]
    /\ calm \in [Jobs -> CalmRow]

(* The job just finished with no errors counted, alone, over a workspace   *)
(* that kept still, and nothing happened since.                            *)
JustFinished(j) ==
    /\ pc[j] = "done" /\ result[j] = "ok" /\ ~errs[j]
    /\ calm[j].alone /\ calm[j].still

FullRun(j) == kind[j] = "localIndex" \/ mode[j] = "fallback_full"

(* One snapshot could not read a file and the other found no text there.   *)
Blind(j) ==
    \E p \in Paths :
        /\ before[j][p] \notin Texts /\ seen[j][p] \notin Texts
        /\ "unread" \in {before[j][p], seen[j][p]}

(* What retrieval finds is the text the file's row names: an active file   *)
(* has the chunks of its own hash, unless a job is about to replace them.  *)
(* Said of jobs that do not overlap and statements that do not fail.       *)
RetrievalSeesText ==
    \A p \in Paths :
        file[p].state = "active" =>
            \/ chunk[p] = file[p].hash
            \/ \E j \in Jobs : pc[j] \in {"cut", "insert"} /\ cur[j] = p

(* A full index that ends with no errors leaves the index exact, whatever  *)
(* earlier jobs saw of a workspace that changed under them.  Said of jobs  *)
(* that do not overlap and statements that do not fail.                    *)
CleanRunIsExact ==
    \A j \in Jobs : JustFinished(j) /\ FullRun(j) => \A p \in Paths : Exact(p)

(* Whatever overlapped or failed before, such an index leaves the rows of  *)
(* the files, their hashes and their deletion marks exact.                 *)
CleanRunRepairsFiles ==
    \A j \in Jobs : JustFinished(j) /\ FullRun(j) => \A p \in Paths : FileExact(p)

(* A statement that fails between a file's row and its chunks tears them   *)
(* apart, and later runs skip the file by its hash: so a run that counted  *)
(* no error must not have done it.  An index that ran alone, answered ok   *)
(* and counted no error leaves no file torn that it had not found torn,    *)
(* whatever fails and is edited under it.  The full index a scoped one     *)
(* falls back to is left out: it counts its errors anew.                   *)
CleanRunTearsNothing ==
    \A j \in Jobs :
        /\ pc[j] = "done" /\ result[j] = "ok" /\ ~errs[j]
        /\ calm[j].alone /\ mode[j] # "fallback_full"
        => \A p \in Paths : Torn(p) => p \in calm[j].torn

(* Reindexing what the two snapshots show to differ keeps an exact index   *)
(* exact, also when a snapshot could not read a file: the paths of the     *)
(* diff are read again.  Blind: one snapshot could not read the file and   *)
(* the other found no text there.                                          *)
PostRunKeepsIndex ==
    \A j \in Jobs :
        /\ JustFinished(j) /\ kind[j] = "reconcile" /\ mode[j] # "fallback_full"
        /\ calm[j].exact /\ ~Blind(j)
        => \A p \in Paths : Exact(p)

Reindexed(j) == [mode |-> mode[j], ok |-> result[j] = "ok"]

Reviewed(j, execution, warnings, lost) ==
    LET outcome == ClassifyExecutionOutcome(execution, diff[j].changed, warnings, Reindexed(j))
    IN  Review(EffectiveOutcome(lost, outcome), diff[j].deleted, warnings, Reindexed(j))

(* A run the review accepts did end, changed something, and everything the *)
(* diff lists is a text that retrieval now finds as it is on disk: whether *)
(* or not the index was exact before, and also when a file could not be    *)
(* read for one of the snapshots, which makes it look created or deleted.  *)
AcceptedRunIsIndexed ==
    \A j \in Jobs, e \in Executions, w \in Warnings, lost \in BOOLEAN :
        /\ JustFinished(j) /\ kind[j] = "reconcile"
        /\ Reviewed(j, e, w, lost) \in Accepts
        => /\ e = "ok" /\ ~lost /\ diff[j].changed # {}
           /\ \A p \in diff[j].changed : disk[p] \in Texts /\ Exact(p)
=============================================================================
