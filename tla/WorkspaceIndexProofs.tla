------------------------ MODULE WorkspaceIndexProofs ------------------------
(***************************************************************************)
(* What an index run leaves in files and file_chunks, for any jobs, paths, *)
(* texts, edits and unreadable files: with overlaps and faults for the     *)
(* rows of the files, without them for their chunks.  The invariant        *)
(* follows one job that is alone over a still workspace from its scan to   *)
(* its end: what it has read is what is on disk (ReadInv), what it knew of *)
(* a path it has still to write is still so (LoopInv), and what it has     *)
(* written is exact (FullInv, ScopedInv).                                  *)
(***************************************************************************)
EXTENDS WorkspaceIndex, TLAPS

Undisturbed == Serial /\ MaxFaults = 0

(* What the index should hold of p when its content is text.               *)
Recorded(p, text) ==
    IF text \in Texts THEN file[p] = Active(text) /\ chunk[p] = text
    ELSE file[p].state # "active"

(* As much of Exact(p) as the assumptions allow.                           *)
Sound(p) == FileExact(p) /\ (Undisturbed => Exact(p))

Writing == {"upsert", "cut", "insert"}

Loop == {"next", "upsert", "cut", "insert"}

Indexing == {"list", "next", "upsert", "cut", "insert", "mark", "purge", "metrics", "complete"}

Unwritten(j) == todo[j] \union (IF pc[j] \in Writing THEN {cur[j]} ELSE {})

Still(j) == calm[j].alone /\ calm[j].still

BlindAt(j, p) ==
    /\ before[j][p] \notin Texts /\ seen[j][p] \notin Texts
    /\ "unread" \in {before[j][p], seen[j][p]}

(* Nobody else runs beside a job that is alone, and without overlap every  *)
(* job is.                                                                 *)
AloneInv ==
    /\ \A i, j \in Jobs : calm[j].alone /\ i \in Running => i = j
    /\ Serial => \A j \in Running : calm[j].alone
    /\ faults <= MaxFaults

(* What an await tells of the locals of its job.                           *)
LocalInv(j) ==
    /\ result[j] = "ok" => pc[j] = "done"
    /\ kind[j] = "localIndex" => mode[j] = "full"
    /\ pc[j] \in {"before", "codex", "after"} => kind[j] = "reconcile" /\ mode[j] = "full"
    /\ pc[j] \in {"create", "metrics", "complete", "failmetrics", "failcomplete"} =>
         kind[j] = "localIndex"
    /\ pc[j] = "idle" => mode[j] = "full" /\ \A p \in Paths : seen[j][p] = "unread"
    /\ pc[j] # "idle" => kind[j] # "none"
    /\ pc[j] = "create" => todo[j] = Paths
    /\ pc[j] = "mark" => todo[j] = {}
    /\ pc[j] = "scan" \/ pc[j] \in Indexing =>
         mode[j] \in {"scoped", "fallback_full"} \/ kind[j] = "localIndex"
    /\ pc[j] = "scan" => ~Scoped(j)
    /\ result[j] = "ok" /\ kind[j] = "reconcile" =>
         mode[j] \in {"scoped", "fallback_full", "skipped"}
    /\ mode[j] = "skipped" => pc[j] = "done" /\ diff[j].changed = {}
    /\ pc[j] \in Writing =>
         cur[j] \in Paths /\ cur[j] \notin todo[j] /\ seen[j][cur[j]] \in Texts
    /\ pc[j] \in Loop /\ ~Scoped(j) => todo[j] \subseteq Candidates(j)

(* Nobody has written what the loop is about to write.                     *)
LoopInv(j) ==
    /\ pc[j] \in Loop => \A p \in todo[j] : known[j][p] = file[p]
    /\ (pc[j] \in Loop \/ pc[j] = "mark") /\ ~Scoped(j) =>
         \A p \in Paths \ Candidates(j) : known[j][p] = file[p]
    /\ pc[j] = "upsert" => known[j][cur[j]] = file[cur[j]]
    /\ pc[j] \in {"cut", "insert"} => file[cur[j]] = Active(seen[j][cur[j]])
    /\ pc[j] = "insert" => ~clash[j]
    /\ pc[j] = "purge" => \A p \in marked[j] : file[p].state # "active"

(* What was read is what is on disk, or could not be read.                 *)
ReadInv(j) ==
    /\ pc[j] \notin {"idle", "codex", "done"} =>
         \A p \in Paths : (pc[j] = "after" => p \notin todo[j]) => seen[j][p] \in {disk[p], "unread"}
    /\ (pc[j] = "scan" \/ pc[j] \in Indexing) /\ ~Scoped(j) /\ ~errs[j] =>
         \A p \in Paths : (pc[j] = "scan" => p \notin todo[j]) => seen[j][p] # "unread"

(* What a full index has written is exact.                                 *)
FullInv(j) ==
    ~Scoped(j) /\ ~errs[j] =>
        /\ pc[j] \in Loop \/ pc[j] = "mark" =>
             \A p \in Candidates(j) \ Unwritten(j) : Sound(p)
        /\ pc[j] \in {"purge", "metrics", "complete"} => \A p \in Paths : Sound(p)
        /\ result[j] = "ok" /\ FullRun(j) => \A p \in Paths : Sound(p)

(* While codex runs the index still holds what the first snapshot read.    *)
SnapInv(j) ==
    Undisturbed /\ calm[j].exact =>
        /\ pc[j] = "before" => \A p \in Paths : Exact(p)
        /\ pc[j] \in {"codex", "after"} =>
             \A p \in Paths : before[j][p] # "unread" => Recorded(p, before[j][p])

Reindexing(j) == pc[j] \in {"list", "next", "upsert", "cut", "insert", "mark", "purge"} \/ result[j] = "ok"

(* Outside the diff a scoped index leaves what was exact, inside it what   *)
(* has been written is exact.                                              *)
ScopedInv(j) ==
    Scoped(j) \/ mode[j] = "skipped" =>
        /\ Undisturbed /\ calm[j].exact /\ Reindexing(j) =>
             \A p \in Paths \ diff[j].changed : Exact(p) \/ BlindAt(j, p)
        /\ pc[j] \in Loop => Unwritten(j) \subseteq diff[j].changed
        /\ pc[j] = "list" => todo[j] = diff[j].changed
        /\ pc[j] \in Loop \/ pc[j] = "mark" =>
             /\ marked[j] \subseteq diff[j].changed
             /\ \A p \in marked[j] : disk[p] \notin Texts
             /\ ~errs[j] => \A p \in diff[j].changed \ Unwritten(j) : Sound(p) \/ p \in marked[j]
        /\ pc[j] = "purge" => marked[j] \subseteq diff[j].changed
        /\ (pc[j] = "purge" \/ result[j] = "ok") /\ ~errs[j] => \A p \in diff[j].changed : Sound(p)
        /\ \A p \in diff[j].changed \ diff[j].deleted : disk[p] \in Texts

(* What a job that has counted no error is about to put together again.    *)
(* Its last await tells whether the job answered ok.                       *)
Counts(j) == ~errs[j] /\ mode[j] # "fallback_full" /\ (pc[j] = "done" => result[j] = "ok")

Mending(j, p) == pc[j] \in {"cut", "insert"} /\ cur[j] = p

TornInv(j) ==
    calm[j].alone /\ Counts(j) =>
        \A p \in Paths : Torn(p) => p \in calm[j].torn \/ Mending(j, p)

JobInv(j) ==
    /\ LocalInv(j)
    /\ calm[j].alone => LoopInv(j)
    /\ Still(j) => ReadInv(j) /\ FullInv(j) /\ SnapInv(j) /\ ScopedInv(j)

IndexInv ==
    /\ TypeOK
    /\ AloneInv
    /\ \A j \in Jobs : JobInv(j) /\ TornInv(j)
    /\ Undisturbed => RetrievalSeesText

-----------------------------------------------------------------------------
(***************************************************************************)
(* Types.                                                                  *)
(***************************************************************************)
(* What the auxiliary record becomes when the workspace changes, and when  *)
(* another job starts.                                                     *)
LEMMA CalmEdit ==
    ASSUME NEW c \in CalmRow, NEW b \in BOOLEAN
    PROVE  /\ [c EXCEPT !.still = b] \in CalmRow
           /\ [c EXCEPT !.still = b].still = b
           /\ [c EXCEPT !.still = b].alone = c.alone
           /\ [c EXCEPT !.still = b].exact = c.exact
           /\ [c EXCEPT !.still = b].torn = c.torn
  BY DEF CalmRow

LEMMA CalmLeft ==
    ASSUME NEW c \in CalmRow
    PROVE  /\ [c EXCEPT !.alone = FALSE] \in CalmRow
           /\ ~[c EXCEPT !.alone = FALSE].alone
  BY DEF CalmRow

TableTyped ==
    /\ disk \in [Paths -> OnDisk]
    /\ file \in [Paths -> FileRow]
    /\ chunk \in [Paths -> Texts \union {"gone"}]
    /\ row \in [Jobs -> {"none", "started", "completed", "failed"}]
    /\ edits \in Nat /\ misses \in Nat /\ faults \in Nat

FlowTyped ==
    /\ pc \in [Jobs -> Labels]
    /\ mode \in [Jobs -> {"full", "scoped", "fallback_full", "skipped"}]
    /\ todo \in [Jobs -> SUBSET Paths]
    /\ errs \in [Jobs -> BOOLEAN]
    /\ result \in [Jobs -> {"none", "ok", "error"}]

LocalTyped ==
    /\ kind \in [Jobs -> {"none", "localIndex", "reconcile"}]
    /\ seen \in [Jobs -> [Paths -> Reading]]
    /\ before \in [Jobs -> [Paths -> Reading]]
    /\ diff \in [Jobs -> [changed : SUBSET Paths, deleted : SUBSET Paths]]
    /\ known \in [Jobs -> [Paths -> FileRow]]
    /\ cur \in [Jobs -> Paths \union {NoJobPath}]
    /\ clash \in [Jobs -> BOOLEAN]
    /\ marked \in [Jobs -> SUBSET Paths]
    /\ calm \in [Jobs -> CalmRow]

LEMMA LabelSet ==
    Labels = {"create", "list", "upsert", "cut", "insert", "mark", "purge", "metrics", "complete",
              "failmetrics", "failcomplete", "before", "after", "idle", "done", "codex", "scan",
              "next"}
  BY DEF Labels, Statements, Snapshots, Quiet

LEMMA GoesTyped ==
    ASSUME TypeOK, NEW j \in Jobs, NEW next \in Labels, Goes(j, next)
    PROVE  /\ pc' \in [Jobs -> Labels] /\ pc'[j] = next
           /\ \A i \in Jobs \ {j} : pc'[i] = pc[i]
           /\ faults' = faults
  BY DEF TypeOK, Goes

LEMMA EndsTyped ==
    ASSUME TypeOK, NEW j \in Jobs, NEW res \in {"ok", "error"}, Ends(j, res)
    PROVE  /\ pc' \in [Jobs -> Labels] /\ pc'[j] = "done"
           /\ result' \in [Jobs -> {"none", "ok", "error"}] /\ result'[j] = res
           /\ \A i \in Jobs \ {j} : pc'[i] = pc[i] /\ result'[i] = result[i]
  BY LabelSet DEF TypeOK, Ends

LEMMA CountedTyped ==
    ASSUME TypeOK, NEW j \in Jobs, Counted(j)
    PROVE  /\ pc' \in [Jobs -> Labels] /\ pc'[j] = "next"
           /\ errs' \in [Jobs -> BOOLEAN] /\ errs'[j]
           /\ \A i \in Jobs \ {j} : pc'[i] = pc[i] /\ errs'[i] = errs[i]
  BY LabelSet DEF TypeOK, Counted

(* What a rejected await makes of its job.                                 *)
Thrown(j) ==
    \/ /\ pc'[j] \in {"done", "failmetrics"} /\ mode' = mode /\ todo' = todo /\ errs' = errs
       /\ result'[j] \in {result[j], "error"} /\ (pc'[j] = "failmetrics" => kind[j] = "localIndex")
       /\ (pc'[j] = "done" => result'[j] = "error")
    \/ /\ pc'[j] = "scan" /\ mode'[j] = "fallback_full" /\ todo'[j] = Paths
       /\ kind[j] # "localIndex" /\ result' = result

LEMMA RaisesTyped ==
    ASSUME TypeOK, NEW j \in Jobs, Raises(j)
    PROVE  /\ FlowTyped' /\ Thrown(j)
           /\ \A i \in Jobs \ {j} : /\ pc'[i] = pc[i] /\ mode'[i] = mode[i]
                                    /\ result'[i] = result[i] /\ todo'[i] = todo[i]
<1>1. CASE kind[j] = "localIndex" /\ pc[j] \in {"create", "failmetrics", "failcomplete"}
  <2>1. Ends(j, "error") /\ UNCHANGED <<mode, todo, errs>>
    BY <1>1 DEF Raises
  <2> QED
    BY <2>1, EndsTyped DEF TypeOK, FlowTyped, Thrown
<1>2. CASE kind[j] = "localIndex" /\ pc[j] \notin {"create", "failmetrics", "failcomplete"}
  <2>1. pc' = [pc EXCEPT ![j] = "failmetrics"] /\ UNCHANGED <<result, mode, todo, errs>>
    BY <1>2 DEF Raises
  <2> QED
    BY <1>2, <2>1, LabelSet DEF TypeOK, FlowTyped, Thrown
<1>3. CASE kind[j] # "localIndex" /\ mode[j] = "scoped"
  <2>1. /\ pc' = [pc EXCEPT ![j] = "scan"]
        /\ mode' = [mode EXCEPT ![j] = "fallback_full"]
        /\ todo' = [todo EXCEPT ![j] = Paths]
        /\ errs' = [errs EXCEPT ![j] = FALSE]
        /\ UNCHANGED result
    BY <1>3 DEF Raises
  <2> QED
    BY <1>3, <2>1, LabelSet DEF TypeOK, FlowTyped, Thrown
<1>4. CASE kind[j] # "localIndex" /\ mode[j] # "scoped"
  <2>1. Ends(j, "error") /\ UNCHANGED <<mode, todo, errs>>
    BY <1>4 DEF Raises
  <2> QED
    BY <2>1, EndsTyped DEF TypeOK, FlowTyped, Thrown
<1> QED
  BY <1>1, <1>2, <1>3, <1>4

(* The reply of a statement after the file loop.                           *)
LEMMA FinishesTyped ==
    ASSUME TypeOK, NEW j \in Jobs, Finishes(j)
    PROVE  /\ pc' \in [Jobs -> Labels]
           /\ result' \in [Jobs -> {"none", "ok", "error"}]
           /\ \A i \in Jobs \ {j} : pc'[i] = pc[i] /\ result'[i] = result[i]
           /\ faults' = faults
           /\ \/ kind[j] = "localIndex" /\ pc'[j] = "metrics" /\ result' = result
              \/ kind[j] = "reconcile" /\ pc'[j] = "done" /\ result'[j] = "ok"
<1>1. CASE kind[j] = "localIndex" /\ Goes(j, "metrics") /\ UNCHANGED result
  BY <1>1, GoesTyped, LabelSet DEF TypeOK
<1>2. CASE kind[j] = "reconcile" /\ Ends(j, "ok") /\ UNCHANGED faults
  BY <1>2, EndsTyped DEF TypeOK
<1> QED
  BY <1>1, <1>2 DEF Finishes

LEMMA RowDeleted ==
    ASSUME NEW r \in FileRow
    PROVE  [r EXCEPT !.state = "deleted"] \in FileRow
  BY DEF FileRow

LEMMA TableStep ==
    ASSUME TypeOK, \A j \in Jobs : LocalInv(j), [Next]_vars
    PROVE  TableTyped'
<1> USE DEF TypeOK, TableTyped, diskVars, dbVars, loopVars, workVars
<1>1. CASE UNCHANGED vars
  BY <1>1 DEF vars
<1>2. ASSUME NEW p \in Paths, NEW v \in OnDisk, Edit(p, v) PROVE TableTyped'
  BY <1>2 DEF Edit
<1>3. ASSUME NEW j \in Jobs, NEW k \in {"localIndex", "reconcile"}, Start(j, k)
      PROVE  TableTyped'
  BY <1>3 DEF Start
<1>4. ASSUME NEW j \in Jobs, Advance(j) PROVE TableTyped'
  <2>1. CASE CreateIndexRun(j)
    BY <2>1 DEF CreateIndexRun, Replies, Goes, Fault
  <2>2. CASE SnapshotBefore(j) \/ CodexReturns(j) \/ PlanReindex(j) \/ ScanEnds(j)
    BY <2>2 DEF SnapshotBefore, CodexReturns, PlanReindex, ScanEnds, Goes
  <2>3. CASE ListProjectFiles(j)
    BY <2>3 DEF ListProjectFiles, Goes, Fault
  <2>4. CASE UpsertIndexedFile(j)
    <3>1. cur[j] \in Paths /\ seen[j][cur[j]] \in Texts
      BY <2>4 DEF UpsertIndexedFile, LocalInv, Writing
    <3>2. file' \in [Paths -> FileRow]
      BY <3>1, <2>4 DEF UpsertIndexedFile, FileRow, Active
    <3> QED
      BY <2>4, <3>2 DEF UpsertIndexedFile, Goes, Fault
  <2>5. CASE DeleteOldChunks(j) \/ LoopEnds(j)
    BY <2>5 DEF DeleteOldChunks, LoopEnds, Goes, Finishes
  <2>6. CASE InsertChunks(j)
    <3>1. pc[j] = "insert"
      BY <2>6 DEF InsertChunks
    <3>2. cur[j] \in Paths /\ seen[j][cur[j]] \in Texts
      BY <3>1 DEF LocalInv, Writing
    <3>3. chunk' = [chunk EXCEPT ![cur[j]] = seen[j][cur[j]]] \/ UNCHANGED chunk
      BY <2>6 DEF InsertChunks
    <3>4. chunk' \in [Paths -> Texts \union {"gone"}]
      <4>1. PICK p \in Paths, x \in Texts : p = cur[j] /\ x = seen[j][cur[j]]
        BY <3>2
      <4>2. chunk' = [chunk EXCEPT ![p] = x] \/ chunk' = chunk
        BY <3>3, <4>1
      <4>3. chunk \in [Paths -> Texts \union {"gone"}]
        OBVIOUS
      <4> QED BY <4>2, <4>3, ZenonT(60)
    <3>5. faults' \in Nat /\ UNCHANGED <<disk, edits, misses, file, row>>
      BY <2>6 DEF InsertChunks, Goes, Fault
    <3> QED
      BY <3>4, <3>5
  <2>7. CASE MarkFilesDeleted(j)
    <3>1. file' = [p \in Paths |-> IF p \in ToDelete(j) /\ file[p].state = "active"
                                  THEN [file[p] EXCEPT !.state = "deleted"] ELSE file[p]]
      BY <2>7 DEF MarkFilesDeleted
    <3>2. file' \in [Paths -> FileRow]
      <4>1. ASSUME NEW p \in Paths PROVE [file[p] EXCEPT !.state = "deleted"] \in FileRow
        BY RowDeleted
      <4> QED
        BY <3>1, <4>1
    <3>3. faults' \in Nat
      BY <2>7, FinishesTyped DEF MarkFilesDeleted, Goes, Fault
    <3> QED
      BY <2>7, <3>2, <3>3 DEF MarkFilesDeleted
  <2>8. CASE DeleteChunksByFileIds(j)
    BY <2>8 DEF DeleteChunksByFileIds, Finishes, Goes, Fault
  <2>9. CASE UpdateMetrics(j) \/ ZeroMetrics(j)
    <3>1. faults' \in Nat
      BY <2>9 DEF UpdateMetrics, ZeroMetrics, Replies, Goes, Fault
    <3> QED
      BY <2>9, <3>1 DEF UpdateMetrics, ZeroMetrics
  <2>10. CASE CompleteIndexRun(j) \/ FailIndexRun(j)
    <3>1. faults' \in Nat /\ UNCHANGED <<disk, edits, misses, file, chunk>>
      BY <2>10 DEF CompleteIndexRun, FailIndexRun, Fault
    <3>2. row' = [row EXCEPT ![j] = "completed"] \/ row' = [row EXCEPT ![j] = "failed"]
      BY <2>10 DEF CompleteIndexRun, FailIndexRun
    <3> QED
      BY <3>1, <3>2
  <2>11. CASE StatementFails(j) \/ WindowDies(j)
    BY <2>11 DEF StatementFails, WindowDies, Fault
  <2>12. ASSUME NEW p \in Paths, ScanFile(j, p) \/ TakeCandidate(j, p) \/ LoadCandidate(j, p)
         PROVE  TableTyped'
    BY <2>12 DEF ScanFile, TakeCandidate, LoadCandidate, Goes, Miss
  <2> QED
    BY <1>4, <2>1, <2>2, <2>3, <2>4, <2>5, <2>6, <2>7, <2>8, <2>9, <2>10, <2>11, <2>12 DEF Advance
<1> QED
  BY <1>1, <1>2, <1>3, <1>4 DEF Next

LEMMA FlowStep == ASSUME TypeOK, [Next]_vars PROVE FlowTyped'
<1> USE DEF diskVars, dbVars, loopVars, workVars
<1>1. CASE UNCHANGED vars
  BY <1>1 DEF vars, TypeOK, FlowTyped
<1>2. ASSUME NEW p \in Paths, NEW v \in OnDisk, Edit(p, v) PROVE FlowTyped'
  BY <1>2 DEF Edit, TypeOK, FlowTyped
<1>3. ASSUME NEW j \in Jobs, NEW k \in {"localIndex", "reconcile"}, Start(j, k) PROVE FlowTyped'
  BY <1>3, LabelSet DEF Start, TypeOK, FlowTyped
<1>4. ASSUME NEW j \in Jobs, Advance(j) PROVE FlowTyped'
  <2>1. CASE Raises(j)
    BY <2>1, RaisesTyped
  <2>2. ASSUME NEW next \in Labels, Goes(j, next), UNCHANGED <<mode, todo, errs, result>>
        PROVE  FlowTyped'
    BY <2>2, GoesTyped DEF TypeOK, FlowTyped
  <2>3. ASSUME Finishes(j), UNCHANGED <<mode, todo, errs>> PROVE FlowTyped'
    BY <2>3, FinishesTyped DEF TypeOK, FlowTyped
  <2>4. ASSUME Counted(j), UNCHANGED <<mode, todo, result>> PROVE FlowTyped'
    BY <2>4, CountedTyped DEF TypeOK, FlowTyped
  <2>5. ASSUME NEW res \in {"ok", "error"}, Ends(j, res), UNCHANGED <<mode, todo, errs>>
        PROVE  FlowTyped'
    BY <2>5, EndsTyped DEF TypeOK, FlowTyped
  <2>6. CASE CreateIndexRun(j) \/ UpdateMetrics(j) \/ ZeroMetrics(j)
    BY <2>1, <2>2, <2>6, LabelSet DEF CreateIndexRun, UpdateMetrics, ZeroMetrics, Replies
  <2>7. CASE SnapshotBefore(j) \/ ScanEnds(j) \/ DeleteOldChunks(j)
    BY <2>2, <2>7, LabelSet DEF SnapshotBefore, ScanEnds, DeleteOldChunks
  <2>8. CASE CodexReturns(j)
    <3>1. Goes(j, "after") /\ todo' = [todo EXCEPT ![j] = Paths] /\ UNCHANGED <<mode, errs, result>>
      BY <2>8 DEF CodexReturns
    <3> QED
      BY <3>1, GoesTyped, LabelSet DEF TypeOK, FlowTyped
  <2>9. CASE PlanReindex(j)
    <3>1. Diff(before[j], seen[j]) \subseteq Paths
      BY DEF Diff
    <3>2. CASE Ends(j, "ok") /\ mode' = [mode EXCEPT ![j] = "skipped"] /\ UNCHANGED <<todo, errs>>
      BY <3>2, EndsTyped DEF TypeOK, FlowTyped
    <3>3. CASE /\ mode' = [mode EXCEPT ![j] = "scoped"]
               /\ todo' = [todo EXCEPT ![j] = Diff(before[j], seen[j])]
               /\ pc' = [pc EXCEPT ![j] = "list"] /\ UNCHANGED <<result, errs>>
      BY <3>1, <3>3, LabelSet DEF TypeOK, FlowTyped
    <3>4. CASE /\ mode' = [mode EXCEPT ![j] = "fallback_full"]
               /\ todo' = [todo EXCEPT ![j] = Paths]
               /\ pc' = [pc EXCEPT ![j] = "scan"] /\ UNCHANGED <<result, errs>>
      BY <3>4, LabelSet DEF TypeOK, FlowTyped
    <3> QED
      BY <2>9, <3>2, <3>3, <3>4 DEF PlanReindex
  <2>10. CASE ListProjectFiles(j)
    <3>1. CASE Goes(j, "next") /\ UNCHANGED <<result, mode, errs>>
      <4>1. todo' \in [Jobs -> SUBSET Paths] \/ Raises(j)
        <5>1. Candidates(j) \subseteq Paths
          BY DEF Candidates
        <5>2. todo' = todo \/ todo' = [todo EXCEPT ![j] = Candidates(j)] \/ Raises(j)
          BY <2>10 DEF ListProjectFiles
        <5>3. todo \in [Jobs -> SUBSET Paths]
          BY DEF TypeOK
        <5> QED
          BY <5>1, <5>2, <5>3
      <4> QED
        BY <2>1, <3>1, <4>1, GoesTyped, LabelSet DEF TypeOK, FlowTyped
    <3> QED
      BY <2>1, <2>10, <3>1 DEF ListProjectFiles
  <2>11. CASE UpsertIndexedFile(j)
    <3>1. CASE Goes(j, IF Rewrites(j) THEN "cut" ELSE "next") /\ UNCHANGED errs
      BY <2>2, <2>11, <3>1, LabelSet DEF UpsertIndexedFile
    <3> QED
      BY <2>4, <2>11, <3>1 DEF UpsertIndexedFile
  <2>12. CASE InsertChunks(j)
    BY <2>2, <2>4, <2>12, LabelSet DEF InsertChunks
  <2>13. CASE LoopEnds(j)
    BY <2>2, <2>3, <2>13, LabelSet DEF LoopEnds
  <2>14. CASE MarkFilesDeleted(j)
    BY <2>1, <2>2, <2>3, <2>14, LabelSet DEF MarkFilesDeleted
  <2>15. CASE DeleteChunksByFileIds(j)
    BY <2>1, <2>3, <2>15 DEF DeleteChunksByFileIds
  <2>16. CASE CompleteIndexRun(j)
    BY <2>1, <2>5, <2>16 DEF CompleteIndexRun
  <2>17. CASE FailIndexRun(j)
    BY <2>5, <2>17 DEF FailIndexRun
  <2>18. CASE StatementFails(j)
    BY <2>1, <2>4, <2>18 DEF StatementFails
  <2>19. CASE WindowDies(j)
    BY <2>19, LabelSet DEF WindowDies, TypeOK, FlowTyped
  <2>20. ASSUME NEW p \in Paths, ScanFile(j, p) PROVE FlowTyped'
    BY <2>20, ZenonT(60) DEF ScanFile, TypeOK, FlowTyped
  <2>21. ASSUME NEW p \in Paths, TakeCandidate(j, p) PROVE FlowTyped'
    <3>1. Goes(j, "upsert") /\ todo' = [todo EXCEPT ![j] = @ \ {p}] /\ UNCHANGED <<mode, errs, result>>
      BY <2>21 DEF TakeCandidate
    <3> QED
      BY <3>1, GoesTyped, LabelSet DEF TypeOK, FlowTyped
  <2>22. ASSUME NEW p \in Paths, LoadCandidate(j, p) PROVE FlowTyped'
    <3>1. /\ todo' = [todo EXCEPT ![j] = @ \ {p}] /\ UNCHANGED <<mode, result>>
          /\ \/ Goes(j, "upsert") /\ UNCHANGED errs
             \/ Goes(j, "next") /\ UNCHANGED errs
             \/ errs' = [errs EXCEPT ![j] = TRUE] /\ UNCHANGED pc
      BY <2>22 DEF LoadCandidate
    <3>2. pc' \in [Jobs -> Labels]
      BY <3>1, GoesTyped, LabelSet DEF TypeOK
    <3> QED
      BY <3>1, <3>2 DEF TypeOK, FlowTyped
  <2> QED
    BY <1>4, <2>6, <2>7, <2>8, <2>9, <2>10, <2>11, <2>12, <2>13, <2>14, <2>15, <2>16, <2>17,
       <2>18, <2>19, <2>20, <2>21, <2>22 DEF Advance
<1> QED
  BY <1>1, <1>2, <1>3, <1>4 DEF Next

LEMMA LocalStep == ASSUME TypeOK, [Next]_vars PROVE LocalTyped'
<1> USE DEF diskVars, dbVars, loopVars, workVars
<1>1. CASE UNCHANGED vars
  BY <1>1 DEF vars, TypeOK, LocalTyped
<1>2. ASSUME NEW p \in Paths, NEW v \in OnDisk, Edit(p, v) PROVE LocalTyped'
  <2>1. UNCHANGED <<kind, seen, before, diff, known, cur, clash, marked>>
    BY <1>2 DEF Edit
  <2>2. calm' = [j \in Jobs |-> [calm[j] EXCEPT !.still = calm[j].still /\ pc[j] = "codex"]]
    BY <1>2 DEF Edit
  <2>3. calm' \in [Jobs -> CalmRow]
    <3>1. ASSUME NEW j \in Jobs
          PROVE  [calm[j] EXCEPT !.still = calm[j].still /\ pc[j] = "codex"] \in CalmRow
      <4>1. calm[j] \in CalmRow /\ calm[j].still \in BOOLEAN
        BY DEF TypeOK, CalmRow
      <4> QED
        BY <4>1, CalmEdit
    <3> QED
      BY <2>2, <3>1
  <2> QED
    BY <2>1, <2>3 DEF TypeOK, LocalTyped
<1>3. ASSUME NEW j \in Jobs, NEW k \in {"localIndex", "reconcile"}, Start(j, k) PROVE LocalTyped'
  <2>1. /\ UNCHANGED <<seen, before, diff, known, cur, clash, marked>>
        /\ kind' = [kind EXCEPT ![j] = k]
    BY <1>3 DEF Start
  <2>2. calm' \in [Jobs -> CalmRow]
    <3>1. PICK c : c = [alone |-> Running = {}, still |-> TRUE,
                        exact |-> \A p \in Paths : Exact(p), torn |-> {p \in Paths : Torn(p)}]
      OBVIOUS
    <3>2. calm' = [i \in Jobs |-> IF i = j THEN c ELSE [calm[i] EXCEPT !.alone = FALSE]]
      BY <1>3, <3>1 DEF Start
    <3>3. c \in CalmRow
      BY <3>1 DEF CalmRow
    <3>4. \A i \in Jobs : [calm[i] EXCEPT !.alone = FALSE] \in CalmRow
      <4>1. \A i \in Jobs : calm[i] \in CalmRow
        BY DEF TypeOK, CalmRow
      <4> QED
        BY <4>1, CalmLeft
    <3> QED
      BY <3>2, <3>3, <3>4
  <2> QED
    BY <2>1, <2>2, ZenonT(60) DEF TypeOK, LocalTyped
<1>4. ASSUME NEW j \in Jobs, Advance(j) PROVE LocalTyped'
  <2>1. ASSUME NEW p \in Paths, ScanFile(j, p) PROVE LocalTyped'
    <3>1. PICK r \in Reading : seen' = [seen EXCEPT ![j][p] = r]
      BY <2>1 DEF ScanFile, TypeOK, Reading
    <3>2. seen' \in [Jobs -> [Paths -> Reading]]
      BY <3>1 DEF TypeOK
    <3> QED
      BY <2>1, <3>2 DEF ScanFile, TypeOK, LocalTyped
  <2>2. ASSUME NEW p \in Paths, LoadCandidate(j, p) PROVE LocalTyped'
    <3>1. PICK r \in Reading : seen' = [seen EXCEPT ![j][p] = r]
      BY <2>2 DEF LoadCandidate, TypeOK, Reading
    <3>2. seen' \in [Jobs -> [Paths -> Reading]]
      BY <3>1 DEF TypeOK
    <3>3. marked' = [marked EXCEPT ![j] = @ \union {p}] \/ UNCHANGED marked
      BY <2>2 DEF LoadCandidate
    <3>4. cur' = [cur EXCEPT ![j] = p] /\ UNCHANGED <<kind, before, diff, known, clash, calm>>
      BY <2>2 DEF LoadCandidate
    <3>5. marked' \in [Jobs -> SUBSET Paths]
      <4>1. marked \in [Jobs -> SUBSET Paths]
        BY DEF TypeOK
      <4> QED
        BY <3>3, <4>1
    <3> QED
      BY <3>2, <3>4, <3>5 DEF TypeOK, LocalTyped
  <2>3. ASSUME NEW p \in Paths, TakeCandidate(j, p) PROVE LocalTyped'
    BY <2>3 DEF TakeCandidate, TypeOK, LocalTyped
  <2>4. CASE SnapshotBefore(j)
    BY <2>4 DEF SnapshotBefore, TypeOK, LocalTyped
  <2>5. CASE PlanReindex(j)
    BY <2>5 DEF PlanReindex, Diff, Deleted, TypeOK, LocalTyped
  <2>6. CASE ListProjectFiles(j)
    BY <2>6 DEF ListProjectFiles, TypeOK, LocalTyped
  <2>7. CASE DeleteOldChunks(j)
    BY <2>7 DEF DeleteOldChunks, TypeOK, LocalTyped
  <2>8. CASE InsertChunks(j)
    <3>1. clash' \in [Jobs -> BOOLEAN]
      <4>1. \/ clash' = clash
            \/ clash' = [i \in Jobs |-> clash[i] \/ (pc[i] = "insert" /\ cur[i] = cur[j] /\ i # j)]
        BY <2>8 DEF InsertChunks
      <4>2. ASSUME NEW i \in Jobs
            PROVE  (clash[i] \/ (pc[i] = "insert" /\ cur[i] = cur[j] /\ i # j)) \in BOOLEAN
        OBVIOUS
      <4>3. clash \in [Jobs -> BOOLEAN]
        BY DEF TypeOK
      <4> QED
        BY <4>1, <4>2, <4>3
    <3>2. UNCHANGED <<kind, seen, before, diff, known, cur, marked, calm>>
      BY <2>8 DEF InsertChunks
    <3> QED
      BY <3>1, <3>2 DEF TypeOK, LocalTyped
  <2>9. CASE MarkFilesDeleted(j)
    <3>1. PICK hit \in SUBSET Paths : marked' = [marked EXCEPT ![j] = hit]
      BY <2>9 DEF MarkFilesDeleted, ToDelete, Candidates, TypeOK
    <3> QED
      BY <2>9, <3>1 DEF MarkFilesDeleted, TypeOK, LocalTyped
  <2>10. CASE CreateIndexRun(j) \/ CodexReturns(j) \/ ScanEnds(j) \/ UpsertIndexedFile(j)
    BY <2>10 DEF CreateIndexRun, CodexReturns, ScanEnds, UpsertIndexedFile, TypeOK, LocalTyped
  <2>11. CASE LoopEnds(j) \/ DeleteChunksByFileIds(j) \/ UpdateMetrics(j) \/ CompleteIndexRun(j)
    BY <2>11 DEF LoopEnds, DeleteChunksByFileIds, UpdateMetrics, CompleteIndexRun, TypeOK,
                 LocalTyped
  <2>12. CASE ZeroMetrics(j) \/ FailIndexRun(j) \/ StatementFails(j) \/ WindowDies(j)
    BY <2>12 DEF ZeroMetrics, FailIndexRun, StatementFails, WindowDies, TypeOK, LocalTyped
  <2> QED
    BY <1>4, <2>1, <2>2, <2>3, <2>4, <2>5, <2>6, <2>7, <2>8, <2>9, <2>10, <2>11, <2>12
    DEF Advance
<1> QED
  BY <1>1, <1>2, <1>3, <1>4 DEF Next

LEMMA TypeStep ==
    ASSUME TypeOK, \A j \in Jobs : LocalInv(j), [Next]_vars
    PROVE  TypeOK'
  BY TableStep, FlowStep, LocalStep DEF TableTyped, FlowTyped, LocalTyped, TypeOK

-----------------------------------------------------------------------------
(***************************************************************************)
(* A step of one job and the others.                                       *)
(***************************************************************************)
Solo(j) ==
    /\ calm' = calm
    /\ \A i \in Jobs \ {j} :
         /\ pc'[i] = pc[i] /\ kind'[i] = kind[i] /\ mode'[i] = mode[i] /\ result'[i] = result[i]
         /\ todo'[i] = todo[i] /\ seen'[i] = seen[i] /\ cur'[i] = cur[i] /\ diff'[i] = diff[i]

LEMMA AdvanceRuns == ASSUME NEW j \in Jobs, Advance(j) PROVE j \in Running
<1> SUFFICES pc[j] \notin {"idle", "done"}
  BY DEF Running, Quiet
<1>1. CASE CreateIndexRun(j) \/ SnapshotBefore(j) \/ CodexReturns(j) \/ PlanReindex(j) \/ ScanEnds(j)
  BY <1>1 DEF CreateIndexRun, SnapshotBefore, CodexReturns, PlanReindex, ScanEnds, Scanned
<1>2. CASE ListProjectFiles(j) \/ UpsertIndexedFile(j) \/ DeleteOldChunks(j) \/ InsertChunks(j)
  BY <1>2 DEF ListProjectFiles, UpsertIndexedFile, DeleteOldChunks, InsertChunks
<1>3. CASE LoopEnds(j) \/ MarkFilesDeleted(j) \/ DeleteChunksByFileIds(j) \/ UpdateMetrics(j)
  BY <1>3 DEF LoopEnds, MarkFilesDeleted, DeleteChunksByFileIds, UpdateMetrics
<1>4. CASE CompleteIndexRun(j) \/ ZeroMetrics(j) \/ FailIndexRun(j)
  BY <1>4 DEF CompleteIndexRun, ZeroMetrics, FailIndexRun
<1>5. CASE StatementFails(j) \/ WindowDies(j)
  BY <1>5 DEF StatementFails, WindowDies, Statements, Quiet
<1>6. ASSUME NEW p \in Paths, ScanFile(j, p) \/ TakeCandidate(j, p) \/ LoadCandidate(j, p)
      PROVE  pc[j] \notin {"idle", "done"}
  BY <1>6 DEF ScanFile, TakeCandidate, LoadCandidate, Scanning, Snapshots
<1> QED
  BY <1>1, <1>2, <1>3, <1>4, <1>5, <1>6 DEF Advance

LEMMA AdvanceCounts ==
    ASSUME TypeOK, faults <= MaxFaults, NEW j \in Jobs, Advance(j)
    PROVE  faults' <= MaxFaults
<1> DEFINE Ok == faults' <= MaxFaults
<1>1. ASSUME Fault PROVE Ok
  BY <1>1, ConstantsOK DEF Fault, TypeOK
<1>2. ASSUME faults' = faults PROVE Ok
  BY <1>2
<1>3. CASE CreateIndexRun(j) \/ UpdateMetrics(j) \/ ZeroMetrics(j)
  BY <1>1, <1>2, <1>3 DEF CreateIndexRun, UpdateMetrics, ZeroMetrics, Replies, Goes
<1>4. CASE SnapshotBefore(j) \/ CodexReturns(j) \/ PlanReindex(j) \/ ScanEnds(j)
  BY <1>2, <1>4 DEF SnapshotBefore, CodexReturns, PlanReindex, ScanEnds, Goes
<1>5. CASE ListProjectFiles(j) \/ UpsertIndexedFile(j)
  BY <1>1, <1>2, <1>5 DEF ListProjectFiles, UpsertIndexedFile, Goes
<1>6. CASE DeleteOldChunks(j) \/ InsertChunks(j)
  BY <1>1, <1>2, <1>6 DEF DeleteOldChunks, InsertChunks, Goes
<1>7. CASE LoopEnds(j) \/ DeleteChunksByFileIds(j)
  BY <1>1, <1>2, <1>7 DEF LoopEnds, DeleteChunksByFileIds, Goes, Finishes
<1>8. CASE MarkFilesDeleted(j)
  BY <1>1, <1>2, <1>8 DEF MarkFilesDeleted, Goes, Finishes
<1>9. CASE CompleteIndexRun(j) \/ FailIndexRun(j)
  BY <1>1, <1>2, <1>9 DEF CompleteIndexRun, FailIndexRun
<1>10. CASE StatementFails(j) \/ WindowDies(j)
  BY <1>1, <1>10 DEF StatementFails, WindowDies
<1>11. ASSUME NEW p \in Paths, ScanFile(j, p) \/ TakeCandidate(j, p) \/ LoadCandidate(j, p)
       PROVE  Ok
  BY <1>2, <1>11 DEF ScanFile, TakeCandidate, LoadCandidate, Goes
<1> QED
  BY <1>3, <1>4, <1>5, <1>6, <1>7, <1>8, <1>9, <1>10, <1>11 DEF Advance

LEMMA SoloStep == ASSUME TypeOK, NEW j \in Jobs, Advance(j) PROVE Solo(j)
<1> USE DEF Solo, loopVars, workVars
<1>1. TypeOK
  OBVIOUS
<1>2. ASSUME Goes(j, "next") \/ Goes(j, "upsert") \/ Goes(j, "cut") \/ Goes(j, "insert")
             \/ Goes(j, "scan") \/ Goes(j, "list") \/ Goes(j, "codex") \/ Goes(j, "after")
             \/ Goes(j, "mark") \/ Goes(j, "purge") \/ Goes(j, "metrics") \/ Goes(j, "complete")
             \/ Goes(j, "failcomplete")
      PROVE  \A i \in Jobs \ {j} : pc'[i] = pc[i]
  BY <1>2, GoesTyped, LabelSet
<1>3. ASSUME Raises(j)
      PROVE  \A i \in Jobs \ {j} : /\ pc'[i] = pc[i] /\ mode'[i] = mode[i]
                                   /\ result'[i] = result[i] /\ todo'[i] = todo[i]
  BY <1>3, RaisesTyped
<1>4. CASE CreateIndexRun(j) \/ UpdateMetrics(j) \/ ZeroMetrics(j)
  BY <1>2, <1>3, <1>4 DEF CreateIndexRun, UpdateMetrics, ZeroMetrics, Replies
<1>5. CASE SnapshotBefore(j) \/ ScanEnds(j) \/ DeleteOldChunks(j)
  BY <1>2, <1>5 DEF SnapshotBefore, ScanEnds, DeleteOldChunks
<1>6. CASE CodexReturns(j)
  BY <1>2, <1>6 DEF CodexReturns, TypeOK
<1>7. CASE PlanReindex(j)
  BY <1>7 DEF PlanReindex, Ends, TypeOK
<1>8. CASE ListProjectFiles(j)
  BY <1>2, <1>3, <1>8 DEF ListProjectFiles, TypeOK
<1>9. CASE UpsertIndexedFile(j)
  <2>1. UNCHANGED <<todo, seen, cur, kind, mode, result, diff, calm>>
    BY <1>9 DEF UpsertIndexedFile
  <2>2. \A i \in Jobs \ {j} : pc'[i] = pc[i]
    BY <1>2, <1>9, CountedTyped DEF UpsertIndexedFile
  <2> QED
    BY <2>1, <2>2
<1>10. CASE InsertChunks(j)
  <2>1. UNCHANGED <<todo, seen, cur, kind, mode, result, diff, calm>>
    BY <1>10 DEF InsertChunks
  <2>2. \A i \in Jobs \ {j} : pc'[i] = pc[i]
    BY <1>2, <1>10, CountedTyped DEF InsertChunks
  <2> QED
    BY <2>1, <2>2
<1>11. CASE LoopEnds(j)
  BY <1>2, <1>11, FinishesTyped DEF LoopEnds
<1>12. CASE MarkFilesDeleted(j)
  <2>1. UNCHANGED <<seen, cur, kind, diff, calm>>
    BY <1>12 DEF MarkFilesDeleted
  <2>2. \A i \in Jobs \ {j} : /\ pc'[i] = pc[i] /\ mode'[i] = mode[i]
                              /\ result'[i] = result[i] /\ todo'[i] = todo[i]
    BY <1>2, <1>3, <1>12, FinishesTyped DEF MarkFilesDeleted
  <2> QED
    BY <2>1, <2>2
<1>13. CASE DeleteChunksByFileIds(j)
  BY <1>3, <1>13, FinishesTyped DEF DeleteChunksByFileIds
<1>14. CASE CompleteIndexRun(j) \/ FailIndexRun(j)
  BY <1>3, <1>14, EndsTyped DEF CompleteIndexRun, FailIndexRun
<1>15. CASE StatementFails(j)
  BY <1>3, <1>15, CountedTyped DEF StatementFails
<1>16. CASE WindowDies(j)
  BY <1>16 DEF WindowDies, TypeOK
<1>17. ASSUME NEW p \in Paths, ScanFile(j, p) PROVE Solo(j)
  BY <1>17 DEF ScanFile, TypeOK
<1>18. ASSUME NEW p \in Paths, TakeCandidate(j, p) PROVE Solo(j)
  BY <1>2, <1>18 DEF TakeCandidate, TypeOK
<1>19. ASSUME NEW p \in Paths, LoadCandidate(j, p) PROVE Solo(j)
  BY <1>2, <1>19 DEF LoadCandidate, TypeOK
<1> QED
  BY <1>4, <1>5, <1>6, <1>7, <1>8, <1>9, <1>10, <1>11, <1>12, <1>13, <1>14, <1>15, <1>16,
     <1>17, <1>18, <1>19 DEF Advance

(* What a job does leaves the invariants of the others alone: beside it    *)
(* nobody is alone, and their locals are their own.                        *)
LEMMA OthersKeep ==
    ASSUME AloneInv, NEW j \in Jobs, j \in Running, Solo(j), NEW i \in Jobs \ {j}, LocalInv(i)
    PROVE  JobInv(i)'
<1>1. ~calm'[i].alone
  BY DEF AloneInv, Solo
<1>2. LocalInv(i)'
  BY DEF LocalInv, Solo, Scoped, Candidates
<1> QED
  BY <1>1, <1>2 DEF JobInv, Still

-----------------------------------------------------------------------------
(***************************************************************************)
(* The job that takes the step.                                            *)
(***************************************************************************)
LEMMA Frame ==
    ASSUME NEW p \in Paths, disk'[p] = disk[p], file'[p] = file[p], chunk'[p] = chunk[p]
    PROVE  /\ Sound(p)' <=> Sound(p)
           /\ Exact(p)' <=> Exact(p)
           /\ \A text : Recorded(p, text)' <=> Recorded(p, text)
  BY DEF Sound, Exact, FileExact, Recorded

LEMMA NoFault == ASSUME IndexInv, Undisturbed PROVE ~Fault
  BY ConstantsOK DEF IndexInv, AloneInv, Undisturbed, Fault, TypeOK

(* A rejected await leaves nothing to keep but what has been read.         *)
LEMMA RaiseKeeps ==
    ASSUME IndexInv, NEW j \in Jobs, pc[j] \in Statements, Raises(j),
           UNCHANGED <<disk, calm, kind, seen, before, diff>>
    PROVE  JobInv(j)'
<1>1. LocalInv(j) /\ (Still(j) => ReadInv(j) /\ ScopedInv(j))
  BY DEF IndexInv, JobInv
<1>2. Thrown(j)
  BY RaisesTyped DEF IndexInv
<1>3. /\ kind'[j] = kind[j] /\ seen'[j] = seen[j] /\ diff'[j] = diff[j] /\ calm'[j] = calm[j]
      /\ result[j] # "ok" /\ mode[j] # "skipped" /\ pc[j] \notin {"idle", "codex", "done", "after"}
  BY <1>1 DEF LocalInv, Statements
<1>4. CASE /\ pc'[j] \in {"done", "failmetrics"} /\ mode' = mode
           /\ result'[j] \in {result[j], "error"} /\ (pc'[j] = "failmetrics" => kind[j] = "localIndex")
  <2>1. result'[j] # "ok"
    BY <1>3, <1>4
  <2>2. LocalInv(j)'
    BY <1>1, <1>3, <1>4, <2>1 DEF LocalInv, Writing, Loop, Indexing, Statements
  <2>3. LoopInv(j)' /\ FullInv(j)' /\ SnapInv(j)'
    BY <1>4, <2>1 DEF LoopInv, FullInv, SnapInv, Loop, Writing
  <2>4. Still(j) => ReadInv(j)'
    BY <1>1, <1>3, <1>4 DEF ReadInv, Indexing
  <2>5. Still(j) => ScopedInv(j)'
    BY <1>1, <1>3, <1>4, <2>1 DEF ScopedInv, Reindexing, Loop, Scoped
  <2> QED
    BY <1>3, <2>2, <2>3, <2>4, <2>5 DEF JobInv, Still
<1>5. CASE /\ pc'[j] = "scan" /\ mode'[j] = "fallback_full" /\ todo'[j] = Paths
           /\ kind[j] # "localIndex" /\ result' = result
  <2>1. LocalInv(j)'
    BY <1>1, <1>3, <1>5 DEF LocalInv, Writing, Loop, Indexing, Scoped, Statements
  <2>2. LoopInv(j)' /\ FullInv(j)' /\ SnapInv(j)' /\ ScopedInv(j)'
    BY <1>3, <1>5 DEF LoopInv, FullInv, SnapInv, ScopedInv, Loop, Writing, Scoped
  <2>3. Still(j) => ReadInv(j)'
    BY <1>1, <1>3, <1>5 DEF ReadInv, Indexing
  <2> QED
    BY <1>3, <2>1, <2>2, <2>3 DEF JobInv, Still
<1> QED
  BY <1>2, <1>4, <1>5 DEF Thrown

(* A failure on one file is counted: no claim of exactness is left, and    *)
(* the other files are as they were.                                       *)
LEMMA CountedKeeps ==
    ASSUME IndexInv, NEW j \in Jobs, pc[j] \in Writing, Counted(j),
           UNCHANGED <<disk, calm, kind, seen, before, diff, mode, todo, known, marked, result>>,
           \A p \in Paths : p # cur[j] => file'[p] = file[p] /\ chunk'[p] = chunk[p]
    PROVE  JobInv(j)'
<1>1. /\ LocalInv(j) /\ (calm[j].alone => LoopInv(j))
      /\ (Still(j) => ReadInv(j) /\ SnapInv(j) /\ ScopedInv(j))
  BY DEF IndexInv, JobInv
<1>2. pc'[j] = "next" /\ errs'[j]
  BY CountedTyped DEF IndexInv
<1>3. /\ result[j] # "ok" /\ mode[j] # "skipped"
      /\ cur[j] \in Paths /\ cur[j] \notin todo[j] /\ seen[j][cur[j]] \in Texts
  BY <1>1 DEF LocalInv, Writing
<1>4. LocalInv(j)'
  BY <1>1, <1>2, <1>3 DEF LocalInv, Writing, Loop, Indexing, Scoped, Candidates
<1>5. calm[j].alone => LoopInv(j)'
  <2>1. todo[j] \subseteq Paths
    BY DEF IndexInv, TypeOK
  <2> QED
    BY <1>1, <1>2, <1>3, <2>1 DEF LoopInv, Writing, Loop, Scoped, Candidates
<1>6. FullInv(j)' /\ SnapInv(j)'
  BY <1>2 DEF FullInv, SnapInv
<1>7. Still(j) => ReadInv(j)'
  BY <1>1, <1>2 DEF ReadInv, Indexing, Writing
<1>8. Still(j) => ScopedInv(j)'
  <2> SUFFICES ASSUME Still(j), Scoped(j) PROVE ScopedInv(j)'
    BY <1>3 DEF ScopedInv, Scoped
  <2>1. ScopedInv(j) /\ cur[j] \in diff[j].changed
    BY <1>1 DEF ScopedInv, Unwritten, Writing, Loop
  <2>2. ASSUME NEW p \in Paths \ diff[j].changed PROVE (Exact(p) \/ BlindAt(j, p))' <=> (Exact(p) \/ BlindAt(j, p))
    BY <2>1, Frame DEF BlindAt
  <2>3. Unwritten(j)' \subseteq Unwritten(j)
    BY <1>2 DEF Unwritten, Writing
  <2> QED
    BY <1>2, <1>3, <2>1, <2>2, <2>3 DEF ScopedInv, Reindexing, Loop, Writing, Scoped
<1> QED
  BY <1>4, <1>5, <1>6, <1>7, <1>8 DEF JobInv, Still

(* Steps that touch neither the workspace nor files nor file_chunks.       *)
LEMMA ReadingKeeps ==
    ASSUME IndexInv, NEW j \in Jobs, NEW p \in Paths, ScanFile(j, p)
    PROVE  JobInv(j)'
<1>1. /\ LocalInv(j)
      /\ (Still(j) => ReadInv(j) /\ SnapInv(j) /\ ScopedInv(j))
      /\ TypeOK
  BY DEF IndexInv, JobInv
<1>2. /\ pc[j] \in {"before", "after", "scan"} /\ p \in todo[j]
      /\ todo'[j] = todo[j] \ {p}
      /\ UNCHANGED <<disk, file, chunk, pc, kind, mode, before, diff, known, marked, clash, result,
                     calm>>
  BY <1>1 DEF ScanFile, dbVars, workVars, TypeOK, Scanning, Snapshots
<1>3. \A q \in Paths : q # p => seen'[j][q] = seen[j][q]
  BY <1>1 DEF ScanFile, TypeOK
<1>4. \/ seen'[j][p] = disk[p] /\ errs'[j] = errs[j]
      \/ seen'[j][p] = "unread" /\ (pc[j] = "scan" => errs'[j])
  <2>1. CASE seen' = [seen EXCEPT ![j][p] = disk[p]] /\ UNCHANGED errs
    BY <1>1, <2>1 DEF TypeOK
  <2>2. CASE /\ seen' = [seen EXCEPT ![j][p] = "unread"]
             /\ errs' = [errs EXCEPT ![j] = @ \/ pc[j] = "scan"]
    <3>1. seen'[j][p] = "unread"
      BY <1>1, <2>2 DEF TypeOK
    <3>2. errs'[j] = (errs[j] \/ pc[j] = "scan")
      BY <1>1, <2>2 DEF TypeOK
    <3> QED
      BY <3>1, <3>2
  <2> QED
    BY <2>1, <2>2 DEF ScanFile
<1>5. ~errs'[j] => ~errs[j]
  BY <1>1 DEF ScanFile, TypeOK
<1>6. mode[j] # "skipped" /\ result[j] # "ok" /\ ~Scoped(j)
  BY <1>1, <1>2 DEF LocalInv, Scoped
<1>7. LocalInv(j)'
  BY <1>1, <1>2, <1>6 DEF LocalInv, Writing, Loop, Indexing, Scoped
<1>8. LoopInv(j)' /\ FullInv(j)' /\ ScopedInv(j)'
  BY <1>2, <1>6 DEF LoopInv, FullInv, ScopedInv, Loop, Scoped
<1>9. Still(j) => SnapInv(j)'
  BY <1>1, <1>2, Frame DEF SnapInv
<1>10. Still(j) => ReadInv(j)'
  <2> SUFFICES ASSUME Still(j) PROVE ReadInv(j)'
    OBVIOUS
  <2>1. disk[p] # "unread"
    BY <1>1, ConstantsOK DEF TypeOK, OnDisk
  <2> QED
    BY <1>1, <1>2, <1>3, <1>4, <1>5, <2>1 DEF ReadInv, Indexing, Scoped
<1> QED
  BY <1>2, <1>7, <1>8, <1>9, <1>10 DEF JobInv, Still

LEMMA SnapshotKeeps ==
    ASSUME IndexInv, NEW j \in Jobs, SnapshotBefore(j) \/ CodexReturns(j)
    PROVE  JobInv(j)'
<1>1. LocalInv(j) /\ (Still(j) => ReadInv(j) /\ SnapInv(j)) /\ TypeOK
  BY DEF IndexInv, JobInv
<1>2. UNCHANGED <<disk, file, chunk, kind, mode, seen, diff, known, marked, cur, result, calm>>
  BY DEF SnapshotBefore, CodexReturns, diskVars, dbVars, workVars, loopVars
<1>3. \/ /\ pc[j] = "before" /\ pc'[j] = "codex" /\ before'[j] = seen[j] /\ todo[j] = {}
      \/ /\ pc[j] = "codex" /\ pc'[j] = "after" /\ before'[j] = before[j] /\ todo'[j] = Paths
  BY <1>1, GoesTyped, LabelSet DEF SnapshotBefore, CodexReturns, Scanned, workVars, TypeOK
<1>4. mode[j] = "full" /\ result[j] # "ok"
  BY <1>1, <1>3 DEF LocalInv
<1>5. LocalInv(j)'
  BY <1>1, <1>2, <1>3, <1>4 DEF LocalInv, Writing, Loop, Indexing
<1>6. LoopInv(j)' /\ FullInv(j)' /\ ScopedInv(j)'
  BY <1>2, <1>3, <1>4 DEF LoopInv, FullInv, ScopedInv, Loop, Scoped
<1>7. ReadInv(j)'
  BY <1>3 DEF ReadInv, Indexing
<1>8. Still(j) => SnapInv(j)'
  <2> SUFFICES ASSUME Still(j), Undisturbed, calm[j].exact,
                      NEW p \in Paths, before'[j][p] # "unread"
               PROVE  Recorded(p, before'[j][p])
    BY <1>2, <1>3, Frame DEF SnapInv
  <2>1. CASE pc[j] = "before"
    <3>1. before'[j][p] = disk[p] /\ Exact(p)
      BY <1>1, <1>3, <2>1 DEF ReadInv, SnapInv
    <3> QED
      BY <3>1 DEF Exact, FileExact, Recorded
  <2>2. CASE pc[j] = "codex"
    BY <1>1, <1>3, <2>2 DEF SnapInv
  <2> QED
    BY <1>3, <2>1, <2>2
<1> QED
  BY <1>2, <1>5, <1>6, <1>7, <1>8 DEF JobInv, Still

LEMMA PlanKeeps ==
    ASSUME IndexInv, NEW j \in Jobs, PlanReindex(j)
    PROVE  JobInv(j)'
<1> DEFINE changed == Diff(before[j], seen[j])
           deleted == Deleted(before[j], seen[j])
<1>1. LocalInv(j) /\ (Still(j) => ReadInv(j) /\ SnapInv(j)) /\ TypeOK
  BY DEF IndexInv, JobInv
<1>2. /\ pc[j] = "after" /\ todo[j] = {}
      /\ UNCHANGED <<disk, file, chunk, kind, seen, before, known, marked, cur, errs, calm>>
      /\ diff'[j].changed = changed /\ diff'[j].deleted = deleted
  BY <1>1 DEF PlanReindex, Scanned, diskVars, dbVars, TypeOK
<1>3. \/ /\ changed = {} /\ pc'[j] = "done" /\ result'[j] = "ok" /\ mode'[j] = "skipped"
      \/ /\ mode'[j] = "scoped" /\ todo'[j] = changed /\ pc'[j] = "list" /\ result' = result
      \/ /\ mode'[j] = "fallback_full" /\ todo'[j] = Paths /\ pc'[j] = "scan" /\ result' = result
  BY <1>1 DEF PlanReindex, Ends, TypeOK
<1>4. kind[j] = "reconcile" /\ result[j] # "ok"
  BY <1>1, <1>2 DEF LocalInv
<1>5. LocalInv(j)'
  BY <1>1, <1>2, <1>3, <1>4 DEF LocalInv, Writing, Loop, Indexing, Scoped
<1>6. LoopInv(j)' /\ SnapInv(j)' /\ FullInv(j)'
  BY <1>2, <1>3, <1>4 DEF LoopInv, FullInv, SnapInv, Loop, FullRun, Scoped
<1>7. Still(j) => ReadInv(j)'
  BY <1>1, <1>2, <1>3 DEF ReadInv, Indexing, Scoped
<1>8. Still(j) => ScopedInv(j)'
  <2> SUFFICES ASSUME Still(j), mode'[j] \in {"scoped", "skipped"} PROVE ScopedInv(j)'
    BY DEF ScopedInv, Scoped
  <2>1. \A p \in Paths : seen[j][p] \in {disk[p], "unread"}
    BY <1>1, <1>2 DEF ReadInv
  <2>2. \A p \in changed \ deleted : disk[p] \in Texts
    BY <2>1, ConstantsOK DEF Diff, Deleted
  <2>3. ASSUME Undisturbed, calm[j].exact, NEW p \in Paths \ changed
        PROVE  Exact(p) \/ BlindAt(j, p)
    <3>1. before[j][p] # "unread" => Recorded(p, before[j][p])
      BY <1>1, <1>2, <2>3 DEF SnapInv
    <3>2. before[j][p] = seen[j][p] \/ (before[j][p] \notin Texts /\ seen[j][p] \notin Texts)
      BY <2>3 DEF Diff
    <3>3. CASE before[j][p] \in Texts
      <4>1. before[j][p] # "unread" /\ disk[p] = before[j][p]
        BY <2>1, <3>2, <3>3, ConstantsOK
      <4> QED
        BY <3>1, <3>3, <4>1 DEF Recorded, Exact, FileExact
    <3>4. CASE before[j][p] \notin Texts /\ "unread" \notin {before[j][p], seen[j][p]}
      <4>1. disk[p] \notin Texts /\ file[p].state # "active"
        BY <2>1, <3>1, <3>2, <3>4 DEF Recorded
      <4> QED
        BY <4>1 DEF Exact, FileExact
    <3> QED
      BY <3>2, <3>3, <3>4 DEF BlindAt
  <2>4. \A p \in Paths : (Exact(p) \/ BlindAt(j, p))' <=> (Exact(p) \/ BlindAt(j, p))
    BY <1>2, Frame DEF BlindAt
  <2>5. CASE pc'[j] = "done" /\ changed = {}
    BY <1>2, <2>3, <2>4, <2>5 DEF ScopedInv, Loop
  <2>6. CASE pc'[j] = "list" /\ result' = result /\ todo'[j] = changed
    BY <1>2, <1>4, <2>2, <2>3, <2>4, <2>6 DEF ScopedInv, Loop
  <2> QED
    BY <1>3, <2>5, <2>6
<1> QED
  BY <1>2, <1>5, <1>6, <1>7, <1>8 DEF JobInv, Still

(* Into the loop: what is known of a path is its row.                      *)
LEMMA ListingKeeps ==
    ASSUME IndexInv, NEW j \in Jobs, ScanEnds(j) \/ ListProjectFiles(j) \/ CreateIndexRun(j)
    PROVE  JobInv(j)'
<1>1. LocalInv(j) /\ (Still(j) => ReadInv(j) /\ ScopedInv(j)) /\ TypeOK
  BY DEF IndexInv, JobInv
<1>2. CASE Raises(j) /\ ~ScanEnds(j)
  <2>1. pc[j] \in Statements /\ UNCHANGED <<disk, calm, kind, seen, before, diff>>
    BY <1>2 DEF ListProjectFiles, CreateIndexRun, diskVars, Statements
  <2> QED
    BY <1>2, <2>1, RaiseKeeps
<1>3. CASE CreateIndexRun(j) /\ Goes(j, "scan") /\ UNCHANGED <<result, mode, todo, errs>>
  <2>1. /\ pc[j] = "create" /\ pc'[j] = "scan" /\ todo[j] = Paths /\ kind[j] = "localIndex"
        /\ mode[j] = "full"
    BY <1>1, <1>3, GoesTyped, LabelSet DEF CreateIndexRun, LocalInv
  <2>2. UNCHANGED <<disk, file, chunk, kind, mode, todo, seen, before, diff, result, calm>>
    BY <1>3 DEF CreateIndexRun, diskVars
  <2>3. LocalInv(j)' /\ LoopInv(j)' /\ FullInv(j)' /\ SnapInv(j)' /\ ScopedInv(j)'
    BY <1>1, <2>1, <2>2 DEF LocalInv, LoopInv, FullInv, SnapInv, ScopedInv, Writing, Loop,
                            Indexing, Scoped
  <2>4. Still(j) => ReadInv(j)'
    BY <1>1, <2>1, <2>2 DEF ReadInv, Indexing
  <2> QED
    BY <2>2, <2>3, <2>4 DEF JobInv, Still
<1>4. CASE ScanEnds(j)
  <2>1. pc[j] = "scan" /\ pc'[j] = "list" /\ todo[j] = {}
    BY <1>1, <1>4, GoesTyped, LabelSet DEF ScanEnds, Scanned
  <2>2. UNCHANGED <<disk, file, chunk, kind, mode, todo, seen, before, diff, result, errs, calm>>
    BY <1>4 DEF ScanEnds, diskVars, dbVars, loopVars, workVars
  <2>3. LocalInv(j)' /\ LoopInv(j)' /\ FullInv(j)' /\ SnapInv(j)' /\ ScopedInv(j)'
    BY <1>1, <2>1, <2>2 DEF LocalInv, LoopInv, FullInv, SnapInv, ScopedInv, Writing, Loop,
                            Indexing, Scoped
  <2>4. Still(j) => ReadInv(j)'
    BY <1>1, <2>1, <2>2 DEF ReadInv, Indexing, Scoped
  <2> QED
    BY <2>2, <2>3, <2>4 DEF JobInv, Still
<1>5. CASE ListProjectFiles(j) /\ Goes(j, "next") /\ UNCHANGED <<result, mode, errs>>
  <2>1. /\ pc[j] = "list" /\ pc'[j] = "next" /\ known'[j] = file /\ marked'[j] = {}
        /\ UNCHANGED <<disk, file, chunk, kind, seen, before, diff, calm>>
    BY <1>1, <1>5, GoesTyped, LabelSet DEF ListProjectFiles, diskVars, dbVars, TypeOK
  <2>2. \/ Scoped(j) /\ todo'[j] = todo[j]
        \/ ~Scoped(j) /\ todo'[j] = Candidates(j)
        \/ Raises(j)
    BY <1>1, <1>5 DEF ListProjectFiles, TypeOK
  <2>3. CASE Raises(j)
    BY <1>2, <1>4, <1>5, <2>3
  <2>4. CASE Scoped(j) /\ todo'[j] = todo[j]
    <3>1. todo[j] \subseteq Paths /\ mode[j] # "skipped"
      BY <1>1, <2>1 DEF TypeOK, LocalInv
    <3>2. LocalInv(j)' /\ LoopInv(j)' /\ FullInv(j)' /\ SnapInv(j)'
      BY <1>1, <1>5, <2>1, <2>4, <3>1 DEF LocalInv, LoopInv, FullInv, SnapInv, Writing, Loop, Indexing,
                                    Scoped
    <3>3. Still(j) => ReadInv(j)'
      BY <1>1, <1>5, <2>1, <2>4 DEF ReadInv, Indexing, Scoped
    <3>4. Still(j) => ScopedInv(j)'
      <4>1. \A p \in Paths : (Exact(p) \/ BlindAt(j, p))' <=> (Exact(p) \/ BlindAt(j, p))
        BY <2>1, Frame DEF BlindAt
      <4>2. result[j] # "ok" /\ Unwritten(j)' = todo[j]
        BY <1>1, <2>1, <2>4 DEF LocalInv, Unwritten, Writing
      <4> SUFFICES ASSUME Still(j) PROVE ScopedInv(j)'
        OBVIOUS
      <4>3. ScopedInv(j) /\ todo[j] = diff[j].changed
        BY <1>1, <2>1, <2>4 DEF ScopedInv
      <4>4. Reindexing(j)
        BY <2>1 DEF Reindexing
      <4> QED
        BY <1>5, <2>1, <2>4, <4>1, <4>2, <4>3, <4>4 DEF ScopedInv, Loop, Scoped
    <3> QED
      BY <2>1, <3>2, <3>3, <3>4 DEF JobInv, Still
  <2>5. CASE ~Scoped(j) /\ todo'[j] = Candidates(j)
    <3>1. mode[j] # "skipped" /\ Candidates(j)' = Candidates(j) /\ result[j] # "ok"
      BY <1>1, <2>1 DEF LocalInv, Candidates
    <3>2. LocalInv(j)' /\ LoopInv(j)' /\ SnapInv(j)' /\ ScopedInv(j)'
      BY <1>1, <1>5, <2>1, <2>5, <3>1
      DEF LocalInv, LoopInv, ScopedInv, SnapInv, Writing, Loop, Indexing, Scoped, Candidates
    <3>3. Still(j) => ReadInv(j)'
      BY <1>1, <1>5, <2>1, <2>5 DEF ReadInv, Indexing, Scoped
    <3>4. FullInv(j)'
      BY <1>5, <2>1, <2>5, <3>1 DEF FullInv, Unwritten, Loop, Writing
    <3> QED
      BY <2>1, <3>2, <3>3, <3>4 DEF JobInv, Still
  <2> QED
    BY <2>2, <2>3, <2>4, <2>5
<1> QED
  BY <1>2, <1>3, <1>4, <1>5 DEF ListProjectFiles, CreateIndexRun, Replies

(***************************************************************************)
(* The loop over files.                                                    *)
(***************************************************************************)
LEMMA NotIndexed ==
    ASSUME NEW p \in Paths, disk[p] \notin Texts, file[p].state # "active"
    PROVE  Sound(p) /\ Exact(p)
  BY DEF Sound, Exact, FileExact

LEMMA TakeKeeps ==
    ASSUME IndexInv, NEW j \in Jobs, NEW p \in Paths, TakeCandidate(j, p)
    PROVE  JobInv(j)'
<1>1. /\ LocalInv(j) /\ (calm[j].alone => LoopInv(j))
      /\ (Still(j) => ReadInv(j) /\ FullInv(j)) /\ TypeOK
  BY DEF IndexInv, JobInv
<1>2. /\ pc[j] = "next" /\ ~Scoped(j) /\ p \in todo[j]
      /\ pc'[j] = "upsert" /\ cur'[j] = p /\ todo'[j] = todo[j] \ {p}
      /\ UNCHANGED <<disk, file, chunk, kind, mode, seen, before, diff, known, marked, result, errs,
                     calm>>
  BY <1>1, GoesTyped, LabelSet DEF TakeCandidate, diskVars, dbVars, workVars, TypeOK
<1>3. mode[j] # "skipped" /\ result[j] # "ok" /\ seen[j][p] \in Texts
  BY <1>1, <1>2 DEF LocalInv, Loop, Candidates
<1>4. LocalInv(j)'
  BY <1>1, <1>2, <1>3 DEF LocalInv, Writing, Loop, Indexing, Scoped, Candidates
<1>5. calm[j].alone => LoopInv(j)'
  BY <1>1, <1>2 DEF LoopInv, Loop, Scoped, Candidates
<1>6. SnapInv(j)' /\ ScopedInv(j)'
  BY <1>2, <1>3 DEF SnapInv, ScopedInv, Scoped
<1>7. Still(j) => ReadInv(j)'
  BY <1>1, <1>2 DEF ReadInv, Indexing, Scoped
<1>8. Still(j) => FullInv(j)'
  <2>1. Unwritten(j)' = Unwritten(j) /\ Candidates(j)' = Candidates(j)
    BY <1>2 DEF Unwritten, Writing, Candidates
  <2>2. \A q \in Paths : Sound(q)' <=> Sound(q)
    BY <1>2, Frame
  <2> QED
    BY <1>1, <1>2, <1>3, <2>1, <2>2 DEF FullInv, Loop, Scoped, Candidates
<1> QED
  BY <1>2, <1>4, <1>5, <1>6, <1>7, <1>8 DEF JobInv, Still

LEMMA LoadKeeps ==
    ASSUME IndexInv, NEW j \in Jobs, NEW p \in Paths, LoadCandidate(j, p)
    PROVE  JobInv(j)'
<1>1. /\ LocalInv(j) /\ (calm[j].alone => LoopInv(j))
      /\ (Still(j) => ReadInv(j) /\ ScopedInv(j)) /\ TypeOK
  BY DEF IndexInv, JobInv
<1>2. /\ pc[j] = "next" /\ Scoped(j) /\ p \in todo[j]
      /\ cur'[j] = p /\ todo'[j] = todo[j] \ {p}
      /\ UNCHANGED <<disk, file, chunk, kind, mode, before, diff, known, result, calm>>
  BY <1>1 DEF LoadCandidate, diskVars, dbVars, TypeOK
<1>3. \A q \in Paths : q # p => seen'[j][q] = seen[j][q]
  BY <1>1 DEF LoadCandidate, TypeOK
<1>4. \/ /\ seen'[j][p] = disk[p] /\ disk[p] \in Texts /\ pc'[j] = "upsert"
         /\ UNCHANGED <<errs, marked>>
      \/ /\ seen'[j][p] = disk[p] /\ disk[p] \notin Texts /\ pc'[j] = "next" /\ UNCHANGED errs
         /\ marked'[j] = IF known[j][p].state = "active" THEN marked[j] \union {p} ELSE marked[j]
      \/ seen'[j][p] = "unread" /\ errs'[j] /\ pc'[j] = "next" /\ UNCHANGED marked
  <2>1. CASE /\ seen' = [seen EXCEPT ![j][p] = disk[p]] /\ UNCHANGED errs
             /\ disk[p] \in Texts /\ Goes(j, "upsert") /\ UNCHANGED marked
    BY <1>1, <2>1, GoesTyped, LabelSet DEF TypeOK
  <2>2. CASE /\ seen' = [seen EXCEPT ![j][p] = disk[p]] /\ UNCHANGED errs
             /\ disk[p] \notin Texts /\ Goes(j, "next")
             /\ marked' = IF known[j][p].state = "active"
                          THEN [marked EXCEPT ![j] = @ \union {p}] ELSE marked
    <3>1. marked'[j] = IF known[j][p].state = "active" THEN marked[j] \union {p} ELSE marked[j]
      BY <1>1, <2>2 DEF TypeOK
    <3> QED
      BY <1>1, <2>2, <3>1, GoesTyped, LabelSet DEF TypeOK
  <2>3. CASE /\ seen' = [seen EXCEPT ![j][p] = "unread"] /\ errs' = [errs EXCEPT ![j] = TRUE]
             /\ UNCHANGED <<pc, marked>>
    BY <1>1, <1>2, <2>3 DEF TypeOK
  <2> QED
    BY <2>1, <2>2, <2>3 DEF LoadCandidate
<1>5. mode[j] # "skipped" /\ result[j] # "ok" /\ todo[j] \subseteq Paths
  BY <1>1, <1>2 DEF LocalInv, Loop, TypeOK
<1>6. LocalInv(j)'
  BY <1>1, <1>2, <1>3, <1>4, <1>5 DEF LocalInv, Writing, Loop, Indexing, Scoped
<1>7. calm[j].alone => LoopInv(j)'
  BY <1>1, <1>2, <1>4, <1>5 DEF LoopInv, Loop, Scoped
<1>8. SnapInv(j)' /\ FullInv(j)'
  BY <1>2, <1>4 DEF SnapInv, FullInv, Scoped
<1>9. Still(j) => ReadInv(j)'
  BY <1>1, <1>2, <1>3, <1>4 DEF ReadInv, Scoped
<1>10. Still(j) => ScopedInv(j)'
  <2> SUFFICES ASSUME Still(j) PROVE ScopedInv(j)'
    OBVIOUS
  <2>1. ScopedInv(j) /\ LoopInv(j) /\ p \in diff[j].changed
    BY <1>1, <1>2 DEF ScopedInv, Unwritten, Loop, Still
  <2>2. \A q \in Paths : (Sound(q)' <=> Sound(q)) /\ (Exact(q)' <=> Exact(q))
    BY <1>2, Frame
  <2>3. ASSUME NEW q \in Paths \ diff[j].changed PROVE BlindAt(j, q)' <=> BlindAt(j, q)
    BY <1>2, <1>3, <2>1 DEF BlindAt
  <2>4. \A q \in Paths \ diff[j].changed : (Exact(q) \/ BlindAt(j, q))' <=> (Exact(q) \/ BlindAt(j, q))
    BY <2>2, <2>3
  <2>5. Unwritten(j)' = IF pc'[j] = "upsert" THEN todo[j] ELSE todo[j] \ {p}
    BY <1>2, <1>4 DEF Unwritten, Writing
  <2>6. Unwritten(j) = todo[j] /\ todo[j] \subseteq diff[j].changed
    BY <1>2, <2>1 DEF ScopedInv, Unwritten, Writing, Loop
  <2>7. marked'[j] \subseteq diff[j].changed /\ \A q \in marked'[j] : disk[q] \notin Texts
    BY <1>2, <1>4, <2>1 DEF ScopedInv, Loop
  <2>8. diff[j].changed \subseteq Paths
    BY <1>1 DEF TypeOK
  <2>9. ASSUME ~errs'[j], NEW q \in diff[j].changed \ Unwritten(j)'
        PROVE  Sound(q)' \/ q \in marked'[j]
    <3>1. CASE q # p \/ pc'[j] = "upsert"
      BY <1>2, <1>4, <2>1, <2>2, <2>5, <2>6, <2>8, <2>9, <3>1 DEF ScopedInv, Loop
    <3>2. CASE q = p /\ pc'[j] = "next"
      <4>1. disk[p] \notin Texts /\ (p \in marked'[j] \/ known[j][p].state # "active")
        BY <1>4, <2>9, <3>2
      <4>2. known[j][p] = file[p]
        BY <1>2, <2>1 DEF LoopInv, Loop
      <4> QED
        BY <2>2, <3>2, <4>1, <4>2, NotIndexed
    <3> QED
      BY <1>4, <3>1, <3>2
  <2>10. pc'[j] \in {"next", "upsert"} /\ Reindexing(j)
    BY <1>2, <1>4 DEF Reindexing
  <2> QED
    BY <1>2, <1>5, <2>1, <2>4, <2>5, <2>6, <2>7, <2>9, <2>10 DEF ScopedInv, Loop, Scoped
<1> QED
  BY <1>2, <1>6, <1>7, <1>8, <1>9, <1>10 DEF JobInv, Still

(* Without overlap an active file of a job at UPSERT has its own chunks.   *)
LEMMA UpsertSeesText ==
    ASSUME IndexInv, Undisturbed, NEW j \in Jobs, pc[j] = "upsert", NEW p \in Paths,
           file[p].state = "active"
    PROVE  chunk[p] = file[p].hash
<1>1. \A i \in Jobs : pc[i] \in {"cut", "insert"} => i = j
  BY DEF IndexInv, AloneInv, Undisturbed, Running, Quiet
<1> QED
  BY <1>1 DEF IndexInv, RetrievalSeesText

LEMMA UpsertKeeps ==
    ASSUME IndexInv, NEW j \in Jobs, UpsertIndexedFile(j)
    PROVE  JobInv(j)'
<1> DEFINE c == cur[j]
<1>1. /\ LocalInv(j) /\ (calm[j].alone => LoopInv(j))
      /\ (Still(j) => ReadInv(j) /\ FullInv(j) /\ ScopedInv(j)) /\ TypeOK
  BY DEF IndexInv, JobInv
<1>2. /\ pc[j] = "upsert"
      /\ UNCHANGED <<disk, chunk, kind, mode, todo, seen, cur, before, diff, known, marked, clash,
                     result, calm>>
  BY DEF UpsertIndexedFile, diskVars, loopVars, workVars
<1>3. c \in Paths /\ c \notin todo[j] /\ seen[j][c] \in Texts /\ mode[j] # "skipped" /\ result[j] # "ok"
  BY <1>1, <1>2 DEF LocalInv, Writing
<1>4. file'[c] = Active(seen[j][c]) /\ \A p \in Paths : p # c => file'[p] = file[p]
  BY <1>1, <1>3 DEF UpsertIndexedFile, TypeOK
<1>5. CASE Counted(j)
  BY <1>2, <1>4, <1>5, CountedKeeps DEF Writing
<1>6. CASE Goes(j, IF Rewrites(j) THEN "cut" ELSE "next") /\ UNCHANGED errs
  <2>1. pc'[j] = IF Rewrites(j) THEN "cut" ELSE "next"
    BY <1>1, <1>6, GoesTyped, LabelSet
  <2>2. LocalInv(j)'
    BY <1>1, <1>2, <1>3, <2>1 DEF LocalInv, Writing, Loop, Indexing, Scoped, Candidates
  <2>3. calm[j].alone => LoopInv(j)'
    <3>1. todo[j] \subseteq Paths
      BY <1>1 DEF TypeOK
    <3> QED
      BY <1>1, <1>2, <1>3, <1>4, <2>1, <3>1 DEF LoopInv, Loop, Scoped, Candidates
  <2>4. SnapInv(j)' /\ (Still(j) => ReadInv(j)')
    BY <1>1, <1>2, <1>6, <2>1 DEF SnapInv, ReadInv, Indexing, Scoped
  <2>5. ASSUME Still(j), pc'[j] = "next", NEW p \in Paths, p = c PROVE Sound(p)'
    <3>1. known[j][c] = Active(seen[j][c]) /\ known[j][c] = file[c] /\ seen[j][c] = disk[c]
      <4>1. LoopInv(j) /\ ReadInv(j)
        BY <1>1, <2>5 DEF Still
      <4>2. known[j][c] = file[c] /\ seen[j][c] \in {disk[c], "unread"}
        BY <1>2, <1>3, <4>1 DEF LoopInv, ReadInv
      <4> QED
        BY <1>3, <2>1, <2>5, <4>2, ConstantsOK DEF Rewrites
    <3>2. Undisturbed => chunk[c] = seen[j][c]
      BY <1>2, <1>3, <3>1, UpsertSeesText DEF Active
    <3> QED
      BY <1>2, <1>3, <1>4, <2>5, <3>1, <3>2 DEF Sound, Exact, FileExact
  <2>6. \A p \in Paths : p # c => (Sound(p)' <=> Sound(p)) /\ (Exact(p)' <=> Exact(p))
    BY <1>2, <1>4, Frame
  <2>7. /\ Unwritten(j) = todo[j] \union {c}
        /\ Unwritten(j)' = IF pc'[j] = "next" THEN todo[j] ELSE todo[j] \union {c}
    BY <1>2, <2>1 DEF Unwritten, Writing
  <2>8. Still(j) => FullInv(j)'
    <3> SUFFICES ASSUME Still(j), ~Scoped(j), ~errs[j],
                        NEW p \in Candidates(j) \ Unwritten(j)'
                 PROVE  Sound(p)'
      BY <1>2, <1>3, <1>6, <2>1 DEF FullInv, Scoped, Candidates
    <3>1. CASE p = c
      BY <1>3, <2>1, <2>5, <2>7, <3>1
    <3>2. CASE p # c
      BY <1>1, <1>2, <2>6, <2>7, <3>2 DEF FullInv, Loop, Candidates
    <3> QED
      BY <3>1, <3>2
  <2>9. Still(j) => ScopedInv(j)'
    <3> SUFFICES ASSUME Still(j), Scoped(j) PROVE ScopedInv(j)'
      BY <1>2, <1>3 DEF ScopedInv, Scoped
    <3>1. ScopedInv(j) /\ c \in diff[j].changed /\ diff[j].changed \subseteq Paths
      BY <1>1, <1>2, <2>7 DEF ScopedInv, Loop, TypeOK
    <3>2. \A p \in Paths \ diff[j].changed : (Exact(p) \/ BlindAt(j, p))' <=> (Exact(p) \/ BlindAt(j, p))
      BY <1>2, <2>6, <3>1 DEF BlindAt
    <3>3. ASSUME ~errs[j], NEW p \in diff[j].changed \ Unwritten(j)'
          PROVE  Sound(p)' \/ p \in marked[j]
      <4>1. CASE p = c
        BY <1>3, <2>1, <2>5, <2>7, <3>3, <4>1
      <4>2. CASE p # c
        BY <1>2, <2>6, <2>7, <3>1, <3>3, <4>2 DEF ScopedInv, Loop
      <4> QED
        BY <4>1, <4>2
    <3>4. Unwritten(j)' \subseteq Unwritten(j) /\ Reindexing(j) /\ pc'[j] \in {"next", "cut"}
      BY <1>2, <2>1, <2>7 DEF Reindexing
    <3> QED
      BY <1>2, <1>3, <1>6, <3>1, <3>2, <3>3, <3>4 DEF ScopedInv, Loop, Scoped
  <2> QED
    BY <1>2, <2>2, <2>3, <2>4, <2>8, <2>9 DEF JobInv, Still
<1> QED
  BY <1>5, <1>6 DEF UpsertIndexedFile

LEMMA CutKeeps ==
    ASSUME IndexInv, NEW j \in Jobs, DeleteOldChunks(j)
    PROVE  JobInv(j)'
<1>1. /\ LocalInv(j) /\ (calm[j].alone => LoopInv(j))
      /\ (Still(j) => ReadInv(j) /\ FullInv(j) /\ ScopedInv(j)) /\ TypeOK
  BY DEF IndexInv, JobInv
<1>2. /\ pc[j] = "cut" /\ pc'[j] = "insert" /\ ~clash'[j]
      /\ UNCHANGED <<disk, file, chunk, kind, mode, todo, seen, cur, before, diff, known, marked,
                     errs, result, calm>>
  BY <1>1, GoesTyped, LabelSet DEF DeleteOldChunks, diskVars, dbVars, loopVars, workVars, TypeOK
<1>3. mode[j] # "skipped" /\ result[j] # "ok"
  BY <1>1, <1>2 DEF LocalInv
<1>4. LocalInv(j)' /\ (calm[j].alone => LoopInv(j)') /\ SnapInv(j)'
  BY <1>1, <1>2, <1>3 DEF LocalInv, LoopInv, SnapInv, Writing, Loop, Indexing, Scoped, Candidates
<1>5. Still(j) => ReadInv(j)'
  BY <1>1, <1>2 DEF ReadInv, Indexing, Scoped
<1>6. /\ Unwritten(j)' = Unwritten(j) /\ Candidates(j)' = Candidates(j)
      /\ \A p \in Paths : (Sound(p)' <=> Sound(p)) /\ (Exact(p)' <=> Exact(p))
      /\ \A p \in Paths : BlindAt(j, p)' <=> BlindAt(j, p)
  BY <1>2, Frame DEF Unwritten, Writing, Candidates, BlindAt
<1>7. Still(j) => FullInv(j)'
  BY <1>1, <1>2, <1>3, <1>6 DEF FullInv, Loop, Scoped, Candidates
<1>8. Still(j) => ScopedInv(j)'
  <2>1. diff[j].changed \subseteq Paths
    BY <1>1 DEF TypeOK
  <2> QED
    BY <1>1, <1>2, <1>3, <1>6, <2>1 DEF ScopedInv, Loop, Scoped, Reindexing
<1> QED
  BY <1>2, <1>4, <1>5, <1>7, <1>8 DEF JobInv, Still

LEMMA InsertKeeps ==
    ASSUME IndexInv, NEW j \in Jobs, InsertChunks(j)
    PROVE  JobInv(j)'
<1> DEFINE c == cur[j]
<1>1. /\ LocalInv(j) /\ (calm[j].alone => LoopInv(j))
      /\ (Still(j) => ReadInv(j) /\ FullInv(j) /\ ScopedInv(j)) /\ TypeOK
  BY DEF IndexInv, JobInv
<1>2. /\ pc[j] = "insert"
      /\ UNCHANGED <<disk, file, kind, mode, todo, seen, cur, before, diff, known, marked, result,
                     calm>>
  BY DEF InsertChunks, diskVars, loopVars, workVars
<1>3. c \in Paths /\ c \notin todo[j] /\ seen[j][c] \in Texts /\ mode[j] # "skipped" /\ result[j] # "ok"
  BY <1>1, <1>2 DEF LocalInv, Writing
<1>4. \A p \in Paths : p # c => chunk'[p] = chunk[p]
  BY <1>1, <1>3 DEF InsertChunks, TypeOK
<1>5. CASE Counted(j)
  BY <1>2, <1>4, <1>5, CountedKeeps DEF Writing
<1>6. CASE chunk' = [chunk EXCEPT ![c] = seen[j][c]] /\ Goes(j, "next") /\ UNCHANGED errs
  <2>1. pc'[j] = "next" /\ chunk'[c] = seen[j][c]
    BY <1>1, <1>3, <1>6, GoesTyped, LabelSet DEF TypeOK
  <2>2. LocalInv(j)'
    BY <1>1, <1>2, <1>3, <2>1 DEF LocalInv, Writing, Loop, Indexing, Scoped, Candidates
  <2>3. calm[j].alone => LoopInv(j)'
    BY <1>1, <1>2, <2>1 DEF LoopInv, Loop, Scoped, Candidates
  <2>4. SnapInv(j)' /\ (Still(j) => ReadInv(j)')
    BY <1>1, <1>2, <1>6, <2>1 DEF SnapInv, ReadInv, Indexing, Scoped
  <2>5. ASSUME Still(j), NEW p \in Paths, p = c PROVE Sound(p)'
    <3>1. file[c] = Active(seen[j][c]) /\ seen[j][c] = disk[c]
      <4>1. LoopInv(j) /\ ReadInv(j)
        BY <1>1, <2>5 DEF Still
      <4>2. file[c] = Active(seen[j][c]) /\ seen[j][c] \in {disk[c], "unread"}
        BY <1>2, <1>3, <4>1 DEF LoopInv, ReadInv
      <4> QED
        BY <1>3, <4>2, ConstantsOK
    <3> QED
      BY <1>2, <1>3, <2>1, <2>5, <3>1 DEF Sound, Exact, FileExact
  <2>6. \A p \in Paths : p # c => (Sound(p)' <=> Sound(p)) /\ (Exact(p)' <=> Exact(p))
    BY <1>2, <1>4, Frame
  <2>7. Unwritten(j) = todo[j] \union {c} /\ Unwritten(j)' = todo[j]
    BY <1>2, <2>1 DEF Unwritten, Writing
  <2>8. Still(j) => FullInv(j)'
    <3> SUFFICES ASSUME Still(j), ~Scoped(j), ~errs[j], NEW p \in Candidates(j) \ todo[j]
                 PROVE  Sound(p)'
      BY <1>2, <1>3, <1>6, <2>1, <2>7 DEF FullInv, Scoped, Candidates
    <3>1. CASE p = c
      BY <1>3, <2>5, <3>1
    <3>2. CASE p # c
      BY <1>1, <1>2, <2>6, <2>7, <3>2 DEF FullInv, Loop, Candidates
    <3> QED
      BY <3>1, <3>2
  <2>9. Still(j) => ScopedInv(j)'
    <3> SUFFICES ASSUME Still(j), Scoped(j) PROVE ScopedInv(j)'
      BY <1>2, <1>3 DEF ScopedInv, Scoped
    <3>1. ScopedInv(j) /\ c \in diff[j].changed /\ diff[j].changed \subseteq Paths
      BY <1>1, <1>2, <2>7 DEF ScopedInv, Loop, TypeOK
    <3>2. \A p \in Paths \ diff[j].changed : (Exact(p) \/ BlindAt(j, p))' <=> (Exact(p) \/ BlindAt(j, p))
      BY <1>2, <2>6, <3>1 DEF BlindAt
    <3>3. ASSUME ~errs[j], NEW p \in diff[j].changed \ todo[j]
          PROVE  Sound(p)' \/ p \in marked[j]
      <4>1. CASE p = c
        BY <1>3, <2>5, <4>1
      <4>2. CASE p # c
        BY <1>2, <2>6, <2>7, <3>1, <3>3, <4>2 DEF ScopedInv, Loop
      <4> QED
        BY <4>1, <4>2
    <3> QED
      BY <1>2, <1>3, <1>6, <2>1, <2>7, <3>1, <3>2, <3>3 DEF ScopedInv, Loop, Scoped, Reindexing
  <2> QED
    BY <1>2, <2>2, <2>3, <2>4, <2>8, <2>9 DEF JobInv, Still
<1> QED
  BY <1>5, <1>6 DEF InsertChunks

(***************************************************************************)
(* After the loop.                                                         *)
(***************************************************************************)
LEMMA FinishKeeps ==
    ASSUME IndexInv, NEW j \in Jobs, pc[j] \in {"next", "mark", "purge"}, Finishes(j),
           UNCHANGED <<disk, calm, kind, mode, seen, before, diff, errs>>,
           Still(j) /\ ~errs[j] /\ ~Scoped(j) => \A p \in Paths : Sound(p)',
           Still(j) /\ Scoped(j) =>
             /\ ~errs[j] => \A p \in diff[j].changed : Sound(p)'
             /\ Undisturbed /\ calm[j].exact =>
                  \A p \in Paths \ diff[j].changed : (Exact(p) \/ BlindAt(j, p))'
    PROVE  JobInv(j)'
<1>1. LocalInv(j) /\ (Still(j) => ReadInv(j) /\ ScopedInv(j)) /\ TypeOK
  BY DEF IndexInv, JobInv
<1>2. \/ kind[j] = "localIndex" /\ pc'[j] = "metrics" /\ result' = result
      \/ kind[j] = "reconcile" /\ pc'[j] = "done" /\ result'[j] = "ok"
  BY <1>1, FinishesTyped
<1>3. mode[j] # "skipped" /\ result[j] # "ok" /\ (kind[j] = "localIndex" => mode[j] = "full")
  BY <1>1 DEF LocalInv
<1>4. LocalInv(j)' /\ LoopInv(j)' /\ SnapInv(j)'
  BY <1>1, <1>2, <1>3 DEF LocalInv, LoopInv, SnapInv, Writing, Loop, Indexing
<1>5. Still(j) => ReadInv(j)'
  BY <1>1, <1>2 DEF ReadInv, Indexing, Scoped
<1>6. Still(j) => FullInv(j)'
  BY <1>2, <1>3 DEF FullInv, Scoped, Loop
<1>7. Still(j) => ScopedInv(j)'
  BY <1>1, <1>2, <1>3 DEF ScopedInv, Scoped, Loop
<1> QED
  BY <1>4, <1>5, <1>6, <1>7 DEF JobInv, Still

LEMMA LoopEndKeeps ==
    ASSUME IndexInv, NEW j \in Jobs, LoopEnds(j)
    PROVE  JobInv(j)'
<1>1. /\ LocalInv(j) /\ (calm[j].alone => LoopInv(j))
      /\ (Still(j) => ReadInv(j) /\ FullInv(j) /\ ScopedInv(j)) /\ TypeOK
  BY DEF IndexInv, JobInv
<1>2. /\ pc[j] = "next" /\ todo[j] = {}
      /\ UNCHANGED <<disk, file, chunk, kind, mode, todo, seen, cur, before, diff, known, marked,
                     clash, errs, calm>>
  BY DEF LoopEnds, diskVars, dbVars, loopVars, workVars
<1>3. mode[j] # "skipped" /\ result[j] # "ok" /\ Unwritten(j) = {} /\ diff[j].changed \subseteq Paths
  BY <1>1, <1>2 DEF LocalInv, Unwritten, Writing, TypeOK
<1>4. /\ \A p \in Paths : (Sound(p)' <=> Sound(p)) /\ (Exact(p)' <=> Exact(p))
      /\ \A p \in Paths : (Exact(p) \/ BlindAt(j, p))' <=> (Exact(p) \/ BlindAt(j, p))
      /\ Candidates(j)' = Candidates(j)
  BY <1>2, Frame DEF BlindAt, Candidates
<1>5. CASE ToDelete(j) = {} /\ Finishes(j)
  <2>1. ASSUME Still(j), ~errs[j], ~Scoped(j), NEW p \in Paths PROVE Sound(p)'
    <3>1. CASE p \in Candidates(j)
      BY <1>1, <1>2, <1>3, <1>4, <2>1, <3>1 DEF FullInv, Loop
    <3>2. CASE p \notin Candidates(j)
      <4>1. LoopInv(j) /\ ReadInv(j)
        BY <1>1, <2>1 DEF Still
      <4>2. known[j][p].state # "active" /\ known[j][p] = file[p]
        BY <1>2, <1>5, <2>1, <3>2, <4>1 DEF ToDelete, LoopInv, Loop
      <4>3. seen[j][p] \in {disk[p], "unread"} /\ seen[j][p] # "unread"
        BY <1>2, <2>1, <4>1 DEF ReadInv, Indexing
      <4>4. disk[p] \notin Texts
        BY <3>2, <4>3 DEF Candidates
      <4> QED
        BY <1>4, <4>2, <4>4, NotIndexed
    <3> QED
      BY <3>1, <3>2
  <2>2. ASSUME Still(j), Scoped(j)
        PROVE  /\ ~errs[j] => \A p \in diff[j].changed : Sound(p)'
               /\ Undisturbed /\ calm[j].exact =>
                    \A p \in Paths \ diff[j].changed : (Exact(p) \/ BlindAt(j, p))'
    <3>1. marked[j] = {} /\ ScopedInv(j) /\ Reindexing(j)
      BY <1>1, <1>2, <1>5, <2>2 DEF ToDelete, Reindexing
    <3> QED
      BY <1>2, <1>3, <1>4, <2>2, <3>1 DEF ScopedInv, Loop
  <2> QED
    BY <1>2, <1>5, <2>1, <2>2, FinishKeeps
<1>6. CASE Goes(j, "mark") /\ UNCHANGED result
  <2>1. pc'[j] = "mark"
    BY <1>1, <1>6, GoesTyped, LabelSet
  <2>2. LocalInv(j)' /\ (calm[j].alone => LoopInv(j)') /\ SnapInv(j)'
    BY <1>1, <1>2, <1>3, <1>6, <2>1 DEF LocalInv, LoopInv, SnapInv, Writing, Loop, Indexing, Scoped,
                                  Candidates
  <2>3. Still(j) => ReadInv(j)'
    BY <1>1, <1>2, <2>1 DEF ReadInv, Indexing, Scoped
  <2>4. Unwritten(j)' = {}
    BY <1>2, <2>1 DEF Unwritten, Writing
  <2>5. Still(j) => FullInv(j)'
    BY <1>1, <1>2, <1>3, <1>4, <1>6, <2>1, <2>4 DEF FullInv, Loop, Scoped, Candidates
  <2>6. Still(j) => ScopedInv(j)'
    BY <1>1, <1>2, <1>3, <1>4, <1>6, <2>1, <2>4 DEF ScopedInv, Loop, Scoped, Reindexing
  <2> QED
    BY <1>2, <2>2, <2>3, <2>5, <2>6 DEF JobInv, Still
<1> QED
  BY <1>5, <1>6 DEF LoopEnds

LEMMA MarkKeeps ==
    ASSUME IndexInv, NEW j \in Jobs, MarkFilesDeleted(j)
    PROVE  JobInv(j)'
<1> DEFINE hit == {p \in ToDelete(j) : file[p].state = "active"}
<1>1. /\ LocalInv(j) /\ (calm[j].alone => LoopInv(j))
      /\ (Still(j) => ReadInv(j) /\ FullInv(j) /\ ScopedInv(j)) /\ TypeOK
  BY DEF IndexInv, JobInv
<1>2. /\ pc[j] = "mark" /\ marked'[j] = hit
      /\ UNCHANGED <<disk, chunk, kind, seen, before, diff, known, clash, calm>>
  BY <1>1 DEF MarkFilesDeleted, diskVars, TypeOK
<1>3. ToDelete(j) \subseteq Paths
  BY <1>1 DEF ToDelete, TypeOK
<1>4. /\ \A p \in Paths : p \notin hit => file'[p] = file[p]
      /\ \A p \in hit : file'[p].state = "deleted"
      /\ \A p \in ToDelete(j) : file'[p].state # "active"
  <2>1. file' = [p \in Paths |-> IF p \in hit THEN [file[p] EXCEPT !.state = "deleted"] ELSE file[p]]
    BY DEF MarkFilesDeleted
  <2>2. ASSUME NEW p \in Paths PROVE [file[p] EXCEPT !.state = "deleted"].state = "deleted"
    BY <1>1 DEF TypeOK, FileRow
  <2> QED
    BY <1>3, <2>1, <2>2
<1>5. /\ mode[j] # "skipped" /\ result[j] # "ok" /\ diff[j].changed \subseteq Paths
      /\ Unwritten(j) = {}
  BY <1>1, <1>2 DEF LocalInv, TypeOK, Unwritten, Writing
<1>6. \A p \in Paths : p \notin hit => (Sound(p)' <=> Sound(p)) /\ (Exact(p)' <=> Exact(p))
  BY <1>2, <1>4, Frame
<1>7. ASSUME Still(j), ~errs[j], ~Scoped(j), NEW p \in Paths PROVE Sound(p)'
  <2>1. CASE p \in Candidates(j)
    <3>1. p \notin hit
      BY <1>7, <2>1 DEF ToDelete
    <3> QED
      BY <1>1, <1>2, <1>5, <1>6, <1>7, <2>1, <3>1 DEF FullInv
  <2>2. CASE p \notin Candidates(j)
    <3>1. LoopInv(j) /\ ReadInv(j)
      BY <1>1, <1>7 DEF Still
    <3>2. seen[j][p] \in {disk[p], "unread"} /\ seen[j][p] # "unread"
      BY <1>2, <1>7, <3>1 DEF ReadInv, Indexing
    <3>3. disk[p] \notin Texts
      BY <2>2, <3>2 DEF Candidates
    <3>4. known[j][p] = file[p]
      BY <1>2, <1>7, <2>2, <3>1 DEF LoopInv
    <3>5. file'[p].state # "active"
      BY <1>4, <1>7, <2>2, <3>4 DEF ToDelete
    <3> QED
      BY <1>2, <3>3, <3>5 DEF Sound, Exact, FileExact
  <2> QED
    BY <2>1, <2>2
<1>8. ASSUME Still(j), Scoped(j)
      PROVE  /\ hit \subseteq diff[j].changed
             /\ ~errs[j] => \A p \in diff[j].changed : Sound(p)'
             /\ Undisturbed /\ calm[j].exact =>
                  \A p \in Paths \ diff[j].changed : (Exact(p) \/ BlindAt(j, p))'
             /\ \A p \in diff[j].changed \ diff[j].deleted : disk[p] \in Texts
  <2>1. ScopedInv(j) /\ Reindexing(j) /\ ToDelete(j) = marked[j]
    BY <1>1, <1>2, <1>8 DEF ToDelete, Reindexing
  <2>2. hit \subseteq diff[j].changed /\ \A p \in marked[j] : disk[p] \notin Texts
    BY <1>2, <1>8, <2>1 DEF ScopedInv
  <2>3. ASSUME ~errs[j], NEW p \in diff[j].changed PROVE Sound(p)'
    <3>1. p \in Paths
      BY <1>5
    <3>2. CASE p \in marked[j]
      BY <1>2, <1>4, <2>1, <2>2, <3>1, <3>2 DEF Sound, Exact, FileExact
    <3>3. CASE p \notin marked[j]
      <4>1. Sound(p)
        BY <1>2, <1>5, <1>8, <2>1, <2>3, <3>3 DEF ScopedInv
      <4> QED
        BY <1>6, <2>1, <3>1, <3>3, <4>1
    <3> QED
      BY <3>2, <3>3
  <2>4. ASSUME Undisturbed, calm[j].exact, NEW p \in Paths \ diff[j].changed
        PROVE  (Exact(p) \/ BlindAt(j, p))'
    <3>1. Exact(p) \/ BlindAt(j, p)
      BY <1>8, <2>1, <2>4 DEF ScopedInv
    <3>2. BlindAt(j, p)' <=> BlindAt(j, p)
      BY <1>2 DEF BlindAt
    <3> QED
      BY <1>6, <2>2, <2>4, <3>1, <3>2
  <2> QED
    BY <1>8, <2>1, <2>2, <2>3, <2>4 DEF ScopedInv
<1>9. CASE Raises(j)
  BY <1>2, <1>9, RaiseKeeps DEF Statements
<1>10. CASE Finishes(j) /\ UNCHANGED <<mode, todo, errs>>
  BY <1>2, <1>7, <1>8, <1>10, FinishKeeps
<1>11. CASE Goes(j, "purge") /\ UNCHANGED <<result, mode, todo, errs>>
  <2>1. pc'[j] = "purge"
    BY <1>1, <1>11, GoesTyped, LabelSet
  <2>2. LocalInv(j)' /\ SnapInv(j)'
    BY <1>1, <1>2, <1>5, <1>11, <2>1 DEF LocalInv, SnapInv, Writing, Loop, Indexing
  <2>3. LoopInv(j)'
    BY <1>2, <1>4, <2>1 DEF LoopInv, Loop
  <2>4. Still(j) => ReadInv(j)'
    BY <1>1, <1>2, <1>11, <2>1 DEF ReadInv, Indexing, Scoped
  <2>5. Still(j) => FullInv(j)'
    BY <1>5, <1>7, <1>11, <2>1 DEF FullInv, Scoped, Loop
  <2>6. Still(j) => ScopedInv(j)'
    BY <1>2, <1>5, <1>8, <1>11, <2>1 DEF ScopedInv, Scoped, Loop
  <2> QED
    BY <1>2, <2>2, <2>3, <2>4, <2>5, <2>6 DEF JobInv, Still
<1> QED
  BY <1>9, <1>10, <1>11 DEF MarkFilesDeleted

LEMMA PurgeKeeps ==
    ASSUME IndexInv, NEW j \in Jobs, DeleteChunksByFileIds(j)
    PROVE  JobInv(j)'
<1>1. /\ LocalInv(j) /\ (calm[j].alone => LoopInv(j))
      /\ (Still(j) => FullInv(j) /\ ScopedInv(j)) /\ TypeOK
  BY DEF IndexInv, JobInv
<1>2. /\ pc[j] = "purge"
      /\ UNCHANGED <<disk, file, kind, seen, before, diff, calm>>
      /\ \A p \in Paths : p \notin marked[j] => chunk'[p] = chunk[p]
  BY DEF DeleteChunksByFileIds, diskVars
<1>3. \A p \in Paths : p \notin marked[j] => (Sound(p)' <=> Sound(p)) /\ (Exact(p)' <=> Exact(p))
  BY <1>2, Frame
<1>4. ASSUME Still(j), NEW p \in Paths, Sound(p) PROVE Sound(p)'
  <2>1. LoopInv(j)
    BY <1>1, <1>4 DEF Still
  <2>2. CASE p \in marked[j]
    <3>1. file[p].state # "active" /\ disk[p] \notin Texts
      BY <1>2, <1>4, <2>1, <2>2 DEF LoopInv, Sound, FileExact, Active
    <3> QED
      BY <1>2, <3>1 DEF Sound, Exact, FileExact
  <2> QED
    BY <1>3, <1>4, <2>2
<1>5. ASSUME Still(j), Scoped(j)
      PROVE  /\ ~errs[j] => \A p \in diff[j].changed : Sound(p)'
             /\ Undisturbed /\ calm[j].exact =>
                  \A p \in Paths \ diff[j].changed : (Exact(p) \/ BlindAt(j, p))'
  <2>1. ScopedInv(j) /\ diff[j].changed \subseteq Paths /\ Reindexing(j)
    BY <1>1, <1>2, <1>5 DEF TypeOK, Reindexing
  <2>2. marked[j] \subseteq diff[j].changed
    BY <1>2, <1>5, <2>1 DEF ScopedInv
  <2>3. ~errs[j] => \A p \in diff[j].changed : Sound(p)'
    BY <1>2, <1>4, <1>5, <2>1 DEF ScopedInv
  <2>4. ASSUME Undisturbed, calm[j].exact, NEW p \in Paths \ diff[j].changed
        PROVE  (Exact(p) \/ BlindAt(j, p))'
    <3>1. Exact(p) \/ BlindAt(j, p)
      BY <1>5, <2>1, <2>4 DEF ScopedInv
    <3>2. BlindAt(j, p)' <=> BlindAt(j, p)
      BY <1>2 DEF BlindAt
    <3> QED
      BY <1>3, <2>2, <2>4, <3>1, <3>2
  <2> QED
    BY <2>3, <2>4
<1>6. CASE Raises(j)
  BY <1>2, <1>6, RaiseKeeps DEF Statements
<1>7. CASE Finishes(j) /\ UNCHANGED <<mode, todo, errs>>
  <2>1. ASSUME Still(j), ~errs[j], ~Scoped(j), NEW p \in Paths PROVE Sound(p)'
    BY <1>1, <1>2, <1>4, <2>1 DEF FullInv
  <2> QED
    BY <1>2, <1>5, <1>7, <2>1, FinishKeeps
<1> QED
  BY <1>6, <1>7 DEF DeleteChunksByFileIds

LEMMA EndKeeps ==
    ASSUME IndexInv, NEW j \in Jobs,
           \/ UpdateMetrics(j) \/ CompleteIndexRun(j) \/ ZeroMetrics(j) \/ FailIndexRun(j)
           \/ StatementFails(j) \/ WindowDies(j)
    PROVE  JobInv(j)'
<1>1. LocalInv(j) /\ (Still(j) => ReadInv(j) /\ FullInv(j) /\ ScopedInv(j)) /\ TypeOK
  BY DEF IndexInv, JobInv
<1>2. UNCHANGED <<disk, calm, kind, seen, before, diff>>
  BY DEF UpdateMetrics, CompleteIndexRun, ZeroMetrics, FailIndexRun, StatementFails, WindowDies,
         diskVars, loopVars, workVars
<1>3. CASE Raises(j) /\ pc[j] \in Statements
  BY <1>2, <1>3, RaiseKeeps
<1>4. CASE WindowDies(j) \/ FailIndexRun(j)
  <2>1. /\ pc[j] \notin {"idle", "done"} /\ pc'[j] = "done" /\ result'[j] \in {result[j], "error"}
        /\ UNCHANGED <<mode, todo>>
    BY <1>1, <1>4, EndsTyped DEF WindowDies, FailIndexRun, loopVars, workVars, Quiet, TypeOK
  <2>2. mode[j] # "skipped" /\ result'[j] # "ok"
    BY <1>1, <2>1 DEF LocalInv
  <2>3. LocalInv(j)' /\ LoopInv(j)' /\ ReadInv(j)' /\ FullInv(j)' /\ SnapInv(j)'
    BY <1>1, <1>2, <2>1, <2>2 DEF LocalInv, LoopInv, ReadInv, FullInv, SnapInv, Writing, Loop,
                                  Indexing
  <2>4. Still(j) => ScopedInv(j)'
    BY <1>1, <1>2, <2>1, <2>2 DEF ScopedInv, Scoped, Loop, Reindexing
  <2> QED
    BY <1>2, <2>3, <2>4 DEF JobInv, Still
<1>5. CASE StatementFails(j)
  <2>1. CASE pc[j] \in {"upsert", "cut", "insert"} /\ Counted(j) /\ UNCHANGED <<result, mode, todo>>
    <3>1. UNCHANGED <<known, marked, file, chunk>>
      BY <1>5 DEF StatementFails, dbVars
    <3> QED
      BY <1>2, <2>1, <3>1, CountedKeeps DEF Writing
  <2> QED
    BY <1>3, <1>5, <2>1 DEF StatementFails
<1>6. CASE UpdateMetrics(j) \/ ZeroMetrics(j)
  <2>1. pc[j] \in Statements
    BY <1>6 DEF UpdateMetrics, ZeroMetrics, Statements
  <2>2. CASE /\ \/ pc[j] = "metrics" /\ pc'[j] = "complete"
                \/ pc[j] = "failmetrics" /\ pc'[j] = "failcomplete"
             /\ UNCHANGED <<result, mode, todo, errs, file, chunk>>
    <3>1. mode[j] = "full" /\ result[j] # "ok" /\ kind[j] = "localIndex"
      BY <1>1, <2>2 DEF LocalInv
    <3>2. LocalInv(j)' /\ LoopInv(j)' /\ SnapInv(j)' /\ ScopedInv(j)'
      BY <1>1, <1>2, <2>2, <3>1 DEF LocalInv, LoopInv, SnapInv, ScopedInv, Scoped, Writing, Loop,
                                    Indexing
    <3>3. Still(j) => ReadInv(j)'
      BY <1>1, <1>2, <2>2 DEF ReadInv, Indexing, Scoped
    <3>4. \A p \in Paths : Sound(p)' <=> Sound(p)
      BY <1>2, <2>2, Frame
    <3>5. Still(j) => FullInv(j)'
      BY <1>1, <1>2, <2>2, <3>1, <3>4 DEF FullInv, Scoped, Loop
    <3> QED
      BY <1>2, <3>2, <3>3, <3>5 DEF JobInv, Still
  <2>3. UNCHANGED <<file, chunk>>
    BY <1>6 DEF UpdateMetrics, ZeroMetrics, dbVars
  <2>4. \/ Raises(j)
        \/ /\ UNCHANGED <<result, mode, todo, errs>>
           /\ \/ pc[j] = "metrics" /\ Goes(j, "complete")
              \/ pc[j] = "failmetrics" /\ Goes(j, "failcomplete")
    BY <1>6 DEF UpdateMetrics, ZeroMetrics, Replies
  <2> QED
    BY <1>1, <1>3, <2>1, <2>2, <2>3, <2>4, GoesTyped, LabelSet
<1>7. CASE CompleteIndexRun(j)
  <2>1. CASE Ends(j, "ok") /\ UNCHANGED <<mode, todo, errs>>
    <3>1. /\ pc[j] = "complete" /\ pc'[j] = "done" /\ result'[j] = "ok"
          /\ UNCHANGED <<file, chunk>>
      BY <1>1, <1>7, <2>1, EndsTyped DEF CompleteIndexRun
    <3>2. mode[j] = "full" /\ kind[j] = "localIndex"
      BY <1>1, <3>1 DEF LocalInv
    <3>3. LocalInv(j)' /\ LoopInv(j)' /\ SnapInv(j)' /\ ScopedInv(j)' /\ ReadInv(j)'
      BY <1>1, <1>2, <2>1, <3>1, <3>2 DEF LocalInv, LoopInv, SnapInv, ScopedInv, ReadInv, Scoped,
                                          Writing, Loop, Indexing
    <3>4. \A p \in Paths : Sound(p)' <=> Sound(p)
      BY <1>2, <3>1, Frame
    <3>5. Still(j) => FullInv(j)'
      BY <1>1, <2>1, <3>1, <3>2, <3>4 DEF FullInv, Scoped, Loop
    <3> QED
      BY <1>2, <3>3, <3>5 DEF JobInv, Still
  <2> QED
    BY <1>3, <1>7, <2>1 DEF CompleteIndexRun, Statements
<1> QED
  BY <1>4, <1>5, <1>6, <1>7

LEMMA AdvanceKeeps ==
    ASSUME IndexInv, NEW j \in Jobs, Advance(j)
    PROVE  \A i \in Jobs : JobInv(i)'
<1>1. JobInv(j)'
  <2>1. ASSUME NEW p \in Paths, ScanFile(j, p) \/ TakeCandidate(j, p) \/ LoadCandidate(j, p)
        PROVE  JobInv(j)'
    BY <2>1, ReadingKeeps, TakeKeeps, LoadKeeps
  <2>2. CASE SnapshotBefore(j) \/ CodexReturns(j) \/ PlanReindex(j)
    BY <2>2, SnapshotKeeps, PlanKeeps
  <2>3. CASE ScanEnds(j) \/ ListProjectFiles(j) \/ CreateIndexRun(j)
    BY <2>3, ListingKeeps
  <2>4. CASE UpsertIndexedFile(j) \/ DeleteOldChunks(j) \/ InsertChunks(j)
    BY <2>4, UpsertKeeps, CutKeeps, InsertKeeps
  <2>5. CASE LoopEnds(j) \/ MarkFilesDeleted(j) \/ DeleteChunksByFileIds(j)
    BY <2>5, LoopEndKeeps, MarkKeeps, PurgeKeeps
  <2>6. CASE \/ UpdateMetrics(j) \/ CompleteIndexRun(j) \/ ZeroMetrics(j) \/ FailIndexRun(j)
             \/ StatementFails(j) \/ WindowDies(j)
    BY <2>6, EndKeeps
  <2> QED
    BY <2>1, <2>2, <2>3, <2>4, <2>5, <2>6 DEF Advance
<1>2. j \in Running /\ Solo(j)
  BY AdvanceRuns, SoloStep DEF IndexInv
<1>3. ASSUME NEW i \in Jobs \ {j} PROVE JobInv(i)'
  BY <1>2, OthersKeep DEF IndexInv, JobInv
<1> QED
  BY <1>1, <1>3

(* The workspace changes: only a job whose codex runs still trusts what it *)
(* has read, and that is compared with a second snapshot.                  *)
LEMMA EditKeeps ==
    ASSUME IndexInv, NEW p \in Paths, NEW v \in OnDisk, Edit(p, v), NEW j \in Jobs
    PROVE  JobInv(j)'
<1>1. /\ LocalInv(j) /\ (calm[j].alone => LoopInv(j)) /\ (Still(j) => SnapInv(j)) /\ TypeOK
  BY DEF IndexInv, JobInv
<1>2. /\ UNCHANGED <<file, chunk, todo, seen, cur, kind, mode, before, diff, known, marked, pc,
                     clash, errs, result>>
  BY DEF Edit, dbVars, loopVars, workVars
<1>3. calm'[j] = [calm[j] EXCEPT !.still = calm[j].still /\ pc[j] = "codex"]
  BY DEF Edit
<1>4. /\ calm'[j].alone = calm[j].alone /\ calm'[j].exact = calm[j].exact
      /\ calm'[j].still => calm[j].still /\ pc[j] = "codex"
  <2>1. calm[j] \in CalmRow /\ calm[j].still \in BOOLEAN
    BY <1>1 DEF TypeOK, CalmRow
  <2>2. PICK c \in CalmRow : c = calm[j]
    BY <2>1
  <2>3. PICK b \in BOOLEAN : b = (calm[j].still /\ pc[j] = "codex")
    OBVIOUS
  <2>4. calm'[j] = [c EXCEPT !.still = b]
    BY <1>3, <2>2, <2>3
  <2>5. calm'[j].still = b /\ calm'[j].alone = c.alone /\ calm'[j].exact = c.exact
    BY <2>4, CalmEdit
  <2> QED
    BY <2>2, <2>3, <2>5
<1>5. LocalInv(j)' /\ (calm[j].alone => LoopInv(j)')
  BY <1>1, <1>2 DEF LocalInv, LoopInv, Scoped, Candidates
<1>6. ASSUME Still(j)' PROVE ReadInv(j)' /\ FullInv(j)' /\ SnapInv(j)' /\ ScopedInv(j)'
  <2>1. pc[j] = "codex" /\ Still(j)
    BY <1>4, <1>6 DEF Still
  <2>2. mode[j] = "full" /\ result[j] # "ok"
    BY <1>1, <2>1 DEF LocalInv
  <2>3. ReadInv(j)' /\ FullInv(j)' /\ ScopedInv(j)'
    BY <1>2, <2>1, <2>2 DEF ReadInv, FullInv, ScopedInv, Scoped, Loop, Indexing
  <2>4. SnapInv(j)'
    BY <1>1, <1>2, <1>4, <2>1 DEF SnapInv, Recorded
  <2> QED
    BY <2>3, <2>4
<1> QED
  BY <1>4, <1>5, <1>6 DEF JobInv

LEMMA StartKeeps ==
    ASSUME IndexInv, NEW j \in Jobs, NEW k \in {"localIndex", "reconcile"}, Start(j, k), NEW i \in Jobs
    PROVE  JobInv(i)'
<1>1. LocalInv(i) /\ TypeOK
  BY DEF IndexInv, JobInv
<1>2. UNCHANGED <<disk, file, chunk, seen, cur, mode, before, diff, known, marked, clash, errs,
                  result>>
  BY DEF Start, diskVars, dbVars
<1>3. CASE i # j
  <2>1. calm'[i] = [calm[i] EXCEPT !.alone = FALSE]
    BY <1>3 DEF Start
  <2>2. ~calm'[i].alone
    BY <1>1, <2>1 DEF TypeOK
  <2>3. kind'[i] = kind[i] /\ todo'[i] = todo[i] /\ pc'[i] = pc[i]
    BY <1>1, <1>3 DEF Start, TypeOK
  <2>4. LocalInv(i)'
    BY <1>1, <1>2, <2>3 DEF LocalInv, Scoped, Candidates
  <2> QED
    BY <2>2, <2>4 DEF JobInv, Still
<1>4. CASE i = j
  <2>1. /\ pc[i] = "idle" /\ kind'[i] = k /\ todo'[i] = Paths
        /\ pc'[i] = IF k = "localIndex" THEN "create" ELSE "before"
        /\ calm'[i].exact = (\A p \in Paths : Exact(p))
    BY <1>1, <1>4 DEF Start, TypeOK
  <2>2. mode[i] = "full" /\ result[i] # "ok" /\ \A p \in Paths : seen[i][p] = "unread"
    BY <1>1, <2>1 DEF LocalInv
  <2>3. LocalInv(i)' /\ LoopInv(i)' /\ FullInv(i)' /\ ScopedInv(i)' /\ ReadInv(i)'
    BY <1>2, <2>1, <2>2 DEF LocalInv, LoopInv, FullInv, ScopedInv, ReadInv, Scoped, Writing, Loop,
                            Indexing
  <2>4. \A p \in Paths : Exact(p)' <=> Exact(p)
    BY <1>2, Frame
  <2>5. SnapInv(i)'
    BY <2>1, <2>4 DEF SnapInv
  <2> QED
    BY <2>3, <2>5 DEF JobInv
<1> QED
  BY <1>3, <1>4

-----------------------------------------------------------------------------
(***************************************************************************)
(* The chunks that retrieval sees.                                         *)
(***************************************************************************)
LEMMA TextStep ==
    ASSUME IndexInv, Undisturbed, [Next]_vars
    PROVE  RetrievalSeesText'
<1>1. RetrievalSeesText /\ ~Fault /\ TypeOK
  BY NoFault DEF IndexInv
<1>2. CASE UNCHANGED vars
  BY <1>1, <1>2 DEF vars, dbVars, loopVars, RetrievalSeesText
<1>3. ASSUME NEW p \in Paths, NEW v \in OnDisk, Edit(p, v) PROVE RetrievalSeesText'
  BY <1>1, <1>3 DEF Edit, dbVars, loopVars, RetrievalSeesText
<1>4. ASSUME NEW j \in Jobs, NEW k \in {"localIndex", "reconcile"}, Start(j, k)
      PROVE  RetrievalSeesText'
  <2>1. UNCHANGED <<file, chunk, cur>> /\ pc[j] = "idle" /\ \A i \in Jobs \ {j} : pc'[i] = pc[i]
    BY <1>1, <1>4 DEF Start, dbVars, TypeOK
  <2> QED
    BY <1>1, <2>1 DEF RetrievalSeesText
<1>5. ASSUME NEW j \in Jobs, Advance(j) PROVE RetrievalSeesText'
  <2>1. /\ j \in Running /\ \A i \in Jobs \ {j} : i \notin Running
        /\ LocalInv(j) /\ LoopInv(j) /\ calm[j].alone
    BY <1>5, AdvanceRuns DEF IndexInv, AloneInv, JobInv, Undisturbed
  <2>2. ASSUME NEW p \in Paths, file[p].state = "active"
        PROVE  chunk[p] = file[p].hash \/ (pc[j] \in {"cut", "insert"} /\ cur[j] = p)
    BY <1>1, <2>1, <2>2 DEF RetrievalSeesText, Running, Quiet
  <2>3. ASSUME UNCHANGED <<file, chunk>>, pc[j] \notin {"cut", "insert"} PROVE RetrievalSeesText'
    BY <2>2, <2>3 DEF RetrievalSeesText
  <2>4. CASE CreateIndexRun(j) \/ SnapshotBefore(j) \/ CodexReturns(j) \/ PlanReindex(j) \/ ScanEnds(j)
    <3>1. UNCHANGED <<file, chunk>> /\ pc[j] \notin {"cut", "insert"}
      BY <2>4 DEF CreateIndexRun, SnapshotBefore, CodexReturns, PlanReindex, ScanEnds, Scanned, dbVars
    <3> QED
      BY <2>3, <3>1
  <2>5. CASE ListProjectFiles(j) \/ LoopEnds(j) \/ UpdateMetrics(j) \/ CompleteIndexRun(j)
    <3>1. UNCHANGED <<file, chunk>> /\ pc[j] \notin {"cut", "insert"}
      BY <2>5 DEF ListProjectFiles, LoopEnds, UpdateMetrics, CompleteIndexRun, dbVars
    <3> QED
      BY <2>3, <3>1
  <2>6. CASE ZeroMetrics(j) \/ FailIndexRun(j)
    <3>1. UNCHANGED <<file, chunk>> /\ pc[j] \notin {"cut", "insert"}
      BY <2>6 DEF ZeroMetrics, FailIndexRun, dbVars
    <3> QED
      BY <2>3, <3>1
  <2>7. CASE StatementFails(j) \/ WindowDies(j)
    BY <1>1, <2>7 DEF StatementFails, WindowDies
  <2>8. ASSUME NEW p \in Paths, ScanFile(j, p) \/ TakeCandidate(j, p) \/ LoadCandidate(j, p)
        PROVE  RetrievalSeesText'
    <3>1. UNCHANGED <<file, chunk>> /\ pc[j] \notin {"cut", "insert"}
      BY <2>8 DEF ScanFile, TakeCandidate, LoadCandidate, Scanning, Snapshots, dbVars
    <3> QED
      BY <2>3, <3>1
  <2>9. CASE UpsertIndexedFile(j)
    <3>1. /\ pc[j] = "upsert" /\ UNCHANGED <<chunk, cur>> /\ cur[j] \in Paths
          /\ known[j][cur[j]] = file[cur[j]]
      BY <2>1, <2>9 DEF UpsertIndexedFile, loopVars, LocalInv, LoopInv, Writing
    <3>2. pc'[j] = IF Rewrites(j) THEN "cut" ELSE "next"
      BY <1>1, <2>9, GoesTyped, LabelSet DEF UpsertIndexedFile
    <3>3. file'[cur[j]] = Active(seen[j][cur[j]]) /\ \A p \in Paths : p # cur[j] => file'[p] = file[p]
      BY <1>1, <2>9, <3>1 DEF UpsertIndexedFile, TypeOK
    <3>4. ASSUME NEW p \in Paths, file'[p].state = "active"
          PROVE  chunk'[p] = file'[p].hash \/ (pc'[j] \in {"cut", "insert"} /\ cur'[j] = p)
      <4>1. CASE p # cur[j]
        BY <2>2, <3>1, <3>3, <3>4, <4>1
      <4>2. CASE p = cur[j] /\ Rewrites(j)
        BY <3>1, <3>2, <4>2
      <4>3. CASE p = cur[j] /\ ~Rewrites(j)
        <5>1. file[p] = Active(seen[j][p]) /\ file'[p] = file[p]
          BY <3>1, <3>3, <4>3 DEF Rewrites
        <5> QED
          BY <2>2, <3>1, <3>4, <5>1
      <4> QED
        BY <4>1, <4>2, <4>3
    <3> QED
      BY <3>4 DEF RetrievalSeesText
  <2>10. CASE DeleteOldChunks(j)
    <3>1. UNCHANGED <<file, chunk, cur>> /\ pc'[j] = "insert"
      BY <1>1, <2>10, GoesTyped, LabelSet DEF DeleteOldChunks, dbVars, loopVars
    <3> QED
      BY <2>2, <3>1 DEF RetrievalSeesText
  <2>11. CASE InsertChunks(j)
    <3>1. /\ pc[j] = "insert" /\ UNCHANGED file /\ cur[j] \in Paths
          /\ file[cur[j]] = Active(seen[j][cur[j]]) /\ ~clash[j]
      BY <2>1, <2>11 DEF InsertChunks, LocalInv, LoopInv, Writing
    <3>2. chunk' = [chunk EXCEPT ![cur[j]] = seen[j][cur[j]]]
      BY <2>11, <3>1 DEF InsertChunks
    <3>3. ASSUME NEW p \in Paths, file'[p].state = "active" PROVE chunk'[p] = file'[p].hash
      BY <1>1, <2>2, <3>1, <3>2, <3>3 DEF TypeOK, Active
    <3> QED
      BY <3>3 DEF RetrievalSeesText
  <2>12. CASE MarkFilesDeleted(j)
    <3>1. pc[j] = "mark" /\ UNCHANGED chunk
      BY <2>12 DEF MarkFilesDeleted
    <3>2. file' = [p \in Paths |-> IF p \in ToDelete(j) /\ file[p].state = "active"
                                  THEN [file[p] EXCEPT !.state = "deleted"] ELSE file[p]]
      BY <2>12 DEF MarkFilesDeleted
    <3>3. ASSUME NEW p \in Paths, file'[p].state = "active" PROVE file'[p] = file[p]
      <4>1. [file[p] EXCEPT !.state = "deleted"].state = "deleted"
        BY <1>1 DEF TypeOK, FileRow
      <4> QED
        BY <3>2, <3>3, <4>1
    <3> QED
      BY <2>2, <3>1, <3>3 DEF RetrievalSeesText
  <2>13. CASE DeleteChunksByFileIds(j)
    <3>1. /\ pc[j] = "purge" /\ UNCHANGED file
          /\ \A p \in Paths : p \notin marked[j] => chunk'[p] = chunk[p]
      BY <2>13 DEF DeleteChunksByFileIds
    <3> QED
      BY <2>1, <2>2, <3>1 DEF RetrievalSeesText, LoopInv
  <2> QED
    BY <1>5, <2>4, <2>5, <2>6, <2>7, <2>8, <2>9, <2>10, <2>11, <2>12, <2>13 DEF Advance
<1> QED
  BY <1>2, <1>3, <1>4, <1>5 DEF Next

(* A job that is alone tears a file only between its row and its chunks,   *)
(* and does not get past them without counting an error.                   *)
LEMMA TornAdvance ==
    ASSUME IndexInv, NEW j \in Jobs, Advance(j), calm[j].alone
    PROVE  TornInv(j)'
<1>1. /\ TypeOK /\ LocalInv(j) /\ LoopInv(j) /\ TornInv(j)
      /\ pc[j] # "done" /\ calm' = calm
  BY AdvanceRuns, SoloStep DEF IndexInv, JobInv, Running, Quiet, Solo
<1>2. ASSUME Counts(j), NEW p \in Paths, Torn(p) PROVE p \in calm[j].torn \/ Mending(j, p)
  BY <1>1, <1>2 DEF TornInv
<1>3. ASSUME UNCHANGED <<file, chunk>>, pc[j] \notin {"cut", "insert"}, Counts(j)' => Counts(j)
      PROVE  TornInv(j)'
  BY <1>1, <1>2, <1>3 DEF TornInv, Torn, Mending
<1>4. ASSUME Raises(j) PROVE ~Counts(j)' \/ (errs' = errs /\ mode' = mode)
  BY <1>1, <1>4, RaisesTyped DEF Thrown, Counts
<1>5. CASE CreateIndexRun(j) \/ UpdateMetrics(j) \/ ZeroMetrics(j)
  <2>1. UNCHANGED <<file, chunk>> /\ pc[j] \notin {"cut", "insert"}
    BY <1>5 DEF CreateIndexRun, UpdateMetrics, ZeroMetrics, dbVars
  <2>2. Raises(j) \/ UNCHANGED <<errs, mode>>
    BY <1>5 DEF CreateIndexRun, UpdateMetrics, ZeroMetrics, Replies
  <2> QED
    BY <1>1, <1>3, <1>4, <2>1, <2>2 DEF Counts
<1>6. CASE SnapshotBefore(j) \/ CodexReturns(j) \/ ScanEnds(j) \/ LoopEnds(j)
  <2>1. UNCHANGED <<file, chunk, errs, mode>> /\ pc[j] \notin {"cut", "insert"}
    BY <1>6 DEF SnapshotBefore, CodexReturns, ScanEnds, LoopEnds, Scanned, dbVars, workVars
  <2> QED
    BY <1>1, <1>3, <2>1 DEF Counts
<1>7. CASE PlanReindex(j)
  <2>1. UNCHANGED <<file, chunk, errs>> /\ pc[j] = "after"
    BY <1>7 DEF PlanReindex, Scanned, dbVars
  <2> QED
    BY <1>1, <1>3, <2>1 DEF Counts, LocalInv
<1>8. CASE ListProjectFiles(j) \/ CompleteIndexRun(j)
  <2>1. UNCHANGED <<file, chunk>> /\ pc[j] \notin {"cut", "insert"}
    BY <1>8 DEF ListProjectFiles, CompleteIndexRun, dbVars
  <2>2. Raises(j) \/ UNCHANGED <<errs, mode>>
    BY <1>8 DEF ListProjectFiles, CompleteIndexRun
  <2> QED
    BY <1>1, <1>3, <1>4, <2>1, <2>2 DEF Counts
<1>9. CASE FailIndexRun(j)
  <2>1. UNCHANGED <<file, chunk, errs, mode>> /\ pc[j] = "failcomplete"
    BY <1>9 DEF FailIndexRun, workVars
  <2> QED
    BY <1>1, <1>3, <2>1 DEF Counts
<1>10. CASE StatementFails(j)
  <2>1. CASE Counted(j)
    BY <1>1, <2>1, CountedTyped DEF TornInv, Counts
  <2>2. CASE pc[j] \notin {"upsert", "cut", "insert"} /\ Raises(j)
    <3>1. UNCHANGED <<file, chunk>>
      BY <1>10 DEF StatementFails, dbVars
    <3> QED
      BY <1>1, <1>3, <1>4, <2>2, <3>1 DEF Counts
  <2> QED
    BY <1>10, <2>1, <2>2 DEF StatementFails
<1>11. CASE WindowDies(j)
  <2>1. pc'[j] = "done" /\ result' = result
    BY <1>1, <1>11 DEF WindowDies, TypeOK
  <2> QED
    BY <1>1, <2>1 DEF TornInv, Counts, LocalInv
<1>12. ASSUME NEW q \in Paths, ScanFile(j, q) \/ TakeCandidate(j, q) \/ LoadCandidate(j, q)
       PROVE  TornInv(j)'
  <2>1. UNCHANGED <<file, chunk, mode>> /\ pc[j] \notin {"cut", "insert"}
    BY <1>12 DEF ScanFile, TakeCandidate, LoadCandidate, Scanning, Snapshots, dbVars, workVars
  <2>2. errs[j] => errs'[j]
    BY <1>1, <1>12 DEF ScanFile, TakeCandidate, LoadCandidate, TypeOK
  <2> QED
    BY <1>1, <1>3, <2>1, <2>2 DEF Counts
<1>13. CASE UpsertIndexedFile(j)
  <2>1. /\ pc[j] = "upsert" /\ UNCHANGED <<chunk, cur, mode>> /\ cur[j] \in Paths
        /\ known[j][cur[j]] = file[cur[j]]
    BY <1>1, <1>13 DEF UpsertIndexedFile, loopVars, workVars, LocalInv, LoopInv, Writing
  <2>2. CASE Counted(j)
    BY <1>1, <2>2, CountedTyped DEF TornInv, Counts
  <2>3. CASE Goes(j, IF Rewrites(j) THEN "cut" ELSE "next") /\ UNCHANGED errs
    <3>1. pc'[j] = IF Rewrites(j) THEN "cut" ELSE "next"
      BY <1>1, <2>3, GoesTyped, LabelSet
    <3>2. file'[cur[j]] = Active(seen[j][cur[j]]) /\ \A p \in Paths : p # cur[j] => file'[p] = file[p]
      BY <1>1, <1>13, <2>1 DEF UpsertIndexedFile, TypeOK
    <3>3. Counts(j)' => Counts(j)
      BY <1>1, <2>1, <2>3 DEF Counts
    <3>4. ASSUME Counts(j)', NEW p \in Paths, Torn(p)' PROVE p \in calm[j].torn \/ Mending(j, p)'
      <4>1. CASE p = cur[j] /\ Rewrites(j)
        BY <2>1, <3>1, <4>1 DEF Mending
      <4>2. CASE p # cur[j] \/ ~Rewrites(j)
        <5>1. file'[p] = file[p]
          BY <2>1, <3>2, <4>2 DEF Rewrites
        <5>2. Torn(p) /\ ~Mending(j, p)
          BY <2>1, <3>4, <5>1 DEF Torn, Mending
        <5> QED
          BY <1>2, <3>3, <3>4, <5>2
      <4> QED
        BY <4>1, <4>2
    <3> QED
      BY <1>1, <3>4 DEF TornInv
  <2> QED
    BY <1>13, <2>2, <2>3 DEF UpsertIndexedFile
<1>14. CASE DeleteOldChunks(j)
  <2>1. UNCHANGED <<file, chunk, cur, errs, mode>> /\ pc'[j] = "insert" /\ pc[j] = "cut"
    BY <1>1, <1>14, GoesTyped, LabelSet DEF DeleteOldChunks, dbVars, loopVars, workVars
  <2> QED
    BY <1>1, <1>2, <2>1 DEF TornInv, Torn, Mending, Counts
<1>15. CASE InsertChunks(j)
  <2>1. /\ pc[j] = "insert" /\ UNCHANGED <<file, mode>> /\ cur[j] \in Paths
        /\ file[cur[j]] = Active(seen[j][cur[j]]) /\ ~clash[j]
    BY <1>1, <1>15 DEF InsertChunks, LocalInv, LoopInv, Writing, workVars
  <2>2. CASE Counted(j)
    BY <1>1, <2>2, CountedTyped DEF TornInv, Counts
  <2>3. CASE UNCHANGED errs
    <3>1. chunk' = [chunk EXCEPT ![cur[j]] = seen[j][cur[j]]]
      BY <1>15, <2>1 DEF InsertChunks
    <3>2. ASSUME Counts(j)', NEW p \in Paths, Torn(p)' PROVE p \in calm[j].torn
      <4>1. p # cur[j]
        BY <1>1, <2>1, <3>1, <3>2 DEF Torn, Active, TypeOK
      <4>2. Torn(p) /\ ~Mending(j, p)
        BY <1>1, <2>1, <3>1, <3>2, <4>1 DEF Torn, Mending, TypeOK
      <4>3. Counts(j)
        BY <1>1, <2>1, <2>3, <3>2 DEF Counts
      <4> QED
        BY <1>2, <4>2, <4>3
    <3> QED
      BY <1>1, <3>2 DEF TornInv
  <2> QED
    BY <1>15, <2>1, <2>2, <2>3 DEF InsertChunks
<1>16. CASE MarkFilesDeleted(j)
  <2>1. pc[j] = "mark" /\ UNCHANGED chunk
    BY <1>16 DEF MarkFilesDeleted
  <2>2. Raises(j) \/ UNCHANGED <<errs, mode>>
    BY <1>16 DEF MarkFilesDeleted
  <2>3. ASSUME NEW p \in Paths, Torn(p)' PROVE Torn(p) /\ ~Mending(j, p)
    <3>1. file' = [q \in Paths |-> IF q \in ToDelete(j) /\ file[q].state = "active"
                                  THEN [file[q] EXCEPT !.state = "deleted"] ELSE file[q]]
      BY <1>16 DEF MarkFilesDeleted
    <3>2. [file[p] EXCEPT !.state = "deleted"].state = "deleted"
      BY <1>1 DEF TypeOK, FileRow
    <3>3. file'[p] = file[p]
      BY <2>3, <3>1, <3>2 DEF Torn
    <3> QED
      BY <2>1, <2>3, <3>3 DEF Torn, Mending
  <2>4. Counts(j)' => Counts(j)
    BY <1>1, <1>4, <2>2 DEF Counts
  <2> QED
    BY <1>1, <1>2, <2>3, <2>4 DEF TornInv
<1>17. CASE DeleteChunksByFileIds(j)
  <2>1. /\ pc[j] = "purge" /\ UNCHANGED file
        /\ \A p \in Paths : p \notin marked[j] => chunk'[p] = chunk[p]
    BY <1>17 DEF DeleteChunksByFileIds
  <2>2. Raises(j) \/ UNCHANGED <<errs, mode>>
    BY <1>17 DEF DeleteChunksByFileIds
  <2>3. ASSUME NEW p \in Paths, Torn(p)' PROVE Torn(p) /\ ~Mending(j, p)
    BY <1>1, <2>1, <2>3 DEF Torn, Mending, LoopInv
  <2>4. Counts(j)' => Counts(j)
    BY <1>1, <1>4, <2>2 DEF Counts
  <2> QED
    BY <1>1, <1>2, <2>3, <2>4 DEF TornInv
<1> QED
  BY <1>5, <1>6, <1>7, <1>8, <1>9, <1>10, <1>11, <1>12, <1>13, <1>14, <1>15, <1>16, <1>17
     DEF Advance

LEMMA TornStep ==
    ASSUME IndexInv, [Next]_vars, NEW i \in Jobs
    PROVE  TornInv(i)'
<1>1. TypeOK /\ TornInv(i)
  BY DEF IndexInv
<1>2. CASE UNCHANGED vars
  BY <1>1, <1>2 DEF vars, dbVars, loopVars, workVars, TornInv, Torn, Mending, Counts
<1>3. ASSUME NEW p \in Paths, NEW v \in OnDisk, Edit(p, v) PROVE TornInv(i)'
  <2>1. UNCHANGED <<file, chunk, cur, pc, errs, mode, result>>
    BY <1>3 DEF Edit, dbVars, loopVars, workVars
  <2>2. calm'[i].alone = calm[i].alone /\ calm'[i].torn = calm[i].torn
    <3>1. calm'[i] = [calm[i] EXCEPT !.still = calm[i].still /\ pc[i] = "codex"]
      BY <1>3 DEF Edit
    <3>2. calm[i] \in CalmRow /\ calm[i].still \in BOOLEAN
      BY <1>1 DEF TypeOK, CalmRow
    <3> QED
      BY <3>1, <3>2, CalmEdit
  <2> QED
    BY <1>1, <2>1, <2>2 DEF TornInv, Torn, Mending, Counts
<1>4. ASSUME NEW j \in Jobs, NEW k \in {"localIndex", "reconcile"}, Start(j, k) PROVE TornInv(i)'
  <2>1. UNCHANGED <<file, chunk>>
    BY <1>4 DEF Start, dbVars
  <2>2. CASE i = j
    <3>1. calm'[i].torn = {p \in Paths : Torn(p)}
      BY <1>4, <2>2 DEF Start
    <3> QED
      BY <2>1, <3>1 DEF TornInv, Torn
  <2>3. CASE i # j
    <3>1. calm'[i] = [calm[i] EXCEPT !.alone = FALSE] /\ calm[i] \in CalmRow
      BY <1>1, <1>4, <2>3 DEF Start, TypeOK, CalmRow
    <3> QED
      BY <3>1, CalmLeft DEF TornInv
  <2> QED
    BY <2>2, <2>3
<1>5. ASSUME NEW j \in Jobs, Advance(j) PROVE TornInv(i)'
  <2>1. j \in Running /\ Solo(j) /\ AloneInv
    BY <1>1, <1>5, AdvanceRuns, SoloStep DEF IndexInv
  <2>2. CASE calm[i].alone
    <3>1. i = j
      BY <2>1, <2>2 DEF AloneInv
    <3> QED
      BY <1>5, <2>2, <3>1, TornAdvance
  <2>3. CASE ~calm[i].alone
    BY <2>1, <2>3 DEF TornInv, Solo
  <2> QED
    BY <2>2, <2>3
<1> QED
  BY <1>2, <1>3, <1>4, <1>5 DEF Next

-----------------------------------------------------------------------------
(***************************************************************************)
(* The theorems.                                                           *)
(***************************************************************************)
LEMMA InitInv == Init => IndexInv
<1> SUFFICES ASSUME Init PROVE IndexInv
  OBVIOUS
<1>1. PICK indexed \in [Paths -> Texts \union {"gone"}] :
        /\ file = [p \in Paths |-> IF indexed[p] \in Texts THEN Active(indexed[p]) ELSE Absent]
        /\ chunk = indexed
  BY DEF Init
<1>2. TypeOK
  <2>1. file \in [Paths -> FileRow]
    BY <1>1 DEF FileRow, Active, Absent
  <2>2. calm \in [Jobs -> CalmRow]
    <3>1. [alone |-> FALSE, still |-> FALSE, exact |-> FALSE, torn |-> {}] \in CalmRow
      BY DEF CalmRow
    <3> QED
      BY <3>1 DEF Init
  <2> QED
    BY <1>1, <2>1, <2>2, LabelSet DEF Init, TypeOK, Reading, OnDisk, FileRow, Absent
<1>3. AloneInv
  BY ConstantsOK DEF Init, AloneInv, Running, Quiet
<1>4. ASSUME NEW j \in Jobs PROVE JobInv(j) /\ TornInv(j)
  <2>1. LocalInv(j)
    BY <1>4 DEF Init, LocalInv, Writing, Loop, Indexing
  <2>2. ~calm[j].alone
    BY <1>4 DEF Init
  <2> QED
    BY <2>1, <2>2 DEF JobInv, TornInv, Still
<1>5. RetrievalSeesText
  BY <1>1 DEF RetrievalSeesText, Active, Absent
<1> QED
  BY <1>2, <1>3, <1>4, <1>5 DEF IndexInv

LEMMA AloneStep == ASSUME IndexInv, [Next]_vars PROVE AloneInv'
<1>1. AloneInv /\ TypeOK
  BY DEF IndexInv
<1>2. CASE UNCHANGED vars
  BY <1>1, <1>2 DEF vars, AloneInv, Running
<1>3. ASSUME NEW p \in Paths, NEW v \in OnDisk, Edit(p, v) PROVE AloneInv'
  <2>1. Running' = Running /\ faults' = faults
    BY <1>3 DEF Edit, Running
  <2>2. ASSUME NEW j \in Jobs PROVE calm'[j].alone = calm[j].alone
    <3>1. calm'[j] = [calm[j] EXCEPT !.still = calm[j].still /\ pc[j] = "codex"]
      BY <1>3 DEF Edit
    <3>2. calm[j] \in CalmRow /\ calm[j].still \in BOOLEAN
      BY <1>1 DEF TypeOK, CalmRow
    <3> QED
      BY <3>1, <3>2, CalmEdit
  <2> QED
    BY <1>1, <2>1, <2>2 DEF AloneInv, Running
<1>4. ASSUME NEW j \in Jobs, NEW k \in {"localIndex", "reconcile"}, Start(j, k) PROVE AloneInv'
  <2>1. /\ pc[j] = "idle" /\ faults' = faults /\ (Serial => Running = {})
        /\ \A i \in Jobs \ {j} : pc'[i] = pc[i]
    BY <1>1, <1>4 DEF Start, TypeOK
  <2>2. Running' \subseteq Running \union {j}
    BY <2>1 DEF Running
  <2>3. calm'[j].alone = (Running = {})
    BY <1>4 DEF Start
  <2>4. ASSUME NEW i \in Jobs \ {j} PROVE ~calm'[i].alone
    <3>1. calm'[i] = [calm[i] EXCEPT !.alone = FALSE]
      BY <1>4 DEF Start
    <3> QED
      BY <1>1, <3>1 DEF TypeOK
  <2> QED
    BY <1>1, <2>1, <2>2, <2>3, <2>4 DEF AloneInv
<1>5. ASSUME NEW j \in Jobs, Advance(j) PROVE AloneInv'
  <2>1. Solo(j) /\ j \in Running /\ faults' <= MaxFaults
    BY <1>1, <1>5, SoloStep, AdvanceRuns, AdvanceCounts DEF AloneInv
  <2>2. Running' \subseteq Running
    BY <2>1 DEF Solo, Running
  <2> QED
    BY <1>1, <2>1, <2>2 DEF AloneInv, Solo
<1> QED
  BY <1>2, <1>3, <1>4, <1>5 DEF Next

LEMMA InvStep == IndexInv /\ [Next]_vars => IndexInv'
<1> SUFFICES ASSUME IndexInv, [Next]_vars PROVE IndexInv'
  OBVIOUS
<1>1. TypeOK'
  BY TypeStep DEF IndexInv, JobInv
<1>2. ASSUME NEW i \in Jobs PROVE JobInv(i)'
  <2>1. CASE UNCHANGED vars
    <3>1. JobInv(i)
      BY DEF IndexInv
    <3> QED
      BY <2>1, <3>1 DEF vars, diskVars, dbVars, loopVars, workVars, JobInv, LocalInv, LoopInv,
         ReadInv, FullInv, SnapInv, ScopedInv, Still, Scoped, Candidates, Unwritten, Sound, Exact,
         FileExact, Recorded, BlindAt, FullRun, Reindexing
  <2>2. ASSUME NEW p \in Paths, NEW v \in OnDisk, Edit(p, v) PROVE JobInv(i)'
    BY <2>2, EditKeeps
  <2>3. ASSUME NEW j \in Jobs, NEW k \in {"localIndex", "reconcile"}, Start(j, k) PROVE JobInv(i)'
    BY <2>3, StartKeeps
  <2>4. ASSUME NEW j \in Jobs, Advance(j) PROVE JobInv(i)'
    BY <2>4, AdvanceKeeps
  <2> QED
    BY <2>1, <2>2, <2>3, <2>4 DEF Next
<1> QED
  BY <1>1, <1>2, AloneStep, TextStep, TornStep DEF IndexInv

(* The inductive invariant holds of every behaviour.                       *)
THEOREM IndexInvariant == Spec => []IndexInv
  BY InitInv, InvStep, PTL DEF Spec

(* Every variable keeps its type, whatever jobs overlap and fail.          *)
THEOREM TypeCorrect == Spec => []TypeOK
<1>1. IndexInv => TypeOK
  BY DEF IndexInv
<1> QED
  BY <1>1, IndexInvariant, PTL

LEMMA FinishedFull ==
    ASSUME IndexInv, NEW j \in Jobs, JustFinished(j), FullRun(j), NEW p \in Paths
    PROVE  Sound(p)
<1>1. LocalInv(j) /\ FullInv(j)
  BY DEF IndexInv, JobInv, JustFinished, Still
<1>2. ~Scoped(j)
  BY <1>1 DEF LocalInv, FullRun, Scoped
<1> QED
  BY <1>1, <1>2 DEF FullInv, JustFinished

(* A full index that ran alone over a still workspace and counted no error *)
(* leaves the rows of the files exact, whatever overlapped and failed      *)
(* before it.                                                              *)
THEOREM FilesAreRepaired == Spec => []CleanRunRepairsFiles
<1>1. IndexInv => CleanRunRepairsFiles
  BY FinishedFull DEF CleanRunRepairsFiles, Sound
<1> QED
  BY <1>1, IndexInvariant, PTL

(* An index that ran alone and counted no error tears no file from its     *)
(* chunks, for any edits, unreadable files and failing statements: the     *)
(* next runs may trust the hash it wrote.                                  *)
THEOREM NothingTorn == Spec => []CleanRunTearsNothing
<1>1. IndexInv => CleanRunTearsNothing
  BY DEF IndexInv, CleanRunTearsNothing, TornInv, Counts, Mending
<1> QED
  BY <1>1, IndexInvariant, PTL

(* Without overlaps and faults, an active file has the chunks of its hash. *)
THEOREM TextIsSeen == ASSUME Serial, MaxFaults = 0 PROVE Spec => []RetrievalSeesText
<1>1. IndexInv => RetrievalSeesText
  BY DEF IndexInv, Undisturbed
<1> QED
  BY <1>1, IndexInvariant, PTL

(* Without overlaps and faults, a clean full index leaves the index exact, *)
(* whatever earlier jobs read of a changing workspace.                     *)
THEOREM CleanRuns == ASSUME Serial, MaxFaults = 0 PROVE Spec => []CleanRunIsExact
<1>1. IndexInv => CleanRunIsExact
  BY FinishedFull DEF CleanRunIsExact, Sound, Undisturbed
<1> QED
  BY <1>1, IndexInvariant, PTL

LEMMA FinishedScoped ==
    ASSUME IndexInv, Serial, MaxFaults = 0, NEW j \in Jobs, JustFinished(j),
           kind[j] = "reconcile", mode[j] # "fallback_full"
    PROVE  /\ \A p \in diff[j].changed : Exact(p)
           /\ \A p \in diff[j].changed \ diff[j].deleted : disk[p] \in Texts
           /\ calm[j].exact => \A p \in Paths \ diff[j].changed : Exact(p) \/ BlindAt(j, p)
<1>1. LocalInv(j) /\ ScopedInv(j)
  BY DEF IndexInv, JobInv, JustFinished, Still
<1>2. Scoped(j) \/ mode[j] = "skipped"
  BY <1>1 DEF LocalInv, JustFinished, Scoped
<1> QED
  BY <1>1, <1>2 DEF ScopedInv, JustFinished, Sound, Undisturbed, Reindexing

(* Without overlaps and faults, reindexing the diff of a codex run keeps   *)
(* an exact index exact.                                                   *)
THEOREM PostRuns == ASSUME Serial, MaxFaults = 0 PROVE Spec => []PostRunKeepsIndex
<1>1. IndexInv => PostRunKeepsIndex
  <2> SUFFICES ASSUME IndexInv, NEW j \in Jobs, JustFinished(j), kind[j] = "reconcile",
                      mode[j] # "fallback_full", calm[j].exact, ~Blind(j), NEW p \in Paths
               PROVE  Exact(p)
    BY DEF PostRunKeepsIndex
  <2>1. ~BlindAt(j, p)
    BY DEF Blind, BlindAt
  <2> QED
    BY <2>1, FinishedScoped
<1> QED
  BY <1>1, IndexInvariant, PTL

(* Without overlaps and faults, what the review accepts has changed        *)
(* something, and retrieval finds all of it as it is on disk.              *)
THEOREM AcceptedRuns == ASSUME Serial, MaxFaults = 0 PROVE Spec => []AcceptedRunIsIndexed
<1>1. IndexInv => AcceptedRunIsIndexed
  <2> SUFFICES ASSUME IndexInv, NEW j \in Jobs, NEW e \in Executions, NEW w \in Warnings,
                      NEW lost \in BOOLEAN, JustFinished(j), kind[j] = "reconcile",
                      Reviewed(j, e, w, lost) \in Accepts
               PROVE  /\ e = "ok" /\ ~lost /\ diff[j].changed # {}
                      /\ \A p \in diff[j].changed : disk[p] \in Texts /\ Exact(p)
    BY DEF AcceptedRunIsIndexed
  <2> DEFINE outcome == ClassifyExecutionOutcome(e, diff[j].changed, w, Reindexed(j))
  <2>1. /\ Decision(EffectiveOutcome(lost, outcome), diff[j].deleted, w) \in Accepts
        /\ mode[j] # "fallback_full"
    BY DEF Reviewed, Review, Reindexed, Accepts
  <2>2. EffectiveOutcome(lost, outcome) = "applied_changes" /\ diff[j].deleted = {}
    <3>1. outcome \in {"failed", "timeout", "cancelled", "no_op", "partial_changes", "applied_changes"}
      BY DEF ClassifyExecutionOutcome, Executions
    <3>2. EffectiveOutcome(lost, outcome) \in {"blocked", "failed", "timeout", "cancelled", "no_op",
                                              "partial_changes", "applied_changes"}
      BY <3>1 DEF EffectiveOutcome
    <3> QED
      BY <2>1, <3>2 DEF Decision, Accepts
  <2>3. ~lost /\ outcome = "applied_changes"
    BY <2>2 DEF EffectiveOutcome
  <2>4. e = "ok" /\ diff[j].changed # {}
    BY <2>3 DEF ClassifyExecutionOutcome, Executions
  <2> QED
    BY <2>1, <2>2, <2>3, <2>4, FinishedScoped
<1> QED
  BY <1>1, IndexInvariant, PTL

=============================================================================
