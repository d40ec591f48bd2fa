-------------------------- MODULE MCWorkspaceIndex --------------------------
(* Instances of WorkspaceIndex for TLC.  Jobs, paths and texts are model    *)
(* values the specification never tells apart.                             *)
EXTENDS WorkspaceIndex, TLC

Symmetry == Permutations(Jobs) \union Permutations(Paths) \union Permutations(Texts)

(* No property of the runs reads what is left of a job that is over once   *)
(* another has started or the workspace has changed, and nothing reads     *)
(* index_runs.                                                             *)
SerialView ==
    <<disk, edits, misses, faults, file, chunk,
      [j \in Jobs |->
         IF pc[j] = "done" /\ ~JustFinished(j) THEN "over"
         ELSE <<pc[j], kind[j], mode[j], todo[j], seen[j], cur[j], before[j], diff[j],
                known[j], clash[j], marked[j], errs[j], result[j], calm[j]>>]>>

(* Two states behave alike, as far as the properties of index_overlap can  *)
(* tell, that differ only in index_runs, which nothing reads, in what      *)
(* became of a job that is over or no longer alone, in a snapshot already  *)
(* compared, in a list of known files that will be read anew, or in a      *)
(* clash before the next DELETE.                                           *)
If(c, x) == IF c THEN x ELSE "over"

Trusted(j) == calm[j].alone /\ result[j] = "ok" /\ ~errs[j]

Outcome(j) ==
    IF pc[j] = "done"
    THEN <<"done", JustFinished(j) /\ FullRun(j),
           If(Trusted(j) /\ mode[j] # "fallback_full", calm[j].torn)>>
    ELSE <<pc[j], kind[j], mode[j],
           If(calm[j].alone, <<calm[j].still, errs[j], If(~errs[j], calm[j].torn)>>)>>

OverlapView ==
    <<disk, edits, misses, faults, file, chunk,
      [j \in Jobs |->
         <<Outcome(j), If(pc[j] # "done", <<todo[j], seen[j], cur[j], marked[j]>>),
           If(pc[j] \notin Scanning \union {"codex", "list", "done"}, known[j]),
           If(pc[j] = "insert", clash[j]), If(pc[j] \in {"codex", "after"}, before[j])>>]>>
=============================================================================
