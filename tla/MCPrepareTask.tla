--------------------------- MODULE MCPrepareTask ---------------------------
(***************************************************************************)
(* PrepareTask for TLC: three files, of which the intent matches two by    *)
(* their path; a text of three chunks, one of a single large chunk and one *)
(* of none (an empty file, or a new row whose chunks are still missing).   *)
(* The budgets are smaller than what the files hold.                       *)
(***************************************************************************)
EXTENDS PrepareTask

MCPaths == 1..3

MCFragments ==
    [long  |-> <<[size |-> 2, hits |-> 0], [size |-> 1, hits |-> 12], [size |-> 2, hits |-> 1]>>,
     large |-> <<[size |-> 4, hits |-> 6]>>,
     empty |-> <<>>]

MCVersions == <<{"long"}, {"long", "large"}, {"empty"}>>

MCPathWeight == [p \in MCPaths |-> IF p = 1 THEN 0 ELSE 2 * p]

(* While nobody retrieves nothing depends on the index: the next retrieval *)
(* finds any.                                                              *)
View ==
    <<IF \E p \in Preps : pc[p] \in Retrieving THEN index ELSE <<>>, reindexed, faults,
      tableVars, storeVars, pc, got, answer, callVars>>

Symmetry == Permutations(Preps) \union Permutations(Windows)
=============================================================================
