------------------------------ MODULE Retrieval ------------------------------
(***************************************************************************)
(* HybridContextRetriever as functions: what its three queries return of   *)
(* an index, the ranking of what they returned and the selection under a   *)
(* budget.  PrepareTask says when each query reads the index.  The scores  *)
(* count matched terms; here a path and a fragment of a text have a weight *)
(* each and the scorer's arithmetic over them keeps its order.             *)
(***************************************************************************)
EXTENDS Integers, FiniteSets, FiniteSetsExt, Sequences, SequencesExt

CONSTANTS
    Paths,      \* numbered in the order localeCompare gives them
    Fragments,  \* text -> the chunks the chunker cuts it into
    Versions,   \* path -> the texts its file has over time (a bound)
    PathWeight, \* path -> how well the intent matches the path itself
    ActiveFile, \* a path, or None
    None,
    MaxFiles, MaxChunks, MaxPerFile, MaxChars   \* DEFAULT_RETRIEVAL_BUDGET

Texts == DOMAIN Fragments

ASSUME RetrievalConstantsOK ==
    /\ Paths \subseteq Nat /\ IsFiniteSet(Paths)
    /\ \A t \in Texts : Fragments[t] \in Seq([size : Nat, hits : Nat])
    /\ PathWeight \in [Paths -> Nat] /\ Versions \in [Paths -> SUBSET Texts]
    /\ None \notin Paths /\ ActiveFile \in Paths \union {None} /\ "gone" \notin Texts
    /\ MaxFiles \in Nat \ {0} /\ MaxChunks \in Nat \ {0}
    /\ MaxPerFile \in Nat \ {0} /\ MaxChars \in Nat

(* files joined with file_chunks: the text a path's chunks were cut from,  *)
(* "gone" if it has no active row.                                         *)
Index == {i \in [Paths -> Texts \union {"gone"}] :
            \A p \in Paths : i[p] \in Versions[p] \union {"gone"}}

Chunk == {c \in [path : Paths, at : Nat, text : Texts] : c.at \in DOMAIN Fragments[c.text]}

Size(c) == Fragments[c.text][c.at].size

Hits(c) == Fragments[c.text][c.at].hits

ChunksOf_WithDeleted(index, p) ==
    LET text == IF index[p] = "gone" THEN CHOOSE t \in Texts : TRUE ELSE index[p]
    IN  {[path |-> p, at |-> i, text |-> text] : i \in DOMAIN Fragments[text]}

(* The chunks of an active file.                                           *)
ChunksOf(index, p) ==
    IF index[p] = "gone" THEN {}
    ELSE {[path |-> p, at |-> i, text |-> index[p]] : i \in DOMAIN Fragments[index[p]]}

(***************************************************************************)
(* The queries.  Their limits of 24 files and 48 chunks lie beyond the     *)
(* instances checked.                                                      *)
(***************************************************************************)
Coarse(c) == PathWeight[c.path] + Hits(c)

SearchIndexedFiles(index) == {p \in Paths : index[p] # "gone" /\ PathWeight[p] > 0}

SearchFileChunks(index) ==
    {c \in UNION {ChunksOf(index, p) : p \in Paths} : Coarse(c) > 0}

GetFileChunksByFileIds(index, files) ==
    {c \in UNION {ChunksOf(index, p) : p \in files} : c.at <= MaxPerFile}

(* One chunk for each place of a file; a match comes before a supplement.  *)
Dedupe(chunks, extra) ==
    chunks \union {c \in extra : \A d \in chunks : <<d.path, d.at>> # <<c.path, c.at>>}

(***************************************************************************)
(* rankRetrievalCandidates.                                                *)
(***************************************************************************)
FileScore(p, files, chunks) ==
    IF p \in files THEN PathWeight[p]
    ELSE Max({0} \union {Coarse(c) : c \in {d \in chunks : d.path = p}})

ChunkScore(c, files, chunks) ==
    Max({FileScore(c.path, files, chunks), IF c \in chunks THEN Coarse(c) ELSE 0}) + Hits(c)

Better(a, b) == a.score > b.score \/ (a.score = b.score /\ a.place < b.place)

Scored(c, score) == [chunk |-> c, place |-> c.at, score |-> score]

(* sort: the members of a set, none of which have the same place.          *)
Sorted(S) ==
    CHOOSE s \in [1..Cardinality(S) -> S] :
        \A i, j \in 1..Cardinality(S) : i < j => Better(s[i], s[j])

(* The chunks of a file, best first, with the penalty of 4 that each later *)
(* one takes for coming from the same file.                                *)
RankedChunks(p, files, chunks, all) ==
    LET positive  == {s \in {Scored(c, ChunkScore(c, files, chunks)) :
                               c \in {d \in all : d.path = p}} : s.score > 0}
        byScore   == Sorted(positive)
        saturated == {Scored(byScore[i].chunk, Max({0, byScore[i].score - 4 * (i - 1)})) :
                        i \in DOMAIN byScore}
    IN  Sorted(saturated)

RankedFile(p, files, chunks, all) ==
    LET own  == RankedChunks(p, files, chunks, all)
        best == IF own = <<>> THEN 0 ELSE own[1].score
    IN  [place |-> p,
         score |-> Max({FileScore(p, files, chunks), best}) + 3 * Min({4, Len(own)}),
         own   |-> FileScore(p, files, chunks),
         chunks |-> [i \in DOMAIN own |-> own[i].chunk]]

(* files and chunks matched, extra came with the third query.              *)
Ranked(files, chunks, extra) ==
    LET all   == Dedupe(chunks, extra)
        known == files \union {c.path : c \in all}
    IN  Sorted({r \in {RankedFile(p, files, chunks, all) : p \in known} :
                  r.own > 0 \/ r.chunks # <<>>})

(***************************************************************************)
(* applyRetrievalBudget: rounds over the first MaxFiles files, one chunk   *)
(* of each file per round.  A chunk too large for what is left is skipped. *)
(***************************************************************************)
Kept(ranked) == SubSeq(ranked, 1, Min({MaxFiles, Len(ranked)}))

Untouched(ranked) ==
    [cursor    |-> [i \in DOMAIN Kept(ranked) |-> 0],
     taken     |-> [i \in DOMAIN Kept(ranked) |-> 0],
     selected  |-> <<>>,
     chars     |-> 0,
     moved     |-> FALSE,      \* progressed
     truncated |-> Len(ranked) > MaxFiles,
     reasons   |-> IF Len(ranked) > MaxFiles THEN {"max_files"} ELSE {}]

Full(b) == Len(b.selected) >= MaxChunks

(* The next chunk of file i is taken.                                      *)
Take(b, i, queue) ==
    LET c    == queue[b.cursor[i] + 1]
        last == Len(b.selected) + 1 >= MaxChunks
    IN  [b EXCEPT !.cursor[i] = @ + 1,
                  !.taken[i] = @ + 1,
                  !.selected = Append(@, c),
                  !.chars = @ + Size(c),
                  !.moved = TRUE,
                  !.truncated = @ \/ (last /\ Len(queue) > b.cursor[i] + 1),
                  !.reasons = IF last THEN @ \union {"max_chunks"} ELSE @]

Skip_Silently(b, i) == [b EXCEPT !.cursor[i] = @ + 1, !.truncated = TRUE]

Skip(b, i) ==
    [b EXCEPT !.cursor[i] = @ + 1,
              !.truncated = TRUE,
              !.reasons = @ \union {"max_total_chars"}]

Fits(b, c) == b.chars + Size(c) <= MaxChars

Visit_Greedy(b, i, queue) ==
    LET after == b.cursor[i] + 1
        now   == IF b.taken[i] >= MaxPerFile \/ after > Len(queue) THEN b
                 ELSE IF Fits(b, queue[after]) THEN Take(b, i, queue) ELSE Skip(b, i)
    IN  IF Full(b) THEN b
        ELSE IF ~Full(now) /\ now.taken[i] < MaxPerFile /\ now.cursor[i] < Len(queue)
                /\ Fits(now, queue[now.cursor[i] + 1])
             THEN Take(now, i, queue) ELSE now

(* One turn of the inner loop, for file i whose chunks are queue.          *)
Visit(b, i, queue) ==
    CASE Full(b) -> b
      [] ~Full(b) /\ b.taken[i] >= MaxPerFile ->
             [b EXCEPT !.reasons = @ \union {"max_chunks_per_file"}]
      [] ~Full(b) /\ b.taken[i] < MaxPerFile /\ b.cursor[i] >= Len(queue) -> b
      [] OTHER -> IF Fits(b, queue[b.cursor[i] + 1]) THEN Take(b, i, queue) ELSE Skip(b, i)

Turns(b, kept) ==
    LET turn[i \in 0..Len(kept)] ==
            IF i = 0 THEN [b EXCEPT !.moved = FALSE] ELSE Visit(turn[i - 1], i, kept[i].chunks)
    IN  turn

Round(b, kept) == Turns(b, kept)[Len(kept)]

(* The outer loop: every round but the last takes a chunk.                 *)
Rounds(ranked) ==
    LET round[n \in 0..(MaxChunks + 1)] ==
            IF n = 0 THEN Round(Untouched(ranked), Kept(ranked))
            ELSE IF Full(round[n - 1]) \/ ~round[n - 1].moved THEN round[n - 1]
            ELSE Round(round[n - 1], Kept(ranked))
    IN  round

LastRound(ranked) == Rounds(ranked)[MaxChunks + 1]

Selection(ranked) ==
    LET last == LastRound(ranked)
    IN  [last EXCEPT !.truncated =
            @ \/ \E i \in DOMAIN Kept(ranked) : last.taken[i] < Len(Kept(ranked)[i].chunks)]

(***************************************************************************)
(* The context: the selection, or the active file if nothing was found.    *)
(***************************************************************************)
Fallback ==
    [candidates |-> IF ActiveFile = None THEN <<>> ELSE <<ActiveFile>>,
     ranked |-> <<>>, selected |-> <<>>, truncated |-> FALSE, reasons |-> {}]

Retrieved(files, chunks, extra) ==
    LET ranked == Ranked(files, chunks, extra)
        sel    == Selection(ranked)
    IN  IF ranked = <<>> THEN Fallback
        ELSE [candidates |-> [i \in DOMAIN Kept(ranked) |-> ranked[i].place],
              ranked     |-> [i \in DOMAIN ranked |-> ranked[i].chunks],
              selected   |-> sel.selected,
              truncated  |-> sel.truncated,
              reasons    |-> sel.reasons]

-----------------------------------------------------------------------------
(***************************************************************************)
(* What is asked of a context.                                             *)
(***************************************************************************)
Picked(ctx, f) == {i \in DOMAIN ctx.selected : ctx.selected[i].path = f}

IsFrom(ctx, shown) ==
    \A i, j \in DOMAIN ctx.selected :
        LET c == ctx.selected[i]
            d == ctx.selected[j]
        IN  /\ <<c.path, c.text>> \in shown
            /\ i # j => <<c.path, c.at>> # <<d.path, d.at>>

Chars(s) ==
    LET sum[n \in 0..Len(s)] == IF n = 0 THEN 0 ELSE sum[n - 1] + Size(s[n]) IN sum[Len(s)]

LeftOut(ctx) ==
    \/ Len(ctx.ranked) > MaxFiles
    \/ \E i \in DOMAIN ctx.ranked : \E c \in ToSet(ctx.ranked[i]) : c \notin ToSet(ctx.selected)

KeepsBudget(ctx) ==
    /\ Len(ctx.selected) <= MaxChunks /\ Chars(ctx.selected) <= MaxChars
    /\ Len(ctx.candidates) <= MaxFiles
    /\ \A f \in Paths : Cardinality(Picked(ctx, f)) <= MaxPerFile
    /\ ctx.truncated <=> LeftOut(ctx)
    /\ ctx.truncated => ctx.reasons # {}

(* What the best chunks of the files before j take of the budget, of those *)
(* that were selected.                                                     *)
FirstsBefore(ctx, j) ==
    LET firsts[k \in 0..(j - 1)] ==
            IF k = 0 THEN 0
            ELSE IF ctx.ranked[k] # <<>> /\ ctx.ranked[k][1] \in ToSet(ctx.selected)
                 THEN firsts[k - 1] + Size(ctx.ranked[k][1]) ELSE firsts[k - 1]
    IN  firsts[j - 1]

StarvesNone(ctx) ==
    \A i, j \in DOMAIN ctx.candidates :
        /\ Cardinality(Picked(ctx, ctx.candidates[i])) >= 2
        /\ Picked(ctx, ctx.candidates[j]) = {} /\ ctx.ranked[j] # <<>>
        => FirstsBefore(ctx, j) + Size(ctx.ranked[j][1]) > MaxChars
=============================================================================
