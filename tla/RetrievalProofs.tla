-------------------------- MODULE RetrievalProofs --------------------------
(***************************************************************************)
(* What HybridContextRetriever promises of a context, for any index, any   *)
(* chunks its queries return and any budget: lemmas about the operators of *)
(* Retrieval, without a state.  An induction is made by a set: it contains *)
(* 0 and with each number the next, for there is no least one outside it.  *)
(***************************************************************************)
EXTENDS Retrieval, FiniteSetTheorems, FunctionTheorems, SequenceTheorems, WellFoundedInduction, TLAPS

(***************************************************************************)
(* Induction and recursion over the first numbers.                         *)
(***************************************************************************)
LEMMA UpTo ==
    ASSUME NEW N \in Nat, NEW T, 0 \in T, \A n \in 0..(N - 1) : n \in T => n + 1 \in T
    PROVE  \A n \in 0..N : n \in T
<1> DEFINE out == {n \in Nat : n <= N /\ n \notin T}
<1> SUFFICES ASSUME out # {} PROVE FALSE
  OBVIOUS
<1>1. IsWellFoundedOn(OpToRel(<, Nat), Nat)
  BY NatLessThanWellFounded
<1>2. PICK x \in out : \A y \in out : <<y, x>> \notin OpToRel(<, Nat)
  BY <1>1, WFMin
<1>3. x \in Nat /\ x <= N /\ x \notin T
  OBVIOUS
<1>4. x # 0 /\ x - 1 \in 0..(N - 1) /\ x - 1 \in Nat /\ x - 1 < x
  BY <1>3
<1>5. x - 1 \in T => x - 1 + 1 \in T
  BY <1>4
<1>6. x - 1 + 1 = x
  BY <1>3
<1>7. x - 1 \in out
  BY <1>3, <1>4, <1>5, <1>6
<1>8. <<x - 1, x>> \in OpToRel(<, Nat)
  BY <1>3, <1>4 DEF OpToRel
<1> HIDE DEF out
<1> QED
  BY <1>2, <1>7, <1>8

Recursive(S, base, N, step) ==
    {f \in [0..N -> S] : f[0] = base /\ \A i \in 1..N : f[i] = step[i][f[i - 1]]}

LEMMA Recursion ==
    ASSUME NEW S, NEW base \in S, NEW N \in Nat, NEW step \in [1..N -> [S -> S]]
    PROVE  Recursive(S, base, N, step) # {}
<1> DEFINE T == {n \in 0..N : \E f \in [0..n -> S] :
                     f[0] = base /\ \A i \in 1..n : f[i] = step[i][f[i - 1]]}
<1>1. 0 \in T
  <2>1. PICK f : f = [i \in 0..0 |-> base]
    OBVIOUS
  <2>2. f \in [0..0 -> S] /\ f[0] = base /\ \A i \in 1..0 : f[i] = step[i][f[i - 1]]
    BY <2>1
  <2> QED
    BY <2>2
<1>2. ASSUME NEW n \in 0..(N - 1), n \in T PROVE n + 1 \in T
  <2>1. PICK f \in [0..n -> S] : f[0] = base /\ \A i \in 1..n : f[i] = step[i][f[i - 1]]
    BY <1>2
  <2>2. PICK g : g = [i \in 0..(n + 1) |-> IF i = n + 1 THEN step[n + 1][f[n]] ELSE f[i]]
    OBVIOUS
  <2>3. step[n + 1][f[n]] \in S
    BY <2>1
  <2>4. g \in [0..(n + 1) -> S] /\ g[0] = base
    <3>1. \A i \in 0..(n + 1) : i # n + 1 => i \in 0..n
      OBVIOUS
    <3>2. \A i \in 0..(n + 1) : g[i] \in S
      BY <2>1, <2>2, <2>3, <3>1
    <3>3. 0 \in 0..n /\ 0 \in 0..(n + 1) /\ 0 # n + 1
      OBVIOUS
    <3> QED
      BY <2>1, <2>2, <3>2, <3>3
  <2>5. ASSUME NEW i \in 1..(n + 1) PROVE g[i] = step[i][g[i - 1]]
    <3>1. g[i - 1] = f[i - 1]
      BY <2>2
    <3>2. CASE i = n + 1
      BY <2>2, <3>1, <3>2
    <3>3. CASE i \in 1..n
      BY <2>1, <2>2, <3>1, <3>3
    <3> QED
      BY <3>2, <3>3
  <2> QED
    BY <2>4, <2>5, SMTT(60)
<1> HIDE DEF T
<1>3. \A n \in 0..N : n \in T
  BY <1>1, <1>2, UpTo
<1> QED
  BY <1>3 DEF T, Recursive

(***************************************************************************)
(* Maxima.                                                                 *)
(***************************************************************************)
LEMMA MaxOfTwo == ASSUME NEW a \in Nat, NEW b \in Nat PROVE Max({a, b}) \in Nat /\ Min({a, b}) \in Nat
<1>1. \E x \in {a, b} : \A y \in {a, b} : x >= y
  OBVIOUS
<1>2. \E x \in {a, b} : \A y \in {a, b} : x <= y
  OBVIOUS
<1> QED
  BY <1>1, <1>2 DEF Max, Min

(* Every non-empty finite set has a best member, if worse[x] is the set of *)
(* those x comes before.                                                   *)
LEMMA BestExists ==
    ASSUME NEW S, IsFiniteSet(S), S # {}, NEW worse \in [S -> SUBSET S],
           \A x, y \in S : x # y => y \in worse[x] \/ x \in worse[y],
           \A x, y, z \in S : y \in worse[x] /\ z \in worse[y] => z \in worse[x]
    PROVE  \E x \in S : \A y \in S \ {x} : y \in worse[x]
<1>1. PICK N \in Nat : N = Cardinality(S)
  BY FS_CardinalityType
<1>2. PICK e \in Bijection(1..N, S) : TRUE
  BY <1>1, FS_CardinalityType DEF ExistsBijection
<1>3. e \in [1..N -> S] /\ \A y \in S : \E i \in 1..N : e[i] = y
  BY <1>2 DEF Bijection, Surjection
<1>4. N # 0
  BY <1>3
<1> DEFINE T == {n \in 0..N : n = 0 \/ \E x \in S : \A i \in 1..n : e[i] # x => e[i] \in worse[x]}
<1>5. 0 \in T
  OBVIOUS
<1>6. ASSUME NEW n \in 0..(N - 1), n \in T PROVE n + 1 \in T
  <2>1. e[n + 1] \in S
    BY <1>3
  <2>2. CASE n = 0
    <3>1. \A i \in 1..(n + 1) : i = n + 1
      BY <2>2
    <3> QED
      BY <2>1, <3>1
  <2>3. CASE n # 0
    <3>1. PICK x \in S : \A i \in 1..n : e[i] # x => e[i] \in worse[x]
      BY <1>6, <2>3
    <3>2. \A i \in 1..(n + 1) : i \in 1..n \/ i = n + 1
      OBVIOUS
    <3>3. CASE x = e[n + 1] \/ e[n + 1] \in worse[x]
      BY <3>1, <3>2, <3>3
    <3>4. CASE x # e[n + 1] /\ x \in worse[e[n + 1]]
      <4>1. \A i \in 1..n : e[i] \in S /\ e[i] \in worse[e[n + 1]]
        BY <1>3, <2>1, <3>1, <3>4
      <4> QED
        BY <2>1, <3>2, <4>1
    <3> QED
      BY <2>1, <3>3, <3>4
  <2> QED
    BY <2>2, <2>3
<1> HIDE DEF T
<1>7. N \in T
  BY <1>5, <1>6, UpTo, SMTT(60)
<1>8. PICK x \in S : \A i \in 1..N : e[i] # x => e[i] \in worse[x]
  BY <1>4, <1>7 DEF T
<1>9. ASSUME NEW y \in S \ {x} PROVE y \in worse[x]
  <2>1. PICK i \in 1..N : e[i] = y
    BY <1>3
  <2> QED
    BY <1>8, <2>1
<1> QED
  BY <1>9

LEMMA MaxOfMany == ASSUME NEW S, IsFiniteSet(S), S # {} PROVE S \subseteq Nat => Max(S) \in S
<1>1. ASSUME S \subseteq Nat PROVE Max(S) \in S
  <2>1. PICK worse \in [S -> SUBSET S] : worse = [x \in S |-> {y \in S : x >= y}]
    OBVIOUS
  <2>2. \A x, y \in S : y \in worse[x] <=> x >= y
    BY <2>1
  <2>3. \A x, y \in S : x # y => y \in worse[x] \/ x \in worse[y]
    BY <1>1, <2>2
  <2>4. \A x, y, z \in S : y \in worse[x] /\ z \in worse[y] => z \in worse[x]
    BY <1>1, <2>2
  <2>5. \E x \in S : \A y \in S \ {x} : y \in worse[x]
    BY <2>3, <2>4, BestExists
  <2>6. PICK x \in S : \A y \in S \ {x} : y \in worse[x]
    BY <2>5
  <2>7. \A y \in S : x >= y
    BY <1>1, <2>2, <2>6
  <2> QED
    BY <2>7 DEF Max
<1> QED
  BY <1>1

(***************************************************************************)
(* Sorting.                                                                *)
(***************************************************************************)
Rankable(S) ==
    /\ IsFiniteSet(S)
    /\ \A r \in S : r.score \in Nat /\ r.place \in Nat
    /\ \A r, t \in S : r.place = t.place => r = t

(* s holds the n best members of S, in their order.                        *)
BestOf(S, n, s) ==
    /\ \A i, j \in 1..n : i < j => Better(s[i], s[j])
    /\ \A r \in S : (\A i \in 1..n : s[i] # r) => \A i \in 1..n : Better(s[i], r)

LEMMA BetterOrders ==
    ASSUME NEW S, Rankable(S)
    PROVE  /\ \A r, t \in S : r # t => Better(r, t) \/ Better(t, r)
           /\ \A r, t \in S : ~(Better(r, t) /\ Better(t, r))
           /\ \A r, t, u \in S : Better(r, t) /\ Better(t, u) => Better(r, u)
<1>1. \A r \in S : r.score \in Nat /\ r.place \in Nat
  BY DEF Rankable
<1>2. \A r, t \in S : r # t => r.place # t.place
  BY DEF Rankable
<1>3. \A r, t \in S : r # t => Better(r, t) \/ Better(t, r)
  BY <1>1, <1>2 DEF Better
<1>4. \A r, t \in S : ~(Better(r, t) /\ Better(t, r))
  BY <1>1 DEF Better
<1>5. \A r, t, u \in S : Better(r, t) /\ Better(t, u) => Better(r, u)
  BY <1>1 DEF Better
<1> QED
  BY <1>3, <1>4, <1>5

LEMMA BestIsThere ==
    ASSUME NEW S, Rankable(S), NEW rest, rest \subseteq S, rest # {}
    PROVE  \E best \in rest : \A r \in rest : r # best => Better(best, r)
<1>1. PICK worse \in [rest -> SUBSET rest] : worse = [r \in rest |-> {t \in rest : Better(r, t)}]
  OBVIOUS
<1>2. \A r, t \in rest : t \in worse[r] <=> Better(r, t)
  BY <1>1
<1>3. \A r, t \in rest : r # t => t \in worse[r] \/ r \in worse[t]
  BY <1>2, BetterOrders
<1>4. \A r, t, u \in rest : t \in worse[r] /\ u \in worse[t] => u \in worse[r]
  BY <1>2, BetterOrders
<1>5. IsFiniteSet(rest)
  BY FS_Subset DEF Rankable
<1>6. \E r \in rest : \A t \in rest \ {r} : t \in worse[r]
  BY <1>3, <1>4, <1>5, BestExists
<1> QED
  BY <1>2, <1>6

(* The best of what is left is put behind what was taken, until nothing is *)
(* left.                                                                   *)
LEMMA SortedExists ==
    ASSUME NEW S, Rankable(S)
    PROVE  \E s \in [1..Cardinality(S) -> S] :
               \A i, j \in 1..Cardinality(S) : i < j => Better(s[i], s[j])
<1>1. PICK N \in Nat : N = Cardinality(S)
  BY FS_CardinalityType DEF Rankable
<1> DEFINE T == {n \in 0..N : \E s \in [1..n -> S] : BestOf(S, n, s)}
<1>2. 0 \in T
  <2>1. PICK s : s = [i \in 1..0 |-> 0]
    OBVIOUS
  <2>2. s \in [1..0 -> S] /\ BestOf(S, 0, s)
    BY <2>1 DEF BestOf
  <2>3. 0 \in 0..N
    OBVIOUS
  <2> QED
    BY <2>2, <2>3, Zenon
<1>3. ASSUME NEW n \in 0..(N - 1), n \in T PROVE n + 1 \in T
  <2>0. PICK s \in [1..n -> S] : BestOf(S, n, s)
    BY <1>3
  <2>1. /\ \A i, j \in 1..n : i < j => Better(s[i], s[j])
        /\ \A r \in S : (\A i \in 1..n : s[i] # r) => \A i \in 1..n : Better(s[i], r)
    BY <2>0 DEF BestOf
  <2>2. PICK rest : rest = {r \in S : \A i \in 1..n : s[i] # r}
    OBVIOUS
  <2>3. rest \subseteq S /\ IsFiniteSet(rest)
    BY <2>2, FS_Subset DEF Rankable
  <2>4. rest # {}
    <3> SUFFICES ASSUME rest = {} PROVE FALSE
      OBVIOUS
    <3>1. \A r \in S : \E i \in 1..n : s[i] = r
      BY <2>2
    <3>2. s \in Surjection(1..n, S)
      BY <3>1 DEF Surjection
    <3>3. n \in Nat /\ ExistsSurjection(1..n, S)
      BY <3>2 DEF ExistsSurjection
    <3>4. Cardinality(S) <= n
      BY <3>3, FS_SurjCardinalityBound
    <3> QED
      BY <1>1, <3>4
  <2>5. PICK best \in rest : \A r \in rest : r # best => Better(best, r)
    BY <2>3, <2>4, BestIsThere
  <2>6. \A i \in 1..n : Better(s[i], best)
    BY <2>1, <2>2, <2>3, <2>5
  <2>7. PICK t : t = [i \in 1..(n + 1) |-> IF i = n + 1 THEN best ELSE s[i]]
    OBVIOUS
  <2>8. t \in [1..(n + 1) -> S] /\ t[n + 1] = best /\ \A i \in 1..n : t[i] = s[i]
    BY <2>3, <2>5, <2>7
  <2>9. ASSUME NEW i \in 1..(n + 1), NEW j \in 1..(n + 1), i < j PROVE Better(t[i], t[j])
    <3>1. i \in 1..n /\ (j = n + 1 \/ j \in 1..n)
      BY <2>9
    <3>2. CASE j = n + 1
      BY <2>6, <2>8, <3>1, <3>2
    <3>3. CASE j \in 1..n
      BY <2>1, <2>8, <2>9, <3>1, <3>3
    <3> QED
      BY <3>1, <3>2, <3>3
  <2>10. ASSUME NEW r \in S, \A i \in 1..(n + 1) : t[i] # r, NEW i \in 1..(n + 1)
         PROVE  Better(t[i], r)
    <3>1. r \in rest /\ r # best
      BY <2>2, <2>8, <2>10
    <3>2. CASE i = n + 1
      BY <2>5, <2>8, <3>1, <3>2
    <3>3. CASE i \in 1..n
      BY <2>1, <2>2, <2>8, <3>1, <3>3
    <3> QED
      BY <3>2, <3>3
  <2>11. BestOf(S, n + 1, t)
    BY <2>9, <2>10 DEF BestOf
  <2> QED
    BY <2>8, <2>11
<1> HIDE DEF T
<1>4. \A n \in 0..N : n \in T
  BY <1>2, <1>3, UpTo
<1>5. N \in T
  BY <1>4
<1> QED
  BY <1>1, <1>5 DEF T, BestOf

LEMMA SortedFacts ==
    ASSUME NEW S, Rankable(S)
    PROVE  /\ Cardinality(S) \in Nat
           /\ Sorted(S) \in [1..Cardinality(S) -> S]
           /\ \A i, j \in 1..Cardinality(S) : i # j => Sorted(S)[i] # Sorted(S)[j]
           /\ \A r \in S : \E i \in 1..Cardinality(S) : Sorted(S)[i] = r
           /\ Sorted(S) \in Seq(S) /\ Len(Sorted(S)) = Cardinality(S)
           /\ DOMAIN Sorted(S) = 1..Cardinality(S)
<1>1. IsFiniteSet(S) /\ Cardinality(S) \in Nat
  BY FS_CardinalityType DEF Rankable
<1>2. PICK s : s = Sorted(S)
  OBVIOUS
<1>3. s \in [1..Cardinality(S) -> S] /\ \A i, j \in 1..Cardinality(S) : i < j => Better(s[i], s[j])
  BY <1>2, SortedExists DEF Sorted
<1>4. \A i, j \in 1..Cardinality(S) : i # j => s[i] # s[j]
  <2> SUFFICES ASSUME NEW i \in 1..Cardinality(S), NEW j \in 1..Cardinality(S), i < j PROVE s[i] # s[j]
    BY <1>1
  <2>1. s[i] \in S /\ s[j] \in S /\ Better(s[i], s[j])
    BY <1>3
  <2>2. ~(Better(s[i], s[j]) /\ Better(s[j], s[i]))
    BY <2>1, BetterOrders
  <2> QED
    BY <2>1, <2>2
<1>5. s \in Injection(1..Cardinality(S), S)
  BY <1>3, <1>4 DEF Injection, IsInjective
<1>6. Cardinality(1..Cardinality(S)) = Cardinality(S)
  BY <1>1, FS_Interval
<1>7. s \in Surjection(1..Cardinality(S), S)
  BY <1>1, <1>5, <1>6, FS_Injection
<1>8. \A r \in S : \E i \in 1..Cardinality(S) : s[i] = r
  BY <1>7 DEF Surjection
<1>9. s \in Seq(S) /\ Len(s) = Cardinality(S) /\ DOMAIN s = 1..Cardinality(S)
  BY <1>1, <1>3
<1> QED
  BY <1>1, <1>2, <1>3, <1>4, <1>8, <1>9

(***************************************************************************)
(* Ranking.  Whatever its scores are, it deals with chunks of the files it *)
(* lists, and no place of a file comes twice.                              *)
(***************************************************************************)
OnePerPlace(C) ==
    /\ C \subseteq Chunk /\ IsFiniteSet(C)
    /\ \A c, d \in C : c.path = d.path /\ c.at = d.at => c = d

LEMMA ChunkFacts ==
    ASSUME NEW c \in Chunk
    PROVE  /\ c.path \in Paths /\ c.at \in Nat /\ c.path \in Nat
           /\ Size(c) \in Nat /\ Hits(c) \in Nat /\ Coarse(c) \in Nat
<1>1. c.path \in Paths /\ c.at \in Nat /\ c.text \in Texts /\ c.at \in DOMAIN Fragments[c.text]
  BY DEF Chunk
<1>2. Fragments[c.text] \in Seq([size : Nat, hits : Nat]) /\ PathWeight[c.path] \in Nat /\ c.path \in Nat
  BY <1>1, RetrievalConstantsOK DEF RetrievalConstantsOK
<1>3. Fragments[c.text][c.at] \in [size : Nat, hits : Nat]
  BY <1>1, <1>2, LenProperties
<1>4. Size(c) \in Nat /\ Hits(c) \in Nat
  BY <1>3 DEF Size, Hits
<1> QED
  BY <1>1, <1>2, <1>4, SMTT(60) DEF Coarse

LEMMA DedupeFacts ==
    ASSUME NEW chunks, NEW extra, OnePerPlace(chunks), OnePerPlace(extra)
    PROVE  OnePerPlace(Dedupe(chunks, extra)) /\ Dedupe(chunks, extra) \subseteq chunks \union extra
<1>1. Dedupe(chunks, extra) \subseteq chunks \union extra
  BY DEF Dedupe
<1>2. IsFiniteSet(chunks \union extra)
  BY FS_Union DEF OnePerPlace
<1>3. IsFiniteSet(Dedupe(chunks, extra))
  BY <1>1, <1>2, FS_Subset
<1>4. ASSUME NEW c \in Dedupe(chunks, extra), NEW d \in Dedupe(chunks, extra),
             c.path = d.path, c.at = d.at
      PROVE  c = d
  <2>1. c \in chunks \/ (c \in extra /\ \A e \in chunks : e.path # c.path \/ e.at # c.at)
    BY DEF Dedupe
  <2>2. d \in chunks \/ (d \in extra /\ \A e \in chunks : e.path # d.path \/ e.at # d.at)
    BY DEF Dedupe
  <2> QED
    BY <1>4, <2>1, <2>2 DEF OnePerPlace
<1> QED
  BY <1>1, <1>3, <1>4 DEF OnePerPlace

LEMMA FileScoreType ==
    ASSUME NEW p \in Paths, NEW files, NEW chunks, OnePerPlace(chunks)
    PROVE  FileScore(p, files, chunks) \in Nat
<1>1. PICK own : own = {d \in chunks : d.path = p}
  OBVIOUS
<1>2. own \subseteq Chunk /\ IsFiniteSet(own)
  BY <1>1, FS_Subset DEF OnePerPlace
<1>3. PICK scores : scores = {Coarse(c) : c \in own}
  OBVIOUS
<1>4. scores \subseteq Nat
  BY <1>2, <1>3, ChunkFacts
<1>5. [c \in own |-> Coarse(c)] \in Surjection(own, scores)
  BY <1>3 DEF Surjection
<1>6. IsFiniteSet(scores)
  BY <1>2, <1>5, FS_Surjection
<1>7. IsFiniteSet({0} \union scores)
  BY <1>6, FS_Union, FS_Singleton
<1>8. {0} \union scores \subseteq Nat /\ {0} \union scores # {}
  BY <1>4
<1>9. Max({0} \union scores) \in Nat
  BY <1>7, <1>8, MaxOfMany
<1>10. PathWeight[p] \in Nat
  BY RetrievalConstantsOK DEF RetrievalConstantsOK
<1> QED
  BY <1>1, <1>3, <1>9, <1>10 DEF FileScore

LEMMA ChunkScoreType ==
    ASSUME NEW c \in Chunk, NEW files, NEW chunks, OnePerPlace(chunks)
    PROVE  ChunkScore(c, files, chunks) \in Nat
<1>1. FileScore(c.path, files, chunks) \in Nat /\ Coarse(c) \in Nat /\ Hits(c) \in Nat
  BY FileScoreType, ChunkFacts
<1>2. (IF c \in chunks THEN Coarse(c) ELSE 0) \in Nat
  BY <1>1
<1>3. Max({FileScore(c.path, files, chunks), IF c \in chunks THEN Coarse(c) ELSE 0}) \in Nat
  BY <1>1, <1>2, MaxOfTwo
<1> QED
  BY <1>1, <1>3 DEF ChunkScore

ScoredChunk == [chunk : Chunk, place : Nat, score : Nat]

(* A set of scored chunks of file p, of those of all.                      *)
ScoresOf(S, p, all) ==
    /\ S \subseteq ScoredChunk
    /\ \A s \in S : s.chunk \in all /\ s.chunk.path = p /\ s.place = s.chunk.at

LEMMA RankedChunksFacts ==
    ASSUME NEW p \in Paths, NEW files, NEW chunks, NEW all, OnePerPlace(chunks), OnePerPlace(all)
    PROVE  LET own == RankedChunks(p, files, chunks, all)
           IN  /\ own \in Seq(ScoredChunk)
               /\ \A i \in 1..Len(own) : own[i].chunk \in all /\ own[i].chunk.path = p
               /\ \A i, j \in 1..Len(own) : i # j => own[i].chunk.at # own[j].chunk.at
<1>1. PICK mine : mine = {d \in all : d.path = p}
  OBVIOUS
<1>2. mine \subseteq Chunk /\ IsFiniteSet(mine) /\ \A c \in mine : c \in all /\ c.path = p
  BY <1>1, FS_Subset DEF OnePerPlace
<1>3. PICK scored : scored = {Scored(c, ChunkScore(c, files, chunks)) : c \in mine}
  OBVIOUS
<1>4. PICK positive : positive = {s \in scored : s.score > 0}
  OBVIOUS
<1>5. ScoresOf(scored, p, all)
  BY <1>2, <1>3, ChunkScoreType, ChunkFacts DEF ScoresOf, Scored, ScoredChunk
<1>6. \A s, t \in scored : s.place = t.place => s = t
  <2> SUFFICES ASSUME NEW s \in scored, NEW t \in scored, s.place = t.place PROVE s = t
    OBVIOUS
  <2>1. PICK c \in mine : s = Scored(c, ChunkScore(c, files, chunks))
    BY <1>3
  <2>2. PICK d \in mine : t = Scored(d, ChunkScore(d, files, chunks))
    BY <1>3
  <2>3. c.at = d.at
    BY <2>1, <2>2 DEF Scored
  <2>4. c = d
    BY <1>2, <2>3 DEF OnePerPlace
  <2> QED
    BY <2>1, <2>2, <2>4
<1>7. IsFiniteSet(scored)
  <2>1. [c \in mine |-> Scored(c, ChunkScore(c, files, chunks))] \in Surjection(mine, scored)
    BY <1>3 DEF Surjection
  <2> QED
    BY <1>2, <2>1, FS_Surjection
<1>8. positive \subseteq scored /\ IsFiniteSet(positive)
  BY <1>4, <1>7, FS_Subset
<1>9. Rankable(positive)
  BY <1>5, <1>6, <1>8 DEF Rankable, ScoresOf, ScoredChunk
<1>10. PICK by : by = Sorted(positive)
  OBVIOUS
<1>11. PICK N \in Nat : /\ by \in [1..N -> positive] /\ DOMAIN by = 1..N
                        /\ \A i, j \in 1..N : i # j => by[i] # by[j]
  BY <1>9, <1>10, SortedFacts
<1>12. \A i \in 1..N : /\ by[i] \in scored /\ by[i].chunk \in Chunk /\ by[i].chunk \in all
                       /\ by[i].chunk.path = p /\ by[i].place = by[i].chunk.at
                       /\ by[i].chunk.at \in Nat
  BY <1>5, <1>8, <1>11, ChunkFacts DEF ScoresOf, ScoredChunk
<1>13. PICK nth : nth = [i \in 1..N |-> Scored(by[i].chunk, Max({0, by[i].score - 4 * (i - 1)}))]
  OBVIOUS
<1>14. PICK saturated : saturated = {nth[i] : i \in 1..N}
  OBVIOUS
<1>15. \A i \in 1..N : Max({0, by[i].score - 4 * (i - 1)}) \in Nat
  <2> SUFFICES ASSUME NEW i \in 1..N PROVE Max({0, by[i].score - 4 * (i - 1)}) \in Nat
    OBVIOUS
  <2>1. by[i].score \in Nat
    BY <1>5, <1>12 DEF ScoresOf, ScoredChunk
  <2>2. PICK n \in Int : n = by[i].score - 4 * (i - 1)
    BY <2>1
  <2>3. \E x \in {0, n} : \A y \in {0, n} : x >= y
    BY <2>2
  <2>4. Max({0, n}) \in Nat
    BY <2>2, <2>3 DEF Max
  <2> QED
    BY <2>2, <2>4
<1>16. \A i \in 1..N : /\ nth[i] \in ScoredChunk /\ nth[i].chunk = by[i].chunk
                       /\ nth[i].place = by[i].place
  BY <1>12, <1>13, <1>15 DEF Scored, ScoredChunk
<1>17. ScoresOf(saturated, p, all)
  BY <1>12, <1>14, <1>16 DEF ScoresOf
<1>18. \A i, j \in 1..N : nth[i].place = nth[j].place => i = j
  BY <1>6, <1>11, <1>12, <1>16
<1>19. IsFiniteSet(saturated)
  <2>1. nth \in Surjection(1..N, saturated)
    BY <1>13, <1>14 DEF Surjection
  <2> QED
    BY <2>1, FS_Interval, FS_Surjection
<1>20. Rankable(saturated)
  <2>1. \A s, t \in saturated : s.place = t.place => s = t
    BY <1>14, <1>18
  <2> QED
    BY <1>17, <1>19, <2>1 DEF Rankable, ScoresOf, ScoredChunk
<1>21. RankedChunks(p, files, chunks, all) = Sorted(saturated)
  <2>1. saturated = {Scored(by[i].chunk, Max({0, by[i].score - 4 * (i - 1)})) : i \in DOMAIN by}
    BY <1>11, <1>13, <1>14
  <2> QED
    BY <1>1, <1>3, <1>4, <1>10, <2>1 DEF RankedChunks
<1>22. PICK own : own = Sorted(saturated)
  OBVIOUS
<1>23. /\ own \in Seq(saturated)
       /\ \A i \in 1..Len(own) : own[i] \in saturated
       /\ \A i, j \in 1..Len(own) : i # j => own[i] # own[j]
  BY <1>20, <1>22, SortedFacts
<1>24. own \in Seq(ScoredChunk)
  BY <1>17, <1>23 DEF ScoresOf
<1>25. \A i, j \in 1..Len(own) : i # j => own[i].chunk.at # own[j].chunk.at
  BY <1>17, <1>20, <1>23 DEF Rankable, ScoresOf
<1> QED
  BY <1>17, <1>21, <1>22, <1>23, <1>24, <1>25 DEF ScoresOf

RankedRecord == [place : Paths, score : Nat, own : Nat, chunks : Seq(Chunk)]

(* The chunks of a file in their order: its own, of those of all, each     *)
(* place once.                                                             *)
QueueOf(queue, p, all) ==
    /\ queue \in Seq(Chunk)
    /\ \A k \in 1..Len(queue) : queue[k] \in all /\ queue[k].path = p
    /\ \A k, l \in 1..Len(queue) : k # l => queue[k].at # queue[l].at

Ranking(ranked, all) ==
    /\ ranked \in Seq(RankedRecord)
    /\ \A i \in 1..Len(ranked) : QueueOf(ranked[i].chunks, ranked[i].place, all)
    /\ \A i, j \in 1..Len(ranked) : i # j => ranked[i].place # ranked[j].place

LEMMA RankedFileFacts ==
    ASSUME NEW p \in Paths, NEW files, NEW chunks, NEW all, OnePerPlace(chunks), OnePerPlace(all)
    PROVE  LET r == RankedFile(p, files, chunks, all)
           IN  r \in RankedRecord /\ r.place = p /\ QueueOf(r.chunks, p, all)
<1>1. PICK own : own = RankedChunks(p, files, chunks, all)
  OBVIOUS
<1>2. /\ own \in Seq(ScoredChunk)
      /\ \A i \in 1..Len(own) : own[i].chunk \in all /\ own[i].chunk.path = p
      /\ \A i, j \in 1..Len(own) : i # j => own[i].chunk.at # own[j].chunk.at
  BY <1>1, RankedChunksFacts
<1>3. Len(own) \in Nat /\ DOMAIN own = 1..Len(own) /\ \A i \in 1..Len(own) : own[i] \in ScoredChunk
  BY <1>2, LenProperties
<1>4. PICK queue : queue = [i \in DOMAIN own |-> own[i].chunk]
  OBVIOUS
<1>5. queue \in [1..Len(own) -> Chunk]
  BY <1>3, <1>4 DEF ScoredChunk
<1>6. queue \in Seq(Chunk) /\ Len(queue) = Len(own)
  BY <1>3, <1>5
<1>7. QueueOf(queue, p, all)
  BY <1>2, <1>3, <1>4, <1>6 DEF QueueOf
<1>8. PICK best : best = IF own = <<>> THEN 0 ELSE own[1].score
  OBVIOUS
<1>9. best \in Nat
  BY <1>2, <1>3, <1>8, EmptySeq DEF ScoredChunk
<1>10. /\ FileScore(p, files, chunks) \in Nat
       /\ Max({FileScore(p, files, chunks), best}) \in Nat /\ Min({4, Len(own)}) \in Nat
  BY <1>3, <1>9, FileScoreType, MaxOfTwo
<1>11. RankedFile(p, files, chunks, all) =
         [place |-> p, score |-> Max({FileScore(p, files, chunks), best}) + 3 * Min({4, Len(own)}),
          own |-> FileScore(p, files, chunks), chunks |-> queue]
  BY <1>1, <1>4, <1>8 DEF RankedFile
<1> QED
  BY <1>6, <1>7, <1>10, <1>11 DEF RankedRecord

(* What the three queries may have returned.                               *)
Fetch(files, chunks, extra) == files \subseteq Paths /\ OnePerPlace(chunks) /\ OnePerPlace(extra)

LEMMA RankedFacts ==
    ASSUME NEW files, NEW chunks, NEW extra, Fetch(files, chunks, extra)
    PROVE  Ranking(Ranked(files, chunks, extra), chunks \union extra)
<1>1. PICK all : all = Dedupe(chunks, extra)
  OBVIOUS
<1>2. OnePerPlace(chunks) /\ OnePerPlace(all) /\ all \subseteq chunks \union extra
  BY <1>1, DedupeFacts DEF Fetch
<1>3. PICK known : known = files \union {c.path : c \in all}
  OBVIOUS
<1>4. known \subseteq Paths
  BY <1>2, <1>3, ChunkFacts DEF OnePerPlace, Fetch
<1>5. PICK rows : rows = {RankedFile(p, files, chunks, all) : p \in known}
  OBVIOUS
<1>6. PICK kept : kept = {r \in rows : r.own > 0 \/ r.chunks # <<>>}
  OBVIOUS
<1>7. \A r \in rows : r \in RankedRecord /\ QueueOf(r.chunks, r.place, all)
  <2> SUFFICES ASSUME NEW r \in rows PROVE r \in RankedRecord /\ QueueOf(r.chunks, r.place, all)
    OBVIOUS
  <2>1. PICK p \in known : r = RankedFile(p, files, chunks, all)
    BY <1>5
  <2> QED
    BY <1>2, <1>4, <2>1, RankedFileFacts
<1>8. \A r, t \in rows : r.place = t.place => r = t
  <2> SUFFICES ASSUME NEW r \in rows, NEW t \in rows, r.place = t.place PROVE r = t
    OBVIOUS
  <2>1. PICK p \in known : r = RankedFile(p, files, chunks, all)
    BY <1>5
  <2>2. PICK q \in known : t = RankedFile(q, files, chunks, all)
    BY <1>5
  <2>3. p = q
    BY <1>2, <1>4, <2>1, <2>2, RankedFileFacts
  <2> QED
    BY <2>1, <2>2, <2>3
<1>9. IsFiniteSet(kept)
  <2>1. IsFiniteSet(known)
    BY <1>4, RetrievalConstantsOK, FS_Subset DEF RetrievalConstantsOK
  <2>2. [p \in known |-> RankedFile(p, files, chunks, all)] \in Surjection(known, rows)
    BY <1>5 DEF Surjection
  <2>3. IsFiniteSet(rows)
    BY <2>1, <2>2, FS_Surjection
  <2> QED
    BY <1>6, <2>3, FS_Subset
<1>10. \A r \in kept : r \in rows /\ r.place \in Nat /\ r.score \in Nat
  BY <1>6, <1>7, RetrievalConstantsOK DEF RankedRecord, RetrievalConstantsOK
<1>11. Rankable(kept)
  BY <1>8, <1>9, <1>10 DEF Rankable
<1>12. PICK ranked : ranked = Sorted(kept)
  OBVIOUS
<1>13. Ranked(files, chunks, extra) = ranked
  BY <1>1, <1>3, <1>5, <1>6, <1>12 DEF Ranked
<1>14. /\ ranked \in Seq(kept) /\ \A i \in 1..Len(ranked) : ranked[i] \in kept
       /\ \A i, j \in 1..Len(ranked) : i # j => ranked[i] # ranked[j]
  BY <1>11, <1>12, SortedFacts
<1>15. kept \subseteq RankedRecord
  BY <1>7, <1>10
<1>16. ranked \in Seq(RankedRecord)
  BY <1>14, <1>15, SeqMonotonic
<1>17. \A i, j \in 1..Len(ranked) : i # j => ranked[i].place # ranked[j].place
  BY <1>8, <1>10, <1>14
<1>18. ASSUME NEW i \in 1..Len(ranked)
       PROVE  QueueOf(ranked[i].chunks, ranked[i].place, chunks \union extra)
  <2>1. QueueOf(ranked[i].chunks, ranked[i].place, all)
    BY <1>7, <1>10, <1>14
  <2> QED
    BY <1>2, <2>1 DEF QueueOf
<1> QED
  BY <1>13, <1>16, <1>17, <1>18 DEF Ranking

(***************************************************************************)
(* The budget.  What a turn of the inner loop does to what is kept of it.  *)
(***************************************************************************)
Reasons == {"max_files", "max_chunks", "max_chunks_per_file", "max_total_chars"}

BudgetRecord(F) ==
    [cursor : [1..F -> Nat], taken : [1..F -> Nat], selected : Seq(Chunk), chars : Nat,
     moved : BOOLEAN, truncated : BOOLEAN, reasons : SUBSET Reasons]

(* File i has a chunk to offer, and the cursor moves over it.              *)
Offers(b, n, i, queue) ==
    /\ ~Full(b) /\ b.cursor[i] < Len(queue) /\ b.taken[i] < MaxPerFile
    /\ n.cursor[i] = b.cursor[i] + 1
    /\ \A j \in DOMAIN b.cursor : j # i => n.cursor[j] = b.cursor[j]

Takes(b, n, i, queue) ==
    /\ Offers(b, n, i, queue) /\ Fits(b, queue[b.cursor[i] + 1])
    /\ n.taken[i] = b.taken[i] + 1
    /\ \A j \in DOMAIN b.taken : j # i => n.taken[j] = b.taken[j]
    /\ n.selected = Append(b.selected, queue[b.cursor[i] + 1])
    /\ n.chars = b.chars + Size(queue[b.cursor[i] + 1])
    /\ n.moved /\ b.reasons \subseteq n.reasons
    /\ Full(n) => n.reasons # {}
    /\ n.truncated <=> b.truncated \/ (Full(n) /\ n.cursor[i] < Len(queue))

Skips(b, n, i, queue) ==
    /\ Offers(b, n, i, queue) /\ ~Fits(b, queue[b.cursor[i] + 1])
    /\ n.taken = b.taken /\ n.selected = b.selected /\ n.chars = b.chars
    /\ n.moved = b.moved /\ n.truncated /\ b.reasons \subseteq n.reasons /\ n.reasons # {}

Stays(b, n, i, queue) ==
    /\ n.cursor = b.cursor /\ n.taken = b.taken /\ n.selected = b.selected /\ n.chars = b.chars
    /\ n.moved = b.moved /\ n.truncated = b.truncated /\ b.reasons \subseteq n.reasons
    /\ n.reasons # {} \/ Full(b) \/ b.cursor[i] >= Len(queue)
    /\ Full(b) \/ b.cursor[i] >= Len(queue) \/ b.taken[i] >= MaxPerFile

LEMMA TakeFacts ==
    ASSUME NEW F \in Nat, NEW b \in BudgetRecord(F), NEW i \in 1..F, NEW queue \in Seq(Chunk),
           ~Full(b), b.taken[i] < MaxPerFile, b.cursor[i] < Len(queue),
           Fits(b, queue[b.cursor[i] + 1])
    PROVE  /\ Take(b, i, queue) \in BudgetRecord(F)
           /\ Takes(b, Take(b, i, queue), i, queue)
<1>1. /\ b.cursor \in [1..F -> Nat] /\ b.taken \in [1..F -> Nat] /\ b.selected \in Seq(Chunk)
      /\ b.chars \in Nat /\ b.moved \in BOOLEAN /\ b.truncated \in BOOLEAN
      /\ b.reasons \in SUBSET Reasons
  BY DEF BudgetRecord
<1>2. Len(queue) \in Nat /\ b.cursor[i] + 1 \in 1..Len(queue)
  BY <1>1, LenProperties
<1>3. PICK c \in Chunk : c = queue[b.cursor[i] + 1]
  BY <1>2, ElementOfSeq
<1>4. Size(c) \in Nat
  BY ChunkFacts
<1>5. PICK last \in BOOLEAN : last <=> Len(b.selected) + 1 >= MaxChunks
  OBVIOUS
<1>6. PICK n : n = Take(b, i, queue)
  OBVIOUS
<1>7. /\ n.cursor = [b.cursor EXCEPT ![i] = b.cursor[i] + 1]
      /\ n.taken = [b.taken EXCEPT ![i] = b.taken[i] + 1]
      /\ n.selected = Append(b.selected, c) /\ n.chars = b.chars + Size(c) /\ n.moved = TRUE
      /\ n.truncated = (b.truncated \/ (last /\ Len(queue) > b.cursor[i] + 1))
      /\ n.reasons = IF last THEN b.reasons \union {"max_chunks"} ELSE b.reasons
      /\ n = [cursor |-> n.cursor, taken |-> n.taken, selected |-> n.selected, chars |-> n.chars,
              moved |-> n.moved, truncated |-> n.truncated, reasons |-> n.reasons]
  BY <1>1, <1>3, <1>5, <1>6 DEF Take, BudgetRecord
<1>8. n.cursor \in [1..F -> Nat] /\ n.taken \in [1..F -> Nat] /\ n.chars \in Nat
  <2>1. PICK m \in Nat : m = b.cursor[i] + 1
    BY <1>1
  <2>2. n.cursor \in [1..F -> Nat]
    BY <1>1, <1>7, <2>1, SMTT(60)
  <2>3. PICK k \in Nat : k = b.taken[i] + 1
    BY <1>1
  <2>4. n.taken \in [1..F -> Nat]
    BY <1>1, <1>7, <2>3, SMTT(60)
  <2>5. PICK l \in Nat : l = b.chars + Size(c)
    BY <1>1, <1>4
  <2>6. n.chars \in Nat
    BY <1>7, <2>5
  <2> QED
    BY <2>2, <2>4, <2>6
<1>9. n.selected \in Seq(Chunk) /\ Len(n.selected) = Len(b.selected) + 1
  BY <1>1, <1>3, <1>7, AppendProperties
<1>10. n.truncated \in BOOLEAN /\ n.reasons \in SUBSET Reasons
  BY <1>1, <1>7 DEF Reasons
<1>11. n \in BudgetRecord(F)
  <2>1. n.moved \in BOOLEAN
    BY <1>7
  <2>2. n = [cursor |-> n.cursor, taken |-> n.taken, selected |-> n.selected, chars |-> n.chars,
             moved |-> n.moved, truncated |-> n.truncated, reasons |-> n.reasons]
    BY <1>7
  <2> QED
    BY <1>8, <1>9, <1>10, <2>1, <2>2 DEF BudgetRecord
<1>12. Full(n) <=> last
  BY <1>5, <1>9 DEF Full
<1>13. /\ n.cursor[i] = b.cursor[i] + 1 /\ n.taken[i] = b.taken[i] + 1
       /\ \A j \in DOMAIN b.cursor : j # i => n.cursor[j] = b.cursor[j]
       /\ \A j \in DOMAIN b.taken : j # i => n.taken[j] = b.taken[j]
  BY <1>1, <1>7, SMTT(60)
<1>14. n.truncated <=> b.truncated \/ (Full(n) /\ n.cursor[i] < Len(queue))
  <2>1. n.cursor[i] < Len(queue) <=> Len(queue) > b.cursor[i] + 1
    BY <1>1, <1>2, <1>13
  <2> QED
    BY <1>1, <1>7, <1>12, <2>1
<1>15. b.reasons \subseteq n.reasons /\ (Full(n) => n.reasons # {})
  BY <1>7, <1>12
<1> QED
  BY <1>3, <1>6, <1>7, <1>11, <1>13, <1>14, <1>15 DEF Takes, Offers

LEMMA SkipFacts ==
    ASSUME NEW F \in Nat, NEW b \in BudgetRecord(F), NEW i \in 1..F, NEW queue \in Seq(Chunk),
           ~Full(b), b.taken[i] < MaxPerFile, b.cursor[i] < Len(queue),
           ~Fits(b, queue[b.cursor[i] + 1])
    PROVE  Skip(b, i) \in BudgetRecord(F) /\ Skips(b, Skip(b, i), i, queue)
<1>1. /\ b.cursor \in [1..F -> Nat] /\ b.reasons \in SUBSET Reasons
  BY DEF BudgetRecord
<1>2. PICK n : n = Skip(b, i)
  OBVIOUS
<1>3. /\ n.cursor = [b.cursor EXCEPT ![i] = b.cursor[i] + 1]
      /\ n.taken = b.taken /\ n.selected = b.selected /\ n.chars = b.chars /\ n.moved = b.moved
      /\ n.truncated = TRUE /\ n.reasons = b.reasons \union {"max_total_chars"}
      /\ n = [cursor |-> n.cursor, taken |-> n.taken, selected |-> n.selected, chars |-> n.chars,
              moved |-> n.moved, truncated |-> n.truncated, reasons |-> n.reasons]
  BY <1>1, <1>2 DEF Skip, BudgetRecord
<1>4. n.cursor \in [1..F -> Nat] /\ n.reasons \in SUBSET Reasons
  BY <1>1, <1>3 DEF Reasons
<1>5. n \in BudgetRecord(F)
  BY <1>3, <1>4 DEF BudgetRecord
<1>6. /\ n.cursor[i] = b.cursor[i] + 1
      /\ \A j \in DOMAIN b.cursor : j # i => n.cursor[j] = b.cursor[j]
  BY <1>1, <1>3
<1> QED
  BY <1>2, <1>3, <1>5, <1>6 DEF Skips, Offers

LEMMA VisitFacts ==
    ASSUME NEW F \in Nat, NEW b \in BudgetRecord(F), NEW i \in 1..F, NEW queue \in Seq(Chunk)
    PROVE  LET n == Visit(b, i, queue)
           IN  /\ n \in BudgetRecord(F)
               /\ Takes(b, n, i, queue) \/ Skips(b, n, i, queue) \/ Stays(b, n, i, queue)
               /\ Full(b) => n = b
<1>1. b.taken[i] \in Nat /\ b.cursor[i] \in Nat /\ Len(queue) \in Nat /\ MaxPerFile \in Nat
  BY LenProperties, RetrievalConstantsOK DEF BudgetRecord, RetrievalConstantsOK
<1>2. CASE Full(b)
  BY <1>2 DEF Visit, Stays
<1>3. CASE ~Full(b) /\ b.taken[i] >= MaxPerFile
  <2>1. PICK n : n = Visit(b, i, queue)
    OBVIOUS
  <2>2. n = [b EXCEPT !.reasons = b.reasons \union {"max_chunks_per_file"}]
    BY <1>1, <1>3, <2>1 DEF Visit
  <2>3. n \in BudgetRecord(F) /\ Stays(b, n, i, queue)
    BY <1>3, <2>2 DEF BudgetRecord, Reasons, Stays
  <2> QED
    BY <1>3, <2>1, <2>3
<1>4. CASE ~Full(b) /\ b.taken[i] < MaxPerFile /\ b.cursor[i] >= Len(queue)
  <2>1. Visit(b, i, queue) = b
    BY <1>1, <1>4 DEF Visit
  <2> QED
    BY <1>4, <2>1 DEF Stays
<1>5. CASE ~Full(b) /\ b.taken[i] < MaxPerFile /\ b.cursor[i] < Len(queue)
  <2>1. Visit(b, i, queue) = IF Fits(b, queue[b.cursor[i] + 1]) THEN Take(b, i, queue) ELSE Skip(b, i)
    BY <1>1, <1>5 DEF Visit
  <2>2. CASE Fits(b, queue[b.cursor[i] + 1])
    BY <1>5, <2>1, <2>2, TakeFacts
  <2>3. CASE ~Fits(b, queue[b.cursor[i] + 1])
    BY <1>5, <2>1, <2>3, SkipFacts
  <2> QED
    BY <2>2, <2>3
<1> QED
  BY <1>1, <1>2, <1>3, <1>4, <1>5

(***************************************************************************)
(* The recursive definitions satisfy their equations.                      *)
(***************************************************************************)
LEMMA SumExists ==
    ASSUME NEW N \in Nat, NEW size \in [1..N -> Nat]
    PROVE  \E f \in [0..N -> Nat] : f[0] = 0 /\ \A n \in 1..N : f[n] = f[n - 1] + size[n]
<1>1. PICK S : S = Nat
  OBVIOUS
<1>2. PICK adds : adds = [n \in 1..N |-> [v \in Nat |-> v + size[n]]]
  OBVIOUS
<1>3. adds \in [1..N -> [S -> S]]
  <2>1. ASSUME NEW n \in 1..N PROVE [v \in Nat |-> v + size[n]] \in [Nat -> Nat]
    BY size[n] \in Nat
  <2> QED
    BY <1>1, <1>2, <2>1
<1>4. PICK step \in [1..N -> [S -> S]] : step = adds
  BY <1>3
<1>5. PICK base \in S : base = 0
  BY <1>1
<1>6. PICK f \in Recursive(S, base, N, step) : TRUE
  BY Recursion
<1>7. f \in [0..N -> Nat] /\ f[0] = 0 /\ \A n \in 1..N : f[n] = step[n][f[n - 1]]
  BY <1>1, <1>5, <1>6 DEF Recursive
<1>8. ASSUME NEW n \in 1..N PROVE f[n] = f[n - 1] + size[n]
  <2>1. f[n] = step[n][f[n - 1]] /\ f[n - 1] \in Nat
    BY <1>7
  <2> QED
    BY <1>2, <1>4, <2>1
<1> QED
  BY <1>7, <1>8

LEMMA CharsEquation ==
    ASSUME NEW s \in Seq(Chunk)
    PROVE  \E sum \in [0..Len(s) -> Nat] :
             /\ sum[0] = 0 /\ Chars(s) = sum[Len(s)]
             /\ \A n \in 1..Len(s) : sum[n] = sum[n - 1] + Size(s[n])
<1>1. PICK N \in Nat : N = Len(s)
  BY LenProperties
<1>2. ASSUME NEW n \in 1..N PROVE Size(s[n]) \in Nat
  <2>1. s[n] \in Chunk
    BY <1>1, ElementOfSeq
  <2> QED
    BY <2>1, ChunkFacts
<1>3. PICK size : size = [n \in 1..N |-> Size(s[n])]
  OBVIOUS
<1>4. size \in [1..N -> Nat]
  BY <1>2, <1>3
<1>5. PICK f \in [0..N -> Nat] : f[0] = 0 /\ \A n \in 1..N : f[n] = f[n - 1] + size[n]
  BY <1>4, SumExists
<1>6. ASSUME NEW n \in 1..N PROVE f[n] = f[n - 1] + Size(s[n])
  <2>1. f[n] = f[n - 1] + size[n]
    BY <1>5
  <2> QED
    BY <1>3, <2>1
<1>7. f = [n \in 0..N |-> IF n = 0 THEN 0 ELSE f[n - 1] + Size(s[n])]
  BY <1>5, <1>6
<1>8. PICK g : g = CHOOSE h : h = [n \in 0..N |-> IF n = 0 THEN 0 ELSE h[n - 1] + Size(s[n])]
  OBVIOUS
<1>9. g = [n \in 0..N |-> IF n = 0 THEN 0 ELSE g[n - 1] + Size(s[n])]
  BY <1>7, <1>8
<1>10. Chars(s) = g[N]
  BY <1>1, <1>8 DEF Chars
<1>11. g[0] = 0
  BY <1>9, 0 \in 0..N
<1>12. ASSUME NEW n \in 1..N PROVE g[n] = g[n - 1] + Size(s[n])
  <2>1. n \in 0..N /\ n # 0
    OBVIOUS
  <2> QED
    BY <1>9, <2>1
<1>13. PICK T : T = {n \in 0..N : g[n] = f[n]}
  OBVIOUS
<1>14. 0 \in T
  BY <1>5, <1>11, <1>13
<1>15. ASSUME NEW n \in 0..(N - 1), n \in T PROVE n + 1 \in T
  <2>1. n + 1 \in 1..N /\ n + 1 \in 0..N /\ n + 1 - 1 = n
    OBVIOUS
  <2>2. g[n + 1] = g[n] + Size(s[n + 1]) /\ f[n + 1] = f[n] + Size(s[n + 1])
    BY <1>6, <1>12, <2>1
  <2> QED
    BY <1>13, <1>15, <2>1, <2>2
<1>16. \A n \in 0..N : n \in T
  BY <1>14, <1>15, UpTo
<1>17. g[N] = f[N]
  BY <1>13, <1>16
<1> QED
  BY <1>1, <1>5, <1>6, <1>10, <1>17

LEMMA CharsEmpty == Chars(<<>>) = 0
<1>1. PICK s \in Seq(Chunk) : s = <<>> /\ Len(s) = 0
  BY EmptySeq
<1> QED
  BY <1>1, CharsEquation

LEMMA CharsAppend ==
    ASSUME NEW s \in Seq(Chunk), NEW c \in Chunk
    PROVE  Chars(Append(s, c)) = Chars(s) + Size(c)
<1>1. PICK N \in Nat : N = Len(s)
  BY LenProperties
<1>2. PICK t \in Seq(Chunk) : t = Append(s, c)
  BY AppendProperties
<1>3. Len(t) = N + 1 /\ t[N + 1] = c /\ \A n \in 1..N : t[n] = s[n]
  BY <1>1, <1>2, AppendProperties
<1>4. PICK f \in [0..N -> Nat] : /\ f[0] = 0 /\ Chars(s) = f[N]
                                 /\ \A n \in 1..N : f[n] = f[n - 1] + Size(s[n])
  BY <1>1, CharsEquation
<1>5. PICK g \in [0..Len(t) -> Nat] : /\ g[0] = 0 /\ Chars(t) = g[Len(t)]
                                       /\ \A n \in 1..Len(t) : g[n] = g[n - 1] + Size(t[n])
  BY CharsEquation
<1>6. /\ g \in [0..(N + 1) -> Nat] /\ g[0] = 0 /\ Chars(t) = g[N + 1]
      /\ \A n \in 1..(N + 1) : g[n] = g[n - 1] + Size(t[n])
  BY <1>3, <1>5
<1>7. PICK T : T = {n \in 0..N : g[n] = f[n]}
  OBVIOUS
<1>8. 0 \in T
  BY <1>4, <1>6, <1>7
<1>9. ASSUME NEW n \in 0..(N - 1), n \in T PROVE n + 1 \in T
  <2>1. g[n + 1] = g[n] + Size(t[n + 1]) /\ f[n + 1] = f[n] + Size(s[n + 1]) /\ t[n + 1] = s[n + 1]
    BY <1>3, <1>4, <1>6, SMTT(60)
  <2> QED
    BY <1>7, <1>9, <2>1
<1>10. \A n \in 0..N : n \in T
  BY <1>8, <1>9, UpTo
<1>11. g[N] = f[N] /\ g[N + 1] = g[N] + Size(c)
  BY <1>3, <1>6, <1>7, <1>10
<1> QED
  BY <1>2, <1>4, <1>6, <1>11

(* Of a sequence of files and their queues.                                *)
LEMMA TurnsEquation ==
    ASSUME NEW kept \in Seq(RankedRecord), NEW F \in Nat, F = Len(kept), NEW b \in BudgetRecord(F)
    PROVE  LET turn == Turns(b, kept)
           IN  /\ turn \in [0..F -> BudgetRecord(F)]
               /\ turn[0] = [b EXCEPT !.moved = FALSE]
               /\ \A i \in 1..F : turn[i] = Visit(turn[i - 1], i, kept[i].chunks)
<1>1. PICK B : B = BudgetRecord(F)
  OBVIOUS
<1>2. ASSUME NEW i \in 1..F PROVE kept[i].chunks \in Seq(Chunk)
  <2>1. kept[i] \in RankedRecord
    BY ElementOfSeq
  <2> QED
    BY <2>1 DEF RankedRecord
<1>3. ASSUME NEW i \in 1..F, NEW r \in B PROVE Visit(r, i, kept[i].chunks) \in B
  BY <1>1, <1>2, VisitFacts
<1>4. PICK base \in B : base = [b EXCEPT !.moved = FALSE]
  BY <1>1 DEF BudgetRecord
<1>5. PICK visits : visits = [i \in 1..F |-> [r \in B |-> Visit(r, i, kept[i].chunks)]]
  OBVIOUS
<1>6. visits \in [1..F -> [B -> B]]
  <2>1. ASSUME NEW i \in 1..F PROVE [r \in B |-> Visit(r, i, kept[i].chunks)] \in [B -> B]
    BY <1>3
  <2> QED
    BY <1>5, <2>1
<1>7. PICK step \in [1..F -> [B -> B]] : step = visits
  BY <1>6
<1>8. PICK f \in Recursive(B, base, F, step) : TRUE
  BY Recursion
<1>9. f \in [0..F -> B] /\ f[0] = base /\ \A i \in 1..F : f[i] = step[i][f[i - 1]]
  BY <1>8 DEF Recursive
<1>10. ASSUME NEW i \in 1..F PROVE f[i] = Visit(f[i - 1], i, kept[i].chunks)
  <2>1. f[i] = step[i][f[i - 1]] /\ i - 1 \in 0..F
    BY <1>9
  <2>2. f[i - 1] \in B
    BY <1>9, <2>1
  <2> QED
    BY <1>5, <1>7, <2>1, <2>2
<1>11. f = [i \in 0..F |-> IF i = 0 THEN [b EXCEPT !.moved = FALSE]
                          ELSE Visit(f[i - 1], i, kept[i].chunks)]
  <2>1. ASSUME NEW i \in 0..F
        PROVE  f[i] = IF i = 0 THEN [b EXCEPT !.moved = FALSE] ELSE Visit(f[i - 1], i, kept[i].chunks)
    <3>1. CASE i = 0
      BY <1>4, <1>9, <3>1
    <3>2. CASE i # 0
      <4>1. i \in 1..F
        BY <3>2
      <4> QED
        BY <1>10, <3>2, <4>1
    <3> QED
      BY <3>1, <3>2
  <2> QED
    BY <1>9, <2>1
<1>12. PICK g : g = CHOOSE h : h = [i \in 0..F |-> IF i = 0 THEN [b EXCEPT !.moved = FALSE]
                                                   ELSE Visit(h[i - 1], i, kept[i].chunks)]
  OBVIOUS
<1>13. g = [i \in 0..F |-> IF i = 0 THEN [b EXCEPT !.moved = FALSE]
                           ELSE Visit(g[i - 1], i, kept[i].chunks)]
  BY <1>11, <1>12
<1>14. Turns(b, kept) = g
  BY <1>12 DEF Turns
<1>15. g[0] = base
  BY <1>4, <1>13, 0 \in 0..F
<1>16. ASSUME NEW i \in 1..F PROVE g[i] = Visit(g[i - 1], i, kept[i].chunks)
  BY <1>13, i \in 0..F, i # 0
<1>17. PICK T : T = {i \in 0..F : g[i] \in B}
  OBVIOUS
<1>18. 0 \in T
  BY <1>15, <1>17
<1>19. ASSUME NEW i \in 0..(F - 1), i \in T PROVE i + 1 \in T
  <2>1. i + 1 \in 1..F /\ i + 1 \in 0..F /\ i + 1 - 1 = i
    OBVIOUS
  <2>2. g[i] \in B
    BY <1>17, <1>19
  <2>3. Visit(g[i], i + 1, kept[i + 1].chunks) \in B
    BY <1>3, <2>1, <2>2
  <2>4. g[i + 1] = Visit(g[i], i + 1, kept[i + 1].chunks)
    BY <1>16, <2>1
  <2> QED
    BY <1>17, <2>1, <2>3, <2>4
<1>20. \A i \in 0..F : i \in T
  BY <1>18, <1>19, UpTo
<1>21. g \in [0..F -> B]
  BY <1>13, <1>17, <1>20
<1> QED
  BY <1>1, <1>4, <1>14, <1>15, <1>16, <1>21

(***************************************************************************)
(* What is kept of the ranking, and the rounds over it.                    *)
(***************************************************************************)
LEMMA MinOfTwo == ASSUME NEW a \in Nat, NEW b \in Nat PROVE Min({a, b}) = IF a <= b THEN a ELSE b
<1>1. PICK m : m = IF a <= b THEN a ELSE b
  OBVIOUS
<1>2. m \in {a, b} /\ \A y \in {a, b} : m <= y
  BY <1>1
<1>3. \A x \in {a, b} : (\A y \in {a, b} : x <= y) => x = m
  BY <1>2
<1> QED
  BY <1>1, <1>2, <1>3 DEF Min

(* F files in their order, with their queues.                              *)
Lined(kept, F) == F \in Nat /\ F = Len(kept) /\ Ranking(kept, Chunk)

LEMMA LinedFacts ==
    ASSUME NEW kept, NEW F, Lined(kept, F), NEW i \in 1..F
    PROVE  /\ kept[i].chunks \in Seq(Chunk) /\ Len(kept[i].chunks) \in Nat /\ kept[i].place \in Paths
           /\ \A k \in 1..Len(kept[i].chunks) : /\ kept[i].chunks[k] \in Chunk
                                                /\ kept[i].chunks[k].path = kept[i].place
<1>1. kept \in Seq(RankedRecord) /\ QueueOf(kept[i].chunks, kept[i].place, Chunk)
  BY DEF Lined, Ranking
<1>2. kept[i] \in RankedRecord
  BY <1>1, ElementOfSeq DEF Lined
<1> QED
  BY <1>1, <1>2, LenProperties DEF RankedRecord, QueueOf

LEMMA SameChunk ==
    ASSUME NEW kept, NEW F, Lined(kept, F), NEW i \in 1..F, NEW j \in 1..F,
           NEW k \in 1..Len(kept[i].chunks), NEW l \in 1..Len(kept[j].chunks),
           kept[i].chunks[k] = kept[j].chunks[l]
    PROVE  i = j /\ k = l
<1>1. kept[i].chunks[k].path = kept[i].place
  BY LinedFacts
<1>2. kept[j].chunks[l].path = kept[j].place
  BY LinedFacts
<1>3. i = j
  BY <1>1, <1>2 DEF Lined, Ranking
<1> QED
  BY <1>3 DEF Lined, Ranking, QueueOf

LEMMA KeptFacts ==
    ASSUME NEW ranked, NEW all, Ranking(ranked, all), all \subseteq Chunk,
           NEW kept, kept = Kept(ranked), NEW F, F = Len(kept)
    PROVE  /\ Lined(kept, F) /\ DOMAIN kept = 1..F
           /\ F <= MaxFiles /\ F <= Len(ranked) /\ Len(ranked) \in Nat
           /\ Len(ranked) <= MaxFiles => F = Len(ranked)
           /\ \A i \in 1..F : kept[i] = ranked[i]
<1>1. ranked \in Seq(RankedRecord) /\ Len(ranked) \in Nat /\ MaxFiles \in Nat
  BY RetrievalConstantsOK, LenProperties DEF Ranking, RetrievalConstantsOK
<1>2. PICK N \in Nat : N = Min({MaxFiles, Len(ranked)}) /\ N <= MaxFiles /\ N <= Len(ranked)
                       /\ (Len(ranked) <= MaxFiles => N = Len(ranked))
  BY <1>1, MinOfTwo
<1>3. kept = SubSeq(ranked, 1, N)
  BY <1>2 DEF Kept
<1>4. \A i \in 1..N : ranked[i] \in RankedRecord
  BY <1>1, <1>2, ElementOfSeq
<1>5. kept \in Seq(RankedRecord) /\ Len(kept) = N /\ \A i \in 1..N : kept[i] = ranked[i]
  <2>1. PICK one \in Int : one = 1
    OBVIOUS
  <2>2. N \in Int /\ \A i \in one..N : ranked[i] \in RankedRecord
    BY <1>4, <2>1
  <2>3. /\ SubSeq(ranked, one, N) \in Seq(RankedRecord)
        /\ Len(SubSeq(ranked, one, N)) = IF one <= N THEN N - one + 1 ELSE 0
        /\ \A i \in 1..(N - one + 1) : SubSeq(ranked, one, N)[i] = ranked[one + i - 1]
    BY <2>2, SubSeqProperties
  <2> QED
    BY <1>3, <2>1, <2>3
<1>6. DOMAIN kept = 1..N
  BY <1>5, LenProperties
<1>7. ASSUME NEW i \in 1..N PROVE QueueOf(kept[i].chunks, kept[i].place, Chunk)
  <2>1. QueueOf(ranked[i].chunks, ranked[i].place, all)
    BY <1>1, <1>2 DEF Ranking
  <2> QED
    BY <1>5, <2>1 DEF QueueOf
<1>8. ASSUME NEW i \in 1..N, NEW j \in 1..N, i # j PROVE kept[i].place # kept[j].place
  <2>1. ranked[i].place # ranked[j].place
    BY <1>1, <1>2, <1>8 DEF Ranking
  <2> QED
    BY <1>5, <2>1
<1> QED
  BY <1>1, <1>2, <1>5, <1>6, <1>7, <1>8 DEF Lined, Ranking

LEMMA RoundIsRecord ==
    ASSUME NEW kept, NEW F, Lined(kept, F), NEW b \in BudgetRecord(F)
    PROVE  Round(b, kept) \in BudgetRecord(F)
<1>1. kept \in Seq(RankedRecord) /\ F \in Nat /\ F = Len(kept)
  BY DEF Lined, Ranking
<1>2. Turns(b, kept) \in [0..F -> BudgetRecord(F)]
  BY <1>1, TurnsEquation
<1> QED
  BY <1>1, <1>2 DEF Round

NextRound(r, kept) == IF Full(r) \/ ~r.moved THEN r ELSE Round(r, kept)

LEMMA RoundsEquation ==
    ASSUME NEW ranked, NEW all, Ranking(ranked, all), all \subseteq Chunk,
           NEW kept, kept = Kept(ranked), NEW F, F = Len(kept)
    PROVE  LET round == Rounds(ranked)
           IN  /\ round \in [0..(MaxChunks + 1) -> BudgetRecord(F)]
               /\ Untouched(ranked) \in BudgetRecord(F)
               /\ round[0] = Round(Untouched(ranked), kept)
               /\ \A n \in 1..(MaxChunks + 1) : round[n] = NextRound(round[n - 1], kept)
<1>1. Lined(kept, F) /\ DOMAIN kept = 1..F
  BY KeptFacts
<1>2. PICK N \in Nat : N = MaxChunks + 1
  BY RetrievalConstantsOK DEF RetrievalConstantsOK
<1>3. PICK B : B = BudgetRecord(F)
  OBVIOUS
<1>4. Untouched(ranked) \in B
  <2>1. <<>> \in Seq(Chunk)
    BY EmptySeq
  <2> QED
    BY <1>1, <1>3, <2>1 DEF Untouched, BudgetRecord, Reasons
<1>5. PICK base \in B : base = Round(Untouched(ranked), kept)
  BY <1>1, <1>3, <1>4, RoundIsRecord
<1>6. ASSUME NEW r \in B PROVE NextRound(r, kept) \in B
  BY <1>1, <1>3, RoundIsRecord DEF NextRound
<1>7. PICK next : next = [n \in 1..N |-> [r \in B |-> NextRound(r, kept)]]
  OBVIOUS
<1>8. next \in [1..N -> [B -> B]]
  BY <1>6, <1>7
<1>9. PICK step \in [1..N -> [B -> B]] : step = next
  BY <1>8
<1>10. PICK f \in Recursive(B, base, N, step) : TRUE
  BY Recursion
<1>11. f \in [0..N -> B] /\ f[0] = base /\ \A n \in 1..N : f[n] = step[n][f[n - 1]]
  BY <1>10 DEF Recursive
<1>12. ASSUME NEW n \in 1..N PROVE f[n] = NextRound(f[n - 1], kept)
  <2>1. f[n] = step[n][f[n - 1]] /\ n - 1 \in 0..N
    BY <1>11
  <2>2. f[n - 1] \in B
    BY <1>11, <2>1
  <2> QED
    BY <1>7, <1>9, <2>1, <2>2
<1>13. f = [n \in 0..N |-> IF n = 0 THEN Round(Untouched(ranked), Kept(ranked))
                           ELSE IF Full(f[n - 1]) \/ ~f[n - 1].moved THEN f[n - 1]
                           ELSE Round(f[n - 1], Kept(ranked))]
  <2>1. ASSUME NEW n \in 0..N
        PROVE  f[n] = IF n = 0 THEN Round(Untouched(ranked), Kept(ranked))
                      ELSE IF Full(f[n - 1]) \/ ~f[n - 1].moved THEN f[n - 1]
                      ELSE Round(f[n - 1], Kept(ranked))
    <3>1. CASE n = 0
      BY <1>5, <1>11, <3>1
    <3>2. CASE n # 0
      <4>1. n \in 1..N
        BY <3>2
      <4> QED
        BY <1>12, <3>2, <4>1 DEF NextRound
    <3> QED
      BY <3>1, <3>2
  <2> QED
    BY <1>11, <2>1
<1>14. PICK g : g = CHOOSE h :
                      h = [n \in 0..N |-> IF n = 0 THEN Round(Untouched(ranked), Kept(ranked))
                                          ELSE IF Full(h[n - 1]) \/ ~h[n - 1].moved THEN h[n - 1]
                                          ELSE Round(h[n - 1], Kept(ranked))]
  OBVIOUS
<1>15. g = [n \in 0..N |-> IF n = 0 THEN Round(Untouched(ranked), Kept(ranked))
                           ELSE IF Full(g[n - 1]) \/ ~g[n - 1].moved THEN g[n - 1]
                           ELSE Round(g[n - 1], Kept(ranked))]
  BY <1>13, <1>14
<1>16. Rounds(ranked) = g
  BY <1>2, <1>14 DEF Rounds
<1>17. g[0] = base
  BY <1>5, <1>15, 0 \in 0..N
<1>18. ASSUME NEW n \in 1..N PROVE g[n] = NextRound(g[n - 1], kept)
  <2>1. n \in 0..N /\ n # 0
    OBVIOUS
  <2> QED
    BY <1>15, <2>1 DEF NextRound
<1>19. PICK T : T = {n \in 0..N : g[n] \in B}
  OBVIOUS
<1>20. 0 \in T
  BY <1>17, <1>19
<1>21. ASSUME NEW n \in 0..(N - 1), n \in T PROVE n + 1 \in T
  <2>1. n + 1 \in 1..N /\ n + 1 \in 0..N /\ n + 1 - 1 = n
    OBVIOUS
  <2>2. g[n] \in B
    BY <1>19, <1>21
  <2>3. g[n + 1] = NextRound(g[n], kept)
    BY <1>18, <2>1
  <2> QED
    BY <1>6, <1>19, <2>1, <2>2, <2>3
<1>22. \A n \in 0..N : n \in T
  BY <1>20, <1>21, UpTo
<1>23. g \in [0..N -> B]
  BY <1>15, <1>19, <1>22
<1> QED
  BY <1>2, <1>3, <1>4, <1>5, <1>16, <1>17, <1>18, <1>23

(***************************************************************************)
(* What holds of the budget throughout.                                    *)
(***************************************************************************)
LEMMA BudgetFacts ==
    ASSUME NEW F \in Nat, NEW b \in BudgetRecord(F)
    PROVE  /\ DOMAIN b.cursor = 1..F /\ DOMAIN b.taken = 1..F
           /\ \A i \in 1..F : b.cursor[i] \in Nat /\ b.taken[i] \in Nat
           /\ b.selected \in Seq(Chunk) /\ Len(b.selected) \in Nat
           /\ \A m \in 1..Len(b.selected) : b.selected[m] \in Chunk
           /\ b.chars \in Nat /\ b.truncated \in BOOLEAN /\ b.moved \in BOOLEAN
           /\ MaxFiles \in Nat /\ MaxChunks \in Nat /\ MaxPerFile \in Nat /\ MaxChars \in Nat
           /\ MaxFiles > 0 /\ MaxChunks > 0 /\ MaxPerFile > 0
BY LenProperties, ElementOfSeq, RetrievalConstantsOK DEF BudgetRecord, RetrievalConstantsOK

Has(b, c) == \E m \in 1..Len(b.selected) : b.selected[m] = c

Of(b, p) == {m \in 1..Len(b.selected) : b.selected[m].path = p}

(* The limits are kept.                                                    *)
Within(b) ==
    Len(b.selected) <= MaxChunks /\ b.chars = Chars(b.selected) /\ b.chars <= MaxChars

(* A cursor runs over the queue of its file and counts what was skipped.   *)
Counted(b, kept, F) ==
    \A i \in 1..F : /\ b.taken[i] <= b.cursor[i] /\ b.cursor[i] <= Len(kept[i].chunks)
                    /\ b.taken[i] <= MaxPerFile

(* What is selected was in a queue, and was passed there.                  *)
Drawn(b, kept, F) ==
    \A m \in 1..Len(b.selected) :
        \E i \in 1..F : \E k \in 1..b.cursor[i] : b.selected[m] = kept[i].chunks[k]

Once(b) == \A m, l \in 1..Len(b.selected) : m # l => b.selected[m] # b.selected[l]

Shares(b, kept, F) == \A i \in 1..F : b.taken[i] = Cardinality(Of(b, kept[i].place))

(* A file whose chunks were all taken so far misses none of them.          *)
Passed(b, kept, F) ==
    \A i \in 1..F :
        /\ b.taken[i] = b.cursor[i] => \A k \in 1..b.cursor[i] : Has(b, kept[i].chunks[k])
        /\ b.taken[i] < b.cursor[i] =>
               b.reasons # {} /\ \E k \in 1..b.cursor[i] : ~Has(b, kept[i].chunks[k])

(* Nothing is said to be left out that was not, and not without a reason.  *)
Excused(b, kept, F, over) ==
    /\ over => b.truncated
    /\ b.truncated =>
           \/ over
           \/ \E i \in 1..F : \/ b.taken[i] < b.cursor[i]
                              \/ Full(b) /\ b.cursor[i] < Len(kept[i].chunks)
    /\ b.truncated \/ Full(b) => b.reasons # {}

Sound(b, kept, F, over) ==
    /\ b \in BudgetRecord(F)
    /\ Within(b) /\ Counted(b, kept, F) /\ Drawn(b, kept, F) /\ Once(b)
    /\ Shares(b, kept, F) /\ Passed(b, kept, F) /\ Excused(b, kept, F, over)

LEMMA Fresh ==
    ASSUME NEW kept, NEW F, Lined(kept, F), NEW b \in BudgetRecord(F),
           Counted(b, kept, F), Drawn(b, kept, F),
           NEW i \in 1..F, NEW k \in 1..Len(kept[i].chunks), k > b.cursor[i]
    PROVE  ~Has(b, kept[i].chunks[k])
<1> SUFFICES ASSUME NEW m \in 1..Len(b.selected), b.selected[m] = kept[i].chunks[k] PROVE FALSE
  BY DEF Has
<1>1. PICK j \in 1..F : \E l \in 1..b.cursor[j] : b.selected[m] = kept[j].chunks[l]
  BY DEF Drawn
<1>2. PICK l \in 1..b.cursor[j] : b.selected[m] = kept[j].chunks[l]
  BY <1>1
<1>3. F \in Nat
  BY DEF Lined
<1>4. b.cursor[i] \in Nat /\ b.cursor[j] \in Nat /\ b.cursor[j] <= Len(kept[j].chunks)
      /\ Len(kept[j].chunks) \in Nat
  BY <1>3, BudgetFacts, LinedFacts DEF Counted
<1>5. PICK x \in 1..Len(kept[j].chunks) : x = l
  BY <1>4
<1>6. kept[i].chunks[k] = kept[j].chunks[x]
  BY <1>2, <1>5
<1>7. i = j /\ k = l
  BY <1>5, <1>6, SameChunk
<1> QED
  BY <1>4, <1>7

LEMMA UntouchedSound ==
    ASSUME NEW ranked, NEW all, Ranking(ranked, all), all \subseteq Chunk,
           NEW kept, kept = Kept(ranked), NEW F, F = Len(kept)
    PROVE  Sound(Untouched(ranked), kept, F, Len(ranked) > MaxFiles)
<1>1. Lined(kept, F) /\ DOMAIN kept = 1..F /\ F \in Nat /\ Len(ranked) \in Nat
  BY KeptFacts DEF Lined
<1>2. PICK b : b = Untouched(ranked)
  OBVIOUS
<1>3. b \in BudgetRecord(F)
  BY <1>2, RoundsEquation
<1>4. Len(b.selected) = 0 /\ b.chars = 0 /\ b.selected = <<>>
  <2>1. Len(<<>>) = 0
    BY EmptySeq
  <2> QED
    BY <1>2, <2>1 DEF Untouched
<1>5. \A i \in 1..F : b.cursor[i] = 0 /\ b.taken[i] = 0
  BY <1>1, <1>2 DEF Untouched
<1>6. /\ b.truncated = (Len(ranked) > MaxFiles)
      /\ b.reasons = IF Len(ranked) > MaxFiles THEN {"max_files"} ELSE {}
  BY <1>2 DEF Untouched
<1>7. MaxChunks \in Nat /\ MaxChunks > 0 /\ MaxPerFile \in Nat /\ MaxPerFile > 0 /\ MaxChars \in Nat
  BY RetrievalConstantsOK DEF RetrievalConstantsOK
<1>8. Within(b) /\ Drawn(b, kept, F) /\ Once(b) /\ ~Full(b)
  BY <1>4, <1>7, CharsEmpty DEF Within, Drawn, Once, Full
<1>9. ASSUME NEW i \in 1..F PROVE Len(kept[i].chunks) \in Nat
  BY <1>1, LinedFacts
<1>10. Counted(b, kept, F)
  BY <1>5, <1>7, <1>9 DEF Counted
<1>11. Shares(b, kept, F)
  <2>1. \A p : Of(b, p) = {}
    BY <1>4 DEF Of
  <2>2. Cardinality({}) = 0
    BY FS_EmptySet
  <2> QED
    BY <1>5, <2>1, <2>2 DEF Shares
<1>12. Passed(b, kept, F)
  BY <1>5 DEF Passed
<1>13. Excused(b, kept, F, Len(ranked) > MaxFiles)
  BY <1>6, <1>8 DEF Excused
<1> QED
  BY <1>2, <1>3, <1>8, <1>10, <1>11, <1>12, <1>13 DEF Sound

\* Two counters that both grow by one keep their order.
LEMMA OneMore ==
    ASSUME NEW x \in Nat, NEW y \in Nat, NEW u, NEW v, u = x + 1, v = y + 1
    PROVE  /\ u = v <=> x = y
           /\ u < v <=> x < y
           /\ x <= y => u <= v
    OBVIOUS

\* A counter below its bound grows by one and stays within it.
LEMMA OneStep ==
    ASSUME NEW x \in Nat, NEW z \in Nat, NEW u, u = x + 1, x < z
    PROVE  u <= z
    OBVIOUS

LEMMA TakeSound ==
    ASSUME NEW kept, NEW F, Lined(kept, F), NEW over, NEW b, Sound(b, kept, F, over),
           NEW i \in 1..F, NEW n \in BudgetRecord(F), Takes(b, n, i, kept[i].chunks)
    PROVE  Sound(n, kept, F, over)
<1>1. F \in Nat /\ b \in BudgetRecord(F)
  BY DEF Lined, Sound
<1>2. /\ Within(b) /\ Counted(b, kept, F) /\ Drawn(b, kept, F) /\ Once(b)
      /\ Shares(b, kept, F) /\ Passed(b, kept, F) /\ Excused(b, kept, F, over)
  BY DEF Sound
<1>3. /\ ~Full(b) /\ b.cursor[i] < Len(kept[i].chunks) /\ b.taken[i] < MaxPerFile
      /\ n.cursor[i] = b.cursor[i] + 1 /\ n.taken[i] = b.taken[i] + 1
      /\ \A j \in 1..F : j # i => n.cursor[j] = b.cursor[j] /\ n.taken[j] = b.taken[j]
      /\ b.reasons \subseteq n.reasons /\ (Full(n) => n.reasons # {})
      /\ n.truncated <=> b.truncated \/ (Full(n) /\ n.cursor[i] < Len(kept[i].chunks))
  BY <1>1, BudgetFacts DEF Takes, Offers
<1>4. \A j \in 1..F : /\ b.cursor[j] \in Nat /\ b.taken[j] \in Nat /\ n.cursor[j] \in Nat
                      /\ Len(kept[j].chunks) \in Nat
  BY <1>1, BudgetFacts, LinedFacts
<1>5. PICK k \in 1..Len(kept[i].chunks) : k = b.cursor[i] + 1
  BY <1>3, <1>4
<1>6. PICK c \in Chunk : c = kept[i].chunks[k] /\ c.path = kept[i].place
  BY LinedFacts
<1>7. ~Has(b, c)
  <2>1. k > b.cursor[i]
    BY <1>4, <1>5
  <2> QED
    BY <1>1, <1>2, <1>6, <2>1, Fresh
<1>8. n.selected = Append(b.selected, c) /\ n.chars = b.chars + Size(c) /\ Fits(b, c)
  BY <1>5, <1>6 DEF Takes
<1>9. PICK L \in Nat : L = Len(b.selected)
  BY <1>1, BudgetFacts
<1>10. /\ Len(n.selected) = L + 1 /\ n.selected[L + 1] = c
       /\ \A m \in 1..L : n.selected[m] = b.selected[m]
  BY <1>1, <1>8, <1>9, BudgetFacts, AppendProperties, SMTT(60)
<1>11. \A j \in 1..F : /\ b.cursor[j] <= n.cursor[j]
                       /\ n.taken[j] = n.cursor[j] <=> b.taken[j] = b.cursor[j]
                       /\ n.taken[j] < n.cursor[j] <=> b.taken[j] < b.cursor[j]
  <2> SUFFICES ASSUME NEW j \in 1..F
               PROVE  /\ b.cursor[j] <= n.cursor[j]
                      /\ n.taken[j] = n.cursor[j] <=> b.taken[j] = b.cursor[j]
                      /\ n.taken[j] < n.cursor[j] <=> b.taken[j] < b.cursor[j]
    OBVIOUS
  <2>1. PICK x \in Nat : x = b.cursor[j]
    BY <1>4
  <2>2. PICK y \in Nat : y = b.taken[j]
    BY <1>4
  <2>3. CASE j = i
    <3>1. n.cursor[j] = x + 1 /\ n.taken[j] = y + 1
      BY <1>3, <2>1, <2>2, <2>3
    <3>2. PICK u \in Nat : u = x + 1
      OBVIOUS
    <3>3. PICK v \in Nat : v = y + 1
      OBVIOUS
    <3>4. x <= u /\ (v = u <=> y = x) /\ (v < u <=> y < x)
      BY <3>2, <3>3
    <3> QED
      BY <2>1, <2>2, <3>1, <3>2, <3>3, <3>4
  <2>4. CASE j # i
    <3>1. n.cursor[j] = x /\ n.taken[j] = y
      BY <1>3, <2>1, <2>2, <2>4
    <3> QED
      BY <2>1, <2>2, <3>1
  <2> QED
    BY <2>3, <2>4
<1>12. Within(n)
  <2>1. L < MaxChunks /\ MaxChunks \in Nat
    BY <1>1, <1>3, <1>9, BudgetFacts DEF Full
  <2>2. n.chars = Chars(n.selected)
    BY <1>1, <1>2, <1>8, BudgetFacts, CharsAppend DEF Within
  <2>3. n.chars <= MaxChars
    BY <1>8 DEF Fits
  <2> QED
    BY <1>10, <2>1, <2>2, <2>3 DEF Within
<1>13. Counted(n, kept, F)
  <2> SUFFICES ASSUME NEW j \in 1..F
               PROVE  /\ n.taken[j] <= n.cursor[j] /\ n.cursor[j] <= Len(kept[j].chunks)
                      /\ n.taken[j] <= MaxPerFile
    BY DEF Counted
  <2>1. b.taken[j] <= b.cursor[j] /\ b.cursor[j] <= Len(kept[j].chunks) /\ b.taken[j] <= MaxPerFile
    BY <1>2 DEF Counted
  <2>2. MaxPerFile \in Nat
    BY <1>1, BudgetFacts
  <2>3. CASE j = i
    <3>1. n.cursor[j] = b.cursor[j] + 1 /\ n.taken[j] = b.taken[j] + 1
      BY <1>3, <2>3
    <3>2. b.cursor[j] \in Nat /\ b.taken[j] \in Nat /\ Len(kept[j].chunks) \in Nat
      BY <1>4
    <3>3. n.taken[j] <= n.cursor[j]
      BY <2>1, <3>1, <3>2, OneMore, SMTT(60)
    <3>4. b.cursor[j] < Len(kept[j].chunks) /\ b.taken[j] < MaxPerFile
      BY <1>3, <2>3
    <3>5. n.cursor[j] <= Len(kept[j].chunks)
      BY <3>1, <3>2, <3>4, OneStep
    <3>6. n.taken[j] <= MaxPerFile
      BY <2>2, <3>1, <3>2, <3>4, OneStep
    <3> QED
      BY <3>3, <3>5, <3>6
  <2>4. CASE j # i
    <3>1. n.cursor[j] = b.cursor[j] /\ n.taken[j] = b.taken[j]
      BY <1>3, <2>4
    <3> QED
      BY <2>1, <3>1
  <2> QED
    BY <2>3, <2>4
<1>14. Drawn(n, kept, F)
  <2> SUFFICES ASSUME NEW m \in 1..Len(n.selected)
               PROVE  \E j \in 1..F : \E l \in 1..n.cursor[j] : n.selected[m] = kept[j].chunks[l]
    BY DEF Drawn
  <2>1. CASE m = L + 1
    <3>1. k \in 1..n.cursor[i] /\ n.selected[m] = kept[i].chunks[k]
      BY <1>3, <1>4, <1>5, <1>6, <1>10, <2>1
    <3> QED
      BY <3>1
  <2>2. CASE m # L + 1
    <3>1. m \in 1..L
      BY <1>10, <2>2
    <3>2. PICK j \in 1..F : \E l \in 1..b.cursor[j] : b.selected[m] = kept[j].chunks[l]
      BY <1>2, <1>9, <3>1 DEF Drawn
    <3>3. PICK l \in 1..b.cursor[j] : b.selected[m] = kept[j].chunks[l]
      BY <3>2
    <3>4. b.cursor[j] <= n.cursor[j]
      BY <1>11
    <3>5. l \in 1..n.cursor[j] /\ n.selected[m] = kept[j].chunks[l]
      BY <1>4, <1>10, <3>1, <3>3, <3>4, SMTT(60)
    <3> QED
      BY <3>5
  <2> QED
    BY <2>1, <2>2
<1>15. Once(n)
  <2> SUFFICES ASSUME NEW m \in 1..Len(n.selected), NEW l \in 1..Len(n.selected), m # l
               PROVE  n.selected[m] # n.selected[l]
    BY DEF Once
  <2>1. \A x \in 1..L : n.selected[x] # c
    BY <1>7, <1>9, <1>10 DEF Has
  <2>2. CASE m = L + 1 \/ l = L + 1
    BY <1>10, <2>1, <2>2
  <2>3. CASE m # L + 1 /\ l # L + 1
    BY <1>2, <1>9, <1>10, <2>3, SMTT(60) DEF Once
  <2> QED
    BY <2>2, <2>3
<1>16. \A d \in Chunk : Has(n, d) <=> Has(b, d) \/ d = c
  <2> SUFFICES ASSUME NEW d \in Chunk PROVE Has(n, d) <=> Has(b, d) \/ d = c
    OBVIOUS
  <2>1. \A m \in 1..(L + 1) : m \in 1..L \/ m = L + 1
    OBVIOUS
  <2>2. L + 1 \in 1..(L + 1) /\ \A m \in 1..L : m \in 1..(L + 1)
    OBVIOUS
  <2> QED
    BY <1>9, <1>10, <2>1, <2>2 DEF Has
<1>17. Shares(n, kept, F)
  <2> SUFFICES ASSUME NEW j \in 1..F PROVE n.taken[j] = Cardinality(Of(n, kept[j].place))
    BY DEF Shares
  <2>1. b.taken[j] = Cardinality(Of(b, kept[j].place))
    BY <1>2 DEF Shares
  <2>2. CASE j = i
    <3>1. Of(n, kept[j].place) = Of(b, kept[j].place) \union {L + 1}
      <4>1. c.path = kept[j].place
        BY <1>6, <2>2
      <4>2. Of(n, kept[j].place) = {m \in 1..(L + 1) : n.selected[m].path = kept[j].place}
        BY <1>10 DEF Of
      <4>3. Of(b, kept[j].place) = {m \in 1..L : b.selected[m].path = kept[j].place}
        BY <1>9 DEF Of
      <4>4. \A m : m \in 1..(L + 1) <=> m \in 1..L \/ m = L + 1
        OBVIOUS
      <4> QED
        BY <1>10, <4>1, <4>2, <4>3, <4>4
    <3>2. IsFiniteSet(Of(b, kept[j].place))
      <4>1. IsFiniteSet(1..L)
        BY FS_Interval
      <4> QED
        BY <1>9, <4>1, FS_Subset DEF Of
    <3>3. L + 1 \notin Of(b, kept[j].place)
      BY <1>9 DEF Of
    <3>4. Cardinality(Of(n, kept[j].place)) = Cardinality(Of(b, kept[j].place)) + 1
      BY <3>1, <3>2, <3>3, FS_AddElement
    <3> QED
      BY <1>3, <2>1, <2>2, <3>4
  <2>3. CASE j # i
    <3>1. c.path # kept[j].place
      BY <1>6, <2>3 DEF Lined, Ranking
    <3>2. Of(n, kept[j].place) = Of(b, kept[j].place)
      <4>1. Of(n, kept[j].place) = {m \in 1..(L + 1) : n.selected[m].path = kept[j].place}
        BY <1>10 DEF Of
      <4>2. Of(b, kept[j].place) = {m \in 1..L : b.selected[m].path = kept[j].place}
        BY <1>9 DEF Of
      <4>3. \A m : m \in 1..(L + 1) <=> m \in 1..L \/ m = L + 1
        OBVIOUS
      <4> QED
        BY <1>10, <3>1, <4>1, <4>2, <4>3
    <3> QED
      BY <1>3, <2>1, <2>3, <3>2
  <2> QED
    BY <2>2, <2>3
<1>18. Passed(n, kept, F)
  <2> SUFFICES ASSUME NEW j \in 1..F
               PROVE  /\ n.taken[j] = n.cursor[j] => \A l \in 1..n.cursor[j] : Has(n, kept[j].chunks[l])
                      /\ n.taken[j] < n.cursor[j] =>
                             n.reasons # {} /\ \E l \in 1..n.cursor[j] : ~Has(n, kept[j].chunks[l])
    BY DEF Passed
  <2>1. b.cursor[j] <= Len(kept[j].chunks)
    BY <1>2 DEF Counted
  <2>2. \A l \in 1..b.cursor[j] : l \in 1..Len(kept[j].chunks) /\ kept[j].chunks[l] \in Chunk
    BY <1>4, <2>1, LinedFacts
  <2>3. /\ n.taken[j] = n.cursor[j] <=> b.taken[j] = b.cursor[j]
        /\ n.taken[j] < n.cursor[j] <=> b.taken[j] < b.cursor[j]
    BY <1>11
  <2>4. ASSUME n.taken[j] = n.cursor[j], NEW l \in 1..n.cursor[j] PROVE Has(n, kept[j].chunks[l])
    <3>1. CASE l \in 1..b.cursor[j]
      <4>1. Has(b, kept[j].chunks[l])
        BY <1>2, <2>3, <2>4, <3>1 DEF Passed
      <4> QED
        BY <1>16, <2>2, <3>1, <4>1
    <3>2. CASE l \notin 1..b.cursor[j]
      <4>1. j = i /\ l = k
        BY <1>3, <1>4, <1>5, <3>2
      <4> QED
        BY <1>6, <1>16, <4>1
    <3> QED
      BY <3>1, <3>2
  <2>5. ASSUME n.taken[j] < n.cursor[j]
        PROVE  n.reasons # {} /\ \E l \in 1..n.cursor[j] : ~Has(n, kept[j].chunks[l])
    <3>1. b.reasons # {}
      BY <1>2, <2>3, <2>5 DEF Passed
    <3>2. PICK l \in 1..b.cursor[j] : ~Has(b, kept[j].chunks[l])
      BY <1>2, <2>3, <2>5 DEF Passed
    <3>3. kept[j].chunks[l] # c
      <4>1. SUFFICES ASSUME kept[j].chunks[l] = c PROVE FALSE
        OBVIOUS
      <4>2. PICK x \in 1..Len(kept[j].chunks) : x = l
        BY <2>2
      <4>3. kept[j].chunks[x] = kept[i].chunks[k]
        BY <1>6, <4>1, <4>2
      <4>4. j = i /\ x = k
        BY <4>3, SameChunk
      <4> QED
        BY <1>4, <1>5, <4>2, <4>4
    <3>4. l \in 1..n.cursor[j]
      BY <1>4, <1>11
    <3>5. ~Has(n, kept[j].chunks[l])
      BY <1>16, <2>2, <3>2, <3>3
    <3> QED
      BY <1>3, <3>1, <3>4, <3>5
  <2> QED
    BY <2>4, <2>5
<1>19. Excused(n, kept, F, over)
  <2>1. over => n.truncated
    BY <1>2, <1>3 DEF Excused
  <2>2. n.truncated \/ Full(n) => n.reasons # {}
    BY <1>2, <1>3 DEF Excused
  <2>3. ASSUME n.truncated, ~over
        PROVE  \E j \in 1..F : \/ n.taken[j] < n.cursor[j]
                               \/ Full(n) /\ n.cursor[j] < Len(kept[j].chunks)
    <3>1. CASE b.truncated
      <4>1. PICK j \in 1..F : b.taken[j] < b.cursor[j]
        BY <1>2, <1>3, <2>3, <3>1 DEF Excused
      <4>2. n.taken[j] < n.cursor[j]
        BY <1>11, <4>1
      <4> QED
        BY <4>2
    <3>2. CASE ~b.truncated
      BY <1>3, <2>3, <3>2
    <3> QED
      BY <3>1, <3>2
  <2> QED
    BY <2>1, <2>2, <2>3 DEF Excused
<1> QED
  BY <1>12, <1>13, <1>14, <1>15, <1>17, <1>18, <1>19 DEF Sound

LEMMA SkipSound ==
    ASSUME NEW kept, NEW F, Lined(kept, F), NEW over, NEW b, Sound(b, kept, F, over),
           NEW i \in 1..F, NEW n \in BudgetRecord(F), Skips(b, n, i, kept[i].chunks)
    PROVE  Sound(n, kept, F, over)
<1>1. F \in Nat /\ b \in BudgetRecord(F)
  BY DEF Lined, Sound
<1>2. /\ Within(b) /\ Counted(b, kept, F) /\ Drawn(b, kept, F) /\ Once(b)
      /\ Shares(b, kept, F) /\ Passed(b, kept, F) /\ Excused(b, kept, F, over)
  BY DEF Sound
<1>3. /\ b.cursor[i] < Len(kept[i].chunks) /\ n.cursor[i] = b.cursor[i] + 1
      /\ n.taken = b.taken /\ n.selected = b.selected /\ n.chars = b.chars
      /\ \A j \in 1..F : j # i => n.cursor[j] = b.cursor[j]
      /\ b.reasons \subseteq n.reasons /\ n.reasons # {} /\ n.truncated
  BY <1>1, BudgetFacts DEF Skips, Offers
<1>4. \A j \in 1..F : /\ b.cursor[j] \in Nat /\ b.taken[j] \in Nat /\ n.cursor[j] \in Nat
                      /\ Len(kept[j].chunks) \in Nat
  BY <1>1, BudgetFacts, LinedFacts
<1>5. PICK k \in 1..Len(kept[i].chunks) : k = b.cursor[i] + 1
  BY <1>3, <1>4
<1>6. ~Has(b, kept[i].chunks[k])
  <2>1. k > b.cursor[i]
    BY <1>4, <1>5
  <2> QED
    BY <1>1, <1>2, <2>1, Fresh
<1>7. \A d : Has(n, d) <=> Has(b, d)
  BY <1>3 DEF Has
<1>8. Within(n) /\ Once(n)
  BY <1>2, <1>3 DEF Within, Once
<1>9. Counted(n, kept, F)
  BY <1>2, <1>3, <1>4 DEF Counted
<1>10. Drawn(n, kept, F)
  <2> SUFFICES ASSUME NEW m \in 1..Len(n.selected)
               PROVE  \E j \in 1..F : \E l \in 1..n.cursor[j] : n.selected[m] = kept[j].chunks[l]
    BY DEF Drawn
  <2>1. PICK j \in 1..F : \E l \in 1..b.cursor[j] : b.selected[m] = kept[j].chunks[l]
    BY <1>2, <1>3 DEF Drawn
  <2>2. PICK l \in 1..b.cursor[j] : b.selected[m] = kept[j].chunks[l]
    BY <2>1
  <2>3. l \in 1..n.cursor[j] /\ n.selected[m] = kept[j].chunks[l]
    BY <1>3, <1>4, <2>2, SMTT(60)
  <2> QED
    BY <2>3
<1>11. Shares(n, kept, F)
  BY <1>2, <1>3 DEF Shares, Of
<1>12. Passed(n, kept, F)
  <2> SUFFICES ASSUME NEW j \in 1..F
               PROVE  /\ n.taken[j] = n.cursor[j] => \A l \in 1..n.cursor[j] : Has(n, kept[j].chunks[l])
                      /\ n.taken[j] < n.cursor[j] =>
                             n.reasons # {} /\ \E l \in 1..n.cursor[j] : ~Has(n, kept[j].chunks[l])
    BY DEF Passed
  <2>1. CASE j = i
    <3>1. n.taken[j] < n.cursor[j]
      BY <1>2, <1>3, <1>4, <2>1 DEF Counted
    <3>2. k \in 1..n.cursor[j] /\ ~Has(n, kept[j].chunks[k])
      BY <1>3, <1>4, <1>5, <1>6, <1>7, <2>1
    <3> QED
      BY <1>3, <1>4, <3>1, <3>2
  <2>2. CASE j # i
    BY <1>2, <1>3, <1>7, <2>2 DEF Passed
  <2> QED
    BY <2>1, <2>2
<1>13. Excused(n, kept, F, over)
  <2>1. n.taken[i] < n.cursor[i]
    BY <1>2, <1>3, <1>4 DEF Counted
  <2> QED
    BY <1>3, <2>1 DEF Excused
<1> QED
  BY <1>8, <1>9, <1>10, <1>11, <1>12, <1>13 DEF Sound

(* Also if only moved changes, as it does at the start of a round.         *)
LEMMA StaySound ==
    ASSUME NEW kept, NEW F, Lined(kept, F), NEW over, NEW b, Sound(b, kept, F, over),
           NEW n \in BudgetRecord(F), n.cursor = b.cursor, n.taken = b.taken,
           n.selected = b.selected, n.chars = b.chars, n.truncated = b.truncated,
           b.reasons \subseteq n.reasons
    PROVE  Sound(n, kept, F, over)
<1>1. /\ Within(b) /\ Counted(b, kept, F) /\ Drawn(b, kept, F) /\ Once(b)
      /\ Shares(b, kept, F) /\ Passed(b, kept, F) /\ Excused(b, kept, F, over)
  BY DEF Sound
<1>2. Within(n) /\ Once(n) /\ Counted(n, kept, F) /\ Shares(n, kept, F)
  BY <1>1 DEF Within, Once, Counted, Shares, Of
<1>3. Drawn(n, kept, F)
  <2> SUFFICES ASSUME NEW m \in 1..Len(n.selected)
               PROVE  \E j \in 1..F : \E l \in 1..n.cursor[j] : n.selected[m] = kept[j].chunks[l]
    BY DEF Drawn
  <2>1. PICK j \in 1..F : \E l \in 1..b.cursor[j] : b.selected[m] = kept[j].chunks[l]
    BY <1>1 DEF Drawn
  <2>2. PICK l \in 1..b.cursor[j] : b.selected[m] = kept[j].chunks[l]
    BY <2>1
  <2>3. l \in 1..n.cursor[j] /\ n.selected[m] = kept[j].chunks[l]
    BY <2>2
  <2> QED
    BY <2>3
<1>4. Passed(n, kept, F)
  BY <1>1 DEF Passed, Has
<1>5. Excused(n, kept, F, over)
  BY <1>1 DEF Excused, Full
<1> QED
  BY <1>2, <1>3, <1>4, <1>5 DEF Sound

LEMMA VisitSound ==
    ASSUME NEW kept, NEW F, Lined(kept, F), NEW over, NEW b, Sound(b, kept, F, over), NEW i \in 1..F
    PROVE  Sound(Visit(b, i, kept[i].chunks), kept, F, over)
<1>1. F \in Nat /\ b \in BudgetRecord(F) /\ kept[i].chunks \in Seq(Chunk)
  BY LinedFacts DEF Lined, Sound
<1>2. PICK n \in BudgetRecord(F) :
         /\ n = Visit(b, i, kept[i].chunks)
         /\ \/ Takes(b, n, i, kept[i].chunks) \/ Skips(b, n, i, kept[i].chunks)
            \/ Stays(b, n, i, kept[i].chunks)
  BY <1>1, VisitFacts
<1>3. CASE Takes(b, n, i, kept[i].chunks)
  BY <1>2, <1>3, TakeSound
<1>4. CASE Skips(b, n, i, kept[i].chunks)
  BY <1>2, <1>4, SkipSound
<1>5. CASE Stays(b, n, i, kept[i].chunks)
  BY <1>2, <1>5, StaySound DEF Stays
<1> QED
  BY <1>2, <1>3, <1>4, <1>5

(***************************************************************************)
(* What a turn, a round and all rounds add.                                *)
(***************************************************************************)
Grows(b, n, F) ==
    /\ Len(b.selected) <= Len(n.selected)
    /\ \A m \in 1..Len(b.selected) : n.selected[m] = b.selected[m]
    /\ \A i \in 1..F : b.taken[i] <= n.taken[i]

(* A round that took nothing has a reason for what it did not take.        *)
Settled(b, i, kept) == b.moved \/ b.reasons # {} \/ b.taken[i] = Len(kept[i].chunks)

LEMMA GrowsItself == ASSUME NEW F \in Nat, NEW b \in BudgetRecord(F) PROVE Grows(b, b, F)
<1>1. Len(b.selected) \in Nat /\ \A i \in 1..F : b.taken[i] \in Nat
  BY BudgetFacts
<1> QED
  BY <1>1 DEF Grows

LEMMA GrowsOn ==
    ASSUME NEW F \in Nat, NEW a \in BudgetRecord(F), NEW b \in BudgetRecord(F), NEW c \in BudgetRecord(F),
           Grows(a, b, F), Grows(b, c, F)
    PROVE  Grows(a, c, F)
<1>1. Len(a.selected) \in Nat /\ Len(b.selected) \in Nat /\ Len(c.selected) \in Nat
  BY BudgetFacts
<1>2. \A i \in 1..F : a.taken[i] \in Nat /\ b.taken[i] \in Nat /\ c.taken[i] \in Nat
  BY BudgetFacts
<1>3. Len(a.selected) <= Len(c.selected)
  BY <1>1 DEF Grows
<1>4. \A m \in 1..Len(a.selected) : c.selected[m] = a.selected[m]
  BY <1>1 DEF Grows
<1>5. \A i \in 1..F : a.taken[i] <= c.taken[i]
  BY <1>2, SMTT(60) DEF Grows
<1> QED
  BY <1>3, <1>4, <1>5 DEF Grows

LEMMA VisitGrows ==
    ASSUME NEW kept, NEW F, Lined(kept, F), NEW over, NEW b, Sound(b, kept, F, over), NEW i \in 1..F,
           NEW n, n = Visit(b, i, kept[i].chunks)
    PROVE  /\ Grows(b, n, F)
           /\ n.moved => b.moved \/ Len(n.selected) > Len(b.selected)
           /\ Settled(n, i, kept)
           /\ \A j \in 1..F : Settled(b, j, kept) => Settled(n, j, kept)
<1>1. F \in Nat /\ b \in BudgetRecord(F) /\ kept[i].chunks \in Seq(Chunk)
  BY LinedFacts DEF Lined, Sound
<1>2. /\ n \in BudgetRecord(F)
      /\ \/ Takes(b, n, i, kept[i].chunks) \/ Skips(b, n, i, kept[i].chunks)
         \/ Stays(b, n, i, kept[i].chunks)
  BY <1>1, VisitFacts
<1>3. Len(b.selected) \in Nat /\ Len(kept[i].chunks) \in Nat /\ b.selected \in Seq(Chunk)
  BY <1>1, BudgetFacts, LinedFacts
<1>4. \A j \in 1..F : b.taken[j] \in Nat /\ n.taken[j] \in Nat /\ b.cursor[j] \in Nat
  BY <1>1, <1>2, BudgetFacts
<1>5. b.taken[i] <= b.cursor[i] /\ b.cursor[i] <= Len(kept[i].chunks)
  BY DEF Sound, Counted
<1>6. CASE Takes(b, n, i, kept[i].chunks)
  <2>1. PICK k \in 1..Len(kept[i].chunks) : k = b.cursor[i] + 1
    BY <1>3, <1>4, <1>6, SMTT(60) DEF Takes, Offers
  <2>2. PICK c \in Chunk : c = kept[i].chunks[k]
    BY LinedFacts
  <2>3. n.selected = Append(b.selected, c) /\ n.moved
    BY <1>6, <2>1, <2>2 DEF Takes
  <2>4. /\ Len(n.selected) = Len(b.selected) + 1
        /\ \A m \in 1..Len(b.selected) : n.selected[m] = b.selected[m]
    BY <1>3, <2>3, AppendProperties
  <2>5. n.taken[i] = b.taken[i] + 1 /\ \A j \in 1..F : j # i => n.taken[j] = b.taken[j]
    BY <1>1, <1>6, BudgetFacts DEF Takes
  <2>6. \A j \in 1..F : b.taken[j] <= n.taken[j]
    BY <1>4, <2>5
  <2> QED
    BY <1>3, <2>3, <2>4, <2>6 DEF Grows, Settled
<1>7. CASE Skips(b, n, i, kept[i].chunks)
  <2>1. n.taken = b.taken /\ n.selected = b.selected /\ n.moved = b.moved /\ n.reasons # {}
    BY <1>7 DEF Skips
  <2> QED
    BY <1>3, <1>4, <2>1 DEF Grows, Settled
<1>8. CASE Stays(b, n, i, kept[i].chunks)
  <2>1. /\ n.taken = b.taken /\ n.selected = b.selected /\ n.moved = b.moved
        /\ b.reasons \subseteq n.reasons
        /\ n.reasons # {} \/ Full(b) \/ b.cursor[i] >= Len(kept[i].chunks)
    BY <1>8 DEF Stays
  <2>2. Grows(b, n, F) /\ \A j \in 1..F : Settled(b, j, kept) => Settled(n, j, kept)
    BY <1>3, <1>4, <2>1 DEF Grows, Settled
  <2>3. Full(b) => n.reasons # {}
    BY <2>1 DEF Sound, Excused
  <2>4. b.taken[i] < b.cursor[i] => n.reasons # {}
    BY <2>1 DEF Sound, Passed
  <2>5. Settled(n, i, kept)
    BY <1>3, <1>4, <1>5, <2>1, <2>3, <2>4 DEF Settled
  <2> QED
    BY <2>1, <2>2, <2>5
<1> QED
  BY <1>2, <1>6, <1>7, <1>8

LEMMA TurnsFacts ==
    ASSUME NEW kept, NEW F, Lined(kept, F), NEW over, NEW b, Sound(b, kept, F, over),
           NEW turn, turn = Turns(b, kept)
    PROVE  \A k \in 0..F :
             /\ Sound(turn[k], kept, F, over) /\ Grows(b, turn[k], F)
             /\ turn[k].moved => Len(turn[k].selected) > Len(b.selected)
             /\ \A i \in 1..k : Settled(turn[k], i, kept)
<1>1. F \in Nat /\ b \in BudgetRecord(F) /\ kept \in Seq(RankedRecord) /\ F = Len(kept)
  BY DEF Lined, Ranking, Sound
<1>2. /\ turn \in [0..F -> BudgetRecord(F)]
      /\ turn[0] = [b EXCEPT !.moved = FALSE]
      /\ \A i \in 1..F : turn[i] = Visit(turn[i - 1], i, kept[i].chunks)
  BY <1>1, TurnsEquation
<1> DEFINE Good(k) == /\ Sound(turn[k], kept, F, over) /\ Grows(b, turn[k], F)
                      /\ turn[k].moved => Len(turn[k].selected) > Len(b.selected)
                      /\ \A i \in 1..k : Settled(turn[k], i, kept)
<1>3. PICK T : T = {k \in 0..F : Good(k)}
  OBVIOUS
<1>4. 0 \in T
  <2>1. PICK s \in BudgetRecord(F) : s = turn[0]
    BY <1>1, <1>2
  <2>2. /\ s.cursor = b.cursor /\ s.taken = b.taken /\ s.selected = b.selected /\ s.chars = b.chars
        /\ s.truncated = b.truncated /\ s.reasons = b.reasons /\ s.moved = FALSE
    BY <1>1, <1>2, <2>1 DEF BudgetRecord
  <2>3. Sound(s, kept, F, over)
    BY <2>2, StaySound
  <2>4. Grows(b, b, F)
    BY <1>1, GrowsItself
  <2>5. Grows(b, s, F)
    BY <2>2, <2>4 DEF Grows
  <2> QED
    BY <1>1, <1>3, <2>1, <2>2, <2>3, <2>5
<1>5. ASSUME NEW k \in 0..(F - 1), k \in T PROVE k + 1 \in T
  <2>1. PICK i \in 1..F : i = k + 1 /\ i - 1 = k /\ i \in 0..F /\ k \in 0..F
    BY <1>1
  <2>2. PICK s \in BudgetRecord(F) : s = turn[k]
    BY <1>2, <2>1
  <2>3. Good(k)
    BY <1>3, <1>5
  <2>4. /\ Sound(s, kept, F, over) /\ Grows(b, s, F)
        /\ s.moved => Len(s.selected) > Len(b.selected)
        /\ \A j \in 1..k : Settled(s, j, kept)
    BY <2>2, <2>3
  <2>5. PICK n \in BudgetRecord(F) : n = turn[i]
    BY <1>2, <2>1
  <2>6. n = Visit(s, i, kept[i].chunks)
    BY <1>2, <2>1, <2>2, <2>5
  <2>7. Sound(n, kept, F, over)
    BY <2>4, <2>6, VisitSound
  <2>8. /\ Grows(s, n, F)
        /\ n.moved => s.moved \/ Len(n.selected) > Len(s.selected)
        /\ Settled(n, i, kept)
        /\ \A j \in 1..F : Settled(s, j, kept) => Settled(n, j, kept)
    BY <2>4, <2>6, VisitGrows
  <2>9. Grows(b, n, F)
    BY <1>1, <2>4, <2>8, GrowsOn
  <2>10. n.moved => Len(n.selected) > Len(b.selected)
    <3>1. Len(b.selected) \in Nat /\ Len(s.selected) \in Nat /\ Len(n.selected) \in Nat
      BY <1>1, BudgetFacts
    <3>2. Len(b.selected) <= Len(s.selected) /\ Len(s.selected) <= Len(n.selected)
      BY <2>4, <2>8 DEF Grows
    <3> QED
      BY <2>4, <2>8, <3>1, <3>2
  <2>11. \A j \in 1..i : Settled(n, j, kept)
    <3>1. \A j \in 1..i : j = i \/ (j \in 1..k /\ j \in 1..F)
      BY <1>1, <2>1
    <3> QED
      BY <2>4, <2>8, <3>1
  <2>12. Good(i)
    BY <2>5, <2>7, <2>9, <2>10, <2>11
  <2> HIDE DEF Good
  <2> QED
    BY <1>3, <2>1, <2>12
<1>6. \A k \in 0..F : k \in T
  BY <1>1, <1>4, <1>5, UpTo
<1> QED
  BY <1>3, <1>6

AllSettled(b, kept, F) == \A i \in 1..F : Settled(b, i, kept)

LEMMA RoundFacts ==
    ASSUME NEW kept, NEW F, Lined(kept, F), NEW over, NEW b, Sound(b, kept, F, over),
           NEW r, r = Round(b, kept)
    PROVE  /\ Sound(r, kept, F, over) /\ Grows(b, r, F) /\ AllSettled(r, kept, F)
           /\ r.moved => Len(r.selected) > Len(b.selected)
<1>1. PICK turn : turn = Turns(b, kept)
  OBVIOUS
<1>2. F \in Nat /\ F \in 0..F /\ r = turn[F]
  BY <1>1 DEF Lined, Round
<1>3. \A k \in 0..F :
        /\ Sound(turn[k], kept, F, over) /\ Grows(b, turn[k], F)
        /\ turn[k].moved => Len(turn[k].selected) > Len(b.selected)
        /\ \A i \in 1..k : Settled(turn[k], i, kept)
  BY <1>1, TurnsFacts
<1> QED
  BY <1>2, <1>3 DEF AllSettled

(* first: after the first round; r: after so many more, or the last one.   *)
After(first, r, kept, F, over, n) ==
    /\ Sound(r, kept, F, over) /\ Grows(first, r, F) /\ AllSettled(r, kept, F)
    /\ Full(r) \/ ~r.moved \/ Len(r.selected) > n
    /\ Full(first) => r = first

LEMMA LastRoundFacts ==
    ASSUME NEW ranked, NEW all, Ranking(ranked, all), all \subseteq Chunk,
           NEW kept, kept = Kept(ranked), NEW F, F = Len(kept)
    PROVE  LET first == Round(Untouched(ranked), kept)
               last  == LastRound(ranked)
           IN  /\ Sound(last, kept, F, Len(ranked) > MaxFiles)
               /\ Grows(first, last, F) /\ AllSettled(last, kept, F)
               /\ Full(last) \/ ~last.moved
               /\ Full(first) => last = first
<1>1. Lined(kept, F) /\ F \in Nat
  BY KeptFacts DEF Lined
<1>2. PICK over : over = (Len(ranked) > MaxFiles)
  OBVIOUS
<1>3. PICK N \in Nat : N = MaxChunks + 1 /\ MaxChunks \in Nat
  BY RetrievalConstantsOK DEF RetrievalConstantsOK
<1>4. PICK round \in [0..N -> BudgetRecord(F)] :
         /\ round = Rounds(ranked) /\ round[0] = Round(Untouched(ranked), kept)
         /\ \A n \in 1..N : round[n] = NextRound(round[n - 1], kept)
  BY <1>3, RoundsEquation
<1>5. PICK start : start = Untouched(ranked)
  OBVIOUS
<1>6. Sound(start, kept, F, over)
  BY <1>2, <1>5, UntouchedSound
<1>7. PICK first \in BudgetRecord(F) : first = round[0] /\ first = Round(start, kept)
  BY <1>3, <1>4, <1>5
<1>8. PICK T : T = {n \in 0..N : After(first, round[n], kept, F, over, n)}
  OBVIOUS
<1>9. 0 \in T
  <2>1. /\ Sound(first, kept, F, over) /\ Grows(start, first, F) /\ AllSettled(first, kept, F)
        /\ first.moved => Len(first.selected) > Len(start.selected)
    BY <1>1, <1>6, <1>7, RoundFacts
  <2>2. Len(start.selected) = 0
    <3>1. Len(<<>>) = 0
      BY EmptySeq
    <3> QED
      BY <1>5, <3>1 DEF Untouched
  <2>3. Grows(first, first, F)
    BY <1>1, GrowsItself
  <2>4. After(first, first, kept, F, over, 0)
    BY <2>1, <2>2, <2>3 DEF After
  <2>5. 0 \in 0..N /\ After(first, round[0], kept, F, over, 0)
    BY <1>7, <2>4
  <2> QED
    BY <1>8, <2>5
<1>10. ASSUME NEW n \in 0..(N - 1), n \in T PROVE n + 1 \in T
  <2>1. n + 1 \in 1..N /\ n + 1 \in 0..N /\ n + 1 - 1 = n /\ n \in 0..N /\ n \in Nat
    BY <1>3
  <2>2. PICK s \in BudgetRecord(F) : s = round[n]
    BY <2>1
  <2>3. PICK r \in BudgetRecord(F) : r = round[n + 1]
    BY <2>1
  <2>4. r = NextRound(s, kept)
    BY <1>4, <2>1, <2>2, <2>3
  <2>5. After(first, s, kept, F, over, n)
    BY <1>8, <1>10, <2>2
  <2>6. CASE Full(s) \/ ~s.moved
    <3>1. r = s
      BY <2>4, <2>6 DEF NextRound
    <3>2. After(first, r, kept, F, over, n + 1)
      BY <2>5, <2>6, <3>1 DEF After
    <3> QED
      BY <1>8, <2>1, <2>3, <3>2
  <2>7. CASE ~Full(s) /\ s.moved
    <3>1. r = Round(s, kept)
      BY <2>4, <2>7 DEF NextRound
    <3>2. Sound(s, kept, F, over) /\ Grows(first, s, F) /\ Len(s.selected) > n
      BY <2>5, <2>7 DEF After
    <3>3. /\ Sound(r, kept, F, over) /\ Grows(s, r, F) /\ AllSettled(r, kept, F)
          /\ r.moved => Len(r.selected) > Len(s.selected)
      BY <1>1, <3>1, <3>2, RoundFacts
    <3>4. Grows(first, r, F)
      BY <1>1, <3>2, <3>3, GrowsOn
    <3>5. ~Full(first)
      BY <2>5, <2>7 DEF After
    <3>6. Len(s.selected) \in Nat /\ Len(r.selected) \in Nat
      BY <1>1, BudgetFacts
    <3>7. ~r.moved \/ Len(r.selected) > n + 1
      BY <2>1, <3>2, <3>3, <3>6
    <3>8. After(first, r, kept, F, over, n + 1)
      BY <3>3, <3>4, <3>5, <3>7 DEF After
    <3> QED
      BY <1>8, <2>1, <2>3, <3>8
  <2> QED
    BY <2>6, <2>7
<1>11. \A n \in 0..N : n \in T
  BY <1>9, <1>10, UpTo
<1>12. PICK last \in BudgetRecord(F) : last = round[N] /\ last = LastRound(ranked)
  BY <1>3, <1>4 DEF LastRound
<1>13. N \in 0..N
  OBVIOUS
<1>14. After(first, last, kept, F, over, N)
  BY <1>8, <1>11, <1>12, <1>13
<1>15. Full(last) \/ ~last.moved
  <2>1. Len(last.selected) \in Nat
    BY <1>1, BudgetFacts
  <2> QED
    BY <1>3, <1>14, <2>1 DEF After, Full
<1> QED
  BY <1>2, <1>5, <1>7, <1>12, <1>14, <1>15 DEF After

(* In the first round, turn by turn, a file is visited once.               *)
VisitsOnce(turn, b, kept, F) ==
    /\ turn \in [0..F -> BudgetRecord(F)]
    /\ turn[0].selected = b.selected /\ turn[0].chars = b.chars
    /\ \A i \in 1..F : turn[i] = Visit(turn[i - 1], i, kept[i].chunks)
    /\ \A k \in 0..F : \A i \in 1..F :
         /\ i > k => turn[k].cursor[i] = 0 /\ turn[k].taken[i] = 0
         /\ turn[k].taken[i] <= 1
    /\ \A l \in 0..F : \A k \in 0..l :
         /\ Grows(turn[k], turn[l], F)
         /\ Full(turn[k]) => turn[l] = turn[k]

LEMMA FirstRoundFacts ==
    ASSUME NEW kept, NEW F, Lined(kept, F), NEW over, NEW b, Sound(b, kept, F, over),
           \A i \in 1..F : b.cursor[i] = 0 /\ b.taken[i] = 0
    PROVE  VisitsOnce(Turns(b, kept), b, kept, F)
<1>0. PICK turn : turn = Turns(b, kept)
  OBVIOUS
<1>1. F \in Nat /\ b \in BudgetRecord(F) /\ kept \in Seq(RankedRecord) /\ F = Len(kept)
  BY DEF Lined, Ranking, Sound
<1>2. /\ turn \in [0..F -> BudgetRecord(F)]
      /\ turn[0] = [b EXCEPT !.moved = FALSE]
      /\ \A i \in 1..F : turn[i] = Visit(turn[i - 1], i, kept[i].chunks)
  BY <1>0, <1>1, TurnsEquation
<1>3. \A k \in 0..F : Sound(turn[k], kept, F, over)
  BY <1>0, TurnsFacts
<1>4. /\ turn[0].selected = b.selected /\ turn[0].chars = b.chars
      /\ \A i \in 1..F : turn[0].cursor[i] = 0 /\ turn[0].taken[i] = 0
  BY <1>1, <1>2 DEF BudgetRecord
<1> DEFINE Once1(k) == \A i \in 1..F : /\ i > k => turn[k].cursor[i] = 0 /\ turn[k].taken[i] = 0
                                       /\ turn[k].taken[i] <= 1
           Monotone(l) == \A k \in 0..l : /\ Grows(turn[k], turn[l], F)
                                          /\ Full(turn[k]) => turn[l] = turn[k]
<1>5. PICK T : T = {k \in 0..F : Once1(k) /\ Monotone(k)}
  OBVIOUS
<1>6. 0 \in T
  <2>1. Once1(0)
    BY <1>4
  <2>2. turn[0] \in BudgetRecord(F)
    BY <1>1, <1>2, 0 \in 0..F
  <2>3. Grows(turn[0], turn[0], F)
    BY <1>1, <2>2, GrowsItself
  <2>4. \A k \in 0..0 : k = 0
    OBVIOUS
  <2>5. Monotone(0)
    BY <2>3, <2>4
  <2> HIDE DEF Once1, Monotone
  <2> QED
    BY <1>1, <1>5, <2>1, <2>5
<1>7. ASSUME NEW k \in 0..(F - 1), k \in T PROVE k + 1 \in T
  <2>1. PICK i \in 1..F : i = k + 1 /\ i - 1 = k /\ i \in 0..F /\ k \in 0..F
    BY <1>1
  <2>2. PICK s \in BudgetRecord(F) : s = turn[k]
    BY <1>2, <2>1
  <2>3. PICK n \in BudgetRecord(F) : n = turn[i]
    BY <1>2, <2>1
  <2>4. n = Visit(s, i, kept[i].chunks) /\ Sound(s, kept, F, over)
    BY <1>2, <1>3, <2>1, <2>2, <2>3
  <2>5. Once1(k) /\ Monotone(k)
    BY <1>5, <1>7
  <2>6. \A j \in 1..F : /\ j > k => s.cursor[j] = 0 /\ s.taken[j] = 0
                        /\ s.taken[j] <= 1
    BY <2>2, <2>5
  <2>7. /\ Takes(s, n, i, kept[i].chunks) \/ Skips(s, n, i, kept[i].chunks)
           \/ Stays(s, n, i, kept[i].chunks)
        /\ Full(s) => n = s
    BY <1>1, <2>4, LinedFacts, VisitFacts
  <2>8. Grows(s, n, F)
    BY <2>4, VisitGrows
  <2>9. \A j \in 1..F : /\ j > i => n.cursor[j] = 0 /\ n.taken[j] = 0
                        /\ n.taken[j] <= 1
    <3>1. \A j \in 1..F : j # i => n.cursor[j] = s.cursor[j] /\ n.taken[j] = s.taken[j]
      BY <1>1, <2>7, BudgetFacts, ZenonT(60) DEF Takes, Skips, Stays, Offers
    <3>2. n.taken[i] = s.taken[i] \/ n.taken[i] = s.taken[i] + 1
      BY <2>7 DEF Takes, Skips, Stays
    <3>3. s.taken[i] = 0
      BY <1>1, <2>1, <2>6
    <3> QED
      BY <1>1, <2>1, <2>6, <3>1, <3>2, <3>3
  <2>10. ASSUME NEW l \in 0..i PROVE Grows(turn[l], turn[i], F) /\ (Full(turn[l]) => turn[i] = turn[l])
    <3>1. CASE l = i
      BY <1>1, <2>3, <3>1, GrowsItself
    <3>2. CASE l # i
      <4>1. l \in 0..k /\ l \in 0..F
        BY <1>1, <2>1, <3>2
      <4>2. PICK t \in BudgetRecord(F) : t = turn[l]
        BY <1>2, <4>1
      <4>3. Grows(t, s, F) /\ (Full(t) => s = t)
        BY <2>2, <2>5, <4>1, <4>2
      <4>4. Grows(t, n, F)
        BY <1>1, <2>8, <4>3, GrowsOn
      <4> QED
        BY <2>3, <2>7, <4>2, <4>3, <4>4
    <3> QED
      BY <3>1, <3>2
  <2>11. Once1(i) /\ Monotone(i)
    BY <2>3, <2>9, <2>10
  <2> HIDE DEF Once1, Monotone
  <2> QED
    BY <1>5, <2>1, <2>11
<1>8. \A k \in 0..F : k \in T
  BY <1>1, <1>6, <1>7, UpTo
<1>9. \A k \in 0..F : Once1(k) /\ Monotone(k)
  BY <1>5, <1>8
<1> QED
  BY <1>0, <1>2, <1>4, <1>9 DEF VisitsOnce

(***************************************************************************)
(* The context that is made of a ranking.                                  *)
(***************************************************************************)
Made(ranked) ==
    [candidates |-> [i \in DOMAIN Kept(ranked) |-> ranked[i].place],
     ranked     |-> [i \in DOMAIN ranked |-> ranked[i].chunks],
     selected   |-> Selection(ranked).selected,
     truncated  |-> Selection(ranked).truncated,
     reasons    |-> Selection(ranked).reasons]

LEMMA MadeFacts ==
    ASSUME NEW ranked, NEW all, Ranking(ranked, all), all \subseteq Chunk,
           NEW kept, kept = Kept(ranked), NEW F, F = Len(kept),
           NEW b, b = LastRound(ranked), NEW ctx, ctx = Made(ranked)
    PROVE  /\ ctx.selected = b.selected /\ DOMAIN ctx.selected = 1..Len(b.selected)
           /\ \A p : Picked(ctx, p) = Of(b, p)
           /\ ctx.reasons = b.reasons
           /\ ctx.truncated <=> b.truncated \/ \E i \in 1..F : b.taken[i] < Len(kept[i].chunks)
           /\ DOMAIN ctx.candidates = 1..F /\ Len(ctx.candidates) = F
           /\ \A i \in 1..F : ctx.candidates[i] = kept[i].place /\ ctx.ranked[i] = kept[i].chunks
           /\ DOMAIN ctx.ranked = 1..Len(ranked) /\ Len(ctx.ranked) = Len(ranked)
           /\ \A i \in 1..Len(ranked) : ctx.ranked[i] = ranked[i].chunks
<1>1. /\ Lined(kept, F) /\ DOMAIN kept = 1..F /\ F \in Nat /\ F <= Len(ranked) /\ Len(ranked) \in Nat
      /\ \A i \in 1..F : kept[i] = ranked[i]
  BY KeptFacts DEF Lined
<1>2. DOMAIN ranked = 1..Len(ranked)
  BY LenProperties DEF Ranking
<1>3. b \in BudgetRecord(F)
  BY LastRoundFacts DEF Sound
<1>4. PICK sel : sel = Selection(ranked)
  OBVIOUS
<1>5. /\ sel.selected = b.selected /\ sel.reasons = b.reasons
      /\ sel.truncated = (b.truncated \/ \E i \in 1..F : b.taken[i] < Len(kept[i].chunks))
  BY <1>1, <1>3, <1>4 DEF Selection, BudgetRecord
<1>6. /\ ctx.candidates = [i \in 1..F |-> ranked[i].place]
      /\ ctx.ranked = [i \in 1..Len(ranked) |-> ranked[i].chunks]
      /\ ctx.selected = sel.selected /\ ctx.truncated = sel.truncated /\ ctx.reasons = sel.reasons
  BY <1>1, <1>2, <1>4 DEF Made
<1>7. DOMAIN ctx.selected = 1..Len(b.selected)
  BY <1>1, <1>3, <1>5, <1>6, BudgetFacts, LenProperties
<1>8. \A p : Picked(ctx, p) = Of(b, p)
  BY <1>5, <1>6, <1>7 DEF Picked, Of
<1>9. ctx.truncated <=> b.truncated \/ \E i \in 1..F : b.taken[i] < Len(kept[i].chunks)
  BY <1>5, <1>6
<1>10. /\ DOMAIN ctx.candidates = 1..F /\ Len(ctx.candidates) = F
       /\ DOMAIN ctx.ranked = 1..Len(ranked) /\ Len(ctx.ranked) = Len(ranked)
  BY <1>1, <1>6
<1>11. \A i \in 1..Len(ranked) : ctx.ranked[i] = ranked[i].chunks
  BY <1>6
<1>12. \A i \in 1..F : ctx.candidates[i] = kept[i].place /\ ctx.ranked[i] = kept[i].chunks
  BY <1>1, <1>6
<1> QED
  BY <1>5, <1>6, <1>7, <1>8, <1>9, <1>10, <1>11, <1>12

LEMMA MadeIsFrom ==
    ASSUME NEW ranked, NEW all, Ranking(ranked, all), all \subseteq Chunk,
           NEW shown, \A c \in all : <<c.path, c.text>> \in shown
    PROVE  IsFrom(Made(ranked), shown)
<1>1. PICK kept : kept = Kept(ranked)
  OBVIOUS
<1>2. PICK F : F = Len(kept)
  OBVIOUS
<1>3. PICK b : b = LastRound(ranked)
  OBVIOUS
<1>4. PICK ctx : ctx = Made(ranked)
  OBVIOUS
<1>5. ctx.selected = b.selected /\ DOMAIN ctx.selected = 1..Len(b.selected)
  BY <1>1, <1>2, <1>3, <1>4, MadeFacts
<1>6. /\ Lined(kept, F) /\ F <= Len(ranked) /\ F \in Nat /\ Len(ranked) \in Nat
      /\ \A i \in 1..F : kept[i] = ranked[i]
  BY <1>1, <1>2, KeptFacts DEF Lined
<1>7. b \in BudgetRecord(F) /\ Counted(b, kept, F) /\ Drawn(b, kept, F) /\ Once(b)
  BY <1>1, <1>2, <1>3, LastRoundFacts DEF Sound
<1>8. ASSUME NEW m \in 1..Len(b.selected)
      PROVE  \E i \in 1..F : \E k \in 1..Len(kept[i].chunks) : b.selected[m] = kept[i].chunks[k]
  <2>1. PICK i \in 1..F : \E k \in 1..b.cursor[i] : b.selected[m] = kept[i].chunks[k]
    BY <1>7 DEF Drawn
  <2>2. PICK k \in 1..b.cursor[i] : b.selected[m] = kept[i].chunks[k]
    BY <2>1
  <2>3. /\ b.cursor[i] \in Nat /\ Len(kept[i].chunks) \in Nat
        /\ b.cursor[i] <= Len(kept[i].chunks)
    BY <1>6, <1>7, BudgetFacts, LinedFacts DEF Counted
  <2>4. k \in 1..Len(kept[i].chunks)
    BY <2>3
  <2> QED
    BY <2>2, <2>4
<1>9. ASSUME NEW m \in 1..Len(b.selected) PROVE b.selected[m] \in all
  <2>1. PICK i \in 1..F : \E k \in 1..Len(kept[i].chunks) : b.selected[m] = kept[i].chunks[k]
    BY <1>8
  <2>2. PICK k \in 1..Len(kept[i].chunks) : b.selected[m] = kept[i].chunks[k]
    BY <2>1
  <2>3. i \in 1..Len(ranked) /\ kept[i] = ranked[i]
    BY <1>6
  <2> QED
    BY <2>2, <2>3 DEF Ranking, QueueOf
<1>10. ASSUME NEW m \in 1..Len(b.selected), NEW l \in 1..Len(b.selected),
              b.selected[m].path = b.selected[l].path, b.selected[m].at = b.selected[l].at
       PROVE  m = l
  <2>1. PICK i \in 1..F : \E k \in 1..Len(kept[i].chunks) : b.selected[m] = kept[i].chunks[k]
    BY <1>8
  <2>2. PICK k \in 1..Len(kept[i].chunks) : b.selected[m] = kept[i].chunks[k]
    BY <2>1
  <2>3. PICK j \in 1..F : \E k2 \in 1..Len(kept[j].chunks) : b.selected[l] = kept[j].chunks[k2]
    BY <1>8
  <2>4. PICK k2 \in 1..Len(kept[j].chunks) : b.selected[l] = kept[j].chunks[k2]
    BY <2>3
  <2>5. b.selected[m].path = kept[i].place
    BY <1>6, <2>2, LinedFacts
  <2>6. b.selected[l].path = kept[j].place
    BY <1>6, <2>4, LinedFacts
  <2>7. i = j
    BY <1>6, <1>10, <2>5, <2>6 DEF Lined, Ranking
  <2>8. k = k2
    BY <1>6, <1>10, <2>2, <2>4, <2>7 DEF Lined, Ranking, QueueOf
  <2>9. b.selected[m] = b.selected[l]
    BY <2>2, <2>4, <2>7, <2>8
  <2> QED
    BY <1>7, <2>9 DEF Once
<1> QED
  BY <1>4, <1>5, <1>9, <1>10 DEF IsFrom

LEMMA MadeKeepsBudget ==
    ASSUME NEW ranked, NEW all, Ranking(ranked, all), all \subseteq Chunk
    PROVE  KeepsBudget(Made(ranked))
<1>1. PICK kept : kept = Kept(ranked)
  OBVIOUS
<1>2. PICK F : F = Len(kept)
  OBVIOUS
<1>3. PICK b : b = LastRound(ranked)
  OBVIOUS
<1>4. PICK ctx : ctx = Made(ranked)
  OBVIOUS
<1>5. /\ ctx.selected = b.selected /\ DOMAIN ctx.selected = 1..Len(b.selected)
      /\ \A p : Picked(ctx, p) = Of(b, p)
      /\ ctx.reasons = b.reasons
      /\ ctx.truncated <=> b.truncated \/ \E i \in 1..F : b.taken[i] < Len(kept[i].chunks)
      /\ Len(ctx.candidates) = F
      /\ DOMAIN ctx.ranked = 1..Len(ranked) /\ Len(ctx.ranked) = Len(ranked)
      /\ \A i \in 1..Len(ranked) : ctx.ranked[i] = ranked[i].chunks
  BY <1>1, <1>2, <1>3, <1>4, MadeFacts, SMTT(60)
<1>6. /\ Lined(kept, F) /\ F <= MaxFiles /\ F <= Len(ranked) /\ F \in Nat /\ Len(ranked) \in Nat
      /\ Len(ranked) <= MaxFiles => F = Len(ranked)
      /\ \A i \in 1..F : kept[i] = ranked[i]
  BY <1>1, <1>2, KeptFacts DEF Lined
<1>7. PICK over \in BOOLEAN : over <=> Len(ranked) > MaxFiles
  OBVIOUS
<1>8. /\ b \in BudgetRecord(F) /\ AllSettled(b, kept, F) /\ (Full(b) \/ ~b.moved)
      /\ Within(b) /\ Counted(b, kept, F) /\ Drawn(b, kept, F)
      /\ Shares(b, kept, F) /\ Passed(b, kept, F) /\ Excused(b, kept, F, Len(ranked) > MaxFiles)
  BY <1>1, <1>2, <1>3, LastRoundFacts DEF Sound
<1>9. Excused(b, kept, F, over)
  BY <1>7, <1>8 DEF Excused
<1>10. ASSUME NEW i \in 1..F
       PROVE  /\ b.taken[i] \in Nat /\ b.cursor[i] \in Nat /\ Len(kept[i].chunks) \in Nat
              /\ b.taken[i] <= b.cursor[i] /\ b.cursor[i] <= Len(kept[i].chunks)
              /\ kept[i].chunks \in Seq(Chunk) /\ DOMAIN kept[i].chunks = 1..Len(kept[i].chunks)
  BY <1>6, <1>8, BudgetFacts, LinedFacts, LenProperties DEF Counted
<1>11. ASSUME NEW p \in Paths PROVE Cardinality(Picked(ctx, p)) <= MaxPerFile
  <2>1. CASE \E i \in 1..F : kept[i].place = p
    <3>1. PICK i \in 1..F : kept[i].place = p
      BY <2>1
    <3>2. Cardinality(Of(b, p)) = b.taken[i] /\ b.taken[i] <= MaxPerFile
      BY <1>8, <3>1 DEF Shares, Counted
    <3> QED
      BY <1>5, <3>2
  <2>2. CASE ~\E i \in 1..F : kept[i].place = p
    <3>1. ASSUME NEW m \in 1..Len(b.selected) PROVE b.selected[m].path # p
      <4>1. PICK i \in 1..F : \E k \in 1..b.cursor[i] : b.selected[m] = kept[i].chunks[k]
        BY <1>8 DEF Drawn
      <4>2. PICK k \in 1..b.cursor[i] : b.selected[m] = kept[i].chunks[k]
        BY <4>1
      <4>3. k \in 1..Len(kept[i].chunks)
        BY <1>10
      <4>4. kept[i].chunks[k].path = kept[i].place
        BY <1>6, <4>3, LinedFacts
      <4> QED
        BY <2>2, <4>2, <4>4
    <3>2. Of(b, p) = {}
      BY <3>1 DEF Of
    <3>3. Cardinality({}) = 0
      BY FS_EmptySet
    <3>4. Cardinality(Picked(ctx, p)) = 0 /\ MaxPerFile \in Nat
      BY <1>5, <3>2, <3>3, RetrievalConstantsOK DEF RetrievalConstantsOK
    <3> QED
      BY <3>4
  <2> QED
    BY <2>1, <2>2
<1>12. ASSUME NEW i \in 1..F
       PROVE  b.taken[i] < Len(kept[i].chunks) <=>
                  \E c \in ToSet(kept[i].chunks) : c \notin ToSet(ctx.selected)
  <2>1. \A c : c \in ToSet(ctx.selected) <=> Has(b, c)
    BY <1>5 DEF ToSet, Has
  <2>2. ASSUME b.taken[i] = Len(kept[i].chunks), NEW c \in ToSet(kept[i].chunks)
        PROVE  Has(b, c)
    <3>1. PICK k \in 1..Len(kept[i].chunks) : c = kept[i].chunks[k]
      BY <1>10 DEF ToSet
    <3>2. b.taken[i] = b.cursor[i] /\ k \in 1..b.cursor[i]
      BY <1>10, <2>2
    <3> QED
      BY <1>8, <3>1, <3>2 DEF Passed
  <2>3. ASSUME b.taken[i] < Len(kept[i].chunks)
        PROVE  \E c \in ToSet(kept[i].chunks) : ~Has(b, c)
    <3>1. \E k \in 1..Len(kept[i].chunks) : ~Has(b, kept[i].chunks[k])
      <4>1. CASE b.taken[i] < b.cursor[i]
        <5>1. PICK k \in 1..b.cursor[i] : ~Has(b, kept[i].chunks[k])
          BY <1>8, <4>1 DEF Passed
        <5>2. k \in 1..Len(kept[i].chunks)
          BY <1>10
        <5> QED
          BY <5>1, <5>2
      <4>2. CASE b.taken[i] = b.cursor[i]
        <5>1. PICK k \in 1..Len(kept[i].chunks) : k = b.cursor[i] + 1 /\ k > b.cursor[i]
          BY <1>10, <2>3, <4>2
        <5>2. ~Has(b, kept[i].chunks[k])
          BY <1>6, <1>8, <5>1, Fresh
        <5> QED
          BY <5>2
      <4> QED
        BY <1>10, <4>1, <4>2
    <3>2. PICK k \in 1..Len(kept[i].chunks) : ~Has(b, kept[i].chunks[k])
      BY <3>1
    <3>3. kept[i].chunks[k] \in ToSet(kept[i].chunks)
      BY <1>10 DEF ToSet
    <3> QED
      BY <3>2, <3>3
  <2> QED
    BY <1>10, <2>1, <2>2, <2>3
<1>13. LeftOut(ctx) <=> over \/ \E i \in 1..F : b.taken[i] < Len(kept[i].chunks)
  <2>1. CASE over
    BY <1>5, <1>7, <2>1 DEF LeftOut
  <2>2. CASE ~over
    <3>1. F = Len(ranked) /\ ~(Len(ctx.ranked) > MaxFiles)
      BY <1>5, <1>6, <1>7, <2>2, RetrievalConstantsOK DEF RetrievalConstantsOK
    <3>2. \A i \in 1..F : ctx.ranked[i] = kept[i].chunks
      BY <1>5, <1>6, <3>1
    <3>3. LeftOut(ctx) <=> \E i \in 1..F : \E c \in ToSet(kept[i].chunks) : c \notin ToSet(ctx.selected)
      BY <1>5, <3>1, <3>2 DEF LeftOut
    <3> QED
      BY <1>12, <2>2, <3>3
  <2> QED
    BY <2>1, <2>2
<1>14. ctx.truncated <=> LeftOut(ctx)
  <2>1. over => b.truncated
    BY <1>9 DEF Excused
  <2>2. b.truncated => over \/ \E i \in 1..F : b.taken[i] < Len(kept[i].chunks)
    <3> SUFFICES ASSUME b.truncated, ~over PROVE \E i \in 1..F : b.taken[i] < Len(kept[i].chunks)
      OBVIOUS
    <3>1. PICK i \in 1..F : b.taken[i] < b.cursor[i] \/ b.cursor[i] < Len(kept[i].chunks)
      BY <1>9 DEF Excused
    <3>2. b.taken[i] < Len(kept[i].chunks)
      BY <1>10, <3>1
    <3> QED
      BY <3>2
  <2> QED
    BY <1>5, <1>13, <2>1, <2>2
<1>15. ctx.truncated => ctx.reasons # {}
  <2>1. b.truncated \/ Full(b) => b.reasons # {}
    BY <1>9 DEF Excused
  <2>2. ASSUME NEW i \in 1..F, b.taken[i] < Len(kept[i].chunks), ~Full(b) PROVE b.reasons # {}
    BY <1>8, <1>10, <2>2 DEF AllSettled, Settled
  <2> QED
    BY <1>5, <2>1, <2>2
<1>16. Len(ctx.selected) <= MaxChunks /\ Chars(ctx.selected) <= MaxChars /\ Len(ctx.candidates) <= MaxFiles
  BY <1>5, <1>6, <1>8 DEF Within
<1> QED
  BY <1>4, <1>11, <1>14, <1>15, <1>16 DEF KeepsBudget

(* Whether the best chunk of file k counts before a later file.            *)
Leads(ctx, k) == ctx.ranked[k] # <<>> /\ ctx.ranked[k][1] \in ToSet(ctx.selected)

LEMMA FirstsEquation ==
    ASSUME NEW ctx, NEW j \in Nat, j > 0, \A k \in 1..(j - 1) : ctx.ranked[k] \in Seq(Chunk)
    PROVE  \E firsts \in [0..(j - 1) -> Nat] :
             /\ firsts[0] = 0 /\ FirstsBefore(ctx, j) = firsts[j - 1]
             /\ \A k \in 1..(j - 1) :
                  firsts[k] = firsts[k - 1] + IF Leads(ctx, k) THEN Size(ctx.ranked[k][1]) ELSE 0
<1>1. PICK N \in Nat : N = j - 1
  OBVIOUS
<1>2. PICK size : size = [k \in 1..N |-> IF Leads(ctx, k) THEN Size(ctx.ranked[k][1]) ELSE 0]
  OBVIOUS
<1>3. ASSUME NEW k \in 1..N, Leads(ctx, k) PROVE Size(ctx.ranked[k][1]) \in Nat
  <2>1. ctx.ranked[k] \in Seq(Chunk) /\ ctx.ranked[k] # <<>>
    BY <1>1, <1>3 DEF Leads
  <2>2. Len(ctx.ranked[k]) \in Nat \ {0}
    BY <2>1, EmptySeq
  <2>3. ctx.ranked[k][1] \in Chunk
    BY <2>1, <2>2, ElementOfSeq, 1 \in 1..Len(ctx.ranked[k])
  <2> QED
    BY <2>3, ChunkFacts
<1>4. size \in [1..N -> Nat]
  BY <1>2, <1>3
<1>5. PICK f \in [0..N -> Nat] : f[0] = 0 /\ \A k \in 1..N : f[k] = f[k - 1] + size[k]
  BY <1>4, SumExists
<1>6. ASSUME NEW k \in 1..N
      PROVE  /\ f[k] = f[k - 1] + IF Leads(ctx, k) THEN Size(ctx.ranked[k][1]) ELSE 0
             /\ f[k] = IF Leads(ctx, k) THEN f[k - 1] + Size(ctx.ranked[k][1]) ELSE f[k - 1]
  <2>1. f[k] = f[k - 1] + size[k] /\ f[k - 1] \in Nat
    BY <1>5
  <2>2. size[k] = IF Leads(ctx, k) THEN Size(ctx.ranked[k][1]) ELSE 0
    BY <1>2
  <2> QED
    BY <2>1, <2>2
<1>7. f = [k \in 0..N |-> IF k = 0 THEN 0
                          ELSE IF Leads(ctx, k) THEN f[k - 1] + Size(ctx.ranked[k][1]) ELSE f[k - 1]]
  <2>1. ASSUME NEW k \in 0..N
        PROVE  f[k] = IF k = 0 THEN 0
                      ELSE IF Leads(ctx, k) THEN f[k - 1] + Size(ctx.ranked[k][1]) ELSE f[k - 1]
    <3>1. CASE k = 0
      BY <1>5, <3>1
    <3>2. CASE k # 0
      <4>1. k \in 1..N
        BY <3>2
      <4> QED
        BY <1>6, <3>2, <4>1
    <3> QED
      BY <3>1, <3>2
  <2> QED
    BY <1>5, <2>1
<1>8. PICK g : g = CHOOSE h : h = [k \in 0..N |->
                      IF k = 0 THEN 0
                      ELSE IF Leads(ctx, k) THEN h[k - 1] + Size(ctx.ranked[k][1]) ELSE h[k - 1]]
  OBVIOUS
<1>9. g = [k \in 0..N |-> IF k = 0 THEN 0
                          ELSE IF Leads(ctx, k) THEN g[k - 1] + Size(ctx.ranked[k][1]) ELSE g[k - 1]]
  BY <1>7, <1>8
<1>10. FirstsBefore(ctx, j) = g[N]
  BY <1>1, <1>8 DEF FirstsBefore, Leads
<1>11. g[0] = 0
  BY <1>9, 0 \in 0..N
<1>12. ASSUME NEW k \in 1..N
       PROVE  g[k] = IF Leads(ctx, k) THEN g[k - 1] + Size(ctx.ranked[k][1]) ELSE g[k - 1]
  BY <1>9, k \in 0..N, k # 0
<1>13. PICK T : T = {k \in 0..N : g[k] = f[k]}
  OBVIOUS
<1>14. 0 \in T
  BY <1>5, <1>11, <1>13
<1>15. ASSUME NEW k \in 0..(N - 1), k \in T PROVE k + 1 \in T
  <2>1. k + 1 \in 1..N /\ k + 1 \in 0..N /\ k + 1 - 1 = k
    OBVIOUS
  <2>2. g[k] = f[k]
    BY <1>13, <1>15
  <2>3. g[k + 1] = IF Leads(ctx, k + 1) THEN g[k] + Size(ctx.ranked[k + 1][1]) ELSE g[k]
    BY <1>12, <2>1
  <2>4. f[k + 1] = IF Leads(ctx, k + 1) THEN f[k] + Size(ctx.ranked[k + 1][1]) ELSE f[k]
    BY <1>6, <2>1
  <2>5. g[k + 1] = f[k + 1]
    BY <2>2, <2>3, <2>4
  <2> QED
    BY <1>13, <2>1, <2>5
<1>16. \A k \in 0..N : k \in T
  BY <1>14, <1>15, UpTo
<1>17. N \in 0..N
  OBVIOUS
<1>18. g[N] = f[N]
  BY <1>13, <1>16, <1>17
<1> QED
  BY <1>1, <1>5, <1>6, <1>10, <1>18

LEMMA MadeStarvesNone ==
    ASSUME NEW ranked, NEW all, Ranking(ranked, all), all \subseteq Chunk
    PROVE  StarvesNone(Made(ranked))
<1>1. PICK kept : kept = Kept(ranked)
  OBVIOUS
<1>2. PICK F : F = Len(kept)
  OBVIOUS
<1>3. PICK last : last = LastRound(ranked)
  OBVIOUS
<1>4. PICK ctx : ctx = Made(ranked)
  OBVIOUS
<1>5. /\ ctx.selected = last.selected /\ DOMAIN ctx.selected = 1..Len(last.selected)
      /\ \A p : Picked(ctx, p) = Of(last, p)
      /\ DOMAIN ctx.candidates = 1..F
      /\ \A i \in 1..F : ctx.candidates[i] = kept[i].place /\ ctx.ranked[i] = kept[i].chunks
  BY <1>1, <1>2, <1>3, <1>4, MadeFacts
<1>6. Lined(kept, F) /\ DOMAIN kept = 1..F
  BY <1>1, <1>2, KeptFacts
<1>7. /\ Lined(kept, F) /\ DOMAIN kept = 1..F
      /\ F \in Nat /\ kept \in Seq(RankedRecord) /\ F = Len(kept)
  BY <1>6 DEF Lined, Ranking
<1>8. PICK over : over = (Len(ranked) > MaxFiles)
  OBVIOUS
<1>9. PICK start : start = Untouched(ranked)
  OBVIOUS
<1>10. PICK turn : turn = Turns(start, kept)
  OBVIOUS
<1>11. Sound(start, kept, F, over)
  BY <1>1, <1>2, <1>8, <1>9, UntouchedSound
<1>12. \A i \in 1..F : start.cursor[i] = 0 /\ start.taken[i] = 0
  BY <1>1, <1>7, <1>9 DEF Untouched
<1>13. VisitsOnce(turn, start, kept, F)
  BY <1>7, <1>10, <1>11, <1>12, FirstRoundFacts
<1>14. /\ turn \in [0..F -> BudgetRecord(F)]
       /\ turn[0].selected = start.selected /\ turn[0].chars = start.chars
       /\ \A i \in 1..F : turn[i] = Visit(turn[i - 1], i, kept[i].chunks)
       /\ \A k \in 0..F : \A i \in 1..F :
            /\ i > k => turn[k].cursor[i] = 0 /\ turn[k].taken[i] = 0
            /\ turn[k].taken[i] <= 1
       /\ \A l \in 0..F : \A k \in 0..l :
            /\ Grows(turn[k], turn[l], F)
            /\ Full(turn[k]) => turn[l] = turn[k]
  BY <1>13 DEF VisitsOnce
<1>15. PICK first \in BudgetRecord(F) : first = turn[F] /\ first = Round(Untouched(ranked), kept)
  BY <1>7, <1>9, <1>10, <1>14 DEF Round
<1>16. /\ last \in BudgetRecord(F) /\ Shares(last, kept, F) /\ Grows(first, last, F)
       /\ Full(first) => last = first
  BY <1>1, <1>2, <1>3, <1>15, LastRoundFacts DEF Sound
<1>17. ASSUME NEW k \in 0..F
       PROVE  /\ Grows(turn[k], last, F)
              /\ Full(turn[k]) => \A i \in 1..F : last.taken[i] <= 1
  <2>1. k \in 0..F /\ F \in 0..F /\ turn[k] \in BudgetRecord(F)
    BY <1>7, <1>14, SMTT(60)
  <2>2. Grows(turn[k], first, F) /\ (Full(turn[k]) => first = turn[k])
    BY <1>14, <1>15, <2>1, ZenonT(60)
  <2>3. Grows(turn[k], last, F)
    BY <1>7, <1>15, <1>16, <2>1, <2>2, GrowsOn
  <2>4. Full(turn[k]) => \A i \in 1..F : last.taken[i] <= 1
    BY <1>14, <1>16, <2>1, <2>2
  <2> QED
    BY <2>3, <2>4
<1>18. SUFFICES ASSUME NEW i \in 1..F, NEW j \in 1..F,
                       Cardinality(Of(last, kept[i].place)) >= 2,
                       Of(last, kept[j].place) = {}, kept[j].chunks # <<>>
                PROVE  FirstsBefore(ctx, j) + Size(kept[j].chunks[1]) > MaxChars
  BY <1>4, <1>5 DEF StarvesNone
<1>19. last.taken[i] >= 2 /\ last.taken[j] = 0
  <2>1. Cardinality({}) = 0
    BY FS_EmptySet
  <2> QED
    BY <1>16, <1>18, <2>1 DEF Shares
<1>20. \A k \in 1..F : /\ kept[k].chunks \in Seq(Chunk) /\ Len(kept[k].chunks) \in Nat
                       /\ kept[k].chunks # <<>> => Len(kept[k].chunks) > 0
  BY <1>7, LinedFacts, EmptySeq
<1>21. j - 1 \in 0..F /\ j \in Nat /\ j > 0 /\ j > j - 1
  BY <1>7
<1>22. PICK firsts \in [0..(j - 1) -> Nat] :
          /\ firsts[0] = 0 /\ FirstsBefore(ctx, j) = firsts[j - 1]
          /\ \A k \in 1..(j - 1) :
               firsts[k] = firsts[k - 1] + IF Leads(ctx, k) THEN Size(ctx.ranked[k][1]) ELSE 0
  <2>1. \A k \in 1..(j - 1) : k \in 1..F
    BY <1>7
  <2>2. \A k \in 1..(j - 1) : ctx.ranked[k] \in Seq(Chunk)
    BY <1>5, <1>20, <2>1
  <2> QED
    BY <1>21, <2>2, FirstsEquation
(* The files before j had taken no more than their first chunks.           *)
<1>23. turn[j - 1].chars <= firsts[j - 1]
  <2>1. PICK N \in Nat : N = j - 1
    BY <1>21
  <2>2. PICK T : T = {k \in 0..N : turn[k].chars <= firsts[k]}
    OBVIOUS
  <2>3. 0 \in T
    <3>1. turn[0].chars = 0
      BY <1>9, <1>14 DEF Untouched
    <3> QED
      BY <1>22, <2>2, <3>1, 0 \in 0..N
  <2>4. ASSUME NEW k \in 0..(N - 1), k \in T PROVE k + 1 \in T
    <3>1. PICK x \in 1..F : /\ x = k + 1 /\ x - 1 = k /\ x \in 1..(j - 1) /\ x \in 0..N
                            /\ k \in 0..F /\ x \in 0..F /\ x > k /\ k \in 0..(j - 1)
      BY <1>7, <2>1
    <3>2. PICK s \in BudgetRecord(F) : s = turn[k]
      BY <1>14, <3>1
    <3>3. PICK n \in BudgetRecord(F) : n = turn[x]
      BY <1>14, <3>1
    <3>4. s.cursor[x] = 0
      BY <1>14, <3>1, <3>2
    <3>5. n = Visit(s, x, kept[x].chunks)
      BY <1>14, <3>1, <3>2, <3>3
    <3>6. \/ Takes(s, n, x, kept[x].chunks) \/ Skips(s, n, x, kept[x].chunks)
          \/ Stays(s, n, x, kept[x].chunks)
      BY <1>7, <1>20, <3>5, VisitFacts
    <3>7. /\ s.chars \in Nat /\ firsts[k] \in Nat /\ firsts[x] \in Nat /\ s.chars <= firsts[k]
          /\ firsts[x] = firsts[k] + IF Leads(ctx, x) THEN Size(ctx.ranked[x][1]) ELSE 0
      <4>1. s.chars <= firsts[k]
        BY <2>2, <2>4, <3>2
      <4>2. s.chars \in Nat
        BY <1>7, BudgetFacts
      <4>3. firsts[x] = firsts[x - 1] + IF Leads(ctx, x) THEN Size(ctx.ranked[x][1]) ELSE 0
        BY <1>22, <3>1
      <4>4. x \in 0..(j - 1)
        BY <2>1, <3>1
      <4> QED
        BY <1>22, <3>1, <4>1, <4>2, <4>3, <4>4
    <3>8. CASE Takes(s, n, x, kept[x].chunks)
      <4>1. PICK c : c = kept[x].chunks[1]
        OBVIOUS
      <4>2. /\ n.selected = Append(s.selected, c) /\ n.chars = s.chars + Size(c)
            /\ Len(kept[x].chunks) > 0
        <5>1. s.cursor[x] + 1 = 1
          BY <3>4
        <5> QED
          BY <3>4, <3>8, <4>1, <5>1 DEF Takes, Offers
      <4>3. kept[x].chunks # <<>> /\ c \in Chunk
        BY <1>7, <1>20, <4>1, <4>2, EmptySeq, LinedFacts, 1 \in 1..Len(kept[x].chunks)
      <4>4. s.selected \in Seq(Chunk) /\ Len(s.selected) \in Nat
        BY <1>7, BudgetFacts
      <4>5. Len(n.selected) = Len(s.selected) + 1 /\ n.selected[Len(s.selected) + 1] = c
        BY <4>2, <4>3, <4>4, AppendProperties
      <4>6. Grows(n, last, F)
        BY <1>17, <3>1, <3>3
      <4>7. PICK m : m = Len(s.selected) + 1
        OBVIOUS
      <4>8. Len(last.selected) \in Nat
        BY <1>7, <1>16, BudgetFacts
      <4>9. m \in 1..Len(last.selected) /\ last.selected[m] = c
        <5>1. m \in 1..Len(n.selected) /\ n.selected[m] = c
          BY <4>4, <4>5, <4>7
        <5>2. last.selected[m] = c /\ Len(n.selected) <= Len(last.selected)
          BY <4>6, <5>1 DEF Grows
        <5> QED
          BY <4>4, <4>5, <4>8, <5>1, <5>2
      <4>10. Leads(ctx, x)
        BY <1>5, <4>1, <4>3, <4>9, ZenonT(60) DEF Leads, ToSet
      <4>11. firsts[x] = firsts[k] + Size(c) /\ Size(c) \in Nat
        BY <1>5, <3>7, <4>1, <4>3, <4>10, ChunkFacts
      <4>12. n.chars <= firsts[x]
        BY <3>7, <4>2, <4>11, SMTT(60)
      <4> QED
        BY <2>2, <3>1, <3>3, <4>12
    <3>9. CASE Skips(s, n, x, kept[x].chunks) \/ Stays(s, n, x, kept[x].chunks)
      <4>1. n.chars = s.chars
        BY <3>9 DEF Skips, Stays
      <4>2. firsts[k] <= firsts[x]
        <5>1. CASE Leads(ctx, x)
          <6>1. ctx.ranked[x] = kept[x].chunks /\ Len(kept[x].chunks) > 0
            BY <1>5, <1>20, <5>1 DEF Leads
          <6>2. ctx.ranked[x][1] \in Chunk
            BY <1>7, <1>20, <6>1, LinedFacts, 1 \in 1..Len(kept[x].chunks)
          <6>3. Size(ctx.ranked[x][1]) \in Nat
            BY <6>2, ChunkFacts
          <6> QED
            BY <3>7, <5>1, <6>3
        <5>2. CASE ~Leads(ctx, x)
          BY <3>7, <5>2
        <5> QED
          BY <5>1, <5>2
      <4>3. n.chars <= firsts[x]
        BY <3>7, <4>1, <4>2
      <4> QED
        BY <2>2, <3>1, <3>3, <4>3
    <3> QED
      BY <3>6, <3>8, <3>9
  <2>5. \A k \in 0..N : k \in T
    BY <2>3, <2>4, UpTo
  <2>6. N \in 0..N
    OBVIOUS
  <2> QED
    BY <2>1, <2>2, <2>5, <2>6
<1>24. PICK s \in BudgetRecord(F) : s = turn[j - 1]
  BY <1>14, <1>21
<1>25. s.cursor[j] = 0 /\ ~Full(s)
  <2>1. PICK y \in 0..F : y = j - 1 /\ j > y
    BY <1>21
  <2>2. s.cursor[j] = 0
    BY <1>14, <1>24, <2>1
  <2>3. Full(s) => last.taken[i] <= 1
    BY <1>17, <1>24, <2>1
  <2>4. last.taken[i] \in Nat
    BY <1>7, <1>16, BudgetFacts
  <2> QED
    BY <1>19, <2>2, <2>3, <2>4
<1>26. PICK n \in BudgetRecord(F) : n = turn[j] /\ n = Visit(s, j, kept[j].chunks)
  BY <1>14, <1>24, j \in 0..F
<1>27. \/ Takes(s, n, j, kept[j].chunks) \/ Skips(s, n, j, kept[j].chunks)
       \/ Stays(s, n, j, kept[j].chunks)
  BY <1>7, <1>20, <1>26, VisitFacts
<1>28. n.taken[j] = 0 /\ s.taken[j] = 0
  <2>1. Grows(n, last, F)
    BY <1>17, <1>26, j \in 0..F
  <2>2. Grows(s, last, F)
    BY <1>17, <1>21, <1>24
  <2>3. n.taken[j] \in Nat /\ s.taken[j] \in Nat
    BY <1>7, BudgetFacts
  <2> QED
    BY <1>19, <2>1, <2>2, <2>3 DEF Grows
<1>29. Skips(s, n, j, kept[j].chunks)
  <2>1. ~Takes(s, n, j, kept[j].chunks)
    BY <1>28 DEF Takes
  <2>2. ~Stays(s, n, j, kept[j].chunks)
    BY <1>18, <1>20, <1>25, <1>28, RetrievalConstantsOK DEF Stays, RetrievalConstantsOK
  <2> QED
    BY <1>27, <2>1, <2>2
<1>30. s.chars + Size(kept[j].chunks[1]) > MaxChars
  <2>1. PICK c : c = kept[j].chunks[1]
    OBVIOUS
  <2>2. ~Fits(s, c)
    BY <1>25, <1>29, <2>1 DEF Skips
  <2>3. c \in Chunk
    BY <1>7, <1>18, <1>20, <2>1, LinedFacts, 1 \in 1..Len(kept[j].chunks)
  <2>4. Size(c) \in Nat /\ s.chars \in Nat /\ MaxChars \in Nat
    BY <1>7, <2>3, BudgetFacts, ChunkFacts
  <2> QED
    BY <2>1, <2>2, <2>4 DEF Fits
<1>31. Size(kept[j].chunks[1]) \in Nat /\ s.chars \in Nat /\ MaxChars \in Nat /\ firsts[j - 1] \in Nat
  <2>1. kept[j].chunks[1] \in Chunk
    BY <1>7, <1>18, <1>20, LinedFacts, 1 \in 1..Len(kept[j].chunks)
  <2> QED
    BY <1>7, <1>21, <1>22, <2>1, BudgetFacts, ChunkFacts, SMTT(60)
<1> QED
  BY <1>22, <1>23, <1>24, <1>30, <1>31

LEMMA FallbackKeeps ==
    ASSUME NEW shown
    PROVE  IsFrom(Fallback, shown) /\ KeepsBudget(Fallback) /\ StarvesNone(Fallback)
<1>1. PICK ctx : ctx = Fallback
  OBVIOUS
<1>2. /\ ctx.selected = <<>> /\ ctx.ranked = <<>> /\ ctx.truncated = FALSE /\ ctx.reasons = {}
      /\ ctx.candidates = <<>> \/ ctx.candidates = <<ActiveFile>>
  BY <1>1 DEF Fallback
<1>3. Len(<<>>) = 0 /\ DOMAIN <<>> = {}
  BY EmptySeq
<1>4. \A p : Picked(ctx, p) = {}
  BY <1>2, <1>3 DEF Picked
<1>5. Cardinality({}) = 0
  BY FS_EmptySet
<1>6. MaxFiles \in Nat /\ MaxFiles > 0 /\ MaxChunks \in Nat /\ MaxPerFile \in Nat /\ MaxChars \in Nat
  BY RetrievalConstantsOK DEF RetrievalConstantsOK
<1>7. Len(ctx.candidates) <= MaxFiles
  <2>1. Len(<<ActiveFile>>) = 1
    OBVIOUS
  <2>2. CASE ctx.candidates = <<>>
    <3>1. 0 <= MaxFiles
      BY <1>6
    <3> QED
      BY <1>3, <2>2, <3>1
  <2>3. CASE ctx.candidates = <<ActiveFile>>
    <3>1. 1 <= MaxFiles
      BY <1>6
    <3> QED
      BY <2>1, <2>3, <3>1
  <2> QED
    BY <1>2, <2>2, <2>3
<1>8. ~LeftOut(ctx)
  BY <1>2, <1>3, <1>6 DEF LeftOut
<1>9. KeepsBudget(ctx)
  <2>1. Len(ctx.selected) = 0 /\ Chars(ctx.selected) = 0
    BY <1>2, <1>3, CharsEmpty
  <2>2. Len(ctx.selected) <= MaxChunks /\ Chars(ctx.selected) <= MaxChars
    BY <1>6, <2>1
  <2>3. \A f \in Paths : Cardinality(Picked(ctx, f)) = 0
    BY <1>4, <1>5
  <2>4. \A f \in Paths : Cardinality(Picked(ctx, f)) <= MaxPerFile
    BY <1>6, <2>3
  <2> QED
    BY <1>2, <1>7, <1>8, <2>2, <2>4 DEF KeepsBudget
<1>10. IsFrom(ctx, shown)
  BY <1>2, <1>3 DEF IsFrom
<1>11. StarvesNone(ctx)
  <2>1. \A p : Cardinality(Picked(ctx, p)) = 0
    BY <1>4, <1>5
  <2>2. \A p : ~(Cardinality(Picked(ctx, p)) >= 2)
    BY <2>1
  <2> QED
    BY <2>2 DEF StarvesNone
<1> QED
  BY <1>1, <1>9, <1>10, <1>11

(* Whatever the queries return, the context is from what they saw, keeps   *)
(* the budget, tells what it left out, and starves no file                 *)
(* (hybridContextRetriever.ts 127-176, retrievalBudget.ts).                *)
THEOREM RetrievedKeeps ==
    ASSUME NEW files, NEW chunks, NEW extra, Fetch(files, chunks, extra),
           NEW shown, \A c \in chunks \union extra : <<c.path, c.text>> \in shown,
           NEW ctx, ctx = Retrieved(files, chunks, extra)
    PROVE  IsFrom(ctx, shown) /\ KeepsBudget(ctx) /\ StarvesNone(ctx)
<1>1. PICK all : all = chunks \union extra
  OBVIOUS
<1>2. PICK ranked : ranked = Ranked(files, chunks, extra)
  OBVIOUS
<1>3. Ranking(ranked, all)
  BY <1>1, <1>2, RankedFacts
<1>4. all \subseteq Chunk
  BY <1>1 DEF Fetch, OnePerPlace
<1>5. CASE ranked = <<>>
  <2>1. ctx = Fallback
    BY <1>2, <1>5 DEF Retrieved
  <2> QED
    BY <2>1, FallbackKeeps
<1>6. CASE ranked # <<>>
  <2>1. ctx = Made(ranked)
    BY <1>2, <1>6 DEF Retrieved, Made
  <2>2. IsFrom(Made(ranked), shown)
    BY <1>1, <1>3, <1>4, MadeIsFrom
  <2>3. KeepsBudget(Made(ranked))
    BY <1>3, <1>4, MadeKeepsBudget
  <2>4. StarvesNone(Made(ranked))
    BY <1>3, <1>4, MadeStarvesNone
  <2> QED
    BY <2>1, <2>2, <2>3, <2>4
<1> QED
  BY <1>5, <1>6

(***************************************************************************)
(* The queries.                                                            *)
(***************************************************************************)
(* A set of chunks that the index shows.                                   *)
ShownBy(chunks, index) ==
    \A c \in chunks : c.path \in Paths /\ index[c.path] # "gone" /\ c.text = index[c.path]

LEMMA ChunksOfFacts ==
    ASSUME NEW index \in Index, NEW p \in Paths
    PROVE  /\ IsFiniteSet(ChunksOf(index, p)) /\ ChunksOf(index, p) \subseteq Chunk
           /\ ShownBy(ChunksOf(index, p), index)
<1>1. CASE index[p] = "gone"
  <2>1. ChunksOf(index, p) = {}
    BY <1>1 DEF ChunksOf
  <2> QED
    BY <2>1, FS_EmptySet DEF ShownBy
<1>2. CASE index[p] # "gone"
  <2>1. PICK text \in Texts : text = index[p]
    BY <1>2 DEF Index
  <2>2. Fragments[text] \in Seq([size : Nat, hits : Nat])
    BY RetrievalConstantsOK DEF RetrievalConstantsOK
  <2>3. PICK N \in Nat : N = Len(Fragments[text]) /\ DOMAIN Fragments[text] = 1..N
    BY <2>2, LenProperties
  <2>4. PICK own : own = {[path |-> p, at |-> i, text |-> text] : i \in 1..N}
    OBVIOUS
  <2>5. ChunksOf(index, p) = own
    BY <1>2, <2>1, <2>3, <2>4 DEF ChunksOf
  <2>6. IsFiniteSet(1..N)
    BY FS_Interval
  <2>7. [i \in 1..N |-> [path |-> p, at |-> i, text |-> text]] \in Surjection(1..N, own)
    BY <2>4 DEF Surjection
  <2>8. IsFiniteSet(own)
    BY <2>6, <2>7, FS_Surjection
  <2>9. ASSUME NEW c \in own PROVE c \in Chunk /\ c.path = p /\ c.text = text
    BY <2>3, <2>4, <2>9 DEF Chunk
  <2> QED
    BY <1>2, <2>1, <2>5, <2>8, <2>9 DEF ShownBy
<1> QED
  BY <1>1, <1>2

(* The chunks of some files, or some of them.                              *)
LEMMA ChunksOfFiles ==
    ASSUME NEW index \in Index, NEW files, files \subseteq Paths,
           NEW chunks, chunks \subseteq UNION {ChunksOf(index, p) : p \in files}
    PROVE  OnePerPlace(chunks) /\ ShownBy(chunks, index)
<1>1. PICK own : own = {ChunksOf(index, p) : p \in files}
  OBVIOUS
<1>2. IsFiniteSet(files)
  BY RetrievalConstantsOK, FS_Subset DEF RetrievalConstantsOK
<1>3. [p \in files |-> ChunksOf(index, p)] \in Surjection(files, own)
  BY <1>1 DEF Surjection
<1>4. IsFiniteSet(own)
  BY <1>2, <1>3, FS_Surjection
<1>5. \A C \in own : IsFiniteSet(C) /\ C \subseteq Chunk /\ ShownBy(C, index)
  BY <1>1, ChunksOfFacts
<1>6. IsFiniteSet(UNION own)
  BY <1>4, <1>5, FS_UNION
<1>7. IsFiniteSet(chunks)
  BY <1>1, <1>6, FS_Subset
<1>8. chunks \subseteq Chunk
  BY <1>1, <1>5
<1>9. ShownBy(chunks, index)
  BY <1>1, <1>5 DEF ShownBy
<1>10. ASSUME NEW c \in chunks, NEW d \in chunks, c.path = d.path, c.at = d.at PROVE c = d
  <2>1. c.text = d.text
    BY <1>9, <1>10 DEF ShownBy
  <2>2. c \in Chunk /\ d \in Chunk
    BY <1>8
  <2>3. c = [path |-> c.path, at |-> c.at, text |-> c.text]
    BY <2>2 DEF Chunk
  <2>4. d = [path |-> d.path, at |-> d.at, text |-> d.text]
    BY <2>2 DEF Chunk
  <2> QED
    BY <1>10, <2>1, <2>3, <2>4
<1> QED
  BY <1>7, <1>8, <1>9, <1>10 DEF OnePerPlace

LEMMA QueriesFacts ==
    ASSUME NEW index \in Index, NEW files, files \subseteq Paths
    PROVE  /\ SearchIndexedFiles(index) \subseteq Paths
           /\ OnePerPlace(SearchFileChunks(index)) /\ ShownBy(SearchFileChunks(index), index)
           /\ OnePerPlace(GetFileChunksByFileIds(index, files))
           /\ ShownBy(GetFileChunksByFileIds(index, files), index)
<1>1. SearchIndexedFiles(index) \subseteq Paths
  BY DEF SearchIndexedFiles
<1>2. SearchFileChunks(index) \subseteq UNION {ChunksOf(index, p) : p \in Paths}
  BY DEF SearchFileChunks
<1>3. GetFileChunksByFileIds(index, files) \subseteq UNION {ChunksOf(index, p) : p \in files}
  BY DEF GetFileChunksByFileIds
<1>4. OnePerPlace(SearchFileChunks(index)) /\ ShownBy(SearchFileChunks(index), index)
  BY <1>2, ChunksOfFiles
<1>5. /\ OnePerPlace(GetFileChunksByFileIds(index, files))
      /\ ShownBy(GetFileChunksByFileIds(index, files), index)
  BY <1>3, ChunksOfFiles
<1> QED
  BY <1>1, <1>4, <1>5
=============================================================================
