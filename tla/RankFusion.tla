------------------------------ MODULE RankFusion ------------------------------
(***************************************************************************)
(* reciprocal_rank_fusion (retrieval/hybrid.py): several ranked lists of   *)
(* chunks become one, by the sum of 1 / (k + rank) over the lists a chunk  *)
(* is in.  Chunks with the same id count as one chunk.  Sums are exact     *)
(* fractions; the code's are floating point.                               *)
(***************************************************************************)
EXTENDS Naturals, Sequences, FiniteSets, FiniteSetsExt

CONSTANT FusionK    \* the parameter k

ASSUME FusionAssumption == FusionK \in Nat

IdsOf(list) == {list[n].id : n \in DOMAIN list}
Ids(lists) == UNION {IdsOf(lists[i]) : i \in DOMAIN lists}

\* The places <<list, rank>> an id has.
Places(lists, id) ==
    UNION {{<<i, n>> : n \in {m \in DOMAIN lists[i] : lists[i][m].id = id}} : i \in DOMAIN lists}

Plus(x, y) == <<x[1] * y[2] + y[1] * x[2], x[2] * y[2]>>

\* scores[id], as a numerator and a denominator.
Score(lists, id) ==
    MapThenFoldSet(Plus, <<0, 1>>, LAMBDA p : <<1, FusionK + p[2]>>,
                   LAMBDA S : CHOOSE p \in S : TRUE, Places(lists, id))

\* Fault: the scores are sorted in ascending order.
GreaterAscending(x, y) == x[1] * y[2] < y[1] * x[2]

Greater(x, y) == x[1] * y[2] > y[1] * x[2]

\* The order in which ids enter the dictionary, which a stable sort keeps.
EntersBefore(lists, x, y) ==
    LET First(id) == CHOOSE p \in Places(lists, id) : \A o \in Places(lists, id) :
                         p[1] < o[1] \/ (p[1] = o[1] /\ p[2] <= o[2])
    IN  \/ First(x)[1] < First(y)[1]
        \/ First(x)[1] = First(y)[1] /\ First(x)[2] < First(y)[2]

\* chunks_by_id[id]: the chunk of the last list that has the id.
ChunkById(lists, id) ==
    LET last == CHOOSE p \in Places(lists, id) : \A o \in Places(lists, id) : o[1] <= p[1]
    IN  lists[last[1]][last[2]]

\* sorted(..., key = -score)
Fuse(lists) ==
    LET ids == Ids(lists)
        score == [id \in ids |-> Score(lists, id)]
        Before(x, y) ==
            \/ Greater(score[x], score[y])
            \/ ~ Greater(score[y], score[x]) /\ EntersBefore(lists, x, y)
    IN  [n \in 1 .. Cardinality(ids) |->
            ChunkById(lists, CHOOSE id \in ids : Cardinality({x \in ids : x # id /\ Before(x, id)}) = n - 1)]

-----------------------------------------------------------------------------
\* Reference

Rank(list, id) == CHOOSE n \in DOMAIN list : list[n].id = id

\* Every list that has y has x above it.
Dominates(lists, x, y) ==
    \A i \in DOMAIN lists :
        y \in IdsOf(lists[i]) =>
            x \in IdsOf(lists[i]) /\ Rank(lists[i], x) < Rank(lists[i], y)

\* What the fusion of some lists must be: each id once, and none behind one it
\* beats in every list.
FusedFairly(lists) ==
    LET fused == Fuse(lists)
    IN  /\ IdsOf(fused) = Ids(lists) /\ Len(fused) = Cardinality(Ids(lists))
        /\ \A j, k \in DOMAIN fused : j < k => ~ Dominates(lists, fused[k].id, fused[j].id)
=============================================================================
