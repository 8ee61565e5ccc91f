------------------------------- MODULE Retrieval -------------------------------
(***************************************************************************)
(* The retrievers (retrieval/) over an index that ingest runs may rewrite  *)
(* while a question is being answered.                                     *)
(*                                                                         *)
(* How well a passage fits a query is not modelled: the dense ranker, BM25 *)
(* and the cross-encoder may put the chunks they see in any order.  So     *)
(* HyDE, which only changes the text of the query, is a call that may fail.*)
(***************************************************************************)
EXTENDS Ingest, RankFusion, SequencesExt

CONSTANTS
    TopK,               \* top_k, or retrieval_top_k if the caller gives none
    Candidates,         \* candidate_multiplier of HybridRetriever
    RerankCandidates,   \* rerank_candidate_multiplier
    MaxSubqueries       \* _MAX_SUBQUERIES

ASSUME RetrievalAssumption ==
    {TopK, Candidates, RerankCandidates, MaxSubqueries} \subseteq Nat \ {0}

VARIABLES
    strategy,   \* the retriever built, or "none"
    snapshot,   \* the chunks BM25Store has loaded
    stage,      \* where the query is
    limited,    \* the caller gave a top_k: it is None in the evaluation
    queries,    \* how many (sub-)queries it still has to search for
    lists,      \* ranked_lists
    served      \* what retrieve_async returned

retriever == <<strategy, snapshot>>
query == <<stage, limited, queries, lists, served>>
searchVars == <<ingestVars, retriever, query>>

VALID_STRATEGIES == {"dense", "hybrid", "hybrid-rerank", "hyde", "full", "decompose"}
Hybrid == strategy \notin {"dense", "hyde"}
Reranks == strategy \in {"hybrid-rerank", "full"}

SearchTypeOK ==
    /\ IngestTypeOK
    /\ strategy \in VALID_STRATEGIES \cup {"none"}
    /\ snapshot \subseteq Chunk
    /\ stage \in {"none", "rewrite", "search", "answered", "failed"}
    /\ limited \in BOOLEAN
    /\ queries \in 0 .. MaxSubqueries
    /\ lists \in Seq(Seq(Chunk))
    /\ served \in Seq(Chunk)

SearchInit ==
    /\ IngestInit
    /\ strategy = "none" /\ snapshot = {}
    /\ stage = "none" /\ limited = TRUE /\ queries = 0 /\ lists = << >> /\ served = << >>

-----------------------------------------------------------------------------
\* What an entry of the collection is read back as.
AsChunk(entry) == [id |-> entry.id, text |-> entry.text, commit |-> entry.commit]
Collection == {AsChunk(e) : e \in index}

\* build_retriever: BM25Store loads the whole collection, once, and refuses an
\* empty one; the dense ranker only needs the collection to exist.
Build ==
    /\ strategy = "none"
    /\ strategy' \in VALID_STRATEGIES
    /\ Hybrid' => index # {}
    /\ snapshot' = IF Hybrid' THEN Collection ELSE {}
    /\ UNCHANGED <<ingestVars, query>>

Ask ==
    /\ strategy # "none"
    /\ stage = "none"
    /\ stage' = IF strategy \in {"hyde", "full", "decompose"} THEN "rewrite" ELSE "search"
    /\ limited' \in BOOLEAN
    /\ queries' = 1
    /\ UNCHANGED <<ingestVars, retriever, lists, served>>

\* HyDE's hypothesis or, if its call fails, the question; sub-queries, at most
\* MaxSubqueries of those the model sent, or the question.
Rewrite ==
    /\ stage = "rewrite"
    /\ queries' \in IF strategy = "decompose" THEN 1 .. MaxSubqueries ELSE {1}
    /\ stage' = "search"
    /\ UNCHANGED <<ingestVars, retriever, limited, lists, served>>

First(n, list) == SubSeq(list, 1, IF n < Len(list) THEN n ELSE Len(list))

\* The n best of some chunks, in any order.
Rankings(S, n) == {First(n, r) : r \in SetToSeqs(S)}

DenseHits(n) == Rankings(Collection, n)

HybridHits(n) ==
    {First(n, Fuse(<<dense, bm25>>)) :
        dense \in DenseHits(n * Candidates), bm25 \in Rankings(snapshot, n * Candidates)}

\* What the retriever may return for one query.
Found ==
    IF ~Hybrid THEN DenseHits(TopK)
    ELSE IF ~Reranks THEN HybridHits(TopK)
    ELSE UNION {Rankings(ToSet(hits), TopK) : hits \in HybridHits(TopK * RerankCandidates)}

\* One query is embedded and searched for: the collection as it is then, and
\* BM25's snapshot of it.
Search ==
    /\ stage = "search"
    /\ queries > 0
    /\ queries' = queries - 1
    /\ \E hits \in Found : lists' = Append(lists, hits)
    /\ UNCHANGED <<ingestVars, retriever, stage, limited, served>>

\* The embedding or the store raises: nothing is returned, also not what other
\* sub-queries found.
SearchFails ==
    /\ stage = "search"
    /\ queries > 0
    /\ stage' = "failed"
    /\ queries' = 0
    /\ lists' = << >>
    /\ UNCHANGED <<ingestVars, retriever, limited, served>>

\* Fault: the fused list is not cut to top_k.
AnswerUncut ==
    /\ stage = "search"
    /\ queries = 0
    /\ served' = IF Len(lists) = 1 THEN lists[1] ELSE Fuse(lists)
    /\ stage' = "answered"
    /\ lists' = << >>
    /\ UNCHANGED <<ingestVars, retriever, limited, queries>>

\* One list is the answer; several are fused, and cut if the caller said to what.
Answer ==
    /\ stage = "search"
    /\ queries = 0
    /\ served' = IF Len(lists) = 1 THEN lists[1]
                 ELSE IF limited THEN First(TopK, Fuse(lists)) ELSE Fuse(lists)
    /\ stage' = "answered"
    /\ lists' = << >>
    /\ UNCHANGED <<ingestVars, retriever, limited, queries>>

SearchNext ==
    \/ IngestNext /\ UNCHANGED <<retriever, query>>
    \/ Build \/ Ask \/ Rewrite \/ Search \/ SearchFails \/ Answer

SearchSpec == SearchInit /\ [][SearchNext]_searchVars

-----------------------------------------------------------------------------
\* The passages of an answer are different ones, at most top_k of them, or
\* retrieval_top_k for each sub-query if the caller gave no top_k; and each says
\* what its file said at the commit it cites, although ingest may have replaced
\* the index between BM25's load, the searches and the answer.
MostServed == IF limited \/ strategy # "decompose" THEN TopK ELSE MaxSubqueries * TopK

ServedTrue ==
    /\ Len(served) <= MostServed
    /\ Cardinality(IdsOf(served)) = Len(served)
    /\ \A n \in DOMAIN served : IsChunk(served[n])

\* When the rankings of all sub-queries are in, their fusion has each chunk once,
\* and none behind one that beats it in every ranking, although the rankings may
\* come from different states of the index.
FairlyFused == stage = "search" /\ queries = 0 => FusedFairly(lists)
=============================================================================
