------------------------------- MODULE Expansion -------------------------------
(***************************************************************************)
(* The generator of golden-set candidates (scripts/expand_golden_set.py),  *)
(* next to the review of the queue file that it writes: a person may start *)
(* it while a session is open, and the service may append to the file.     *)
(*                                                                         *)
(* It samples chunks, balances them over the topics, asks a model for one  *)
(* question for each, drops near-duplicates, and only then writes the      *)
(* queue, over whatever was in it.  A question stands for its candidate,   *)
(* and belongs to one category; answers, evidence and ids are left out.    *)
(***************************************************************************)
EXTENDS GoldenReview, SequencesExt

CONSTANTS
    Chunk,            \* the chunks of the collection
    NoChunk,          \* None
    TopicOf,          \* _topic_of the file of each chunk: a category
    Rank,             \* the order of the topics' names
    Versioned,        \* chunks that _VERSION_PATTERN matches
    VersionSensitive, Unanswerable,  \* the categories that are not topics
    DraftsOf,         \* questions the model may draft from each chunk
    Answered,         \* questions with a hit of _UNANSWERABLE_MAX_SIMILARITY
    Twin,             \* <<q, p>>: the ratio of q to p reaches _DUPLICATE_QUESTION_RATIO
    NTopic, NVersion, NUnanswerable,  \* the arguments of the command
    Oversample,       \* _TOPIC_OVERSAMPLE
    MaxExpansions     \* bound: runs of the command

ASSUME ExpansionAssumption ==
    /\ IsFiniteSet(Chunk)
    /\ TopicOf \in [Chunk -> Category \ {VersionSensitive, Unanswerable}]
    /\ Rank \in [Category -> Nat]
    /\ \A c, d \in Chunk : Rank[TopicOf[c]] = Rank[TopicOf[d]] => TopicOf[c] = TopicOf[d]
    /\ Versioned \subseteq Chunk
    /\ DraftsOf \in [Chunk -> SUBSET Question]
    /\ Answered \subseteq Question
    /\ Twin \subseteq Question \X Question
    /\ \A q \in Question : <<q, q>> \in Twin
    /\ NTopic \in Nat /\ NVersion \in Nat /\ NUnanswerable \in Nat /\ Oversample \in Nat
    /\ MaxExpansions \in Nat

VARIABLES
    gen,         \* where the generator is
    pool, picks, \* the sample of chunks, and those picked from it, in order
    jobs,        \* the candidates still to be drafted
    drafts,      \* candidates, as generate_candidates collects them
    kept,        \* history: what it returned
    expansions

generator == <<gen, pool, picks, jobs, drafts, kept, expansions>>
allVars == <<vars, generator>>

-----------------------------------------------------------------------------
\* Picking chunks

\* Fault: the buckets are emptied one after the other.
AheadByTopic(c, place) ==
    {d \in DOMAIN place : \/ Rank[TopicOf[d]] < Rank[TopicOf[c]]
                          \/ TopicOf[d] = TopicOf[c] /\ place[d] < place[c]}

\* Chunks that come before c when one of each topic is taken in turn; place is
\* a chunk's position in its shuffled bucket.
Ahead(c, place) ==
    {d \in DOMAIN place : \/ place[d] < place[c]
                          \/ place[d] = place[c] /\ Rank[TopicOf[d]] < Rank[TopicOf[c]]}

\* A shuffled bucket for each topic.
Shuffles(chunks) ==
    {place \in [chunks -> 1 .. Cardinality(chunks)] :
        \A c \in chunks :
            LET bucket == {d \in chunks : TopicOf[d] = TopicOf[c]}
            IN  {place[d] : d \in bucket} = 1 .. Cardinality(bucket)}

\* _balanced_topic_chunks: the first n in the round-robin order.
Balanced(n, place) ==
    LET chosen == {c \in DOMAIN place : Cardinality(Ahead(c, place)) < n}
    IN  [i \in 1 .. Cardinality(chosen) |->
            CHOOSE c \in chosen : Cardinality(Ahead(c, place)) = i - 1]

\* The sampler's n random chunks, or all of them.
Samples(n, chunks) == kSubset(Min({n, Cardinality(chunks)}), chunks)

TopicJobs == [i \in DOMAIN picks' |-> [kind |-> TopicOf[picks'[i]], chunk |-> picks'[i]]]
VersionJobs(chunks) == SetToSeq({[kind |-> VersionSensitive, chunk |-> c] : c \in chunks})
UnanswerableJobs == [i \in 1 .. NUnanswerable |-> [kind |-> Unanswerable, chunk |-> NoChunk]]

StartExpansion ==
    /\ gen = "off"
    /\ expansions < MaxExpansions
    /\ expansions' = expansions + 1
    /\ pool' \in Samples(NTopic * Oversample, Chunk)
    /\ \E place \in Shuffles(pool') : picks' = Balanced(NTopic, place)
    /\ \E chunks \in Samples(NVersion, Versioned) :
          jobs' = TopicJobs \o VersionJobs(chunks) \o UnanswerableJobs
    /\ drafts' = << >> /\ kept' = << >>
    /\ gen' = "drafting"
    /\ UNCHANGED vars

-----------------------------------------------------------------------------
\* Drafting

\* What the model may be made to ask: from the chunk, or what the corpus should
\* not answer.
Drafts(job) ==
    {q \in (IF job.kind = Unanswerable THEN Question ELSE DraftsOf[job.chunk]) :
        CategoryOf[q] = job.kind}

\* The reply does not parse, its question is empty or its answer degenerate.
DraftDropped ==
    /\ gen = "drafting"
    /\ jobs # << >>
    /\ jobs' = Tail(jobs)
    /\ UNCHANGED <<vars, gen, pool, picks, drafts, kept, expansions>>

\* draft_*_candidate; a question for the unanswerable that the probe finds
\* answered is dropped.
Draft(q) ==
    /\ gen = "drafting"
    /\ jobs # << >>
    /\ q \in Drafts(Head(jobs))
    /\ jobs' = Tail(jobs)
    /\ drafts' = IF Head(jobs).kind = Unanswerable /\ q \in Answered THEN drafts ELSE Append(drafts, q)
    /\ UNCHANGED <<vars, gen, pool, picks, kept, expansions>>

\* Fault: a question is compared with the one kept last.
OfferToLast(found, q) ==
    IF found # << >> /\ <<q, Last(found)>> \in Twin THEN found ELSE Append(found, q)

\* A question is compared with all that were kept.
Offer(found, q) ==
    IF \E k \in DOMAIN found : <<q, found[k]>> \in Twin THEN found ELSE Append(found, q)

\* _dedupe_candidates: the questions are offered one after the other.
Dedupe(questions) ==
    LET found[n \in 0 .. Len(questions)] ==
            IF n = 0 THEN << >> ELSE Offer(found[n - 1], questions[n])
    IN  found[Len(questions)]

\* generate_candidates returns, and write_queue opens the file for writing ...
BeginWrite ==
    /\ gen = "drafting"
    /\ jobs = << >>
    /\ kept' = Dedupe(drafts)
    /\ queue' = << >>
    /\ gen' = "writing"
    /\ UNCHANGED <<golden, torn, pc, session, counts, history, pool, picks, jobs, drafts, expansions>>

\* Fault: the candidates are written as cases, which they are after the review.
EndWriteAccepted ==
    /\ gen = "writing"
    /\ golden' = [c \in Category |-> golden[c] \cup
           {[number |-> NextNumber(c), question |-> q] : q \in {p \in Range(kept) : CategoryOf[p] = c}}]
    /\ queue' = [k \in DOMAIN kept |-> [question |-> kept[k], status |-> "accepted"]]
    /\ gen' = "off"
    /\ UNCHANGED <<torn, pc, session, counts, history, pool, picks, jobs, drafts, kept, expansions>>

\* ... and writes the candidates over whatever is there, decided or not.
EndWrite ==
    /\ gen = "writing"
    /\ queue' = [k \in DOMAIN kept |-> [question |-> kept[k], status |-> "pending"]]
    /\ gen' = "off"
    /\ UNCHANGED <<golden, torn, pc, session, counts, history, pool, picks, jobs, drafts, kept, expansions>>

\* An exception of the API or the index, or a crash; the drafts are lost, and
\* of a file that was being written a beginning may be left.
ExpansionFails ==
    /\ gen # "off"
    /\ \/ UNCHANGED queue
       \/ /\ gen = "writing"
          /\ \E n \in 0 .. Len(kept) :
                queue' = [k \in 1 .. n |-> [question |-> kept[k], status |-> "pending"]]
    /\ gen' = "off"
    /\ UNCHANGED <<golden, torn, pc, session, counts, history, pool, picks, jobs, drafts, kept, expansions>>

-----------------------------------------------------------------------------
ExpansionInit ==
    /\ Init
    /\ gen = "off" /\ pool = {} /\ picks = << >> /\ jobs = << >>
    /\ drafts = << >> /\ kept = << >> /\ expansions = 0

Generate ==
    \/ StartExpansion
    \/ DraftDropped \/ \E q \in Question : Draft(q)
    \/ BeginWrite \/ EndWrite
    \/ ExpansionFails

Review == Next /\ UNCHANGED generator

ExpansionSpec == ExpansionInit /\ [][Generate \/ Review]_allVars

-----------------------------------------------------------------------------
\* Properties

\* The reviewer is not asked the same thing twice, and nothing is dropped for
\* being a twin but of a question that is kept: the relation is not transitive,
\* so a twin of a dropped question may itself be kept.
NoTwins ==
    gen = "writing" =>
        /\ \A j, k \in DOMAIN kept : j < k => <<kept[k], kept[j]>> \notin Twin
        /\ \A d \in DOMAIN drafts : \E k \in DOMAIN kept : <<drafts[d], kept[k]>> \in Twin

PickedOf(t) == {i \in DOMAIN picks : TopicOf[picks[i]] = t}

\* Thin topics get their share: as many chunks are picked as were asked for and
\* are there, none twice, and a topic gets two more than another only if the
\* other has no chunk left in the sample.
FairShare ==
    /\ gen = "drafting" => Len(picks) = Min({NTopic, Cardinality(pool)})
    /\ Range(picks) \subseteq pool
    /\ \A i, j \in DOMAIN picks : picks[i] = picks[j] => i = j
    /\ \A s, t \in Category :
          Cardinality(PickedOf(s)) > Cardinality(PickedOf(t)) + 1 =>
              {c \in pool : TopicOf[c] = t} \subseteq Range(picks)
=============================================================================
