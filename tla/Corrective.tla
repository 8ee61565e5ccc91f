------------------------------ MODULE Corrective ------------------------------
(***************************************************************************)
(* One run of corrective_generate_async (generation/corrective.py) with    *)
(* the critic (critic.py), the answer generator (generator.py) and the     *)
(* factuality gateway (factuality.py, claim parsing in claim_eval.py).     *)
(*                                                                         *)
(* The model decides nothing about texts: a passage is its position in the *)
(* retrieved list, a relevance score is a point of the grid 0 .. Top, the  *)
(* critic's and the judge's replies are whatever a model may send, and     *)
(* every awaited call may raise.                                           *)
(***************************************************************************)
EXTENDS Integers

CONSTANTS
    TopK,                 \* passages a retrieval may return
    Top,                  \* the score 1.0
    CorrectThreshold,     \* critic_correct_threshold
    IncorrectThreshold,   \* critic_incorrect_threshold
    NaN,                  \* a score that is not a number, which JSON replies may hold
    MaxRetries,           \* corrective_max_retries
    GatewayEnabled        \* factuality_gateway_enabled

\* The settings are not validated; the loop needs the thresholds in this order,
\* and a zero incorrect threshold would accept passages nobody scored.
ASSUME CorrectiveAssumption ==
    /\ TopK \in Nat
    /\ Top \in Nat /\ CorrectThreshold \in Nat /\ IncorrectThreshold \in Nat
    /\ 0 < IncorrectThreshold /\ IncorrectThreshold <= CorrectThreshold
    /\ CorrectThreshold <= Top
    /\ NaN \notin Int
    /\ MaxRetries \in Nat
    /\ GatewayEnabled \in BOOLEAN

Score == 0 .. Top

\* What the critic may put in its list: a number, in range or not, or NaN.
RawScore == (-1 .. Top + 1) \cup {NaN}

\* The critic may send more or fewer scores than it was asked for.
Reply == UNION {[1 .. m -> RawScore] : m \in 0 .. TopK + 1}

\* One score for each retrieved passage.
Batch == UNION {[1 .. n -> Score] : n \in 0 .. TopK}

\* The labels of claims the judge may send; "other" stands for unknown ones.
Label == {"grounded", "complementary", "ungrounded", "contradicted", "other"}

VARIABLES
    pc,          \* the await or decision the run has reached
    attempts,    \* retrievals begun
    query,       \* current_query: the user's or the rewritten question
    retrieved,   \* how many passages the last retrieval returned
    scores,      \* the last batch of scores, by position
    graded,      \* history: positions the critic's last reply gave a score for
    survivors,   \* positions of the passages the answer is generated from
    judged,      \* history: the labels in the judge's reply, unparsed
    answer,      \* the answer text so far
    outcome,     \* how the run ended: a CorrectiveResult or an exception
    calls        \* history: calls made to the language model

vars == <<pc, attempts, query, retrieved, scores, graded, survivors, judged,
          answer, outcome, calls>>

Running == {"retrieve", "retrieving", "score", "route", "reformulate",
            "generate", "verify", "regenerate"}

TypeOK ==
    /\ pc \in Running \cup {"done"}
    /\ attempts \in 0 .. MaxRetries + 1
    /\ query \in {"original", "rewritten"}
    /\ retrieved \in 0 .. TopK
    /\ scores \in Batch
    /\ graded \subseteq 1 .. TopK
    /\ survivors \subseteq 1 .. TopK
    /\ judged \subseteq Label
    /\ answer \in {"none", "draft", "revised", "NO_INFO"}
    /\ outcome \in {"none", "answered", "refused", "OpenAIError", "TypeError", "OtherError"}
    /\ calls \in Nat

Init ==
    /\ pc = "retrieve"
    /\ attempts = 0
    /\ query = "original"
    /\ retrieved = 0
    /\ scores = << >>
    /\ graded = {}
    /\ survivors = {}
    /\ judged = {}
    /\ answer = "none"
    /\ outcome = "none"
    /\ calls = 0

Goto(where) == pc' = where /\ UNCHANGED outcome
End(how) == pc' = "done" /\ outcome' = how

Raise == \E e \in {"OpenAIError", "OtherError"} : End(e)

Call == calls' = calls + 1

-----------------------------------------------------------------------------
\* Retrieval

\* "for attempt in range(retry_cap + 1)": await the retriever.
Begin ==
    /\ pc = "retrieve"
    /\ attempts <= MaxRetries
    /\ attempts' = attempts + 1
    /\ Goto("retrieving")
    /\ UNCHANGED <<query, retrieved, scores, graded, survivors, judged, answer, calls>>

\* Fault: a retrieval that finds nothing is repeated and not counted.
RetrieveReturnsUncounted ==
    /\ pc = "retrieving"
    /\ retrieved' \in 0 .. TopK
    /\ attempts' = IF retrieved' = 0 THEN attempts - 1 ELSE attempts
    /\ Goto(IF retrieved' = 0 THEN "retrieve" ELSE "score")
    /\ UNCHANGED <<query, scores, graded, survivors, judged, answer, calls>>

RetrieveReturns ==
    /\ pc = "retrieving"
    /\ retrieved' \in 0 .. TopK
    /\ Goto("score")
    /\ UNCHANGED <<attempts, query, scores, graded, survivors, judged, answer, calls>>

RetrieveRaises ==
    /\ pc = "retrieving"
    /\ Raise
    /\ UNCHANGED <<attempts, query, retrieved, scores, graded, survivors, judged, answer, calls>>

-----------------------------------------------------------------------------
\* The critic

\* max(0.0, min(1.0, s)): every comparison with NaN is false, so min keeps 1.0.
Clamp(r) == IF r = NaN \/ r > Top THEN Top ELSE IF r < 0 THEN 0 ELSE r

\* Fault: passages the reply says nothing about count as fully relevant.
AlignedPaddedWithTop(reply) ==
    [k \in 1 .. retrieved |-> IF k \in DOMAIN reply THEN Clamp(reply[k]) ELSE Top]

\* Truncate or pad, so that the scores can be zipped with the passages.
Aligned(reply) ==
    [k \in 1 .. retrieved |-> IF k \in DOMAIN reply THEN Clamp(reply[k]) ELSE 0]

\* Nothing to score: no call is made.
ScoreNothing ==
    /\ pc = "score"
    /\ retrieved = 0
    /\ scores' = << >>
    /\ graded' = {}
    /\ Goto("route")
    /\ UNCHANGED <<attempts, query, retrieved, survivors, judged, answer, calls>>

ScoreReplies ==
    /\ pc = "score"
    /\ retrieved > 0
    /\ \E reply \in Reply :
          /\ scores' = Aligned(reply)
          /\ graded' = DOMAIN reply \cap 1 .. retrieved
    /\ Call
    /\ Goto("route")
    /\ UNCHANGED <<attempts, query, retrieved, survivors, judged, answer>>

\* A network error or a reply of the wrong shape: every passage scores zero.
ScoreFails ==
    /\ pc = "score"
    /\ retrieved > 0
    /\ scores' = [k \in 1 .. retrieved |-> 0]
    /\ graded' = {}
    /\ Call
    /\ Goto("route")
    /\ UNCHANGED <<attempts, query, retrieved, survivors, judged, answer>>

-----------------------------------------------------------------------------
\* Routing

\* categorise(): decided by the best score; no scores at all is incorrect.
Category ==
    IF \E k \in DOMAIN scores : scores[k] >= CorrectThreshold THEN "correct"
    ELSE IF \E k \in DOMAIN scores : scores[k] >= IncorrectThreshold THEN "ambiguous"
    ELSE "incorrect"

\* Fault: a passage exactly at the threshold is dropped.
SurvivorsStrict == {k \in DOMAIN scores : scores[k] > IncorrectThreshold}

\* The passages whose score reaches the incorrect threshold.
Survivors == {k \in DOMAIN scores : scores[k] >= IncorrectThreshold}

Accept ==
    /\ pc = "route"
    /\ Category # "incorrect"
    /\ survivors' = Survivors
    /\ Goto("generate")
    /\ UNCHANGED <<attempts, query, retrieved, scores, graded, judged, answer, calls>>

\* Fault: the query is rewritten even when no attempt is left.
RejectAlwaysRewriting ==
    /\ pc = "route"
    /\ Category = "incorrect"
    /\ Goto("reformulate")
    /\ UNCHANGED <<attempts, query, retrieved, scores, graded, survivors, judged, answer, calls>>

\* Rewrite the query only when an attempt is left.
Reject ==
    /\ pc = "route"
    /\ Category = "incorrect"
    /\ Goto(IF attempts <= MaxRetries THEN "reformulate" ELSE "retrieve")
    /\ UNCHANGED <<attempts, query, retrieved, scores, graded, survivors, judged, answer, calls>>

\* A failed or empty rewrite falls back to the user's question.
Reformulate ==
    /\ pc = "reformulate"
    /\ query' \in {"original", "rewritten"}
    /\ Call
    /\ Goto("retrieve")
    /\ UNCHANGED <<attempts, retrieved, scores, graded, survivors, judged, answer>>

\* The loop ends with an incorrect verdict: refuse, without generating.
Refuse ==
    /\ pc = "retrieve"
    /\ attempts > MaxRetries
    /\ answer' = "NO_INFO"
    /\ survivors' = {}
    /\ End("refused")
    /\ UNCHANGED <<attempts, query, retrieved, scores, graded, judged, calls>>

-----------------------------------------------------------------------------
\* The answer and the factuality gateway

\* Without passages generate_async refuses and makes no call; an empty
\* completion becomes the same refusal.
Generate ==
    /\ pc = "generate"
    /\ answer' \in IF survivors = {} THEN {"NO_INFO"} ELSE {"draft", "NO_INFO"}
    /\ calls' = IF survivors = {} THEN calls ELSE calls + 1
    /\ IF GatewayEnabled THEN Goto("verify") ELSE End("answered")
    /\ UNCHANGED <<attempts, query, retrieved, scores, graded, survivors, judged>>

GenerateRaises ==
    /\ pc = "generate"
    /\ survivors # {}
    /\ Raise
    /\ Call
    /\ UNCHANGED <<attempts, query, retrieved, scores, graded, survivors, judged, answer>>

\* Fault: only the labels that say so are unsupported.
UnsupportedAsNamed(labels) == labels \cap {"ungrounded", "contradicted"} # {}

\* A claim with an unknown label is taken to be ungrounded.
Unsupported(labels) == labels \cap {"ungrounded", "contradicted", "other"} # {}

\* The judge labels the claims of the draft; a reply that is not JSON, or has
\* no "claims", counts as no claims at all.
Verify ==
    /\ pc = "verify"
    /\ judged' \in SUBSET Label
    /\ IF Unsupported(judged') THEN Goto("regenerate") ELSE End("answered")
    /\ Call
    /\ UNCHANGED <<attempts, query, retrieved, scores, graded, survivors, answer>>

\* {"claims": null} and {"claims": 3} pass the parse and break the loop over
\* the claims, outside its try.
VerifyNotIterable ==
    /\ pc = "verify"
    /\ End("TypeError")
    /\ Call
    /\ UNCHANGED <<attempts, query, retrieved, scores, graded, survivors, judged, answer>>

VerifyRaises ==
    /\ pc = "verify"
    /\ Raise
    /\ Call
    /\ UNCHANGED <<attempts, query, retrieved, scores, graded, survivors, judged, answer>>

\* The one regeneration; its answer is not verified again.
Regenerate ==
    /\ pc = "regenerate"
    /\ answer' \in {"revised", "NO_INFO"}
    /\ Call
    /\ End("answered")
    /\ UNCHANGED <<attempts, query, retrieved, scores, graded, survivors, judged>>

RegenerateRaises ==
    /\ pc = "regenerate"
    /\ Raise
    /\ Call
    /\ UNCHANGED <<attempts, query, retrieved, scores, graded, survivors, judged, answer>>

-----------------------------------------------------------------------------
Step ==
    \/ Begin \/ RetrieveReturns \/ RetrieveRaises
    \/ ScoreNothing \/ ScoreReplies \/ ScoreFails
    \/ Accept \/ Reject \/ Reformulate \/ Refuse
    \/ Generate \/ GenerateRaises
    \/ Verify \/ VerifyNotIterable \/ VerifyRaises
    \/ Regenerate \/ RegenerateRaises

Stop == pc = "done" /\ UNCHANGED vars

Next == Step \/ Stop

\* Every awaited call returns or raises: the client has a timeout and a cap on
\* its retries (openai_client.py), and retrieval is a local query.
Spec == Init /\ [][Next]_vars /\ WF_vars(Step)

-----------------------------------------------------------------------------
\* Properties

\* Once the critic is done with a batch, it has one score for each passage, and
\* an answer is generated only from passages that a well-formed reply of the
\* critic graded: neither a failed critic nor a reply that is too short lets a
\* passage through.
OnlyGradedChunks ==
    /\ pc \in {"route", "generate"} => DOMAIN scores = 1 .. retrieved
    /\ survivors \subseteq graded

\* Generation always has passages to work on, and no passage that was dropped
\* scored as high as one that was kept: routing, which looks at the best score,
\* and filtering, which looks at each, agree at the thresholds.
BestChunksSurvive ==
    pc \in {"generate", "verify", "regenerate"} =>
        /\ survivors # {}
        /\ \A k \in survivors, j \in DOMAIN scores \ survivors : scores[j] < scores[k]

\* ADR-0007's cost bound: each attempt but the last costs a critic call and a
\* rewrite, the last one a critic call; a refusal generates nothing, and an
\* answer adds one generation, one verification and one regeneration at most.
CostBounded ==
    /\ calls <= 2 * MaxRetries + 4
    /\ outcome = "refused" => calls <= 2 * MaxRetries + 1

\* A draft in which the judge found a claim it did not call supported or
\* complementary is never what the run returns.
FlaggedNeverServed ==
    outcome = "answered" /\ ~ judged \subseteq {"grounded", "complementary"} =>
        answer # "draft"

\* Every run ends.
Terminates == <>(pc = "done")

\* The loop answers from evidence, with its draft unless the judge went against a
\* claim of it, or refuses after the last look.
Phase ==
    IF pc = "done" THEN IF outcome = "answered" THEN IF answer = "draft" THEN "answered" ELSE "replaced"
                        ELSE IF outcome = "refused" THEN "refused" ELSE "failed"
    ELSE IF pc \in {"retrieving", "score"} THEN "looking" ELSE "judged"

Abstract == INSTANCE GroundedAnswer WITH
    MaxLooks <- MaxRetries + 1,
    looks <- attempts,
    evidence <- {k \in DOMAIN scores : scores[k] >= IncorrectThreshold},
    flagged <- ~ judged \subseteq {"grounded", "complementary"},
    phase <- Phase

GroundedSpec == Abstract!Spec
=============================================================================
