----------------------------- MODULE JudgeCache -----------------------------
(***************************************************************************)
(* The judge calls of evaluation/metrics.py over the response cache of     *)
(* observability/llm_cache.py, a database that outlives every process and  *)
(* is shared by those that run at the same time.                           *)
(*                                                                         *)
(* A subject is everything that goes into the two prompts of a call: the   *)
(* metric, the question, the answer, and the context or reference.  Only   *)
(* get, the call itself and set can come between two processes, and set    *)
(* follows the reply without an await.                                     *)
(***************************************************************************)
EXTENDS Naturals, Sequences, FiniteSets, TLC

CONSTANTS
    Process,
    Model,
    Subject,
    Top,             \* the score 1.0; the grid is 0 .. Top
    Junk,            \* a reply that is no number
    NaN,             \* the reply "nan", which float() takes
    ReplyOf          \* what the judge may reply about each subject

ASSUME JudgeAssumption ==
    /\ Top \in Nat \ {0}
    /\ Junk \notin Nat /\ NaN \notin Nat
    /\ \A s \in Subject : ReplyOf[s] \subseteq Nat \cup {Junk, NaN}

VARIABLES
    rows,        \* llm_responses: a function from some keys to replies
    enabled,     \* settings.llm_cache_enabled of each process
    model,       \* settings.generation_model of each process
    call,        \* the judge call of each process
    stored,      \* history: keys that had a row when a process began
    repaid,      \* history: whether a process with a cache paid for one of them
    given        \* history: model, subject and score of every reply

judging == <<rows, enabled, model, call, stored, repaid, given>>

Level == 0 .. Top

NoCall == [state |-> "none", key |-> << >>, keep |-> FALSE, score |-> 0, paid |-> FALSE]

JudgeInit ==
    /\ rows = << >>
    /\ enabled = [p \in Process |-> FALSE]
    /\ model = [p \in Process |-> CHOOSE m \in Model : TRUE]
    /\ call = [p \in Process |-> NoCall]
    /\ stored = [p \in Process |-> {}]
    /\ repaid = [p \in Process |-> FALSE]
    /\ given = {}

-----------------------------------------------------------------------------
\* Fault: the model is left out of the key.
KeyAnyModel(m, subject) == <<CHOOSE other \in Model : TRUE, subject>>

\* make_key, without the digest.
Key(m, subject) == <<m, subject>>

\* float(), then min(1.0, ...) and max(0.0, ...): min keeps its first argument
\* against a NaN, so that "nan" scores 1.0.
Parse(reply) ==
    CASE reply = Junk -> 0
      [] reply = NaN -> Top
      [] OTHER -> IF reply > Top THEN Top ELSE reply

\* LLMResponseCache.get and set.
Cached(key) == key \in DOMAIN rows
Put(key, reply) == rows' = [k \in DOMAIN rows \cup {key} |-> IF k = key THEN reply ELSE rows[k]]

\* Fault: every call asks the model anew, and only the reply goes to the cache.
AskWithoutLookUp(p, subject) ==
    /\ call[p].state = "none"
    /\ call' = [call EXCEPT ![p] = [state |-> "asked", key |-> <<model[p], subject>>,
                                    keep |-> enabled[p], score |-> 0, paid |-> FALSE]]
    /\ UNCHANGED <<rows, enabled, model, stored, repaid, given>>

\* _llm_raw_async up to the await: the row, if there is one and the cache is on.
Ask(p, subject) ==
    LET key == Key(model[p], subject)
        hit == enabled[p] /\ Cached(key)
    IN  /\ call[p].state = "none"
        /\ call' = [call EXCEPT ![p] =
                       [state |-> IF hit THEN "scored" ELSE "asked", key |-> <<model[p], subject>>,
                        keep |-> enabled[p], score |-> IF hit THEN Parse(rows[key]) ELSE 0, paid |-> FALSE]]
        /\ UNCHANGED <<rows, enabled, model, stored, repaid, given>>

\* The reply: usage is recorded, and the row is written, over one that another
\* process has written meanwhile.
Replies(p) ==
    LET key == Key(call[p].key[1], call[p].key[2])
    IN  /\ call[p].state = "asked"
        /\ \E reply \in ReplyOf[call[p].key[2]] :
              /\ IF call[p].keep THEN Put(key, reply) ELSE UNCHANGED rows
              /\ call' = [call EXCEPT ![p].state = "scored", ![p].score = Parse(reply), ![p].paid = TRUE]
              /\ given' = given \cup {Append(call[p].key, Parse(reply))}
        /\ repaid' = [repaid EXCEPT ![p] = @ \/ (call[p].keep /\ call[p].key \in stored[p])]
        /\ UNCHANGED <<enabled, model, stored>>

\* The call raises, after the client's own retries.
JudgeRaises(p) ==
    /\ call[p].state = "asked"
    /\ call' = [call EXCEPT ![p].state = "raised"]
    /\ UNCHANGED <<rows, enabled, model, stored, repaid, given>>

\* What a caller does with the outcome: the call is over.
Returned(p) ==
    /\ call' = [call EXCEPT ![p] = NoCall]
    /\ UNCHANGED <<rows, enabled, model, stored, repaid, given>>

=============================================================================
