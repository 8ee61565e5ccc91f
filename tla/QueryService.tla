----------------------------- MODULE QueryService -----------------------------
(***************************************************************************)
(* POST /query (api/server.py): requests that share one event loop, one    *)
(* daily cap, one cache of retrievers, one set of metrics and one review   *)
(* queue.                                                                  *)
(*                                                                         *)
(* A step runs from one await to the next, so what the handler does after  *)
(* its last await is one step.  The daily cap is the abstract one, which   *)
(* both budgets implement, and the shared one lets a request through       *)
(* without a slot when Redis fails.  The kill switch is off.  Retrieval is *)
(* dense.  The corrective pipeline is what GroundedAnswer leaves visible   *)
(* of it: calls to the model, then an answer from evidence or a refusal,   *)
(* or a failure.                                                           *)
(***************************************************************************)
EXTENDS Naturals, Sequences, FiniteSets, Functions

CONSTANTS
    Request,       \* the requests of a behaviour, each made once
    Tenant,        \* tenants that may sign a request
    NoTenant,      \* no credential, or one that no tenant owns
    Collection,    \* corpora in the vector store
    NoCollection,  \* no passages
    CollectionOf,  \* TenantContext.collection of each tenant
    Provisioned,   \* collections that exist
    Question,
    NoQuestion,    \* the body has not been read
    Similar,       \* pairs <<new, queued>> that the similarity ratio calls duplicates
    ClosedLoop,    \* closed_loop_enabled
    Cap, LastDay,  \* the daily cap, and the bound on days
    SharedBudget,  \* redis_url is set: the cap is kept in Redis
    NoSlot,        \* the day of a request that spent no slot
    MaxAllowance,  \* bound: slots of a day, lost counters included
    MaxCalls       \* bound: calls of one corrective run

ASSUME ServiceAssumption ==
    /\ IsFiniteSet(Request)
    /\ NoTenant \notin Tenant
    /\ NoCollection \notin Collection
    /\ NoQuestion \notin Question
    /\ NoSlot \notin 0 .. LastDay
    /\ CollectionOf \in [Tenant -> Collection]
    /\ Provisioned \subseteq Collection
    /\ Similar \subseteq Question \X Question
    /\ \A q \in Question : <<q, q>> \in Similar
    /\ ClosedLoop \in BOOLEAN /\ SharedBudget \in BOOLEAN
    /\ Cap \in Nat /\ LastDay \in Nat /\ MaxAllowance \in Nat /\ MaxCalls \in Nat

VARIABLES
    today, admitted, allowance,   \* the daily cap
    pc,          \* the await each request is suspended at
    tenant,      \* who signed each request
    question,    \* what each request asks
    day,         \* the day whose slot each request spent
    calls,       \* history: model calls each request made
    lists,       \* the accumulators collect_usage made, each as its length, oldest first
    held,        \* usage_list: the accumulator each handler has of its block, 0 before it
    context,     \* _current_usage in the context of each request's task, 0 for None
    retrievers,  \* _retrievers: the collection each cached retriever reads
    source,      \* the collection a request's passages came from
    answer,      \* the answer each request returns
    status,      \* the HTTP status of each response, 0 before it
    cost,        \* cost_usd of each response, in calls
    missed,      \* history: requests whose capture failed
    total, errors, latencies, tokens,   \* the Prometheus counters
    queue        \* the review queue file, in the order it was written

capVars == <<today, admitted, allowance>>
inputVars == <<tenant, question, day>>
usageVars == <<lists, held, context>>
metrics == <<total, errors, latencies, tokens>>
resultVars == <<source, answer, status, cost, missed>>
vars == <<capVars, pc, inputVars, calls, usageVars, retrievers, resultVars, metrics, queue>>

TypeOK ==
    /\ pc \in [Request -> {"idle", "admitted", "retrieve", "generate", "correct", "responded"}]
    /\ tenant \in [Request -> Tenant \cup {NoTenant}]
    /\ question \in [Request -> Question \cup {NoQuestion}]
    /\ day \in [Request -> 0 .. LastDay \cup {NoSlot}]
    /\ calls \in [Request -> Nat]
    /\ lists \in Seq(Nat)
    /\ held \in [Request -> Nat] /\ context \in [Request -> Nat]
    /\ DOMAIN retrievers \subseteq Collection
    /\ \A k \in DOMAIN retrievers : retrievers[k] \in Provisioned
    /\ source \in [Request -> Collection \cup {NoCollection}]
    /\ answer \in [Request -> {"none", "text", "NO_INFO"}]
    /\ status \in [Request -> {0, 200, 401, 422, 429, 500}]
    /\ cost \in [Request -> Nat]
    /\ missed \subseteq Request
    /\ total \in Nat /\ errors \in Nat /\ latencies \in Nat /\ tokens \in Nat
    /\ queue \in Seq(Question)

Budget == INSTANCE DailyCap

Init ==
    /\ Budget!Init
    /\ pc = [r \in Request |-> "idle"]
    /\ tenant = [r \in Request |-> NoTenant]
    /\ question = [r \in Request |-> NoQuestion]
    /\ day = [r \in Request |-> NoSlot]
    /\ calls = [r \in Request |-> 0]
    /\ lists = << >>
    /\ held = [r \in Request |-> 0] /\ context = [r \in Request |-> 0]
    /\ retrievers = << >>
    /\ source = [r \in Request |-> NoCollection]
    /\ answer = [r \in Request |-> "none"]
    /\ status = [r \in Request |-> 0]
    /\ cost = [r \in Request |-> 0]
    /\ missed = {}
    /\ total = 0 /\ errors = 0 /\ latencies = 0 /\ tokens = 0
    /\ queue = << >>

Goto(r, where) == pc' = [pc EXCEPT ![r] = where]

\* A response without an answer.
RespondWith(r, code) ==
    /\ Goto(r, "responded")
    /\ status' = [status EXCEPT ![r] = code]

-----------------------------------------------------------------------------
\* The daily cap middleware

\* The middleware lets a request of tenant t through, on a slot of day d.
LetIn(r, t, d) ==
    /\ pc[r] = "idle"
    /\ tenant' = [tenant EXCEPT ![r] = t]
    /\ day' = [day EXCEPT ![r] = d]
    /\ Goto(r, "admitted")
    /\ UNCHANGED <<question, calls, usageVars, retrievers, resultVars, metrics, queue>>

\* Fault: the middleware asks for a slot and ignores the answer.
AdmitUnchecked(r, t) == LetIn(r, t, today) /\ UNCHANGED capVars

\* A slot is spent before anything is known of the request.
Admit(r, t) == LetIn(r, t, today) /\ Budget!Admit(today)

\* Redis failed: the shared budget lets the request through without a slot.
AdmitFailingOpen(r, t) == SharedBudget /\ LetIn(r, t, NoSlot) /\ UNCHANGED capVars

\* The cap is reached.  Slots may have been lost on the way there, with the
\* counter of an earlier process or with a reply of Redis.
CapReached(r) ==
    /\ pc[r] = "idle"
    /\ RespondWith(r, 429)
    /\ UNCHANGED <<capVars, inputVars, calls, usageVars, retrievers, source, answer, cost, missed,
                   metrics, queue>>

-----------------------------------------------------------------------------
\* collect_usage: a new list that the handler holds and its context points to

\* Fault: the current list is one variable of the process, not of the context.
OpenBlockShared(r) ==
    /\ lists' = Append(lists, 0)
    /\ held' = [held EXCEPT ![r] = Len(lists')]
    /\ context' = [s \in Request |-> Len(lists')]

\* The server runs each request in a task of its own, whose context is a copy
\* made when the task was created: setting the variable in one is not seen in
\* another.
OpenBlock(r) ==
    /\ lists' = Append(lists, 0)
    /\ held' = [held EXCEPT ![r] = Len(lists')]
    /\ context' = [context EXCEPT ![r] = Len(lists')]

\* The block is left, with or without an exception.  None encloses it.
CloseBlock(r) == context' = [context EXCEPT ![r] = 0]

\* n model calls of the task of a request return and record their usage, each in
\* the list its context points to, if there is one.
Paid(r, n) ==
    /\ calls' = [calls EXCEPT ![r] = @ + n]
    /\ lists' = IF context[r] = 0 THEN lists ELSE [lists EXCEPT ![context[r]] = @ + n]
    /\ UNCHANGED held

-----------------------------------------------------------------------------
\* From the dependencies to the first await of the handler

\* 401 without a tenant's key, unless the body is not even JSON; with one, the
\* body, the rate limit, the blank question or the injection screen may turn
\* the request away.
TurnAway(r) ==
    /\ pc[r] = "admitted"
    /\ \E code \in IF tenant[r] = NoTenant THEN {401, 422} ELSE {422, 429} : RespondWith(r, code)
    /\ UNCHANGED <<capVars, inputVars, calls, usageVars, retrievers, source, answer, cost, missed,
                   metrics, queue>>

\* Fault: the cache is keyed by the strategy alone.
CacheKeyStrategyOnly(collection) == CHOOSE c \in Collection : TRUE

\* The part of the cache key that varies: the strategy is one setting.
CacheKey(collection) == collection

\* _get_retriever finds a cached retriever, or a collection to build one for.
Usable(collection) ==
    CacheKey(collection) \in DOMAIN retrievers \/ collection \in Provisioned

Cached(collection) ==
    IF CacheKey(collection) \in DOMAIN retrievers THEN retrievers
    ELSE [k \in DOMAIN retrievers \cup {CacheKey(collection)} |->
             IF k = CacheKey(collection) THEN collection ELSE retrievers[k]]

Retriever(r) == retrievers[CacheKey(CollectionOf[tenant[r]])]

\* The handler has its question and its retriever, and enters its collectors.
Enter(r) ==
    /\ pc[r] = "admitted"
    /\ tenant[r] # NoTenant
    /\ Usable(CollectionOf[tenant[r]])
    /\ question' \in {[question EXCEPT ![r] = q] : q \in Question}
    /\ retrievers' = Cached(CollectionOf[tenant[r]])
    /\ \E path \in {"retrieve", "correct"} : Goto(r, path)
    /\ OpenBlock(r)
    /\ UNCHANGED <<capVars, tenant, day, calls, resultVars, metrics, queue>>

\* The collection does not exist: the request fails, nothing is cached, and no
\* other corpus is tried.
BuildFails(r) ==
    /\ pc[r] = "admitted"
    /\ tenant[r] # NoTenant
    /\ ~Usable(CollectionOf[tenant[r]])
    /\ RespondWith(r, 500)
    /\ UNCHANGED <<capVars, inputVars, calls, usageVars, retrievers, source, answer, cost, missed,
                   metrics, queue>>

-----------------------------------------------------------------------------
\* Usage, metrics, capture and the response

\* Fault: the similarity ratio is compared the wrong way round.
DuplicateReversed(q) == \E k \in DOMAIN queue : <<q, queue[k]>> \notin Similar

\* is_duplicate: close enough to a question in the queue file.
Duplicate(q) == \E k \in DOMAIN queue : <<q, queue[k]>> \in Similar

\* capture_query on a refusal; a failure to write is logged and swallowed.
Capture(r, reply) ==
    IF ClosedLoop /\ reply = "NO_INFO" /\ ~Duplicate(question[r])
      THEN \/ queue' = Append(queue, question[r]) /\ UNCHANGED missed
           \/ missed' = missed \cup {r} /\ UNCHANGED queue
      ELSE UNCHANGED <<queue, missed>>

\* The handler from its last await to the response: the pipeline returned reply
\* and passages from a collection, or raised an OpenAIError, which becomes a
\* refusal without passages.
Respond(r, reply, from) ==
    /\ latencies' = latencies + 1
    /\ total' = total + 1
    /\ CloseBlock(r)
    /\ Capture(r, reply)
    /\ tokens' = tokens + lists'[held[r]]
    /\ cost' = [cost EXCEPT ![r] = lists'[held[r]]]
    /\ source' = [source EXCEPT ![r] = from]
    /\ answer' = [answer EXCEPT ![r] = reply]
    /\ RespondWith(r, 200)
    /\ UNCHANGED <<capVars, inputVars, retrievers>>

-----------------------------------------------------------------------------
\* The pipeline

\* The query is embedded and the vector store, in a thread, returns passages
\* or none.
Retrieve(r) ==
    /\ pc[r] = "retrieve"
    /\ source' \in {[source EXCEPT ![r] = c] : c \in {Retriever(r), NoCollection}}
    /\ Paid(r, 1)
    /\ Goto(r, "generate")
    /\ UNCHANGED <<capVars, inputVars, context, retrievers, answer, status, cost, missed, metrics,
                   queue>>

\* Without passages the generator refuses without a call.
GenerateNothing(r) ==
    /\ pc[r] = "generate"
    /\ source[r] = NoCollection
    /\ Paid(r, 0)
    /\ Respond(r, "NO_INFO", NoCollection)
    /\ UNCHANGED errors

Generate(r) ==
    /\ pc[r] = "generate"
    /\ source[r] # NoCollection
    /\ Paid(r, 1)
    /\ \E reply \in {"text", "NO_INFO"} : Respond(r, reply, source[r])
    /\ UNCHANGED errors

\* The corrective loop calls the critic, the rewriter, the judge...
CorrectiveCall(r) ==
    /\ pc[r] = "correct"
    /\ calls[r] < MaxCalls
    /\ Paid(r, 1)
    /\ UNCHANGED <<capVars, pc, inputVars, context, retrievers, resultVars, metrics, queue>>

\* ... and returns an answer from evidence, or a refusal without passages.
Correct(r) ==
    /\ pc[r] = "correct"
    /\ Paid(r, 0)
    /\ \/ \E reply \in {"text", "NO_INFO"} : Respond(r, reply, Retriever(r))
       \/ Respond(r, "NO_INFO", NoCollection)
    /\ UNCHANGED errors

Working == {"retrieve", "generate", "correct"}

\* Fault: a failed path falls back to the other one, which may fail as well.
OpenAIFailsFallingBack(r) ==
    /\ pc[r] \in Working
    /\ Goto(r, IF pc[r] = "correct" THEN "retrieve" ELSE "correct")
    /\ UNCHANGED <<capVars, inputVars, calls, usageVars, retrievers, resultVars, metrics, queue>>

\* The model's client gives up: the answer is a refusal, with status 200.
OpenAIFails(r) ==
    /\ pc[r] \in Working
    /\ errors' = errors + 1
    /\ Paid(r, 0)
    /\ Respond(r, "NO_INFO", NoCollection)

\* Fault: the latency is observed only on success.
OtherFailsUntimed(r) ==
    /\ pc[r] \in Working
    /\ errors' = errors + 1
    /\ RespondWith(r, 500)
    /\ \E n \in {0, 1} : Paid(r, n)
    /\ CloseBlock(r)
    /\ UNCHANGED <<capVars, inputVars, retrievers, source, answer, cost, missed,
                   total, latencies, tokens, queue>>

\* Anything else is raised again after it is counted and timed.  The call in
\* progress may have been paid for, as when the vector store fails after the
\* query was embedded.
OtherFails(r) ==
    /\ pc[r] \in Working
    /\ errors' = errors + 1
    /\ latencies' = latencies + 1
    /\ RespondWith(r, 500)
    /\ \E n \in {0, 1} : Paid(r, n)
    /\ CloseBlock(r)
    /\ UNCHANGED <<capVars, inputVars, retrievers, source, answer, cost, missed,
                   total, tokens, queue>>

-----------------------------------------------------------------------------
Midnight ==
    /\ Budget!Midnight
    /\ UNCHANGED <<pc, inputVars, calls, usageVars, retrievers, resultVars, metrics, queue>>

CounterLost ==
    /\ allowance[today] + Cap <= MaxAllowance
    /\ Budget!CounterLost(today)
    /\ UNCHANGED <<pc, inputVars, calls, usageVars, retrievers, resultVars, metrics, queue>>

Arrive(r) ==
    \/ \E t \in Tenant \cup {NoTenant} : Admit(r, t) \/ AdmitFailingOpen(r, t)
    \/ CapReached(r)

Serve(r) ==
    \/ TurnAway(r) \/ Enter(r) \/ BuildFails(r)
    \/ Retrieve(r) \/ GenerateNothing(r) \/ Generate(r)
    \/ CorrectiveCall(r) \/ Correct(r)
    \/ OpenAIFails(r) \/ OtherFails(r)

Next ==
    \/ \E r \in Request : Arrive(r) \/ Serve(r)
    \/ Midnight
    \/ CounterLost

\* Every await of a request in progress returns or raises, so the event loop
\* comes back to it.  Nothing makes a request arrive.
Spec == Init /\ [][Next]_vars /\ \A r \in Request : WF_vars(Serve(r))

-----------------------------------------------------------------------------
\* Properties

\* A response never carries passages of another tenant's collection, whichever
\* request built or cached the retriever (ADR-0025).
TenantIsolation ==
    \A r \in Request : source[r] # NoCollection => source[r] = CollectionOf[tenant[r]]

\* The cost a response reports is the cost of the calls its own request made,
\* all of them: what they recorded went into the list that its handler holds,
\* however the requests' awaits, and the blocks they open and leave, interleave.
CostIsolation == \A r \in Request : status[r] = 200 => cost[r] = calls[r]

\* The counters agree with the responses: each request that entered the
\* pipeline is timed once, and is processed or failed, never both; each paid
\* call of a processed request is in the token counter once.
Served == {r \in Request : status[r] = 200}
Crashed == {r \in Request : status[r] = 500 /\ CollectionOf[tenant[r]] \in Provisioned}

MetricsAgree ==
    /\ total = Cardinality(Served)
    /\ latencies = Cardinality(Served \cup Crashed)
    /\ errors >= Cardinality(Crashed)
    /\ tokens = FoldFunction(+, 0, cost)

\* The review queue stands for the refusals, once each, though requests with the
\* same question run at the same time: it holds no near-duplicates, and each
\* refused question, or one it duplicates, is in it unless writing it failed.
QueueExact ==
    /\ \A j, k \in DOMAIN queue : j < k => <<queue[k], queue[j]>> \notin Similar
    /\ \A r \in Request :
          ClosedLoop /\ answer[r] = "NO_INFO" /\ r \notin missed =>
              \E k \in DOMAIN queue : <<question[r], queue[k]>> \in Similar

\* Model calls are made only by requests that spent a slot or that a failing
\* store let through, so the others of a day that cost money are within its
\* allowance.
PaidWithinAllowance ==
    /\ \A d \in 0 .. LastDay :
          Cardinality({r \in Request : calls[r] > 0 /\ day[r] = d}) <= allowance[d]
    /\ \A r \in Request : calls[r] > 0 /\ day[r] = NoSlot => SharedBudget

\* Every request that is let in gets a response: however requests overlap, there
\* is again and again a moment when none is in progress, and one that was can
\* have left only for its response.
EveryRequestAnswered == []<>(\A r \in Request : pc[r] \in {"idle", "responded"})
=============================================================================
