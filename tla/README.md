# RAG Harness: TLA+ verification

The repository is a retrieval-augmented question-answering service over a Markdown corpus
(`src/src/rag_harness/`), with the pipeline that evaluates it and the scripts that maintain its
golden set (`src/scripts/`).  This directory holds TLA+ models of its stateful parts, the TLC
instances that check them, and TLAPS proofs of the main results.

    tlc -config Query.cfg MCQueryService      # any run: config, module (see "Runs")
    tlapm QueryServiceProofs.tla              # any proof module

## 1. The system

| component | code | state it keeps | operations |
|---|---|---|---|
| daily cap | `api/budget.py`, `api/middleware/daily_cap.py` | one counter and its UTC date, in the process under a lock or in Redis under a dated key | `check_and_increment`, `remaining`, roll-over at midnight |
| `POST /query` | `api/server.py` `query` | cache of retrievers, Prometheus counters, a usage list for each request, review queue file | cap, authentication, limits, retrieve and generate or corrective loop, capture, response |
| `POST /query/stream` and the page | `api/server.py` `query_stream`, `generation/generator.py` `generate_stream`, `api/static/app.js` | the generator's locals, frames under way, what the page shows | retrieve, stream deltas, citations, last frame; cancellation |
| corrective loop | `generation/corrective.py`, `critic.py`, `factuality.py`, `evaluation/claim_eval.py` | attempts, current query, scores | retrieve, score, route, rewrite, answer, verify, regenerate, refuse |
| tenants, keys and buckets | `config.py`, `api/auth.py` | settings, the limiter's windows | validate at start, resolve a key, bucket a caller |
| MCP server | `api/mcp_server.py` | a context variable | resolve the tenant in a middleware, query in a tool's task, over HTTP or stdio |
| review of candidates | `scripts/golden_review.py`, `evaluation/closed_loop.py` | queue file, golden files, a session's copy of the queue | present, accept, skip, flag, bulk skip, save; capture by the service |
| golden-set expansion | `scripts/expand_golden_set.py` | the same queue file, which it overwrites | sample, balance, draft, probe, deduplicate, write |
| ingest and index | `ingest/*`, `retrieval/bm25_store.py` | clone, embedding cache, vector collection, BM25 snapshot | check out, chunk, embed in concurrent batches, upsert; snapshot |
| retrieval strategies | `retrieval/*` | none beyond the indexes | dense, BM25, fusion, rerank, HyDE, decomposition |
| evaluation runner | `evaluation/runner.py`, `metrics.py`, `ablation.py`, `history.py`, `observability/llm_cache.py` | judge cache, run history file | evaluate each case, gate, append; one run or one for each configuration |
| judge audit | `evaluation/judge_audit.py` | the settings it overrides for a while | probes, re-tests with the cache off, scales, kappa, several models |
| side evaluations, human labels | `citation_eval.py`, `abstention_eval.py`, `security_eval.py`, `noise_eval.py`, `reference_free_eval.py`, `human_label.py`, `audit.py` | none of their own | probe the pipeline, grade the probes, agree with a person's labels |
| CLI, rendering, tracing, guardrails, deployment | `api/cli.py`, `scripts/*`, `observability/*`, `api/guardrails.py`, `deploy/*` | none of their own | |

Interactions.  A request passes the daily-cap middleware (which asks the budget), the
authentication dependency, the rate limit and the injection screen, and then runs on the event
loop; every `await` in it lets another request run.  Requests share the budget, the retriever
cache, the counters and the queue file.  Model calls, made directly, in threads or in nested
coroutines, record their usage in the list that a context variable points to in the context of the
running task, and the handler sums up the list it holds; the tenant of an MCP
request travels in another context variable.  A refusal is appended to the queue file, which a reviewer's session,
another process, loads once and rewrites after each decision, and which the expansion script
overwrites.  Accepted candidates go to the golden files that the evaluation runs over.  Evaluation
commands are processes of their own; they share one cache of judge replies and append to one
history file.  An ingest run, again another process, rewrites the collection a running service
searches, while the service's BM25 index stays what it was when its retriever was built.  Several
instances of the service share one Redis counter.

What is hard.  Threads and midnight inside the budget; two Redis commands that are not one; the
clock read twice; restarts that forget the counter; coroutines that share caches, counters and
context variables; a key that changes hands between two starts; exceptions that skip the code after
the `try`; a browser that leaves while the generator is suspended; model replies of the wrong
length, range or shape; files truncated before they are written, or cut off in the middle of a
line; several processes on one file or one cache; settings changed for a while and put back; an
index that is replaced slice by slice under a running query.  `PROJECT.json` lists each of these at
its line, with the properties that look at it.

## 2. Modules

| module | what it is | main correspondence |
|---|---|---|
| `DailyCap` | abstract: what a daily cap promises | an admission uses a slot of a day's allowance; a lost counter adds one `Cap` |
| `DailyAllowance` | what the two budgets below extend | the UTC days, the callers' control points, the account of each day |
| `DailyBudget` | the in-memory budget | `lock`, `day`, `count` are `_lock`, `_day`, `_count`; a call is split at lock, clock, roll-over, comparison, increment |
| `RedisDailyBudget` | the shared budget | `value` and `left` are a key's counter and time to live; `key` and `ttl` are the call's locals; one action per command and one per way it fails; its specification is `SharedSpec` |
| `GroundedAnswer` | abstract: look, judge, then answer from evidence or refuse after the last look; a flagged draft is replaced | |
| `Corrective` | `corrective_generate_async` with critic, generator and gateway | one action per awaited call and outcome, one per decision between |
| `QueryService` | concurrent `/query` requests | an action runs from one `await` to the next; `Respond` is everything after the last one; `lists` are the lists `collect_usage` made, `held` is each handler's `usage_list` and `context` is `_current_usage` in each task (`OpenBlock`, `CloseBlock`, `Paid`) |
| `StreamQuery` | one stream and the page reading it | an action runs to the next `await` or `yield`; `Cancel` is the `finally` block alone; `shown` is the text of the page's answer element |
| `Tenancy` | settings, keys and buckets under three ways in | `tenant` and `task` are the context variable in the request's task and in the tool's; `Stop` and `Start` change the settings |
| `GoldenReview` | the review session and the capturing service | `mem` is the session's list, `todo` the positions of `to_review`, `pos` the one presented; `queue` is the file; a write is a truncation, then the content |
| `Expansion` | extends it: the generator as a second writer of the queue | `pool`, `picks`, `jobs`, `drafts` are the locals of `generate_candidates`, `kept` is its result |
| `Ingest` | runs of `run_ingest_async`, one after another | `pc` is the loop a run is in, `pos` how far it has come; `call` is the state of each batch's task; `cache` and `index` survive a run |
| `RankFusion` | `reciprocal_rank_fusion` with exact fractions, and what a fusion must be | `Score`, `ChunkById` are the two dictionaries |
| `Retrieval` | extends both: one query by any strategy while ingest runs | `snapshot` is `BM25Store`'s list; `lists` is `ranked_lists`; `limited` says that the caller gave a `top_k` |
| `JudgeCache` | a judge call over the cache | `rows` is the table; a call is split at the look-up, the reply, and the score |
| `EvalRun` | extends it: `run_eval`, `run_ablation` and the history of concurrent processes | `lines` and `cut` are `runs.jsonl`; `results`, `scores` and `table` are the locals of the three loops |
| `JudgeStats` | shifts, flips, kappa and ratios over sequences of scores | exact: totals and fractions in place of means |
| `JudgeAudit` | extends both: what an audit and a matrix ask the judge, in order | an audit is a list of judge calls and of marks that change or restore settings |
| `SideProbes` | extends it: the other probes, human labels and the reliability audit; the composed specification | each command is a list of tasks; the reliability audit is a quality run followed by lists |
| `MC*` | values of constants that a `.cfg` cannot spell | |
| `*Proofs` | the theorems: `BudgetProofs` about both budgets, `GoldenReviewProofs` also about `Expansion`, `IngestProofs` also about `RankFusion` and `Retrieval`, `EvaluationProofs` about the chain that ends in `SideProbes` | |

`QueryService` does not repeat the budget or the corrective loop.  It instantiates `DailyCap`,
which both budgets implement, and lets the loop be what `GroundedAnswer` leaves visible of it:
calls, then an answer from evidence, a refusal, or a failure.  It takes a request's tenant as given;
`Tenancy` says how that is found.  `Retrieval` composes with `Ingest`, and `Expansion` with
`GoldenReview`, by extending it: the steps of each leave the other's variables alone, but for the
files they share.  The evaluation modules are a chain, `JudgeCache`, `EvalRun`, `JudgeAudit`,
`SideProbes`, whose last one has `Next`.

In each module the operators whose comment begins with "Fault:" are plausible bugs, used nowhere
in `Next`.  Each stands before the operator it would replace, and shows that a property of the
module can be broken.

### Abstractions

* Texts, scores and prices.  A passage is a position or a collection, a question a model value, a
  score a point of a small grid with NaN, a cost a number of calls.  `Similar` is any reflexive
  relation, since the ratio behind `is_duplicate` is neither symmetric nor transitive; so is `Twin`.
* `QueryService`: the kill switch is off, retrieval is dense, the injection screen is its verdict,
  and the rate limit is one of the ways to be turned away.  Each request runs in a task with a
  context of its own, as the server and the middleware start it, and the coroutines and threads of
  its model calls see that context.  The span collector is left out: it works as the usage list does.
* `RedisDailyBudget`: all instances have the same clock, which does not go back; Redis counts time
  at the clock's rate.  Ticks are finer than seconds, so that cutting to seconds is visible.
* `StreamQuery`: frames reach the page whole and in order, as TCP and the page's line buffer see
  to.
* `Tenancy`: a key stands for its digest, a tenant for its collection, and the sliding windows of
  the limiter for a window that may end at any time, and ends with the process.  With a `REDIS_URL`
  the windows are in Redis (`server.py:88`) and outlast a restart, which only carries refusals over to
  a bucket that was used up before it.  The three ways in are processes of their own;
  settings that no tenant depends on are left out.
* `GoldenReview`: a candidate is its question; an edited acceptance is a "yes"; the summary's list
  of touched files is left out.  `Lowercases` distinguishes the prompter of the terminal from
  prompters that hand over what was typed, as the tests' do.
* `Expansion`: what the model drafts from a chunk and what the probe of the index says of a question
  are constants; answers, evidence and the ids of candidates are left out.
* `Ingest`: a file is the sequence of its sections, each a text or one that is left out because it
  is empty or oversized; a vector is the text it embeds; a commit is what its files say.  git
  commands and single statements of the vector store are atomic, and the shallow clone of a branch
  is a full one.  Two ingest processes at a time are not modelled.
* `Retrieval`: the dense ranker, BM25 and the cross-encoder may put the chunks they see in any order,
  so the text of a query does not matter and HyDE's only effect is a call that may fail.  One
  retriever is built, once, as the service's cache of retrievers does.
* Evaluation: what the pipeline makes of a question is an outcome, the files and the answer.  A
  judge call is its subject, which is everything its prompts show.  A probe that only looks at
  answers is one task, since nothing it does between two answers touches what processes share.
  Latencies, tokens, spans, bootstrap intervals, means that only a report prints, the local open
  detector and the run over claims are left out.  A person edits the label file between two
  commands; the labels are what the second one finds.

## 3. Runs

| run | instance | states | shows |
|---|---|---|---|
| `daily_budget` | 2 threads, cap 2, 3 days, 2 restarts | 74,174 | no slot lost or doubled, no deadlock, refinement of `DailyCap` |
| `redis_budget` | 2 instances, cap 2, 2 days of 2 seconds of 2 ticks, 4 calls, 2 faults | 92,507 | refinement of `DailyCap`; no more counters stay without a time to live than there were faults |
| `corrective` | 3 passages, scores 0..4 with thresholds 2 and 3, 2 rewrites, gateway on | 452,896 | graded evidence only, best passages kept, cost bound, termination, refinement of `GroundedAnswer` |
| `query` | 2 requests, 3 tenants of which one has no collection, 2 questions, cap 1 shared, 2 days, one lost counter | 1,041,775 | isolation of passages and costs, metrics, queue, cap, every request answered |
| `stream` | up to 4 deltas | 13,246 | order of frames, one outcome counted, complete view, a last frame |
| `tenancy` | 3 requests over 3 ways in, 2 keys and a stranger's, 2 addresses, 6 environments of which 2 are invalid, quota 1 | 2.7 million | each request searches its own corpus and is refused only for what its own key or address did |
| `review` | 3 candidates in 2 categories, 2 sessions, capture, 1 crash, gaps in the numbers | 1,252,848 | the files agree, counts add up, numbers unique, decisions kept |
| `expansion` | 4 chunks of 2 topics, 6 questions in 4 categories, 1 run of the generator, 1 session, capture, 1 crash | 145,629 | the gate kept under a second writer, no candidate twice, fair share of topics |
| `retrieval` | 2 files, 2 commits and a branch, 2 ingest runs, batches of 1, 2 calls at a time, slices of 2, 1 fault; top 2 or no `top_k`, 2 sub-queries | 400,866 | the index cites the truth, a complete run is complete, texts are paid for again only if a reply was lost, passages are distinct, true and fairly fused |
| `evaluation` | 2 processes with 13 pairs of commands, 2 cases, 2 models, scores 0..2, 1 fault | 791,187 | scores are earned, nothing is paid for twice, the history loses at most a line, the ablation's table agrees with it, re-tests are fresh, kappa is fair, an "A" means it |

Violation runs, each with one property that a comment states and the code does not keep:
`review_progress` (a crash during a save loses what earlier saves persisted) and `cross_paired` (two
unanswerable cases in a row have the same reference, so the "guaranteed wrong" answer is right).
`PROJECT.json` quotes the text under "findings".

Why the bounds are enough.  *Budget*: two threads show every interleaving of a pair of critical
sections; three days let a call that read the first meet a counter that has moved on twice.
*Redis*: two instances and four calls create a key, fill a cap of two and overrun it; two faults
allow a lost reply followed by a crash; two ticks to the second is the smallest grid on which
cutting to seconds loses time.  *Corrective*: three passages give one kept and one dropped on
either side of a threshold with one to spare, five levels have a point below, at, between and above
the thresholds, and replies run from none to one too many, with values out of range.  The gateway
being off only ends runs earlier; the theorems cover both settings.  *Query*: each pair of
requests of the same or different tenants interleaves at every await.  The questions are
identical, similar one way, or unrelated in the other; a cap of one makes the second request meet
the cap, the lost counter or the failing store.  *Tenancy*: two requests show whether one's tenant
reaches the other's tool, and a third is refused after the bucket is full; the environments hold a
flat key, a key for each tenant, a key in two groups, a tenant without its collection, and a key
that changes hands.  Requests are interchangeable and the properties are invariants, so symmetry is
sound.  *Review*: two candidates of one category are what
a bulk skip needs, the third is captured meanwhile; two sessions re-review what one decided.
*Expansion*: three chunks of one topic and one of another are the smallest sample in which a turn
falls to an empty bucket; the questions resemble each other one way and not transitively, across
categories; one question for the unanswerable is answered by the corpus.
*Retrieval*: the second commit drops a section, so that an id changes its text and a tail is left
over; two files share a text, so that the cache is asked for it twice; three batches queue for a
semaphore of two; the last slice is not full; one failure or crash before the second run leaves any
prefix of the first.  Two sub-queries may see two states of the index, and their fusion holds more
than the top 2, so that it matters whether it is cut.  *Evaluation*: each kind of
command occurs, next to one that asks the same judge about the same subjects, or to nothing where
it is long; the pairs include an empty selection, a cache that is on in one process only, two
models, a human's blank labels, and an ablation whose first configuration fails.  One case is
answerable and one is not; the judge wavers where the code reads its reply differently.

Deadlock is checked for `daily_budget`, `corrective`, `tenancy` and `evaluation`, in which a finished
behaviour stutters or starts over.  The other systems stop: the bounded calls, requests, frames or
sessions are used up.

Fairness.  `Corrective`: `WF(Step)`, because every awaited call returns or raises: the client is
built with a timeout and a number of retries (`openai_client.py`), and retrieval is a local query.
`QueryService`: weak fairness of each request's `Serve`, because the event loop comes back to a
request whose await has completed; arrival is not fair.  `StreamQuery`: weak fairness of the
server and of the page's reading loop; leaving is not fair.  The other modules have safety
properties only: nothing promises that a person starts a command again, or ends a session.

Some properties are stated up to a limit that the code sets.  `CasesMatchRows`, `CountsAgree` and
`DecisionsKept` speak of reviews without a crash, because a crash between the golden file and the
queue, or during a save, breaks them; `NumbersUnique` and `GateKept` hold across crashes.
`EveryKeyExpires` allows one key without a time to live for each fault, because one failed `EXPIRE`,
one lost reply or one crash leaves a key for ever.  `ServedTrue` bounds the passages by
`retrieval_top_k`, and by that number for each sub-query where the caller gives no `top_k`.
`CountsAgree` is about reviews of pending candidates: in a
review of skipped ones a second skip counts both as skipped and as remaining.  After a
failed model call `CompleteView` asks only that the page ends with the refusal, which stands behind
the deltas that were already shown, and that no citations follow.  `LossBounded`
allows one intact run to be hidden by a line that was cut off, because the next append continues it.

## 4. Proofs

Every theorem holds for all values of the constants under the module's named assumption
(`AllowanceAssumption`, `RedisAssumption`, `ServiceAssumption`, ...), which TLC evaluates in the
runs.  The assumptions say what a caller of the code provides: sets of the right kind, bounds that
are numbers, a similarity that is reflexive, a first queue and a set of requests that are finite,
documents that are listed once.  A safety theorem follows one argument throughout: an inductive
invariant holds initially, every step preserves it, and it implies the property.

* `BudgetProofs`, in memory: `TypeCorrect`, `AllowanceTheorem`, `CounterTheorem`, `DayTheorem`,
  `ImplementsCap`.  The allowance alone is not inductive.  A thread between its comparison and its
  increment must be known to hold the lock (`OnlyHolderInside`), to have read a date no later than
  today and no earlier than the counter's (`DatesInOrder`), and to have a slot left
  (`SlotReserved`); days to come must still be untouched (`FutureUntouched`), so that a roll-over
  starts from a full allowance.
* `BudgetProofs`, in Redis: `SharedTypeCorrect`, `SharedAllowanceTheorem`, `SharedCounterTheorem`,
  `SharedImplementsCap`.  The strengthening relates a key's counter to the allowance of its date:
  what one life has granted and can still grant fits, and a dropped key starts a life with one more
  `Cap`.  For `ExpiryTheorem` a date is uncared for if its key has
  no time to live and no call is at work on it: a step without a fault adds no such date, since the
  call that created the key is still there to set its time to live, and a fault adds one at most.
* `CorrectiveProofs`: `TypeCorrect`, `GradedTheorem`, `BestTheorem`, `CostTheorem`,
  `FlaggedTheorem`, `ImplementsGrounded`.  The invariant keeps, per control point, the calls made so
  far as a function of the attempts, where the survivors come from, and which verdict is pending.
  `ImplementsGrounded` maps the abstract flag to a claim judged neither grounded nor complementary.
* `QueryServiceProofs`: `TenantTheorem`, because the cache holds under each key the retriever of
  the collection it is named after; `CostTheorem`, because the context of a
  request's task points to the list its handler holds for as long as it calls the model, and no two
  handlers hold the same list, so that a list has what its own request paid for and nothing else;
  `QueueTheorem`, because there is no await between
  the comparison with the queue and the append; `PaidTheorem`, because the slots spent on a day are
  no more than those admitted (a cardinality argument over the library's facts on finite sets).
  `MetricsTheorem`: three counters are the sizes of sets of requests, and a step moves one request
  into one of them; the token counter is a sum over the requests, and `SumAdds` says what one more
  summand does to it.  `ServiceTypes` adds the codes of the responses to these invariants.
* `StreamQueryProofs`: `OrderTheorem`, for any length of the answer and any failure; the invariant
  ties the last frame to the control point.  `CountTheorem`: nothing is counted, and no frame is a
  "done", before the generator is closed, and an error frame is followed by the `finally` block alone.
  `ViewTheorem`: the text the page shows is the concatenation of the token frames it has read, and
  those sent so far are the parts the generator has kept, one `yield` ahead at most; once an error is
  counted the refusal is the last token frame before the last frame.  `StreamTypes`
  needs that a completion which is arriving is consumed and not yet recorded.
* `TenancyProofs`: `TypeCorrect`; `Isolation`, because validated settings give a key at most one
  owner (`OneOwner`) and the context variable of a request's task is written by that request only;
  `FairRefusal`, because a bucket's window counts requests of one key or one address.
* `GoldenReviewProofs`: `GateTheorem`, over crashes and captures; the invariant says that a
  session about to write has the reviewer's yes for the candidate at its position.
  `GateOfExpansion`: the same while the generator overwrites the queue.  `NumbersTheorem`: the
  numbers of a file are bounded, so that they have a greatest one, and the next is above it.
  `ReviewTypes`, `DecisionsTheorem` (what a save replaces is what the session loaded, with its
  decisions and the service's captures), `CountsTheorem` (what is decided and what lies ahead of the
  loop make up `todo`; a bulk skip moves positions from one to the other before the loop gets there).
  `CasesTheorem` assumes that no session re-reviews accepted candidates: nothing in the code stops
  one, and it gives them a second case (section 5).  Each row of the session's list, and of the file
  between decisions, has the cases its status calls for, and a question stands in one row.
  `NoTwinsTheorem`: by induction over the drafts, what `_dedupe_candidates` has kept after each.
  `FairShareTheorem`: the order in which the round-robin takes chunks is a strict total order, so a
  chunk's position in it is the number of chunks before it and the positions are 0 to n - 1; the place
  of a chunk in its bucket bounds how many turns its topic has had; hence a topic with a chunk left
  has had at most one turn less than another.
* `IngestProofs`, ingest: `IndexTrueTheorem`, for any corpus: what a run carries from loop to loop,
  and every row of the cache, is true, and what is checked out is HEAD.  `IndexCurrentTheorem`: one
  invariant per loop says which chunks of the commit have got how far (`ReadInv`, `LookUpInv`,
  `EmbedInv`, `IndexInv`), and ids are unique within a commit (`OneEntry`), so that a slice cannot
  push an earlier one out.  `RerunsPayOnceTheorem`: a text that has been paid for and not lost is in
  the cache or on its way there, in a batch whose position is one of those the text has in the commit;
  so what was paid is at most the number of positions and of lost replies.  `IngestTypes`: the
  semaphore bounds the open calls (a cardinality over the batches), the index has one entry for each
  id, and each kept section becomes one chunk (`KeptText`).
* `IngestProofs`, retrieval: `RankFusionTheorem`, for any number of rankings of any length: a score is
  a sum of exact fractions that does not depend on the order of the rankings, a chunk that beats
  another in every ranking has the greater sum, and the sort puts it first.  `SearchIngests`: the
  retrievers change nothing of ingest, so its theorems hold while questions are answered.
  `ServedTheorem` and `FusedTheorem`: the snapshot and the lists of each stage are chunks of some
  commit, each id once, in whatever state of the index they were taken.  How many there are follows from the
  number of sub-queries still to come (`ProgressInv`) and from a fusion having no more chunks than its
  rankings together (`FuseBounded`).  `SearchTypes` puts the two
  together.
* `EvaluationProofs`, what is asked and recorded: `EarnedTheorem`.  A row of the cache, a line of the
  history, a result or a mark is what the judge said of its own subject, because the call a process
  has open asks exactly for what the process does with the reply.  The invariant says so of the call,
  of what the process has gathered, and of what the plan still lists (`EarnedInv`).
* `EvaluationProofs`, what is paid: `PaidOnceTheorem` and `RetestsTheorem`.  The invariant (`PaysInv`)
  follows the `finally` of `run_stability` through the rest of the plan: the cache is off
  exactly between an "off" and its "restore" (`Bracketed`, `Switched`), so a reply that is not a
  re-test is in the cache once paid for, and a re-test is never read from it.
* `EvaluationProofs`, what is left: `LossTheorem` (a history that lacks an intact run ended with a
  line that was cut off, and each cut hides one run at most: a torn last line is counted as owing the
  next append, `HiddenOnce`) and `TableTheorem` (the ablation's table has the configurations it recorded,
  in order; it ends with each of them tried, so that no more rows are missing than there were faults).
* `EvaluationProofs`, what the numbers mean: `GradeTheorem` (each of six or eight dimensions has at most
  2 points, so with one at 0 the sum is short of the nine tenths an "A" asks for) and `KappaTheorem`.
  Kappa depends on four counts, of which the proof writes agreement and chance as polynomials; the
  case without variance is apart.  That each judge verdict stands beside the person's label of the
  same item follows from what is left of the plan: the marks so far and the items to come are the
  labelled items, in order (`HumanInv`).

The evaluation's proofs use four assumptions.  `ScenarioAssumption`: a run lists its configurations
once each and has at least one, as the command calls `run_ablation` with its default lists and `run_eval` has one.
`EvalAssumption`: the cases are known ones, and an answer for which nothing was retrieved is a refusal, as in
the generator.  `AuditAssumption` and `ProbeAssumption`: the lists that a command walks are lists of the
right kind, and a process runs one of the commands there are.

A filter of a sequence that a proof speaks of is written `Among`, a recursive function over the positions: of
`SelectSeq` the provers know nothing but its name.

Sums, and what a recursive function computes, need an induction.  The library states induction for a
predicate given as an operator, which the provers here cannot instantiate; the modules above prove
it for a set of numbers instead (`Induction`, from the well-foundedness of the naturals), and each use
names the set.

Proved and not repeated by a run, because other checked properties say as much of the same
instance: the allowances of both budgets and the counter of the Redis one, which the refinement of
`DailyCap` implies, the order of days, and that no flagged draft is returned.

Only model-checked are the liveness properties, `Terminates`, `EveryRequestAnswered` and `Settles`: the
prover has no rule for fairness here.  Every invariant, action property and refinement that a passing run
checks is also a theorem, and so is every type invariant that a module states.

## 5. Where code and words differ

With a run: see "findings".  Met while modelling, without a run of their own:

* `api/server.py:400` appends the refusal after deltas that were already sent when the model fails in
  the middle of a stream (`OpenAIFails`); the comment at `:389` has the refusal mirror `/query`, whose
  answer is the refusal alone.
* `retrieval/base.py:23` has a retriever return the top_k most relevant chunks.  `decompose` cuts its
  fusion only if the caller gives a `top_k` (`retrieval/decomposition.py:97`), which `evaluation/runner.py:71`
  and `:76` do not: `run_eval` and `run_ablation` judge it on up to four times `retrieval_top_k` passages,
  and the other strategies on `retrieval_top_k` (`Answer`).
* `api/middleware/daily_cap.py:37` and the kill switch compare the path with `/query`;
  `/query/stream` spends no slot and ignores the switch (`Charged`, `Killed`), although ADR-0031:46
  has it go through the same guards.
* `api/budget.py:139` cuts the time to live to whole seconds, so a key may go just before midnight,
  and a second cap be granted of the day whose maximum `:112` states (`KeyExpires`).
* `evaluation/claim_eval.py:86` says a bad judge reply can never break a run; a reply whose
  `claims` is null or a number raises `TypeError` outside the `try` (`VerifyNotIterable`).
* `api/metrics.py:62` calls the token counter cumulative over what `/query` consumed; a request
  that raises after a paid call leaves its tokens out (`OtherFails` keeps `tokens`).
* `generation/generator.py:98` says the streaming generator mirrors `generate_async`; an empty
  completion is streamed as an empty answer where the other refuses (`Finish` with no parts).
* `api/budget.py:102` says the time to live keeps stale keys from accumulating; one fault between
  `INCR` and `EXPIRE` leaves a key for ever (`IncrReplyLost`, `ExpireFails`, `Crash`).
* `scripts/golden_review.py:254` offers "N" to skip the rest of a category; `:410` lower-cases what is
  typed, so that it cannot be reached from the terminal (`Action`).
* `scripts/golden_review.py:306` calls a review idempotent; `--only-status accepted` appends
  accepted candidates again under new numbers (`:311`).  `StatusChoice` leaves that value out.
* ADR-0020 has the service append candidates to the queue; a question captured while a session is
  open is overwritten by the session's next save (`EndSave`).
* ADR-0012:119 calls the queue idempotent; `scripts/expand_golden_set.py:504` overwrites rows that were
  decided (`EndWrite`), and a session that is open writes its own over the new ones.
* `scripts/expand_golden_set.py:330` takes an empty or rebuilding index for one without a hit, so an
  answerable question passes as unanswerable.
* `evaluation/metrics.py:175`: a judge that replies "nan" gives the best score, because `min(1.0, x)`
  keeps its first argument (`Parse`).
* `api/mcp_server.py:47` describes the report as that of the production configuration;
  `:125` returns the last entry of the history, whichever configuration it was of.
* `api/cli.py:466` says that reruns of the noise probe are cheap because it re-scores stable inputs;
  every answer is generated anew, and a new answer is a new key.
* `scripts/render_metrics_page.py:404` pairs configurations and intervals by length only.
* `ingest/corpus.py:7` calls the pinned ref the corpus's checksum; `config.py` also allows a branch,
  and then every run after the first indexes what the branch was when the clone was made: `fetch`
  moves no local branch, and `checkout` goes to it (`Checkout`).
* `ingest/loader.py:30` promises a clone if absent, then a checkout; after a crash between the two with
  HEAD at the pinned commit, every later run skips the checkout and fails (`LoadFails`).
* `ingest/indexer.py:39` calls the upsert idempotent, and it is; but a file that has lost sections
  keeps its old tail in the index.  `IndexCurrent` allows that, `IndexTrue` holds of the tail.

## 6. What is not modelled

* The command line, the rendered metrics page and the load check: argument parsing, printing and
  HTML around the commands that are modelled, with no state of their own.
* Tracing, pricing and logging: they observe.  The usage lists, whose mechanism the span
  collector repeats, are in `QueryService`.
* The injection screen and the citation parser: regular expressions, whose verdicts the models use.
* Markdown parsing and chunk boundaries, prompts, BM25 scores, vector distances and the cross-encoder:
  text and floating point.  The models quantify over what they may return.
* Bootstrap intervals, means and variances that a report prints and nothing decides on, and the run
  over claims (`evaluate_claims`), which is a loop over the verification `Corrective` models.
* Redis's `remaining()`, which only reads, and `reset()` and `clear_collection`, which tests use.
* Deployment files: the number of instances and the settings are constants of the models.

What would come next: two ingest processes at a time, and `QueryService` with the tenant found by
`Tenancy` in place of the one it takes as given.
