-------------------------- MODULE QueryServiceProofs --------------------------
(***************************************************************************)
(* Proofs about concurrent /query requests, for any number of requests,    *)
(* tenants and collections: a response carries only its own tenant's       *)
(* passages and reports only its own request's cost, the review queue      *)
(* stands for each refusal once, paid calls stay within the day's          *)
(* allowance, and the metrics agree with the responses.                    *)
(***************************************************************************)
EXTENDS QueryService, FiniteSetTheorems, WellFoundedInduction, TLAPS

-----------------------------------------------------------------------------
\* Isolation of tenants

Await == {"idle", "admitted", "responded"} \cup Working

\* The functions the invariant is about.
Fields ==
    /\ tenant \in [Request -> Tenant \cup {NoTenant}]
    /\ source \in [Request -> Collection \cup {NoCollection}]
    /\ pc \in [Request -> Await]

\* A cached retriever reads the collection it is cached for.
CacheKeyed == \A k \in DOMAIN retrievers : retrievers[k] = k

\* A request in the pipeline has a tenant, whose retriever is cached.
HasRetriever ==
    \A r \in Request : pc[r] \in Working =>
        tenant[r] \in Tenant /\ CollectionOf[tenant[r]] \in DOMAIN retrievers

\* A request that has not been admitted carries no passages.
NothingBeforeAdmission == \A r \in Request : pc[r] = "idle" => source[r] = NoCollection

IsolationInv ==
    /\ Fields
    /\ CacheKeyed
    /\ HasRetriever
    /\ NothingBeforeAdmission
    /\ TenantIsolation

\* The retriever a request in the pipeline finds reads its tenant's collection.
LEMMA RetrieverOwn ==
    ASSUME IsolationInv, NEW r \in Request, pc[r] \in Working
    PROVE  Retriever(r) = CollectionOf[tenant[r]] /\ Retriever(r) \in Collection
<1>1. tenant[r] \in Tenant /\ CollectionOf[tenant[r]] \in DOMAIN retrievers
  BY DEF IsolationInv, HasRetriever
<1>2. retrievers[CollectionOf[tenant[r]]] = CollectionOf[tenant[r]]
  BY <1>1 DEF IsolationInv, CacheKeyed
<1>3. CollectionOf[tenant[r]] \in Collection
  BY <1>1, ServiceAssumption DEF ServiceAssumption
<1> QED
  BY <1>2, <1>3 DEF Retriever, CacheKey

\* A step that moves one request to its response, or to another await, and
\* changes its passages to none or to its tenant's, keeps the invariant.
LEMMA MoveKeeps ==
    ASSUME IsolationInv,
           NEW r \in Request, NEW where \in Await, where # "idle",
           NEW from \in Collection \cup {NoCollection},
           pc' = [pc EXCEPT ![r] = where],
           where \in Working => pc[r] \in Working,
           source' = [source EXCEPT ![r] = from],
           from # NoCollection => from = CollectionOf[tenant[r]],
           UNCHANGED <<tenant, retrievers>>
    PROVE  IsolationInv'
<1>1. Fields'
  BY DEF IsolationInv, Fields
<1>2. CacheKeyed'
  BY DEF IsolationInv, CacheKeyed
<1>3. HasRetriever'
  <2> SUFFICES ASSUME NEW s \in Request, pc'[s] \in Working
               PROVE  tenant[s] \in Tenant /\ CollectionOf[tenant[s]] \in DOMAIN retrievers
    BY DEF HasRetriever, Working
  <2>1. pc[s] \in Working
    BY DEF IsolationInv, Fields
  <2> QED
    BY <2>1 DEF IsolationInv, HasRetriever
<1>4. NothingBeforeAdmission'
  BY DEF IsolationInv, Fields, NothingBeforeAdmission
<1>5. TenantIsolation'
  BY DEF IsolationInv, Fields, TenantIsolation
<1> QED
  BY <1>1, <1>2, <1>3, <1>4, <1>5 DEF IsolationInv

\* The same for a step that leaves the passages alone.
LEMMA StayKeeps ==
    ASSUME IsolationInv,
           NEW r \in Request, NEW where \in Await, where # "idle",
           pc' = [pc EXCEPT ![r] = where],
           where \in Working => pc[r] \in Working,
           UNCHANGED <<tenant, retrievers, source>>
    PROVE  IsolationInv'
<1>1. source' = [source EXCEPT ![r] = source[r]]
  BY DEF IsolationInv, Fields
<1>2. source[r] \in Collection \cup {NoCollection}
  BY DEF IsolationInv, Fields
<1>3. source[r] # NoCollection => source[r] = CollectionOf[tenant[r]]
  BY DEF IsolationInv, TenantIsolation
<1> QED
  BY <1>1, <1>2, <1>3, MoveKeeps

LEMMA IsolationInit == Init => IsolationInv
  BY DEF Init, IsolationInv, Fields, CacheKeyed, HasRetriever, NothingBeforeAdmission,
         TenantIsolation, Working, Await

\* Admission gives a request its tenant before it has passages.
LEMMA LetInKeeps ==
    ASSUME IsolationInv, NEW r \in Request, NEW t \in Tenant \cup {NoTenant},
           NEW d, LetIn(r, t, d)
    PROVE  IsolationInv'
<1>1. /\ pc[r] = "idle"
      /\ tenant' = [tenant EXCEPT ![r] = t]
      /\ pc' = [pc EXCEPT ![r] = "admitted"]
      /\ UNCHANGED <<retrievers, source>>
  BY DEF LetIn, Goto, resultVars
<1>2. Fields'
  BY <1>1 DEF IsolationInv, Fields, Await
<1>3. CacheKeyed'
  BY <1>1 DEF IsolationInv, CacheKeyed
<1>4. HasRetriever'
  BY <1>1 DEF IsolationInv, Fields, HasRetriever, Working
<1>5. source[r] = NoCollection
  BY <1>1 DEF IsolationInv, NothingBeforeAdmission
<1>6. NothingBeforeAdmission'
  BY <1>1 DEF IsolationInv, Fields, NothingBeforeAdmission
<1>7. TenantIsolation'
  BY <1>1, <1>5 DEF IsolationInv, Fields, TenantIsolation
<1> QED
  BY <1>2, <1>3, <1>4, <1>6, <1>7 DEF IsolationInv

\* A retriever is cached for the collection it reads, and none is evicted.
LEMMA EnterKeeps ==
    ASSUME IsolationInv, NEW r \in Request, Enter(r)
    PROVE  IsolationInv'
<1> DEFINE own == CollectionOf[tenant[r]]
<1>1. /\ tenant[r] \in Tenant
      /\ retrievers' = Cached(own)
      /\ UNCHANGED <<tenant, source>>
  BY DEF Enter, inputVars, resultVars, IsolationInv, Fields
<1>2. PICK path \in {"retrieve", "correct"} : pc' = [pc EXCEPT ![r] = path]
  BY DEF Enter, Goto
<1> path \in Await
  BY DEF Await, Working
<1>3. own \in DOMAIN retrievers' /\ DOMAIN retrievers \subseteq DOMAIN retrievers'
  BY <1>1 DEF Cached, CacheKey
<1>4. Fields'
  BY <1>1, <1>2 DEF IsolationInv, Fields
<1>5. CacheKeyed'
  BY <1>1 DEF Cached, CacheKey, IsolationInv, CacheKeyed
<1>6. HasRetriever'
  BY <1>1, <1>2, <1>3 DEF IsolationInv, Fields, HasRetriever
<1>7. NothingBeforeAdmission'
  BY <1>1, <1>2 DEF IsolationInv, Fields, NothingBeforeAdmission
<1>8. TenantIsolation'
  BY <1>1 DEF IsolationInv, TenantIsolation
<1> QED
  BY <1>4, <1>5, <1>6, <1>7, <1>8 DEF IsolationInv

\* A response carries the passages handed to it.
LEMMA RespondKeeps ==
    ASSUME IsolationInv, NEW r \in Request, NEW reply,
           NEW from \in Collection \cup {NoCollection},
           from # NoCollection => from = CollectionOf[tenant[r]],
           Respond(r, reply, from)
    PROVE  IsolationInv'
<1>1. /\ pc' = [pc EXCEPT ![r] = "responded"]
      /\ source' = [source EXCEPT ![r] = from]
      /\ UNCHANGED <<tenant, retrievers>>
  BY DEF Respond, RespondWith, Goto, inputVars
<1>2. "responded" \in Await /\ "responded" \notin Working
  BY DEF Await, Working
<1> QED
  BY <1>1, <1>2, MoveKeeps

\* A step that leaves everything the invariant is about as it is.
LEMMA StutterKeeps ==
    ASSUME IsolationInv, UNCHANGED <<pc, tenant, source, retrievers>>
    PROVE  IsolationInv'
  BY DEF IsolationInv, Fields, CacheKeyed, HasRetriever, NothingBeforeAdmission,
         TenantIsolation

\* Turned away or failed: a response without passages of its own.
LEMMA RefusedKeeps ==
    ASSUME IsolationInv, NEW r \in Request, NEW code, RespondWith(r, code),
           UNCHANGED <<tenant, retrievers, source>>
    PROVE  IsolationInv'
<1>1. pc' = [pc EXCEPT ![r] = "responded"]
  BY DEF RespondWith, Goto
<1>2. "responded" \in Await /\ "responded" \notin Working
  BY DEF Await, Working
<1> QED
  BY <1>1, <1>2, StayKeeps

\* The steps of the pipeline.
LEMMA PipelineKeeps ==
    ASSUME IsolationInv, NEW r \in Request,
           \/ Retrieve(r) \/ GenerateNothing(r) \/ Generate(r)
           \/ CorrectiveCall(r) \/ Correct(r) \/ OpenAIFails(r) \/ OtherFails(r)
    PROVE  IsolationInv'
<1>1. CASE Retrieve(r)
  <2>1. pc[r] \in Working
    BY <1>1 DEF Retrieve, Working
  <2>2. Retriever(r) = CollectionOf[tenant[r]] /\ Retriever(r) \in Collection
    BY <2>1, RetrieverOwn
  <2>3. PICK c \in {Retriever(r), NoCollection} : source' = [source EXCEPT ![r] = c]
    BY <1>1 DEF Retrieve
  <2>4. pc' = [pc EXCEPT ![r] = "generate"] /\ UNCHANGED <<tenant, retrievers>>
    BY <1>1 DEF Retrieve, Goto, inputVars
  <2>5. "generate" \in Await
    BY DEF Await, Working
  <2> QED
    BY <2>1, <2>2, <2>3, <2>4, <2>5, MoveKeeps
<1>2. CASE GenerateNothing(r)
  BY <1>2, RespondKeeps DEF GenerateNothing
<1>3. CASE Generate(r)
  <2>1. source[r] \in Collection /\ source[r] = CollectionOf[tenant[r]]
    BY <1>3 DEF Generate, IsolationInv, Fields, TenantIsolation
  <2>2. PICK reply \in {"text", "NO_INFO"} : Respond(r, reply, source[r])
    BY <1>3 DEF Generate
  <2> QED
    BY <2>1, <2>2, RespondKeeps
<1>4. CASE CorrectiveCall(r)
  BY <1>4, StutterKeeps DEF CorrectiveCall, inputVars, resultVars
<1>5. CASE Correct(r)
  <2>1. pc[r] \in Working
    BY <1>5 DEF Correct, Working
  <2>2. Retriever(r) = CollectionOf[tenant[r]] /\ Retriever(r) \in Collection
    BY <2>1, RetrieverOwn
  <2>3. PICK reply \in {"text", "NO_INFO"}, from \in {Retriever(r), NoCollection} :
          Respond(r, reply, from)
    BY <1>5 DEF Correct
  <2> QED
    BY <2>2, <2>3, RespondKeeps
<1>6. CASE OpenAIFails(r)
  BY <1>6, RespondKeeps DEF OpenAIFails
<1>7. CASE OtherFails(r)
  <2>1. RespondWith(r, 500) /\ UNCHANGED <<tenant, retrievers, source>>
    BY <1>7 DEF OtherFails, inputVars
  <2> QED
    BY <2>1, RefusedKeeps
<1> QED
  BY <1>1, <1>2, <1>3, <1>4, <1>5, <1>6, <1>7

LEMMA IsolationNext == IsolationInv /\ [Next]_vars => IsolationInv'
<1> SUFFICES ASSUME IsolationInv, [Next]_vars PROVE IsolationInv'
  OBVIOUS
<1>1. ASSUME NEW r \in Request, NEW t \in Tenant \cup {NoTenant},
             Admit(r, t) \/ AdmitFailingOpen(r, t)
      PROVE  IsolationInv'
  <2>1. PICK d \in {today, NoSlot} : LetIn(r, t, d)
    BY <1>1 DEF Admit, AdmitFailingOpen
  <2> QED
    BY <2>1, LetInKeeps
<1>2. ASSUME NEW r \in Request, CapReached(r) PROVE IsolationInv'
  <2>1. RespondWith(r, 429) /\ UNCHANGED <<tenant, retrievers, source>>
    BY <1>2 DEF CapReached, inputVars
  <2> QED
    BY <2>1, RefusedKeeps
<1>3. ASSUME NEW r \in Request, TurnAway(r) PROVE IsolationInv'
  <2>1. PICK code \in {401, 422, 429} : RespondWith(r, code)
    BY <1>3 DEF TurnAway
  <2>2. UNCHANGED <<tenant, retrievers, source>>
    BY <1>3 DEF TurnAway, inputVars
  <2> QED
    BY <2>1, <2>2, RefusedKeeps
<1>4. ASSUME NEW r \in Request, Enter(r) PROVE IsolationInv'
  BY <1>4, EnterKeeps
<1>5. ASSUME NEW r \in Request, BuildFails(r) PROVE IsolationInv'
  <2>1. RespondWith(r, 500) /\ UNCHANGED <<tenant, retrievers, source>>
    BY <1>5 DEF BuildFails, inputVars
  <2> QED
    BY <2>1, RefusedKeeps
<1>6. ASSUME Midnight PROVE IsolationInv'
  BY <1>6, StutterKeeps DEF Midnight, inputVars, resultVars
<1>7. ASSUME CounterLost PROVE IsolationInv'
  BY <1>7, StutterKeeps DEF CounterLost, inputVars, resultVars
<1>8. CASE UNCHANGED vars
  BY <1>8, StutterKeeps DEF vars, inputVars, resultVars
<1> QED
  BY <1>1, <1>2, <1>3, <1>4, <1>5, <1>6, <1>7, <1>8, PipelineKeeps DEF Next, Arrive, Serve

\* No response carries passages of another tenant's collection, for any number
\* of requests, tenants and collections (server.py _get_retriever, ADR-0025).
THEOREM TenantTheorem == Spec => []TenantIsolation
<1>1. IsolationInv => TenantIsolation
  BY DEF IsolationInv
<1> QED
  BY <1>1, IsolationInit, IsolationNext, PTL DEF Spec

-----------------------------------------------------------------------------
\* Cost

\* While a request's block is open, its handler's list is the one its context
\* points to, is no other request's, and holds the usage of exactly its calls.
OwnList ==
    /\ \A r \in Request : held[r] <= Len(lists)
    /\ \A r, s \in Request : held[r] # 0 /\ held[r] = held[s] => r = s
    /\ \A r \in Request : pc[r] \in Working =>
          held[r] # 0 /\ context[r] = held[r] /\ lists[held[r]] = calls[r]

\* Nothing is called before the block is opened.
NothingBeforeBlock ==
    \A r \in Request : pc[r] \in {"idle", "admitted"} => calls[r] = 0

\* With them, the cost of a response was read after the last call.
CostInv ==
    /\ pc \in [Request -> Await]
    /\ calls \in [Request -> Nat]
    /\ lists \in Seq(Nat)
    /\ held \in [Request -> Nat]
    /\ context \in [Request -> Nat]
    /\ cost \in [Request -> Nat]
    /\ status \in [Request -> Nat]
    /\ \A r \in Request : status[r] = 200 => pc[r] = "responded"
    /\ OwnList
    /\ NothingBeforeBlock
    /\ CostIsolation

LEMMA CostInit == Init => CostInv
  BY DEF Init, CostInv, OwnList, NothingBeforeBlock, CostIsolation, Await, Working

\* The calls of a request lengthen the list its handler holds, and no other list.
LEMMA PaidOwn ==
    ASSUME CostInv, NEW r \in Request, pc[r] \in Working, NEW n \in Nat, Paid(r, n)
    PROVE  /\ calls' = [calls EXCEPT ![r] = @ + n] /\ calls' \in [Request -> Nat]
           /\ held' = held /\ held[r] \in 1 .. Len(lists)
           /\ lists' \in Seq(Nat) /\ Len(lists') = Len(lists)
           /\ lists'[held[r]] = calls'[r]
           /\ \A s \in Request \ {r} : held[s] # 0 => lists'[held[s]] = lists[held[s]]
<1>1. /\ held[r] \in 1 .. Len(lists) /\ context[r] = held[r] /\ lists[held[r]] = calls[r]
      /\ \A s \in Request \ {r} : held[s] # 0 => held[s] \in 1 .. Len(lists) /\ held[s] # held[r]
  BY DEF CostInv, OwnList
<1>2. lists' = [lists EXCEPT ![held[r]] = @ + n]
  BY <1>1 DEF Paid
<1>3. lists' \in Seq(Nat) /\ Len(lists') = Len(lists)
  BY <1>1, <1>2 DEF CostInv
<1>4. calls' = [calls EXCEPT ![r] = @ + n] /\ calls' \in [Request -> Nat] /\ held' = held
  BY DEF Paid, CostInv
<1>5. lists'[held[r]] = calls'[r]
  BY <1>1, <1>2, <1>4 DEF CostInv
<1>6. \A s \in Request \ {r} : held[s] # 0 => lists'[held[s]] = lists[held[s]]
  BY <1>1, <1>2 DEF CostInv
<1> QED
  BY <1>1, <1>3, <1>4, <1>5, <1>6

\* A call whose request then awaits again, its block still open.
LEMMA CallKeeps ==
    ASSUME CostInv, NEW r \in Request, NEW n \in Nat, Paid(r, n),
           pc[r] \in Working, NEW where \in Working,
           pc' = [pc EXCEPT ![r] = where], UNCHANGED <<context, cost, status>>
    PROVE  CostInv'
<1>1. pc[r] # "responded" /\ where \in Await
  BY DEF Working, Await
<1>2. status[r] # 200
  BY <1>1 DEF CostInv
<1>3. /\ calls' = [calls EXCEPT ![r] = @ + n] /\ calls' \in [Request -> Nat]
      /\ held' = held /\ lists' \in Seq(Nat) /\ Len(lists') = Len(lists)
      /\ lists'[held[r]] = calls'[r]
      /\ \A s \in Request \ {r} : held[s] # 0 => lists'[held[s]] = lists[held[s]]
  BY PaidOwn
<1>4. OwnList'
  BY <1>3 DEF CostInv, OwnList
<1>5. NothingBeforeBlock'
  BY <1>3 DEF CostInv, NothingBeforeBlock, Working
<1>6. CostIsolation'
  BY <1>2, <1>3 DEF CostInv, CostIsolation
<1>7. pc' \in [Request -> Await] /\ \A s \in Request : status'[s] = 200 => pc'[s] = "responded"
  BY <1>1, <1>2 DEF CostInv
<1>8. /\ held' \in [Request -> Nat] /\ context' \in [Request -> Nat]
      /\ cost' \in [Request -> Nat] /\ status' \in [Request -> Nat]
  BY <1>3 DEF CostInv
<1> QED
  BY <1>3, <1>4, <1>5, <1>6, <1>7, <1>8 DEF CostInv

\* A move outside the block.
LEMMA MoveCost ==
    ASSUME CostInv, NEW r \in Request, pc[r] = "idle",
           pc' = [pc EXCEPT ![r] = "admitted"], UNCHANGED <<calls, usageVars, cost, status>>
    PROVE  CostInv'
<1>1. status[r] # 200
  BY DEF CostInv
<1>2. OwnList'
  BY DEF CostInv, OwnList, usageVars, Working
<1> QED
  BY <1>1, <1>2 DEF CostInv, NothingBeforeBlock, CostIsolation, usageVars, Await

\* A response that reports no cost, of a request that never opened its block.
LEMMA RefusedCost ==
    ASSUME CostInv, NEW r \in Request, pc[r] # "responded",
           NEW code \in {401, 422, 429, 500}, RespondWith(r, code),
           UNCHANGED <<calls, usageVars, cost>>
    PROVE  CostInv'
<1>1. /\ pc' = [pc EXCEPT ![r] = "responded"]
      /\ status' = [status EXCEPT ![r] = code]
  BY DEF RespondWith, Goto
<1>2. "responded" \in Await /\ "responded" \notin Working
  BY DEF Await, Working
<1>3. OwnList'
  BY <1>1, <1>2 DEF CostInv, OwnList, usageVars
<1>4. NothingBeforeBlock' /\ CostIsolation'
  BY <1>1 DEF CostInv, NothingBeforeBlock, CostIsolation
<1> QED
  BY <1>1, <1>2, <1>3, <1>4 DEF CostInv, usageVars

\* The block is opened on a list that nobody holds yet.
LEMMA OpenKeeps ==
    ASSUME CostInv, NEW r \in Request, pc[r] = "admitted", NEW where \in Working,
           pc' = [pc EXCEPT ![r] = where], OpenBlock(r), UNCHANGED <<calls, cost, status>>
    PROVE  CostInv'
<1> DEFINE n == Len(lists) + 1
<1>1. lists' \in Seq(Nat) /\ Len(lists') = n /\ n \in Nat \ {0}
  BY DEF OpenBlock, CostInv
<1>2. lists'[n] = 0 /\ \A k \in 1 .. Len(lists) : lists'[k] = lists[k]
  BY DEF OpenBlock, CostInv
<1>3. held' = [held EXCEPT ![r] = n] /\ context' = [context EXCEPT ![r] = n]
  BY <1>1 DEF OpenBlock
<1>4. calls[r] = 0 /\ status[r] # 200 /\ where \in Await
  BY DEF CostInv, NothingBeforeBlock, Await
<1>5. \A s \in Request : held[s] \in Nat /\ held[s] < n
  BY DEF CostInv, OwnList
<1>6. OwnList'
  <2>1. \A s \in Request : held'[s] <= Len(lists')
    BY <1>1, <1>3, <1>5 DEF CostInv
  <2>2. \A s, u \in Request : held'[s] # 0 /\ held'[s] = held'[u] => s = u
    <3> SUFFICES ASSUME NEW s \in Request, NEW u \in Request, held'[s] # 0, held'[s] = held'[u]
                 PROVE  s = u
      OBVIOUS
    <3>1. \A v \in Request \ {r} : held'[v] = held[v] /\ held[v] # n
      BY <1>1, <1>3, <1>5 DEF CostInv
    <3>2. held'[r] = n
      BY <1>3 DEF CostInv
    <3>3. CASE s = r \/ u = r
      BY <3>1, <3>2, <3>3
    <3>4. CASE s # r /\ u # r
      BY <3>1, <3>4 DEF CostInv, OwnList
    <3> QED
      BY <3>3, <3>4
  <2>3. \A s \in Request \ {r} : pc'[s] \in Working =>
            held'[s] # 0 /\ context'[s] = held'[s] /\ lists'[held'[s]] = calls'[s]
    <3> SUFFICES ASSUME NEW s \in Request \ {r}, pc'[s] \in Working
                 PROVE  held'[s] # 0 /\ context'[s] = held'[s] /\ lists'[held'[s]] = calls'[s]
      OBVIOUS
    <3>1. held'[s] = held[s] /\ context'[s] = context[s] /\ pc[s] \in Working
      BY <1>3 DEF CostInv
    <3>2. held[s] # 0 /\ context[s] = held[s] /\ lists[held[s]] = calls[s]
      BY <3>1 DEF CostInv, OwnList
    <3>3. held[s] \in 1 .. Len(lists)
      BY <3>2, <1>5 DEF CostInv
    <3> QED
      BY <3>1, <3>2, <3>3, <1>2
  <2>4. held'[r] # 0 /\ context'[r] = held'[r] /\ lists'[held'[r]] = calls'[r]
    BY <1>1, <1>2, <1>3, <1>4 DEF CostInv
  <2> QED
    BY <2>1, <2>2, <2>3, <2>4 DEF OwnList
<1>7. NothingBeforeBlock'
  BY DEF CostInv, NothingBeforeBlock, Working
<1>8. held' \in [Request -> Nat] /\ context' \in [Request -> Nat]
  BY <1>1, <1>3 DEF CostInv
<1>9. pc' \in [Request -> Await] /\ \A s \in Request : status'[s] = 200 => pc'[s] = "responded"
  BY <1>4 DEF CostInv
<1>10. CostIsolation' /\ UNCHANGED <<calls, cost, status>>
  BY DEF CostInv, CostIsolation
<1> QED
  BY <1>1, <1>6, <1>7, <1>8, <1>9, <1>10 DEF CostInv

\* The block is left after its last call, and its list outlives it.
LEMMA CloseKeeps ==
    ASSUME CostInv, NEW r \in Request, NEW n \in Nat, pc[r] \in Working, Paid(r, n),
           CloseBlock(r), NEW code \in {200, 500}, RespondWith(r, code),
           NEW c \in Nat, cost' = [cost EXCEPT ![r] = c],
           code = 200 => c = lists'[held[r]]
    PROVE  CostInv'
<1>1. /\ pc' = [pc EXCEPT ![r] = "responded"]
      /\ status' = [status EXCEPT ![r] = code]
  BY DEF RespondWith, Goto
<1>2. "responded" \in Await /\ "responded" \notin Working /\ pc[r] # "responded"
  BY DEF Await, Working
<1>3. /\ calls' = [calls EXCEPT ![r] = @ + n] /\ calls' \in [Request -> Nat]
      /\ held' = held /\ lists' \in Seq(Nat) /\ Len(lists') = Len(lists)
      /\ lists'[held[r]] = calls'[r]
      /\ \A s \in Request \ {r} : held[s] # 0 => lists'[held[s]] = lists[held[s]]
  BY PaidOwn
<1>4. context' = [context EXCEPT ![r] = 0]
  BY DEF CloseBlock
<1>5. OwnList'
  <2>1. \A s \in Request \ {r} : pc'[s] \in Working =>
            held'[s] # 0 /\ context'[s] = held'[s] /\ lists'[held'[s]] = calls'[s]
    <3> SUFFICES ASSUME NEW s \in Request \ {r}, pc'[s] \in Working
                 PROVE  held'[s] # 0 /\ context'[s] = held'[s] /\ lists'[held'[s]] = calls'[s]
      OBVIOUS
    <3>1. pc[s] \in Working /\ context'[s] = context[s] /\ calls'[s] = calls[s]
      BY <1>1, <1>3, <1>4 DEF CostInv
    <3>2. held[s] # 0 /\ context[s] = held[s] /\ lists[held[s]] = calls[s]
      BY <3>1 DEF CostInv, OwnList
    <3> QED
      BY <3>1, <3>2, <1>3
  <2>2. pc'[r] \notin Working
    BY <1>1, <1>2 DEF CostInv
  <2>3. /\ \A s \in Request : held'[s] <= Len(lists')
        /\ \A s, u \in Request : held'[s] # 0 /\ held'[s] = held'[u] => s = u
    BY <1>3 DEF CostInv, OwnList
  <2> QED
    BY <2>1, <2>2, <2>3 DEF OwnList
<1>6. NothingBeforeBlock'
  BY <1>1, <1>3 DEF CostInv, NothingBeforeBlock
<1>7. CostIsolation'
  BY <1>1, <1>3 DEF CostInv, CostIsolation
<1>8. pc' \in [Request -> Await] /\ \A s \in Request : status'[s] = 200 => pc'[s] = "responded"
  BY <1>1, <1>2 DEF CostInv
<1>9. /\ held' \in [Request -> Nat] /\ context' \in [Request -> Nat]
      /\ cost' \in [Request -> Nat] /\ status' \in [Request -> Nat]
  BY <1>1, <1>3, <1>4 DEF CostInv
<1> QED
  BY <1>3, <1>5, <1>6, <1>7, <1>8, <1>9 DEF CostInv

\* The response that reports the cost.
LEMMA CostRespondKeeps ==
    ASSUME CostInv, NEW r \in Request, NEW n \in Nat, NEW reply, NEW from,
           pc[r] \in Working, Paid(r, n), Respond(r, reply, from)
    PROVE  CostInv'
<1>1. CloseBlock(r) /\ RespondWith(r, 200) /\ cost' = [cost EXCEPT ![r] = lists'[held[r]]]
  BY DEF Respond
<1>2. lists'[held[r]] \in Nat
  BY PaidOwn
<1> QED
  BY <1>1, <1>2, CloseKeeps

LEMMA CostNext == CostInv /\ [Next]_vars => CostInv'
<1> SUFFICES ASSUME CostInv, [Next]_vars PROVE CostInv'
  OBVIOUS
<1> {"admitted", "responded", "retrieve", "generate", "correct"} \subseteq Await
  BY DEF Await, Working
<1>1. ASSUME NEW r \in Request, NEW t \in Tenant \cup {NoTenant},
             Admit(r, t) \/ AdmitFailingOpen(r, t)
      PROVE  CostInv'
  <2>1. /\ pc[r] = "idle" /\ pc' = [pc EXCEPT ![r] = "admitted"]
        /\ UNCHANGED <<calls, usageVars, cost, status>>
    BY <1>1 DEF Admit, AdmitFailingOpen, LetIn, Goto, resultVars
  <2> QED
    BY <2>1, MoveCost
<1>2. ASSUME NEW r \in Request, CapReached(r) PROVE CostInv'
  <2>1. pc[r] # "responded" /\ RespondWith(r, 429) /\ UNCHANGED <<calls, usageVars, cost>>
    BY <1>2 DEF CapReached
  <2> QED
    BY <2>1, RefusedCost
<1>3. ASSUME NEW r \in Request, TurnAway(r) PROVE CostInv'
  <2>1. pc[r] # "responded" /\ UNCHANGED <<calls, usageVars, cost>>
    BY <1>3 DEF TurnAway
  <2>2. PICK code \in {401, 422, 429} : RespondWith(r, code)
    BY <1>3 DEF TurnAway
  <2> QED
    BY <2>1, <2>2, RefusedCost
<1>4. ASSUME NEW r \in Request, Enter(r) PROVE CostInv'
  <2>1. pc[r] = "admitted" /\ OpenBlock(r) /\ UNCHANGED <<calls, cost, status>>
    BY <1>4 DEF Enter, resultVars
  <2>2. PICK path \in {"retrieve", "correct"} : pc' = [pc EXCEPT ![r] = path]
    BY <1>4 DEF Enter, Goto
  <2>3. path \in Working
    BY DEF Working
  <2> QED
    BY <2>1, <2>2, <2>3, OpenKeeps
<1>5. ASSUME NEW r \in Request, BuildFails(r) PROVE CostInv'
  <2>1. pc[r] # "responded" /\ RespondWith(r, 500) /\ UNCHANGED <<calls, usageVars, cost>>
    BY <1>5 DEF BuildFails
  <2> QED
    BY <2>1, RefusedCost
<1>6. ASSUME NEW r \in Request, Retrieve(r) PROVE CostInv'
  <2>1. /\ pc[r] \in Working /\ Paid(r, 1) /\ pc' = [pc EXCEPT ![r] = "generate"]
        /\ "generate" \in Working /\ UNCHANGED <<context, cost, status>>
    BY <1>6 DEF Retrieve, Goto, Working
  <2> QED
    BY <2>1, CallKeeps
<1>7. ASSUME NEW r \in Request, GenerateNothing(r) \/ Generate(r) \/ Correct(r) \/ OpenAIFails(r)
      PROVE  CostInv'
  <2>1. PICK n \in {0, 1}, reply \in {"text", "NO_INFO"}, from \in {source[r], Retriever(r), NoCollection} :
          pc[r] \in Working /\ Paid(r, n) /\ Respond(r, reply, from)
    BY <1>7 DEF GenerateNothing, Generate, Correct, OpenAIFails, Working
  <2> QED
    BY <2>1, CostRespondKeeps
<1>8. ASSUME NEW r \in Request, CorrectiveCall(r) PROVE CostInv'
  <2>1. /\ pc[r] \in Working /\ Paid(r, 1) /\ pc' = pc /\ UNCHANGED <<context, cost, status>>
    BY <1>8 DEF CorrectiveCall, Working, resultVars
  <2>2. pc' = [pc EXCEPT ![r] = pc[r]]
    BY <2>1 DEF CostInv
  <2> QED
    BY <2>1, <2>2, CallKeeps
<1>9. ASSUME NEW r \in Request, OtherFails(r) PROVE CostInv'
  <2>1. PICK n \in {0, 1} : Paid(r, n)
    BY <1>9 DEF OtherFails
  <2>2. pc[r] \in Working /\ CloseBlock(r) /\ RespondWith(r, 500) /\ cost' = cost
    BY <1>9 DEF OtherFails
  <2>3. cost' = [cost EXCEPT ![r] = cost[r]] /\ cost[r] \in Nat
    BY <2>2 DEF CostInv
  <2>4. n \in Nat /\ (500 = 200 => cost[r] = lists'[held[r]])
    OBVIOUS
  <2> QED
    BY <2>1, <2>2, <2>3, <2>4, CloseKeeps
<1>10. CASE Midnight \/ CounterLost \/ UNCHANGED vars
  <2>1. UNCHANGED <<pc, calls, usageVars, cost, status>>
    BY <1>10 DEF Midnight, CounterLost, vars, resultVars
  <2> QED
    BY <2>1 DEF CostInv, OwnList, NothingBeforeBlock, CostIsolation, usageVars
<1> QED
  BY <1>1, <1>2, <1>3, <1>4, <1>5, <1>6, <1>7, <1>8, <1>9, <1>10 DEF Next, Arrive, Serve

\* A response reports the cost of its own request's calls, all of them, for any
\* number of concurrent requests: the list that calls are recorded in, found
\* through the context of the task that runs, is the one the handler opened
\* (usage.py collect_usage and record_usage, server.py query).
THEOREM CostTheorem == Spec => []CostIsolation
<1>1. CostInv => CostIsolation
  BY DEF CostInv
<1> QED
  BY <1>1, CostInit, CostNext, PTL DEF Spec

-----------------------------------------------------------------------------
\* The review queue

QueueInv ==
    /\ queue \in Seq(Question)
    /\ question \in [Request -> Question \cup {NoQuestion}]
    /\ answer \in [Request -> {"none", "text", "NO_INFO"}]
    /\ \A r \in Request : pc[r] \in Working => question[r] \in Question
    /\ \A r \in Request : pc[r] \in {"idle", "admitted"} => answer[r] = "none"
    /\ QueueExact

LEMMA QueueInit == Init => QueueInv
  BY DEF Init, QueueInv, QueueExact, Working

\* A step that leaves questions, answers and the queue as they are, and lets no
\* request into the pipeline.
LEMMA QueueStutters ==
    ASSUME QueueInv, UNCHANGED <<queue, question, answer, missed>>,
           \A r \in Request : /\ pc'[r] \in Working => pc[r] \in Working
                              /\ pc'[r] \in {"idle", "admitted"} => pc[r] \in {"idle", "admitted"}
    PROVE  QueueInv'
<1>1. QueueExact'
  BY DEF QueueInv, QueueExact
<1> QED
  BY <1>1 DEF QueueInv

\* The same for a step that moves one request.
LEMMA MoveQueues ==
    ASSUME QueueInv, Fields, UNCHANGED <<queue, question, answer, missed>>,
           NEW r \in Request, NEW where, pc' = [pc EXCEPT ![r] = where],
           where \in Working => pc[r] \in Working,
           where \in {"idle", "admitted"} => pc[r] = "idle"
    PROVE  QueueInv'
<1>1. \A s \in Request : /\ pc'[s] \in Working => pc[s] \in Working
                         /\ pc'[s] \in {"idle", "admitted"} => pc[s] \in {"idle", "admitted"}
  BY DEF Fields
<1> QED
  BY <1>1, QueueStutters

\* A request that has its question has no answer yet.
LEMMA EnterQueues ==
    ASSUME QueueInv, Fields, NEW r \in Request, Enter(r)
    PROVE  QueueInv'
<1>1. /\ pc[r] = "admitted" /\ UNCHANGED <<queue, answer, missed>>
  BY DEF Enter, resultVars
<1>2. PICK q \in Question : question' = [question EXCEPT ![r] = q]
  BY DEF Enter
<1>3. PICK path \in {"retrieve", "correct"} : pc' = [pc EXCEPT ![r] = path]
  BY DEF Enter, Goto
<1>4. path \notin {"idle", "admitted"}
  OBVIOUS
<1>5. answer[r] = "none"
  BY <1>1 DEF QueueInv
<1>6. \A s \in Request \ {r} : question'[s] = question[s] /\ pc'[s] = pc[s]
  BY <1>2, <1>3 DEF QueueInv, Fields
<1>7. question'[r] = q /\ pc'[r] = path
  BY <1>2, <1>3 DEF QueueInv, Fields
<1>8. QueueExact'
  BY <1>1, <1>5, <1>6 DEF QueueInv, QueueExact
<1>9. question' \in [Request -> Question \cup {NoQuestion}]
  BY <1>2 DEF QueueInv
<1>10. \A s \in Request : pc'[s] \in Working => question'[s] \in Question
  BY <1>6, <1>7 DEF QueueInv
<1>11. \A s \in Request : pc'[s] \in {"idle", "admitted"} => answer'[s] = "none"
  BY <1>1, <1>4, <1>6, <1>7 DEF QueueInv
<1> QED
  BY <1>1, <1>8, <1>9, <1>10, <1>11 DEF QueueInv

\* Between the comparison with the queue and the append there is no await.
LEMMA RespondQueues ==
    ASSUME QueueInv, Fields, NEW r \in Request, NEW reply \in {"text", "NO_INFO"}, NEW from,
           pc[r] \in Working, Respond(r, reply, from)
    PROVE  QueueInv'
<1> DEFINE q == question[r]
<1>1. /\ Capture(r, reply)
      /\ answer' = [answer EXCEPT ![r] = reply]
      /\ UNCHANGED question
  BY DEF Respond, inputVars
<1>2. q \in Question /\ <<q, q>> \in Similar
  BY ServiceAssumption DEF QueueInv, ServiceAssumption
<1>3. /\ question' \in [Request -> Question \cup {NoQuestion}]
      /\ answer' \in [Request -> {"none", "text", "NO_INFO"}]
      /\ \A s \in Request : pc'[s] \in Working => question'[s] \in Question
      /\ \A s \in Request : pc'[s] \in {"idle", "admitted"} => answer'[s] = "none"
  <2>1. pc' = [pc EXCEPT ![r] = "responded"]
    BY DEF Respond, RespondWith, Goto
  <2>2. \A s \in Request \ {r} : pc'[s] = pc[s] /\ answer'[s] = answer[s]
    BY <1>1, <2>1 DEF QueueInv, Fields
  <2>3. pc'[r] = "responded" /\ "responded" \notin Working
    BY <2>1 DEF Fields, Working
  <2>4. question' = question /\ answer' \in [Request -> {"none", "text", "NO_INFO"}]
    BY <1>1 DEF QueueInv
  <2>5. \A s \in Request : pc'[s] \in Working => question'[s] \in Question
    BY <2>2, <2>3, <2>4 DEF QueueInv
  <2>6. \A s \in Request : pc'[s] \in {"idle", "admitted"} => answer'[s] = "none"
    BY <2>2, <2>3 DEF QueueInv
  <2> QED
    BY <2>4, <2>5, <2>6 DEF QueueInv
<1>4. CASE queue' = Append(queue, q) /\ UNCHANGED missed /\ ~Duplicate(q)
  <2>1. /\ queue' \in Seq(Question) /\ Len(queue) \in Nat
        /\ DOMAIN queue = 1 .. Len(queue) /\ DOMAIN queue' = 1 .. Len(queue) + 1
        /\ \A k \in 1 .. Len(queue) : queue'[k] = queue[k]
        /\ queue'[Len(queue) + 1] = q
    BY <1>2, <1>4 DEF QueueInv
  <2>2. \A k \in 1 .. Len(queue) : <<q, queue[k]>> \notin Similar
    BY <1>4, <2>1 DEF Duplicate
  <2>3. ASSUME NEW j \in DOMAIN queue', NEW k \in DOMAIN queue', j < k
        PROVE  <<queue'[k], queue'[j]>> \notin Similar
    <3>1. j \in 1 .. Len(queue)
      BY <2>1, <2>3
    <3>2. CASE k = Len(queue) + 1
      BY <2>1, <2>2, <3>1, <3>2
    <3>3. CASE k \in 1 .. Len(queue)
      BY <2>1, <2>3, <3>1, <3>3 DEF QueueInv, QueueExact
    <3> QED
      BY <2>1, <3>2, <3>3
  <2>4. ASSUME NEW s \in Request, ClosedLoop, answer'[s] = "NO_INFO", s \notin missed'
        PROVE  \E k \in DOMAIN queue' : <<question'[s], queue'[k]>> \in Similar
    <3>1. CASE s = r
      <4>1. Len(queue) + 1 \in DOMAIN queue' /\ <<question'[s], queue'[Len(queue) + 1]>> \in Similar
        BY <1>1, <1>2, <2>1, <3>1
      <4> QED
        BY <4>1
    <3>2. CASE s # r
      <4>1. answer[s] = "NO_INFO" /\ s \notin missed
        BY <1>1, <1>4, <2>4, <3>2 DEF QueueInv
      <4>2. PICK k \in 1 .. Len(queue) : <<question[s], queue[k]>> \in Similar
        BY <2>1, <2>4, <4>1 DEF QueueInv, QueueExact
      <4>3. k \in DOMAIN queue' /\ <<question'[s], queue'[k]>> \in Similar
        BY <1>1, <2>1, <4>2
      <4> QED
        BY <4>3
    <3> QED
      BY <3>1, <3>2
  <2> QED
    BY <1>3, <2>1, <2>3, <2>4 DEF QueueInv, QueueExact
<1>5. CASE /\ UNCHANGED queue /\ missed \subseteq missed'
           /\ r \in missed' \/ reply = "text" \/ Duplicate(q) \/ ~ClosedLoop
  <2>1. ASSUME NEW s \in Request, ClosedLoop, answer'[s] = "NO_INFO", s \notin missed'
        PROVE  \E k \in DOMAIN queue' : <<question'[s], queue'[k]>> \in Similar
    <3>1. CASE s = r
      BY <1>1, <1>5, <2>1, <3>1 DEF QueueInv, Duplicate
    <3>2. CASE s # r
      BY <1>1, <1>5, <2>1, <3>2 DEF QueueInv, QueueExact
    <3> QED
      BY <3>1, <3>2
  <2> QED
    BY <1>3, <1>5, <2>1 DEF QueueInv, QueueExact
<1> QED
  BY <1>1, <1>4, <1>5 DEF Capture

LEMMA QueueNext == IsolationInv /\ QueueInv /\ [Next]_vars => QueueInv'
<1> SUFFICES ASSUME IsolationInv, QueueInv, [Next]_vars PROVE QueueInv'
  OBVIOUS
<1> Fields
  BY DEF IsolationInv
<1>1. ASSUME NEW r \in Request, Arrive(r) PROVE QueueInv'
  <2>1. UNCHANGED <<queue, question, answer, missed>> /\ pc[r] = "idle"
    BY <1>1 DEF Arrive, Admit, AdmitFailingOpen, LetIn, CapReached, inputVars, resultVars
  <2>2. PICK where \in {"admitted", "responded"} : pc' = [pc EXCEPT ![r] = where]
    BY <1>1 DEF Arrive, Admit, AdmitFailingOpen, LetIn, CapReached, RespondWith, Goto
  <2>3. where \notin Working
    BY DEF Working
  <2> QED
    BY <2>1, <2>2, <2>3, MoveQueues
<1>2. ASSUME NEW r \in Request, TurnAway(r) \/ BuildFails(r) \/ OtherFails(r)
      PROVE  QueueInv'
  <2>1. UNCHANGED <<queue, question, answer, missed>>
    BY <1>2 DEF TurnAway, BuildFails, OtherFails, inputVars
  <2>2. pc' = [pc EXCEPT ![r] = "responded"]
    BY <1>2 DEF TurnAway, BuildFails, OtherFails, RespondWith, Goto
  <2>3. "responded" \notin Working
    BY DEF Working
  <2> QED
    BY <2>1, <2>2, <2>3, MoveQueues
<1>3. ASSUME NEW r \in Request, Retrieve(r) PROVE QueueInv'
  <2>1. UNCHANGED <<queue, question, answer, missed>> /\ pc[r] \in Working
    BY <1>3 DEF Retrieve, inputVars, Working
  <2>2. pc' = [pc EXCEPT ![r] = "generate"]
    BY <1>3 DEF Retrieve, Goto
  <2> QED
    BY <2>1, <2>2, MoveQueues
<1>4. ASSUME NEW r \in Request, GenerateNothing(r) \/ Generate(r) \/ Correct(r) \/ OpenAIFails(r)
      PROVE  QueueInv'
  <2>1. PICK reply \in {"text", "NO_INFO"}, from \in {source[r], Retriever(r), NoCollection} :
          pc[r] \in Working /\ Respond(r, reply, from)
    BY <1>4 DEF GenerateNothing, Generate, Correct, OpenAIFails, Working
  <2> QED
    BY <2>1, RespondQueues
<1>5. ASSUME NEW r \in Request, CorrectiveCall(r) PROVE QueueInv'
  <2>1. UNCHANGED <<queue, question, answer, missed, pc>>
    BY <1>5 DEF CorrectiveCall, inputVars, resultVars
  <2> QED
    BY <2>1, QueueStutters
<1>6. CASE Midnight \/ CounterLost \/ UNCHANGED vars
  <2>1. UNCHANGED <<queue, question, answer, missed, pc>>
    BY <1>6 DEF Midnight, CounterLost, vars, inputVars, resultVars
  <2> QED
    BY <2>1, QueueStutters
<1> QED
  BY <1>1, <1>2, <1>3, <1>4, <1>5, <1>6, EnterQueues DEF Next, Serve

\* The review queue stands for each refusal once, for any number of concurrent
\* requests and any similarity that is reflexive (closed_loop.py capture_query).
THEOREM QueueTheorem == Spec => []QueueExact
<1>1. QueueInv => QueueExact
  BY DEF QueueInv
<1> QED
  BY <1>1, IsolationInit, IsolationNext, QueueInit, QueueNext, PTL DEF Spec

-----------------------------------------------------------------------------
\* Paid requests and the day's allowance

SpentOn(d) == {r \in Request : day[r] = d}
LetThrough == {"admitted"} \cup Working

\* A request is let through on a slot of a day, or by a store that failed, and
\* the slots spent on a day are within what was admitted of its allowance.
PaidInv ==
    /\ today \in 0 .. LastDay
    /\ day \in [Request -> 0 .. LastDay \cup {NoSlot}]
    /\ admitted \in [0 .. LastDay -> Nat] /\ allowance \in [0 .. LastDay -> Nat]
    /\ \A d \in 0 .. LastDay : /\ IsFiniteSet(SpentOn(d))
                               /\ Cardinality(SpentOn(d)) <= admitted[d]
                               /\ admitted[d] <= allowance[d]
    /\ \A r \in Request : pc[r] = "idle" => calls[r] = 0
    /\ \A r \in Request : (pc[r] \in LetThrough \/ calls[r] > 0) /\ day[r] = NoSlot => SharedBudget

LEMMA PaidInit == Init => PaidInv
<1> SUFFICES ASSUME Init PROVE PaidInv
  OBVIOUS
<1>1. /\ today = 0 /\ admitted = [d \in 0 .. LastDay |-> 0] /\ allowance = [d \in 0 .. LastDay |-> Cap]
      /\ LastDay \in Nat /\ Cap \in Nat /\ NoSlot \notin 0 .. LastDay
  BY ServiceAssumption DEF Init, Budget!Init, Budget!Day, ServiceAssumption
<1>2. \A d \in 0 .. LastDay : SpentOn(d) = {}
  BY <1>1 DEF Init, SpentOn
<1>3. \A d \in 0 .. LastDay : IsFiniteSet(SpentOn(d)) /\ Cardinality(SpentOn(d)) = 0
  BY <1>2, FS_EmptySet
<1>4. \A r \in Request : pc[r] = "idle" /\ calls[r] = 0
  BY DEF Init
<1>5. "idle" \notin LetThrough
  BY DEF LetThrough, Working
<1>6. day \in [Request -> 0 .. LastDay \cup {NoSlot}]
  BY DEF Init
<1> QED
  BY <1>1, <1>3, <1>4, <1>5, <1>6 DEF PaidInv

\* A step of a request that was let through, or that ends it.
LEMMA PaidMove ==
    ASSUME PaidInv, CostInv, NEW r \in Request, NEW where, NEW n \in Nat,
           pc' = [pc EXCEPT ![r] = where], where # "idle",
           calls' = [calls EXCEPT ![r] = @ + n],
           where \in LetThrough \/ n > 0 => pc[r] \in LetThrough,
           UNCHANGED <<today, admitted, allowance, day>>
    PROVE  PaidInv'
<1>1. \A d : SpentOn(d)' = SpentOn(d)
  BY DEF SpentOn
<1>2. \A s \in Request : pc'[s] = "idle" => calls'[s] = 0
  BY DEF PaidInv, CostInv
<1>3. ASSUME NEW s \in Request, pc'[s] \in LetThrough \/ calls'[s] > 0, day[s] = NoSlot
      PROVE  SharedBudget
  <2>1. pc[s] \in LetThrough \/ calls[s] > 0
    BY <1>3 DEF CostInv
  <2> QED
    BY <1>3, <2>1 DEF PaidInv
<1> QED
  BY <1>1, <1>2, <1>3 DEF PaidInv, LetThrough, Working

\* Only the allowance and the date change, the one upward.
LEMMA PaidCalendar ==
    ASSUME PaidInv, UNCHANGED <<pc, calls, day, admitted>>, today' \in 0 .. LastDay,
           allowance' \in [0 .. LastDay -> Nat],
           \A d \in 0 .. LastDay : allowance[d] <= allowance'[d]
    PROVE  PaidInv'
<1>1. \A d : SpentOn(d)' = SpentOn(d)
  BY DEF SpentOn
<1>2. \A d \in 0 .. LastDay : admitted[d] <= allowance'[d]
  BY DEF PaidInv
<1> QED
  BY <1>1, <1>2 DEF PaidInv, LetThrough, Working

LEMMA PaidAdmits ==
    ASSUME PaidInv, CostInv, NEW r \in Request, NEW t, Admit(r, t) \/ AdmitFailingOpen(r, t)
    PROVE  PaidInv'
<1>0. NoSlot \notin 0 .. LastDay
  BY ServiceAssumption DEF ServiceAssumption
<1>1. /\ pc[r] = "idle" /\ pc' = [pc EXCEPT ![r] = "admitted"] /\ calls' = calls
  BY DEF Admit, AdmitFailingOpen, LetIn, Goto
<1>2. \A s \in Request : pc'[s] = "idle" => calls'[s] = 0
  BY <1>1 DEF PaidInv, CostInv
<1>3. CASE Admit(r, t)
  <2>1. /\ day' = [day EXCEPT ![r] = today]
        /\ admitted[today] < allowance[today]
        /\ admitted' = [admitted EXCEPT ![today] = @ + 1]
        /\ UNCHANGED <<today, allowance>>
    BY <1>3 DEF Admit, LetIn, Budget!Admit
  <2>2. ASSUME NEW d \in 0 .. LastDay
        PROVE  /\ IsFiniteSet(SpentOn(d)') /\ Cardinality(SpentOn(d)') <= admitted'[d]
               /\ admitted'[d] <= allowance'[d]
    <3>1. /\ IsFiniteSet(SpentOn(d)) /\ Cardinality(SpentOn(d)) <= admitted[d]
          /\ Cardinality(SpentOn(d)) \in Nat
          /\ admitted[d] <= allowance[d] /\ admitted[d] \in Nat /\ allowance[d] \in Nat
      BY FS_CardinalityType DEF PaidInv
    <3>2. CASE d = today
      <4>1. SpentOn(d)' = SpentOn(d) \cup {r}
        BY <2>1, <3>2 DEF SpentOn, PaidInv
      <4>2. IsFiniteSet(SpentOn(d)') /\ Cardinality(SpentOn(d)') <= Cardinality(SpentOn(d)) + 1
        BY <3>1, <4>1, FS_AddElement
      <4>3. Cardinality(SpentOn(d)') \in Nat
        BY <4>2, FS_CardinalityType
      <4>4. admitted'[d] = admitted[d] + 1 /\ allowance'[d] = allowance[d] /\ admitted[d] < allowance[d]
        BY <2>1, <3>2 DEF PaidInv
      <4> QED
        BY <3>1, <4>2, <4>3, <4>4
    <3>3. CASE d # today
      <4>1. SpentOn(d)' \in SUBSET SpentOn(d)
        BY <2>1, <3>3 DEF SpentOn, PaidInv
      <4>2. IsFiniteSet(SpentOn(d)') /\ Cardinality(SpentOn(d)') <= Cardinality(SpentOn(d))
        BY <3>1, <4>1, FS_Subset
      <4>3. Cardinality(SpentOn(d)') \in Nat
        BY <4>2, FS_CardinalityType
      <4>4. admitted'[d] = admitted[d] /\ allowance'[d] = allowance[d]
        BY <2>1, <3>3 DEF PaidInv
      <4> QED
        BY <3>1, <4>2, <4>3, <4>4
    <3> QED
      BY <3>2, <3>3
  <2>3. ASSUME NEW s \in Request, pc'[s] \in LetThrough \/ calls'[s] > 0, day'[s] = NoSlot
        PROVE  SharedBudget
    <3>1. s # r
      BY <1>0, <2>1, <2>3 DEF PaidInv
    <3>2. (pc[s] \in LetThrough \/ calls[s] > 0) /\ day[s] = NoSlot
      BY <1>1, <2>1, <2>3, <3>1 DEF PaidInv, CostInv
    <3> QED
      BY <3>2 DEF PaidInv
  <2>4. /\ today' \in 0 .. LastDay /\ day' \in [Request -> 0 .. LastDay \cup {NoSlot}]
        /\ admitted' \in [0 .. LastDay -> Nat] /\ allowance' \in [0 .. LastDay -> Nat]
    BY <2>1 DEF PaidInv
  <2> QED
    BY <1>2, <2>2, <2>3, <2>4 DEF PaidInv, LetThrough, Working
<1>4. CASE AdmitFailingOpen(r, t)
  <2>1. /\ SharedBudget /\ day' = [day EXCEPT ![r] = NoSlot]
        /\ UNCHANGED <<today, admitted, allowance>>
    BY <1>4 DEF AdmitFailingOpen, LetIn, capVars
  <2>2. ASSUME NEW d \in 0 .. LastDay
        PROVE  IsFiniteSet(SpentOn(d)') /\ Cardinality(SpentOn(d)') <= admitted[d]
    <3>1. /\ IsFiniteSet(SpentOn(d)) /\ Cardinality(SpentOn(d)) <= admitted[d]
          /\ Cardinality(SpentOn(d)) \in Nat /\ admitted[d] \in Nat
      BY FS_CardinalityType DEF PaidInv
    <3>2. SpentOn(d)' \in SUBSET SpentOn(d)
      BY <1>0, <2>1 DEF SpentOn, PaidInv
    <3>3. IsFiniteSet(SpentOn(d)') /\ Cardinality(SpentOn(d)') <= Cardinality(SpentOn(d))
      BY <3>1, <3>2, FS_Subset
    <3>4. Cardinality(SpentOn(d)') \in Nat
      BY <3>3, FS_CardinalityType
    <3> QED
      BY <3>1, <3>3, <3>4
  <2>3. day' \in [Request -> 0 .. LastDay \cup {NoSlot}]
    BY <2>1 DEF PaidInv
  <2> QED
    BY <1>2, <2>1, <2>2, <2>3 DEF PaidInv, LetThrough, Working
<1> QED
  BY <1>3, <1>4

LEMMA PaidNext == CostInv /\ PaidInv /\ [Next]_vars => PaidInv'
<1> SUFFICES ASSUME CostInv, PaidInv, [Next]_vars PROVE PaidInv'
  OBVIOUS
<1> "responded" \notin LetThrough
  BY DEF LetThrough, Working
<1>1. ASSUME NEW r \in Request, Arrive(r) PROVE PaidInv'
  <2>1. CASE CapReached(r)
    <3>1. PICK where \in {"responded"} : pc' = [pc EXCEPT ![r] = where]
      BY <2>1 DEF CapReached, RespondWith, Goto
    <3>2. /\ UNCHANGED <<today, admitted, allowance, day>>
          /\ calls' = [calls EXCEPT ![r] = @ + 0]
      BY <2>1 DEF CapReached, capVars, inputVars, CostInv
    <3>3. where # "idle" /\ where \notin LetThrough /\ ~(0 > 0)
      BY <3>1 DEF LetThrough, Working
    <3> QED
      BY <3>1, <3>2, <3>3, PaidMove
  <2> QED
    BY <1>1, <2>1, PaidAdmits DEF Arrive
<1>2. ASSUME NEW r \in Request, TurnAway(r) \/ Enter(r) \/ BuildFails(r) PROVE PaidInv'
  <2>1. PICK where \in {"responded", "retrieve", "correct"} : pc' = [pc EXCEPT ![r] = where]
    BY <1>2 DEF TurnAway, Enter, BuildFails, RespondWith, Goto
  <2>2. /\ UNCHANGED <<today, admitted, allowance, day>> /\ calls' = [calls EXCEPT ![r] = @ + 0]
        /\ pc[r] \in LetThrough
    BY <1>2 DEF TurnAway, Enter, BuildFails, capVars, inputVars, CostInv, LetThrough
  <2> QED
    BY <2>1, <2>2, PaidMove
<1>3. ASSUME NEW r \in Request,
             \/ Retrieve(r) \/ GenerateNothing(r) \/ Generate(r)
             \/ CorrectiveCall(r) \/ Correct(r) \/ OpenAIFails(r) \/ OtherFails(r)
      PROVE  PaidInv'
  <2>1. pc[r] \in LetThrough /\ pc[r] # "idle"
    BY <1>3 DEF Retrieve, GenerateNothing, Generate, CorrectiveCall, Correct, OpenAIFails,
                OtherFails, LetThrough, Working
  <2>2. PICK where \in {"responded", "generate", pc[r]} : pc' = [pc EXCEPT ![r] = where]
    BY <1>3 DEF Retrieve, GenerateNothing, Generate, CorrectiveCall, Correct, OpenAIFails,
                OtherFails, Respond, RespondWith, Goto, CostInv
  <2>3. PICK n \in {0, 1} : Paid(r, n)
    BY <1>3 DEF Retrieve, GenerateNothing, Generate, CorrectiveCall, Correct, OpenAIFails, OtherFails
  <2>4. calls' = [calls EXCEPT ![r] = @ + n]
    BY <2>3 DEF Paid
  <2>5. UNCHANGED <<today, admitted, allowance, day>>
    BY <1>3 DEF Retrieve, GenerateNothing, Generate, CorrectiveCall, Correct, OpenAIFails,
                OtherFails, Respond, capVars, inputVars
  <2> QED
    BY <2>1, <2>2, <2>4, <2>5, PaidMove
<1>4. CASE Midnight
  <2>1. UNCHANGED <<pc, calls, day, admitted, allowance>> /\ today < LastDay /\ today' = today + 1
    BY <1>4 DEF Midnight, Budget!Midnight, inputVars
  <2>2. today' \in 0 .. LastDay /\ allowance' \in [0 .. LastDay -> Nat]
    BY <2>1, ServiceAssumption DEF PaidInv, ServiceAssumption
  <2>3. \A d \in 0 .. LastDay : allowance[d] <= allowance'[d]
    BY <2>1 DEF PaidInv
  <2> QED
    BY <2>1, <2>2, <2>3, PaidCalendar
<1>5. CASE CounterLost
  <2>1. /\ UNCHANGED <<pc, calls, day, admitted, today>>
        /\ allowance' = [allowance EXCEPT ![today] = @ + Cap]
    BY <1>5 DEF CounterLost, Budget!CounterLost, inputVars
  <2>2. Cap \in Nat
    BY ServiceAssumption DEF ServiceAssumption
  <2>3. today' \in 0 .. LastDay /\ allowance' \in [0 .. LastDay -> Nat]
    BY <2>1, <2>2 DEF PaidInv
  <2>4. \A d \in 0 .. LastDay : allowance[d] <= allowance'[d]
    BY <2>1, <2>2 DEF PaidInv
  <2> QED
    BY <2>1, <2>3, <2>4, PaidCalendar
<1>6. CASE UNCHANGED vars
  <2>1. UNCHANGED <<pc, calls, day, admitted, allowance, today>>
    BY <1>6 DEF vars, capVars, inputVars
  <2>2. today' \in 0 .. LastDay /\ allowance' \in [0 .. LastDay -> Nat]
    BY <2>1 DEF PaidInv
  <2>3. \A d \in 0 .. LastDay : allowance[d] <= allowance'[d]
    BY <2>1 DEF PaidInv
  <2> QED
    BY <2>1, <2>2, <2>3, PaidCalendar
<1> QED
  BY <1>1, <1>2, <1>3, <1>4, <1>5, <1>6 DEF Next, Serve

\* The requests of a day that cost money are within the day's allowance, but for
\* those a failing store let through (budget.py check_and_increment, ADR-0010).
THEOREM PaidTheorem == Spec => []PaidWithinAllowance
<1>1. ASSUME PaidInv PROVE PaidWithinAllowance
  <2>1. ASSUME NEW d \in 0 .. LastDay
        PROVE  Cardinality({r \in Request : calls[r] > 0 /\ day[r] = d}) <= allowance[d]
    <3> DEFINE P == {r \in Request : calls[r] > 0 /\ day[r] = d}
    <3>1. /\ IsFiniteSet(SpentOn(d)) /\ Cardinality(SpentOn(d)) <= admitted[d]
          /\ admitted[d] <= allowance[d] /\ admitted[d] \in Nat /\ allowance[d] \in Nat
      BY <1>1 DEF PaidInv
    <3>2. P \in SUBSET SpentOn(d)
      BY DEF SpentOn
    <3> HIDE DEF P
    <3>3. IsFiniteSet(P) /\ Cardinality(P) <= Cardinality(SpentOn(d))
      BY <3>1, <3>2, FS_Subset
    <3>4. Cardinality(P) \in Nat /\ Cardinality(SpentOn(d)) \in Nat
      BY <3>1, <3>3, FS_CardinalityType
    <3>5. Cardinality(P) <= allowance[d]
      BY <3>1, <3>3, <3>4
    <3> QED
      BY <3>5 DEF P
  <2> QED
    BY <1>1, <2>1 DEF PaidInv, PaidWithinAllowance
<1> QED
  BY <1>1, CostInit, CostNext, PaidInit, PaidNext, PTL DEF Spec

-----------------------------------------------------------------------------
\* Sums

\* What holds of zero, and of the successor of each number it holds of, holds of
\* all: induction, over a set of numbers.
LEMMA Induction ==
    ASSUME NEW S, 0 \in S, \A n \in Nat : n \in S => n + 1 \in S
    PROVE  Nat \subseteq S
<1> DEFINE Less == {ss \in Nat \X Nat : ss[1] < ss[2]}
           Rest == Nat \ S
<1>1. IsWellFoundedOn(Less, Nat)
  BY NatLessThanWellFounded DEF OpToRel
<1> SUFFICES ASSUME Rest # {} PROVE FALSE
  OBVIOUS
<1>2. PICK x \in Rest : \A y \in Rest : <<y, x>> \notin Less
  <2>1. Rest \subseteq Nat
    OBVIOUS
  <2> HIDE DEF Less, Rest
  <2> QED
    BY <1>1, <2>1, WFMin
<1>3. x \in Nat /\ x # 0 /\ x - 1 \in Nat
  OBVIOUS
<1>4. x - 1 \notin S
  BY <1>3
<1>5. <<x - 1, x>> \in Less
  BY <1>3
<1> QED
  BY <1>2, <1>3, <1>4, <1>5

Some(s) == CHOOSE p \in s : TRUE

\* The equation of the function that FoldFunction takes its value from.
SumOver(D, f, g) == [s \in D |-> IF s = {} THEN 0 ELSE f[Some(s)] + g[s \ {Some(s)}]]

\* A set without one of its elements has one less.
LEMMA WithoutOne ==
    ASSUME NEW s, IsFiniteSet(s), s # {}
    PROVE  /\ Some(s) \in s
           /\ \A p \in s : /\ IsFiniteSet(s \ {p}) /\ Cardinality(s) \in Nat \ {0}
                           /\ Cardinality(s \ {p}) = Cardinality(s) - 1
<1>1. Some(s) \in s
  BY DEF Some
<1>2. ASSUME NEW p \in s
      PROVE  /\ IsFiniteSet(s \ {p}) /\ Cardinality(s) \in Nat \ {0}
             /\ Cardinality(s \ {p}) = Cardinality(s) - 1
  BY FS_RemoveElement, FS_CardinalityType, FS_EmptySet
<1> QED
  BY <1>1, <1>2

\* The function exists: it is built up from the empty set.
LEMMA SumExists ==
    ASSUME NEW W, IsFiniteSet(W), NEW f
    PROVE  \E g : g = SumOver(SUBSET W, f, g)
<1> DEFINE Small(m) == {s \in SUBSET W : Cardinality(s) <= m}
           S == {m \in Nat : \E g : g = SumOver(Small(m), f, g)}
<1>1. \A s \in SUBSET W : IsFiniteSet(s) /\ Cardinality(s) \in Nat
  BY FS_Subset, FS_CardinalityType
<1>2. 0 \in S
  <2>1. Small(0) = {{}}
    <3>1. \A s \in SUBSET W : Cardinality(s) <= 0 <=> s = {}
      BY <1>1, FS_EmptySet
    <3> QED
      BY <3>1
  <2> HIDE DEF Small
  <2> DEFINE g == [s \in Small(0) |-> 0]
  <2>2. g = SumOver(Small(0), f, g)
    BY <2>1 DEF SumOver
  <2> QED
    BY <2>2
<1>3. ASSUME NEW m \in Nat, m \in S PROVE m + 1 \in S
  <2>1. PICK g : g = SumOver(Small(m), f, g)
    BY <1>3
  <2> DEFINE h == SumOver(Small(m + 1), f, g)
  <2>2. ASSUME NEW s \in Small(m + 1), s # {}
        PROVE  s \ {Some(s)} \in Small(m) /\ s \ {Some(s)} \in Small(m + 1)
    <3>1. Cardinality(s \ {Some(s)}) = Cardinality(s) - 1 /\ Cardinality(s) <= m + 1
      BY <1>1, <2>2, WithoutOne
    <3>2. Cardinality(s \ {Some(s)}) \in Nat /\ Cardinality(s) \in Nat
      BY <1>1
    <3>3. Cardinality(s \ {Some(s)}) <= m /\ Cardinality(s \ {Some(s)}) <= m + 1
      BY ONLY <3>1, <3>2, <1>3
    <3> QED
      BY <3>3
  <2>3. \A s \in Small(m) : s \in Small(m + 1)
    BY <1>1
  <2> HIDE DEF Small
  <2>4. \A s \in Small(m) : g[s] = IF s = {} THEN 0 ELSE f[Some(s)] + g[s \ {Some(s)}]
    BY <2>1 DEF SumOver
  <2>5. \A s \in Small(m + 1) : h[s] = IF s = {} THEN 0 ELSE f[Some(s)] + g[s \ {Some(s)}]
    BY DEF SumOver
  <2>6. \A s \in Small(m) : h[s] = g[s]
    BY <2>3, <2>4, <2>5
  <2>7. h = SumOver(Small(m + 1), f, h)
    <3> SUFFICES ASSUME NEW s \in Small(m + 1)
                 PROVE  (IF s = {} THEN 0 ELSE f[Some(s)] + g[s \ {Some(s)}]) =
                            (IF s = {} THEN 0 ELSE f[Some(s)] + h[s \ {Some(s)}])
      BY DEF SumOver
    <3> HIDE DEF h
    <3> QED
      BY <2>2, <2>6
  <2> QED
    BY <2>7
<1>4. Cardinality(W) \in S
  <2>1. Cardinality(W) \in Nat
    BY FS_CardinalityType
  <2> HIDE DEF S
  <2> QED
    BY <1>2, <1>3, <2>1, Induction
<1>5. Small(Cardinality(W)) = SUBSET W
  <2>1. \A s \in SUBSET W : Cardinality(s) <= Cardinality(W)
    BY FS_Subset
  <2> QED
    BY <2>1
<1> HIDE DEF Small
<1> QED
  BY <1>4, <1>5

\* g gives the sum of f over each part of W, whatever the order.
IsSum(g, f, W) ==
    /\ g \in [SUBSET W -> Nat]
    /\ g[{}] = 0
    /\ \A s \in SUBSET W : \A p \in s : g[s] = f[p] + g[s \ {p}]

LEMMA FoldIsSum ==
    ASSUME NEW W, IsFiniteSet(W), NEW f \in [W -> Nat],
           NEW g, g = SumOver(SUBSET W, f, g)
    PROVE  IsSum(g, f, W)
<1> DEFINE Any(s) == g[s] \in Nat /\ \A p \in s : g[s] = f[p] + g[s \ {p}]
           S == {m \in Nat : \A s \in SUBSET W : Cardinality(s) <= m => Any(s)}
<1>1. \A s \in SUBSET W : IsFiniteSet(s) /\ Cardinality(s) \in Nat
  BY FS_Subset, FS_CardinalityType
<1>2. \A s \in SUBSET W : g[s] = IF s = {} THEN 0 ELSE f[Some(s)] + g[s \ {Some(s)}]
  BY DEF SumOver
<1>4. g[{}] = 0
  BY <1>2
<1>5. 0 \in S
  <2>1. \A s \in SUBSET W : Cardinality(s) <= 0 => s = {}
    BY <1>1, FS_EmptySet
  <2>2. Any({})
    BY <1>4
  <2> HIDE DEF Any
  <2> QED
    BY <2>1, <2>2
<1>6. ASSUME NEW m \in Nat, m \in S PROVE m + 1 \in S
  <2> SUFFICES ASSUME NEW s \in SUBSET W, Cardinality(s) <= m + 1, s # {} PROVE Any(s)
    <3>1. \A s \in SUBSET W : s = {} => Any(s)
      BY <1>4
    <3>2. \A s \in SUBSET W : Cardinality(s) <= m + 1 => Any(s)
      BY <3>1
    <3> HIDE DEF Any
    <3> QED
      BY <3>2
  <2>1. ASSUME NEW r \in SUBSET s, NEW p \in r PROVE Any(r \ {p})
    <3>1. IsFiniteSet(r) /\ Cardinality(r) <= Cardinality(s)
      BY <1>1, FS_Subset
    <3>2. Cardinality(r \ {p}) = Cardinality(r) - 1 /\ r \ {p} \in SUBSET W
      BY <3>1, WithoutOne
    <3>3. Cardinality(r) \in Nat /\ Cardinality(s) \in Nat
      BY <1>1
    <3>4. Cardinality(r \ {p}) <= m
      BY ONLY <3>1, <3>2, <3>3, <1>6, Cardinality(s) <= m + 1
    <3> QED
      BY <1>6, <3>2, <3>4
  <2> DEFINE q == Some(s)
  <2>2. q \in s
    BY <1>1, WithoutOne
  <2>3. g[s] = f[q] + g[s \ {q}]
    BY <1>2
  <2>4. g[s \ {q}] \in Nat /\ f[q] \in Nat
    BY <2>1, <2>2
  <2>5. g[s] \in Nat
    BY <2>3, <2>4
  <2>6. ASSUME NEW p \in s, p # q PROVE g[s] = f[p] + g[s \ {p}]
    <3> DEFINE rest == (s \ {p}) \ {q}
    <3>1. rest = (s \ {q}) \ {p} /\ p \in s \ {q} /\ q \in s \ {p}
      BY <2>2, <2>6
    <3>2. g[s \ {q}] = f[p] + g[rest] /\ g[s \ {p}] = f[q] + g[rest]
      <4>1. Any(s \ {q}) /\ Any(s \ {p})
        <5>1. s \in SUBSET s
          OBVIOUS
        <5> HIDE DEF Any
        <5> QED
          BY <2>1, <2>2, <5>1
      <4>2. g[s \ {q}] = f[p] + g[(s \ {q}) \ {p}]
        BY <3>1, <4>1
      <4>3. g[s \ {p}] = f[q] + g[(s \ {p}) \ {q}]
        BY <3>1, <4>1
      <4> HIDE DEF q
      <4> QED
        BY <3>1, <4>2, <4>3
    <3>3. g[rest] \in Nat
      <4>1. Any((s \ {p}) \ {q})
        BY <2>1, <3>1
      <4> QED
        BY <4>1
    <3>4. f[p] \in Nat
      OBVIOUS
    <3> HIDE DEF rest, q
    <3> QED
      BY <2>3, <2>4, <3>2, <3>3, <3>4
  <2> QED
    BY <2>3, <2>5, <2>6
<1>7. Nat \subseteq S
  <2> HIDE DEF S
  <2> QED
    BY <1>5, <1>6, Induction
<1>8. \A s \in SUBSET W : Any(s)
  <2> TAKE s \in SUBSET W
  <2>1. Cardinality(s) \in Nat /\ Cardinality(s) <= Cardinality(s)
    BY <1>1
  <2> HIDE DEF Any
  <2> QED
    BY <1>7, <2>1
<1>9. g \in [SUBSET W -> Nat]
  <2>1. g = [s \in SUBSET W |-> g[s]]
    BY DEF SumOver
  <2> QED
    BY <1>8, <2>1
<1> QED
  BY <1>4, <1>8, <1>9 DEF IsSum

\* Functions that agree on a set have the same sum over it.
Agree(f, k, T) == \A p \in T : f[p] = k[p]
LEMMA SumsAgree ==
    ASSUME NEW W, IsFiniteSet(W), NEW f, NEW g, NEW h, NEW k, IsSum(g, f, W), IsSum(h, k, W),
           NEW T \in SUBSET W, Agree(f, k, T)
    PROVE  g[T] = h[T]
<1> USE DEF Agree
<1> DEFINE S == {m \in Nat : \A s \in SUBSET T : Cardinality(s) <= m => g[s] = h[s]}
<1>1. \A s \in SUBSET T : IsFiniteSet(s) /\ Cardinality(s) \in Nat
  BY FS_Subset, FS_CardinalityType
<1>2. 0 \in S
  <2>1. \A s \in SUBSET T : Cardinality(s) <= 0 => s = {}
    BY <1>1, FS_EmptySet
  <2>2. g[{}] = h[{}]
    BY DEF IsSum
  <2> QED
    BY <2>1, <2>2
<1>3. ASSUME NEW m \in Nat, m \in S PROVE m + 1 \in S
  <2>0. g[{}] = h[{}]
    BY DEF IsSum
  <2> SUFFICES ASSUME NEW s \in SUBSET T, Cardinality(s) <= m + 1, s # {} PROVE g[s] = h[s]
    BY <2>0
  <2> DEFINE q == Some(s)
  <2>1. q \in s /\ Cardinality(s \ {q}) = Cardinality(s) - 1
    BY <1>1, WithoutOne
  <2>2. Cardinality(s \ {q}) <= m
    <3>1. Cardinality(s) \in Nat
      BY <1>1
    <3> QED
      BY <2>1, <3>1
  <2>3. g[s \ {q}] = h[s \ {q}]
    BY <1>3, <2>2
  <2>4. g[s] = f[q] + g[s \ {q}] /\ h[s] = k[q] + h[s \ {q}]
    BY <2>1 DEF IsSum
  <2> QED
    BY <2>1, <2>3, <2>4
<1>4. Cardinality(T) \in Nat /\ Cardinality(T) <= Cardinality(T) /\ T \in SUBSET T
  BY <1>1
<1>5. Cardinality(T) \in S
  <2> HIDE DEF S
  <2> QED
    BY <1>2, <1>3, <1>4, Induction
<1> QED
  BY <1>4, <1>5

\* FoldFunction(+, 0, f) is such a sum.
SumOf(f) == FoldFunction(+, 0, f)

LEMMA FoldSums ==
    ASSUME NEW W, IsFiniteSet(W), NEW f \in [W -> Nat]
    PROVE  \E g : IsSum(g, f, W) /\ SumOf(f) = g[W]
<1> DEFINE h == CHOOSE g : g = SumOver(SUBSET W, f, g)
<1>1. h = SumOver(SUBSET W, f, h)
  BY SumExists
<1>2. SumOf(f) = h[W]
  <2>1. DOMAIN f = W
    OBVIOUS
  <2> QED
    BY <2>1 DEF SumOf, FoldFunction, FoldFunctionOnSet, MapThenFoldSet, SumOver, Some
<1> HIDE DEF h
<1>3. IsSum(h, f, W)
  BY <1>1, FoldIsSum
<1> QED
  BY <1>2, <1>3

\* The sum of no cost is zero; a response that sets a cost of zero to n adds n.
LEMMA SumOfNone ==
    ASSUME NEW W, IsFiniteSet(W)
    PROVE  SumOf([p \in W |-> 0]) = 0
<1> DEFINE f == [p \in W |-> 0]
           z == [s \in SUBSET W |-> 0]
<1>1. f \in [W -> Nat] /\ IsSum(z, f, W)
  BY DEF IsSum
<1>2. W \in SUBSET W /\ Agree(f, f, W)
  BY DEF Agree
<1>3. z[W] = 0
  OBVIOUS
<1> HIDE DEF f, z
<1>4. PICK g : IsSum(g, f, W) /\ SumOf(f) = g[W]
  BY <1>1, FoldSums
<1>5. g[W] = z[W]
  BY <1>1, <1>2, <1>4, SumsAgree
<1> QED
  BY <1>3, <1>4, <1>5 DEF f

LEMMA SumAdds ==
    ASSUME NEW W, IsFiniteSet(W), NEW f \in [W -> Nat], NEW r \in W, NEW n \in Nat, f[r] = 0
    PROVE  SumOf([f EXCEPT ![r] = n]) = SumOf(f) + n
<1> DEFINE k == [f EXCEPT ![r] = n]
<1>1. k \in [W -> Nat] /\ k[r] = n /\ \A p \in W \ {r} : f[p] = k[p]
  OBVIOUS
<1> HIDE DEF k
<1>2. PICK g : IsSum(g, f, W) /\ SumOf(f) = g[W]
  BY FoldSums
<1>3. PICK h : IsSum(h, k, W) /\ SumOf(k) = h[W]
  BY <1>1, FoldSums
<1>4. g[W \ {r}] = h[W \ {r}] /\ g[W \ {r}] \in Nat
  <2> DEFINE T == W \ {r}
  <2>1. T \in SUBSET W /\ Agree(f, k, T)
    BY <1>1 DEF Agree
  <2>2. g[T] = h[T]
    <3> HIDE DEF T
    <3> QED
      BY <1>2, <1>3, <2>1, SumsAgree
  <2> QED
    BY <1>2, <2>2 DEF IsSum
<1>5. g[W] = f[r] + g[W \ {r}] /\ h[W] = k[r] + h[W \ {r}]
  BY <1>2, <1>3 DEF IsSum
<1>6. h[W] = g[W] + n
  BY <1>1, <1>4, <1>5
<1> QED
  BY <1>2, <1>3, <1>6 DEF k

-----------------------------------------------------------------------------
\* Metrics

\* The requests that were timed.
Timed == Served \cup Crashed

\* A request has no status and no cost before its response, and a retriever is
\* cached for a collection that exists.
MetricsInv ==
    /\ total \in Nat /\ errors \in Nat /\ latencies \in Nat /\ tokens \in Nat
    /\ \A r \in Request : pc[r] # "responded" => status[r] = 0 /\ cost[r] = 0
    /\ \A k \in DOMAIN retrievers : k \in Provisioned
    /\ total = Cardinality(Served)
    /\ latencies = Cardinality(Timed)
    /\ errors >= Cardinality(Crashed)
    /\ tokens = SumOf(cost)

LEMMA RequestsFinite ==
    ASSUME NEW S \in SUBSET Request
    PROVE  IsFiniteSet(S) /\ Cardinality(S) \in Nat
  BY ServiceAssumption, FS_Subset, FS_CardinalityType DEF ServiceAssumption

\* One more request is counted once.
LEMMA OneMore ==
    ASSUME NEW S \in SUBSET Request, NEW r \in Request, r \notin S
    PROVE  Cardinality(S \cup {r}) = Cardinality(S) + 1
  BY RequestsFinite, FS_AddElement

LEMMA MetricsInit == Init => MetricsInv
<1> SUFFICES ASSUME Init PROVE MetricsInv
  OBVIOUS
<1>1. \A r \in Request : status[r] = 0 /\ cost[r] = 0
  BY DEF Init
<1>2. Served = {} /\ Crashed = {} /\ Timed = {}
  BY <1>1 DEF Served, Crashed, Timed
<1>3. Cardinality(Served) = 0 /\ Cardinality(Crashed) = 0 /\ Cardinality(Timed) = 0
  BY <1>2, FS_EmptySet
<1>4. SumOf(cost) = 0
  <2>1. cost = [r \in Request |-> 0]
    BY DEF Init
  <2>2. IsFiniteSet(Request)
    BY ServiceAssumption DEF ServiceAssumption
  <2> QED
    BY <2>1, <2>2, SumOfNone
<1>5. total = 0 /\ errors = 0 /\ latencies = 0 /\ tokens = 0 /\ retrievers = << >>
  BY DEF Init
<1>6. \A k : k \notin DOMAIN retrievers
  BY <1>5
<1> QED
  BY <1>1, <1>3, <1>4, <1>5, <1>6 DEF MetricsInv

\* A step that neither serves nor fails a request of the pipeline.
LEMMA MetricsStand ==
    ASSUME MetricsInv, Served' = Served, Crashed' = Crashed,
           UNCHANGED <<total, errors, latencies, tokens, cost>>,
           \A r \in Request : pc'[r] # "responded" => status'[r] = 0 /\ cost'[r] = 0,
           \A k \in DOMAIN retrievers' : k \in Provisioned
    PROVE  MetricsInv'
<1>1. Timed' = Timed
  BY DEF Timed
<1> QED
  BY <1>1 DEF MetricsInv

\* A request that is let in, that moves on, or whose response is no answer.
LEMMA MetricsMove ==
    ASSUME MetricsInv, NEW r \in Request, pc[r] # "responded",
           \A s \in Request \ {r} :
               pc'[s] = pc[s] /\ status'[s] = status[s] /\ tenant'[s] = tenant[s],
           status'[r] \in {0, 401, 422, 429, 500},
           pc'[r] # "responded" => status'[r] = 0,
           status'[r] = 500 => CollectionOf[tenant'[r]] \notin Provisioned,
           UNCHANGED <<cost, total, errors, latencies, tokens>>,
           \A k \in DOMAIN retrievers' : k \in Provisioned
    PROVE  MetricsInv'
<1>1. status[r] = 0 /\ cost[r] = 0
  BY DEF MetricsInv
<1>2. Served' = Served
  BY <1>1 DEF Served
<1>3. Crashed' = Crashed
  BY <1>1 DEF Crashed
<1>4. \A s \in Request : pc'[s] # "responded" => status'[s] = 0 /\ cost'[s] = 0
  BY <1>1 DEF MetricsInv
<1> QED
  BY <1>2, <1>3, <1>4, MetricsStand

\* A response that reports a cost is counted, timed and paid for once.
LEMMA MetricsRespond ==
    ASSUME MetricsInv, CostInv, NEW r \in Request, NEW n \in Nat, NEW reply, NEW from,
           pc[r] \in Working, Paid(r, n), Respond(r, reply, from),
           errors' \in {errors, errors + 1}
    PROVE  MetricsInv'
<1>1. /\ latencies' = latencies + 1 /\ total' = total + 1 /\ tokens' = tokens + lists'[held[r]]
      /\ cost' = [cost EXCEPT ![r] = lists'[held[r]]]
      /\ status' = [status EXCEPT ![r] = 200] /\ pc' = [pc EXCEPT ![r] = "responded"]
      /\ UNCHANGED <<tenant, retrievers>>
  BY DEF Respond, RespondWith, Goto, inputVars
<1>2. pc[r] # "responded"
  BY DEF Working
<1>3. status[r] = 0 /\ cost[r] = 0
  BY <1>2 DEF MetricsInv
<1>4. Served' = Served \cup {r} /\ r \notin Served
  BY <1>1, <1>3 DEF Served, CostInv
<1>5. Crashed' = Crashed /\ r \notin Crashed
  BY <1>1, <1>3 DEF Crashed, CostInv
<1>6. Timed' = Timed \cup {r} /\ r \notin Timed
  BY <1>4, <1>5 DEF Timed
<1>7. Cardinality(Served') = Cardinality(Served) + 1 /\ Cardinality(Timed') = Cardinality(Timed) + 1
  <2>1. Served \in SUBSET Request /\ Timed \in SUBSET Request
    BY DEF Served, Crashed, Timed
  <2> QED
    BY <1>4, <1>6, <2>1, OneMore
<1>8. lists'[held[r]] \in Nat
  BY PaidOwn
<1>9. SumOf(cost') = SumOf(cost) + lists'[held[r]]
  <2>1. cost \in [Request -> Nat] /\ IsFiniteSet(Request)
    BY ServiceAssumption DEF CostInv, ServiceAssumption
  <2> QED
    BY <1>1, <1>3, <1>8, <2>1, SumAdds
<1>10. \A s \in Request : pc'[s] # "responded" => status'[s] = 0 /\ cost'[s] = 0
  BY <1>1 DEF MetricsInv, CostInv
<1>11. Cardinality(Crashed) \in Nat
  <2>1. Crashed \in SUBSET Request
    BY DEF Crashed
  <2> QED
    BY <2>1, RequestsFinite
<1>12. errors' \in Nat /\ errors' >= Cardinality(Crashed')
  BY <1>5, <1>11 DEF MetricsInv
<1>13. tokens' = SumOf(cost')
  BY <1>1, <1>9 DEF MetricsInv
<1>14. total' \in Nat /\ latencies' \in Nat /\ tokens' \in Nat
  BY <1>1, <1>8 DEF MetricsInv
<1>15. total' = Cardinality(Served') /\ latencies' = Cardinality(Timed')
  BY <1>1, <1>7 DEF MetricsInv
<1>16. \A k \in DOMAIN retrievers' : k \in Provisioned
  BY <1>1 DEF MetricsInv
<1> QED
  BY <1>10, <1>12, <1>13, <1>14, <1>15, <1>16 DEF MetricsInv

\* A request that fails in the pipeline is timed and counted as an error.
LEMMA MetricsFail ==
    ASSUME MetricsInv, CostInv, IsolationInv, NEW r \in Request, OtherFails(r)
    PROVE  MetricsInv'
<1>1. /\ pc[r] \in Working
      /\ errors' = errors + 1 /\ latencies' = latencies + 1
      /\ status' = [status EXCEPT ![r] = 500] /\ pc' = [pc EXCEPT ![r] = "responded"]
      /\ UNCHANGED <<tenant, retrievers, cost, total, tokens>>
  BY DEF OtherFails, RespondWith, Goto, inputVars
<1>2. pc[r] # "responded"
  BY <1>1 DEF Working
<1>3. status[r] = 0 /\ cost[r] = 0
  BY <1>2 DEF MetricsInv
<1>4. CollectionOf[tenant[r]] \in Provisioned
  BY <1>1 DEF IsolationInv, HasRetriever, MetricsInv
<1>5. Served' = Served
  BY <1>1, <1>3 DEF Served, CostInv
<1>6. r \notin Served /\ r \notin Crashed
  BY <1>3 DEF Served, Crashed
<1>7. Crashed' = Crashed \cup {r}
  BY <1>1, <1>3, <1>4 DEF Crashed, CostInv
<1>8. Timed' = Timed \cup {r} /\ r \notin Timed
  BY <1>5, <1>6, <1>7 DEF Timed
<1>9. Cardinality(Crashed') = Cardinality(Crashed) + 1 /\ Cardinality(Timed') = Cardinality(Timed) + 1
      /\ Cardinality(Crashed) \in Nat
  <2>1. Crashed \in SUBSET Request /\ Timed \in SUBSET Request
    BY DEF Served, Crashed, Timed
  <2> QED
    BY <1>6, <1>7, <1>8, <2>1, OneMore, RequestsFinite
<1>10. \A s \in Request : pc'[s] # "responded" => status'[s] = 0 /\ cost'[s] = 0
  BY <1>1 DEF MetricsInv, CostInv
<1>11. errors' \in Nat /\ errors' >= Cardinality(Crashed')
  BY <1>1, <1>9 DEF MetricsInv
<1>12. latencies' \in Nat /\ latencies' = Cardinality(Timed')
  BY <1>1, <1>9 DEF MetricsInv
<1>13. total' \in Nat /\ total' = Cardinality(Served') /\ tokens' \in Nat /\ tokens' = SumOf(cost')
  BY <1>1, <1>5 DEF MetricsInv
<1>14. \A k \in DOMAIN retrievers' : k \in Provisioned
  BY <1>1 DEF MetricsInv
<1> QED
  BY <1>10, <1>11, <1>12, <1>13, <1>14 DEF MetricsInv

LEMMA MetricsNext == IsolationInv /\ CostInv /\ MetricsInv /\ [Next]_vars => MetricsInv'
<1> SUFFICES ASSUME IsolationInv, CostInv, MetricsInv, [Next]_vars PROVE MetricsInv'
  OBVIOUS
<1>0. /\ \A k \in DOMAIN retrievers : k \in Provisioned
      /\ \A r \in Request : pc[r] # "responded" => status[r] = 0 /\ cost[r] = 0
  BY DEF MetricsInv
<1>1. ASSUME NEW r \in Request, NEW t, Admit(r, t) \/ AdmitFailingOpen(r, t) PROVE MetricsInv'
  <2>1. /\ pc[r] = "idle" /\ pc' = [pc EXCEPT ![r] = "admitted"]
        /\ tenant' = [tenant EXCEPT ![r] = t]
        /\ UNCHANGED <<status, retrievers, cost, total, errors, latencies, tokens>>
    BY <1>1 DEF Admit, AdmitFailingOpen, LetIn, Goto, resultVars, metrics
  <2>2. pc[r] # "responded" /\ status'[r] = 0
    BY <1>0, <2>1
  <2>3. \A s \in Request \ {r} :
            pc'[s] = pc[s] /\ status'[s] = status[s] /\ tenant'[s] = tenant[s]
    BY <2>1 DEF IsolationInv, Fields
  <2> QED
    BY <1>0, <2>1, <2>2, <2>3, MetricsMove
<1>2. ASSUME NEW r \in Request, CapReached(r) \/ TurnAway(r) \/ BuildFails(r) PROVE MetricsInv'
  <2>1. /\ pc[r] # "responded"
        /\ UNCHANGED <<tenant, retrievers, cost, total, errors, latencies, tokens>>
    BY <1>2 DEF CapReached, TurnAway, BuildFails, inputVars, metrics
  <2>2. PICK code \in {401, 422, 429, 500} :
            RespondWith(r, code) /\ (code = 500 => BuildFails(r))
    BY <1>2 DEF CapReached, TurnAway, BuildFails
  <2>3. pc' = [pc EXCEPT ![r] = "responded"] /\ status' = [status EXCEPT ![r] = code]
    BY <2>2 DEF RespondWith, Goto
  <2>4. code = 500 => CollectionOf[tenant'[r]] \notin Provisioned
    BY <2>1, <2>2 DEF BuildFails, Usable
  <2>5. /\ \A s \in Request \ {r} :
               pc'[s] = pc[s] /\ status'[s] = status[s] /\ tenant'[s] = tenant[s]
        /\ status'[r] = code /\ pc'[r] = "responded"
    BY <2>1, <2>3 DEF CostInv
  <2> QED
    BY <1>0, <2>1, <2>4, <2>5, MetricsMove
<1>3. ASSUME NEW r \in Request, Enter(r) PROVE MetricsInv'
  <2> DEFINE own == CollectionOf[tenant[r]]
  <2>1. /\ pc[r] = "admitted" /\ Usable(own) /\ retrievers' = Cached(own)
        /\ UNCHANGED <<tenant, status, cost, total, errors, latencies, tokens>>
    BY <1>3 DEF Enter, inputVars, resultVars, metrics
  <2>2. PICK where \in {"retrieve", "correct"} : pc' = [pc EXCEPT ![r] = where]
    BY <1>3 DEF Enter, Goto
  <2>3. \A k \in DOMAIN retrievers' : k \in Provisioned
    BY <1>0, <2>1 DEF Cached, Usable, CacheKey
  <2>4. pc[r] # "responded" /\ status'[r] = 0
    BY <1>0, <2>1
  <2>5. \A s \in Request \ {r} :
            pc'[s] = pc[s] /\ status'[s] = status[s] /\ tenant'[s] = tenant[s]
    BY <2>1, <2>2 DEF CostInv
  <2> QED
    BY <2>1, <2>3, <2>4, <2>5, MetricsMove
<1>4. ASSUME NEW r \in Request, Retrieve(r) \/ CorrectiveCall(r) PROVE MetricsInv'
  <2>1. PICK where : pc' = [pc EXCEPT ![r] = where]
    BY <1>4 DEF Retrieve, CorrectiveCall, Goto, CostInv
  <2>2. /\ pc[r] # "responded" /\ UNCHANGED <<tenant, status, cost, total, errors, latencies, tokens, retrievers>>
    BY <1>4 DEF Retrieve, CorrectiveCall, inputVars, resultVars, metrics
  <2>3. status'[r] = 0
    BY <1>0, <2>2
  <2>4. \A s \in Request \ {r} :
            pc'[s] = pc[s] /\ status'[s] = status[s] /\ tenant'[s] = tenant[s]
    BY <2>1, <2>2 DEF CostInv
  <2> QED
    BY <1>0, <2>2, <2>3, <2>4, MetricsMove
<1>5. ASSUME NEW r \in Request, GenerateNothing(r) \/ Generate(r) \/ Correct(r) \/ OpenAIFails(r)
      PROVE  MetricsInv'
  <2>1. pc[r] \in Working
    BY <1>5 DEF GenerateNothing, Generate, Correct, OpenAIFails, Working
  <2>2. PICK n \in {0, 1} : \E reply, from : Paid(r, n) /\ Respond(r, reply, from)
    BY <1>5 DEF GenerateNothing, Generate, Correct, OpenAIFails
  <2>3. PICK reply, from : Paid(r, n) /\ Respond(r, reply, from)
    BY <2>2
  <2>4. errors' \in {errors, errors + 1}
    BY <1>5 DEF GenerateNothing, Generate, Correct, OpenAIFails
  <2> QED
    BY <2>1, <2>3, <2>4, MetricsRespond
<1>6. ASSUME Midnight \/ CounterLost \/ UNCHANGED vars PROVE MetricsInv'
  <2>1. UNCHANGED <<pc, tenant, status, cost, total, errors, latencies, tokens, retrievers>>
    BY <1>6 DEF Midnight, CounterLost, vars, inputVars, resultVars, metrics
  <2>2. Served' = Served /\ Crashed' = Crashed
    BY <2>1 DEF Served, Crashed
  <2>3. \A r \in Request : pc'[r] # "responded" => status'[r] = 0 /\ cost'[r] = 0
    BY <1>0, <2>1
  <2> QED
    BY <1>0, <2>1, <2>2, <2>3, MetricsStand
<1> QED
  BY <1>1, <1>2, <1>3, <1>4, <1>5, <1>6, MetricsFail DEF Next, Arrive, Serve

\* The Prometheus counters agree with the responses, for any number of requests
\* and however their awaits interleave: what is counted, timed or summed in one
\* step with a response is counted once (api/server.py _do_query).
THEOREM MetricsTheorem == Spec => []MetricsAgree
<1>1. Init => IsolationInv /\ CostInv /\ MetricsInv
  BY IsolationInit, CostInit, MetricsInit
<1>2. IsolationInv /\ CostInv /\ MetricsInv /\ [Next]_vars => (IsolationInv /\ CostInv /\ MetricsInv)'
  BY IsolationNext, CostNext, MetricsNext
<1>3. MetricsInv => MetricsAgree
  BY DEF MetricsInv, MetricsAgree, SumOf, Timed
<1> QED
  BY <1>1, <1>2, <1>3, PTL DEF Spec
-----------------------------------------------------------------------------
\* The types of the variables

\* A response has one of the codes of the middleware, the dependencies and the
\* handler, and a failed capture is that of a request.
CodesInv ==
    /\ status \in [Request -> {0, 200, 401, 422, 429, 500}]
    /\ missed \subseteq Request

LEMMA CodesNext == CodesInv /\ [Next]_vars => CodesInv'
<1> SUFFICES ASSUME CodesInv, [Next]_vars PROVE CodesInv'
  OBVIOUS
<1>1. ASSUME NEW r \in Request, NEW code \in {200, 401, 422, 429, 500}, RespondWith(r, code), missed' \subseteq Request
      PROVE  CodesInv'
  BY <1>1 DEF CodesInv, RespondWith
<1>2. ASSUME NEW r \in Request, NEW t \in Tenant \cup {NoTenant}, Admit(r, t) \/ AdmitFailingOpen(r, t)
      PROVE  CodesInv'
  BY <1>2 DEF Admit, AdmitFailingOpen, LetIn, resultVars, CodesInv
<1>3. ASSUME NEW r \in Request, CapReached(r) \/ BuildFails(r) \/ OtherFails(r) PROVE CodesInv'
  <2>1. missed' = missed /\ (RespondWith(r, 429) \/ RespondWith(r, 500))
    BY <1>3 DEF CapReached, BuildFails, OtherFails
  <2> QED
    BY <1>1, <2>1 DEF CodesInv
<1>4. ASSUME NEW r \in Request, TurnAway(r) PROVE CodesInv'
  <2>1. missed' = missed /\ \E code \in {401, 422, 429} : RespondWith(r, code)
    BY <1>4 DEF TurnAway
  <2> QED
    BY <1>1, <2>1 DEF CodesInv
<1>5. ASSUME NEW r \in Request, Enter(r) \/ Retrieve(r) \/ CorrectiveCall(r) PROVE CodesInv'
  <2>1. UNCHANGED <<status, missed>>
    BY <1>5 DEF Enter, Retrieve, CorrectiveCall, resultVars
  <2> QED
    BY <2>1 DEF CodesInv
<1>6. ASSUME NEW r \in Request, GenerateNothing(r) \/ Generate(r) \/ Correct(r) \/ OpenAIFails(r) PROVE CodesInv'
  <2>1. PICK reply \in {"text", "NO_INFO"}, from \in {source[r], Retriever(r), NoCollection} : Respond(r, reply, from)
    BY <1>6 DEF GenerateNothing, Generate, Correct, OpenAIFails
  <2>2. missed' = missed \/ missed' = missed \cup {r}
    BY <2>1 DEF Respond, Capture
  <2>3. RespondWith(r, 200)
    BY <2>1 DEF Respond
  <2> QED
    BY <1>1, <2>2, <2>3 DEF CodesInv
<1>7. CASE Midnight \/ CounterLost \/ UNCHANGED vars
  <2>1. UNCHANGED <<status, missed>>
    BY <1>7 DEF Midnight, CounterLost, vars, resultVars
  <2> QED
    BY <2>1 DEF CodesInv
<1> QED
  BY <1>2, <1>3, <1>4, <1>5, <1>6, <1>7 DEF Next, Arrive, Serve

\* The variables of the service have their types: in particular every retriever
\* in the cache reads a collection that exists (server.py _get_retriever), and a
\* response has one of the codes that the middleware and the handler send.
THEOREM ServiceTypes == Spec => []TypeOK
<1> DEFINE I == IsolationInv /\ CostInv /\ QueueInv /\ PaidInv /\ MetricsInv /\ CodesInv
<1>1. Init => I
  <2>1. Init => CodesInv
    BY DEF Init, CodesInv
  <2> QED
    BY <2>1, IsolationInit, CostInit, QueueInit, PaidInit, MetricsInit
<1>2. I /\ [Next]_vars => I'
  BY IsolationNext, CostNext, QueueNext, PaidNext, MetricsNext, CodesNext
<1>3. I => TypeOK
  <2> SUFFICES ASSUME I PROVE TypeOK
    OBVIOUS
  <2>1. /\ tenant \in [Request -> Tenant \cup {NoTenant}] /\ source \in [Request -> Collection \cup {NoCollection}]
        /\ pc \in [Request -> {"idle", "admitted", "retrieve", "generate", "correct", "responded"}]
    <3>1. Await = {"idle", "admitted", "retrieve", "generate", "correct", "responded"}
      BY DEF Await, Working
    <3> QED
      BY <3>1 DEF IsolationInv, Fields
  <2>2. DOMAIN retrievers \subseteq Collection /\ \A k \in DOMAIN retrievers : retrievers[k] \in Provisioned
    BY ServiceAssumption DEF ServiceAssumption, IsolationInv, CacheKeyed, MetricsInv
  <2>3. calls \in [Request -> Nat] /\ lists \in Seq(Nat) /\ held \in [Request -> Nat]
        /\ context \in [Request -> Nat] /\ cost \in [Request -> Nat]
    BY DEF CostInv
  <2>4. /\ queue \in Seq(Question) /\ question \in [Request -> Question \cup {NoQuestion}]
        /\ answer \in [Request -> {"none", "text", "NO_INFO"}]
    BY DEF QueueInv
  <2>5. day \in [Request -> 0 .. LastDay \cup {NoSlot}]
    BY DEF PaidInv
  <2>6. total \in Nat /\ errors \in Nat /\ latencies \in Nat /\ tokens \in Nat
    BY DEF MetricsInv
  <2>7. status \in [Request -> {0, 200, 401, 422, 429, 500}] /\ missed \subseteq Request
    BY DEF CodesInv
  <2> QED
    BY <2>1, <2>2, <2>3, <2>4, <2>5, <2>6, <2>7 DEF TypeOK
<1> QED
  BY <1>1, <1>2, <1>3, PTL DEF Spec
=============================================================================
