-------------------------------- MODULE Tenancy --------------------------------
(***************************************************************************)
(* Who a request is, and what it may therefore search: the settings that   *)
(* say which key belongs to which tenant (config.py), the resolution of a  *)
(* key and of its rate-limit bucket (api/auth.py), and the three ways in:  *)
(* POST /query, the MCP server over HTTP, whose middleware passes the      *)
(* tenant to the tool in a ContextVar, and the MCP server over stdio       *)
(* (api/mcp_server.py).                                                    *)
(*                                                                         *)
(* A key stands for its SHA-256 digest, a tenant for the collection it is  *)
(* bound to.  Requests are served concurrently, each in an asyncio task    *)
(* with a context of its own; the tool runs in a further task, which the   *)
(* MCP library starts.  Settings change only when the process restarts,    *)
(* and its requests go with it.  So do the limiter's windows, which it     *)
(* keeps in memory: with a REDIS_URL they outlast a restart, which can     *)
(* only add refusals by a bucket that was already used up.  The three ways *)
(* are processes of their own; one that offers all three has every         *)
(* interleaving of theirs.                                                 *)
(***************************************************************************)
EXTENDS Naturals, Sequences, FiniteSets

CONSTANTS
    Request,
    Token,          \* what an Authorization header may carry
    NoToken,        \* no usable Bearer credential
    Address,
    Collection,
    Default,        \* settings.chroma_collection
    NoCollection,   \* None
    Provisioned,    \* the collections that exist in Chroma
    Environments,   \* what the operator may write into the environment
    Quota           \* requests of one bucket that a window lets through

TenantSpec == [key_hashes : SUBSET Token, collection : Collection]

ASSUME TenancyAssumption ==
    /\ NoToken \notin Token
    /\ Default \in Collection /\ NoCollection \notin Collection
    /\ Provisioned \subseteq Collection
    /\ Token \cap Address = {}
    /\ Environments \subseteq [auth : BOOLEAN, allow : SUBSET Token, tenants : Seq(TenantSpec)]
    /\ Quota \in Nat

VARIABLES
    settings,    \* those of the running process, or of the last one
    up,          \* whether the process runs
    route,       \* the way each request came in
    token, address,
    pc,
    tenant,      \* the tenant: a parameter of /query, the ContextVar in the request's task
    task,        \* the ContextVar in the task that runs the tool
    searched,    \* the collection each request searched
    hits,        \* the limiter: the requests counted in each bucket's window
    blamed       \* history: the requests that had used up a refused one's bucket

process == <<settings, up>>
inputs == <<route, token, address>>
vars == <<process, inputs, pc, tenant, task, searched, hits, blamed>>

Route == {"query", "mcp", "stdio"}
Ended == {"rejected", "limited", "failed", "answered"}

TypeOK ==
    /\ settings \in Environments
    /\ up \in BOOLEAN
    /\ route \in [Request -> Route]
    /\ token \in [Request -> Token \cup {NoToken}]
    /\ address \in [Request -> Address]
    /\ pc \in [Request -> {"idle", "arrived", "known", "entered", "called", "searching"} \cup Ended]
    /\ tenant \in [Request -> Collection \cup {NoCollection}]
    /\ task \in [Request -> Collection \cup {NoCollection}]
    /\ searched \in [Request -> Collection \cup {NoCollection}]
    /\ hits \in [Token \cup Address -> SUBSET Request]
    /\ blamed \in [Request -> SUBSET Request]

-----------------------------------------------------------------------------
\* The settings

\* all_key_hashes: the flat allowlist and the keys of every tenant.
AllKeys(s) == s.allow \cup UNION {s.tenants[i].key_hashes : i \in DOMAIN s.tenants}

\* _validate_auth_config: no authentication without a key, and no key in two
\* of the groups.  Whether two tenants share a collection is not looked at.
Validated(s) ==
    /\ s.auth => AllKeys(s) # {}
    /\ \A i, j \in DOMAIN s.tenants :
          i # j => s.tenants[i].key_hashes \cap s.tenants[j].key_hashes = {}
    /\ \A i \in DOMAIN s.tenants : s.tenants[i].key_hashes \cap s.allow = {}

Owners(k) == {i \in DOMAIN settings.tenants : k \in settings.tenants[i].key_hashes}

\* resolve_tenant: the named tenants in their order, then the allowlist.
Resolve(k) ==
    IF Owners(k) # {}
      THEN settings.tenants[CHOOSE i \in Owners(k) : \A j \in Owners(k) : i <= j].collection
      ELSE IF k \in settings.allow THEN Default ELSE NoCollection

Known(k) == k \in AllKeys(settings)

\* Fault: only the flat allowlist makes a key a bucket of its own.
BucketOfAllowlist(r) == IF token[r] \in settings.allow THEN token[r] ELSE address[r]

\* rate_limit_identity: the key, if it is one, also with authentication off.
Bucket(r) == IF Known(token[r]) THEN token[r] ELSE address[r]

-----------------------------------------------------------------------------
\* The process

NoRequests ==
    /\ route' = [r \in Request |-> "stdio"]
    /\ token' = [r \in Request |-> NoToken]
    /\ UNCHANGED address
    /\ pc' = [r \in Request |-> "idle"]
    /\ tenant' = [r \in Request |-> NoCollection]
    /\ task' = [r \in Request |-> NoCollection]
    /\ searched' = [r \in Request |-> NoCollection]
    /\ hits' = [b \in Token \cup Address |-> {}]
    /\ blamed' = [r \in Request |-> {}]

Init ==
    /\ settings \in Environments
    /\ up = FALSE
    /\ route = [r \in Request |-> "stdio"]
    /\ token = [r \in Request |-> NoToken]
    /\ address \in [Request -> Address]
    /\ pc = [r \in Request |-> "idle"]
    /\ tenant = [r \in Request |-> NoCollection]
    /\ task = [r \in Request |-> NoCollection]
    /\ searched = [r \in Request |-> NoCollection]
    /\ hits = [b \in Token \cup Address |-> {}]
    /\ blamed = [r \in Request |-> {}]

\* settings = Settings(): a process that does not get past the validator never
\* serves.
Start(s) ==
    /\ ~up
    /\ Validated(s)
    /\ settings' = s
    /\ up' = TRUE
    /\ NoRequests

\* A restart, or a crash, takes the requests in flight with it.
Stop ==
    /\ up
    /\ up' = FALSE
    /\ NoRequests
    /\ UNCHANGED settings

\* The window of a bucket is over.
Expire(b) ==
    /\ up
    /\ hits[b] # {}
    /\ hits' = [hits EXCEPT ![b] = {}]
    /\ UNCHANGED <<process, inputs, pc, tenant, task, searched, blamed>>

-----------------------------------------------------------------------------
\* The way of a request

Goto(r, where) == pc' = [pc EXCEPT ![r] = where]

Arrive(r, way, t) ==
    /\ up
    /\ pc[r] = "idle"
    /\ route' = [route EXCEPT ![r] = way]
    /\ token' = [token EXCEPT ![r] = t]
    /\ Goto(r, IF way = "stdio" THEN "entered" ELSE "arrived")
    /\ UNCHANGED <<process, address, tenant, task, searched, hits, blamed>>

\* What authentication makes of the header: with it off, everyone is the
\* default tenant.
Identity(r) == IF settings.auth THEN Resolve(token[r]) ELSE Default

\* _current_tenant.set in the task of the request, or the parameter of /query.
SetTenant(r, t) == tenant' = [tenant EXCEPT ![r] = t]

\* require_api_key and TenantAuthMiddleware: 401, or the tenant.
Authenticate(r) ==
    /\ pc[r] = "arrived"
    /\ \/ /\ Identity(r) = NoCollection
          /\ Goto(r, "rejected")
          /\ UNCHANGED tenant
       \/ /\ Identity(r) # NoCollection
          /\ SetTenant(r, Identity(r))
          /\ Goto(r, IF route[r] = "query" THEN "known" ELSE "entered")
    /\ UNCHANGED <<process, inputs, task, searched, hits, blamed>>

\* The decorator of /query counts the request, then compares.
Charge(r) ==
    LET b == Bucket(r)
    IN  /\ pc[r] = "known"
        /\ hits' = [hits EXCEPT ![b] = @ \cup {r}]
        /\ \/ /\ Cardinality(hits[b]) < Quota
              /\ Goto(r, "called")
              /\ UNCHANGED blamed
           \/ /\ Cardinality(hits[b]) >= Quota
              /\ Goto(r, "limited")
              /\ blamed' = [blamed EXCEPT ![r] = hits[b]]
        /\ UNCHANGED <<process, inputs, tenant, task, searched>>

\* Fault: a session's tool runs in the task that its first request started (a
\* session being the requests of one address).
CallToolInSession(r) ==
    LET session == {q \in Request : q # r /\ address[q] = address[r] /\ task[q] # NoCollection}
    IN  /\ pc[r] = "entered"
        /\ task' = [task EXCEPT ![r] = IF session = {} THEN tenant[r] ELSE task[CHOOSE q \in session : TRUE]]
        /\ Goto(r, "called")
        /\ UNCHANGED <<process, inputs, tenant, searched, hits, blamed>>

\* stateless_http: the tool of each request runs in a task started from it,
\* with a copy of its context.
CallTool(r) ==
    /\ pc[r] = "entered"
    /\ task' = [task EXCEPT ![r] = tenant[r]]
    /\ Goto(r, "called")
    /\ UNCHANGED <<process, inputs, tenant, searched, hits, blamed>>

\* What the handler, or the tool, takes for its corpus; None is the default.
Corpus(r) ==
    LET c == IF route[r] = "query" THEN tenant[r] ELSE task[r]
    IN  IF c = NoCollection THEN Default ELSE c

\* build_retriever opens the collection, and raises if it does not exist.
Search(r) ==
    /\ pc[r] = "called"
    /\ Corpus(r) \in Provisioned
    /\ searched' = [searched EXCEPT ![r] = Corpus(r)]
    /\ Goto(r, "searching")
    /\ UNCHANGED <<process, inputs, tenant, task, hits, blamed>>

\* _current_tenant.reset, in the middleware's finally.
Leave(r) == tenant' = [tenant EXCEPT ![r] = IF route[r] = "mcp" THEN NoCollection ELSE @]

\* No question, no collection, or an exception of retrieval or generation.
Fail(r) ==
    /\ pc[r] \in {"called", "searching"}
    /\ Goto(r, "failed")
    /\ Leave(r)
    /\ UNCHANGED <<process, inputs, task, searched, hits, blamed>>

Answer(r) ==
    /\ pc[r] = "searching"
    /\ Goto(r, "answered")
    /\ Leave(r)
    /\ UNCHANGED <<process, inputs, task, searched, hits, blamed>>

Handle(r) ==
    \/ \E way \in Route, t \in Token \cup {NoToken} : Arrive(r, way, t)
    \/ Authenticate(r) \/ Charge(r) \/ CallTool(r) \/ Search(r) \/ Fail(r) \/ Answer(r)

Next ==
    \/ \E s \in Environments : Start(s)
    \/ Stop
    \/ \E b \in Token \cup Address : Expire(b)
    \/ \E r \in Request : Handle(r)

Spec == Init /\ [][Next]_vars

-----------------------------------------------------------------------------
\* Properties

\* A request searches the collection of the one identity its key was given to,
\* whatever else is in flight, whatever the settings before the last restart
\* said, and wherever in the settings the key stands (ADR-0025).
OwnCorpus ==
    \A r \in Request :
        searched[r] # NoCollection =>
            IF route[r] = "stdio" \/ ~settings.auth THEN searched[r] = Default
            ELSE /\ Known(token[r])
                 /\ token[r] \in settings.allow => searched[r] = Default
                 /\ \A i \in Owners(token[r]) : searched[r] = settings.tenants[i].collection

\* Nobody is turned away for what another did: a request is refused as
\* unauthorized only without a known key, and as too frequent only after as
\* many requests with its own key, or, without one, from its own address.
RefusedForItsOwn ==
    \A r \in Request :
        /\ pc[r] = "rejected" => settings.auth /\ ~Known(token[r])
        /\ pc[r] = "limited" =>
              /\ Cardinality(blamed[r]) >= Quota
              /\ \A q \in blamed[r] :
                    IF Known(token[r]) THEN token[q] = token[r]
                    ELSE ~Known(token[q]) /\ address[q] = address[r]
=============================================================================
