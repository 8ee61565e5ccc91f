----------------------------- MODULE TenancyProofs -----------------------------
(***************************************************************************)
(* Theorems about Tenancy, for every set of requests, tokens, addresses,   *)
(* collections and environments.                                           *)
(*                                                                         *)
(* Both properties rest on the validator: in a configuration it accepts, a *)
(* key has one owner, so the first match of resolve_tenant is the only     *)
(* one.  The rest of the invariant follows a request's tenant from the     *)
(* middleware into the tool's task.                                        *)
(***************************************************************************)
EXTENDS Tenancy, TLAPS

\* The collection that a request may search.
Served(r) == IF route[r] = "stdio" THEN Default ELSE Identity(r)

Authenticated(r) == Identity(r) # NoCollection

\* What holds of a request wherever it is.
RequestInv(r) ==
    /\ pc[r] = "idle" => tenant[r] = NoCollection
    /\ pc[r] \in {"idle", "arrived"} => searched[r] = NoCollection
    /\ pc[r] = "arrived" => route[r] # "stdio"
    /\ pc[r] = "known" => route[r] = "query"
    /\ pc[r] \in {"known", "called"} /\ route[r] = "query" => tenant[r] = Identity(r) /\ Authenticated(r)
    /\ pc[r] = "entered" => route[r] # "query"
    /\ pc[r] = "entered" /\ route[r] = "mcp" => tenant[r] = Identity(r) /\ Authenticated(r)
    /\ pc[r] = "entered" /\ route[r] = "stdio" => tenant[r] = NoCollection
    /\ pc[r] = "called" /\ route[r] = "mcp" => task[r] = Identity(r) /\ Authenticated(r)
    /\ pc[r] = "called" /\ route[r] = "stdio" => task[r] = NoCollection
    /\ searched[r] # NoCollection => searched[r] = Served(r)
    /\ pc[r] = "rejected" => ~Authenticated(r)

\* Past its authentication a request keeps its token, hence its bucket.
Past(r) == pc[r] \notin {"idle", "arrived"}

BucketInv ==
    /\ \A b \in Token \cup Address : \A q \in hits[b] : Past(q) /\ Bucket(q) = b
    /\ \A r \in Request : \A q \in blamed[r] : Past(r) /\ Past(q) /\ Bucket(q) = Bucket(r)
    /\ \A r \in Request : pc[r] = "limited" => Cardinality(blamed[r]) >= Quota

IInv ==
    /\ TypeOK
    /\ up => Validated(settings)
    /\ ~up => \A r \in Request : pc[r] = "idle"
    /\ \A r \in Request : RequestInv(r)
    /\ BucketInv

-----------------------------------------------------------------------------
\* The settings

\* What the settings of an environment are made of.
LEMMA SettingsType ==
    ASSUME settings \in Environments
    PROVE  /\ settings.auth \in BOOLEAN
           /\ settings.allow \subseteq Token
           /\ settings.tenants \in Seq(TenantSpec)
           /\ \A i \in DOMAIN settings.tenants :
                 /\ i \in Nat
                 /\ settings.tenants[i].key_hashes \subseteq Token
                 /\ settings.tenants[i].collection \in Collection
<1>1. settings \in [auth : BOOLEAN, allow : SUBSET Token, tenants : Seq(TenantSpec)]
  BY TenancyAssumption
<1>2. \A i \in DOMAIN settings.tenants : i \in Nat /\ settings.tenants[i] \in TenantSpec
  BY <1>1
<1> QED
  BY <1>1, <1>2 DEF TenantSpec

\* A key some group holds is a token.
LEMMA KnownIsToken ==
    ASSUME settings \in Environments, NEW k, Known(k)
    PROVE  k \in Token
BY SettingsType DEF Known, AllKeys

\* In settings that validate, no key is in two groups.
LEMMA OneOwner ==
    ASSUME settings \in Environments, Validated(settings), NEW k
    PROVE  /\ \A i, j \in Owners(k) : i = j
           /\ k \in settings.allow => Owners(k) = {}
BY DEF Validated, Owners

\* A key is known exactly if a tenant or the allowlist holds it.
LEMMA KnownOwned ==
    ASSUME NEW k
    PROVE  Known(k) <=> (Owners(k) # {} \/ k \in settings.allow)
BY DEF Known, AllKeys, Owners

\* resolve_tenant finds the one owner of a key, and none for an unknown key.
LEMMA ResolveOwner ==
    ASSUME settings \in Environments, Validated(settings), NEW k
    PROVE  /\ Resolve(k) \in Collection \cup {NoCollection}
           /\ Resolve(k) # NoCollection <=> Known(k)
           /\ \A i \in Owners(k) : Resolve(k) = settings.tenants[i].collection
           /\ k \in settings.allow => Resolve(k) = Default
<1>1. CASE Owners(k) # {}
  <2>1. PICK i \in Owners(k) : TRUE
    BY <1>1
  <2>2. Owners(k) = {i} /\ k \notin settings.allow
    BY <2>1, OneOwner
  <2>3. i \in Nat /\ settings.tenants[i].collection \in Collection
    BY <2>1, SettingsType DEF Owners
  <2>4. (CHOOSE j \in Owners(k) : \A h \in Owners(k) : j <= h) = i
    BY <2>2, <2>3
  <2>5. Resolve(k) = settings.tenants[i].collection
    BY <1>1, <2>4 DEF Resolve
  <2>6. Known(k)
    BY <1>1, KnownOwned
  <2> QED
    BY <2>2, <2>3, <2>5, <2>6, TenancyAssumption
<1>2. CASE Owners(k) = {}
  BY <1>2, KnownOwned, TenancyAssumption DEF Resolve
<1> QED
  BY <1>1, <1>2

\* Two requests in one bucket are of one key, or both of none and one address.
LEMMA SameBucket ==
    ASSUME TypeOK, NEW q \in Request, NEW r \in Request, Bucket(q) = Bucket(r)
    PROVE  IF Known(token[r]) THEN token[q] = token[r]
           ELSE ~Known(token[q]) /\ address[q] = address[r]
<1>1. settings \in Environments /\ address[q] \in Address /\ address[r] \in Address
  BY DEF TypeOK
<1>2. Token \cap Address = {}
  BY TenancyAssumption
<1>3. Known(token[q]) => token[q] \in Token
  BY <1>1, KnownIsToken
<1>4. Known(token[r]) => token[r] \in Token
  BY <1>1, KnownIsToken
<1> QED
  BY <1>1, <1>2, <1>3, <1>4 DEF Bucket

\* What a request is depends on the settings, its token and its address alone.
LEMMA SameRequest ==
    ASSUME NEW r, UNCHANGED settings, token'[r] = token[r], address'[r] = address[r]
    PROVE  Identity(r)' = Identity(r) /\ Bucket(r)' = Bucket(r)
<1>1. \A k : Owners(k)' = Owners(k)
  BY DEF Owners
<1>2. \A k : Resolve(k)' = Resolve(k)
  BY DEF Resolve, Owners
<1>3. \A k : Known(k)' = Known(k)
  BY DEF Known, AllKeys
<1> QED
  BY <1>2, <1>3 DEF Identity, Bucket

-----------------------------------------------------------------------------
\* The invariant

THEOREM InitInv == Init => IInv
<1> SUFFICES ASSUME Init PROVE IInv
  OBVIOUS
<1>1. TypeOK
  BY DEF Init, TypeOK, Route
<1>2. \A r \in Request : RequestInv(r)
  BY DEF Init, RequestInv
<1>3. BucketInv
  BY DEF Init, BucketInv
<1> QED
  BY <1>1, <1>2, <1>3 DEF Init, IInv

\* A bucket is a token or an address.
LEMMA BucketType ==
    ASSUME TypeOK, NEW r \in Request
    PROVE  Bucket(r) \in Token \cup Address
BY KnownIsToken DEF TypeOK, Bucket

\* An identity is a collection or none.
LEMMA IdentityType ==
    ASSUME TypeOK, Validated(settings), NEW r \in Request
    PROVE  Identity(r) \in Collection \cup {NoCollection}
BY ResolveOwner, TenancyAssumption DEF TypeOK, Identity

\* Every step keeps the types.
LEMMA TypeStep ==
    ASSUME TypeOK, up => Validated(settings), ~up => \A r \in Request : pc[r] = "idle", [Next]_vars
    PROVE  TypeOK'
<1>1. CASE UNCHANGED vars
  BY <1>1 DEF TypeOK, vars, process, inputs
<1>2. ASSUME NEW s \in Environments, Start(s) PROVE TypeOK'
  BY <1>2 DEF TypeOK, Start, NoRequests, Route
<1>3. CASE Stop
  BY <1>3 DEF TypeOK, Stop, NoRequests, Route
<1>4. ASSUME NEW b \in Token \cup Address, Expire(b) PROVE TypeOK'
  BY <1>4 DEF TypeOK, Expire, process, inputs
<1>5. ASSUME NEW r \in Request, NEW way \in Route, NEW t \in Token \cup {NoToken}, Arrive(r, way, t)
      PROVE  TypeOK'
  BY <1>5 DEF TypeOK, Arrive, Goto, process
<1>6. ASSUME NEW r \in Request, Authenticate(r) PROVE TypeOK'
  <2>1. Identity(r) \in Collection \cup {NoCollection}
    BY <1>6, IdentityType DEF Authenticate
  <2> QED
    BY <1>6, <2>1 DEF TypeOK, Authenticate, SetTenant, Goto, process, inputs, Ended
<1>7. ASSUME NEW r \in Request, Charge(r) PROVE TypeOK'
  <2>1. Bucket(r) \in Token \cup Address
    BY BucketType
  <2> QED
    BY <1>7, <2>1 DEF TypeOK, Charge, Goto, process, inputs, Ended
<1>8. ASSUME NEW r \in Request, CallTool(r) PROVE TypeOK'
  BY <1>8 DEF TypeOK, CallTool, Goto, process, inputs
<1>9. ASSUME NEW r \in Request, Search(r) PROVE TypeOK'
  BY <1>9, TenancyAssumption DEF TypeOK, Search, Corpus, Goto, process, inputs
<1>10. ASSUME NEW r \in Request, Fail(r) \/ Answer(r) PROVE TypeOK'
  BY <1>10 DEF TypeOK, Fail, Answer, Leave, Goto, process, inputs, Ended
<1> QED
  BY <1>1, <1>2, <1>3, <1>4, <1>5, <1>6, <1>7, <1>8, <1>9, <1>10 DEF Next, Handle

\* A request's own invariant survives a step that leaves it, its inputs and the
\* settings alone.
LEMMA RequestKept ==
    ASSUME NEW r, RequestInv(r), UNCHANGED settings,
           token'[r] = token[r], address'[r] = address[r], route'[r] = route[r],
           pc'[r] = pc[r], tenant'[r] = tenant[r], task'[r] = task[r], searched'[r] = searched[r]
    PROVE  RequestInv(r)'
<1>1. Identity(r)' = Identity(r)
  BY SameRequest
<1> QED
  BY <1>1 DEF RequestInv, Served, Authenticated

\* Every step keeps what holds of each request.
LEMMA RequestStep ==
    ASSUME IInv, [Next]_vars, NEW q \in Request
    PROVE  RequestInv(q)'
<1> USE DEF IInv
<1>0. RequestInv(q)
  OBVIOUS
<1>1. CASE UNCHANGED vars
  BY <1>0, <1>1, RequestKept DEF vars, process, inputs
<1>2. ASSUME NEW s \in Environments, Start(s) PROVE RequestInv(q)'
  BY <1>2 DEF Start, NoRequests, RequestInv
<1>3. CASE Stop
  BY <1>3 DEF Stop, NoRequests, RequestInv
<1>4. ASSUME NEW b \in Token \cup Address, Expire(b) PROVE RequestInv(q)'
  BY <1>0, <1>4, RequestKept DEF Expire, process, inputs
<1>5. ASSUME NEW r \in Request, NEW way \in Route, NEW t \in Token \cup {NoToken}, Arrive(r, way, t)
      PROVE  RequestInv(q)'
  <2>1. CASE q = r
    <3>1. /\ pc[q] = "idle" /\ route'[q] = way /\ tenant'[q] = NoCollection
          /\ searched'[q] = NoCollection
          /\ pc'[q] = IF way = "stdio" THEN "entered" ELSE "arrived"
      BY <1>0, <1>5, <2>1 DEF Arrive, Goto, TypeOK, RequestInv
    <3> QED
      BY <3>1 DEF RequestInv, Route
  <2>2. CASE q # r
    BY <1>0, <1>5, <2>2, RequestKept DEF Arrive, Goto, process, TypeOK
  <2> QED
    BY <2>1, <2>2
<1>6. ASSUME NEW r \in Request, Authenticate(r) PROVE RequestInv(q)'
  <2>1. CASE q = r
    <3>1. Identity(q)' = Identity(q)
      BY <1>6, SameRequest DEF Authenticate, process, inputs
    <3>2. /\ pc[q] = "arrived" /\ route'[q] = route[q] /\ route[q] # "stdio"
          /\ route[q] \in Route
          /\ searched'[q] = NoCollection
      BY <1>0, <1>6, <2>1 DEF Authenticate, inputs, RequestInv, TypeOK
    <3>3. \/ Identity(q) = NoCollection /\ pc'[q] = "rejected"
          \/ /\ Identity(q) # NoCollection /\ tenant'[q] = Identity(q)
             /\ pc'[q] = IF route[q] = "query" THEN "known" ELSE "entered"
      BY <1>6, <2>1 DEF Authenticate, SetTenant, Goto, TypeOK
    <3> QED
      BY <3>1, <3>2, <3>3 DEF RequestInv, Authenticated, Route
  <2>2. CASE q # r
    BY <1>0, <1>6, <2>2, RequestKept DEF Authenticate, SetTenant, Goto, process, inputs, TypeOK
  <2> QED
    BY <2>1, <2>2
<1>7. ASSUME NEW r \in Request, Charge(r) PROVE RequestInv(q)'
  <2>1. CASE q = r
    <3>1. Identity(q)' = Identity(q)
      BY <1>7, SameRequest DEF Charge, process, inputs
    <3>2. /\ pc[q] = "known" /\ UNCHANGED <<route, tenant, searched>>
          /\ pc'[q] \in {"called", "limited"}
      BY <1>7, <2>1 DEF Charge, Goto, TypeOK, inputs
    <3> QED
      BY <1>0, <3>1, <3>2 DEF RequestInv, Authenticated, Served
  <2>2. CASE q # r
    BY <1>0, <1>7, <2>2, RequestKept DEF Charge, Goto, process, inputs, TypeOK
  <2> QED
    BY <2>1, <2>2
<1>8. ASSUME NEW r \in Request, CallTool(r) PROVE RequestInv(q)'
  <2>1. CASE q = r
    <3>1. Identity(q)' = Identity(q)
      BY <1>8, SameRequest DEF CallTool, process, inputs
    <3>2. /\ pc[q] = "entered" /\ UNCHANGED <<route, searched>>
          /\ pc'[q] = "called" /\ task'[q] = tenant[q]
      BY <1>8, <2>1 DEF CallTool, Goto, TypeOK, inputs
    <3> QED
      BY <1>0, <3>1, <3>2 DEF RequestInv, Authenticated, Served
  <2>2. CASE q # r
    BY <1>0, <1>8, <2>2, RequestKept DEF CallTool, Goto, process, inputs, TypeOK
  <2> QED
    BY <2>1, <2>2
<1>9. ASSUME NEW r \in Request, Search(r) PROVE RequestInv(q)'
  <2>1. CASE q = r
    <3>1. Identity(q)' = Identity(q)
      BY <1>9, SameRequest DEF Search, process, inputs
    <3>2. /\ pc[q] = "called" /\ UNCHANGED <<route, tenant, task>>
          /\ pc'[q] = "searching" /\ searched'[q] = Corpus(q)
          /\ route[q] \in Route
      BY <1>9, <2>1 DEF Search, Goto, TypeOK, inputs
    <3>3. Corpus(q) = Served(q)
      BY <1>0, <3>2 DEF RequestInv, Authenticated, Served, Corpus, Route
    <3> QED
      BY <1>0, <3>1, <3>2, <3>3 DEF RequestInv, Authenticated, Served
  <2>2. CASE q # r
    BY <1>0, <1>9, <2>2, RequestKept DEF Search, Goto, process, inputs, TypeOK
  <2> QED
    BY <2>1, <2>2
<1>10. ASSUME NEW r \in Request, Fail(r) \/ Answer(r) PROVE RequestInv(q)'
  <2>1. CASE q = r
    <3>1. Identity(q)' = Identity(q)
      BY <1>10, SameRequest DEF Fail, Answer, process, inputs
    <3>2. UNCHANGED <<route, searched>> /\ pc'[q] \in {"failed", "answered"}
      BY <1>10, <2>1 DEF Fail, Answer, Goto, TypeOK, inputs
    <3> QED
      BY <1>0, <3>1, <3>2 DEF RequestInv, Authenticated, Served
  <2>2. CASE q # r
    BY <1>0, <1>10, <2>2, RequestKept DEF Fail, Answer, Leave, Goto, process, inputs, TypeOK
  <2> QED
    BY <2>1, <2>2
<1> QED
  BY <1>1, <1>2, <1>3, <1>4, <1>5, <1>6, <1>7, <1>8, <1>9, <1>10 DEF Next, Handle

\* The buckets stay as they are while the requests counted in them keep what
\* they are, and nobody is refused.
LEMMA BucketKept ==
    ASSUME TypeOK, BucketInv, UNCHANGED <<settings, blamed>>,
           \A b \in Token \cup Address : hits'[b] \subseteq hits[b],
           \A r \in Request :
              /\ Past(r) => Past(r)' /\ token'[r] = token[r] /\ address'[r] = address[r]
              /\ pc'[r] = "limited" => pc[r] = "limited"
    PROVE  BucketInv'
<1>1. \A r \in Request : Past(r) => Bucket(r)' = Bucket(r)
  BY SameRequest
<1>2. \A b \in Token \cup Address : hits[b] \subseteq Request
  BY DEF TypeOK
<1>3. \A r \in Request : blamed[r] \subseteq Request
  BY DEF TypeOK
<1>4. ASSUME NEW b \in Token \cup Address, NEW q \in hits'[b]
      PROVE  Past(q)' /\ Bucket(q)' = b
  BY <1>1, <1>2, <1>4 DEF BucketInv
<1>5. ASSUME NEW r \in Request, NEW q \in blamed'[r]
      PROVE  Past(r)' /\ Past(q)' /\ Bucket(q)' = Bucket(r)'
  BY <1>1, <1>3, <1>5 DEF BucketInv
<1>6. \A r \in Request : pc'[r] = "limited" => Cardinality(blamed'[r]) >= Quota
  BY DEF BucketInv
<1> QED
  BY <1>4, <1>5, <1>6 DEF BucketInv

\* Every step keeps the buckets.
LEMMA BucketStep ==
    ASSUME IInv, [Next]_vars
    PROVE  BucketInv'
<1> USE DEF IInv
<1>1. CASE UNCHANGED vars
  BY <1>1, BucketKept DEF vars, process, inputs, Past
<1>2. CASE NoRequests
  BY <1>2 DEF NoRequests, BucketInv
<1>3. ASSUME NEW b \in Token \cup Address, Expire(b) PROVE BucketInv'
  <2>1. \A c \in Token \cup Address : hits'[c] \subseteq hits[c]
    BY <1>3 DEF Expire, TypeOK
  <2> QED
    BY <1>3, <2>1, BucketKept DEF Expire, process, inputs, Past
<1>4. ASSUME NEW r \in Request, NEW way \in Route, NEW t \in Token \cup {NoToken}, Arrive(r, way, t)
      PROVE  BucketInv'
  <2>1. \A q \in Request : q # r => pc'[q] = pc[q] /\ token'[q] = token[q]
    BY <1>4 DEF Arrive, Goto, TypeOK
  <2>2. ~Past(r) /\ pc'[r] \in {"entered", "arrived"}
    BY <1>4 DEF Arrive, Goto, Past, TypeOK
  <2> QED
    BY <1>4, <2>1, <2>2, BucketKept DEF Arrive, process, Past
<1>5. ASSUME NEW r \in Request,
             Authenticate(r) \/ CallTool(r) \/ Search(r) \/ Fail(r) \/ Answer(r)
      PROVE  BucketInv'
  <2>1. UNCHANGED <<settings, hits, blamed, token, address>>
    BY <1>5 DEF Authenticate, CallTool, Search, Fail, Answer, process, inputs
  <2>2. /\ \A q \in Request : q # r => pc'[q] = pc[q]
        /\ pc'[r] \notin {"idle", "arrived", "limited"}
    BY <1>5 DEF Authenticate, CallTool, Search, Fail, Answer, Goto, TypeOK
  <2> QED
    BY <2>1, <2>2, BucketKept DEF Past
<1>6. ASSUME NEW r \in Request, Charge(r) PROVE BucketInv'
  <2> DEFINE here == Bucket(r)
  <2>1. here \in Token \cup Address
    BY BucketType
  <2>2. UNCHANGED <<settings, token, address>>
    BY <1>6 DEF Charge, process, inputs
  <2>3. \A q \in Request : Bucket(q)' = Bucket(q)
    BY <2>2, SameRequest
  <2>4. /\ pc[r] = "known" /\ pc'[r] \in {"called", "limited"}
        /\ \A q \in Request : q # r => pc'[q] = pc[q]
    BY <1>6 DEF Charge, Goto, TypeOK
  <2>5. \A q \in Request : Past(q) => Past(q)'
    BY <2>4 DEF Past
  <2>6. Past(r) /\ Past(r)'
    BY <2>4 DEF Past
  <2>7. \A b \in Token \cup Address : hits'[b] = IF b = here THEN hits[b] \cup {r} ELSE hits[b]
    BY <1>6, <2>1 DEF Charge, TypeOK
  <2>8. \A b \in Token \cup Address : hits[b] \subseteq Request
    BY DEF TypeOK
  <2>9. ASSUME NEW b \in Token \cup Address, NEW q \in hits'[b]
        PROVE  Past(q)' /\ Bucket(q)' = b
    <3>1. CASE q = r /\ b = here
      BY <3>1, <2>3, <2>6
    <3>2. CASE q \in hits[b]
      <4>1. q \in Request /\ Past(q) /\ Bucket(q) = b
        BY <3>2, <2>8 DEF BucketInv
      <4> QED
        BY <4>1, <2>3, <2>5
    <3> QED
      BY <2>7, <2>9, <3>1, <3>2
  <2>10. \/ UNCHANGED blamed /\ pc'[r] = "called"
         \/ /\ Cardinality(hits[here]) >= Quota
            /\ blamed' = [blamed EXCEPT ![r] = hits[here]]
    BY <1>6 DEF Charge, Goto, TypeOK
  <2>11. \A s \in Request : s # r => blamed'[s] = blamed[s]
    BY <2>10 DEF TypeOK
  <2>12. \/ blamed'[r] = blamed[r] /\ pc'[r] = "called"
         \/ blamed'[r] = hits[here] /\ Cardinality(blamed'[r]) >= Quota
    BY <2>10 DEF TypeOK
  <2>13. ASSUME NEW s \in Request, NEW q \in blamed'[s]
         PROVE  Past(s)' /\ Past(q)' /\ Bucket(q)' = Bucket(s)'
    <3>1. CASE q \in blamed[s]
      <4>1. q \in Request /\ Past(s) /\ Past(q) /\ Bucket(q) = Bucket(s)
        BY <3>1 DEF BucketInv, TypeOK
      <4> QED
        BY <4>1, <2>3, <2>5
    <3>2. CASE s = r /\ q \in hits[here]
      <4>1. q \in Request /\ Past(q) /\ Bucket(q) = here
        BY <3>2, <2>1, <2>8 DEF BucketInv
      <4> QED
        BY <4>1, <3>2, <2>3, <2>5, <2>6
    <3> QED
      BY <2>11, <2>12, <2>13, <3>1, <3>2
  <2>14. ASSUME NEW s \in Request, pc'[s] = "limited" PROVE Cardinality(blamed'[s]) >= Quota
    <3>1. CASE s = r
      BY <3>1, <2>12, <2>14
    <3>2. CASE s # r
      BY <3>2, <2>4, <2>11, <2>14 DEF BucketInv
    <3> QED
      BY <3>1, <3>2
  <2> QED
    BY <2>9, <2>13, <2>14 DEF BucketInv
<1> QED
  BY <1>1, <1>2, <1>3, <1>4, <1>5, <1>6 DEF Next, Handle, Start, Stop

\* Only a validated configuration serves, and only a running process.
LEMMA ProcessStep ==
    ASSUME IInv, [Next]_vars
    PROVE  /\ up' => Validated(settings)'
           /\ ~up' => \A r \in Request : pc'[r] = "idle"
<1> USE DEF IInv
<1>1. CASE UNCHANGED vars
  BY <1>1 DEF vars, process, Validated, AllKeys
<1>2. ASSUME NEW s \in Environments, Start(s)
      PROVE  up' /\ Validated(settings)'
  BY <1>2 DEF Start, Validated, AllKeys
<1>3. CASE Stop
  BY <1>3 DEF Stop, NoRequests
<1>4. ASSUME NEW b \in Token \cup Address, Expire(b) PROVE up /\ UNCHANGED process
  BY <1>4 DEF Expire
<1>5. ASSUME NEW r \in Request, Handle(r) PROVE up /\ UNCHANGED process
  <2>1. UNCHANGED process
    BY <1>5 DEF Handle, Arrive, Authenticate, Charge, CallTool, Search, Fail, Answer
  <2>2. up \/ pc[r] # "idle"
    BY <1>5 DEF Handle, Arrive, Authenticate, Charge, CallTool, Search, Fail, Answer
  <2> QED
    BY <2>1, <2>2 DEF TypeOK
<1>6. CASE up /\ UNCHANGED process
  BY <1>6 DEF process, Validated, AllKeys
<1> QED
  BY <1>1, <1>2, <1>3, <1>4, <1>5, <1>6 DEF Next

THEOREM StepInv == IInv /\ [Next]_vars => IInv'
<1> SUFFICES ASSUME IInv, [Next]_vars PROVE IInv'
  OBVIOUS
<1>1. TypeOK'
  BY TypeStep DEF IInv
<1>2. \A r \in Request : RequestInv(r)'
  BY RequestStep
<1>3. BucketInv'
  BY BucketStep
<1> QED
  BY <1>1, <1>2, <1>3, ProcessStep DEF IInv

THEOREM SpecInv == Spec => []IInv
BY InitInv, StepInv, PTL DEF Spec

\* The types, for every value of the constants.
THEOREM TypeCorrect == Spec => []TypeOK
<1>1. IInv => TypeOK
  BY DEF IInv
<1> QED
  BY <1>1, SpecInv, PTL

\* A request searches the collection of its key's one owner and no other, for
\* any number of concurrent requests, tenants and restarts.
THEOREM Isolation == Spec => []OwnCorpus
<1>1. ASSUME IInv, NEW r \in Request, searched[r] # NoCollection
      PROVE  IF route[r] = "stdio" \/ ~settings.auth THEN searched[r] = Default
             ELSE /\ Known(token[r])
                  /\ token[r] \in settings.allow => searched[r] = Default
                  /\ \A i \in Owners(token[r]) : searched[r] = settings.tenants[i].collection
  <2>1. searched[r] = Served(r)
    BY <1>1 DEF IInv, RequestInv
  <2>2. settings \in Environments /\ Validated(settings)
    BY <1>1 DEF IInv, TypeOK, RequestInv
  <2>3. CASE route[r] = "stdio" \/ ~settings.auth
    BY <2>1, <2>3 DEF Served, Identity
  <2>4. CASE ~(route[r] = "stdio" \/ ~settings.auth)
    <3>1. searched[r] = Resolve(token[r])
      BY <2>1, <2>4 DEF Served, Identity
    <3> QED
      BY <1>1, <2>2, <2>4, <3>1, ResolveOwner
  <2> QED
    BY <2>3, <2>4
<1>2. IInv => OwnCorpus
  BY <1>1 DEF OwnCorpus
<1> QED
  BY <1>2, SpecInv, PTL

\* No request is turned away for the credential or the traffic of another.
THEOREM FairRefusal == Spec => []RefusedForItsOwn
<1>1. ASSUME IInv, NEW r \in Request, pc[r] = "rejected"
      PROVE  settings.auth /\ ~Known(token[r])
  <2>1. Identity(r) = NoCollection
    BY <1>1 DEF IInv, RequestInv, Authenticated
  <2>2. settings \in Environments /\ Validated(settings)
    BY <1>1 DEF IInv, TypeOK
  <2>3. settings.auth
    BY <2>1, TenancyAssumption DEF Identity
  <2> QED
    BY <2>1, <2>2, <2>3, ResolveOwner DEF Identity
<1>2. ASSUME IInv, NEW r \in Request, NEW q \in blamed[r]
      PROVE  IF Known(token[r]) THEN token[q] = token[r]
             ELSE ~Known(token[q]) /\ address[q] = address[r]
  <2>1. q \in Request /\ Bucket(q) = Bucket(r)
    BY <1>2 DEF IInv, BucketInv, TypeOK
  <2> QED
    BY <1>2, <2>1, SameBucket DEF IInv
<1>3. ASSUME IInv, NEW r \in Request, pc[r] = "limited"
      PROVE  Cardinality(blamed[r]) >= Quota
  BY <1>3 DEF IInv, BucketInv
<1>4. IInv => RefusedForItsOwn
  BY <1>1, <1>2, <1>3 DEF RefusedForItsOwn
<1> QED
  BY <1>4, SpecInv, PTL
=============================================================================
