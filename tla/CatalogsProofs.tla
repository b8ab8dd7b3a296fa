--------------------------- MODULE CatalogsProofs ---------------------------
(***************************************************************************)
(* TLAPS proofs about Catalogs, for every set of tenants, tools, clients   *)
(* and backends, every history of the backends' lists and every TTL.       *)
(***************************************************************************)
EXTENDS Catalogs, WellFoundedInduction, TLAPS

USE DEF Goto, cacheVars, clientVars, warmVars

\* A nonempty set of naturals has a least element.
LEMMA LeastIndex ==
  ASSUME NEW T, T \subseteq Nat, T # {}
  PROVE  \E i \in T : \A j \in T : i <= j
<1>1. PICK i \in T : \A j \in T : ~ (<<j, i>> \in OpToRel(<, Nat))
  BY WFMin, NatLessThanWellFounded
<1>2. \A j \in T : ~(j < i)
  BY <1>1, Zenon DEF OpToRel
<1> QED
  BY <1>2

\* The first tenant, by id, of a nonempty set is one of them.
LEMMA FirstIn ==
  ASSUME NEW S, S \subseteq Tenants, S # {}
  PROVE  First(S) \in S
<1> DEFINE T == {i \in 1..Len(TenantOrder) : TenantOrder[i] \in S}
<1>0. Len(TenantOrder) \in Nat
  BY OrderAssumption
<1>1. T # {} /\ T \subseteq Nat
  BY <1>0, OrderAssumption
<1>2. PICK i \in T : \A j \in T : i <= j
  BY <1>1, LeastIndex
<1>3. \A j \in 1..(i - 1) : TenantOrder[j] \notin S
  BY <1>0, <1>2
<1> QED
  BY <1>2, <1>3 DEF First

\* Every tenant has a view.
LEMMA ViewOf == ASSUME NEW t \in Tenants PROVE ViewKey(t) \in Views
BY DEF Views

\* Catalogs.unique: the first view of a nonempty set is one of them.
LEMMA FirstViewIn ==
  ASSUME NEW V, V \subseteq Views, V # {}
  PROVE  FirstView(V) \in V
<1> DEFINE S == {t \in Tenants : ViewKey(t) \in V}
<1>1. S # {}
  BY DEF Views
<1>2. First(S) \in S
  BY <1>1, FirstIn
<1> QED
  BY <1>2 DEF FirstView

\* The catalog that the handler of a client is at is that of a tenant on its list.
LEMMA ClientAt ==
  ASSUME TypeOK, NEW p \in Clients, todo[p] # {}
  PROVE  /\ First(todo[p]) \in todo[p]
         /\ First(todo[p]) \in Tenants
         /\ At(p) = ViewKey(First(todo[p]))
         /\ At(p) \in Views
<1>1. First(todo[p]) \in todo[p] /\ First(todo[p]) \in Tenants
  BY FirstIn DEF TypeOK
<1> QED
  BY <1>1, ViewOf, ClientsAssumption DEF At

\* The catalog that the warm-up is at is still to be fetched.
LEMMA WarmerAt ==
  ASSUME TypeOK, wtodo # {}
  PROVE  At(Warmer) = FirstView(wtodo) /\ At(Warmer) \in wtodo /\ At(Warmer) \in Views
BY FirstViewIn DEF At, TypeOK

\* Whoever gets a catalog, or fetches it, gets one of the views.
LEMMA AtView ==
  ASSUME TypeOK, Control, NEW p \in Procs, Getting(p) \/ Fetching(p)
  PROVE  At(p) \in Views
<1>1. CASE p = Warmer
  BY <1>1, WarmerAt DEF Getting, Control
<1>2. CASE p # Warmer
  BY <1>2, ClientAt DEF Getting, Control, Procs
<1> QED
  BY <1>1, <1>2

\* A list in the cache that is known is not the one of version 0.
LEMMA KnownFetched == ASSUME NEW v, Known(v) PROVE cached[v] # 0
BY DEF Known, ListOf

\* What catalog.get can return: an error, or a version of the list that was, or
\* now is, in the cache.
LEMMA ReturnType ==
  ASSUME TypeOK, Control, NEW p \in Procs, NEW i \in Nat \cup {Skipped},
         Getting(p) \/ Fetching(p), Return(p, i)
  PROVE  /\ pc' \in [Procs -> PCs]
         /\ todo' \in [Clients -> SUBSET Tenants]
         /\ got' \in [Clients -> [Tenants -> Found]]
         /\ wtodo' \in SUBSET Views
         /\ werr' \in BOOLEAN
         /\ UNCHANGED <<rtool, rarg, told, wctx, serving>>
<1>1. CASE p = Warmer
  BY <1>1 DEF Return, TypeOK, PCs
<1>2. CASE p # Warmer
  <2>1. p \in Clients
    BY <1>2 DEF Procs
  <2>2. First(todo[p]) \in Tenants
    BY <1>2, <2>1, ClientAt DEF Getting, Control
  <2>3. got[p] \in [Tenants -> Found] /\ i \in Found
    BY <2>1 DEF TypeOK, Found
  <2>4. got' = [got EXCEPT ![p] = [got[p] EXCEPT ![First(todo[p])] = i]]
    BY <1>2, <2>1 DEF Return, TypeOK
  <2>5. got' \in [Clients -> [Tenants -> Found]]
    BY <2>1, <2>2, <2>3, <2>4 DEF TypeOK
  <2>6. pc' \in [Procs -> PCs]
    BY <1>2 DEF Return, TypeOK, PCs
  <2>7. todo' \in [Clients -> SUBSET Tenants]
    <3>1. todo' = [todo EXCEPT ![p] = todo[p] \ {First(todo[p])}]
      BY <1>2 DEF Return
    <3>2. todo \in [Clients -> SUBSET Tenants]
      BY DEF TypeOK
    <3>3. todo[p] \ {First(todo[p])} \in SUBSET Tenants
      BY <2>1, <3>2
    <3> QED
      BY <3>1, <3>2, <3>3
  <2>8. wtodo' \in SUBSET Views /\ werr' \in BOOLEAN /\ UNCHANGED <<rtool, rarg, told, wctx, serving>>
    BY <1>2, Zenon DEF Return, TypeOK
  <2> QED
    BY <2>5, <2>6, <2>7, <2>8
<1> QED
  BY <1>1, <1>2

\* selectTenant picks tenants of the registry.
LEMMA SelectedTenants == ASSUME NEW p PROVE Selected(p) \subseteq Tenants
BY DEF Selected, SelectTenant, SelectExplicit, SelectImplicit, Resolves, TenantsWithTool,
       AuthorizedTenants

\* What is left of a handler of tools/call when it knows its tenant, or that there is none:
\* it moves on to read catalogs again, or answers; it changes nothing else.
LEMMA CallMoves ==
  ASSUME NEW p \in Clients, Refuse(p) \/ Advised(p) \/ Forward(p) \/ ParamHeaders(p)
  PROVE  /\ pc[p] \in {"call", "advise", "headers"}
         /\ UNCHANGED <<cacheVars, version, snap, told, warmVars>>
         /\ \/ Answer(p)
            \/ /\ \E l \in {"advise", "headers"} : pc' = [pc EXCEPT ![p] = l]
               /\ \E S \in SUBSET Tenants : todo' = [todo EXCEPT ![p] = S]
               /\ UNCHANGED <<got, rtool, rarg>>
<1>0. Mine(p) \in SUBSET Tenants /\ Selected(p) \in SUBSET Tenants
  BY SelectedTenants DEF Mine, AuthorizedTenants
<1>1. CASE Refuse(p)
  BY <1>0, <1>1, Zenon DEF Refuse, Decided, Answer
<1>2. CASE Advised(p)
  BY <1>2, Zenon DEF Advised, Answer
<1>3. CASE Forward(p)
  BY <1>0, <1>3, Zenon DEF Forward, Decided, Answer
<1>4. CASE ParamHeaders(p)
  BY <1>4, Zenon DEF ParamHeaders, Answer
<1> QED
  BY <1>1, <1>2, <1>3, <1>4

\* A process that is not concerned stays at its catalog.
LEMMA AtFrame ==
  ASSUME NEW q \in Procs, q = Warmer => wtodo' = wtodo, q # Warmer => todo'[q] = todo[q]
  PROVE  At(q)' = At(q)
BY DEF At

\* No list in the cache goes back, nor does what a backend lists, and the cache never
\* has a list that the backend has not had.
Growing ==
    /\ cached' \in [Views -> Nat]
    /\ version' \in [Views -> Nat]
    /\ \A v \in Views : /\ cached[v] <= cached'[v]
                        /\ cached'[v] <= version'[v]
                        /\ version[v] <= version'[v]
                        /\ version'[v] \in 1..Len(Offers[v])

\* The cache is written only by the end of a fetch, what a backend lists changes only by
\* itself, and a client is told something only by the answer to tools/list.
LEMMA CacheWriters ==
  ASSUME [Next]_vars
  PROVE  \/ UNCHANGED <<cached, version, told>>
         \/ \E p \in Procs : FetchStores(p)
         \/ \E v \in Views : OfferChanges(v)
         \/ \E p \in Clients : AnswerList(p) /\ UNCHANGED <<cached, version>>
<1>1. ASSUME NEW p \in Clients, Refuse(p) \/ Advised(p) \/ Forward(p) \/ ParamHeaders(p)
      PROVE  UNCHANGED <<cached, version, told>>
  BY <1>1, CallMoves
<1>2. ASSUME NEW p \in Procs, Get(p), ~FetchStores(p) PROVE UNCHANGED <<cached, version, told>>
  BY <1>2, Zenon DEF Get, GetFresh, BeginFetch, FetchAnswers, FetchFails, Return
<1>3. ASSUME NEW p \in Clients, NEW tool, NEW arg,
             HandleToolsList(p) \/ HandleToolsCall(p, tool, arg) \/ ReadCached(p)
      PROVE  UNCHANGED <<cached, version, told>>
  BY <1>3, Zenon DEF HandleToolsList, HandleToolsCall, ReadCached
<1>4. ASSUME NEW p \in Clients, AnswerList(p) PROVE UNCHANGED <<cached, version>>
  BY <1>4, Zenon DEF AnswerList, Answer
<1>5. ASSUME WarmRoundEnds \/ WarmRetries \/ WarmTimeout \/ Tick \/ UNCHANGED vars
      PROVE  UNCHANGED <<cached, version, told>>
  BY <1>5, Zenon DEF WarmRoundEnds, WarmRetries, WarmTimeout, Tick, vars
<1> QED
  BY <1>1, <1>2, <1>3, <1>4, <1>5, Zenon DEF Next, Handle, Warm, Procs

\* The key fact: only the process that holds the lock of a catalog stores a list, and
\* the list is not older than the one it replaces.
LEMMA VersionsGrow ==
  ASSUME TypeOK, Control, AnswerCurrent, [Next]_vars
  PROVE  Growing
<1>0. \A v \in Views : Len(Offers[v]) \in Nat
  BY BackendsAssumption
<1>1. CASE UNCHANGED <<cached, version>>
  BY <1>0, <1>1 DEF TypeOK, Growing
<1>2. ASSUME NEW p \in Procs, FetchStores(p) PROVE Growing
  <2>1. At(p) \in Views
    BY <1>2, AtView DEF FetchStores, Fetching
  <2>2. snap[p] \in Nat /\ cached[At(p)] <= snap[p] /\ snap[p] <= version[At(p)]
    BY <1>2, <2>1 DEF AnswerCurrent, FetchStores, TypeOK
  <2>3. cached' = [cached EXCEPT ![At(p)] = snap[p]] /\ version' = version
    BY <1>2 DEF FetchStores
  <2> QED
    BY <1>0, <2>1, <2>2, <2>3 DEF TypeOK, Growing
<1>3. ASSUME NEW v \in Views, OfferChanges(v) PROVE Growing
  BY <1>0, <1>3 DEF OfferChanges, TypeOK, Growing
<1> QED
  BY <1>1, <1>2, <1>3, CacheWriters

\* Every step preserves the types.
LEMMA TypeStep ==
  ASSUME TypeOK, Control, AnswerCurrent, [Next]_vars
  PROVE  TypeOK'
<1>0. cached' \in [Views -> Nat] /\ version' \in [Views -> Nat]
      /\ \A v \in Views : cached'[v] <= version'[v] /\ version'[v] \in 1..Len(Offers[v])
  BY VersionsGrow DEF Growing
<1> DEFINE ClientTypes == /\ todo' \in [Clients -> SUBSET Tenants]
                          /\ got' \in [Clients -> [Tenants -> Found]]
                          /\ rtool' \in [Clients -> Tools \cup {NoTool}]
                          /\ rarg' \in [Clients -> TenantArgs]
                          /\ told' \in [Clients -> [Tenants -> Found]]
           CacheTypes  == /\ age' \in [Views -> 0..CatalogTTL]
                          /\ lock' \in [Views -> Procs \cup {NoProc}]
                          /\ pc' \in [Procs -> PCs]
                          /\ snap' \in [Procs -> Nat]
           WarmTypes   == /\ wtodo' \in SUBSET Views
                          /\ werr' \in BOOLEAN /\ wctx' \in BOOLEAN /\ serving' \in BOOLEAN
<1>1. ClientTypes /\ CacheTypes /\ WarmTypes => TypeOK'
  BY <1>0, Zenon DEF TypeOK
<1> HIDE DEF ClientTypes, CacheTypes, WarmTypes
<1>2. ASSUME NEW p \in Procs, Get(p) PROVE TypeOK'
  <2>1. Getting(p) \/ Fetching(p)
    BY <1>2 DEF Get, GetFresh, BeginFetch, FetchAnswers, FetchFails, FetchStores, Fetching
  <2>2. At(p) \in Views
    BY <2>1, AtView
  <2>3. CASE \E i \in Nat \cup {Skipped} : Return(p, i)
    <3>1. PICK i \in Nat \cup {Skipped} : Return(p, i)
      BY <2>3
    <3>2. /\ pc' \in [Procs -> PCs]
          /\ todo' \in [Clients -> SUBSET Tenants]
          /\ got' \in [Clients -> [Tenants -> Found]]
          /\ wtodo' \in SUBSET Views
          /\ werr' \in BOOLEAN
          /\ UNCHANGED <<rtool, rarg, told, wctx, serving>>
      BY <2>1, <3>1, ReturnType
    <3>3. ClientTypes /\ WarmTypes
      BY <3>2, Zenon DEF ClientTypes, WarmTypes, TypeOK
    <3>4. CacheTypes
      <4>0. /\ age' \in {age, [age EXCEPT ![At(p)] = 0]}
            /\ lock' \in {lock, [lock EXCEPT ![At(p)] = p], [lock EXCEPT ![At(p)] = NoProc]}
            /\ snap' \in {snap, [snap EXCEPT ![p] = version[At(p)]], [snap EXCEPT ![p] = 0]}
        BY <1>2, Zenon DEF Get, GetFresh, BeginFetch, FetchAnswers, FetchFails, FetchStores
      <4>1. age' \in [Views -> 0..CatalogTTL]
        <5>1. 0 \in 0..CatalogTTL /\ age \in [Views -> 0..CatalogTTL]
          BY CatalogAssumption DEF TypeOK
        <5> QED
          BY <4>0, <5>1
      <4>2. lock' \in [Views -> Procs \cup {NoProc}]
        BY <2>2, <4>0 DEF TypeOK
      <4>3. snap' \in [Procs -> Nat]
        BY <2>2, <4>0 DEF TypeOK
      <4> QED
        BY <3>2, <4>1, <4>2, <4>3 DEF CacheTypes
    <3> QED
      BY <1>1, <3>3, <3>4
  <2>4. CASE BeginFetch(p) \/ FetchAnswers(p)
    <3>1. ClientTypes /\ WarmTypes
      BY <2>4, Zenon DEF BeginFetch, FetchAnswers, ClientTypes, WarmTypes, TypeOK
    <3>2. CacheTypes
      BY <2>2, <2>4 DEF BeginFetch, FetchAnswers, CacheTypes, TypeOK, PCs
    <3> QED
      BY <1>1, <3>1, <3>2
  <2>5. GetFresh(p) \/ FetchFails(p) \/ FetchStores(p) => \E i \in Nat \cup {Skipped} : Return(p, i)
    <3>1. cached[At(p)] \in Nat /\ snap[p] \in Nat
      BY <2>2 DEF TypeOK
    <3> QED
      BY <3>1 DEF GetFresh, FetchFails, FetchStores
  <2> QED
    BY <1>2, <2>3, <2>4, <2>5 DEF Get
<1>3. ASSUME NEW p \in Clients, HandleToolsList(p) PROVE TypeOK'
  <2>1. ListedTenants(p) \in SUBSET Tenants
    BY DEF ListedTenants, Mine, AuthorizedTenants
  <2>2. ClientTypes
    BY <1>3, <2>1 DEF HandleToolsList, ClientTypes, TypeOK
  <2>3. CacheTypes
    BY <1>3 DEF HandleToolsList, CacheTypes, TypeOK, PCs
  <2>4. WarmTypes
    BY <1>3, Zenon DEF HandleToolsList, WarmTypes, TypeOK
  <2> QED
    BY <1>1, <2>2, <2>3, <2>4
<1>4. ASSUME NEW p \in Clients, NEW tool \in Tools, NEW arg \in TenantArgs,
             HandleToolsCall(p, tool, arg)
      PROVE  TypeOK'
  <2>1. Asked(p, arg) \in SUBSET Tenants
    BY DEF Asked, Mine, AuthorizedTenants
  <2>2. ClientTypes
    BY <1>4, <2>1 DEF HandleToolsCall, ClientTypes, TypeOK
  <2>3. CacheTypes
    BY <1>4 DEF HandleToolsCall, CacheTypes, TypeOK, PCs
  <2>4. WarmTypes
    BY <1>4, Zenon DEF HandleToolsCall, WarmTypes, TypeOK
  <2> QED
    BY <1>1, <2>2, <2>3, <2>4
<1>5. ASSUME NEW p \in Clients, Answer(p), told' \in [Clients -> [Tenants -> Found]]
      PROVE  TypeOK'
  <2>1. NotRead \in [Tenants -> Found] /\ NoArg \in TenantArgs
    BY DEF NotRead, Found, TenantArgs
  <2>2. ClientTypes
    BY <1>5, <2>1 DEF Answer, ClientTypes, TypeOK
  <2>3. CacheTypes
    BY <1>5 DEF Answer, CacheTypes, TypeOK, PCs
  <2>4. WarmTypes
    BY <1>5, Zenon DEF Answer, WarmTypes, TypeOK
  <2> QED
    BY <1>1, <2>2, <2>3, <2>4
<1>6. ASSUME NEW p \in Clients, AnswerList(p) PROVE TypeOK'
  <2>1. told' \in [Clients -> [Tenants -> Found]]
    BY <1>6 DEF AnswerList, TypeOK
  <2> QED
    BY <1>5, <1>6, <2>1 DEF AnswerList
<1>7. ASSUME NEW p \in Clients, ReadCached(p) PROVE TypeOK'
  <2>1. First(todo[p]) \in Tenants /\ At(p) \in Views
    BY <1>7, ClientAt DEF ReadCached
  <2>2. cached[At(p)] \in Found
    BY <2>1 DEF TypeOK, Found
  <2>3. got' \in [Clients -> [Tenants -> Found]]
    BY <1>7, <2>1, <2>2 DEF ReadCached, TypeOK
  <2>4. todo' \in [Clients -> SUBSET Tenants]
    <3>1. todo \in [Clients -> SUBSET Tenants] /\ todo' = [todo EXCEPT ![p] = todo[p] \ {First(todo[p])}]
      BY <1>7 DEF ReadCached, TypeOK
    <3>2. todo[p] \ {First(todo[p])} \in SUBSET Tenants
      BY <3>1
    <3> QED
      BY <3>1, <3>2
  <2>5. ClientTypes
    BY <1>7, <2>3, <2>4 DEF ReadCached, ClientTypes, TypeOK
  <2>6. CacheTypes
    BY <1>7 DEF ReadCached, CacheTypes, TypeOK
  <2>7. WarmTypes
    BY <1>7, Zenon DEF ReadCached, WarmTypes, TypeOK
  <2> QED
    BY <1>1, <2>5, <2>6, <2>7
<1>8. ASSUME NEW p \in Clients, Refuse(p) \/ Advised(p) \/ Forward(p) \/ ParamHeaders(p)
      PROVE  TypeOK'
  <2>1. CASE Answer(p)
    BY <1>5, <1>8, <2>1, CallMoves DEF TypeOK
  <2>2. CASE ~Answer(p)
    <3>1. PICK l \in {"advise", "headers"}, S \in SUBSET Tenants :
             pc' = [pc EXCEPT ![p] = l] /\ todo' = [todo EXCEPT ![p] = S]
      BY <1>8, <2>2, CallMoves, Zenon
    <3>2. UNCHANGED <<cacheVars, version, snap, told, warmVars, got, rtool, rarg>>
      BY <1>8, <2>2, CallMoves, Zenon
    <3>3. ClientTypes
      BY <3>1, <3>2 DEF ClientTypes, TypeOK
    <3>4. CacheTypes
      BY <3>1, <3>2 DEF CacheTypes, TypeOK, PCs
    <3>5. WarmTypes
      BY <3>2, Zenon DEF WarmTypes, TypeOK
    <3> QED
      BY <1>1, <3>3, <3>4, <3>5
  <2> QED
    BY <2>1, <2>2
<1>9. ASSUME WarmRoundEnds \/ WarmRetries \/ WarmTimeout PROVE TypeOK'
  <2>1. ClientTypes
    BY <1>9, Zenon DEF WarmRoundEnds, WarmRetries, WarmTimeout, ClientTypes, TypeOK
  <2>2. CacheTypes
    BY <1>9 DEF WarmRoundEnds, WarmRetries, WarmTimeout, CacheTypes, TypeOK, PCs
  <2>3. WarmTypes
    BY <1>9, Zenon DEF WarmRoundEnds, WarmRetries, WarmTimeout, WarmTypes, TypeOK
  <2> QED
    BY <1>1, <2>1, <2>2, <2>3
<1>10. ASSUME NEW v \in Views, OfferChanges(v) PROVE TypeOK'
  <2>1. ClientTypes /\ CacheTypes /\ WarmTypes
    BY <1>10, Zenon DEF OfferChanges, ClientTypes, CacheTypes, WarmTypes, TypeOK
  <2> QED
    BY <1>1, <2>1
<1>11. ASSUME Tick PROVE TypeOK'
  <2>1. ClientTypes /\ WarmTypes
    BY <1>11, Zenon DEF Tick, ClientTypes, WarmTypes, TypeOK
  <2>2. CacheTypes
    BY <1>11, CatalogAssumption DEF Tick, CacheTypes, TypeOK
  <2> QED
    BY <1>1, <2>1, <2>2
<1>12. ASSUME UNCHANGED vars PROVE TypeOK'
  BY <1>12, Zenon DEF vars, TypeOK
<1> QED
  BY <1>2, <1>3, <1>4, <1>6, <1>7, <1>8, <1>9, <1>10, <1>11, <1>12, Zenon DEF Next, Handle, Get, Warm, Procs

\* catalog.get returns to the loop of toolsFor, or to that of warm.
LEMMA ReturnEffect ==
  ASSUME NEW p \in Procs, NEW i, Return(p, i)
  PROVE  /\ p = Warmer => /\ pc' = [pc EXCEPT ![Warmer] = "warm"]
                          /\ wtodo' = wtodo \ {At(Warmer)}
                          /\ werr' = (werr \/ i = Skipped)
                          /\ UNCHANGED <<todo, got, rtool, rarg, told, wctx, serving>>
         /\ p # Warmer => /\ p \in Clients
                          /\ pc' = [pc EXCEPT ![p] = "list"]
                          /\ got' = [got EXCEPT ![p] = [got[p] EXCEPT ![First(todo[p])] = i]]
                          /\ todo' = [todo EXCEPT ![p] = todo[p] \ {First(todo[p])}]
                          /\ UNCHANGED <<rtool, rarg, told, wtodo, werr, wctx, serving>>
BY DEF Return, Procs

\* Every step preserves Control.
LEMMA ControlStep ==
  ASSUME TypeOK, Control, [Next]_vars
  PROVE  Control'
<1> USE DEF Control, Fetching
<1>0. Warmer \notin Clients /\ Warmer \in Procs /\ Clients \subseteq Procs
  BY ClientsAssumption DEF Procs
<1>1. ASSUME NEW p \in Procs, NEW i, pc[p] # "idle", Return(p, i) PROVE Control'
  <2>1. CASE p = Warmer
    BY <1>0, <1>1, <2>1, ReturnEffect DEF TypeOK
  <2>2. CASE p # Warmer
    BY <1>0, <1>1, <2>2, ReturnEffect DEF TypeOK
  <2> QED
    BY <2>1, <2>2
<1>2. ASSUME NEW p \in Procs, BeginFetch(p) \/ FetchAnswers(p) PROVE Control'
  BY <1>0, <1>2 DEF BeginFetch, FetchAnswers, Getting, TypeOK
<1>3. ASSUME NEW p \in Procs, GetFresh(p) \/ FetchFails(p) \/ FetchStores(p) PROVE Control'
  <2>1. pc[p] # "idle"
    BY <1>3 DEF GetFresh, FetchFails, FetchStores, Getting
  <2> QED
    BY <1>1, <1>3, <2>1 DEF GetFresh, FetchFails, FetchStores
<1>4. ASSUME NEW p \in Clients, HandleToolsList(p) PROVE Control'
  BY <1>0, <1>4 DEF HandleToolsList, TypeOK
<1>5. ASSUME NEW p \in Clients, NEW tool \in Tools, NEW arg \in TenantArgs,
             HandleToolsCall(p, tool, arg)
      PROVE  Control'
  BY <1>0, <1>5 DEF HandleToolsCall, TypeOK
<1>6. ASSUME NEW p \in Clients, Answer(p) PROVE Control'
  BY <1>0, <1>6 DEF Answer, TypeOK
<1>7. ASSUME NEW p \in Clients, AnswerList(p) PROVE Control'
  BY <1>6, <1>7 DEF AnswerList
<1>8. ASSUME NEW p \in Clients, ReadCached(p) PROVE Control'
  BY <1>0, <1>8 DEF ReadCached, TypeOK
<1>9. ASSUME NEW p \in Clients, Refuse(p) \/ Advised(p) \/ Forward(p) \/ ParamHeaders(p)
      PROVE  Control'
  <2>1. CASE ~Answer(p)
    <3>1. PICK l \in {"advise", "headers"}, S \in SUBSET Tenants :
             /\ pc' = [pc EXCEPT ![p] = l] /\ todo' = [todo EXCEPT ![p] = S]
             /\ UNCHANGED <<got, wtodo>>
      BY <1>9, <2>1, CallMoves, Zenon
    <3> QED
      BY <1>0, <3>1 DEF TypeOK
  <2> QED
    BY <1>6, <2>1
<1>10. ASSUME WarmRoundEnds \/ WarmRetries \/ WarmTimeout PROVE Control'
  BY <1>0, <1>10 DEF WarmRoundEnds, WarmRetries, WarmTimeout, TypeOK
<1>11. ASSUME (\E v \in Views : OfferChanges(v)) \/ Tick \/ UNCHANGED vars PROVE Control'
  BY <1>11, Zenon DEF OfferChanges, Tick, vars
<1> QED
  BY <1>2, <1>3, <1>4, <1>5, <1>7, <1>8, <1>9, <1>10, <1>11, Zenon DEF Next, Handle, Get, Warm, Procs

\* Every step preserves LockHeld: a fetch takes the lock and gives it back only when it
\* ends; nobody else touches it.
LEMMA LockStep ==
  ASSUME TypeOK, Control, LockHeld, [Next]_vars
  PROVE  LockHeld'
<1> USE DEF LockHeld, Fetching
<1>0. Warmer \notin Clients /\ Warmer \in Procs /\ Clients \subseteq Procs
      /\ \A q \in Procs : q # NoProc /\ (q # Warmer => q \in Clients)
  BY ClientsAssumption DEF Procs
<1>1. ASSUME NEW p \in Procs, NEW i, Return(p, i), At(p) \in Views,
             lock' = lock \/ (Fetching(p) /\ lock' = [lock EXCEPT ![At(p)] = NoProc])
      PROVE  LockHeld'
  <2> SUFFICES ASSUME NEW q \in Procs, Fetching(q)' PROVE (lock[At(q)] = q)'
    OBVIOUS
  <2>1. q # p /\ Fetching(q)
    BY <1>1, ReturnEffect DEF TypeOK
  <2>2. At(q)' = At(q)
    BY <1>0, <1>1, <2>1, AtFrame, ReturnEffect DEF TypeOK
  <2>3. lock[At(q)] = q
    BY <2>1
  <2>4. CASE lock' = lock
    BY <2>2, <2>3, <2>4
  <2>5. CASE Fetching(p) /\ lock' = [lock EXCEPT ![At(p)] = NoProc]
    <3>1. At(q) # At(p)
      BY <2>1, <2>3, <2>5
    <3>2. At(q) \in Views
      BY <2>1, AtView
    <3>3. lock'[At(q)] = q
      BY <2>3, <2>5, <3>1, <3>2 DEF TypeOK
    <3> QED
      BY <2>2, <3>3
  <2> QED
    BY <1>1, <2>4, <2>5
<1>2. ASSUME NEW p \in Procs, GetFresh(p) \/ FetchFails(p) \/ FetchStores(p) PROVE LockHeld'
  <2>1. At(p) \in Views
    BY <1>2, AtView DEF GetFresh, FetchFails, FetchStores
  <2> QED
    BY <1>1, <1>2, <2>1 DEF GetFresh, FetchFails, FetchStores
<1>3. ASSUME NEW p \in Procs, BeginFetch(p) \/ FetchAnswers(p) PROVE LockHeld'
  <2>1. At(p) \in Views
    BY <1>3, AtView DEF BeginFetch, FetchAnswers
  <2>2. \A q \in Procs : At(q)' = At(q)
    BY <1>3, AtFrame DEF BeginFetch, FetchAnswers
  <2>3. CASE BeginFetch(p)
    BY <1>0, <2>1, <2>2, <2>3 DEF BeginFetch, TypeOK
  <2>4. CASE FetchAnswers(p)
    BY <2>1, <2>2, <2>4 DEF FetchAnswers, TypeOK
  <2> QED
    BY <1>3, <2>3, <2>4
<1>4. ASSUME NEW p \in Clients, ~Fetching(p), ~Fetching(p)', lock' = lock, wtodo' = wtodo,
             \A q \in Procs : q # p => pc'[q] = pc[q],
             \A q \in Clients : q # p => todo'[q] = todo[q]
      PROVE  LockHeld'
  <2> SUFFICES ASSUME NEW q \in Procs, Fetching(q)' PROVE (lock[At(q)] = q)'
    OBVIOUS
  <2>1. q # p /\ Fetching(q)
    BY <1>4
  <2>2. At(q)' = At(q)
    BY <1>0, <1>4, <2>1, AtFrame
  <2> QED
    BY <1>4, <2>1, <2>2
<1>5. ASSUME NEW p \in Clients, HandleToolsList(p) PROVE LockHeld'
  BY <1>0, <1>4, <1>5 DEF HandleToolsList, TypeOK
<1>6. ASSUME NEW p \in Clients, NEW tool \in Tools, NEW arg \in TenantArgs,
             HandleToolsCall(p, tool, arg)
      PROVE  LockHeld'
  BY <1>0, <1>4, <1>6 DEF HandleToolsCall, TypeOK
<1>7. ASSUME NEW p \in Clients, AnswerList(p) PROVE LockHeld'
  BY <1>0, <1>4, <1>7 DEF AnswerList, Answer, TypeOK
<1>8. ASSUME NEW p \in Clients, ReadCached(p) PROVE LockHeld'
  BY <1>0, <1>4, <1>8 DEF ReadCached, TypeOK
<1>9. ASSUME NEW p \in Clients, Refuse(p) \/ Advised(p) \/ Forward(p) \/ ParamHeaders(p)
      PROVE  LockHeld'
  <2>1. pc[p] \in {"call", "advise", "headers"} /\ lock' = lock /\ wtodo' = wtodo
    BY <1>9, CallMoves
  <2>2. \E l \in {"advise", "headers", "idle"} : \E S :
           pc' = [pc EXCEPT ![p] = l] /\ todo' = [todo EXCEPT ![p] = S]
    BY <1>9, CallMoves, Zenon DEF Answer
  <2> QED
    BY <1>0, <1>4, <2>1, <2>2 DEF TypeOK
<1>10. ASSUME WarmRoundEnds \/ WarmRetries PROVE LockHeld'
  <2> SUFFICES ASSUME NEW q \in Procs, Fetching(q)' PROVE (lock[At(q)] = q)'
    OBVIOUS
  <2>1. q # Warmer /\ Fetching(q)
    BY <1>10 DEF WarmRoundEnds, WarmRetries, TypeOK
  <2>2. At(q)' = At(q)
    BY <1>10, <2>1, AtFrame DEF WarmRoundEnds, WarmRetries
  <2> QED
    BY <1>10, <2>1, <2>2 DEF WarmRoundEnds, WarmRetries
<1>11. ASSUME WarmTimeout \/ (\E v \in Views : OfferChanges(v)) \/ Tick \/ UNCHANGED vars
       PROVE  LockHeld'
  <2>1. UNCHANGED <<pc, lock, wtodo, todo>>
    BY <1>11, Zenon DEF WarmTimeout, OfferChanges, Tick, vars
  <2>2. \A q \in Procs : At(q)' = At(q)
    BY <2>1, AtFrame
  <2> QED
    BY <2>1, <2>2
<1> QED
  BY <1>2, <1>3, <1>5, <1>6, <1>7, <1>8, <1>9, <1>10, <1>11, Zenon DEF Next, Handle, Get, Warm, Procs

\* A process with an answer to store has just got it, or keeps it and stays at its catalog.
LEMMA AnswerKept ==
  ASSUME TypeOK, Control, [Next]_vars, NEW q \in Procs, pc'[q] = "store", ~FetchAnswers(q)
  PROVE  pc[q] = "store" /\ At(q)' = At(q) /\ snap'[q] = snap[q]
<1> DEFINE Kept == pc[q] = "store" /\ At(q)' = At(q) /\ snap'[q] = snap[q]
<1>0. Warmer \notin Clients /\ Warmer \in Procs /\ Clients \subseteq Procs
      /\ \A p \in Procs : p # Warmer => p \in Clients
  BY ClientsAssumption DEF Procs
<1>1. ASSUME NEW p \in Procs, NEW i, Return(p, i),
             snap' = snap \/ snap' = [snap EXCEPT ![p] = 0]
      PROVE  Kept
  <2>1. q # p /\ pc[q] = "store"
    BY <1>1, ReturnEffect DEF TypeOK
  <2>2. At(q)' = At(q)
    BY <1>0, <1>1, <2>1, AtFrame, ReturnEffect DEF TypeOK
  <2> QED
    BY <1>1, <2>1, <2>2 DEF TypeOK
<1>2. ASSUME NEW p \in Procs, GetFresh(p) \/ FetchFails(p) \/ FetchStores(p) PROVE Kept
  <2>1. \E i : Return(p, i)
    BY <1>2 DEF GetFresh, FetchFails, FetchStores
  <2>2. snap' = snap \/ snap' = [snap EXCEPT ![p] = 0]
    BY <1>2 DEF GetFresh, FetchFails, FetchStores
  <2> HIDE DEF Kept
  <2> QED
    BY <1>1, <2>1, <2>2, Zenon
<1>3. ASSUME NEW p \in Procs, BeginFetch(p) \/ FetchAnswers(p) PROVE Kept
  <2>1. At(q)' = At(q)
    BY <1>3, AtFrame DEF BeginFetch, FetchAnswers
  <2>2. pc[q] = "store" /\ snap'[q] = snap[q]
    BY <1>3 DEF BeginFetch, FetchAnswers, TypeOK
  <2> QED
    BY <2>1, <2>2
<1>4. ASSUME NEW p \in Clients, pc'[p] # "store", snap' = snap, wtodo' = wtodo,
             \A r \in Procs : r # p => pc'[r] = pc[r],
             \A r \in Clients : r # p => todo'[r] = todo[r]
      PROVE  Kept
  <2>1. At(q)' = At(q)
    BY <1>0, <1>4, AtFrame
  <2> QED
    BY <1>4, <2>1
<1>5. ASSUME NEW p \in Clients, HandleToolsList(p) PROVE Kept
  BY <1>0, <1>4, <1>5 DEF HandleToolsList, TypeOK
<1>6. ASSUME NEW p \in Clients, NEW tool \in Tools, NEW arg \in TenantArgs,
             HandleToolsCall(p, tool, arg)
      PROVE  Kept
  BY <1>0, <1>4, <1>6 DEF HandleToolsCall, TypeOK
<1>7. ASSUME NEW p \in Clients, AnswerList(p) PROVE Kept
  BY <1>0, <1>4, <1>7 DEF AnswerList, Answer, TypeOK
<1>8. ASSUME NEW p \in Clients, ReadCached(p) PROVE Kept
  BY <1>0, <1>4, <1>8 DEF ReadCached, TypeOK
<1>9. ASSUME NEW p \in Clients, Refuse(p) \/ Advised(p) \/ Forward(p) \/ ParamHeaders(p)
      PROVE  Kept
  <2>1. snap' = snap /\ wtodo' = wtodo
    BY <1>9, CallMoves
  <2>2. \E l \in {"advise", "headers", "idle"} : \E S :
           pc' = [pc EXCEPT ![p] = l] /\ todo' = [todo EXCEPT ![p] = S]
    BY <1>9, CallMoves, Zenon DEF Answer
  <2> QED
    BY <1>0, <1>4, <2>1, <2>2 DEF TypeOK
<1>10. ASSUME WarmRoundEnds \/ WarmRetries PROVE Kept
  <2>1. q # Warmer /\ pc[q] = "store"
    BY <1>10 DEF WarmRoundEnds, WarmRetries, TypeOK
  <2>2. At(q)' = At(q)
    BY <1>10, <2>1, AtFrame DEF WarmRoundEnds, WarmRetries
  <2> QED
    BY <1>10, <2>1, <2>2 DEF WarmRoundEnds, WarmRetries
<1>11. ASSUME WarmTimeout \/ (\E v \in Views : OfferChanges(v)) \/ Tick \/ UNCHANGED vars
       PROVE  Kept
  <2>1. UNCHANGED <<pc, snap, wtodo, todo>>
    BY <1>11, Zenon DEF WarmTimeout, OfferChanges, Tick, vars
  <2>2. At(q)' = At(q)
    BY <2>1, AtFrame
  <2> QED
    BY <2>1, <2>2
<1> QED
  BY <1>2, <1>3, <1>5, <1>6, <1>7, <1>8, <1>9, <1>10, <1>11, Zenon DEF Next, Handle, Get, Warm, Procs

\* Every step preserves AnswerCurrent: while one process waits for, or holds, an answer
\* for a view, the lock keeps all others from storing a newer list of it.
LEMMA AnswerStep ==
  ASSUME TypeOK, Control, LockHeld, AnswerCurrent, [Next]_vars
  PROVE  AnswerCurrent'
<1> SUFFICES ASSUME NEW q \in Procs, pc'[q] = "store"
             PROVE  snap'[q] \in 1..version'[At(q)'] /\ cached'[At(q)'] <= snap'[q]
  BY DEF AnswerCurrent
<1>1. Growing
  BY VersionsGrow
<1>2. CASE FetchAnswers(q)
  <2>1. At(q)' = At(q) /\ At(q) \in Views
    BY <1>2, AtFrame, AtView DEF FetchAnswers, Fetching
  <2>2. snap'[q] = version[At(q)] /\ UNCHANGED <<cached, version>>
    BY <1>2 DEF FetchAnswers, TypeOK
  <2> QED
    BY <2>1, <2>2 DEF TypeOK
<1>3. CASE ~FetchAnswers(q)
  <2>1. pc[q] = "store" /\ At(q)' = At(q) /\ snap'[q] = snap[q]
    BY <1>3, AnswerKept
  <2>2. At(q) \in Views
    BY <2>1, AtView DEF Fetching
  <2>3. snap[q] \in 1..version[At(q)] /\ cached[At(q)] <= snap[q]
    BY <2>1 DEF AnswerCurrent
  <2>4. cached'[At(q)] = cached[At(q)]
    <3>1. ASSUME NEW p \in Procs, FetchStores(p) PROVE cached'[At(q)] = cached[At(q)]
      <4>1. p # q
        BY <3>1, ReturnEffect DEF FetchStores, TypeOK
      <4>2. At(p) # At(q)
        BY <2>1, <3>1, <4>1 DEF LockHeld, Fetching, FetchStores
      <4> QED
        BY <2>2, <3>1, <4>2 DEF FetchStores, TypeOK
    <3>2. ASSUME NEW v \in Views, OfferChanges(v) PROVE cached'[At(q)] = cached[At(q)]
      BY <3>2 DEF OfferChanges
    <3> QED
      BY <3>1, <3>2, CacheWriters
  <2>5. version[At(q)] <= version'[At(q)] /\ version[At(q)] \in Nat /\ version'[At(q)] \in Nat
    BY <1>1, <2>2 DEF Growing, TypeOK
  <2> QED
    BY <2>1, <2>3, <2>4, <2>5
<1> QED
  BY <1>2, <1>3
-----------------------------------------------------------------------------
(* What a step can do to one client's handler. *)

SameRequest(p) == rtool'[p] = rtool[p] /\ rarg'[p] = rarg[p] /\ told'[p] = told[p]

Stays(p) == pc'[p] = pc[p] /\ todo'[p] = todo[p] /\ got'[p] = got[p] /\ SameRequest(p)

\* The first tenant of todo is noted with version i of its catalog, or an error.
Notes(p, i) ==
    /\ todo[p] # {}
    /\ got'[p] = [got[p] EXCEPT ![First(todo[p])] = i]
    /\ todo'[p] = todo[p] \ {First(todo[p])}
    /\ SameRequest(p)

\* catalog.get has returned to toolsFor.
Gets(p) ==
    /\ Listing(p) /\ pc'[p] = "list"
    /\ \E i : /\ Notes(p, i)
              /\ \/ i \in Nat /\ i # 0 /\ i = cached'[At(p)]
                 \/ i = Skipped /\ ~Known(At(p))

\* catalog.get is fetching.
Fetches(p) ==
    /\ Listing(p) /\ Listing(p)'
    /\ todo'[p] = todo[p] /\ got'[p] = got[p] /\ SameRequest(p)

Starts(p) ==
    /\ pc[p] = "idle" /\ got'[p] = got[p] /\ told'[p] = told[p]
    /\ \/ pc'[p] = "list" /\ todo'[p] = ListedTenants(p)
       \/ /\ pc'[p] = "call" /\ todo'[p] = Asked(p, rarg'[p])
          /\ Asked(p, rarg'[p]) # {}

\* selectTenant reads a catalog.
Asks(p) == pc[p] = "call" /\ pc'[p] = "call" /\ Notes(p, cached[At(p)])

\* selectTenant is through.
Leaves(p) ==
    /\ pc[p] \in {"call", "advise"} /\ pc'[p] \in {"advise", "headers"}
    /\ got'[p] = got[p] /\ told'[p] = told[p]

Answers(p) ==
    /\ pc'[p] = "idle" /\ got'[p] = NotRead
    /\ \/ told'[p] = told[p]
       \/ /\ pc[p] = "list" /\ todo[p] = {}
          /\ \E t \in Mine(p) : got[p][t] # Skipped
          /\ told'[p] = got[p]

Moves(p) == \/ Stays(p) \/ Gets(p) \/ Fetches(p) \/ Starts(p) \/ Asks(p) \/ Leaves(p)
            \/ Answers(p)

\* A client's handler is moved only by itself, in one of these ways.
LEMMA ClientMoves ==
  ASSUME TypeOK, Control, AnswerCurrent, [Next]_vars, NEW p \in Clients
  PROVE  Moves(p)
<1>0. /\ p \in Procs /\ p # Warmer
      /\ pc \in [Procs -> PCs] /\ todo \in [Clients -> SUBSET Tenants]
      /\ got \in [Clients -> [Tenants -> Found]]
      /\ rtool \in [Clients -> Tools \cup {NoTool}]
      /\ rarg \in [Clients -> TenantArgs] /\ told \in [Clients -> [Tenants -> Found]]
  BY ClientsAssumption DEF Procs, TypeOK
<1>1. ASSUME NEW q \in Procs, q # p, NEW i, Return(q, i) PROVE Stays(p)
  BY <1>0, <1>1, ReturnEffect DEF Stays, SameRequest
<1>2. ASSUME NEW q \in Procs, q # p, Get(q) PROVE Stays(p)
  <2>1. CASE BeginFetch(q) \/ FetchAnswers(q)
    BY <1>0, <1>2, <2>1 DEF BeginFetch, FetchAnswers, Stays, SameRequest
  <2>2. CASE \E i : Return(q, i)
    BY <1>1, <1>2, <2>2
  <2> QED
    BY <1>2, <2>1, <2>2 DEF Get, GetFresh, FetchFails, FetchStores
<1>3. ASSUME NEW i, Return(p, i), Getting(p) \/ Fetching(p),
             \/ i \in Nat /\ i # 0 /\ i = cached'[At(p)]
             \/ i = Skipped /\ ~Known(At(p))
      PROVE  Gets(p)
  <2>1. Listing(p) /\ todo[p] # {}
    BY <1>0, <1>3 DEF Getting, Fetching, Listing, Control
  <2>2. pc'[p] = "list" /\ Notes(p, i)
    <3>1. /\ pc' = [pc EXCEPT ![p] = "list"]
          /\ got' = [got EXCEPT ![p] = [got[p] EXCEPT ![First(todo[p])] = i]]
          /\ todo' = [todo EXCEPT ![p] = todo[p] \ {First(todo[p])}]
          /\ UNCHANGED <<rtool, rarg, told>>
      BY <1>0, <1>3, ReturnEffect
    <3> QED
      BY <1>0, <2>1, <3>1 DEF Notes, SameRequest
  <2> QED
    BY <1>3, <2>1, <2>2 DEF Gets
<1>4. ASSUME Get(p) PROVE Moves(p)
  <2>1. Getting(p) \/ Fetching(p)
    BY <1>4 DEF Get, GetFresh, BeginFetch, FetchAnswers, FetchFails, FetchStores, Fetching
  <2>2. At(p) \in Views
    BY <1>0, <2>1, AtView
  <2>3. cached \in [Views -> Nat]
    BY DEF TypeOK
  <2>4. CASE GetFresh(p)
    <3>1. cached' = cached /\ Return(p, cached[At(p)]) /\ cached[At(p)] # 0
      BY <2>4, KnownFetched DEF GetFresh, Fresh
    <3> QED
      BY <1>3, <2>1, <2>2, <2>3, <3>1 DEF Moves
  <2>5. CASE BeginFetch(p) \/ FetchAnswers(p)
    <3>1. Fetches(p)
      BY <1>0, <2>1, <2>5
      DEF BeginFetch, FetchAnswers, Fetches, SameRequest, Listing, Getting, Fetching
    <3> QED
      BY <3>1 DEF Moves
  <2>6. CASE FetchFails(p)
    <3>1. cached' = cached /\ (Known(At(p)) => cached[At(p)] # 0)
      BY <2>6, KnownFetched DEF FetchFails
    <3>2. CASE Known(At(p))
      BY <1>3, <2>1, <2>2, <2>3, <2>6, <3>1, <3>2 DEF FetchFails, Moves
    <3>3. CASE ~Known(At(p))
      BY <1>3, <2>1, <2>6, <3>3 DEF FetchFails, Moves
    <3> QED
      BY <3>2, <3>3
  <2>7. CASE FetchStores(p)
    <3>1. snap[p] \in Nat /\ snap[p] # 0
      BY <1>0, <2>2, <2>7 DEF FetchStores, AnswerCurrent, TypeOK
    <3>2. cached'[At(p)] = snap[p] /\ Return(p, snap[p])
      BY <2>2, <2>3, <2>7 DEF FetchStores
    <3> QED
      BY <1>3, <2>1, <3>1, <3>2 DEF Moves
  <2> QED
    BY <1>4, <2>4, <2>5, <2>6, <2>7 DEF Get
<1>5. ASSUME NEW q \in Clients, HandleToolsList(q) PROVE Moves(p)
  <2>1. CASE q = p
    <3>1. Starts(p)
      BY <1>0, <1>5, <2>1 DEF HandleToolsList, Starts
    <3> QED
      BY <3>1 DEF Moves
  <2>2. CASE q # p
    <3>1. Stays(p)
      BY <1>0, <1>5, <2>2 DEF HandleToolsList, Stays, SameRequest
    <3> QED
      BY <3>1 DEF Moves
  <2> QED
    BY <2>1, <2>2
<1>6. ASSUME NEW q \in Clients, NEW tool \in Tools, NEW arg \in TenantArgs,
             HandleToolsCall(q, tool, arg)
      PROVE  Moves(p)
  <2>1. CASE q = p
    <3>1. rarg'[p] = arg /\ Starts(p)
      BY <1>0, <1>6, <2>1 DEF HandleToolsCall, Starts
    <3> QED
      BY <3>1 DEF Moves
  <2>2. CASE q # p
    <3>1. Stays(p)
      BY <1>0, <1>6, <2>2 DEF HandleToolsCall, Stays, SameRequest
    <3> QED
      BY <3>1 DEF Moves
  <2> QED
    BY <2>1, <2>2
<1>7. ASSUME NEW q \in Clients, q # p, Answer(q), told'[p] = told[p] PROVE Stays(p)
  BY <1>0, <1>7 DEF Answer, Stays, SameRequest
<1>8. ASSUME NEW q \in Clients, AnswerList(q) PROVE Moves(p)
  <2>1. CASE q = p
    <3>1. pc[p] = "list" /\ todo[p] = {} /\ pc'[p] = "idle" /\ got'[p] = NotRead
      BY <1>0, <1>8, <2>1 DEF AnswerList, Answer
    <3>2. told'[p] = IF \E t \in Mine(p) : got[p][t] # Skipped THEN got[p] ELSE told[p]
      BY <1>0, <1>8, <2>1 DEF AnswerList
    <3>3. Answers(p)
      BY <3>1, <3>2, Zenon DEF Answers
    <3> QED
      BY <3>3 DEF Moves
  <2>2. CASE q # p
    <3>1. told'[p] = told[p]
      BY <1>0, <1>8, <2>2 DEF AnswerList
    <3> QED
      BY <1>7, <1>8, <2>2, <3>1 DEF AnswerList, Moves
  <2> QED
    BY <2>1, <2>2
<1>9. ASSUME NEW q \in Clients, ReadCached(q) PROVE Moves(p)
  <2>1. CASE q # p
    <3>1. Stays(p)
      BY <1>0, <1>9, <2>1 DEF ReadCached, Stays, SameRequest
    <3> QED
      BY <3>1 DEF Moves
  <2>2. CASE q = p /\ pc[p] = "call"
    <3>1. Asks(p)
      BY <1>0, <1>9, <2>2 DEF ReadCached, Asks, Notes, SameRequest
    <3> QED
      BY <3>1 DEF Moves
  <2>3. CASE q = p /\ pc[p] = "advise"
    <3>1. Leaves(p)
      BY <1>0, <1>9, <2>3 DEF ReadCached, Leaves
    <3> QED
      BY <3>1 DEF Moves
  <2> QED
    BY <1>9, <2>1, <2>2, <2>3 DEF ReadCached
<1>10. ASSUME NEW q \in Clients, Refuse(q) \/ Advised(q) \/ Forward(q) \/ ParamHeaders(q)
       PROVE  Moves(p)
  <2>0. told' = told
    BY <1>10, CallMoves
  <2>1. CASE Answer(q) /\ q = p
    <3>1. Answers(p)
      BY <1>0, <2>0, <2>1 DEF Answer, Answers
    <3> QED
      BY <3>1 DEF Moves
  <2>2. CASE Answer(q) /\ q # p
    BY <1>7, <2>0, <2>2 DEF Moves
  <2>3. CASE ~Answer(q)
    <3>1. PICK l \in {"advise", "headers"}, S \in SUBSET Tenants :
             /\ pc' = [pc EXCEPT ![q] = l] /\ todo' = [todo EXCEPT ![q] = S]
             /\ UNCHANGED <<got, rtool, rarg>>
      BY <1>10, <2>3, CallMoves, Zenon
    <3>2. CASE q # p
      <4>1. Stays(p)
        BY <1>0, <2>0, <3>1, <3>2 DEF Stays, SameRequest
      <4> QED
        BY <4>1 DEF Moves
    <3>3. CASE q = p
      <4>1. pc[q] = "call"
        BY <1>10, <2>3, Zenon DEF Refuse, Advised, Forward, ParamHeaders, Decided
      <4>2. Leaves(p)
        BY <1>0, <2>0, <3>1, <3>3, <4>1 DEF Leaves
      <4> QED
        BY <4>2 DEF Moves
    <3> QED
      BY <3>2, <3>3
  <2> QED
    BY <2>1, <2>2, <2>3
<1>11. ASSUME WarmRoundEnds \/ WarmRetries PROVE Moves(p)
  <2>1. Stays(p)
    BY <1>0, <1>11 DEF WarmRoundEnds, WarmRetries, Stays, SameRequest
  <2> QED
    BY <2>1 DEF Moves
<1>12. ASSUME WarmTimeout \/ (\E v \in Views : OfferChanges(v)) \/ Tick \/ UNCHANGED vars
       PROVE  Moves(p)
  <2>1. UNCHANGED <<pc, clientVars>>
    BY <1>12, Zenon DEF WarmTimeout, OfferChanges, Tick, vars
  <2> QED
    BY <2>1 DEF Moves, Stays, SameRequest
<1>13. ASSUME NEW q \in Procs, Get(q) PROVE Moves(p)
  BY <1>2, <1>4, <1>13 DEF Moves
<1> QED
  BY <1>5, <1>6, <1>8, <1>9, <1>10, <1>11, <1>12, <1>13, Zenon DEF Next, Handle, Get, Warm, Procs

\* Every step preserves Copies: handlers read the cache, which does not go back.
LEMMA CopiesStep ==
  ASSUME TypeOK, Control, AnswerCurrent, Copies, Lists, [Next]_vars
  PROVE  Copies'
<1> SUFFICES ASSUME NEW p \in Clients, NEW t \in Tenants
             PROVE  /\ got'[p][t] \in Nat => got'[p][t] <= cached'[ViewKey(t)]
                    /\ told'[p][t] \in Nat =>
                          0 < told'[p][t] /\ told'[p][t] <= cached'[ViewKey(t)]
                    /\ got'[p][t] \in Nat /\ told'[p][t] \in Nat => told'[p][t] <= got'[p][t]
  BY DEF Copies
<1>1. /\ cached[ViewKey(t)] \in Nat /\ cached'[ViewKey(t)] \in Nat
      /\ cached[ViewKey(t)] <= cached'[ViewKey(t)]
  BY VersionsGrow, ViewOf DEF Growing, TypeOK
<1>2. /\ got[p][t] \in Nat => got[p][t] <= cached[ViewKey(t)]
      /\ told[p][t] \in Nat => 0 < told[p][t] /\ told[p][t] <= cached[ViewKey(t)]
      /\ got[p][t] \in Nat /\ told[p][t] \in Nat => told[p][t] <= got[p][t]
  BY DEF Copies
<1>3. got[p] \in [Tenants -> Found]
  BY DEF TypeOK
<1>4. CASE Stays(p) \/ Fetches(p) \/ Starts(p) \/ Leaves(p)
  BY <1>1, <1>2, <1>4 DEF Stays, Fetches, Starts, Leaves, SameRequest
<1>5. CASE Answers(p)
  <2>1. got'[p][t] \notin Nat
    BY <1>5, DistinctAssumption DEF Answers, NotRead
  <2>2. pc[p] = "list" => got[p][t] # 0
    BY DEF Lists, Listing
  <2> QED
    BY <1>1, <1>2, <1>5, <2>1, <2>2 DEF Answers
<1>6. ASSUME NEW i, Notes(p, i), i \in Nat => i <= cached'[At(p)] /\ cached[At(p)] <= i
      PROVE  /\ got'[p][t] \in Nat => got'[p][t] <= cached'[ViewKey(t)]
             /\ told'[p][t] = told[p][t]
             /\ got'[p][t] \in Nat /\ told[p][t] \in Nat => told[p][t] <= got'[p][t]
  <2>1. At(p) = ViewKey(First(todo[p]))
    BY <1>6, ClientAt DEF Notes
  <2>2. got'[p][t] = IF t = First(todo[p]) THEN i ELSE got[p][t]
    BY <1>3, <1>6 DEF Notes
  <2>3. told'[p][t] = told[p][t]
    BY <1>6 DEF Notes, SameRequest
  <2> QED
    BY <1>1, <1>2, <1>6, <2>1, <2>2, <2>3
<1>7. CASE Gets(p)
  <2>1. PICK i : /\ Notes(p, i)
                 /\ \/ i \in Nat /\ i # 0 /\ i = cached'[At(p)]
                    \/ i = Skipped /\ ~Known(At(p))
    BY <1>7 DEF Gets
  <2>2. At(p) \in Views
    BY <2>1, ClientAt DEF Notes
  <2>3. cached[At(p)] <= cached'[At(p)] /\ cached'[At(p)] \in Nat
    BY <2>2, VersionsGrow DEF Growing
  <2>4. i \in Nat => i <= cached'[At(p)] /\ cached[At(p)] <= i
    BY <2>1, <2>3, DistinctAssumption
  <2> QED
    BY <1>1, <1>2, <1>6, <2>1, <2>4
<1>8. CASE Asks(p)
  <2>1. At(p) \in Views
    BY <1>8, ClientAt DEF Asks, Notes
  <2>2. cached[At(p)] \in Nat /\ cached[At(p)] <= cached'[At(p)]
    BY <2>1, VersionsGrow DEF Growing, TypeOK
  <2> QED
    BY <1>1, <1>2, <1>6, <1>8, <2>2 DEF Asks
<1> QED
  BY <1>4, <1>5, <1>7, <1>8, ClientMoves DEF Moves

\* Every step preserves Lists.
LEMMA ListsStep ==
  ASSUME TypeOK, Control, AnswerCurrent, Lists, [Next]_vars
  PROVE  Lists'
<1> SUFFICES ASSUME NEW p \in Clients, Listing(p)'
             PROVE  /\ todo'[p] \subseteq ListedTenants(p)
                    /\ \A t \in Tenants : /\ got'[p][t] # 0
                                          /\ got'[p][t] # Unread => t \in ListedTenants(p)
  BY DEF Lists, ListedTenants, Mine
<1>1. CASE Stays(p) \/ Fetches(p)
  BY <1>1 DEF Stays, Fetches, Lists, Listing
<1>2. CASE Gets(p)
  <2>1. PICK i : Notes(p, i) /\ i # 0
    BY <1>2, DistinctAssumption DEF Gets
  <2>2. First(todo[p]) \in todo[p] /\ todo[p] \subseteq ListedTenants(p)
    BY <1>2, <2>1, ClientAt DEF Notes, Gets, Lists
  <2>3. \A t \in Tenants : got'[p][t] = IF t = First(todo[p]) THEN i ELSE got[p][t]
    BY <2>1 DEF Notes, TypeOK
  <2> QED
    BY <1>2, <2>1, <2>2, <2>3 DEF Notes, Gets, Lists
<1>3. CASE Starts(p)
  <2>1. \A t \in Tenants : got'[p][t] = Unread
    BY <1>3 DEF Starts, Control, NotRead
  <2>2. todo'[p] = ListedTenants(p)
    BY <1>3 DEF Starts, Listing
  <2> QED
    BY <2>1, <2>2, DistinctAssumption
<1> QED
  BY <1>1, <1>2, <1>3, ClientMoves DEF Moves, Asks, Leaves, Answers, Listing

\* Every step preserves Told: a tenant the client was told of is skipped only when the
\* list in the cache is a null one, which the backend must have answered with.
LEMMA ToldStep ==
  ASSUME TypeOK, Control, AnswerCurrent, Copies, Lists, Told, [Next]_vars
  PROVE  Told'
<1> SUFFICES ASSUME NEW p \in Clients, NEW t \in Tenants
             PROVE  /\ told'[p][t] # Unread => t \in Mine(p)
                    /\ got'[p][t] = Skipped /\ told'[p][t] \in Nat =>
                          \E i \in 1..version'[ViewKey(t)] : Offers[ViewKey(t)][i] = Nil
  BY DEF Told, Mine
<1> DEFINE v == ViewKey(t)
<1>1. /\ cached[v] \in Nat /\ version[v] \in Nat /\ version'[v] \in Nat
      /\ cached[v] <= version[v] /\ version[v] <= version'[v]
  BY VersionsGrow, ViewOf DEF Growing, TypeOK
<1>2. /\ told[p][t] # Unread => t \in Mine(p)
      /\ got[p][t] = Skipped /\ told[p][t] \in Nat =>
            \E i \in 1..version'[v] : Offers[v][i] = Nil
  BY <1>1 DEF Told
<1>3. CASE Stays(p) \/ Fetches(p) \/ Starts(p) \/ Leaves(p)
  BY <1>2, <1>3 DEF Stays, Fetches, Starts, Leaves, SameRequest
<1>4. CASE Answers(p)
  <2>1. got'[p][t] # Skipped
    BY <1>4, DistinctAssumption DEF Answers, NotRead
  <2>2. CASE told'[p] = got[p] /\ pc[p] = "list" /\ Mine(p) # {}
    BY <2>1, <2>2 DEF Lists, Listing, ListedTenants
  <2> QED
    BY <1>2, <1>4, <2>1, <2>2 DEF Answers
<1>5. ASSUME NEW i, Notes(p, i), i = Skipped => ~Known(At(p))
      PROVE  /\ told'[p][t] # Unread => t \in Mine(p)
             /\ got'[p][t] = Skipped /\ told'[p][t] \in Nat =>
                   \E j \in 1..version'[v] : Offers[v][j] = Nil
  <2>1. At(p) = ViewKey(First(todo[p]))
    BY <1>5, ClientAt DEF Notes
  <2>2. got'[p][t] = IF t = First(todo[p]) THEN i ELSE got[p][t]
    BY <1>5 DEF Notes, TypeOK
  <2>3. told'[p] = told[p]
    BY <1>5 DEF Notes, SameRequest
  <2>4. ASSUME t = First(todo[p]), i = Skipped, told[p][t] \in Nat
        PROVE  \E j \in 1..version'[v] : Offers[v][j] = Nil
    <3>1. cached[v] # 0
      BY <1>1, <2>4 DEF Copies
    <3>2. Offers[v][cached[v]] = Nil
      BY <1>5, <2>1, <2>4, <3>1 DEF Known, ListOf
    <3>3. cached[v] \in 1..version'[v]
      BY <1>1, <3>1
    <3> QED
      BY <3>2, <3>3
  <2> QED
    BY <1>2, <2>2, <2>3, <2>4
<1>6. CASE Gets(p)
  <2>1. PICK i : Notes(p, i) /\ (i = Skipped => ~Known(At(p)))
    BY <1>6, DistinctAssumption DEF Gets
  <2> QED
    BY <1>5, <2>1
<1>7. CASE Asks(p)
  <2>1. cached[At(p)] # Skipped
    BY <1>7, ClientAt, DistinctAssumption DEF Asks, Notes, TypeOK
  <2> QED
    BY <1>5, <1>7, <2>1 DEF Asks
<1> QED
  BY <1>3, <1>4, <1>6, <1>7, ClientMoves DEF Moves

\* Every step preserves Calls: selectTenant asks the tenants one by one, and finds lists
\* that are at least as new as those the client has been told.
LEMMA CallsStep ==
  ASSUME TypeOK, Control, AnswerCurrent, Calls, [Next]_vars
  PROVE  Calls'
<1> SUFFICES ASSUME NEW p \in Clients, pc'[p] = "call"
             PROVE  /\ Asked(p, rarg'[p]) # {}
                    /\ \A t \in Asked(p, rarg'[p]) \ todo'[p] : got'[p][t] \in Nat
  BY DEF Calls, Asked, Mine
<1>1. CASE Stays(p)
  BY <1>1 DEF Stays, SameRequest, Calls
<1>2. CASE Starts(p)
  <2>1. \A t \in Tenants : got'[p][t] \notin Nat
    BY <1>2, DistinctAssumption DEF Starts, Control, NotRead
  <2>2. todo'[p] = Asked(p, rarg'[p]) /\ Asked(p, rarg'[p]) # {}
    BY <1>2 DEF Starts
  <2> QED
    BY <2>1, <2>2
<1>3. CASE Asks(p)
  <2>1. At(p) \in Views
    BY <1>3, ClientAt DEF Asks, Notes
  <2>2. cached[At(p)] \in Nat
    BY <2>1 DEF TypeOK
  <2>3. \A t \in Tenants : got'[p][t] = IF t = First(todo[p]) THEN cached[At(p)] ELSE got[p][t]
    BY <1>3 DEF Asks, Notes, TypeOK
  <2>4. rarg'[p] = rarg[p] /\ todo'[p] = todo[p] \ {First(todo[p])}
    BY <1>3 DEF Asks, Notes, SameRequest
  <2>5. /\ Asked(p, rarg[p]) # {}
        /\ \A t \in Asked(p, rarg[p]) \ todo[p] : got[p][t] \in Nat
    BY <1>3 DEF Calls, Asks
  <2>6. Asked(p, rarg[p]) \subseteq Tenants
    BY DEF Asked, Mine, AuthorizedTenants
  <2>7. \A t \in Asked(p, rarg[p]) \ todo'[p] : got'[p][t] \in Nat
    BY <2>2, <2>3, <2>4, <2>5, <2>6
  <2> QED
    BY <2>4, <2>5, <2>7
<1> QED
  BY <1>1, <1>2, <1>3, ClientMoves DEF Moves, Gets, Fetches, Leaves, Answers, Listing
-----------------------------------------------------------------------------
(* The warm-up *)

InRound == pc[Warmer] \in {"warm", "fetch", "store"}

\* Catalogs.warm is through with one view, with an error or with a list in the cache.
ViewDone ==
    /\ InRound /\ pc'[Warmer] = "warm" /\ wtodo' = wtodo \ {At(Warmer)}
    /\ werr \/ cached'[At(Warmer)] # 0 \/ werr'
    /\ werr => werr'

WarmerMoves ==
    \/ /\ pc'[Warmer] = pc[Warmer] \/ (InRound /\ InRound')
       /\ UNCHANGED <<wtodo, werr>>
    \/ ViewDone
    \/ WarmRoundEnds
    \/ WarmRetries

\* The warm-up is moved only by itself, in one of these ways.
LEMMA WarmerStep ==
  ASSUME TypeOK, Control, AnswerCurrent, [Next]_vars
  PROVE  WarmerMoves
<1>0. Warmer \in Procs /\ Warmer \notin Clients /\ pc \in [Procs -> PCs] /\ cached \in [Views -> Nat]
  BY ClientsAssumption DEF Procs, TypeOK
<1>1. ASSUME UNCHANGED <<wtodo, werr>>,
             pc' = pc \/ (\E p \in Clients : \E l : pc' = [pc EXCEPT ![p] = l])
      PROVE  WarmerMoves
  BY <1>0, <1>1 DEF WarmerMoves
<1>2. ASSUME NEW p \in Clients, Get(p) PROVE WarmerMoves
  <2>1. p # Warmer /\ p \in Procs
    BY <1>0 DEF Procs
  <2>2. CASE BeginFetch(p) \/ FetchAnswers(p)
    <3>1. UNCHANGED <<wtodo, werr>> /\ \E l : pc' = [pc EXCEPT ![p] = l]
      BY <2>2, Zenon DEF BeginFetch, FetchAnswers
    <3> QED
      BY <1>1, <3>1
  <2>3. CASE \E i : Return(p, i)
    <3>1. UNCHANGED <<wtodo, werr>> /\ \E l : pc' = [pc EXCEPT ![p] = l]
      BY <2>1, <2>3, Zenon DEF Return
    <3> QED
      BY <1>1, <3>1
  <2> QED
    BY <1>2, <2>2, <2>3 DEF Get, GetFresh, FetchFails, FetchStores
<1>3. ASSUME NEW i, Return(Warmer, i), Getting(Warmer) \/ Fetching(Warmer),
             i = Skipped \/ cached'[At(Warmer)] # 0
      PROVE  WarmerMoves
  <2>1. InRound
    BY <1>3 DEF Getting, Fetching, InRound
  <2>2. pc' = [pc EXCEPT ![Warmer] = "warm"] /\ wtodo' = wtodo \ {At(Warmer)}
    BY <1>3, Zenon DEF Return
  <2>3. (werr => werr') /\ (i = Skipped => werr')
    BY <1>3, Zenon DEF Return
  <2>4. pc'[Warmer] = "warm"
    BY <1>0, <2>2
  <2> QED
    BY <1>3, <2>1, <2>2, <2>3, <2>4, Zenon DEF ViewDone, WarmerMoves
<1>4. ASSUME Get(Warmer) PROVE WarmerMoves
  <2>1. Getting(Warmer) \/ Fetching(Warmer)
    BY <1>4 DEF Get, GetFresh, BeginFetch, FetchAnswers, FetchFails, FetchStores, Fetching
  <2>2. At(Warmer) \in Views
    BY <1>0, <2>1, AtView
  <2>3. CASE GetFresh(Warmer)
    <3>1. cached' = cached /\ cached[At(Warmer)] # 0
      BY <2>3, KnownFetched DEF GetFresh, Fresh
    <3> QED
      BY <1>3, <2>1, <2>3, <3>1 DEF GetFresh
  <2>4. CASE BeginFetch(Warmer) \/ FetchAnswers(Warmer)
    <3>1. InRound /\ InRound'
      BY <1>0, <2>4 DEF BeginFetch, FetchAnswers, Getting, InRound
    <3>2. UNCHANGED <<wtodo, werr>>
      BY <2>4, Zenon DEF BeginFetch, FetchAnswers
    <3> QED
      BY <3>1, <3>2, Zenon DEF WarmerMoves
  <2>5. CASE FetchFails(Warmer)
    <3>1. cached' = cached /\ (Known(At(Warmer)) => cached[At(Warmer)] # 0)
      BY <2>5, KnownFetched DEF FetchFails
    <3>2. CASE Known(At(Warmer))
      BY <1>3, <2>1, <2>5, <3>1, <3>2 DEF FetchFails
    <3>3. CASE ~Known(At(Warmer))
      BY <1>3, <2>1, <2>5, <3>3 DEF FetchFails
    <3> QED
      BY <3>2, <3>3
  <2>6. CASE FetchStores(Warmer)
    <3>1. snap[Warmer] # 0
      BY <1>0, <2>2, <2>6 DEF FetchStores, AnswerCurrent, TypeOK
    <3>2. cached'[At(Warmer)] # 0 /\ Return(Warmer, snap[Warmer])
      BY <1>0, <2>2, <2>6, <3>1 DEF FetchStores
    <3> QED
      BY <1>3, <2>1, <3>2
  <2> QED
    BY <1>4, <2>3, <2>4, <2>5, <2>6 DEF Get
<1>5. ASSUME NEW p \in Clients, NEW tool, NEW arg,
             HandleToolsList(p) \/ HandleToolsCall(p, tool, arg) \/ AnswerList(p) \/ ReadCached(p)
      PROVE  WarmerMoves
  <2>1. UNCHANGED <<wtodo, werr>> /\ (pc' = pc \/ \E l : pc' = [pc EXCEPT ![p] = l])
    BY <1>5, Zenon DEF HandleToolsList, HandleToolsCall, AnswerList, ReadCached, Answer
  <2> QED
    BY <1>1, <2>1
<1>6. ASSUME NEW p \in Clients, Refuse(p) \/ Advised(p) \/ Forward(p) \/ ParamHeaders(p)
      PROVE  WarmerMoves
  <2>1. UNCHANGED <<wtodo, werr>> /\ \E l : pc' = [pc EXCEPT ![p] = l]
    BY <1>6, CallMoves, Zenon DEF Answer
  <2> QED
    BY <1>1, <2>1
<1>7. ASSUME WarmTimeout \/ (\E v \in Views : OfferChanges(v)) \/ Tick \/ UNCHANGED vars
      PROVE  WarmerMoves
  <2>1. UNCHANGED <<pc, wtodo, werr>>
    BY <1>7, Zenon DEF WarmTimeout, OfferChanges, Tick, vars
  <2> QED
    BY <2>1, Zenon DEF WarmerMoves
<1>8. ASSUME WarmRoundEnds \/ WarmRetries PROVE WarmerMoves
  BY <1>8, Zenon DEF WarmerMoves
<1> QED
  BY <1>2, <1>4, <1>5, <1>6, <1>7, <1>8, Zenon DEF Next, Handle, Warm

\* Every step preserves Warmed.
LEMMA WarmedStep ==
  ASSUME TypeOK, Control, AnswerCurrent, Warmed, [Next]_vars
  PROVE  Warmed'
<1>1. \A v \in Views : cached[v] # 0 => cached'[v] # 0
  BY VersionsGrow DEF Growing, TypeOK
<1>2. Warmer \in Procs /\ pc \in [Procs -> PCs]
  BY DEF Procs, TypeOK
<1>3. CASE /\ pc'[Warmer] = pc[Warmer] \/ (InRound /\ InRound')
           /\ UNCHANGED <<wtodo, werr>>
  BY <1>1, <1>3, Zenon DEF Warmed, InRound
<1>4. CASE ViewDone
  <2>1. ~werr' => ~werr /\ cached'[At(Warmer)] # 0
    BY <1>4, Zenon DEF ViewDone
  <2>2. pc[Warmer] \in {"warm", "fetch", "store"} /\ pc'[Warmer] = "warm" /\ wtodo' = wtodo \ {At(Warmer)}
    BY <1>4, Zenon DEF ViewDone, InRound
  <2>3. ~werr' => \A v \in Views \ wtodo : cached'[v] # 0
    BY <1>1, <2>1, <2>2, Zenon DEF Warmed
  <2>4. ~werr' => \A v \in Views \ wtodo' : cached'[v] # 0
    BY <2>1, <2>2, <2>3, Zenon
  <2>5. pc'[Warmer] # "done"
    BY <2>2
  <2> QED
    BY <2>4, <2>5, Zenon DEF Warmed
<1>5. CASE WarmRoundEnds
  <2>1. /\ pc[Warmer] = "warm" /\ wtodo = {} /\ cached' = cached
        /\ pc' = [pc EXCEPT ![Warmer] = IF werr THEN "sleep" ELSE "done"]
    BY <1>5, Zenon DEF WarmRoundEnds
  <2>2. CASE werr
    <3>1. pc'[Warmer] = "sleep"
      BY <1>2, <2>1, <2>2
    <3>2. pc'[Warmer] \notin {"warm", "fetch", "store"} /\ pc'[Warmer] # "done"
      BY <3>1
    <3> QED
      BY <3>2, Zenon DEF Warmed
  <2>3. CASE ~werr
    <3>1. pc'[Warmer] = "done"
      BY <1>2, <2>1, <2>3
    <3>2. pc'[Warmer] \notin {"warm", "fetch", "store"}
      BY <3>1
    <3>3. pc[Warmer] \in {"warm", "fetch", "store"}
      BY <2>1
    <3>4. \A v \in Views : cached[v] # 0
      BY <2>1, <2>3, <3>3, Zenon DEF Warmed
    <3> QED
      BY <2>1, <3>2, <3>4, Zenon DEF Warmed
  <2> QED
    BY <2>2, <2>3, Zenon
<1>6. CASE WarmRetries
  <2>1. pc' = [pc EXCEPT ![Warmer] = "warm"] /\ wtodo' = Views
    BY <1>6, Zenon DEF WarmRetries
  <2>2. pc'[Warmer] # "done"
    BY <1>2, <2>1
  <2> QED
    BY <2>1, <2>2, Zenon DEF Warmed
<1> QED
  BY <1>3, <1>4, <1>5, <1>6, WarmerStep, Zenon DEF WarmerMoves
-----------------------------------------------------------------------------
(* Theorems *)

\* The invariant holds when the process starts.
LEMMA InitInvariant == Init => IInv
<1> SUFFICES ASSUME Init PROVE IInv
  OBVIOUS
<1>0. Warmer \in Procs /\ Warmer \notin Clients /\ Clients \subseteq Procs
  BY ClientsAssumption DEF Procs
<1>1. pc \in [Procs -> PCs] /\ pc[Warmer] = "warm" /\ \A p \in Clients : pc[p] = "idle"
  BY <1>0 DEF Init, PCs
<1>2. TypeOK
  <2>1. NotRead \in [Tenants -> Found] /\ NoArg \in TenantArgs
    BY DEF NotRead, Found, TenantArgs
  <2>2. \A v \in Views : Len(Offers[v]) \in Nat /\ Len(Offers[v]) > 0
    BY BackendsAssumption
  <2>3. \A v \in Views : cached[v] <= version[v] /\ version[v] \in 1..Len(Offers[v])
    BY <2>2 DEF Init
  <2>4. cached \in [Views -> Nat] /\ version \in [Views -> Nat] /\ age \in [Views -> 0..CatalogTTL]
    BY CatalogAssumption DEF Init
  <2>5. /\ lock \in [Views -> Procs \cup {NoProc}] /\ snap \in [Procs -> Nat]
        /\ todo \in [Clients -> SUBSET Tenants] /\ rtool \in [Clients -> Tools \cup {NoTool}]
        /\ rarg \in [Clients -> TenantArgs]
        /\ got \in [Clients -> [Tenants -> Found]] /\ told \in [Clients -> [Tenants -> Found]]
    BY <2>1 DEF Init
  <2>6. wtodo \in SUBSET Views /\ werr \in BOOLEAN /\ wctx \in BOOLEAN /\ serving \in BOOLEAN
    BY Zenon DEF Init
  <2> QED
    BY <1>1, <2>3, <2>4, <2>5, <2>6, Zenon DEF TypeOK
<1>3. Control
  BY <1>1 DEF Init, Control, Fetching
<1>4. LockHeld /\ AnswerCurrent
  BY <1>0, <1>1 DEF LockHeld, AnswerCurrent, Fetching, Procs
<1>5. \A p \in Clients, t \in Tenants : got[p][t] = Unread /\ told[p][t] = Unread
  BY DEF Init, NotRead
<1>6. Copies /\ Told
  BY <1>5, DistinctAssumption DEF Copies, Told
<1>7. Lists /\ Calls
  BY <1>1 DEF Lists, Calls, Listing
<1>8. Warmed
  <2>1. wtodo = Views /\ pc[Warmer] # "done"
    BY <1>1 DEF Init
  <2> QED
    BY <2>1, Zenon DEF Warmed
<1> QED
  BY <1>2, <1>3, <1>4, <1>6, <1>7, <1>8, Zenon DEF IInv

\* The inductive invariant: however handlers, the warm-up, the backends and the clock
\* interleave.
THEOREM InductiveInvariant == Spec => []IInv
<1>1. IInv /\ [Next]_vars => IInv'
  <2> SUFFICES ASSUME IInv, [Next]_vars PROVE IInv'
    OBVIOUS
  <2>0. /\ TypeOK /\ Control /\ LockHeld /\ AnswerCurrent /\ Copies /\ Lists /\ Told
        /\ Calls /\ Warmed
    BY Zenon DEF IInv
  <2>1. TypeOK' /\ Control' /\ LockHeld' /\ AnswerCurrent'
    BY <2>0, TypeStep, ControlStep, LockStep, AnswerStep, Zenon
  <2>2. Copies' /\ Lists' /\ Told' /\ Calls'
    BY <2>0, CopiesStep, ListsStep, ToldStep, CallsStep, Zenon
  <2>3. Warmed'
    BY <2>0, WarmedStep, Zenon
  <2> QED
    BY <2>1, <2>2, <2>3, Zenon DEF IInv
<1> QED
  BY <1>1, InitInvariant, PTL DEF Spec

\* catalog.get: no step replaces a cached list by an older one, although fetches of several
\* handlers and of the warm-up overlap.
THEOREM NoRollback == Spec => CatalogNeverGoesBack
<1>1. IInv /\ [Next]_vars => [\A v \in Views : cached'[v] >= cached[v]]_vars
  <2> SUFFICES ASSUME IInv, [Next]_vars PROVE \A v \in Views : cached'[v] >= cached[v]
    OBVIOUS
  <2>1. TypeOK /\ Control /\ AnswerCurrent
    BY Zenon DEF IInv
  <2> QED
    BY <2>1, VersionsGrow DEF Growing, TypeOK
<1> QED
  BY <1>1, InductiveInvariant, PTL DEF Spec, CatalogNeverGoesBack

\* handler.selectTenant: a tool that a client was offered is refused to it only after a
\* newer list without the tool has been cached.
THEOREM Withdrawal == Spec => []RefusedOnlyIfWithdrawn
<1>1. IInv => RefusedOnlyIfWithdrawn
  <2> SUFFICES ASSUME IInv, NEW p \in Clients, NEW t \in Tenants,
                      Decided(p), got[p][t] \in Nat, Offered(t, told[p][t], rtool[p]),
                      ~MayHave(t, got[p][t], rtool[p])
               PROVE  got[p][t] > told[p][t]
    BY DEF RefusedOnlyIfWithdrawn
  <2>1. told[p][t] \in Nat /\ told[p][t] <= got[p][t]
    BY DEF IInv, Copies, Offered
  <2>2. told[p][t] # got[p][t]
    BY DEF Offered, MayHave
  <2> QED
    BY <2>1, <2>2
<1> QED
  BY <1>1, InductiveInvariant, PTL

\* handler.paramHeadersForCall: a call for a tool that its client was offered goes without
\* the tool's parameter headers only after a newer list without the tool has been cached.
THEOREM HeadersKept == Spec => []HeadersUnlessWithdrawn
<1>1. IInv => HeadersUnlessWithdrawn
  <2> SUFFICES ASSUME IInv, NEW p \in Clients, NEW t \in todo[p],
                      Offered(t, told[p][t], rtool[p]),
                      rtool[p] \notin ListOf(ViewKey(t), cached[ViewKey(t)])
               PROVE  cached[ViewKey(t)] > told[p][t]
    BY DEF HeadersUnlessWithdrawn
  <2>1. t \in Tenants /\ ViewKey(t) \in Views
    BY ViewOf DEF IInv, TypeOK
  <2>2. told[p][t] \in Nat /\ told[p][t] <= cached[ViewKey(t)] /\ cached[ViewKey(t)] \in Nat
    BY <2>1 DEF IInv, TypeOK, Copies, Offered
  <2>3. told[p][t] # cached[ViewKey(t)]
    BY DEF Offered
  <2> QED
    BY <2>2, <2>3
<1> QED
  BY <1>1, InductiveInvariant, PTL

\* handler.selectTenant: a call that names an authorized tenant is forwarded to it unless some
\* list of its backend lacked the tool; a cold or partly filled cache never refuses it.
THEOREM ColdCache == Spec => []ColdCacheNeverRefuses
<1>1. IInv => ColdCacheNeverRefuses
  <2> SUFFICES ASSUME IInv, NEW p \in Clients, Decided(p), rarg[p] \in Tenants,
                      NeverLacked(ViewKey(rarg[p]), rtool[p])
               PROVE  Selected(p) = {rarg[p]}
    BY DEF ColdCacheNeverRefuses
  <2> DEFINE t == rarg[p]
             v == ViewKey(t)
             may == {u \in Tenants : got[p][u] \in Nat /\ MayHave(u, got[p][u], rtool[p])}
  <2>1. t # NoArg
    BY ArgAssumption
  <2>2. Asked(p, t) # {} /\ \A u \in Asked(p, t) : got[p][u] \in Nat
    BY DEF IInv, Calls, Decided
  <2>3. t \in Mine(p) /\ got[p][t] \in Nat
    BY <2>1, <2>2 DEF Asked
  <2>4. v \in Views
    BY ViewOf
  <2>5. cached[v] \in Nat /\ version[v] \in Nat /\ got[p][t] <= cached[v] /\ cached[v] <= version[v]
    BY <2>3, <2>4 DEF IInv, TypeOK, Copies
  <2>6. MayHave(t, got[p][t], rtool[p])
    <3>1. CASE got[p][t] = 0
      BY <3>1 DEF MayHave, ListOf
    <3>2. CASE got[p][t] # 0
      <4>1. got[p][t] \in 1..version[v]
        BY <2>3, <2>5, <3>2
      <4> QED
        BY <3>2, <4>1 DEF MayHave, ListOf, NeverLacked
    <3> QED
      BY <3>1, <3>2
  <2>7. t \in may
    BY <2>3, <2>6
  <2>8. Selected(p) = SelectExplicit(t, ClientGroups[p], may)
    BY <2>1 DEF Selected, SelectTenant
  <2> HIDE DEF may
  <2> QED
    BY <2>3, <2>7, <2>8 DEF SelectExplicit, Resolves, Unavailable, Mine, AuthorizedTenants
<1> QED
  BY <1>1, InductiveInvariant, PTL

\* catalog.get serves a stale copy: a tenant once listed to a client is in all its later
\* lists, unless its backend answered without a list.
THEOREM StaleServed == Spec => []ListedStaysListed
<1>1. IInv => ListedStaysListed
  BY DEF IInv, Told, ListedStaysListed
<1> QED
  BY <1>1, InductiveInvariant, PTL

\* main.warmCatalog: the retries stop only when every catalog has been fetched.
THEOREM WarmUpComplete == Spec => []WarmDoneMeansFetched
<1>1. IInv => WarmDoneMeansFetched
  BY Zenon DEF IInv, Warmed, WarmDoneMeansFetched
<1> QED
  BY <1>1, InductiveInvariant, PTL

\* handleToolsList and selectTenant agree: a call without "tenant" goes to the one tenant that
\* the selector of a complete list named, as long as the cache is as it was then.
THEOREM SelectorHonoured == Spec => []CompleteSelectorWorks
<1>1. IInv => CompleteSelectorWorks
  <2> DEFINE having(p) == Having(told[p], rtool[p])
  <2> SUFFICES ASSUME IInv, NEW p \in Clients,
                      \A t \in Mine(p) : told[p][t] \in Nat /\ ListOf(ViewKey(t), told[p][t]) # Nil,
                      Decided(p), rarg[p] = NoArg, Cardinality(Mine(p)) >= 2, CacheAsTold(p),
                      Cardinality(having(p)) = 1
               PROVE  Selected(p) = having(p)
    BY DEF CompleteSelectorWorks, SelectorWorks
  <2> DEFINE may == {t \in Tenants : got[p][t] \in Nat /\ MayHave(t, got[p][t], rtool[p])}
  <2>1. Mine(p) \subseteq Tenants
    BY DEF Mine, AuthorizedTenants
  <2>2. \A t \in Mine(p) : got[p][t] = told[p][t]
    BY DistinctAssumption DEF CacheAsTold
  <2>3. having(p) \subseteq Mine(p)
    BY DistinctAssumption DEF Having, Offered, IInv, Told
  <2>4. Mine(p) \cap may = having(p)
    BY <2>1, <2>2, <2>3 DEF Having, Offered, MayHave
  <2>5. Selected(p) = SelectImplicit(ClientGroups[p], may)
    BY DEF Selected, SelectTenant
  <2>6. Cardinality(Mine(p)) # 1
    OBVIOUS
  <2> HIDE DEF may, having
  <2>7. SelectImplicit(ClientGroups[p], may) = having(p)
    <3>1. Cardinality(having(p)) = 1
      BY DEF having
    <3> QED
      BY <2>4, <2>6, <3>1, Zenon DEF SelectImplicit, TenantsWithTool, Mine
  <2> QED
    BY <2>5, <2>7
<1> QED
  BY <1>1, InductiveInvariant, PTL
-----------------------------------------------------------------------------
(* The catalogs implement CatalogCopies *)

\* The end of a fetch moves the copy of one view.
LEMMA StoreRefreshes ==
  ASSUME IInv, NEW p \in Procs, FetchStores(p)
  PROVE  Copied!Refresh(At(p)) /\ At(p) \in Views
<1>1. TypeOK /\ Control /\ AnswerCurrent
  BY Zenon DEF IInv
<1>2. At(p) \in Views
  BY <1>1, AtView DEF FetchStores, Fetching
<1>3. snap[p] \in cached[At(p)]..version[At(p)] /\ snap[p] > 0
  BY <1>1, <1>2 DEF AnswerCurrent, FetchStores, TypeOK
<1>4. cached' = [cached EXCEPT ![At(p)] = snap[p]] /\ version' = version
  BY DEF FetchStores
<1>5. told' = told
  BY Zenon DEF FetchStores, Return
<1> QED
  BY <1>2, <1>3, <1>4, <1>5 DEF Copied!Refresh

\* The answer to tools/list shows a client copies that are not older than those it knows.
LEMMA AnswerShows ==
  ASSUME IInv, NEW p \in Clients, AnswerList(p), UNCHANGED <<cached, version>>
  PROVE  Copied!Show(p) \/ told' = told
<1> DEFINE marks == {Skipped, Unread}
           may(t) == Copied!Showable(p, t)
           f == got[p]
<1>1. TypeOK /\ Copies /\ Lists
  BY Zenon DEF IInv
<1>2. /\ told \in [Clients -> [Tenants -> Found]]
      /\ f \in [Tenants -> Found]
  BY <1>1 DEF TypeOK
<1>3. CASE told' = [told EXCEPT ![p] = f]
  <2>1. ASSUME NEW t \in Tenants PROVE f[t] \in marks \cup may(t)
    <3>1. f[t] \in marks \/ f[t] \in Nat
      BY <1>2 DEF Found
    <3>2. told[p][t] \in marks \/ told[p][t] \in Nat
      BY <1>2 DEF Found
    <3>3. f[t] # 0
      BY <1>1 DEF Lists, Listing, AnswerList
    <3>4. cached[ViewKey(t)] \in Nat
      BY <1>1, ViewOf DEF TypeOK
    <3>5. f[t] \in Nat => /\ f[t] \in 1..cached[ViewKey(t)]
                          /\ told[p][t] \in Nat => told[p][t] <= f[t]
      BY <1>1, <3>3, <3>4 DEF Copies
    <3> QED
      BY <3>1, <3>2, <3>5 DEF Copied!Showable
  <2> HIDE DEF may
  <2>2. f \in [Tenants -> marks \cup UNION {may(t) : t \in Tenants}]
    <3>1. \A t \in Tenants : f[t] \in marks \cup UNION {may(u) : u \in Tenants}
      BY <2>1
    <3> QED
      BY <1>2, <3>1
  <2> HIDE DEF f
  <2> QED
    BY <1>3, <2>1, <2>2, Zenon DEF Copied!Show, may
<1>4. CASE told' # [told EXCEPT ![p] = f]
  <2>1. told' = [told EXCEPT ![p] = told[p]]
    BY <1>4 DEF AnswerList
  <2> QED
    BY <1>2, <2>1
<1> QED
  BY <1>3, <1>4

\* The catalogs implement copies that only move forward: whatever overlaps, what tools/list
\* gives a client for a tenant is a list its backend has had, and never an older one than
\* before (catalog.get, toolsFor).
THEOREM CopiesRefined == Spec => ListsMoveForward
<1>1. Init => Copied!CInit
  BY DEF Init, NotRead, Copied!CInit
<1>2. IInv /\ [Next]_vars => [Copied!CNext]_(Copied!copyVars)
  <2> SUFFICES ASSUME IInv, [Next]_vars
               PROVE  [Copied!CNext]_(Copied!copyVars)
    OBVIOUS
  <2>1. CASE UNCHANGED <<cached, version, told>>
    BY <2>1 DEF Copied!copyVars
  <2>2. ASSUME NEW p \in Procs, FetchStores(p) PROVE Copied!CNext
    BY <2>2, StoreRefreshes DEF Copied!CNext
  <2>3. ASSUME NEW v \in Views, OfferChanges(v) PROVE Copied!CNext
    <3>1. Copied!Publish(v)
      BY <2>3 DEF OfferChanges, Copied!Publish
    <3> QED
      BY <3>1 DEF Copied!CNext
  <2>4. ASSUME NEW p \in Clients, AnswerList(p), UNCHANGED <<cached, version>>
        PROVE  [Copied!CNext]_(Copied!copyVars)
    BY <2>4, AnswerShows DEF Copied!CNext, Copied!copyVars
  <2> QED
    BY <2>1, <2>2, <2>3, <2>4, CacheWriters
<1> QED
  BY <1>1, <1>2, InductiveInvariant, PTL DEF Spec, ListsMoveForward, Copied!CSpec
=============================================================================
