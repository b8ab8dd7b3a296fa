------------------------------ MODULE Catalogs ------------------------------
(***************************************************************************)
(* The tool catalogs: the cache with its TTL and its lock, the warm-up of  *)
(* main, tools/list, and the part of tools/call that asks the cache which  *)
(* tenants have a tool.                                                    *)
(*                                                                         *)
(* A catalog belongs to a view: what a backend lists for one credential    *)
(* and one set of headers.  Its mutex is held while it is fetched.  What a *)
(* backend lists for a view changes over time: it is the sequence          *)
(* Offers[v], of which the backend is at version[v].  A catalog is the     *)
(* number of the version it is a copy of, 0 before the first fetch.        *)
(*                                                                         *)
(* A tool list is the set of its names; Nil is Go's nil slice, which is    *)
(* also what a result without tools decodes to.                            *)
(*                                                                         *)
(* Each element of Clients sends one request after another; the handler of *)
(* its current request is at                                               *)
(*    idle      no request                                                 *)
(*    list      toolsFor, before the next tenant of todo                   *)
(*    call      selectTenant, before the next tenant of todo               *)
(*    advise    unavailable, collecting the tenants its message names      *)
(*    headers   paramHeadersForCall                                        *)
(*    fetch     holds the lock, waits for the backend's list               *)
(*    store     holds the lock, has the list                               *)
(* The Warmer goes through "warm" (a round), "fetch", "store", "sleep" and *)
(* "done".                                                                 *)
(***************************************************************************)
EXTENDS TenantSelection, Integers, Sequences

CONSTANTS
    TenantHeaders,  \* Tenant.Headers, opaque
    TenantOrder,    \* the tenants, sorted by id
    Health,         \* per backend: "healthy", "flaky", or "hung" (never answers)
    Tools,
    Offers,         \* per view, the lists its backend has over time
    CatalogTTL,     \* catalog.ttl in ticks
    Clients,
    ClientGroups,   \* the groups in a client's token; {} for none or an invalid one
    Warmer,         \* the goroutine of main.warmCatalog
    NoProc,         \* nobody
    Skipped,        \* the catalog could not be fetched
    Unread,         \* the catalog has not been looked at
    NoTool          \* no tool of any backend

\* viewKey: tenants with the same key share one catalog.
ViewKey(t) == <<TenantBackend[t], EffectiveCredential(t), TenantHeaders[t]>>
Views      == {ViewKey(t) : t \in Tenants}
Procs      == Clients \cup {Warmer}
Nil        == {NoTool}
ToolLists  == (SUBSET Tools) \cup {Nil}

ASSUME OrderAssumption ==
    /\ TenantOrder \in Seq(Tenants)
    /\ \A t \in Tenants : \E i \in 1..Len(TenantOrder) : TenantOrder[i] = t
ASSUME BackendsAssumption ==
    /\ Health \in [Backends -> {"healthy", "flaky", "hung"}]
    /\ DOMAIN Offers = Views
    /\ \A v \in Views : Offers[v] \in Seq(ToolLists) /\ Len(Offers[v]) > 0
ASSUME CatalogAssumption == CatalogTTL \in Nat \ {0}
ASSUME ClientsAssumption ==
    /\ \A p \in Clients : ClientGroups[p] \subseteq Groups
    /\ Warmer \notin Clients /\ NoProc \notin Clients /\ NoProc # Warmer
ASSUME DistinctAssumption ==
    /\ NoTool \notin Tools
    /\ Skipped \notin Nat /\ Unread \notin Nat /\ Skipped # Unread

\* The first tenant of S in id order.
First(S) == TenantOrder[CHOOSE i \in 1..Len(TenantOrder) :
                /\ TenantOrder[i] \in S
                /\ \A j \in 1..(i - 1) : TenantOrder[j] \notin S]

\* Catalogs.unique is ordered by the first tenant of each view.
FirstView(V) == ViewKey(First({t \in Tenants : ViewKey(t) \in V}))

VARIABLES
    cached,   \* catalog.tools, as a version
    age,      \* ticks since catalog.fetchedAt, up to the TTL
    lock,     \* catalog.mu
    version,  \* the list the backend has now
    pc,
    snap,     \* the version a fetch has been answered with
    todo,     \* the tenants a handler has still to look at
    got,      \* the version it found of each tenant's catalog
    rtool,    \* the tool called
    rarg,     \* the "tenant" argument of the call
    told,     \* got of the client's last successful tools/list (history)
    wtodo,    \* the views the warm-up round has still to look at
    werr,     \* the round has met an error
    wctx,     \* the round's 10 s context is still live
    serving   \* the server is listening: the first round is over

cacheVars  == <<cached, age, lock>>
clientVars == <<todo, got, rtool, rarg, told>>
warmVars   == <<wtodo, werr, wctx, serving>>
vars       == <<cacheVars, version, pc, snap, clientVars, warmVars>>

PCs == {"idle", "list", "call", "advise", "headers", "fetch", "store", "warm", "sleep", "done"}
Found == {Skipped, Unread} \cup Nat
NotRead == [t \in Tenants |-> Unread]

Init ==
    /\ cached = [v \in Views |-> 0]
    /\ age = [v \in Views |-> 0]
    /\ lock = [v \in Views |-> NoProc]
    /\ version = [v \in Views |-> 1]
    /\ pc = [p \in Procs |-> IF p = Warmer THEN "warm" ELSE "idle"]
    /\ snap = [p \in Procs |-> 0]
    /\ todo = [p \in Clients |-> {}]
    /\ got = [p \in Clients |-> NotRead]
    /\ rtool = [p \in Clients |-> NoTool]
    /\ rarg = [p \in Clients |-> NoArg]
    /\ told = [p \in Clients |-> NotRead]
    /\ wtodo = Views
    /\ werr = FALSE
    /\ wctx = TRUE
    /\ serving = FALSE

TypeOK ==
    /\ cached \in [Views -> Nat] /\ version \in [Views -> Nat]
    /\ \A v \in Views : cached[v] <= version[v] /\ version[v] \in 1..Len(Offers[v])
    /\ age \in [Views -> 0..CatalogTTL]
    /\ lock \in [Views -> Procs \cup {NoProc}]
    /\ pc \in [Procs -> PCs]
    /\ snap \in [Procs -> Nat]
    /\ todo \in [Clients -> SUBSET Tenants]
    /\ got \in [Clients -> [Tenants -> Found]]
    /\ rtool \in [Clients -> Tools \cup {NoTool}]
    /\ rarg \in [Clients -> TenantArgs]
    /\ told \in [Clients -> [Tenants -> Found]]
    /\ wtodo \in SUBSET Views
    /\ werr \in BOOLEAN /\ wctx \in BOOLEAN /\ serving \in BOOLEAN
-----------------------------------------------------------------------------
(* The cache *)

\* The tool list that is version i of view v.
ListOf(v, i) == IF i = 0 THEN Nil ELSE Offers[v][i]

Known(v) == ListOf(v, cached[v]) # Nil
Fresh(v) == Known(v) /\ age[v] < CatalogTTL

\* cachedTool: a tenant whose list is not known may have any tool.
MayHave(t, i, tool) == LET l == ListOf(ViewKey(t), i) IN l = Nil \/ tool \in l

\* The view whose catalog p is getting.
Getting(p) == IF p = Warmer THEN pc[p] = "warm" /\ wtodo # {}
                            ELSE pc[p] = "list" /\ todo[p] # {}
At(p) == IF p = Warmer THEN FirstView(wtodo) ELSE ViewKey(First(todo[p]))

Goto(p, l) == pc' = [pc EXCEPT ![p] = l]

\* Mutant: only the last error of a round counts.
ReturnLastError(p, i) ==
    IF p = Warmer
      THEN /\ Goto(p, "warm")
           /\ wtodo' = wtodo \ {At(p)}
           /\ werr' = (i = Skipped)
           /\ UNCHANGED <<clientVars, wctx, serving>>
      ELSE /\ Goto(p, "list")
           /\ got' = [got EXCEPT ![p][First(todo[p])] = i]
           /\ todo' = [todo EXCEPT ![p] = @ \ {First(@)}]
           /\ UNCHANGED <<rtool, rarg, told, warmVars>>

\* catalog.get has returned version i, or Skipped for its error: the loop of
\* toolsFor notes the result, that of warm only the error.
Return(p, i) ==
    IF p = Warmer
      THEN /\ Goto(p, "warm")
           /\ wtodo' = wtodo \ {At(p)}
           /\ werr' = (werr \/ i = Skipped)
           /\ UNCHANGED <<clientVars, wctx, serving>>
      ELSE /\ Goto(p, "list")
           /\ got' = [got EXCEPT ![p][First(todo[p])] = i]
           /\ todo' = [todo EXCEPT ![p] = @ \ {First(@)}]
           /\ UNCHANGED <<rtool, rarg, told, warmVars>>

\* catalog.get, when the cached list can be used.
GetFresh(p) ==
    /\ Getting(p)
    /\ lock[At(p)] = NoProc
    /\ Fresh(At(p))
    /\ Return(p, cached[At(p)])
    /\ UNCHANGED <<cacheVars, version, snap>>

\* Mutant: the lock is not held during the fetch.
BeginFetchUnlocked(p) ==
    /\ Getting(p)
    /\ ~Fresh(At(p))
    /\ Goto(p, "fetch")
    /\ UNCHANGED <<cacheVars, version, snap, clientVars, warmVars>>

\* Otherwise it keeps the lock and calls fetch.
BeginFetch(p) ==
    /\ Getting(p)
    /\ lock[At(p)] = NoProc
    /\ ~Fresh(At(p))
    /\ lock' = [lock EXCEPT ![At(p)] = p]
    /\ Goto(p, "fetch")
    /\ UNCHANGED <<cached, age, version, snap, clientVars, warmVars>>

\* The backend has answered tools/list (after an initialize of its own session
\* for a stateful backend).  A request with an expired context is not sent.
FetchAnswers(p) ==
    /\ pc[p] = "fetch"
    /\ Health[At(p)[1]] # "hung"
    /\ p = Warmer => wctx
    /\ snap' = [snap EXCEPT ![p] = version[At(p)]]
    /\ Goto(p, "store")
    /\ UNCHANGED <<cacheVars, version, clientVars, warmVars>>

\* Mutant: the lock is not released on the error path.
FetchFailsLocked(p) ==
    /\ pc[p] = "fetch"
    /\ p = Warmer => ~wctx \/ Health[At(p)[1]] = "flaky"
    /\ Return(p, IF Known(At(p)) THEN cached[At(p)] ELSE Skipped)
    /\ UNCHANGED <<cacheVars, version, snap>>

\* Mutant: the error is dropped, and a list that was never fetched returned.
FetchFailsEmpty(p) ==
    /\ pc[p] = "fetch"
    /\ p = Warmer => ~wctx \/ Health[At(p)[1]] = "flaky"
    /\ lock' = [lock EXCEPT ![At(p)] = NoProc]
    /\ Return(p, cached[At(p)])
    /\ UNCHANGED <<cached, age, version, snap>>

\* Mutant: the error is returned although there is a stale copy.
FetchFailsHard(p) ==
    /\ pc[p] = "fetch"
    /\ p = Warmer => ~wctx \/ Health[At(p)[1]] = "flaky"
    /\ lock' = [lock EXCEPT ![At(p)] = NoProc]
    /\ Return(p, Skipped)
    /\ UNCHANGED <<cached, age, version, snap>>

\* Mutant: a refresh that fails drops the stale copy it serves.
FetchFailsForgets(p) ==
    /\ pc[p] = "fetch"
    /\ p = Warmer => ~wctx \/ Health[At(p)[1]] = "flaky"
    /\ cached' = [cached EXCEPT ![At(p)] = 0]
    /\ lock' = [lock EXCEPT ![At(p)] = NoProc]
    /\ Return(p, IF Known(At(p)) THEN cached[At(p)] ELSE Skipped)
    /\ UNCHANGED <<age, version, snap>>

\* The fetch fails: an error answer, a refused connection, the 60 s timeout, a
\* client that has gone away, the round's context.  A stale copy is served.
FetchFails(p) ==
    /\ pc[p] = "fetch"
    /\ p = Warmer => ~wctx \/ Health[At(p)[1]] = "flaky"
    /\ lock' = [lock EXCEPT ![At(p)] = NoProc]
    /\ Return(p, IF Known(At(p)) THEN cached[At(p)] ELSE Skipped)
    /\ UNCHANGED <<cached, age, version, snap>>

\* The fetch has succeeded, whatever its list.
FetchStores(p) ==
    /\ pc[p] = "store"
    /\ cached' = [cached EXCEPT ![At(p)] = snap[p]]
    /\ age' = [age EXCEPT ![At(p)] = 0]
    /\ lock' = [lock EXCEPT ![At(p)] = NoProc]
    /\ snap' = [snap EXCEPT ![p] = 0]
    /\ Return(p, snap[p])
    /\ UNCHANGED version
-----------------------------------------------------------------------------
(* handleToolsList *)

\* The caller's tenants.
Mine(p) == AuthorizedTenants(ClientGroups[p])

\* Without a tenant of one's own: discovery, over all tenants.
ListedTenants(p) == IF Mine(p) = {} THEN Tenants ELSE Mine(p)

HandleToolsList(p) ==
    /\ serving
    /\ pc[p] = "idle"
    /\ Goto(p, "list")
    /\ todo' = [todo EXCEPT ![p] = ListedTenants(p)]
    /\ UNCHANGED <<cacheVars, version, snap, got, rtool, rarg, told, warmVars>>

\* The handler returns.
Answer(p) ==
    /\ Goto(p, "idle")
    /\ todo' = [todo EXCEPT ![p] = {}]
    /\ got' = [got EXCEPT ![p] = NotRead]
    /\ rtool' = [rtool EXCEPT ![p] = NoTool]
    /\ rarg' = [rarg EXCEPT ![p] = NoArg]
    /\ UNCHANGED <<cacheVars, version, snap, warmVars>>

\* The union of the lists found; an error if none was.  Only a client with
\* tenants of its own can call what it has been told of.
AnswerList(p) ==
    /\ pc[p] = "list"
    /\ todo[p] = {}
    /\ told' = [told EXCEPT ![p] = IF \E t \in Mine(p) : got[p][t] # Skipped THEN got[p] ELSE @]
    /\ Answer(p)

\* Version i of the tenant's catalog, in an answer to tools/list, has the tool.
Offered(t, i, tool) == i \in Nat /\ tool \in ListOf(ViewKey(t), i)

\* Mutant: only the first tenant with the tool is noted.
HavingFirst(seen, tool) ==
    LET all == {t \in Tenants : Offered(t, seen[t], tool)}
    IN  IF all = {} THEN {} ELSE {First(all)}

\* having[name]: the selector that tools/list gives a tool.
Having(seen, tool) ==
    {t \in Tenants : Offered(t, seen[t], tool)}
-----------------------------------------------------------------------------
(* handleToolsCall, up to routeToBackend *)

\* The tenants whose catalogs selectTenant asks; none when it fails before
\* that (no tenant authorized, the named one unknown or not authorized).
Asked(p, arg) == IF arg = NoArg THEN Mine(p) ELSE Mine(p) \cap {arg}

HandleToolsCall(p, tool, arg) ==
    /\ serving
    /\ pc[p] = "idle"
    /\ Asked(p, arg) # {}
    /\ Goto(p, "call")
    /\ todo' = [todo EXCEPT ![p] = Asked(p, arg)]
    /\ rtool' = [rtool EXCEPT ![p] = tool]
    /\ rarg' = [rarg EXCEPT ![p] = arg]
    /\ UNCHANGED <<cacheVars, version, snap, got, told, warmVars>>

\* catalog.cached waits for the lock, like every user of the catalog.
ReadCached(p) ==
    /\ pc[p] \in {"call", "advise"}
    /\ todo[p] # {}
    /\ lock[At(p)] = NoProc
    /\ got' = IF pc[p] = "call" THEN [got EXCEPT ![p][First(todo[p])] = cached[At(p)]] ELSE got
    /\ todo' = [todo EXCEPT ![p] = @ \ {First(@)}]
    /\ UNCHANGED <<cacheVars, version, pc, snap, rtool, rarg, told, warmVars>>

\* Mutant: a catalog that is not known lacks the tool.
SelectedColdLacks(p) ==
    SelectTenant(rarg[p], ClientGroups[p],
                 {t \in Tenants : /\ got[p][t] \in Nat \ {0}
                                  /\ MayHave(t, got[p][t], rtool[p])})

\* selectTenant, with what it has found in the cache.
Selected(p) ==
    SelectTenant(rarg[p], ClientGroups[p],
                 {t \in Tenants : got[p][t] \in Nat /\ MayHave(t, got[p][t], rtool[p])})

Decided(p) == pc[p] = "call" /\ todo[p] = {}

\* The one tenant asked lacks the tool: unavailable words its message from the
\* catalogs of all the caller's tenants.
Refuse(p) ==
    /\ Decided(p)
    /\ Selected(p) = {}
    /\ IF rarg[p] # NoArg \/ Cardinality(Mine(p)) = 1
         THEN /\ Goto(p, "advise")
              /\ todo' = [todo EXCEPT ![p] = Mine(p)]
              /\ UNCHANGED <<cacheVars, version, snap, got, rtool, rarg, told, warmVars>>
         ELSE Answer(p) /\ UNCHANGED told

Advised(p) == pc[p] = "advise" /\ todo[p] = {} /\ Answer(p) /\ UNCHANGED told

\* paramHeadersForCall is going to look the tool up again, for the tenant
\* selected, unless stripTenantArg finds the arguments malformed.
Forward(p) ==
    /\ Decided(p)
    /\ Selected(p) # {}
    /\ \/ /\ Goto(p, "headers")
          /\ todo' = [todo EXCEPT ![p] = Selected(p)]
          /\ UNCHANGED <<cacheVars, version, snap, got, rtool, rarg, told, warmVars>>
       \/ Answer(p) /\ UNCHANGED told

\* The call leaves for routeToBackend, which uses no catalog.
ParamHeaders(p) ==
    /\ pc[p] = "headers"
    /\ lock[At(p)] = NoProc
    /\ Answer(p) /\ UNCHANGED told
-----------------------------------------------------------------------------
(* main.warmCatalog *)

\* Catalogs.warm returns.  The first time the server starts to listen.
WarmRoundEnds ==
    /\ pc[Warmer] = "warm"
    /\ wtodo = {}
    /\ Goto(Warmer, IF werr THEN "sleep" ELSE "done")
    /\ serving' = TRUE
    /\ UNCHANGED <<cacheVars, version, snap, clientVars, wtodo, werr, wctx>>

\* The ticker: another round, with a new context.
WarmRetries ==
    /\ pc[Warmer] = "sleep"
    /\ Goto(Warmer, "warm")
    /\ wtodo' = Views
    /\ werr' = FALSE
    /\ wctx' = TRUE
    /\ UNCHANGED <<cacheVars, version, snap, clientVars, serving>>

\* Mutant: the round has no context of its own.
WarmTimeoutNever == FALSE /\ UNCHANGED vars

\* 10 s have passed: the round waits for a backend that does not answer in time,
\* or for a lock whose holder does.  A healthy backend answers well within 10 s.
WarmTimeout ==
    /\ wctx
    /\ \/ pc[Warmer] = "fetch"
       \/ Getting(Warmer) /\ lock[At(Warmer)] # NoProc
    /\ Health[At(Warmer)[1]] # "healthy"
    /\ wctx' = FALSE
    /\ UNCHANGED <<cacheVars, version, pc, snap, clientVars, wtodo, werr, serving>>
-----------------------------------------------------------------------------
(* The environment *)

\* The tools a backend lists for a view change.
OfferChanges(v) ==
    /\ version[v] < Len(Offers[v])
    /\ version' = [version EXCEPT ![v] = @ + 1]
    /\ UNCHANGED <<cacheVars, pc, snap, clientVars, warmVars>>

Tick ==
    /\ age' = [v \in Views |-> IF cached[v] # 0 /\ age[v] < CatalogTTL THEN age[v] + 1
                                                                     ELSE age[v]]
    /\ UNCHANGED <<cached, lock, version, pc, snap, clientVars, warmVars>>
-----------------------------------------------------------------------------
Get(p) == GetFresh(p) \/ BeginFetch(p) \/ FetchAnswers(p) \/ FetchFails(p) \/ FetchStores(p)

Handle(p) == \/ Get(p) \/ AnswerList(p)
             \/ ReadCached(p) \/ Refuse(p) \/ Advised(p) \/ Forward(p) \/ ParamHeaders(p)

Warm == Get(Warmer) \/ WarmRoundEnds \/ WarmRetries

Next ==
    \/ \E p \in Clients : \/ HandleToolsList(p)
                          \/ \E tool \in Tools, arg \in TenantArgs : HandleToolsCall(p, tool, arg)
                          \/ Handle(p)
    \/ Warm \/ WarmTimeout
    \/ \E v \in Views : OfferChanges(v)
    \/ Tick

Spec == Init /\ [][Next]_vars

\* Every exchange ends within 60 s, a context after its 10 s, a ticker fires,
\* and sync.Mutex lets no waiter starve.  Requests are never forced.
Fairness == /\ \A p \in Clients : SF_vars(Handle(p))
            /\ SF_vars(Warm)
            /\ WF_vars(WarmTimeout)

FairSpec == Spec /\ Fairness
-----------------------------------------------------------------------------
(* Properties *)

\* The cached list of a view is never replaced by an older one, although lists
\* and the warm-up fetch concurrently and slowly (catalog.get holds the lock
\* from the test of the age to the store).
CatalogNeverGoesBack == [][\A v \in Views : cached'[v] >= cached[v]]_vars

Copied == INSTANCE CatalogCopies
              WITH Sources <- Views, Items <- Tenants, Source <- ViewKey, Readers <- Clients,
                   Marks <- {Skipped, Unread}, NotShown <- Unread,
                   latest <- version, copy <- cached, seen <- told

\* Every step of the cache, the handlers and the warm-up is a step of copies that
\* only move forward: a list that a client is given for a tenant is one the backend
\* has had, never one of a catalog that was not fetched, and never older than the
\* one it was given before (catalog.get, toolsFor).
ListsMoveForward == Copied!CSpec

\* A tool that tools/list offered a client for a tenant is refused to the same
\* client for that tenant, as not available, only after the proxy has cached a
\* newer list without it: whatever fetches, failures, ticks and other clients
\* come between the list and the call.
RefusedOnlyIfWithdrawn ==
    \A p \in Clients, t \in Tenants :
        /\ Decided(p) /\ got[p][t] \in Nat
        /\ Offered(t, told[p][t], rtool[p])
        /\ ~MayHave(t, got[p][t], rtool[p])
        => got[p][t] > told[p][t]

\* paramHeadersForCall reads the cache again, after selectTenant has: a call for a
\* tool that tools/list offered its client for the tenant leaves without the tool's
\* parameter headers only if the proxy has meanwhile cached a newer list without
\* it.  Other clients' refreshes, also failing ones, never lose the definition.
HeadersUnlessWithdrawn ==
    \A p \in Clients : \A t \in todo[p] :
        /\ pc[p] = "headers"
        /\ Offered(t, told[p][t], rtool[p])
        /\ rtool[p] \notin ListOf(ViewKey(t), cached[ViewKey(t)])
        => cached[ViewKey(t)] > told[p][t]

\* handler.go: "a cold cache never blocks a call the backend would have
\* accepted".  A call that names an authorized tenant goes there when no list
\* of its backend so far lacked the tool, whatever has been fetched or failed.
NeverLacked(v, tool) == \A i \in 1..version[v] : Offers[v][i] # Nil => tool \in Offers[v][i]

ColdCacheNeverRefuses ==
    \A p \in Clients :
        Decided(p) /\ rarg[p] \in Tenants /\ NeverLacked(ViewKey(rarg[p]), rtool[p])
        => Selected(p) = {rarg[p]}

\* catalog.get serves a stale copy: a tenant that a client has once seen in
\* tools/list is in all its later lists, however its backend fails (a backend
\* that answers without a tool list excepted).
ListedStaysListed ==
    \A p \in Clients, t \in Tenants :
        /\ pc[p] = "list" /\ told[p][t] \in Nat
        /\ \A i \in 1..version[ViewKey(t)] : Offers[ViewKey(t)][i] # Nil
        => got[p][t] # Skipped

\* handler.go: "retry on failure until it succeeds".  The warm-up stops only
\* when every catalog has been fetched, by itself or by a client.
WarmDoneMeansFetched == pc[Warmer] = "done" => \A v \in Views : cached[v] # 0

\* What a call without "tenant" does when the cache is as the client's last
\* tools/list found it: the one tenant that the tool's selector names is picked.
CacheAsTold(p) ==
    \A t \in Mine(p) : got[p][t] = IF told[p][t] = Skipped THEN 0 ELSE told[p][t]

SelectorWorks(p) ==
    LET having == Having(told[p], rtool[p])
    IN  /\ Decided(p) /\ rarg[p] = NoArg
        /\ Cardinality(Mine(p)) >= 2 /\ CacheAsTold(p) /\ Cardinality(having) = 1
        => Selected(p) = having

\* It is, when the list had the catalogs of all the caller's tenants.
CompleteSelectorWorks ==
    \A p \in Clients :
        (\A t \in Mine(p) : told[p][t] \in Nat /\ ListOf(ViewKey(t), told[p][t]) # Nil)
        => SelectorWorks(p)

\* handler.go: the selector is "optional when only one does (tools/call then
\* picks it automatically)", also when a tenant was left out of the list.
AdvertisedSelectorWorks == \A p \in Clients : SelectorWorks(p)

\* Every request is answered, although it waits for a catalog that another
\* handler or the warm-up is fetching.
RequestsAnswered == \A p \in Clients : pc[p] # "idle" ~> pc[p] = "idle"

\* main.go: "Blocks startup for at most 10s": the server starts to listen even
\* when a backend never answers.
ServingStarts == <>serving

\* catalog.go: "warm fetches every catalog once, returning the joined errors of
\* those that failed".  A catalog whose backend is healthy gets fetched.
WarmReachesHealthy == \A v \in Views : Health[v[1]] = "healthy" => <>(cached[v] # 0)
-----------------------------------------------------------------------------
(* The inductive invariant *)

Listing(p)  == pc[p] \in {"list", "fetch", "store"}
Fetching(p) == pc[p] \in {"fetch", "store"}

\* Where a process can be, and what it still has to do there.
Control ==
    /\ pc[Warmer] \in {"warm", "fetch", "store", "sleep", "done"}
    /\ Fetching(Warmer) => wtodo # {}
    /\ \A p \in Clients :
          /\ pc[p] \in {"idle", "list", "call", "advise", "headers", "fetch", "store"}
          /\ Fetching(p) => todo[p] # {}
          /\ pc[p] = "idle" => got[p] = NotRead

\* A fetch holds the lock of its catalog, so there is one fetch of a view at a time.
LockHeld == \A p \in Procs : Fetching(p) => lock[At(p)] = p

\* The answer a fetch is going to store is not older than the list in the cache.
AnswerCurrent ==
    \A p \in Procs :
        pc[p] = "store" => snap[p] \in 1..version[At(p)] /\ cached[At(p)] <= snap[p]

\* What handlers have read, and what clients have been told, has been in the cache; what
\* is read is at least as new as what the client was told.
Copies ==
    \A p \in Clients, t \in Tenants :
        /\ got[p][t] \in Nat => got[p][t] <= cached[ViewKey(t)]
        /\ told[p][t] \in Nat => 0 < told[p][t] /\ told[p][t] <= cached[ViewKey(t)]
        /\ got[p][t] \in Nat /\ told[p][t] \in Nat => told[p][t] <= got[p][t]

\* toolsFor: only the tenants to be listed are looked at, and a list is never the one of
\* a catalog that was not fetched.
Lists ==
    \A p \in Clients :
        Listing(p) => /\ todo[p] \subseteq ListedTenants(p)
                      /\ \A t \in Tenants : /\ got[p][t] # 0
                                            /\ got[p][t] # Unread => t \in ListedTenants(p)

\* Clients are told of their own tenants; of those they were told of, one can be
\* missing later only if its backend has answered without a list.
Told ==
    \A p \in Clients, t \in Tenants :
        /\ told[p][t] # Unread => t \in Mine(p)
        /\ got[p][t] = Skipped /\ told[p][t] \in Nat =>
              \E i \in 1..version[ViewKey(t)] : Offers[ViewKey(t)][i] = Nil

\* selectTenant: the tenants that are to be asked have been, or are still to be.
Calls ==
    \A p \in Clients :
        pc[p] = "call" =>
            /\ Asked(p, rarg[p]) # {}
            /\ \A t \in Asked(p, rarg[p]) \ todo[p] : got[p][t] \in Nat

\* The views a round without error is through with have been fetched.
Warmed ==
    /\ pc[Warmer] \in {"warm", "fetch", "store"} /\ ~werr =>
          \A v \in Views \ wtodo : cached[v] # 0
    /\ pc[Warmer] = "done" => \A v \in Views : cached[v] # 0

\* All of it.
IInv == /\ TypeOK /\ Control /\ LockHeld /\ AnswerCurrent /\ Copies /\ Lists /\ Told
        /\ Calls /\ Warmed
=============================================================================
