--------------------------- MODULE SessionRouting ---------------------------
(***************************************************************************)
(* The stateful core of the proxy: initialize, tools/call and DELETE       *)
(* handled concurrently over the session store and the backends.           *)
(*                                                                         *)
(* Each element of Reqs is a handler goroutine that serves one request     *)
(* after another.  pc[r] is where it is in the code:                       *)
(*    idle      no request                                                 *)
(*    get       routeToBackend, before Sessions.Get                        *)
(*    read      holds the *Session, before sess.BackendSID (unlocked)      *)
(*    init      before client.initialize                                   *)
(*    notify    before client.notifyInitialized                            *)
(*    set       before Sessions.SetBackendSID                              *)
(*    write     inside SetBackendSID, holding Store.mu                     *)
(*    call      before client.callTool                                     *)
(*    collect   handleDelete, between Sessions.Delete and its loop         *)
(* A network exchange is one step, taken when its answer (or its failure)  *)
(* arrives: what the backend did and what the proxy learned of it.         *)
(***************************************************************************)
EXTENDS SessionStore

CONSTANTS Reqs,      \* handler goroutines: how many requests run at once
          NoReq,     \* nobody
          NoSession  \* no Mcp-Session-Id header

ASSUME ReqAssumption == NoReq \notin Reqs /\ NoSession \notin SIDs

VARIABLES
    pc,
    rsid,       \* the Mcp-Session-Id header of the request
    rten,       \* the tenant selected
    rgroups,    \* the groups of the caller's token
    rbsid,      \* the local variable backendSID / sid
    late,       \* the clock has ticked while the handler used its session
    mu,         \* the handler inside SetBackendSID, holding Store.mu, if any
    teardowns,  \* running teardownBackend goroutines
    bstate,     \* the backends' view of their sessions
    opener,     \* for whom a backend session was opened, and as whom (history)
    deleted,    \* ids removed by a DELETE since the process started (history)
    attempted   \* backend sessions for which a teardown was started (history)

reqVars == <<pc, rsid, rten, rgroups, rbsid, late>>
envVars == <<teardowns, bstate, opener, deleted, attempted>>
vars    == <<storeVars, reqVars, mu, envVars>>

PCs == {"idle", "get", "read", "init", "notify", "set", "write", "call", "collect"}

\* free      not issued yet
\* lost      opened by an initialize whose answer the proxy never got
\* open      initialize answered          ready    notifications/initialized arrived
\* unready   the notification was lost    closed   deleted, expired or dropped
BackendStates == {"free", "lost", "open", "ready", "unready", "closed"}
Usable        == {"open", "ready", "unready"}

\* The proxy session, the tenant and the credential of an initialize.
Openings == [sid : SIDs \cup {NoSession}, tenant : Tenants \cup {NoArg},
             cred : Creds \cup {NoCred}]
NoOpening == [sid |-> NoSession, tenant |-> NoArg, cred |-> NoCred]

\* Handlers that still rely on the session they looked up.
UsingSession == {"read", "init", "notify", "set", "write"}

\* Handlers that act for the tenant they selected.
Serving == UsingSession \cup {"get", "call"}
-----------------------------------------------------------------------------
Init ==
    /\ StoreInit
    /\ pc = [r \in Reqs |-> "idle"]
    /\ rsid = [r \in Reqs |-> NoSession]
    /\ rten = [r \in Reqs |-> NoArg]
    /\ rgroups = [r \in Reqs |-> {}]
    /\ rbsid = [r \in Reqs |-> NoSID]
    /\ late = [r \in Reqs |-> FALSE]
    /\ mu = NoReq
    /\ teardowns = {}
    /\ bstate = [b \in BSIDs |-> "free"]
    /\ opener = [b \in BSIDs |-> NoOpening]
    /\ deleted = {}
    /\ attempted = {}

TypeOK ==
    /\ StoreTypeOK
    /\ pc \in [Reqs -> PCs]
    /\ rsid \in [Reqs -> SIDs \cup {NoSession}]
    /\ rten \in [Reqs -> Tenants \cup {NoArg}]
    /\ rgroups \in [Reqs -> SUBSET Groups]
    /\ rbsid \in [Reqs -> BSIDs \cup {NoSID}]
    /\ late \in [Reqs -> BOOLEAN]
    /\ mu \in Reqs \cup {NoReq}
    /\ teardowns \in SUBSET (Tenants \X BSIDs)
    /\ bstate \in [BSIDs -> BackendStates]
    /\ opener \in [BSIDs -> Openings]
    /\ deleted \in SUBSET minted
    /\ attempted \in SUBSET BSIDs
-----------------------------------------------------------------------------
(* Control of one handler *)

Goto(r, l) == pc' = [pc EXCEPT ![r] = l]

Locals == <<rsid, rten, rgroups, rbsid, late>>

\* Write the answer and return: the locals are gone.  What the answer says is
\* not kept; a request that is answered without any change of state (a token
\* the verifier refuses, malformed params, list_instances, a failed tenant
\* selection, an unknown session in a DELETE) leaves the handler idle.
Answer(r) ==
    /\ Goto(r, "idle")
    /\ rsid' = [rsid EXCEPT ![r] = NoSession]
    /\ rten' = [rten EXCEPT ![r] = NoArg]
    /\ rgroups' = [rgroups EXCEPT ![r] = {}]
    /\ rbsid' = [rbsid EXCEPT ![r] = NoSID]
    /\ late' = [late EXCEPT ![r] = FALSE]

\* Go on to callTool: the client session is not needed any more.
Forward(r) == Goto(r, "call") /\ late' = [late EXCEPT ![r] = FALSE]

\* The other operations of the store can take Store.mu.
Unlocked == mu = NoReq
-----------------------------------------------------------------------------
(* handleInitialize *)

HandleInitialize(r) ==
    /\ pc[r] = "idle"
    /\ Answer(r)
    /\ IF AllStateless THEN UNCHANGED storeVars
                       ELSE Unlocked /\ \E s \in SIDs : Mint(s)
    /\ UNCHANGED <<mu, envVars>>
-----------------------------------------------------------------------------
(* handleToolsCall *)

\* The tenants that a caller with these groups can be routed to, whatever the
\* "tenant" argument and whatever the cached catalogs say of the tool.
Selectable(groups) ==
    UNION {SelectTenant(explicit, groups, mayHave) :
              explicit \in TenantArgs, mayHave \in SUBSET Tenants}

\* Mutant: a stateless backend gets a session too.
RouteAlwaysStateful(t) == "get"

\* routeToBackend skips the session for a stateless backend.
Route(t) == IF Stateless(TenantBackend[t]) THEN "call" ELSE "get"

\* A valid token, and a tenant selected.
HandleToolsCall(r, s, groups) ==
    /\ pc[r] = "idle"
    /\ \E t \in Selectable(groups) :
          /\ Goto(r, Route(t))
          /\ rten' = [rten EXCEPT ![r] = t]
    /\ rsid' = [rsid EXCEPT ![r] = s]
    /\ rgroups' = [rgroups EXCEPT ![r] = groups]
    /\ UNCHANGED <<storeVars, rbsid, late, mu, envVars>>

\* Sessions.Get
GetSession(r) ==
    /\ pc[r] = "get"
    /\ Unlocked
    /\ \/ GetHit(rsid[r]) /\ Goto(r, "read") /\ UNCHANGED Locals
       \/ GetMiss(rsid[r]) /\ Answer(r)
    /\ UNCHANGED <<mu, envVars>>

\* The map of session s is being written: sess.BackendSID takes no lock.
BeingWritten(s) == mu # NoReq /\ rsid[mu] = s /\ s \in live

\* Mutant: the map is keyed by the backend, so its tenants share an entry.
ReadByBackend(r) ==
    LET shared == {t \in Tenants : /\ TenantBackend[t] = TenantBackend[rten[r]]
                                  /\ backendSID[rsid[r]][t] # Unset}
    IN  IF shared = {} THEN {Unset} ELSE {backendSID[rsid[r]][t] : t \in shared}

\* What the unlocked read can return: the entry; while the map is being
\* written, also no entry (the map is growing), and for the very entry being
\* written its new value or the zero string between the insertion of the key
\* and the store of its value.
ReadOutcomes(r) ==
    LET entry == backendSID[rsid[r]][rten[r]]
    IN  IF ~BeingWritten(rsid[r]) THEN {entry}
        ELSE {entry, Unset} \cup (IF rten[mu] = rten[r] THEN {NoSID, rbsid[mu]} ELSE {})

\* Mutant: the flag `have' is ignored.
ReadIgnoringHave(r) ==
    /\ pc[r] = "read"
    /\ \E v \in ReadOutcomes(r) : Forward(r) /\ rbsid' = [rbsid EXCEPT ![r] = v]
    /\ UNCHANGED <<storeVars, rsid, rten, rgroups, mu, envVars>>

ReadBackendSID(r) ==
    /\ pc[r] = "read"
    /\ \E v \in ReadOutcomes(r) :
          IF v = Unset THEN Goto(r, "init") /\ UNCHANGED <<rbsid, late>>
                       ELSE Forward(r) /\ rbsid' = [rbsid EXCEPT ![r] = v]
    /\ UNCHANGED <<storeVars, rsid, rten, rgroups, mu, envVars>>

\* A torn string header makes the handler panic; net/http recovers.
TornRead(r) ==
    /\ pc[r] = "read"
    /\ BeingWritten(rsid[r])
    /\ Answer(r)
    /\ UNCHANGED <<storeVars, mu, envVars>>

Opening(r) == [sid |-> rsid[r], tenant |-> rten[r], cred |-> EffectiveCredential(rten[r])]

\* client.initialize: an id, no id, or an error, with or without a session
\* opened at the backend (a timeout or an undecodable answer may hide one).
OpenBackendSession(r) ==
    /\ pc[r] = "init"
    /\ \/ \E b \in BSIDs :
             /\ bstate[b] = "free"
             /\ opener' = [opener EXCEPT ![b] = Opening(r)]
             /\ \/ /\ bstate' = [bstate EXCEPT ![b] = "open"]
                   /\ Goto(r, "notify")
                   /\ rbsid' = [rbsid EXCEPT ![r] = b]
                   /\ UNCHANGED <<rsid, rten, rgroups, late>>
                \/ /\ bstate' = [bstate EXCEPT ![b] = "lost"]
                   /\ Answer(r)
       \/ Goto(r, "set") /\ UNCHANGED <<Locals, bstate, opener>>
       \/ Answer(r) /\ UNCHANGED <<bstate, opener>>
    /\ UNCHANGED <<storeVars, mu, teardowns, deleted, attempted>>

\* Mutant: notifications/initialized is not sent.
NotifyNever(r) ==
    /\ pc[r] = "notify"
    /\ Goto(r, "set")
    /\ UNCHANGED <<storeVars, Locals, mu, envVars>>

\* client.notifyInitialized: best effort.
NotifyInitialized(r) ==
    /\ pc[r] = "notify"
    /\ \E n \in {"ready", "unready"} :
          bstate' = [bstate EXCEPT ![rbsid[r]] = IF @ = "open" THEN n ELSE @]
    /\ Goto(r, "set")
    /\ UNCHANGED <<storeVars, Locals, mu, teardowns, opener, deleted, attempted>>

\* Sessions.SetBackendSID takes Store.mu ...
BeginSetBackendSID(r) ==
    /\ pc[r] = "set"
    /\ Unlocked
    /\ mu' = r
    /\ Goto(r, "write")
    /\ UNCHANGED <<storeVars, Locals, envVars>>

\* Mutant: the lock is not released.
EndSetBackendSIDLocked(r) ==
    /\ pc[r] = "write"
    /\ SetBackendSID(rsid[r], rten[r], rbsid[r])
    /\ Forward(r)
    /\ UNCHANGED <<rsid, rten, rgroups, rbsid, mu, envVars>>

\* ... and writes the map, if the session is still there.
EndSetBackendSID(r) ==
    /\ pc[r] = "write"
    /\ SetBackendSID(rsid[r], rten[r], rbsid[r])
    /\ mu' = NoReq
    /\ Forward(r)
    /\ UNCHANGED <<rsid, rten, rgroups, rbsid, envVars>>

\* client.callTool: the backend's answer or an error goes to the caller.  No
\* error, not even that of a session the backend has dropped, changes the map.
CallTool(r) ==
    /\ pc[r] = "call"
    /\ Answer(r)
    /\ UNCHANGED <<storeVars, mu, envVars>>
-----------------------------------------------------------------------------
(* handleDelete *)

\* Sessions.Delete has removed a live session.
HandleDelete(r, s) ==
    /\ pc[r] = "idle"
    /\ ~AllStateless
    /\ Unlocked
    /\ s \in live
    /\ Delete(s)
    /\ deleted' = deleted \cup {s}
    /\ Goto(r, "collect")
    /\ rsid' = [rsid EXCEPT ![r] = s]
    /\ UNCHANGED <<rten, rgroups, rbsid, late, mu, teardowns, bstate, opener, attempted>>

\* Mutant: every tenant of the backend deletes the session, with its credential.
CollectByBackend(r) ==
    LET mapped == {m \in Tenants \X BSIDs : \E t \in Tenants :
                      /\ TenantBackend[t] = TenantBackend[m[1]]
                      /\ backendSID[rsid[r]][t] = m[2]}
    IN  /\ pc[r] = "collect"
        /\ teardowns' = teardowns \cup mapped
        /\ attempted' = attempted \cup {m[2] : m \in mapped}
        /\ Answer(r)
        /\ UNCHANGED <<storeVars, mu, bstate, opener, deleted>>

\* The loop over all tenants, after the lock has been released.
CollectTeardowns(r) ==
    LET mapped == {<<t, backendSID[rsid[r]][t]>> : t \in Tenants} \cap (Tenants \X BSIDs)
    IN  /\ pc[r] = "collect"
        /\ teardowns' = teardowns \cup mapped
        /\ attempted' = attempted \cup {m[2] : m \in mapped}
        /\ Answer(r)
        /\ UNCHANGED <<storeVars, mu, bstate, opener, deleted>>

\* teardownBackend: one DELETE with the tenant's credential, never retried.
TeardownBackend(t, b) ==
    /\ <<t, b>> \in teardowns
    /\ teardowns' = teardowns \ {<<t, b>>}
    /\ \/ bstate' = [bstate EXCEPT ![b] = "closed"]
       \/ UNCHANGED bstate
    /\ UNCHANGED <<storeVars, reqVars, mu, opener, deleted, attempted>>
-----------------------------------------------------------------------------
(* The environment *)

\* A backend expires or forgets a session; the proxy is not told.
BackendDrop(b) ==
    /\ bstate[b] \in Usable \cup {"lost"}
    /\ bstate' = [bstate EXCEPT ![b] = "closed"]
    /\ UNCHANGED <<storeVars, reqVars, mu, teardowns, opener, deleted, attempted>>

\* The clock passes a multiple of the tick.  A tick is TTL/n of the store's 30
\* minutes; between Sessions.Get and SetBackendSID a handler makes two exchanges
\* of at most 60 s each, so it sees at most one tick.
Tick ==
    /\ \A r \in Reqs : ~late[r]
    /\ PassTime
    /\ late' = [r \in Reqs |-> pc[r] \in UsingSession]
    /\ UNCHANGED <<pc, rsid, rten, rgroups, rbsid, mu, envVars>>

\* Everything the process holds is lost; the backends are not told.
Lose ==
    /\ LoseAll
    /\ pc' = [r \in Reqs |-> "idle"]
    /\ rsid' = [r \in Reqs |-> NoSession]
    /\ rten' = [r \in Reqs |-> NoArg]
    /\ rgroups' = [r \in Reqs |-> {}]
    /\ rbsid' = [r \in Reqs |-> NoSID]
    /\ late' = [r \in Reqs |-> FALSE]
    /\ mu' = NoReq
    /\ teardowns' = {}
    /\ deleted' = {}
    /\ UNCHANGED <<bstate, opener, attempted>>

Restart == Lose

\* The Go runtime kills the process when a read finds the map being written.
ConcurrentMapFatal(r) ==
    /\ pc[r] = "read"
    /\ BeingWritten(rsid[r])
    /\ Lose
-----------------------------------------------------------------------------
Arrive(r) ==
    \/ HandleInitialize(r)
    \/ \E s \in SIDs \cup {NoSession}, groups \in SUBSET Groups :
          HandleToolsCall(r, s, groups)
    \/ \E s \in SIDs : HandleDelete(r, s)

Proceed(r) ==
    \/ GetSession(r)
    \/ ReadBackendSID(r)
    \/ TornRead(r)
    \/ OpenBackendSession(r)
    \/ NotifyInitialized(r)
    \/ BeginSetBackendSID(r)
    \/ EndSetBackendSID(r)
    \/ CallTool(r)
    \/ CollectTeardowns(r)

Next ==
    \/ \E r \in Reqs : Arrive(r) \/ Proceed(r) \/ ConcurrentMapFatal(r)
    \/ \E t \in Tenants, b \in BSIDs : TeardownBackend(t, b)
    \/ \E b \in BSIDs : BackendDrop(b)
    \/ Tick
    \/ Restart

Spec == Init /\ [][Next]_vars

\* Every exchange ends within the client's 60 s timeout, and sync.Mutex does not
\* let a waiter starve (after 1 ms it is handed the lock), so a handler that has
\* started goes on; requests, teardowns, ticks and restarts are never forced.
Fairness == \A r \in Reqs : SF_vars(Proceed(r))

FairSpec == Spec /\ Fairness
-----------------------------------------------------------------------------
(* Properties *)

\* README: "two tenants sharing a backend never share a session initialized
\* with one tenant's credential".  Whatever requests overlap, the backend
\* session recorded for a tenant of a client session was opened for this tenant,
\* with its effective credential, on behalf of this client session.
OpenedFor(b, s, t) == opener[b] = [sid |-> s, tenant |-> t, cred |-> EffectiveCredential(t)]

IsolatedSessions ==
    /\ \A s \in SIDs, t \in Tenants :
          backendSID[s][t] \in BSIDs => OpenedFor(backendSID[s][t], s, t)
    /\ \A r \in Reqs :
          pc[r] = "call" /\ rbsid[r] \in BSIDs => OpenedFor(rbsid[r], rsid[r], rten[r])

\* README: "no credential is ever injected for an unauthorized tenant".  From
\* the selection to the forwarded call, over any number of steps of others, a
\* handler acts only for a tenant that the caller's own groups authorize, even
\* on a client session that a caller with other groups has used.
AuthorizedCredential ==
    \A r \in Reqs : pc[r] \in Serving =>
        rten[r] \in Tenants /\ IsAuthorized(rten[r], rgroups[r])

\* routeToBackend: no call goes out on a backend session before its
\* notifications/initialized has been sent, not even a call of another handler
\* that found the session in the map.
HandshakeBeforeCall ==
    \A r \in Reqs : pc[r] = "call" /\ rbsid[r] \in BSIDs =>
        bstate[rbsid[r]] \in {"ready", "unready", "closed"}

\* handleDelete reads the map of the removed session without the lock: no
\* handler is writing it then, and once the loop is over, no backend session
\* is in the map of a deleted client session without its teardown started.
Collected(s) == \A r \in Reqs : pc[r] = "collect" => rsid[r] # s

MapCovered ==
    \A s \in deleted : Collected(s) =>
        \A t \in Tenants : backendSID[s][t] \in BSIDs => backendSID[s][t] \in attempted

DeleteCoversMap ==
    /\ \A r \in Reqs : pc[r] = "collect" => ~BeingWritten(rsid[r])
    /\ MapCovered

\* A running teardown goes to the tenant whose credential opened the session,
\* for a client session that is no longer served.
TeardownOwnSession ==
    \A t \in Tenants, b \in BSIDs : <<t, b>> \in teardowns =>
        \E s \in SIDs \ live : OpenedFor(b, s, t)

\* The idle TTL never takes a session away from a handler that uses it: it
\* only disappears under a handler when a client deletes it.
NotReapedInUse ==
    \A r \in Reqs : pc[r] \in UsingSession => rsid[r] \in live \cup deleted

\* A stateless backend never gets a session (Handler.routeToBackend), and a
\* proxy whose backends are all stateless keeps none for its own callers.
StatelessKeepsNoSession ==
    /\ \A b \in BSIDs : opener[b].tenant \in Tenants =>
          ~Stateless(TenantBackend[opener[b].tenant])
    /\ AllStateless => minted = {}

-----------------------------------------------------------------------------
(* The inductive invariant of the proofs in SessionRoutingProofs *)

\* What a handler knows at each point of its code.
Control ==
    \A r \in Reqs :
        /\ pc[r] \in Serving => rten[r] \in Tenants /\ IsAuthorized(rten[r], rgroups[r])
        /\ pc[r] \in UsingSession => rsid[r] \in minted
        /\ pc[r] \in UsingSession \cup {"get"} => ~Stateless(TenantBackend[rten[r]])
        /\ pc[r] = "collect" => rsid[r] \in deleted
        /\ pc[r] = "write" <=> mu = r
        /\ pc[r] \in {"idle", "get", "read", "init", "collect"} => rbsid[r] = NoSID
        /\ pc[r] = "notify" => rbsid[r] \in BSIDs
        /\ late[r] => pc[r] \in UsingSession

\* Who a backend session belongs to, once it has been opened.
Ownership ==
    /\ \A b \in BSIDs : bstate[b] = "free" <=> opener[b] = NoOpening
    /\ \A b \in BSIDs : bstate[b] # "free" =>
          /\ opener[b].sid \in minted
          /\ opener[b].tenant \in Tenants
          /\ ~Stateless(TenantBackend[opener[b].tenant])
    /\ \A s \in SIDs, t \in Tenants :
          backendSID[s][t] \in BSIDs => OpenedFor(backendSID[s][t], s, t)
    /\ \A r \in Reqs : rbsid[r] \in BSIDs => OpenedFor(rbsid[r], rsid[r], rten[r])

\* The notification precedes the map and the call.
Handshake ==
    /\ \A s \in SIDs, t \in Tenants : backendSID[s][t] \in BSIDs =>
          bstate[backendSID[s][t]] \in {"ready", "unready", "closed"}
    /\ \A r \in Reqs : rbsid[r] \in BSIDs => bstate[rbsid[r]] # "lost"
    /\ \A r \in Reqs : rbsid[r] \in BSIDs /\ pc[r] # "notify" =>
          bstate[rbsid[r]] \in {"ready", "unready", "closed"}

\* A session leaves the store for good, and its backend sessions with it.
DeletedGone == deleted \cap live = {}

TeardownsOwned ==
    \A t \in Tenants, b \in BSIDs : <<t, b>> \in teardowns =>
        \E s \in minted \ live : OpenedFor(b, s, t)

Deletion == DeletedGone /\ MapCovered /\ TeardownsOwned

\* A session in use has been idle for at most the one tick its handler saw.
Freshness ==
    \A r \in Reqs : pc[r] \in UsingSession =>
        /\ rsid[r] \in live \cup deleted
        /\ rsid[r] \in live => idle[rsid[r]] <= (IF late[r] THEN 1 ELSE 0)

\* An id that has not been minted has an empty map, and a proxy whose backends
\* are all stateless mints none.
Unborn ==
    /\ \A s \in SIDs \ minted : backendSID[s] = [t \in Tenants |-> Unset]
    /\ AllStateless => minted = {}

\* The inductive invariant: the parts above hold together in every reachable
\* state, and imply the properties of the sessions.
IInv == TypeOK /\ Control /\ Ownership /\ Handshake /\ Deletion /\ Freshness /\ Unborn
-----------------------------------------------------------------------------
(* Progress, and two statements the code does not keep *)

\* Every request that has been accepted is answered.
EveryRequestAnswered == \A r \in Reqs : pc[r] # "idle" ~> pc[r] = "idle"

\* session.go: "Store is a thread-safe set of sessions".  No handler reads the
\* map of a session while another one writes it.
NoMapRace == \A r \in Reqs : pc[r] = "read" => ~BeingWritten(rsid[r])

\* README: "DELETE on the endpoint tears down the client session and its
\* backend sessions".  When nothing is running any more, every backend session
\* that was opened for a deleted client session, and whose id the proxy was
\* given, is closed or had its teardown started.
DeleteLeavesNoBackendSession ==
    (\A r \in Reqs : pc[r] = "idle") =>
        \A b \in BSIDs : bstate[b] \in Usable /\ opener[b].sid \in deleted => b \in attempted
=============================================================================
