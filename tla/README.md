# A TLA+ model of mt-mcp-proxy

mt-mcp-proxy stands between MCP clients and downstream MCP servers (backends). A
caller's token carries groups, groups authorize tenants, and a tenant is a backend
with a credential and headers. The proxy lists the tools of the caller's tenants,
routes each call to one tenant with that tenant's credential, and keeps the
sessions this needs. This directory holds TLA+ modules of the program, from the
loading of its configuration to its exit, TLC configurations that check them on small
deployments, and TLAPS proofs of all of the safety properties that hold, for every
deployment.

Run from this directory: `tlc -config MCTenants.cfg MCSessionRouting` (and so on for
the table of runs below), `tlapm SessionRoutingProofs.tla` (and
`TenantSelectionProofs`, `CatalogsProofs`, `ConfigProofs`, `WireProofs`, `EndpointProofs`,
`ServiceProofs`).

## The system

| Part | State | Operations | Interacts through |
|---|---|---|---|
| Session store (`internal/session`) | `Store.m` under `Store.mu`; per session the map tenant -> backend session id and `lastSeen` | Mint, Get, SetBackendSID, Delete, lazy reaping | calls of the handlers; the map of a `*Session` is also read without the lock |
| Routing (`internal/proxy/handler.go`) | the locals of each handler goroutine | initialize, tools/call, DELETE; a teardown goroutine per backend session | store, registry, catalogs, backends over HTTP |
| Registry (`internal/registry`) | none after startup | authorization, effective credential, stateless tests | read by everyone |
| Tool catalogs (`catalog.go`) | per view (backend, credential, headers): tool list, time of the fetch, a mutex held during the fetch | get (with TTL and stale copies), cached, warm | tools/list, tools/call, the warm-up |
| Backend client (`client.go`) | none | initialize, notifications/initialized, tools/list, tools/call, DELETE; 60 s timeout | HTTP |
| Process (`cmd/mt-mcp-proxy/main.go`) | where `run` is, the server, the metrics listener, the telemetry providers; the warm-up goroutine and the one that waits for a signal | load, build, warm up, listen; a warm-up retry every 10 s; shutdown on a signal | starts every other part |
| Configuration (`internal/config`) | none after startup | Load: defaults, environment, validation | the registry is built from it |
| Token verification (`internal/auth`) | the key or key set | New (discovery), Groups | handlers of tools/list and tools/call |
| Dispatch, OAuth metadata (`handler.go`, `oauth.go`) | none | ServeHTTP by method and JSON-RPC method; challenges; the metadata document | HTTP |
| Schema rewriting, parameter headers (`schema.go`, `paramheaders.go`) | none | injectTenantArg, stripTenantArg, paramHeadersForTool | tools/list shows what tools/call takes away again |
| Codec (`mcp.go`) | none | envelopes, decodeSSE, decodeBody | backend client |
| Observability (`internal/observability`) | the providers | Setup, RecordToolCall, Shutdown | handlers of tools/call, `run` |

What is hard here: handlers of one client session run concurrently and leave the
store's lock between every two steps (look up, open, notify, record, call); a
DELETE, the reaper or a restart can come between any two of them; exchanges fail
with or without an effect at the backend; a catalog is fetched slowly while others
list, call and warm up; some decisions use cached lists; the process may be told to
stop at any point of its startup and of its requests; and several parts have to
agree without sharing state: the verifier with the groups of the registry, the schema
that was listed with the arguments that are stripped, the headers of a call with its body,
the challenge with the metadata document. `PROJECT.json` lists these
hazards line by line, with the properties that would notice them going wrong.

What makes each part correct:

- store: an id is born once and dies for good; nothing is written into a dead
  session; a session in use is not reaped;
- routing: a call goes out only for an authorized tenant, on a backend session opened
  for that client session and tenant with that tenant's credential, after the
  handshake; a DELETE tears down what the session holds; every request is answered;
- catalogs: a list is never replaced by an older one; a tool is refused only if the
  backend stopped listing it, and called without its parameter headers only then; a tenant once listed stays listed; the warm-up ends
  only when all is fetched, and always lets the server start;
- configuration: what is served is what the file says, each tenant once and with
  its own backend, and no reference to the environment is left;
- verification: no message goes to a backend for a caller whose token is not signed,
  current, and for this audience, issuer and scope, or whose groups do not name the tenant;
- messages: a tenant's secrets go to nobody else; parameter headers say what the body
  says; arguments made for a definition as it was listed fit that definition once
  forwarded; one message of an answer is relayed, the first and whole;
- process: a signal ends it whenever it comes; startup ends; the exit code and the
  telemetry are right.

## Modules

| Module | Models | Notes |
|---|---|---|
| `Registry` | `registry.go` | constants with the assumptions that `registry.New` enforces |
| `TenantSelection` | `selectTenant`, `tenantsWithTool`, `unavailable` | operators; extends `Registry` |
| `TenantSelectionProofs` | the theorems about `selectTenant` | |
| `SessionLifecycle` | nothing: it is the abstract specification of a session's life | unborn, live, dead; a binding only while live |
| `SessionStore` | `session.go` | one action per operation under the lock; extends `TenantSelection`; instantiates `SessionLifecycle` with the refinement mapping `Phase` |
| `SessionRouting` | handlers of initialize, tools/call and DELETE, teardown goroutines, backends | extends `SessionStore`; composes store, selection and backends |
| `SessionRoutingProofs` | the theorems about `SessionRouting` | |
| `CatalogCopies` | nothing: it is the abstract specification of the catalogs | a source publishes, its copy moves forward, a reader is shown copies and never an older one than before |
| `Catalogs` | `catalog.go`, tools/list, the lookups of tools/call, `warmCatalog` | extends `TenantSelection`; instantiates `CatalogCopies` |
| `CatalogsProofs` | the theorems about `Catalogs` | |
| `Config` | `config.go`, `registry.New` | operators on configuration records |
| `ConfigProofs` | what `Load` and `registry.New` make of a file | used by `ServiceProofs` |
| `Verifier` | `auth.go` | operators on the auth section and a request's token |
| `Wire` | `schema.go`, `paramheaders.go`, `mcp.go`, the headers and answers of `client.go` | operators; a reference decoder for headers |
| `WireProofs` | the theorems about headers and answers | |
| `Endpoint` | `ServeHTTP` and the answers without a backend, `oauth.go`, `backendClient.post` | extends the three; `Of(reg)` instantiates `TenantSelection` for the registry that was built |
| `EndpointProofs` | the theorem about the two URLs of `oauth.go` | extends `WireProofs` for sequences |
| `Service` | `main.go`: startup, serving, shutdown, and the requests in between | the state machine over `Endpoint` |
| `ServiceProofs` | the theorems about `Service` | |
| `MCSessionRouting`, `MCCatalogs`, `MCService` | small deployments | constants only |

Definitions whose comment begins with "Mutant" are deliberately wrong versions of the
definition after them. They are used by no specification; each shows that a property
notices the bug it stands for.

### SessionRouting

`live`, `idle` and `backendSID` are `Store.m`, the time since `lastSeen`, and
`Session.backendSID`, kept after the removal of the session because handlers may
still hold the pointer. `mu` is held only over `SetBackendSID`, which is split
into its beginning and its end, so that the unlocked `sess.BackendSID` of another
handler can fall between them; the other operations of the store are single
steps, enabled when the mutex is free. The unlocked read returns the entry, or,
during a write to the same map, any value the build can produce: nothing, the old
or the new value, the zero string; a panic (`TornRead`) or the end of the process
(`ConcurrentMapFatal`) are possible too.

A network exchange is one step with every outcome of the client code: `initialize`
returns an id, no id, or an error with or without a session opened at the backend;
the notification arrives or is lost; a teardown works or not and is never retried.
`BackendDrop` closes a session at the backend without a word to the proxy. `Restart`
may happen at any time.

`Selectable` lets tools/call choose any tenant that `selectTenant` can return for
some "tenant" argument and some state of the catalogs, so the results do not depend
on `Catalogs`; how the catalogs decide is the subject of that module. What the two
modules share is the operator `SelectTenant`.

Requests that only produce an answer (ping, server/discover, list_instances, a
refused token, malformed parameters, an unknown session in a DELETE) change no state
and have no action. `opener`, `deleted` and `attempted` are histories for the
properties.

### Catalogs

A backend's lists for a view form the constant sequence `Offers[v]`; the backend is
at `version[v]`, the cache is a copy of version `cached[v]`, 0 before the first
fetch. Comparing version numbers is how a property says "newer". `lock[v]` is held
from the test of the age to the store. A fetch is three steps: lock taken, backend
answers (`snap`), result stored; the backend's list may change and the clock tick in
between. `Nil`, the nil slice, is the list of a result without tools; the code takes it
for a catalog that was never fetched, and so does the model.

The warm-up goes through the views in the order of `Catalogs.unique`. Its context
ends (`WarmTimeout`) only while it waits for a backend that is not healthy; from then on
its fetches fail, as requests with an expired context do. Clients are served when
the first round is over.

`Copied` maps this to `CatalogCopies`: the sources are the views, the latest version of a
source is `version`, its copy `cached`, and what a reader was last shown is `told`. The TTL,
the lock, the fetches in flight and the handlers disappear. What is left is the promise of a
cache: a copy never goes back and never passes its source, a reader never sees a copy that
was not made, and its reads are monotonic. `Skipped` and `Unread` are marks in place of a
version; after a mark the abstract reader may be shown any version the copy has had.

### Service

`main` follows the main goroutine through `run` (load, auth, registry, obs, warm, mux,
listen, serve, deferred, exited), `drain` the goroutine that waits for the signal.
`raw` is the file, `cfg` what `Load` makes of it and `reg` what `registry.New` makes of
that; handlers read only `cfg` and `reg`. `Signal` may come at any time: before the
server listens (`srv.Shutdown` then closes it before it was up), while
handlers wait, or during the drain, for which `run` does not wait
(`ServeReturns`). The exit code is 0, 1 or, for a path that `http.ServeMux` rejects,
2.

A handler answers in one step what needs no backend. A call waits for its backend in
one to three exchanges (`open`, `notify`, `call`): `plan` is the call that is going to be
sent, `sent` the messages so far, both forgotten with the response. What the session store
and the catalogs say is any outcome here (`known`, `views`, `lists`, `mayHave`), since
`SessionRouting` and `Catalogs` model them in full. So `Service` is about what all
of these outcomes have in common, and about a single request from its token to
the telemetry.

A tool has a set of definitions, `Tools[n]`: what backends give different tenants, or the
same tenant at different times. tools/list has some definition of each tool for each tenant
whose catalog could be had, and shows that of the first tenant, in the order of ids (`Rank`),
as `handleToolsList` does. The headers of a call come from any definition that may be cached
by then, or from none (`ForwardHeaders`).

A tools/call has params that are an object, null, or neither. Tenant selection turns down no
name as long as a catalog is not cached, so a call for an unknown tool, or without a name, may
be forwarded (`ToTenant`); `post` then leaves out Mcp-Name (`Post`). Null params have no name
and no arguments. On their way to a stateless backend `injectMeta` assigns into the nil map that
null decodes to (`schema.go:158`): `MetaPanics`, after which the connection is dropped (the
response has status 0) and the deferred `RecordToolCall` runs without an error type.

Data is cut down to what decides something:

- a secret is the sequence of its parts, literal text or a reference to a variable, so that
  a property can ask whose text a header has;
- URLs and paths are sequences of pieces; `strings.TrimSuffix` works on pieces;
- a token is the key that signed it, its expiry and its claims with their JSON kinds;
- a JSON value is tagged with its kind; strings are sequences of characters, and base64 an
  injective map of characters (`Encoded`). `FloatExact`, 4 in the runs, stands for 2^53:
  `json.Unmarshal` into an `any` rounds larger integers, and so does `Float`;
- an answer is a sequence of lines; a line of data has the number of its message, which
  changes at blank lines and only there (`Framed`). A payload is the set of the
  positions of its lines;
- what `initialize` makes of an answer depends on `rpc`, the kind of its first message.

## Runs

| Run | Configuration | Distinct states | Shows |
|---|---|---|---|
| tenants | `MCTenants.cfg` | 1.1 million | isolation, authorization, handshake order, teardown ownership, stateless backends |
| clients | `MCClients.cfg` | 0.9 million | the inductive invariant, DELETE, reaping, the life cycle |
| answered | `MCAnswered.cfg` | 6 000 | every request is answered (fair) |
| catalogs | `MCCatalogs.cfg` | 0.3 million | the inductive invariant; grounded refusals, stale copies, selectors, warm-up |
| shared_view | `MCSharedView.cfg` | 0.16 million | a cached list never goes back; an offered tool is refused, or called without its parameter headers, only after a newer list without it; the refinement of `CatalogCopies` |
| catalogs_answered | `MCCatalogsAnswered.cfg` | 15 000 | every list and call is answered, the server starts (fair) |
| service | `MCService.cfg` | 95 000 | the inductive invariant; the whole process: file to registry, token to call, call to backend, answer to client, signal to exit (liveness is fair) |
| map_race | `MCMapRace.cfg` | violated | the map of a session is read while it is written |
| orphan | `MCOrphan.cfg` | violated | a backend session outlives the DELETE of its client session |
| metrics | `MCMetrics.cfg` | violated | the metrics listener cannot be disabled |
| selector | `MCSelector.cfg` | violated | an optional selector is not optional |
| warm | `MCWarm.cfg` | violated (fair) | a hung backend keeps healthy catalogs cold |

The five violations are disagreements between the code and its own comments or
README:

- *map_race*. `session.go:37` calls the store thread-safe; `routeToBackend` reads
  a session's map after the lock is released (`handler.go:550`). Two concurrent
  first calls on one session are enough. The other properties hold in spite of the
  race, because every value that it can produce is an id of the same session and
  tenant, the empty id, or nothing.
- *orphan*. README line 128 says that DELETE tears down the backend sessions. A
  session whose id was overwritten by a concurrent first call, or whose id arrives
  after the DELETE, is not torn down. What is true, and proved, is
  `DeleteCoversMap`: whatever is in the map is.
- *metrics*. `config.go:36`, `main.go:106` and README lines 256 to 258 say that an empty
  `metrics_listen` disables the listener. `applyDefaults` (`config.go:246`) replaces it by
  `:9090`, so `run` never sees an empty one.
- *selector*. `handler.go:238` says that tools/call picks the tenant when only one has
  the tool. If another tenant's catalog could not be fetched, the list omits it and
  the call counts it. `CompleteSelectorWorks` shows that this is the only reason.
- *warm*. `catalog.go:92` says that warm fetches every catalog. All fetches of a
  round share a 10 s context, which a hung backend uses up in every round.

The properties of the run *service* make these exceptions, where the code falls short
of the plain statement:

- `HeadersMatchBody` excepts integers above 2^53, which the header has rounded and
  the body has exactly, and a header that a tool asks for on a parameter `tenant` of its
  own: `handleToolsCall` takes the headers from the arguments of the caller and the body
  from the stripped ones (`handler.go:385`, `handler.go:394`), so that header has the selector;
- `ListedCallsConform` is about one definition of a tool at a time: what the selector adds to
  it in the list is what the call loses again. When tenants, or two fetches, differ in their
  definitions, the list shows one of them and the call may go to a backend with another
  (`handler.go:262` says so of tenants); nothing is claimed then. It excepts definitions that
  require a parameter `tenant` of their own: the selector replaces such a parameter in the list
  and is stripped from the call;
- `HeadersMatchBody`, likewise, compares the headers with the definition that was cached; the
  backend may have another by then;
- `ChallengeLeadsToResource` compares the two URLs with each other. That the external
  URL really leads to the proxy's routes is up to the deployment. It excepts two
  kinds of odd files (`UsualURLs`). With an `external_url` that has an empty segment, such as
  `https://x//mcp`, and the path `/mcp`, `metadataURL` takes off the second slash that
  `resourceURL` keeps; a `server.path` without a leading slash lets it take off a slash
  that is not part of the path. Nothing in the repository says that such files work;
- `StatelessDeployment` asks for the protocol-version header on requests that were
  parsed: DELETE, GET, other methods and unparsable bodies are answered before it is set
  (`handler.go:82`), although README line 208 says every response; and a connection that
  `MetaPanics` drops has no response;
- `HandshakeOrRevision` asks for Mcp-Name exactly if the call names a tool. README lines 184 to
  187 say that every call to a stateless backend carries it; they do not consider calls that name
  none. It also accepts that an answer to `initialize` without the member
  `error` counts as a success, and that `"error": null` counts as an error
  (`client.go:140`);
- `CountsOwnErrors` is about the errors that the proxy itself makes. A JSON-RPC error or a result
  with `isError` that a backend sends is relayed and counted as a success (`handler.go:320`,
  `handler.go:395`), and so is the call that panics;
- `RequestsSettle` lets the end of the process, and the panic, stand for an answer.

`StatelessKeepsNoSession` has two parts. The run *tenants* has a stateful backend, so only the
part about single stateless backends says anything there; the part about a proxy with stateless
backends only is shown by its theorem, and by `StatelessDeployment` in the run *service*.

### Bounds

- Two handlers at once: the races of this code are between two holders of one
  session, or between one and a DELETE. Handlers serve one request after another
  without limit.
- One or two client sessions and two backend sessions (`SIDs`, `BSIDs`): two backend
  sessions are what an overwrite, or two tenants on one session, need. An id is never
  reused, so when they are used up no further session opens; the store itself has
  no such limit, and the proofs have none.
- Two or three tenants: sharing a backend with different credentials, one
  on a stateless backend, two sharing a view.
- `TTL = 1` tick, `CatalogTTL = 1` tick: fresh, and expired. `IdleCap` stops the count
  one tick after the TTL. A tick of the store is at least the time between
  `Sessions.Get` and `SetBackendSID`, two exchanges of at most 60 s each, against a TTL of
  30 minutes (`Tick`).
- One tool, and at most three versions of a list: there, gone, back again.
- *service*: twelve files. Four are served: stateful with two tenants of one
  backend, mixed, stateless with two tenants, and one that trusts every token. Eight are
  refused, each for one reason at its own stage (environment, validation, verifier,
  registry, routes). Tokens and arguments differ from a good one in one respect each,
  so that each check decides alone about one of them. The backends' answers are
  the ways in which a JSON body or an event stream can be whole, empty, cut, or an error. One
  handler: in this module handlers share only what does not change after startup.

Symmetry (handlers, client sessions, backend sessions) is used in the runs of
safety properties only.

### Fairness

`SessionRouting!Fairness` is strong fairness of each handler's next step, once a request
has been accepted: every exchange ends with the client's 60 s timeout, and Go's
mutex hands itself to a waiter after 1 ms, so a waiter does not starve although
the lock is taken and released in between. Arrivals, teardowns, ticks, drops and restarts
are never forced. `Catalogs!Fairness` says the same of handlers and the warm-up,
and that a context expires. `Service!Fairness` is weak fairness of `run`, of
the goroutine that drains, and of each waiting handler: asking the issuer ends after
15 s, the first warm-up round and the drain after 10 s, the flush of the telemetry after
5 s, an exchange after 60 s. A listener that fails, the signal and arrivals are never
forced. No mutex is taken in this module, so weak fairness is enough.

## Proofs

A theorem holds for all values of the constants that satisfy the named assumptions of the
modules; TLC evaluates each assumption in the runs. In each of the three state machines
the properties rest on one inductive invariant, `IInv`. The runs *clients*, *catalogs* and
*service* check it on their instances, and the proof shows that `Init` implies it and
every step keeps it.

### SessionRoutingProofs

Assumptions (`Registry`, `TenantSelection`, `SessionStore`, `SessionRouting`): the special
values are distinct, `TTL` is an integer, the configuration functions have their types.

| Theorem | Statement |
|---|---|
| `InductiveInvariant` | `Spec => []IInv` |
| `TypeCorrect` | `Spec => []TypeOK` |
| `Isolation` | `Spec => []IsolatedSessions` |
| `Authorization` | `Spec => []AuthorizedCredential` |
| `HandshakeOrder` | `Spec => []HandshakeBeforeCall` |
| `DeleteComplete` | `Spec => []DeleteCoversMap` |
| `TeardownOwned` | `Spec => []TeardownOwnSession` |
| `ReaperSparesSessionsInUse` | `Spec => []NotReapedInUse` |
| `StatelessStaysStateless` | `Spec => []StatelessKeepsNoSession` |
| `ImplementsLifecycle` | `Spec => SessionsLiveOnce`, the refinement of `SessionLifecycle` |

None of the properties is inductive by itself. Isolation, for instance, needs that an
id not yet opened is referred to by no map and no handler (`FreeIsUnreferenced`), which
needs the owner recorded in `opener` to be the one every reference has
(`Ownership`), which needs to know at which points of the code a handler holds an
id and a tenant (`Control`). `Handshake` adds that an id in the map has left the
state "open"; `Deletion` that a deleted session is not live, so that no
`SetBackendSID` can change its map after the loop; `Freshness` that a session in use has
been idle for at most the one tick its handler has seen; `Unborn` that an id not
minted has an empty map, which the refinement needs for `Birth`. The proof has
one lemma per part (`ControlStep`, `OwnershipStep`, ...), each with one step per
action; the refinement has one lemma per abstract step.

### TenantSelectionProofs

`selectTenant` for every registry, set of groups and state of the catalogs. The hypothesis
that the registry is finite is needed only where the code counts tenants.

| Theorem | Statement |
|---|---|
| `OneAuthorizedTenant` | at most one tenant is selected; it is authorized, may have the tool, and is the named one if one is named |
| `NamingTheOnlyTenant` | a call without `tenant` goes where it would go by naming that tenant |
| `OthersDoNotMatter` | two states of the catalogs that agree on the caller's tenants route its call alike |

### CatalogsProofs

Assumptions (`Registry`, `TenantSelection`, `Catalogs`): as above, and every view has at
least one version of its list. Any number of tenants, views, clients and versions, and any TTL of at least one tick.

| Theorem | Statement |
|---|---|
| `InductiveInvariant` | `Spec => []IInv` |
| `NoRollback` | `Spec => CatalogNeverGoesBack`, an action property |
| `Withdrawal` | `Spec => []RefusedOnlyIfWithdrawn` |
| `HeadersKept` | `Spec => []HeadersUnlessWithdrawn` |
| `ColdCache` | `Spec => []ColdCacheNeverRefuses` |
| `StaleServed` | `Spec => []ListedStaysListed` |
| `WarmUpComplete` | `Spec => []WarmDoneMeansFetched` |
| `SelectorHonoured` | `Spec => []CompleteSelectorWorks` |
| `CopiesRefined` | `Spec => ListsMoveForward`, the refinement of `CatalogCopies` |

The argument turns on the lock of a catalog. A fetch has it from its beginning to its end
(`LockHeld`), so while an answer is on its way nobody else stores one, and the answer is
not older than what is cached (`AnswerCurrent`). That gives `NoRollback`. Hence what a client
has been told, and what a request has read, stays below the cached version, and a
request reads nothing older than its client was told (`Copies`); with what a call has asked
(`Calls`), `Withdrawal` and `SelectorHonoured` follow; `HeadersKept` needs only that the cached version
has not fallen behind what the client was told. `Lists` and `Told` trace why a tenant can be missing from a
list: only because nothing but nil lists were ever had for it. `Warmed` is the progress of
a round that has met no error. `CacheWriters` and `VersionsGrow` say once what a step can
do to the cache and to what a client was told, and the lemmas of the parts cite them. The
refinement has one lemma for each abstract step that needs the invariant: the end of a
fetch is a `Refresh` by `AnswerCurrent`, the answer to tools/list a `Show` by `Copies`
and `Lists`; a change of a backend's list is a `Publish`, and everything else stutters.

### ConfigProofs

`ServedAsWritten` is about the operators alone: for any file that `Load` accepts, the
registry that `registry.New` builds has exactly the tenants of the file, each with its groups,
its expanded credential and headers, and its own backend with the defaults, a
known revision and no unset reference. The point is the unique ids: `registry.New` looks
tenants up by id, so a registry with two tenants of one id would serve one of them under
the other's groups. `UniquePlace` shows that an id has one place in a file that
`Validate` accepts, and `BuiltTenant` that the registry has what stands there. The only
hypothesis on the file is `FileTyped`, that it has the fields of the Go structs.

### WireProofs and EndpointProofs

`HeaderRoundTrip`: for every text, `DecodeHeader(EncodeText(s)) = s`, where the decoder is
what SEP-2243 asks of a backend behind an HTTP server that trims blanks. The text
need only have an encoding for its characters if it is encoded. There are three cases, as in
`requiresParamHeaderBase64`: nothing to trim and no marks, so the text is left alone; marks
in the text itself, or a character that HTTP would not carry, so it is wrapped; and a wrapped
text starts and ends with its marks, so nothing is trimmed and what is between
them decodes character by character, because `Encoded` is injective (`EncodedAssumption`).

`FirstMessageRelayed`: for every framed answer, what `post` returns is exactly the data lines of
the first message. `WhereItEnds` finds the least line at which `decodeSSE` may stop;
before it there is no blank line between two data lines, so they have one number, and after
it every number is greater.

`MetadataBesideResource`: for every absolute `server.path` and every `external_url` without
an empty segment, `metadataURL` without its well-known suffix, followed by the path, is
`resourceURL`. The two functions trim a slash, then the path, then a slash again, and only one of
them keeps the path. `NoSlashLeft` shows that the second slash is never there to be
trimmed, also for a path that ends in a slash itself.

### ServiceProofs

Assumptions (`Config`, `Wire`, `Service`): the files have their fields, their paths are text and their secrets
expand to text (`FilesAssumption`); JSON strings are text, integers are integers, and base64
is defined for what has to be encoded (`ValuesAssumption`); answers are framed
(`RepliesAssumption`); every tenant of a file has a place in the order of ids (`FilesAssumption`);
arguments that are no JSON object have no fields, and null params no name and no arguments
(`ArgumentsAssumption`); a reply
either has a session id or has none, and `None` is no exit code (`ServiceAssumption`). Any
number of files, requests, tokens, tools, handlers and answers.

| Theorem | Statement |
|---|---|
| `ServiceInvariant` | `Spec => []IInv` |
| `ServiceTyped` | `Spec => []TypeOK` |
| `TruthfulExit` | `Spec => []ExitTellsTheTruth` |
| `FileServed` | `Spec => []FileServedAsWritten` |
| `VerifiedCalls` | `Spec => []OnlyVerifiedCalls` |
| `SecretsKept` | `Spec => []OwnSecretsOnly` |
| `ForwardedConform` | `Spec => []ListedCallsConform` |
| `Handshaken` | `Spec => []HandshakeOrRevision` |
| `StatelessServed` | `Spec => []StatelessDeployment` |
| `OwnErrorsCounted` | `Spec => []CountsOwnErrors` |
| `HeadersAgree` | `Spec => []HeadersMatchBody` |
| `OneMessageRelayed` | `Spec => []RelaysOneMessage` |
| `ChallengesLead` | `Spec => []ChallengeLeadsToResource` |

`IInv` is `Core` and `Responses`. `Core` has two halves. `Lifetime` says what `run` has built by each point of its course and
why it can be there: a closed server and exit code 0 mean that the signal has come, and the
telemetry is up only on the way to the deferred flush. `Exchanges` says for each handler that the
call it is going to send was built from an accepted request for a tenant that
`selectTenant` may have picked (`Planned`), and which messages it has sent at each of
its waits (`Exchange`). The registry never changes once built, so
`Planned` outlives every step of `run`. From there the properties of messages follow without
further induction: `TokenChecked` takes an accepted token apart, `StrippedConforms` plays
`injectTenantArg` against `stripTenantArg`, `AuthOwn` follows a header value from
the file through `applyAuth`, with `ServedAsWritten` linking registry and file. For
`HeadersAgree`, `PrefixedIsParam` shows that a header with the prefix of parameters can only be
one of them, whatever is configured, `ParamOfHeader` that it has the value of a parameter that
asks for it, and `HeaderRoundTrip` that this value is what the backend reads.

`StatelessDeployment` and `CountsOwnErrors` are part of `Core` because the request and response
of a handler stay until `Close` while nothing else remembers them. `Responses` says
for the same reason where the URL of a challenge and a relayed payload come from. It is kept
apart from `Core`, on which its proof rests: `ResponsesStep` shows it for each way in which a
handler can come to an end. With `Responses`, `OneMessageRelayed` is `FirstMessageRelayed`
for the answer at hand, and `ChallengesLead` is `MetadataBesideResource` for the loaded
file, in which `LoadedURLs` finds the default path.

### Only model-checked

Liveness: `EveryRequestAnswered`, `RequestsAnswered`, `ServingStarts`, `SignalStops`,
`StartupEnds` and `RequestsSettle`. Fairness and ENABLED are out of the prover's reach. Every
other property of the passing runs is a theorem.

## Not modelled

- The syntax of YAML, JSON and JWTs, and all wording: what parses and what does not is an
  input. Signatures are the identity of their key; the refresh of a JWKS is
  `keyfunc`'s, and so is a key set that could not be fetched yet (its tokens are refused).
- Spans, histograms and exporters. Which attributes `RecordToolCall` is given is modelled
  (`out`), what OpenTelemetry does with them is not.
- The spelling of header names: `http.Header` canonicalizes them, so a name in the model
  stands for its canonical form. A header that the file configures under a name `Mcp-Param-X`
  would be replaced by the projected one of that name (`mergeHeaders`); in the model
  configured and projected names are never the same.
- The spelling of JSON members: `encoding/json` also accepts `Name` for `name`; in the model
  a member has its name or is not there.
- URLs are made of pieces, so a host that is also the text of the path does not show: with
  `external_url` `https://mcp` and the path `/mcp`, `strings.TrimSuffix` takes off the host and half of the
  `//`, which the model cannot. A list of a backend has each tool once.
- A tool of a backend's own that is called `list_instances`: it would be listed beside the proxy's
  and never called.
- The container and compose files under `deploy`.
- Backend sessions that catalog fetches open are not counted, and their handshake is part of
  one fetch step of `Catalogs`.
- The stream that a GET asks for: `ServeHTTP` answers with its headers and returns at
  once, so there is no stream to model.
- In `SessionRouting` a shutdown is a `Restart` at any moment; its course is in `Service`.

## Plan

All parts of the program are modelled, and the safety properties that the runs check are
proved. Worth adding when the code changes: a property for a backend session that the backend
has dropped (`handler.go:551`), once the proxy recovers from it; a bound on the number of sessions
(`session.go:51`) and on those that catalog fetches leave behind (`catalog.go:210`), once it has one.
