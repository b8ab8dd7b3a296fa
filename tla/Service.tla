------------------------------ MODULE Service ------------------------------
(***************************************************************************)
(* The process from its start to its end (cmd/mt-mcp-proxy), and the       *)
(* requests it serves on the way.                                          *)
(*                                                                         *)
(* main is where the main goroutine is in run; the goroutine that waits    *)
(* for the signal is drain.  A handler takes a request and answers it in   *)
(* the same step, unless it has to wait for a backend:                     *)
(*    open     for the answer to initialize                                *)
(*    notify   for the answer to notifications/initialized                 *)
(*    call     for the answer to tools/call                                *)
(* The stores that handlers share are modelled elsewhere: here a lookup of *)
(* a client session (SessionRouting) or of a tool in a cached catalog      *)
(* (Catalogs) may have any outcome.                                        *)
(***************************************************************************)
EXTENDS Endpoint

CONSTANTS RawConfigs,  \* the files the process may be started with
          Tools,       \* for the name of a tool the schemas that backends give for it,
                       \* to different tenants and at different times
          Rank,        \* the place of a tenant's id in the order of strings
          Requests,    \* the requests clients send
          Replies,     \* the answers of backends: ok, stream, lines, rpc, sid
          Handlers,    \* handler goroutines
          None         \* nothing

ASSUME ServiceAssumption ==
    /\ RawConfigs # {} /\ Handlers # {}
    /\ \A rep \in Replies : rep.sid \in BOOLEAN
    /\ None \notin Nat

\* Expanded, a secret is text.
ASSUME FilesAssumption ==
    \A c \in RawConfigs :
        /\ FileTyped(c)
        /\ \A i \in DOMAIN c.backends : \A s \in BackendSecrets(c.backends[i]) :
              ExpandRefs(s) \in Seq(STRING)
        /\ c.path \in Seq(STRING) /\ c.external \in Seq(STRING)
        /\ \A p \in Places(c) : TenantAt(c, p).id \in DOMAIN Rank

\* Only objects have fields; null params have neither a name nor arguments.
ASSUME ArgumentsAssumption ==
    \A q \in Requests : /\ IsObject(q.args) \/ q.args.fields = <<>>
                        /\ q.params = "null" => q.tool = "" /\ q.args = NoArgs

\* Base64 is there for every character that a header cannot carry as it is.
ASSUME ValuesAssumption ==
    \A q \in Requests : \A p \in DOMAIN q.args.fields :
        LET v == q.args.fields[p]
        IN  /\ v[1] = "string" => v[2] \in Seq(STRING)
            /\ v[1] = "int" => v[2] \in Int
            /\ Encodable(v) /\ RequiresBase64(TextOf(v)) =>
                  \A i \in DOMAIN TextOf(v) : TextOf(v)[i] \in DOMAIN Encoded

ASSUME RepliesAssumption == \A rep \in Replies : Framed(rep)

VARIABLES
    main, drain,
    raw,       \* the file
    cfg, reg,  \* what Load and registry.New made of it
    sig,       \* SIGINT or SIGTERM has arrived: the context is cancelled
    srv,       \* the server: new, up or closed
    metrics,   \* the metrics listener: off, up (started) or down
    obs,       \* the telemetry providers: none, up or down (flushed)
    code,      \* the exit code
    pc,
    req,       \* the request of a handler
    plan,      \* the call it is going to send
    sent,      \* the messages it has sent to the backend, until it responds
    reply,     \* the last answer of the backend
    resp,      \* its response
    out        \* the ToolCallAttrs it records

lifeVars == <<main, drain, raw, cfg, reg, sig, srv, metrics, obs, code>>
reqVars  == <<pc, req, plan, sent, reply, resp, out>>
vars     == <<lifeVars, reqVars>>

Starting == {"load", "auth", "registry", "obs", "warm", "mux", "listen"}

Init ==
    /\ main = "load" /\ drain = "none"
    /\ raw \in RawConfigs
    /\ cfg = None /\ reg = None
    /\ sig = FALSE
    /\ srv = "new" /\ metrics = "off" /\ obs = "none"
    /\ code = None
    /\ pc = [h \in Handlers |-> "idle"]
    /\ req = [h \in Handlers |-> None]
    /\ plan = [h \in Handlers |-> None]
    /\ sent = [h \in Handlers |-> <<>>]
    /\ reply = [h \in Handlers |-> None]
    /\ resp = [h \in Handlers |-> None]
    /\ out = [h \in Handlers |-> None]
-----------------------------------------------------------------------------
(* run: startup *)

\* run returns an error before there is anything to clean up.
Fail(from) ==
    /\ main = from
    /\ main' = "exited" /\ code' = 1
    /\ UNCHANGED <<drain, raw, cfg, reg, sig, srv, metrics, obs, reqVars>>

LoadConfig ==
    /\ main = "load" /\ Loads(raw)
    /\ cfg' = Loaded(raw)
    /\ main' = "auth"
    /\ UNCHANGED <<drain, raw, reg, sig, srv, metrics, obs, code, reqVars>>

\* The file is not there or is no YAML, or Load refuses what is in it.
LoadFails == Fail("load")

\* auth.New.  A request to the issuer fails once the context is cancelled.
BuildVerifier ==
    /\ main = "auth"
    /\ Discovers(cfg.auth) => ~sig
    /\ main' = "registry"
    /\ UNCHANGED <<drain, raw, cfg, reg, sig, srv, metrics, obs, code, reqVars>>

VerifierFails == main = "auth" /\ ~BuiltLocally(cfg.auth) /\ Fail("auth")

BuildRegistry ==
    /\ main = "registry" /\ Builds(cfg)
    /\ reg' = Built(cfg)
    /\ main' = "obs"
    /\ UNCHANGED <<drain, raw, cfg, sig, srv, metrics, obs, code, reqVars>>

RegistryFails == main = "registry" /\ ~Builds(cfg) /\ Fail("registry")

\* observability.Setup; from here on run has a deferred Shutdown.
SetupObs ==
    /\ main = "obs"
    /\ obs' = "up"
    /\ main' = "warm"
    /\ UNCHANGED <<drain, raw, cfg, reg, sig, srv, metrics, code, reqVars>>

SetupFails == Fail("obs")

\* Mutant: the retries run before the server listens, until the context is cancelled.
WarmEndsInline ==
    /\ main = "warm" /\ sig
    /\ main' = "mux"
    /\ UNCHANGED <<drain, raw, cfg, reg, sig, srv, metrics, obs, code, reqVars>>

\* warmCatalog returns, at the latest when its first round times out.
WarmEnds ==
    /\ main = "warm"
    /\ main' = "mux"
    /\ UNCHANGED <<drain, raw, cfg, reg, sig, srv, metrics, obs, code, reqVars>>

\* http.ServeMux panics: the pattern has no slash, or is taken.
Conflicts(path, taken) == path \in taken \/ \A i \in DOMAIN path : path[i] # "/"

Healthz == <<"/", "healthz">>

RoutesConflict ==
    \/ Conflicts(cfg.path, {WellKnown, Healthz})
    \/ cfg.metrics # "" /\ Conflicts(cfg.metricsPath, {Healthz})

\* run returns (or panics) with c; its deferred functions are still to run.
Return(c) == main' = "deferred" /\ code' = c

RoutesPanic ==
    /\ main = "mux" /\ RoutesConflict
    /\ Return(2)
    /\ UNCHANGED <<drain, raw, cfg, reg, sig, srv, metrics, obs, reqVars>>

\* The routes, the metrics listener (that it fails is only logged), and the
\* goroutine that waits for the signal.
RegisterRoutes ==
    /\ main = "mux" /\ ~RoutesConflict
    /\ metrics' = IF cfg.metrics = "" THEN "off" ELSE "up"
    /\ drain' = "waiting"
    /\ main' = "listen"
    /\ UNCHANGED <<raw, cfg, reg, sig, srv, obs, code, reqVars>>
-----------------------------------------------------------------------------
(* run: serving and shutdown *)

Listen ==
    /\ main = "listen" /\ srv = "new"
    /\ srv' = "up"
    /\ main' = "serve"
    /\ UNCHANGED <<drain, raw, cfg, reg, sig, metrics, obs, code, reqVars>>

\* Mutant: the error of ListenAndServe is not returned.
ListenFailsSilently ==
    /\ main \in {"listen", "serve"} /\ srv # "closed"
    /\ srv' = "closed"
    /\ Return(0)
    /\ UNCHANGED <<drain, raw, cfg, reg, sig, metrics, obs, reqVars>>

\* The address is taken, or accepting connections fails for good.
ListenFails ==
    /\ main \in {"listen", "serve"} /\ srv # "closed"
    /\ srv' = "closed"
    /\ Return(1)
    /\ UNCHANGED <<drain, raw, cfg, reg, sig, metrics, obs, reqVars>>

\* ListenAndServe returns ErrServerClosed as soon as Shutdown was called, before
\* it listens too; nobody waits for the drain.
ServeReturns ==
    /\ main \in {"listen", "serve"} /\ srv = "closed"
    /\ Return(0)
    /\ UNCHANGED <<drain, raw, cfg, reg, sig, srv, metrics, obs, reqVars>>

\* The deferred obs.Shutdown, with 5 s, and the end of the process.
ObsShutdown ==
    /\ main = "deferred"
    /\ obs' = "down"
    /\ main' = "exited"
    /\ UNCHANGED <<drain, raw, cfg, reg, sig, srv, metrics, code, reqVars>>

Signal ==
    /\ main # "exited" /\ ~sig
    /\ sig' = TRUE
    /\ UNCHANGED <<main, drain, raw, cfg, reg, srv, metrics, obs, code, reqVars>>

\* Mutant: only the metrics listener is shut down.
BeginShutdownMetricsOnly ==
    /\ main # "exited" /\ drain = "waiting" /\ sig
    /\ drain' = "draining"
    /\ UNCHANGED <<main, raw, cfg, reg, sig, srv, metrics, obs, code, reqVars>>

\* srv.Shutdown closes the listener and starts to wait for the handlers.
BeginShutdown ==
    /\ main # "exited" /\ drain = "waiting" /\ sig
    /\ srv' = "closed"
    /\ drain' = "draining"
    /\ UNCHANGED <<main, raw, cfg, reg, sig, metrics, obs, code, reqVars>>

\* All handlers are done, or the 10 s are over; then obsSrv.Shutdown.
DrainEnds ==
    /\ main # "exited" /\ drain = "draining"
    /\ drain' = "done"
    /\ metrics' = IF metrics = "up" THEN "down" ELSE metrics
    /\ UNCHANGED <<main, raw, cfg, reg, sig, srv, obs, code, reqVars>>

Startup ==
    \/ LoadConfig \/ LoadFails \/ BuildVerifier \/ VerifierFails
    \/ BuildRegistry \/ RegistryFails \/ SetupObs \/ SetupFails
    \/ WarmEnds \/ RoutesPanic \/ RegisterRoutes
Main     == Startup \/ Listen \/ ServeReturns \/ ObsShutdown
Draining == BeginShutdown \/ DrainEnds

\* Nothing happens after the end of the process.
Stopped == main = "exited" /\ UNCHANGED vars
-----------------------------------------------------------------------------
(* Handlers *)

\* The attributes RecordToolCall gets: the tenant, and the type of the error.
Attrs(tenant, error) == [tenant |-> tenant, error |-> error]

\* There is a server, and a goroutine for the request.
Accepting(h) == main # "exited" /\ srv = "up" /\ pc[h] = "idle"

Take(h, q) == req' = [req EXCEPT ![h] = q]

Respond(h, r, a) ==
    /\ pc' = [pc EXCEPT ![h] = "done"]
    /\ plan' = [plan EXCEPT ![h] = None]
    /\ sent' = [sent EXCEPT ![h] = <<>>]
    /\ resp' = [resp EXCEPT ![h] = r]
    /\ out' = [out EXCEPT ![h] = a]

\* A handler answers at once, without a word to a backend.
AnswerAtOnce(h, q, r, a) ==
    /\ Take(h, q)
    /\ Respond(h, r, a)
    /\ UNCHANGED <<lifeVars, reply>>

OnEndpoint(q) == q.route = "mcp"

AnswerLocally(h) ==
    \E q \in Requests :
        /\ ~(OnEndpoint(q) /\ (Listing(q) \/ Calling(q)))
        /\ AnswerAtOnce(h, q, LocalAnswer(cfg, reg, q), None)

\* The definitions of a tool, none for a name that no backend knows.
Definitions(n) == IF n \in DOMAIN Tools THEN Tools[n] ELSE {}

\* The lists a backend may give for a tenant: some tools, each as it describes them.
ToolLists ==
    {f \in UNION {[names -> UNION {Tools[n] : n \in names}] : names \in SUBSET DOMAIN Tools} :
        \A n \in DOMAIN f : f[n] \in Tools[n]}

\* The union of the lists of the tenants whose catalogs could be had.  The first
\* tenant's definition of a tool wins; the selector offers all that have the tool.
ListAnswer(authorized, lists) ==
    LET names     == UNION {DOMAIN lists[t] : t \in DOMAIN lists}
        having(n) == {t \in DOMAIN lists : n \in DOMAIN lists[t]}
        first(n)  == CHOOSE t \in having(n) : \A u \in having(n) : Rank[t] <= Rank[u]
        listed    == [n \in names |-> ListedSchema(lists[first(n)][n], authorized, having(n))]
    IN  IF DOMAIN lists = {} THEN RPCError(InternalError)
        ELSE [Response(200, "list") EXCEPT !.listed = listed]

HandleToolsList(h) ==
    \E q \in Requests :
        LET authorized == Authorized(cfg, reg, q)
            tenants    == IF authorized = {} THEN DOMAIN reg ELSE authorized
        IN  /\ OnEndpoint(q) /\ Listing(q)
            /\ \E views \in SUBSET tenants : \E lists \in [views -> ToolLists] :
                  AnswerAtOnce(h, q, Stamped(reg, ListAnswer(authorized, lists)), None)

CallRefused(h) ==
    \E q \in Requests :
        LET err == VerifierGroups(cfg.auth, q.auth).err
        IN  /\ OnEndpoint(q) /\ Calling(q) /\ err # ""
            /\ AnswerAtOnce(h, q, Stamped(reg, Challenge(cfg, q, err)), Attrs("", err))

Accepted(q) == OnEndpoint(q) /\ Calling(q) /\ VerifierGroups(cfg.auth, q.auth).err = ""

CallInvalid(h) ==
    \E q \in Requests :
        /\ Accepted(q) /\ q.params = "invalid"
        /\ AnswerAtOnce(h, q, Stamped(reg, RPCError(InvalidParams)), Attrs("", "invalid_params"))

ListInstances(h) ==
    \E q \in Requests :
        /\ Accepted(q) /\ q.params # "invalid" /\ q.tool = "list_instances"
        /\ AnswerAtOnce(h, q, Stamped(reg, Response(200, "result")), Attrs("", ""))

\* Every other name is a tool of some tenant's, for all that is known: an unknown or
\* an empty one passes as long as a catalog is not cached.
ToTenant(q) == Accepted(q) /\ q.params # "invalid" /\ q.tool # "list_instances"

\* mayHave: the tenants whose cached catalog has the tool, or is not known.
SelectionFails(h) ==
    \E q \in Requests, mayHave \in SUBSET DOMAIN reg :
        /\ ToTenant(q) /\ Selected(cfg, reg, q, mayHave) = {}
        /\ AnswerAtOnce(h, q, Stamped(reg, Response(200, "toolerror")),
                        Attrs("", "tenant_selection"))

\* The rest of handleToolsCall, for q and the tenant that was selected.
Routed(q, t) == ToTenant(q) /\ \E mayHave \in SUBSET DOMAIN reg :
                                   t \in Selected(cfg, reg, q, mayHave)

ArgumentsInvalid(h) ==
    \E q \in Requests, t \in DOMAIN reg :
        /\ Routed(q, t) /\ ~Strippable(q.args)
        /\ AnswerAtOnce(h, q, Stamped(reg, RPCError(InvalidParams)), Attrs(t, "invalid_params"))

\* routeToBackend finds no client session.
SessionMissing(h) ==
    \E q \in Requests, t \in DOMAIN reg :
        /\ Routed(q, t) /\ Strippable(q.args) /\ reg[t].backend.version = StatefulVersion
        /\ AnswerAtOnce(h, q, Stamped(reg, RPCError(SessionNotFound)), Attrs(t, "backend_error"))

\* injectMeta reads params that are null into a map, and assigns to the nil map it then
\* has.  The panic takes the connection down; the deferred RecordToolCall has no error.
MetaPanics(h) ==
    \E q \in Requests, t \in DOMAIN reg :
        /\ Routed(q, t) /\ q.params = "null" /\ reg[t].backend.version = StatelessVersion
        /\ AnswerAtOnce(h, q, Response(0, "dropped"), Attrs(t, ""))

\* The headers of paramHeadersForCall, for the definition that is in the cache: none if
\* the tool is not in it.
ForwardHeaders(q) ==
    {<<>>} \cup UNION {ParamHeaders(sch, q.args) : sch \in Definitions(q.tool)}

Send(h, m) == sent' = [sent EXCEPT ![h] = Append(@, m)]

\* A stateless backend, or one with a session in the map of the client session;
\* the id may be empty.
Forward(h) ==
    \E q \in Requests, t \in DOMAIN reg, known \in BOOLEAN :
        /\ Routed(q, t) /\ Strippable(q.args)
        /\ reg[t].backend.version = StatelessVersion => ~known /\ q.params # "null"
        /\ Take(h, q)
        /\ \E extra \in ForwardHeaders(q) :
              LET m == CallMessage(reg, t, q, known, extra)
              IN  plan' = [plan EXCEPT ![h] = m] /\ Send(h, m)
        /\ pc' = [pc EXCEPT ![h] = "call"]
        /\ UNCHANGED <<lifeVars, reply, resp, out>>

\* The first call of a client session for a tenant of a stateful backend.
OpenSession(h) ==
    \E q \in Requests, t \in DOMAIN reg :
        /\ Routed(q, t) /\ Strippable(q.args) /\ reg[t].backend.version = StatefulVersion
        /\ Take(h, q)
        /\ \E extra \in ForwardHeaders(q) :
              plan' = [plan EXCEPT ![h] = CallMessage(reg, t, q, FALSE, extra)]
        /\ Send(h, Handshake(reg, t, "initialize"))
        /\ pc' = [pc EXCEPT ![h] = "open"]
        /\ UNCHANGED <<lifeVars, reply, resp, out>>

Receive(h, rep) == main # "exited" /\ reply' = [reply EXCEPT ![h] = rep]

\* Mutant: the exchange is tried again, for ever.
BackendFailsRetries(h, errcode) == UNCHANGED <<lifeVars, pc, req, plan, sent, resp, out>>

\* Mutant: the failure is not counted.
BackendFailsUncounted(h, errcode) ==
    /\ Respond(h, Stamped(reg, RPCError(errcode)), Attrs(plan[h].tenant, ""))
    /\ UNCHANGED <<lifeVars, req>>

\* routeToBackend reports false.
BackendFails(h, errcode) ==
    /\ Respond(h, Stamped(reg, RPCError(errcode)), Attrs(plan[h].tenant, "backend_error"))
    /\ UNCHANGED <<lifeVars, req>>

OpenFails(h) ==
    \E rep \in Replies :
        /\ pc[h] = "open" /\ Receive(h, rep) /\ ~Opened(rep)
        /\ BackendFails(h, SessionNotOpened)

\* initialize succeeds; without a session id there is nothing to notify.
OpenAnswered(h) ==
    \E rep \in Replies :
        /\ pc[h] = "open" /\ Receive(h, rep) /\ Opened(rep)
        /\ LET m == [plan[h] EXCEPT !.session = rep.sid]
           IN  /\ plan' = [plan EXCEPT ![h] = m]
               /\ Send(h, IF rep.sid THEN Handshake(reg, m.tenant, "initialized") ELSE m)
               /\ pc' = [pc EXCEPT ![h] = IF rep.sid THEN "notify" ELSE "call"]
        /\ UNCHANGED <<lifeVars, req, resp, out>>

\* Whatever comes of the notification, the call follows.
Notified(h) ==
    /\ pc[h] = "notify" /\ main # "exited"
    /\ Send(h, plan[h])
    /\ pc' = [pc EXCEPT ![h] = "call"]
    /\ UNCHANGED <<lifeVars, req, plan, reply, resp, out>>

CallFails(h) ==
    \E rep \in Replies :
        /\ pc[h] = "call" /\ Receive(h, rep) /\ Posted(rep) = {}
        /\ BackendFails(h, BackendCallFailed)

CallAnswered(h) ==
    \E rep \in Replies :
        /\ pc[h] = "call" /\ Receive(h, rep)
        /\ \E payload \in Posted(rep) :
              Respond(h, Stamped(reg, [Response(200, "relay") EXCEPT !.payload = payload]),
                      Attrs(plan[h].tenant, ""))
        /\ UNCHANGED <<lifeVars, req>>

\* The handler returns.
Close(h) ==
    /\ main # "exited" /\ pc[h] = "done"
    /\ pc' = [pc EXCEPT ![h] = "idle"]
    /\ req' = [req EXCEPT ![h] = None]
    /\ reply' = [reply EXCEPT ![h] = None]
    /\ resp' = [resp EXCEPT ![h] = None]
    /\ out' = [out EXCEPT ![h] = None]
    /\ UNCHANGED <<lifeVars, plan, sent>>

HandleToolsCall(h) ==
    \/ CallRefused(h) \/ CallInvalid(h) \/ ListInstances(h) \/ SelectionFails(h)
    \/ ArgumentsInvalid(h) \/ SessionMissing(h) \/ MetaPanics(h) \/ Forward(h) \/ OpenSession(h)

Arrive(h)  == Accepting(h) /\ (AnswerLocally(h) \/ HandleToolsList(h) \/ HandleToolsCall(h))
Proceed(h) == OpenFails(h) \/ OpenAnswered(h) \/ Notified(h) \/ CallFails(h) \/ CallAnswered(h)

Next ==
    \/ Main \/ ListenFails \/ Draining \/ Signal \/ Stopped
    \/ \E h \in Handlers : Arrive(h) \/ Proceed(h) \/ Close(h)

\* Goroutines are scheduled, and every exchange has a timeout: 15 s for the
\* issuer, 10 s for the warm-up and the drain, 5 s for the telemetry, 60 s for a
\* backend.  Signals, requests and failures of the listener may never come.
Fairness ==
    /\ WF_vars(Main) /\ WF_vars(Draining)
    /\ \A h \in Handlers : WF_vars(Proceed(h)) /\ WF_vars(Close(h))

Spec == Init /\ [][Next]_vars /\ Fairness
-----------------------------------------------------------------------------
(* What the properties speak of *)

Done(h) == pc[h] = "done"

\* The messages to backends that are out, by whoever sent them.
Sent(h) == {sent[h][i] : i \in DOMAIN sent[h]}
Calls(h) == {m \in Sent(h) : m.kind = "call"}

Texts(s) == {s[i] : i \in DOMAIN s}

SessionErrors == {SessionNotFound, SessionNotOpened}

\* The error of its own that the proxy tells the caller of.  None in what it relays,
\* whatever the backend says there, and none in a connection it drops.
ErrorType(status, body, errorCode) ==
    CASE body = "toolerror" -> "tenant_selection"
      [] body = "error" /\ status = 401 -> "unauthorized"
      [] body = "error" /\ status = 403 -> "insufficient_scope"
      [] body = "error" /\ status = 200 /\ errorCode = InvalidParams -> "invalid_params"
      [] body = "error" /\ status = 200 /\ errorCode # InvalidParams -> "backend_error"
      [] OTHER -> ""

OwnError(r) == ErrorType(r.status, r.body, r.code)

\* Where the file has the tenant.
PlaceOf(t) == CHOOSE p \in Places(raw) : TenantAt(raw, p).id = t

\* The token is signed with the configured key, has not expired and must expire, comes
\* from the issuer, is for one of the audiences, and has one of the scopes.
Trusted(a, k) ==
    LET c == k.claims
        scopes == IF c["scope"].kind = "absent" THEN c["scp"].strings ELSE c["scope"].strings
    IN  /\ k.scheme = "bearer" /\ k.key # "garbled"
        /\ a.mode # "insecure" => /\ k.key \in {a.mode, "hmac", "pem"} \ {"static"}
                                  /\ k.key = "hmac" => a.hmac # ""
                                  /\ k.key = "pem" => a.pem # ""
                                  /\ k.exp = "ahead"
                                  /\ a.issuer \in {"", k.iss}
        /\ \/ a.audience = "" /\ a.additional = {}
           \/ a.audience # "" /\ a.audience \in c["aud"].strings
           \/ a.additional \cap c["aud"].strings # {}
        /\ a.scopes = {} \/ a.scopes \cap scopes # {}

\* The arguments follow the schema, and have nothing the schema does not have.
Conforms(args, sch) ==
    /\ Strippable(args)
    /\ sch.required \subseteq DOMAIN args.fields
    /\ DOMAIN args.fields \subseteq DOMAIN sch.props
    /\ \A p \in DOMAIN args.fields :
          sch.props[p].enum # {} =>
              args.fields[p][1] = "string" /\ \E v \in sch.props[p].enum : args.fields[p][2] = <<v>>

\* The text of a value in the body of a request.
BodyText(v) == IF v[1] = "int" THEN <<ToString(v[2])>> ELSE TextOf(v)

Inexact(v) == v[1] = "int" /\ (v[2] > FloatExact \/ v[2] < -FloatExact)

\* The tool has a parameter of its own under the selector's name, with this header.
OwnTenantHeader(sch, name) == "tenant" \in DOMAIN sch.props /\ sch.props["tenant"].header = name

\* These positions are the data of the first message, all of it.
IsFirstMessage(lines, payload) ==
    LET datas == {i \in DOMAIN lines : IsData(lines[i])}
    IN  \E first \in datas : /\ payload = {i \in datas : lines[i][2] = lines[first][2]}
                             /\ \A i \in datas : lines[i][2] >= lines[first][2]
-----------------------------------------------------------------------------
(* Properties *)

\* Every variable has its type, and a backend that is served has its defaults: no
\* credential goes out under an empty header name or with a nil scheme.
TypeOK ==
    /\ main \in Starting \cup {"serve", "deferred", "exited"}
    /\ drain \in {"none", "waiting", "draining", "done"}
    /\ raw \in RawConfigs
    /\ sig \in BOOLEAN
    /\ srv \in {"new", "up", "closed"}
    /\ metrics \in {"off", "up", "down"}
    /\ obs \in {"none", "up", "down"}
    /\ code \in {None, 0, 1, 2}
    /\ pc \in [Handlers -> {"idle", "open", "notify", "call", "done"}]
    /\ req \in [Handlers -> Requests \cup {None}] /\ reply \in [Handlers -> Replies \cup {None}]
    /\ DOMAIN plan = Handlers /\ DOMAIN sent = Handlers
    /\ DOMAIN resp = Handlers /\ DOMAIN out = Handlers
    /\ reg # None => \A t \in DOMAIN reg :
          /\ reg[t].backend.scheme # Null
          /\ reg[t].backend.header # ""
          /\ reg[t].backend.version \in {StatefulVersion, StatelessVersion}

\* A file is served as it is written or not at all: each tenant it lists is there,
\* under its own groups and on its own backend, and no variable that a credential
\* or a header of it refers to is missing (Load and registry.New).
FileServedAsWritten ==
    reg # None =>
        \A p \in Places(raw) :
            LET t == TenantAt(raw, p)
                b == raw.backends[p[1]]
            IN  /\ t.id \in DOMAIN reg
                /\ reg[t.id].groups = t.groups
                /\ reg[t.id].backend.name = b.name
                /\ \A s \in BackendSecrets(b) : \A v \in RefsIn(s) : ~IsUnset(v)

\* Nothing goes to a backend, not even the initialize that opens its session, but
\* for a caller whose token has everything the file asks for (Trusted), and names a
\* group of the tenant (Verifier.Groups before routeToBackend).
OnlyVerifiedCalls ==
    \A h \in Handlers : \A m \in Sent(h) :
        LET a == cfg.auth
            k == req[h].auth
        IN  /\ Trusted(a, k)
            /\ TenantAt(raw, PlaceOf(m.tenant)).groups \cap k.claims[a.groupsClaim].strings # {}

\* What goes out under a plain header name, the credential above all, is text that
\* the file has for this tenant or its backend: never another tenant's, and never
\* something out of the caller's arguments (applyAuth, mergeHeaders).
OwnSecretsOnly ==
    \A h \in Handlers : \A m \in Sent(h) :
        LET p   == PlaceOf(m.tenant)
            b   == raw.backends[p[1]]
            own == {reg[m.tenant].backend.scheme} \cup
                   UNION {Texts(ExpandRefs(s)) : s \in {b.credential}
                             \cup {b.headers[k] : k \in DOMAIN b.headers}
                             \cup TenantSecrets(TenantAt(raw, p))}
        IN  \A n \in DOMAIN m.headers : n[1] = "" => Texts(m.headers[n]) \subseteq own

\* The parameter headers of a call follow one definition of the tool, the cached one,
\* and a backend that decodes one of them finds the value that is in the body, for
\* integers within the precision of a float64 and unless the parameter is a "tenant" of
\* the tool's own (paramHeadersForTool from the caller's arguments, stripTenantArg for
\* the body).  The backend may have changed the definition since.
HeadersMatchBody ==
    \A h \in Handlers : \A m \in Calls(h) :
        LET projected == {n \in DOMAIN m.headers : n[1] # ""}
        IN  projected # {} =>
              \E sch \in Definitions(m.tool) : \A n \in projected :
                  OwnTenantHeader(sch, n[2]) \/
                  \E p \in DOMAIN sch.props \cap DOMAIN m.args.fields :
                     /\ sch.props[p].header = n[2]
                     /\ \/ Inexact(m.args.fields[p])
                        \/ DecodeHeader(m.headers[n]) = BodyText(m.args.fields[p])

\* Arguments that follow a definition of the tool as tools/list shows it to the caller,
\* with whichever tenants have the tool, follow that definition as the backend gave it
\* once they are forwarded, unless it asks for an argument "tenant" (injectTenantArg
\* against stripTenantArg).  Of definitions that differ between tenants the list shows
\* the first tenant's; a call may go to a backend that has another.
ListedCallsConform ==
    \A h \in Handlers : \A m \in Calls(h) : \A sch \in Definitions(m.tool) :
        LET mine == Authorized(cfg, reg, req[h])
        IN  /\ "tenant" \notin sch.required
            /\ \E having \in SUBSET mine :
                  Conforms(req[h].args, ListedSchema(sch, mine, having))
            => Conforms(m.args, sch)

\* A challenge sends the client to a metadata document that is below the same base
\* as the resource the document names, if the file has no odd URLs (metadataURL against
\* resourceURL).
ChallengeLeadsToResource ==
    \A h \in Handlers :
        Done(h) /\ resp[h].status \in {401, 403} /\ UsualURLs(cfg) =>
            LET url  == resp[h].url
                base == TrimSuffix(url, WellKnown)
            IN  /\ base # url
                /\ ResourceURL(cfg, req[h]) = base \o cfg.path

\* What is relayed of a backend's answer is one message, all of it: the first one
\* (decodeBody).
RelaysOneMessage ==
    \A h \in Handlers :
        Done(h) /\ resp[h].body = "relay" /\ resp[h].payload # {} =>
            IsFirstMessage(reply[h].lines, resp[h].payload)

\* A call waits for its backend session to be open: behind an initialize that did not
\* clearly succeed nothing follows, and each message has what the revision of its
\* backend asks for; a call that names no tool goes to a stateless backend without
\* Mcp-Name (client.initialize, routeToBackend, post).
HandshakeOrRevision ==
    \A h \in Handlers : \A i \in DOMAIN sent[h] :
        LET m == sent[h][i]
        IN  IF reg[m.tenant].backend.version = StatelessVersion
              THEN /\ m.kind = "call" /\ i = 1 /\ m.version /\ m.meta /\ ~m.session
                   /\ m.named <=> m.tool # ""
              ELSE /\ ~m.version /\ ~m.meta
                   /\ m.kind = "initialized" => i > 1 /\ sent[h][i - 1].kind = "initialize"
                   /\ pc[h] = "call" /\ i > 1 =>
                         reply[h].ok /\ reply[h].rpc \notin {"error", "null", "garbled"}

\* With stateless backends only, no client is given a session id or asked for one,
\* and every answer to a request that was understood has the revision
\* (Registry.AllStateless).
StatelessDeployment ==
    \A h \in Handlers :
        Done(h) /\ (\A i \in DOMAIN raw.backends : raw.backends[i].version = StatelessVersion) =>
            /\ ~resp[h].session
            /\ resp[h].code \notin SessionErrors
            /\ OnEndpoint(req[h]) /\ ~Early(req[h]) => resp[h].version \/ resp[h].body = "dropped"

\* The error type that RecordToolCall counts is that of the error the proxy itself told
\* the caller of, on every way out of handleToolsCall, and a tenant is named only if the
\* caller may use it.  An error that the backend tells of, in a JSON-RPC error or a
\* result with isError, is relayed and counted as a success, and so is the panic of
\* injectMeta.
CountsOwnErrors ==
    \A h \in Handlers :
        Done(h) /\ out[h] # None =>
            /\ out[h].error = OwnError(resp[h])
            /\ out[h].tenant # "" => out[h].tenant \in Authorized(cfg, reg, req[h])

\* The process ends with 0 only after a signal, and never without flushing the
\* telemetry it has set up (main and the deferred function of run).
ExitTellsTheTruth ==
    main = "exited" => (code = 0 => sig) /\ obs # "up"

\* ObservabilityConfig: an empty metrics_listen disables the listener.
EmptyMetricsListenDisables == raw.metrics = "" => metrics = "off"

\* A signal ends the process, whenever it comes: before the server listens, while
\* handlers wait for backends (run).
SignalStops == sig ~> (main = "exited")

\* The process gets to serve, or ends with an error (run).
StartupEnds == <>(main \notin Starting)

\* A handler that waits for its backend ends, with an answer or because the process
\* does; the panic of injectMeta ends one without an answer (routeToBackend, and the
\* 60 s of the client).
RequestsSettle ==
    \A h \in Handlers : (pc[h] # "idle") ~> (pc[h] = "idle" \/ main = "exited")
-----------------------------------------------------------------------------
(* The inductive invariant *)

HasConfig   == Loads(raw) /\ cfg = Loaded(raw)
HasRegistry == HasConfig /\ Builds(cfg) /\ reg = Built(cfg)

\* What run has by the time it gets somewhere, and why it can be there.
Lifetime ==
    /\ main \in {"auth", "registry"} => HasConfig
    /\ main \in {"obs", "warm", "mux", "listen", "serve", "deferred"} => HasRegistry
    /\ srv # "new" \/ drain # "none" => HasRegistry
    /\ reg = None \/ HasRegistry
    /\ main \in Starting \ {"listen"} => srv = "new" /\ drain = "none"
    /\ code = 0 => sig
    /\ main \in {"listen", "serve"} /\ srv = "closed" => sig
    /\ drain \in {"draining", "done"} => sig
    /\ obs = "up" => main \in {"warm", "mux", "listen", "serve", "deferred"}

\* The call a handler is going to send is for a tenant that its request may have been
\* routed to, and is built from that request.
Planned(h) ==
    LET q == req[h]
        t == plan[h].tenant
    IN  /\ q \in Requests /\ t \in DOMAIN reg /\ Routed(q, t) /\ Strippable(q.args)
        /\ \E session \in BOOLEAN, extra \in ForwardHeaders(q) :
              plan[h] = CallMessage(reg, t, q, session, extra)

\* What a handler has sent when it waits for the backend.
Exchange(h) ==
    LET t           == plan[h].tenant
        initialize  == Handshake(reg, t, "initialize")
        initialized == Handshake(reg, t, "initialized")
        stateful    == reg[t].backend.version = StatefulVersion
    IN  /\ pc[h] = "open" => stateful /\ sent[h] = <<initialize>>
        /\ pc[h] = "notify" =>
              stateful /\ Opened(reply[h]) /\ sent[h] = <<initialize, initialized>>
        /\ pc[h] = "call" =>
              \/ sent[h] = <<plan[h]>>
              \/ /\ stateful /\ Opened(reply[h])
                 /\ sent[h] \in {<<initialize, plan[h]>>, <<initialize, initialized, plan[h]>>}
        /\ pc[h] \in {"idle", "done"} => sent[h] = <<>>

\* A handler waits for a backend only on behalf of a request it has accepted.
Exchanges ==
    \A h \in Handlers :
        /\ pc[h] \in {"open", "notify", "call"} => Planned(h)
        /\ Exchange(h)
        /\ pc[h] # "idle" => srv # "new"
        /\ pc[h] = "done" => req[h] \in Requests

\* Where what a response carries comes from.
Responses ==
    \A h \in Handlers : Done(h) =>
        /\ resp[h].status \in {401, 403} => resp[h].url = MetadataURL(cfg, req[h])
        /\ resp[h].body = "relay" => reply[h] \in Replies /\ resp[h].payload \in Posted(reply[h])

\* All of it; the two properties are about responses, which stay as they are until Close.
Core == TypeOK /\ Lifetime /\ Exchanges /\ StatelessDeployment /\ CountsOwnErrors
IInv == Core /\ Responses
=============================================================================
