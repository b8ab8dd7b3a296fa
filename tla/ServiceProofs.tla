--------------------------- MODULE ServiceProofs ---------------------------
(***************************************************************************)
(* TLAPS proofs about Service, for every set of files, requests, answers   *)
(* of backends, tools and handlers.                                        *)
(***************************************************************************)
EXTENDS Service, ConfigProofs, EndpointProofs, TLAPS

USE DEF lifeVars, reqVars

\* Two messages in a row.
LEMMA AppendSecond == ASSUME NEW a, NEW m PROVE Append(<<a>>, m) = <<a, m>>
<1> DEFINE S == {a, m}
<1>1. <<a>> \in Seq(S) /\ m \in S /\ <<a, m>> \in Seq(S)
  OBVIOUS
<1>2. Append(<<a>>, m) \in Seq(S) /\ Len(Append(<<a>>, m)) = 2 /\ Len(<<a, m>>) = 2
  BY <1>1
<1>3. \A i \in 1..2 : Append(<<a>>, m)[i] = <<a, m>>[i]
  BY <1>1
<1> HIDE DEF S
<1> QED
  BY <1>1, <1>2, <1>3, SeqEqual

\* Three messages in a row.
LEMMA AppendThird == ASSUME NEW a, NEW b, NEW m PROVE Append(<<a, b>>, m) = <<a, b, m>>
<1> DEFINE S == {a, b, m}
<1>1. <<a, b>> \in Seq(S) /\ m \in S /\ <<a, b, m>> \in Seq(S)
  OBVIOUS
<1>2. Append(<<a, b>>, m) \in Seq(S) /\ Len(Append(<<a, b>>, m)) = 3 /\ Len(<<a, b, m>>) = 3
  BY <1>1
<1>3. \A i \in 1..3 : Append(<<a, b>>, m)[i] = <<a, b, m>>[i]
  BY <1>1
<1> HIDE DEF S
<1> QED
  BY <1>1, <1>2, <1>3, SeqEqual

\* The registry in use is one that serves a file the process was started with.
LEMMA Served ==
  ASSUME HasRegistry, raw \in RawConfigs
  PROVE  Serves(reg, raw)
BY FilesAssumption DEF HasRegistry, HasConfig, Serves

\* registry.New: whatever backend a tenant has, it has the defaults and a revision that the
\* proxy speaks.
LEMMA RegistryTyped ==
  ASSUME NEW g, NEW c, Serves(g, c), NEW t \in DOMAIN g
  PROVE  /\ g[t].backend.scheme # Null
         /\ g[t].backend.header # ""
         /\ g[t].backend.version \in {StatefulVersion, StatelessVersion}
<1> DEFINE p == CHOOSE p \in Places(c) : TenantAt(c, p).id = t
<1>1. p \in Places(c) /\ TenantAt(c, p).id = t
  BY PlaceOfTenant
<1> HIDE DEF p
<1> QED
  BY <1>1, ServedAsWritten, Zenon

\* A file with stateless backends only.
AllFilesStateless == \A i \in DOMAIN raw.backends : raw.backends[i].version = StatelessVersion

\* Registry.AllStateless: such a file makes an all-stateless proxy.
LEMMA StatelessRegistry ==
  ASSUME HasRegistry, raw \in RawConfigs, AllFilesStateless
  PROVE  /\ Of(reg)!AllStateless
         /\ \A t \in DOMAIN reg : reg[t].backend.version = StatelessVersion
<1>1. Serves(reg, raw)
  BY Served
<1>2. \A t \in DOMAIN reg : reg[t].backend.version = StatelessVersion
  <2> TAKE t \in DOMAIN reg
  <2> DEFINE p == CHOOSE p \in Places(raw) : TenantAt(raw, p).id = t
  <2>1. p \in Places(raw) /\ TenantAt(raw, p).id = t
    BY <1>1, PlaceOfTenant
  <2> HIDE DEF p
  <2>2. /\ p[1] \in DOMAIN raw.backends
        /\ reg[t].backend.version = OrElse(raw.backends[p[1]].version, StatefulVersion)
    BY <1>1, <2>1, ServedAsWritten, Zenon
  <2> QED
    BY <2>2 DEF AllFilesStateless, OrElse, StatelessVersion
<1>3. DOMAIN reg # {}
  <2>1. Places(Loaded(raw)) # {}
    BY DEF HasRegistry, HasConfig, Builds
  <2>2. Places(Loaded(raw)) = Places(raw)
    BY <1>1, LoadedTenant DEF Serves
  <2>3. DOMAIN reg = {TenantAt(raw, p).id : p \in Places(raw)}
    BY <1>1, ServedAsWritten, Zenon
  <2> QED
    BY <2>1, <2>2, <2>3
<1>4. {reg[t].backend : t \in DOMAIN reg} # {}
  BY <1>3
<1>5. \A b \in {reg[t].backend : t \in DOMAIN reg} : b.version = StatelessVersion
  BY <1>2
<1>6. Of(reg)!AllStateless
  BY <1>4, <1>5 DEF Of!AllStateless, Of!Stateless
<1> QED
  BY <1>2, <1>6

\* Handler.selectTenant: a request is routed only to a tenant of the registry that the groups
\* of its token authorize.
LEMMA RoutedAuthorized ==
  ASSUME NEW q, NEW t, Routed(q, t)
  PROVE  t \in DOMAIN reg /\ t \in Authorized(cfg, reg, q)
<1> DEFINE G == CallerGroups(cfg, q)
           e == Explicit(reg, q)
<1>1. PICK mayHave \in SUBSET DOMAIN reg : t \in Of(reg)!SelectTenant(e, G, mayHave)
  BY DEF Routed, Selected
<1> HIDE DEF e, G
<1>2. CASE e # ""
  BY <1>1, <1>2
  DEF Of!SelectTenant, Of!SelectExplicit, Of!Resolves, Of!IsAuthorized, Of!AuthorizedTenants, Authorized, G
<1>3. CASE e = ""
  BY <1>1, <1>3
  DEF Of!SelectTenant, Of!SelectImplicit, Of!TenantsWithTool, Of!AuthorizedTenants, Of!IsAuthorized, Authorized, G
<1> QED
  BY <1>2, <1>3
-----------------------------------------------------------------------------
(* Responses *)

ResponseFields == {"status", "body", "code", "version", "session", "url", "listed", "payload"}

\* A response that starts no session and has no error code of its own.
LEMMA PlainResponse ==
  ASSUME NEW status, NEW body
  PROVE  LET r == Response(status, body)
         IN  /\ DOMAIN r = ResponseFields
             /\ r.body = body /\ r.code = 0 /\ ~r.session
             /\ r.status = status
BY DEF Response, ResponseFields

\* Only two of the codes are about sessions.
LEMMA OtherCodes ==
  /\ 0 \notin SessionErrors
  /\ ParseError \notin SessionErrors /\ MethodNotFound \notin SessionErrors
  /\ InvalidParams \notin SessionErrors /\ InternalError \notin SessionErrors
  /\ NotAuthorized \notin SessionErrors /\ BackendCallFailed \notin SessionErrors
  /\ InvalidParams \notin SessionErrors \cup {BackendCallFailed}
BY DEF SessionErrors, ParseError, MethodNotFound, InvalidParams, InternalError, SessionNotFound,
   NotAuthorized, SessionNotOpened, BackendCallFailed

\* writeRPCError
LEMMA ErrorResponse ==
  ASSUME NEW n
  PROVE  LET r == RPCError(n)
         IN  /\ DOMAIN r = ResponseFields
             /\ r.body = "error" /\ r.code = n /\ ~r.session
             /\ r.status = 200
<1> DEFINE r == Response(200, "error")
<1>1. DOMAIN r = ResponseFields /\ r.body = "error" /\ ~r.session /\ r.status = 200
  BY PlainResponse
<1> HIDE DEF r
<1>2. RPCError(n) = [r EXCEPT !.code = n]
  BY DEF RPCError, r
<1> QED
  BY <1>1, <1>2 DEF ResponseFields

\* The version header of an all-stateless proxy is all that a stamped response has more.
LEMMA StampedResponse ==
  ASSUME NEW g, NEW r, DOMAIN r = ResponseFields
  PROVE  /\ Stamped(g, r).body = r.body /\ Stamped(g, r).code = r.code
         /\ Stamped(g, r).session = r.session
         /\ Stamped(g, r).version = Of(g)!AllStateless
         /\ Stamped(g, r).status = r.status /\ Stamped(g, r).url = r.url
         /\ Stamped(g, r).payload = r.payload
BY DEF Stamped, ResponseFields

\* The error types, one by one.
LEMMA OwnErrors ==
  ASSUME NEW r
  PROVE  /\ r.body = "toolerror" => OwnError(r) = "tenant_selection"
         /\ r.body = "error" /\ r.status = 401 => OwnError(r) = "unauthorized"
         /\ r.body = "error" /\ r.status = 403 => OwnError(r) = "insufficient_scope"
         /\ r.body = "error" /\ r.status = 200 /\ r.code = InvalidParams =>
               OwnError(r) = "invalid_params"
         /\ r.body = "error" /\ r.status = 200 /\ r.code # InvalidParams =>
               OwnError(r) = "backend_error"
         /\ r.body \notin {"toolerror", "error"} => OwnError(r) = ""
BY DEF OwnError, ErrorType

\* What StatelessDeployment and CountsOwnErrors say of one response and its record.
StatelessFits(q, r) ==
    AllFilesStateless =>
        /\ ~r.session
        /\ r.code \notin SessionErrors
        /\ OnEndpoint(q) /\ ~Early(q) => r.version \/ r.body = "dropped"

CountedFits(q, r, a) ==
    a # None =>
        /\ a.error = OwnError(r)
        /\ a.tenant # "" => a.tenant \in Authorized(cfg, reg, q)

AnswerFits(q, r, a) == StatelessFits(q, r) /\ CountedFits(q, r, a)

\* The two properties, handler by handler.
LEMMA AnswersFit ==
  (StatelessDeployment /\ CountsOwnErrors)
    <=> \A h \in Handlers : Done(h) => AnswerFits(req[h], resp[h], out[h])
<1>1. StatelessDeployment <=> \A h \in Handlers : Done(h) => StatelessFits(req[h], resp[h])
  BY Zenon DEF StatelessDeployment, StatelessFits, AllFilesStateless
<1>2. CountsOwnErrors <=> \A h \in Handlers : Done(h) => CountedFits(req[h], resp[h], out[h])
  BY Zenon DEF CountsOwnErrors, CountedFits
<1> QED
  BY <1>1, <1>2, Zenon DEF AnswerFits

\* ServeHTTP stamps a response in an all-stateless deployment: it fits, if it has no session
\* and no error that is about one.
LEMMA StampedFits ==
  ASSUME HasRegistry, raw \in RawConfigs, NEW q, NEW r, DOMAIN r = ResponseFields,
         AllFilesStateless => ~r.session /\ r.code \notin SessionErrors
  PROVE  StatelessFits(q, Stamped(reg, r))
<1>1. AllFilesStateless => Of(reg)!AllStateless
  BY StatelessRegistry, Zenon
<1>2. /\ Stamped(reg, r).code = r.code
      /\ Stamped(reg, r).session = r.session
      /\ Stamped(reg, r).version = Of(reg)!AllStateless
  BY StampedResponse, Zenon
<1> QED
  BY <1>1, <1>2, Zenon DEF StatelessFits

\* The attributes of RecordToolCall.
LEMMA AttrsFields == ASSUME NEW t, NEW e PROVE Attrs(t, e).tenant = t /\ Attrs(t, e).error = e
BY DEF Attrs

\* ServeHTTP and its handlers: every answer that needs no backend fits.
LEMMA LocalFits ==
  ASSUME HasRegistry, raw \in RawConfigs, NEW q
  PROVE  StatelessFits(q, LocalAnswer(cfg, reg, q))
<1>1. ASSUME NEW r, DOMAIN r = ResponseFields, ~r.session, r.code \notin SessionErrors,
             ~(OnEndpoint(q) /\ ~Early(q))
      PROVE  StatelessFits(q, r)
  BY <1>1, Zenon DEF StatelessFits
<1>2. ASSUME NEW r, DOMAIN r = ResponseFields, AllFilesStateless => ~r.session,
             r.code \notin SessionErrors
      PROVE  StatelessFits(q, Stamped(reg, r))
  BY <1>2, StampedFits, Zenon
<1>3. StatelessFits(q, Metadata(cfg, q)) \/ OnEndpoint(q)
  <2> DEFINE r == Response(200, "metadata")
  <2>1. DOMAIN r = ResponseFields /\ r.code = 0 /\ ~r.session
    BY PlainResponse
  <2> HIDE DEF r
  <2>2. Metadata(cfg, q) = [r EXCEPT !.url = ResourceURL(cfg, q)]
    BY DEF Metadata, r
  <2>3. /\ DOMAIN Metadata(cfg, q) = ResponseFields /\ Metadata(cfg, q).code = 0
        /\ ~Metadata(cfg, q).session
    BY <2>1, <2>2 DEF ResponseFields
  <2> QED
    BY <1>1, OtherCodes, <2>3
<1>4. Early(q) \/ ~OnEndpoint(q) => /\ StatelessFits(q, EarlyAnswer(q))
                                     /\ StatelessFits(q, Response(200, "text"))
  <2> SUFFICES ASSUME Early(q) \/ ~OnEndpoint(q)
               PROVE  /\ StatelessFits(q, EarlyAnswer(q))
                      /\ StatelessFits(q, Response(200, "text"))
    OBVIOUS
  <2>1. ASSUME NEW status, NEW body PROVE StatelessFits(q, Response(status, body))
    <3>1. /\ DOMAIN Response(status, body) = ResponseFields
          /\ Response(status, body).code = 0 /\ ~Response(status, body).session
      BY PlainResponse
    <3> QED
      BY <1>1, OtherCodes, <3>1
  <2>2. StatelessFits(q, RPCError(ParseError))
    <3>1. /\ DOMAIN RPCError(ParseError) = ResponseFields
          /\ RPCError(ParseError).code = ParseError /\ ~RPCError(ParseError).session
      BY ErrorResponse
    <3> QED
      BY <1>1, OtherCodes, <3>1
  <2> QED
    BY <2>1, <2>2 DEF EarlyAnswer
<1>5. StatelessFits(q, Stamped(reg, MethodAnswer(reg, q)))
  <2>1. ASSUME NEW status, NEW body PROVE StatelessFits(q, Stamped(reg, Response(status, body)))
    <3>1. /\ DOMAIN Response(status, body) = ResponseFields
          /\ Response(status, body).code = 0 /\ ~Response(status, body).session
      BY PlainResponse
    <3> QED
      BY <1>2, OtherCodes, <3>1
  <2>2. StatelessFits(q, Stamped(reg, RPCError(MethodNotFound)))
    <3>1. /\ DOMAIN RPCError(MethodNotFound) = ResponseFields
          /\ RPCError(MethodNotFound).code = MethodNotFound /\ ~RPCError(MethodNotFound).session
      BY ErrorResponse
    <3> QED
      BY <1>2, OtherCodes, <3>1
  <2>3. StatelessFits(q, Stamped(reg, Initialize(reg)))
    <3> DEFINE r == Response(200, "result")
    <3>1. DOMAIN r = ResponseFields /\ r.code = 0
      BY PlainResponse
    <3> HIDE DEF r
    <3>2. Initialize(reg) = [r EXCEPT !.session = ~Of(reg)!AllStateless]
      BY DEF Initialize, r
    <3>3. /\ DOMAIN Initialize(reg) = ResponseFields /\ Initialize(reg).code = 0
          /\ Initialize(reg).session = ~Of(reg)!AllStateless
      BY <3>1, <3>2 DEF ResponseFields
    <3>4. AllFilesStateless => ~Initialize(reg).session
      BY <3>3, StatelessRegistry
    <3> QED
      BY <1>2, OtherCodes, <3>3, <3>4
  <2> QED
    BY <2>1, <2>2, <2>3 DEF MethodAnswer
<1> QED
  BY <1>3, <1>4, <1>5 DEF LocalAnswer, OnEndpoint
-----------------------------------------------------------------------------
(* The lifetime of the process *)

\* The three parts of the type invariant.
TypeLife ==
    /\ main \in Starting \cup {"serve", "deferred", "exited"}
    /\ drain \in {"none", "waiting", "draining", "done"}
    /\ raw \in RawConfigs
    /\ sig \in BOOLEAN
    /\ srv \in {"new", "up", "closed"}
    /\ metrics \in {"off", "up", "down"}
    /\ obs \in {"none", "up", "down"}
    /\ code \in {None, 0, 1, 2}

TypeHandlers ==
    /\ pc \in [Handlers -> {"idle", "open", "notify", "call", "done"}]
    /\ req \in [Handlers -> Requests \cup {None}] /\ reply \in [Handlers -> Replies \cup {None}]
    /\ DOMAIN plan = Handlers /\ DOMAIN sent = Handlers
    /\ DOMAIN resp = Handlers /\ DOMAIN out = Handlers

TypeRegistry ==
    reg # None => \A t \in DOMAIN reg :
        /\ reg[t].backend.scheme # Null
        /\ reg[t].backend.header # ""
        /\ reg[t].backend.version \in {StatefulVersion, StatelessVersion}

LifeSteps == Main \/ ListenFails \/ Draining \/ Signal

\* Load and registry.New are over before the server listens: run gives the handlers a
\* configuration and a registry that stay as they are.
LEMMA RegistryFixed ==
  ASSUME TypeOK, Lifetime, LifeSteps
  PROVE  /\ UNCHANGED <<raw, reqVars>>
         /\ srv # "new" => srv' # "new" /\ UNCHANGED <<cfg, reg>>
<1> USE DEF Lifetime, Starting
<1>1. CASE Startup
  BY <1>1 DEF Startup, LoadConfig, LoadFails, Fail, BuildVerifier, VerifierFails, BuildRegistry,
     RegistryFails, SetupObs, SetupFails, WarmEnds, RoutesPanic, RegisterRoutes, Return
<1>2. CASE Listen \/ ServeReturns \/ ObsShutdown \/ ListenFails \/ Draining \/ Signal
  BY <1>2 DEF Listen, ServeReturns, ObsShutdown, ListenFails, Draining, BeginShutdown, DrainEnds,
     Signal, Return
<1> QED
  BY <1>1, <1>2 DEF LifeSteps, Main

\* Every step of run and of the goroutine that waits for the signal keeps the types.
LEMMA LifeTyped ==
  ASSUME TypeOK, Lifetime, LifeSteps
  PROVE  TypeOK'
<1>1. TypeLife /\ TypeHandlers /\ TypeRegistry
  BY DEF TypeOK, TypeLife, TypeHandlers, TypeRegistry
<1>2. TypeLife'
  <2> USE <1>1 DEF TypeLife, Starting
  <2>1. CASE Startup
    BY <2>1 DEF Startup, LoadConfig, LoadFails, Fail, BuildVerifier, VerifierFails, BuildRegistry,
       RegistryFails, SetupObs, SetupFails, WarmEnds, RoutesPanic, RegisterRoutes, Return
  <2>2. CASE Listen \/ ServeReturns \/ ObsShutdown \/ ListenFails \/ Draining \/ Signal
    BY <2>2 DEF Listen, ServeReturns, ObsShutdown, ListenFails, Draining, BeginShutdown, DrainEnds,
       Signal, Return
  <2> QED
    BY <2>1, <2>2 DEF LifeSteps, Main
<1>3. TypeHandlers'
  <2>1. UNCHANGED reqVars
    BY RegistryFixed
  <2> QED
    BY <1>1, <2>1 DEF TypeHandlers
<1>4. TypeRegistry'
  <2>1. CASE BuildRegistry
    <3>1. raw \in RawConfigs /\ HasConfig
      BY <1>1, <2>1 DEF TypeLife, BuildRegistry, Lifetime
    <3>2. Serves(reg', raw)
      BY <2>1, <3>1, FilesAssumption DEF BuildRegistry, HasConfig, Serves
    <3> QED
      BY <3>2, RegistryTyped DEF TypeRegistry
  <2>2. CASE ~BuildRegistry
    <3>1. UNCHANGED reg
      BY <2>2 DEF LifeSteps, Main, Startup, LoadConfig, LoadFails, Fail, BuildVerifier,
         VerifierFails, RegistryFails, SetupObs, SetupFails, WarmEnds, RoutesPanic,
         RegisterRoutes, Return, Listen, ServeReturns, ObsShutdown, ListenFails, Draining,
         BeginShutdown, DrainEnds, Signal
    <3> QED
      BY <1>1, <3>1 DEF TypeRegistry
  <2> QED
    BY <2>1, <2>2
<1> QED
  BY <1>2, <1>3, <1>4 DEF TypeOK, TypeLife, TypeHandlers, TypeRegistry

\* run, from loading the file to its deferred functions: each step finds what the steps before
\* it made, and 0 is only ever returned once the signal has closed the server.
LEMMA LifeInvariant ==
  ASSUME TypeOK, Lifetime, LifeSteps
  PROVE  Lifetime'
<1>1. CASE LoadConfig
  <2>1. HasConfig'
    BY <1>1 DEF LoadConfig, HasConfig
  <2>2. reg = None \/ HasRegistry
    BY DEF Lifetime
  <2>3. HasRegistry => HasRegistry'
    BY <1>1 DEF LoadConfig, HasRegistry, HasConfig
  <2> QED
    BY <1>1, <2>1, <2>2, <2>3 DEF LoadConfig, Lifetime, Starting
<1>2. CASE BuildRegistry
  <2>1. HasConfig
    BY <1>2 DEF BuildRegistry, Lifetime
  <2>2. HasRegistry'
    BY <1>2, <2>1 DEF BuildRegistry, HasRegistry, HasConfig
  <2> QED
    BY <1>2, <2>2 DEF BuildRegistry, Lifetime, Starting
<1>3. CASE ~LoadConfig /\ ~BuildRegistry
  <2>1. UNCHANGED <<raw, cfg, reg>>
    BY <1>3 DEF LifeSteps, Main, Startup, LoadFails, Fail, BuildVerifier,
       VerifierFails, RegistryFails, SetupObs, SetupFails, WarmEnds, RoutesPanic,
       RegisterRoutes, Return, Listen, ServeReturns, ObsShutdown, ListenFails, Draining,
       BeginShutdown, DrainEnds, Signal
  <2>2. (HasConfig => HasConfig') /\ (HasRegistry => HasRegistry')
    BY <2>1 DEF HasConfig, HasRegistry
  <2> USE <2>1, <2>2 DEF Lifetime, Starting
  <2>3. CASE LoadFails \/ VerifierFails \/ RegistryFails \/ SetupFails
    BY <2>3 DEF LoadFails, VerifierFails, RegistryFails, SetupFails, Fail
  <2>4. CASE BuildVerifier \/ SetupObs \/ WarmEnds
    BY <2>4 DEF BuildVerifier, SetupObs, WarmEnds
  <2>5. CASE RoutesPanic
    BY <2>5 DEF RoutesPanic, Return
  <2>6. CASE RegisterRoutes
    BY <2>6 DEF RegisterRoutes
  <2>7. CASE Listen \/ ServeReturns \/ ObsShutdown \/ ListenFails
    BY <2>7 DEF Listen, ServeReturns, ObsShutdown, ListenFails, Return
  <2>8. CASE Draining \/ Signal
    BY <2>8 DEF Draining, BeginShutdown, DrainEnds, Signal
  <2> QED
    BY <1>3, <2>3, <2>4, <2>5, <2>6, <2>7, <2>8 DEF LifeSteps, Main, Startup
<1> QED
  BY <1>1, <1>2, <1>3
-----------------------------------------------------------------------------
(* Handlers *)

\* What the invariant says of one handler.
HandlerInv(h) ==
    /\ pc[h] \in {"open", "notify", "call"} => Planned(h)
    /\ Exchange(h)
    /\ pc[h] # "idle" => srv # "new"
    /\ pc[h] = "done" => req[h] \in Requests /\ AnswerFits(req[h], resp[h], out[h])

Handled == \A h \in Handlers : HandlerInv(h)

\* The invariant, handler by handler.
LEMMA Parts == Core <=> TypeOK /\ Lifetime /\ Handled
<1>1. Exchanges /\ (\A h \in Handlers : Done(h) => AnswerFits(req[h], resp[h], out[h])) <=> Handled
  BY Zenon DEF Exchanges, Handled, HandlerInv, Done
<1> QED
  BY <1>1, AnswersFit, Zenon DEF Core

\* And after a step.
LEMMA PartsAfter == Core' <=> TypeOK' /\ Lifetime' /\ Handled'
BY Parts, PTL

\* A handler that a step leaves alone.
Same(h) ==
    /\ pc'[h] = pc[h] /\ req'[h] = req[h] /\ plan'[h] = plan[h] /\ sent'[h] = sent[h]
    /\ reply'[h] = reply[h] /\ resp'[h] = resp[h] /\ out'[h] = out[h]

\* A handler that is not there yet has nothing to keep.
LEMMA IdleHandler ==
  ASSUME NEW h \in Handlers, pc'[h] = "idle", sent'[h] = <<>>
  PROVE  HandlerInv(h)'
BY DEF HandlerInv, Exchange

\* A handler keeps what it has through the steps of the others.
LEMMA OtherHandlers ==
  ASSUME NEW h \in Handlers, HandlerInv(h), Same(h), UNCHANGED <<raw, cfg, reg>>,
         srv # "new" => srv' # "new"
  PROVE  HandlerInv(h)'
<1>1. Planned(h) => Planned(h)'
  BY DEF Same, Planned, Routed, ToTenant, Accepted
<1>2. Exchange(h)'
  BY DEF HandlerInv, Same, Exchange
<1>3. AnswerFits(req[h], resp[h], out[h]) => AnswerFits(req[h], resp[h], out[h])'
  BY DEF Same, AnswerFits, StatelessFits, CountedFits, AllFilesStateless
<1> QED
  BY <1>1, <1>2, <1>3 DEF HandlerInv, Same

\* A step of one handler.
LEMMA OneHandler ==
  ASSUME Core, NEW h \in Handlers, UNCHANGED lifeVars, TypeHandlers',
         \A k \in Handlers \ {h} : Same(k), HandlerInv(h)'
  PROVE  Core'
<1>1. TypeOK /\ Lifetime /\ Handled
  BY Parts
<1>2. TypeOK'
  <2>1. TypeLife /\ TypeRegistry
    BY <1>1 DEF TypeOK, TypeLife, TypeRegistry
  <2>2. TypeLife'
    BY <2>1 DEF TypeLife
  <2>3. TypeRegistry'
    BY <2>1 DEF TypeRegistry
  <2> QED
    BY <2>2, <2>3 DEF TypeOK, TypeLife, TypeHandlers, TypeRegistry
<1>3. Lifetime'
  BY <1>1 DEF Lifetime, HasRegistry, HasConfig
<1>4. Handled'
  BY <1>1, OtherHandlers DEF Handled
<1> QED
  BY <1>2, <1>3, <1>4, PartsAfter

\* A handler that has responded waits for nothing.
LEMMA DoneHandler ==
  ASSUME NEW h \in Handlers, NEW q \in Requests, NEW r, NEW a, AnswerFits(q, r, a),
         UNCHANGED lifeVars, srv # "new",
         pc'[h] = "done", sent'[h] = <<>>, req'[h] = q, resp'[h] = r, out'[h] = a
  PROVE  HandlerInv(h)'
<1>1. AnswerFits(req[h], resp[h], out[h])'
  BY DEF AnswerFits, StatelessFits, CountedFits, AllFilesStateless
<1>2. Exchange(h)'
  BY DEF Exchange
<1> QED
  BY <1>1, <1>2 DEF HandlerInv

\* An answer that goes out in the step that takes the request.
LEMMA AnswerStep ==
  ASSUME Core, NEW h \in Handlers, Accepting(h), NEW q \in Requests, NEW r, NEW a,
         AnswerAtOnce(h, q, r, a), AnswerFits(q, r, a)
  PROVE  Core'
<1> USE DEF AnswerAtOnce, Take, Respond
<1>1. TypeHandlers
  BY DEF Core, TypeOK, TypeHandlers
<1>2. TypeHandlers'
  BY <1>1 DEF TypeHandlers
<1>3. \A k \in Handlers \ {h} : Same(k)
  BY <1>1 DEF TypeHandlers, Same
<1>4. HandlerInv(h)'
  <2>1. pc'[h] = "done" /\ sent'[h] = <<>> /\ req'[h] = q /\ resp'[h] = r /\ out'[h] = a
    BY <1>1 DEF TypeHandlers
  <2> QED
    BY <2>1, DoneHandler DEF Accepting
<1> QED
  BY <1>2, <1>3, <1>4, OneHandler

\* An answer that goes out once the backend has answered, or failed to.
LEMMA RespondStep ==
  ASSUME Core, NEW h \in Handlers, pc[h] \in {"open", "notify", "call"}, NEW rep \in Replies,
         NEW r, NEW a, Respond(h, r, a), reply' = [reply EXCEPT ![h] = rep],
         UNCHANGED <<lifeVars, req>>, AnswerFits(req[h], r, a)
  PROVE  Core'
<1> USE DEF Respond
<1>1. TypeHandlers /\ HandlerInv(h)
  BY Parts DEF TypeOK, TypeHandlers, Handled
<1>2. TypeHandlers'
  BY <1>1 DEF TypeHandlers
<1>3. \A k \in Handlers \ {h} : Same(k)
  BY <1>1 DEF TypeHandlers, Same
<1>4. HandlerInv(h)'
  <2>1. /\ pc'[h] = "done" /\ sent'[h] = <<>> /\ req'[h] = req[h] /\ resp'[h] = r /\ out'[h] = a
        /\ req[h] \in Requests /\ srv # "new"
    BY <1>1 DEF TypeHandlers, HandlerInv, Planned
  <2> QED
    BY <2>1, DoneHandler
<1> QED
  BY <1>2, <1>3, <1>4, OneHandler
-----------------------------------------------------------------------------
(* The answers *)

\* What a handler finds once the server is up.
LEMMA Serving ==
  ASSUME Core, srv # "new"
  PROVE  HasRegistry /\ raw \in RawConfigs
BY DEF Core, TypeOK, Lifetime

\* A stamped response counts as it was before.
LEMMA CountedStamped ==
  ASSUME NEW q, NEW r, DOMAIN r = ResponseFields, NEW t, NEW e,
         e = OwnError(r),
         t # "" => t \in Authorized(cfg, reg, q)
  PROVE  CountedFits(q, Stamped(reg, r), Attrs(t, e))
<1> DEFINE s == Stamped(reg, r)
<1>1. s.body = r.body /\ s.status = r.status /\ s.code = r.code
  BY StampedResponse, Zenon
<1> HIDE DEF s
<1>2. OwnError(s) = OwnError(r)
  BY <1>1, Zenon DEF OwnError
<1> DEFINE a == Attrs(t, e)
<1>3. a.tenant = t /\ a.error = e
  BY AttrsFields
<1> HIDE DEF a
<1>4. CountedFits(q, s, a)
  BY <1>2, <1>3, Zenon DEF CountedFits
<1> QED
  BY <1>4 DEF a, s

\* writeRPCError, with the record of a failed call.
LEMMA ErrorFits ==
  ASSUME HasRegistry, raw \in RawConfigs, NEW q, NEW n, NEW t, NEW e,
         n = InvalidParams => e = "invalid_params", n # InvalidParams => e = "backend_error",
         AllFilesStateless => n \notin SessionErrors,
         t # "" => t \in Authorized(cfg, reg, q)
  PROVE  AnswerFits(q, Stamped(reg, RPCError(n)), Attrs(t, e))
<1> DEFINE r == RPCError(n)
<1>1. DOMAIN r = ResponseFields /\ r.body = "error" /\ r.code = n /\ ~r.session /\ r.status = 200
  BY ErrorResponse
<1> HIDE DEF r
<1>2. e = OwnError(r)
  <2>1. r.body = "error" /\ r.status = 200 =>
           OwnError(r) = IF r.code = InvalidParams THEN "invalid_params" ELSE "backend_error"
    BY OwnErrors, Zenon
  <2> QED
    BY <1>1, <2>1
<1>3. StatelessFits(q, Stamped(reg, r))
  BY <1>1, StampedFits, Zenon
<1>4. CountedFits(q, Stamped(reg, r), Attrs(t, e))
  <2>1. DOMAIN r = ResponseFields
    BY <1>1
  <2> QED
    BY <1>2, <2>1, CountedStamped, Zenon
<1> QED
  BY <1>3, <1>4, Zenon DEF AnswerFits, r

\* The same for a result, or an error inside a result.
LEMMA ResultFits ==
  ASSUME HasRegistry, raw \in RawConfigs, NEW q, NEW body, NEW t, NEW e,
         body # "error", e = IF body = "toolerror" THEN "tenant_selection" ELSE "",
         t # "" => t \in Authorized(cfg, reg, q)
  PROVE  AnswerFits(q, Stamped(reg, Response(200, body)), Attrs(t, e))
<1> DEFINE r == Response(200, body)
<1>1. DOMAIN r = ResponseFields /\ r.body = body /\ r.code = 0 /\ ~r.session
  BY DEF Response, ResponseFields
<1> HIDE DEF r
<1>2. e = OwnError(r)
  <2>1. /\ r.body = "toolerror" => OwnError(r) = "tenant_selection"
        /\ r.body \notin {"toolerror", "error"} => OwnError(r) = ""
    BY OwnErrors, Zenon
  <2> QED
    BY <1>1, <2>1
<1>3. StatelessFits(q, Stamped(reg, r))
  BY <1>1, OtherCodes, StampedFits, Zenon
<1>4. CountedFits(q, Stamped(reg, r), Attrs(t, e))
  BY <1>1, <1>2, CountedStamped, Zenon
<1> QED
  BY <1>3, <1>4, Zenon DEF AnswerFits, r

\* Verifier.Groups fails in two ways.
LEMMA GroupsErrors ==
  ASSUME NEW a, NEW k
  PROVE  VerifierGroups(a, k).err \in {"", "unauthorized", "insufficient_scope"}
BY DEF VerifierGroups, ExtractGroups, Unauthorized, InsufficientScope, Verified

\* ServeHTTP: every answer that goes out at once fits, and the steps that give it keep the
\* invariant.
LEMMA AnswerActions ==
  ASSUME Core, NEW h \in Handlers, Accepting(h),
         \/ AnswerLocally(h) \/ HandleToolsList(h) \/ CallRefused(h) \/ CallInvalid(h)
         \/ ListInstances(h) \/ SelectionFails(h) \/ ArgumentsInvalid(h) \/ SessionMissing(h)
         \/ MetaPanics(h)
  PROVE  Core'
<1>1. HasRegistry /\ raw \in RawConfigs
  BY Serving DEF Accepting
<1>2. CASE AnswerLocally(h)
  <2>1. PICK q \in Requests : AnswerAtOnce(h, q, LocalAnswer(cfg, reg, q), None)
    BY <1>2 DEF AnswerLocally
  <2>2. AnswerFits(q, LocalAnswer(cfg, reg, q), None)
    BY <1>1, LocalFits, Zenon DEF AnswerFits, CountedFits
  <2> QED
    BY <2>1, <2>2, AnswerStep
<1>3. CASE HandleToolsList(h)
  <2>1. ASSUME NEW q, NEW r, DOMAIN r = ResponseFields, ~r.session, r.code \notin SessionErrors
        PROVE  AnswerFits(q, Stamped(reg, r), None)
    BY <1>1, <2>1, StampedFits, Zenon DEF AnswerFits, CountedFits
  <2>2. PICK q \in Requests : \E au, lists :
           AnswerAtOnce(h, q, Stamped(reg, ListAnswer(au, lists)), None)
    BY <1>3, Zenon DEF HandleToolsList
  <2>3. ASSUME NEW au, NEW lists
        PROVE  AnswerFits(q, Stamped(reg, ListAnswer(au, lists)), None)
    <3> DEFINE e == RPCError(InternalError)
               l == Response(200, "list")
               r(listed) == [l EXCEPT !.listed = listed]
    <3>1. \E listed : ListAnswer(au, lists) = IF DOMAIN lists = {} THEN e ELSE r(listed)
      BY Zenon DEF ListAnswer
    <3>2. DOMAIN e = ResponseFields /\ e.code \notin SessionErrors /\ ~e.session
      BY OtherCodes, ErrorResponse
    <3>3. DOMAIN l = ResponseFields /\ l.code = 0 /\ ~l.session
      BY PlainResponse
    <3> HIDE DEF e, l
    <3>4. \A x : DOMAIN r(x) = ResponseFields /\ r(x).code = 0 /\ ~r(x).session
      BY <3>3 DEF ResponseFields
    <3> HIDE DEF r
    <3>5. \A x : AnswerFits(q, Stamped(reg, e), None) /\ AnswerFits(q, Stamped(reg, r(x)), None)
      BY <2>1, <3>2, <3>4, OtherCodes
    <3> QED
      BY <3>1, <3>5
  <2> QED
    BY <2>2, <2>3, AnswerStep
<1>4. CASE CallRefused(h)
  <2>1. PICK q \in Requests :
           LET err == VerifierGroups(cfg.auth, q.auth).err
           IN  /\ err # ""
               /\ AnswerAtOnce(h, q, Stamped(reg, Challenge(cfg, q, err)), Attrs("", err))
    BY <1>4 DEF CallRefused
  <2> DEFINE err == VerifierGroups(cfg.auth, q.auth).err
             p   == Response(IF err = "insufficient_scope" THEN 403 ELSE 401, "error")
             r   == Challenge(cfg, q, err)
  <2>2. err # "" /\ AnswerAtOnce(h, q, Stamped(reg, r), Attrs("", err))
    BY <2>1
  <2>2a. err \in {"unauthorized", "insufficient_scope"}
    BY <2>2, GroupsErrors
  <2> HIDE DEF err
  <2>3. /\ DOMAIN p = ResponseFields /\ p.body = "error" /\ ~p.session
        /\ p.status = IF err = "insufficient_scope" THEN 403 ELSE 401
    BY PlainResponse
  <2>4. r = [p EXCEPT !.code = NotAuthorized, !.url = MetadataURL(cfg, q)]
    BY DEF Challenge
  <2> HIDE DEF p, r
  <2>5. /\ DOMAIN r = ResponseFields /\ r.body = "error" /\ r.code = NotAuthorized /\ ~r.session
        /\ r.status = IF err = "insufficient_scope" THEN 403 ELSE 401
    BY <2>3, <2>4 DEF ResponseFields
  <2>6. r.code \notin SessionErrors
    BY OtherCodes, <2>5
  <2>7. err = OwnError(r) /\ DOMAIN r = ResponseFields /\ ~r.session
    BY <2>5, <2>2a, OwnErrors
  <2>8. AnswerFits(q, Stamped(reg, r), Attrs("", err))
    BY <1>1, <2>2, <2>6, <2>7, StampedFits, CountedStamped, Zenon DEF AnswerFits
  <2> QED
    BY <2>2, <2>8, AnswerStep
<1>5. CASE CallInvalid(h)
  <2> DEFINE r == Stamped(reg, RPCError(InvalidParams))
             a == Attrs("", "invalid_params")
  <2>1. PICK q \in Requests : AnswerAtOnce(h, q, r, a)
    BY <1>5 DEF CallInvalid
  <2>2. AnswerFits(q, r, a)
    BY <1>1, OtherCodes, ErrorFits
  <2> HIDE DEF r, a
  <2> QED
    BY <2>1, <2>2, AnswerStep
<1>6. CASE ListInstances(h)
  <2> DEFINE r == Stamped(reg, Response(200, "result"))
             a == Attrs("", "")
  <2>1. PICK q \in Requests : AnswerAtOnce(h, q, r, a)
    BY <1>6 DEF ListInstances
  <2>2. AnswerFits(q, r, a)
    BY <1>1, ResultFits
  <2> HIDE DEF r, a
  <2> QED
    BY <2>1, <2>2, AnswerStep
<1>7. CASE SelectionFails(h)
  <2> DEFINE r == Stamped(reg, Response(200, "toolerror"))
             a == Attrs("", "tenant_selection")
  <2>1. PICK q \in Requests : AnswerAtOnce(h, q, r, a)
    BY <1>7 DEF SelectionFails
  <2>2. AnswerFits(q, r, a)
    BY <1>1, ResultFits
  <2> HIDE DEF r, a
  <2> QED
    BY <2>1, <2>2, AnswerStep
<1>8. CASE ArgumentsInvalid(h)
  <2> DEFINE r == Stamped(reg, RPCError(InvalidParams))
             a(t) == Attrs(t, "invalid_params")
  <2>1. PICK q \in Requests, t \in DOMAIN reg : Routed(q, t) /\ AnswerAtOnce(h, q, r, a(t))
    BY <1>8 DEF ArgumentsInvalid
  <2>2. t \in Authorized(cfg, reg, q)
    BY <2>1, RoutedAuthorized
  <2>3. AnswerFits(q, r, a(t))
    BY <1>1, OtherCodes, <2>2, ErrorFits
  <2> HIDE DEF r, a
  <2> QED
    BY <2>1, <2>3, AnswerStep
<1>9. CASE SessionMissing(h)
  <2> DEFINE r == Stamped(reg, RPCError(SessionNotFound))
             a(t) == Attrs(t, "backend_error")
  <2>1. PICK q \in Requests, t \in DOMAIN reg :
           /\ Routed(q, t) /\ reg[t].backend.version = StatefulVersion
           /\ AnswerAtOnce(h, q, r, a(t))
    BY <1>9 DEF SessionMissing
  <2>2. t \in Authorized(cfg, reg, q)
    BY <2>1, RoutedAuthorized
  <2>3. ~AllFilesStateless
    BY <1>1, <2>1, StatelessRegistry DEF StatefulVersion, StatelessVersion
  <2>4. AnswerFits(q, r, a(t))
    BY <1>1, <2>2, <2>3, OtherCodes, ErrorFits DEF SessionErrors
  <2> HIDE DEF r, a
  <2> QED
    BY <2>1, <2>4, AnswerStep
<1>10. CASE MetaPanics(h)
  <2> DEFINE r == Response(0, "dropped")
             a(t) == Attrs(t, "")
  <2>1. PICK q \in Requests, t \in DOMAIN reg : Routed(q, t) /\ AnswerAtOnce(h, q, r, a(t))
    BY <1>10 DEF MetaPanics
  <2>2. t \in Authorized(cfg, reg, q)
    BY <2>1, RoutedAuthorized
  <2>3. r.body = "dropped" /\ r.code = 0 /\ ~r.session
    BY PlainResponse
  <2>4. a(t).tenant = t /\ a(t).error = ""
    BY AttrsFields
  <2> HIDE DEF r, a
  <2>5. StatelessFits(q, r)
    BY <2>3, OtherCodes, Zenon DEF StatelessFits
  <2>6. OwnError(r) = ""
    BY <2>3, OwnErrors
  <2>7. CountedFits(q, r, a(t))
    BY <2>2, <2>4, <2>6, Zenon DEF CountedFits
  <2> QED
    BY <2>1, <2>5, <2>7, AnswerStep DEF AnswerFits
<1> QED
  BY <1>2, <1>3, <1>4, <1>5, <1>6, <1>7, <1>8, <1>9, <1>10
-----------------------------------------------------------------------------
(* The exchange with a backend *)

PostFields == {"kind", "tenant", "args", "tool", "headers", "session", "version", "named", "meta"}

\* backendClient.post: whom a message is for, and what it has in the revision of its backend.
LEMMA Posts ==
  ASSUME NEW g, NEW t, NEW kind, NEW session, NEW extra, NEW tool, NEW args
  PROVE  LET m == Post(g, t, kind, session, extra, tool, args)
             stateless == g[t].backend.version = StatelessVersion
         IN  /\ DOMAIN m = PostFields
             /\ m.tenant = t /\ m.kind = kind
             /\ m.session = (session /\ ~stateless)
             /\ m.version = stateless
             /\ m.meta = (stateless /\ kind = "call")
BY DEF Post, PostFields

\* What it says, and to whom it introduces itself; Mcp-Name only if the tool has a name.
LEMMA PostedContent ==
  ASSUME NEW g, NEW t, NEW kind, NEW session, NEW extra, NEW tool, NEW args
  PROVE  LET m == Post(g, t, kind, session, extra, tool, args)
         IN  /\ m.tool = tool /\ m.args = args
             /\ m.headers = ApplyAuth(g[t].backend, Of(g)!EffectiveCredential(t), extra)
BY DEF Post

LEMMA PostedName ==
  ASSUME NEW g, NEW t, NEW kind, NEW session, NEW extra, NEW tool, NEW args
  PROVE  LET m == Post(g, t, kind, session, extra, tool, args)
             stateless == g[t].backend.version = StatelessVersion
         IN  stateless => (m.named <=> m.tool # "")
BY DEF Post

\* A call is for its tenant, and has the arguments and the headers of its request.
LEMMA CallContent ==
  ASSUME NEW g, NEW t, NEW q, NEW session, NEW extra
  PROVE  LET c == CallMessage(g, t, q, session, extra)
         IN  /\ c.tenant = t /\ c.tool = q.tool /\ c.args = StripTenantArg(q.args)
             /\ c.headers = ApplyAuth(g[t].backend, Of(g)!EffectiveCredential(t),
                                      Overlay(Plain(g[t].headers), extra))
<1> DEFINE over == Overlay(Plain(g[t].headers), extra)
           args == StripTenantArg(q.args)
           c == Post(g, t, "call", session, over, q.tool, args)
<1>1. CallMessage(g, t, q, session, extra) = c
  BY Zenon DEF CallMessage
<1> HIDE DEF over, args
<1>2. /\ c.tenant = t /\ c.tool = q.tool /\ c.args = args
      /\ c.headers = ApplyAuth(g[t].backend, Of(g)!EffectiveCredential(t), over)
  <2>1. c.tenant = t
    BY Posts
  <2> QED
    BY <2>1, PostedContent
<1> HIDE DEF c
<1> QED
  BY <1>1, <1>2, Zenon DEF over, args

\* The same for initialize and notifications/initialized.
LEMMA Handshakes ==
  ASSUME NEW g, NEW t, NEW kind, kind # "call"
  PROVE  LET m == Handshake(g, t, kind)
             stateless == g[t].backend.version = StatelessVersion
         IN  m.tenant = t /\ m.kind = kind /\ m.version = stateless /\ ~m.meta
BY DEF Handshake, Post

\* routeToBackend: the session id of a call is that of the session it has just opened.
LEMMA WithSession ==
  ASSUME NEW g, NEW t, NEW q, NEW old \in BOOLEAN, NEW sid \in BOOLEAN, NEW extra,
         g[t].backend.version = StatefulVersion
  PROVE  [CallMessage(g, t, q, old, extra) EXCEPT !.session = sid] = CallMessage(g, t, q, sid, extra)
<1> DEFINE stateless == g[t].backend.version = StatelessVersion
           named == stateless /\ q.tool # ""
           m(s) == [kind |-> "call", tenant |-> t, args |-> StripTenantArg(q.args), tool |-> q.tool,
                    headers |-> ApplyAuth(g[t].backend, Of(g)!EffectiveCredential(t),
                                          Overlay(Plain(g[t].headers), extra)),
                    session |-> s, version |-> stateless,
                    named |-> named, meta |-> stateless /\ "call" = "call"]
<1>1. ~stateless
  BY DEF StatefulVersion, StatelessVersion
<1>2. \A s \in BOOLEAN : (s /\ ~stateless) = s
  BY <1>1, Zenon
<1>3. \A s : CallMessage(g, t, q, s, extra) = m(s /\ ~stateless)
  BY DEF CallMessage, Post
<1> HIDE DEF named
<1>4. CallMessage(g, t, q, old, extra) = m(old) /\ CallMessage(g, t, q, sid, extra) = m(sid)
  BY <1>2, <1>3
<1>5. [m(old) EXCEPT !.session = sid] = m(sid)
  OBVIOUS
<1> QED
  BY <1>4, <1>5

\* A handler that waits for its backend.
LEMMA WaitingHandler ==
  ASSUME NEW h \in Handlers, pc'[h] \in {"open", "notify", "call"}, UNCHANGED lifeVars,
         srv # "new", Planned(h)', Exchange(h)'
  PROVE  HandlerInv(h)'
BY DEF HandlerInv

\* A handler has planned the call that its request is routed to.
LEMMA PlannedAfter ==
  ASSUME NEW h \in Handlers, UNCHANGED lifeVars, NEW q \in Requests, NEW t \in DOMAIN reg,
         Routed(q, t), Strippable(q.args), NEW session \in BOOLEAN,
         NEW extra \in ForwardHeaders(q),
         req'[h] = q, plan'[h] = CallMessage(reg, t, q, session, extra)
  PROVE  Planned(h)' /\ plan'[h].tenant = t
<1>1. plan'[h].tenant = t
  BY CallContent
<1>2. Routed(q, t)'
  BY DEF Routed, ToTenant, Accepted
<1>3. plan'[h] = CallMessage(reg', t, q, session, extra)
  OBVIOUS
<1> QED
  BY <1>1, <1>2, <1>3 DEF Planned

\* handleToolsCall up to the first message to the backend: the call itself, or initialize.
LEMMA FirstMessage ==
  ASSUME Core, NEW h \in Handlers, Accepting(h), Forward(h) \/ OpenSession(h)
  PROVE  Core'
<1>1. TypeHandlers /\ HandlerInv(h) /\ sent[h] = <<>>
  BY Parts DEF TypeOK, TypeHandlers, Handled, HandlerInv, Exchange, Accepting
<1>2. CASE Forward(h)
  <2>1. PICK q \in Requests, t \in DOMAIN reg, known \in BOOLEAN :
           /\ Routed(q, t) /\ Strippable(q.args) /\ Take(h, q)
           /\ \E extra \in ForwardHeaders(q) :
                 /\ plan' = [plan EXCEPT ![h] = CallMessage(reg, t, q, known, extra)]
                 /\ Send(h, CallMessage(reg, t, q, known, extra))
           /\ pc' = [pc EXCEPT ![h] = "call"]
           /\ UNCHANGED <<lifeVars, reply, resp, out>>
    BY <1>2 DEF Forward
  <2>2. PICK extra \in ForwardHeaders(q) :
           /\ plan' = [plan EXCEPT ![h] = CallMessage(reg, t, q, known, extra)]
           /\ Send(h, CallMessage(reg, t, q, known, extra))
    BY <2>1
  <2> DEFINE m == CallMessage(reg, t, q, known, extra)
  <2>3. plan'[h] = m /\ req'[h] = q /\ pc'[h] = "call"
    BY <1>1, <2>1, <2>2 DEF TypeHandlers, Take
  <2>4. Planned(h)'
    BY <2>1, <2>3, PlannedAfter
  <2> HIDE DEF m
  <2>5. sent' = [sent EXCEPT ![h] = <<m>>]
    BY <1>1, <2>2 DEF Send, m
  <2>6. Exchange(h)'
    BY <1>1, <2>3, <2>5 DEF TypeHandlers, Exchange
  <2>7. HandlerInv(h)'
    BY <2>1, <2>3, <2>4, <2>6, WaitingHandler DEF Accepting
  <2>8. TypeHandlers' /\ \A k \in Handlers \ {h} : Same(k)
    BY <1>1, <2>1, <2>2, <2>5 DEF TypeHandlers, Same, Take
  <2> QED
    BY <2>1, <2>7, <2>8, OneHandler
<1>3. CASE OpenSession(h)
  <2>1. PICK q \in Requests, t \in DOMAIN reg :
           /\ Routed(q, t) /\ Strippable(q.args) /\ Take(h, q)
           /\ reg[t].backend.version = StatefulVersion
           /\ \E extra \in ForwardHeaders(q) :
                 plan' = [plan EXCEPT ![h] = CallMessage(reg, t, q, FALSE, extra)]
           /\ Send(h, Handshake(reg, t, "initialize"))
           /\ pc' = [pc EXCEPT ![h] = "open"]
           /\ UNCHANGED <<lifeVars, reply, resp, out>>
    BY <1>3 DEF OpenSession
  <2>2. PICK extra \in ForwardHeaders(q) :
           plan' = [plan EXCEPT ![h] = CallMessage(reg, t, q, FALSE, extra)]
    BY <2>1
  <2> DEFINE m == Handshake(reg, t, "initialize")
  <2>3. /\ plan'[h] = CallMessage(reg, t, q, FALSE, extra)
        /\ req'[h] = q /\ pc'[h] = "open"
    BY <1>1, <2>1, <2>2 DEF TypeHandlers, Take
  <2>4. Planned(h)' /\ plan'[h].tenant = t
    BY <2>1, <2>3, PlannedAfter
  <2>5. m = Handshake(reg', t, "initialize")
    BY <2>1
  <2> HIDE DEF m
  <2>6. sent' = [sent EXCEPT ![h] = <<m>>]
    BY <1>1, <2>1 DEF Send, m
  <2>7. sent'[h] = <<m>>
    BY <1>1, <2>6 DEF TypeHandlers
  <2>8. Exchange(h)'
    BY <2>1, <2>3, <2>4, <2>5, <2>7 DEF Exchange
  <2>9. HandlerInv(h)'
    BY <2>1, <2>3, <2>4, <2>8, WaitingHandler DEF Accepting
  <2>10. TypeHandlers' /\ \A k \in Handlers \ {h} : Same(k)
    BY <1>1, <2>1, <2>2, <2>6 DEF TypeHandlers, Same, Take
  <2> QED
    BY <2>1, <2>9, <2>10, OneHandler
<1> QED
  BY <1>2, <1>3

\* routeToBackend after initialize: the notification and the call follow, on the session that
\* was opened.
LEMMA NextMessage ==
  ASSUME Core, NEW h \in Handlers, OpenAnswered(h) \/ Notified(h)
  PROVE  Core'
<1>1. TypeHandlers /\ HandlerInv(h) /\ pc[h] \in {"open", "notify"}
  BY Parts DEF TypeOK, TypeHandlers, Handled, OpenAnswered, Notified
<1> DEFINE q == req[h]
           t == plan[h].tenant
           i == Handshake(reg, t, "initialize")
           n == Handshake(reg, t, "initialized")
<1>2. /\ q \in Requests /\ t \in DOMAIN reg /\ Routed(q, t) /\ Strippable(q.args)
      /\ srv # "new" /\ reg[t].backend.version = StatefulVersion
  BY <1>1 DEF HandlerInv, Planned, Exchange
<1>3. PICK old \in BOOLEAN, extra \in ForwardHeaders(q) :
         plan[h] = CallMessage(reg, t, q, old, extra)
  BY <1>1 DEF HandlerInv, Planned
<1>4. CASE OpenAnswered(h)
  <2>1. PICK rep \in Replies :
           LET m == [plan[h] EXCEPT !.session = rep.sid]
           IN  /\ pc[h] = "open" /\ Receive(h, rep) /\ Opened(rep)
               /\ plan' = [plan EXCEPT ![h] = m]
               /\ Send(h, IF rep.sid THEN Handshake(reg, m.tenant, "initialized") ELSE m)
               /\ pc' = [pc EXCEPT ![h] = IF rep.sid THEN "notify" ELSE "call"]
               /\ UNCHANGED <<lifeVars, req, resp, out>>
    BY <1>4 DEF OpenAnswered
  <2>2. rep.sid \in BOOLEAN
    BY ServiceAssumption
  <2> DEFINE m == CallMessage(reg, t, q, rep.sid, extra)
  <2>3. [plan[h] EXCEPT !.session = rep.sid] = m
    <3> HIDE DEF q, t
    <3>1. [CallMessage(reg, t, q, old, extra) EXCEPT !.session = rep.sid] = m
      <4> DEFINE sid == rep.sid
      <4>1. sid \in BOOLEAN
        BY <2>2
      <4> HIDE DEF sid
      <4>2. [CallMessage(reg, t, q, old, extra) EXCEPT !.session = sid] =
            CallMessage(reg, t, q, sid, extra)
        BY <1>2, <4>1, WithSession
      <4> QED
        BY <4>2 DEF sid
    <3> QED
      BY <1>3, <3>1, Zenon
  <2>4. m.tenant = t
    BY CallContent
  <2> DEFINE s == IF rep.sid THEN n ELSE m
  <2>5. /\ plan' = [plan EXCEPT ![h] = m] /\ reply' = [reply EXCEPT ![h] = rep]
        /\ sent' = [sent EXCEPT ![h] = Append(sent[h], s)]
        /\ pc' = [pc EXCEPT ![h] = IF rep.sid THEN "notify" ELSE "call"]
        /\ UNCHANGED <<lifeVars, req, resp, out>>
    <3> DEFINE p == [plan[h] EXCEPT !.session = rep.sid]
    <3>1. /\ plan' = [plan EXCEPT ![h] = p] /\ reply' = [reply EXCEPT ![h] = rep]
          /\ sent' = [sent EXCEPT ![h] =
                         Append(sent[h], IF rep.sid THEN Handshake(reg, p.tenant, "initialized")
                                                   ELSE p)]
          /\ pc' = [pc EXCEPT ![h] = IF rep.sid THEN "notify" ELSE "call"]
          /\ UNCHANGED <<lifeVars, req, resp, out>>
      BY <2>1 DEF Receive, Send
    <3>2. p = m
      BY <2>3
    <3> HIDE DEF p, m
    <3> QED
      BY <3>1, <3>2, <2>4
  <2>6. plan'[h] = m /\ reply'[h] = rep /\ req'[h] = q
    BY <1>1, <2>5 DEF TypeHandlers
  <2>7. Planned(h)' /\ plan'[h].tenant = t
    BY <1>2, <2>2, <2>5, <2>6, PlannedAfter
  <2>8. sent[h] = <<i>>
    BY <1>1, <2>1 DEF HandlerInv, Exchange
  <2>9. /\ i = Handshake(reg', t, "initialize") /\ n = Handshake(reg', t, "initialized")
        /\ reg'[t].backend.version = StatefulVersion
    BY <1>2, <2>5
  <2> HIDE DEF q, t, i, n, m, s
  <2>10. sent' = [sent EXCEPT ![h] = <<i, s>>]
    BY <2>5, <2>8, AppendSecond
  <2>11. sent'[h] = <<i, s>>
    BY <1>1, <2>10 DEF TypeHandlers
  <2>12. Exchange(h)' /\ pc'[h] \in {"open", "notify", "call"}
    <3>1. CASE rep.sid
      <4>1. pc'[h] = "notify" /\ sent'[h] = <<i, n>>
        BY <1>1, <2>5, <2>11, <3>1 DEF TypeHandlers, s
      <4> QED
        BY <2>1, <2>6, <2>7, <2>9, <4>1 DEF Exchange
    <3>2. CASE ~rep.sid
      <4>1. pc'[h] = "call" /\ sent'[h] = <<i, m>>
        BY <1>1, <2>5, <2>11, <3>2 DEF TypeHandlers, s
      <4> QED
        BY <2>1, <2>6, <2>7, <2>9, <4>1 DEF Exchange
    <3> QED
      BY <3>1, <3>2
  <2>13. HandlerInv(h)'
    BY <1>2, <2>5, <2>7, <2>12, WaitingHandler
  <2>14. TypeHandlers' /\ \A k \in Handlers \ {h} : Same(k)
    BY <1>1, <2>5, <2>10 DEF TypeHandlers, Same
  <2> QED
    BY <2>5, <2>13, <2>14, OneHandler
<1>5. CASE Notified(h)
  <2> DEFINE m == plan[h]
  <2>1. /\ pc[h] = "notify" /\ sent' = [sent EXCEPT ![h] = Append(sent[h], m)]
        /\ pc' = [pc EXCEPT ![h] = "call"]
        /\ UNCHANGED <<lifeVars, req, plan, reply, resp, out>>
    BY <1>5 DEF Notified, Send
  <2>2. Planned(h)' /\ plan'[h].tenant = t
    BY <1>2, <1>3, <2>1, PlannedAfter
  <2>3. sent[h] = <<i, n>> /\ Opened(reply[h])
    BY <1>1, <2>1 DEF HandlerInv, Exchange
  <2>4. /\ i = Handshake(reg', t, "initialize") /\ n = Handshake(reg', t, "initialized")
        /\ reg'[t].backend.version = StatefulVersion /\ m = plan'[h]
    BY <1>2, <2>1
  <2> HIDE DEF q, t, i, n, m
  <2>5. sent' = [sent EXCEPT ![h] = <<i, n, m>>]
    BY <2>1, <2>3, AppendThird
  <2>6. sent'[h] = <<i, n, m>> /\ pc'[h] = "call"
    BY <1>1, <2>1, <2>5 DEF TypeHandlers
  <2>7. Exchange(h)'
    BY <2>1, <2>2, <2>3, <2>4, <2>6 DEF Exchange
  <2>8. HandlerInv(h)'
    BY <1>2, <2>1, <2>2, <2>6, <2>7, WaitingHandler
  <2>9. TypeHandlers' /\ \A k \in Handlers \ {h} : Same(k)
    BY <1>1, <2>1, <2>5 DEF TypeHandlers, Same
  <2> QED
    BY <2>1, <2>8, <2>9, OneHandler
<1> QED
  BY <1>4, <1>5

\* routeToBackend's end: the answer of the backend is relayed, or its failure reported, for a
\* tenant that the caller may use.
LEMMA LastMessage ==
  ASSUME Core, NEW h \in Handlers, OpenFails(h) \/ CallFails(h) \/ CallAnswered(h)
  PROVE  Core'
<1>1. HandlerInv(h) /\ pc[h] \in {"open", "call"}
  BY Parts DEF Handled, OpenFails, CallFails, CallAnswered
<1> DEFINE q == req[h]
           t == plan[h].tenant
<1>2. srv # "new" /\ Routed(q, t) /\ t \in DOMAIN reg
  BY <1>1 DEF HandlerInv, Planned
<1>3. HasRegistry /\ raw \in RawConfigs
  BY <1>2, Serving
<1>4. t \in Authorized(cfg, reg, q)
  BY <1>2, RoutedAuthorized
<1>5. CASE OpenFails(h)
  <2> DEFINE r == Stamped(reg, RPCError(SessionNotOpened))
             a == Attrs(t, "backend_error")
  <2>1. PICK rep \in Replies : /\ pc[h] = "open" /\ Respond(h, r, a)
                               /\ reply' = [reply EXCEPT ![h] = rep]
                               /\ UNCHANGED <<lifeVars, req>>
    BY <1>5 DEF OpenFails, BackendFails, Receive
  <2>2. reg[t].backend.version = StatefulVersion
    BY <1>1, <2>1 DEF HandlerInv, Exchange
  <2>3. ~AllFilesStateless
    BY <1>2, <1>3, <2>2, StatelessRegistry DEF StatefulVersion, StatelessVersion
  <2>4. AnswerFits(q, r, a)
    BY <1>3, <1>4, <2>3, OtherCodes, ErrorFits DEF SessionErrors
  <2> HIDE DEF r, a
  <2> QED
    BY <1>1, <2>1, <2>4, RespondStep
<1>6. CASE CallFails(h)
  <2> DEFINE r == Stamped(reg, RPCError(BackendCallFailed))
             a == Attrs(t, "backend_error")
  <2>1. PICK rep \in Replies : /\ Respond(h, r, a)
                               /\ reply' = [reply EXCEPT ![h] = rep]
                               /\ UNCHANGED <<lifeVars, req>>
    BY <1>6 DEF CallFails, BackendFails, Receive
  <2>2. AnswerFits(q, r, a)
    BY <1>3, <1>4, OtherCodes, ErrorFits
  <2> HIDE DEF r, a
  <2> QED
    BY <1>1, <2>1, <2>2, RespondStep
<1>7. CASE CallAnswered(h)
  <2> DEFINE l == Response(200, "relay")
             r(payload) == [l EXCEPT !.payload = payload]
             a == Attrs(t, "")
  <2>1. PICK rep \in Replies : /\ \E payload \in Posted(rep) : Respond(h, Stamped(reg, r(payload)), a)
                               /\ reply' = [reply EXCEPT ![h] = rep]
                               /\ UNCHANGED <<lifeVars, req>>
    BY <1>7 DEF CallAnswered, Receive
  <2>2. PICK payload \in Posted(rep) : Respond(h, Stamped(reg, r(payload)), a)
    BY <2>1
  <2>3. DOMAIN l = ResponseFields /\ l.body = "relay" /\ l.code = 0 /\ ~l.session
    BY PlainResponse
  <2> HIDE DEF l
  <2> DEFINE p == r(payload)
  <2>4. DOMAIN p = ResponseFields /\ p.body = "relay" /\ p.code = 0 /\ ~p.session
    BY <2>3 DEF ResponseFields
  <2> HIDE DEF p
  <2>5. StatelessFits(q, Stamped(reg, p))
    BY <1>3, <2>4, OtherCodes, StampedFits
  <2>6. OwnError(p) = ""
    BY <2>4, OwnErrors
  <2>7. CountedFits(q, Stamped(reg, p), a)
    BY <1>4, <2>4, <2>6, CountedStamped, Zenon
  <2>8. AnswerFits(q, Stamped(reg, p), a)
    BY <2>5, <2>7, Zenon DEF AnswerFits
  <2> HIDE DEF a
  <2> QED
    BY <1>1, <2>1, <2>2, <2>8, RespondStep DEF p
<1> QED
  BY <1>5, <1>6, <1>7

\* The handler returns.
LEMMA CloseStep ==
  ASSUME Core, NEW h \in Handlers, Close(h)
  PROVE  Core'
<1>1. TypeHandlers /\ HandlerInv(h)
  BY Parts DEF TypeOK, TypeHandlers, Handled
<1>2. pc'[h] = "idle" /\ sent'[h] = <<>>
  BY <1>1 DEF Close, TypeHandlers, HandlerInv, Exchange
<1>3. HandlerInv(h)'
  BY <1>2, IdleHandler
<1>4. TypeHandlers' /\ \A k \in Handlers \ {h} : Same(k)
  BY <1>1 DEF TypeHandlers, Same, Close
<1> QED
  BY <1>3, <1>4, OneHandler DEF Close
-----------------------------------------------------------------------------
(* The invariant of the service *)

\* The initial states have it.
LEMMA InitialService == Init => Core
<1> SUFFICES ASSUME Init PROVE Core
  OBVIOUS
<1>1. TypeOK
  BY DEF Init, TypeOK, Starting
<1>2. Lifetime
  <2>1. code # 0
    <3>1. None \notin Nat
      BY ServiceAssumption, Zenon
    <3> QED
      BY <3>1 DEF Init
  <2> QED
    BY <2>1 DEF Init, Lifetime, Starting
<1>3. Handled
  BY DEF Init, Handled, HandlerInv, Exchange
<1> QED
  BY <1>1, <1>2, <1>3, Parts

\* Every step keeps it.
LEMMA StepService == Core /\ [Next]_vars => Core'
<1> SUFFICES ASSUME Core, [Next]_vars PROVE Core'
  OBVIOUS
<1>1. TypeOK /\ Lifetime /\ Handled
  BY Parts
<1>2. CASE LifeSteps
  <2>1. TypeOK' /\ Lifetime'
    BY <1>1, <1>2, LifeTyped, LifeInvariant
  <2>2. /\ UNCHANGED <<raw, reqVars>>
        /\ srv # "new" => srv' # "new" /\ UNCHANGED <<cfg, reg>>
    BY <1>1, <1>2, RegistryFixed
  <2>3. ASSUME NEW h \in Handlers PROVE HandlerInv(h)'
    <3>1. HandlerInv(h)
      BY <1>1 DEF Handled
    <3>2. CASE pc[h] = "idle"
      <4>1. pc'[h] = "idle" /\ sent'[h] = <<>>
        BY <2>2, <3>1, <3>2 DEF HandlerInv, Exchange
      <4> QED
        BY <4>1, IdleHandler
    <3>3. CASE pc[h] # "idle"
      <4>1. srv # "new"
        BY <3>1, <3>3 DEF HandlerInv
      <4>2. Same(h)
        BY <2>2 DEF Same
      <4> QED
        BY <2>2, <3>1, <4>1, <4>2, OtherHandlers
    <3> QED
      BY <3>2, <3>3
  <2>4. Handled'
    BY <2>3 DEF Handled
  <2> QED
    BY <2>1, <2>4, PartsAfter
<1>3. CASE UNCHANGED vars
  <2>1. PICK h \in Handlers : TRUE
    BY ServiceAssumption
  <2>2. UNCHANGED lifeVars /\ UNCHANGED reqVars
    BY <1>3 DEF vars
  <2>3. TypeHandlers'
    BY <1>1, <2>2 DEF TypeOK, TypeHandlers
  <2>4. \A k \in Handlers : Same(k)
    BY <2>2 DEF Same
  <2>5. HandlerInv(h)'
    BY <1>1, <2>2, <2>4, OtherHandlers DEF Handled
  <2> QED
    BY <2>2, <2>3, <2>4, <2>5, OneHandler
<1>4. ASSUME NEW h \in Handlers, Arrive(h) PROVE Core'
  BY <1>4, AnswerActions, FirstMessage DEF Arrive, HandleToolsCall
<1>5. ASSUME NEW h \in Handlers, Proceed(h) PROVE Core'
  BY <1>5, NextMessage, LastMessage DEF Proceed
<1>6. ASSUME NEW h \in Handlers, Close(h) PROVE Core'
  BY <1>6, CloseStep
<1> QED
  BY <1>2, <1>3, <1>4, <1>5, <1>6, Zenon DEF Next, LifeSteps, Stopped

\* It holds in every reachable state.
LEMMA CoreInvariant == Spec => []Core
BY InitialService, StepService, PTL DEF Spec

\* Every variable has its type, and a backend that is served its defaults (registry.New).
THEOREM ServiceTyped == Spec => []TypeOK
<1>1. Core => TypeOK
  BY Zenon DEF Core
<1> QED
  BY <1>1, CoreInvariant, PTL

\* run exits with 0 only after a signal, and not before it has flushed the telemetry that it
\* has set up.
THEOREM TruthfulExit == Spec => []ExitTellsTheTruth
<1>1. Core => ExitTellsTheTruth
  BY DEF Core, Lifetime, ExitTellsTheTruth
<1> QED
  BY <1>1, CoreInvariant, PTL

\* Load and registry.New: each tenant of the file is served with its groups on its backend, and
\* no variable is missing, or there is no registry.
THEOREM FileServed == Spec => []FileServedAsWritten
<1>1. ASSUME Core PROVE FileServedAsWritten
  <2> SUFFICES ASSUME reg # None, NEW p \in Places(raw)
               PROVE  LET t == TenantAt(raw, p)
                          b == raw.backends[p[1]]
                      IN  /\ t.id \in DOMAIN reg
                          /\ reg[t.id].groups = t.groups
                          /\ reg[t.id].backend.name = b.name
                          /\ \A s \in BackendSecrets(b) : \A v \in RefsIn(s) : ~IsUnset(v)
    BY Zenon DEF FileServedAsWritten
  <2>0. raw \in RawConfigs /\ HasRegistry
    BY <1>1 DEF Core, TypeOK, Lifetime
  <2>1. Serves(reg, raw)
    BY <2>0, Served
  <2>2. TenantAt(raw, p).id \in DOMAIN reg
    <3>1. DOMAIN reg = {TenantAt(raw, x).id : x \in Places(raw)}
      BY <2>1, ServedAsWritten, Zenon
    <3> QED
      BY <3>1
  <2> QED
    BY <2>1, <2>2, ServedAsWritten, Zenon
<1> QED
  BY <1>1, CoreInvariant, PTL

\* An all-stateless deployment hands out no session, asks for none, and stamps what it answers
\* (handleInitialize, routeToBackend, ServeHTTP).
THEOREM StatelessServed == Spec => []StatelessDeployment
<1>1. Core => StatelessDeployment
  BY Zenon DEF Core
<1> QED
  BY <1>1, CoreInvariant, PTL

\* RecordToolCall: on every way out of handleToolsCall the error type is that of the error the
\* proxy itself reports, none for what it relays, and the tenant one that the caller may use.
THEOREM OwnErrorsCounted == Spec => []CountsOwnErrors
<1>1. Core => CountsOwnErrors
  BY Zenon DEF Core
<1> QED
  BY <1>1, CoreInvariant, PTL
-----------------------------------------------------------------------------
(* Where what a response carries comes from *)

\* What Responses says of one response, to request q and with the last answer rep.
OriginFits(q, rep, r) ==
    /\ r.status \in {401, 403} => r.url = MetadataURL(cfg, q)
    /\ r.body = "relay" => rep \in Replies /\ r.payload \in Posted(rep)

\* A response that is no challenge and relays nothing.
Unremarkable(r) == DOMAIN r = ResponseFields /\ r.status \notin {401, 403} /\ r.body # "relay"

\* It stays so with the version header.
LEMMA StampedUnremarkable ==
  ASSUME NEW r, Unremarkable(r)
  PROVE  /\ Stamped(reg, r).status \notin {401, 403}
         /\ Stamped(reg, r).body # "relay"
BY StampedResponse DEF Unremarkable

\* Most responses are such.
LEMMA Unremarkables ==
  /\ \A body : body # "relay" => Unremarkable(Response(200, body))
  /\ \A body : body # "relay" => Unremarkable(Response(202, body))
  /\ \A body : body # "relay" => Unremarkable(Response(204, body))
  /\ \A body : body # "relay" => Unremarkable(Response(405, body))
  /\ \A n : Unremarkable(RPCError(n))
<1>1. ASSUME NEW status \in {200, 202, 204, 405}, NEW body, body # "relay"
      PROVE  Unremarkable(Response(status, body))
  BY <1>1, PlainResponse DEF Unremarkable
<1>2. ASSUME NEW n PROVE Unremarkable(RPCError(n))
  BY ErrorResponse DEF Unremarkable
<1> QED
  BY <1>1, <1>2

\* ServeHTTP, healthz and the metadata document.
LEMMA LocalUnremarkable ==
  ASSUME NEW q
  PROVE  LET r == LocalAnswer(cfg, reg, q) IN r.status \notin {401, 403} /\ r.body # "relay"
<1>1. Unremarkable(Metadata(cfg, q))
  <2> DEFINE r == Response(200, "metadata")
  <2>1. Unremarkable(r)
    BY Unremarkables
  <2> HIDE DEF r
  <2>2. Metadata(cfg, q) = [r EXCEPT !.url = ResourceURL(cfg, q)]
    BY DEF Metadata, r
  <2> QED
    BY <2>1, <2>2 DEF Unremarkable, ResponseFields
<1>2. Unremarkable(EarlyAnswer(q)) /\ Unremarkable(Response(200, "text"))
  BY Unremarkables DEF EarlyAnswer
<1>3. Unremarkable(MethodAnswer(reg, q))
  <2>1. Unremarkable(Initialize(reg))
    <3> DEFINE r == Response(200, "result")
    <3>1. Unremarkable(r)
      BY Unremarkables
    <3> HIDE DEF r
    <3>2. Initialize(reg) = [r EXCEPT !.session = ~Of(reg)!AllStateless]
      BY DEF Initialize, r
    <3> QED
      BY <3>1, <3>2 DEF Unremarkable, ResponseFields
  <2> QED
    BY <2>1, Unremarkables DEF MethodAnswer
<1>4. /\ Stamped(reg, MethodAnswer(reg, q)).status \notin {401, 403}
      /\ Stamped(reg, MethodAnswer(reg, q)).body # "relay"
  BY <1>3, StampedUnremarkable
<1> QED
  BY <1>1, <1>2, <1>4 DEF LocalAnswer, Unremarkable

\* A step of one handler, which has responded as it should or not responded.
LEMMA OneResponse ==
  ASSUME Responses, NEW h \in Handlers, UNCHANGED lifeVars,
         \A k \in Handlers \ {h} : Same(k),
         pc'[h] = "done" => OriginFits(req'[h], reply'[h], resp'[h])
  PROVE  Responses'
BY DEF Responses, OriginFits, Done, Same

\* An answer that goes out in the step that takes the request.
LEMMA OriginAtOnce ==
  ASSUME Core, Responses, NEW h \in Handlers, NEW q \in Requests, NEW r, NEW a,
         AnswerAtOnce(h, q, r, a), OriginFits(q, reply[h], r)
  PROVE  Responses'
<1> USE DEF AnswerAtOnce, Take, Respond
<1>1. TypeHandlers
  BY DEF Core, TypeOK, TypeHandlers
<1>2. \A k \in Handlers \ {h} : Same(k)
  BY <1>1 DEF TypeHandlers, Same
<1>3. req'[h] = q /\ reply'[h] = reply[h] /\ resp'[h] = r
  BY <1>1 DEF TypeHandlers
<1> QED
  BY <1>2, <1>3, OneResponse

\* ServeHTTP: among the answers that go out at once, only the refusal of a token is a challenge,
\* and it names the metadata document for its request.
LEMMA OriginActions ==
  ASSUME Core, Responses, NEW h \in Handlers,
         \/ AnswerLocally(h) \/ HandleToolsList(h) \/ CallRefused(h) \/ CallInvalid(h)
         \/ ListInstances(h) \/ SelectionFails(h) \/ ArgumentsInvalid(h) \/ SessionMissing(h)
         \/ MetaPanics(h)
  PROVE  Responses'
<1>1. ASSUME NEW q \in Requests, NEW r, NEW a, AnswerAtOnce(h, q, r, a),
             r.status \notin {401, 403}, r.body # "relay"
      PROVE  Responses'
  <2>1. OriginFits(q, reply[h], r)
    BY <1>1 DEF OriginFits
  <2> QED
    BY <1>1, <2>1, OriginAtOnce
<1>2. ASSUME NEW q \in Requests, NEW r, NEW a, AnswerAtOnce(h, q, Stamped(reg, r), a), Unremarkable(r)
      PROVE  Responses'
  BY <1>1, <1>2, StampedUnremarkable
<1>3. CASE AnswerLocally(h)
  BY <1>1, <1>3, LocalUnremarkable DEF AnswerLocally
<1>4. CASE HandleToolsList(h)
  <2>1. PICK q \in Requests : \E au, lists :
           AnswerAtOnce(h, q, Stamped(reg, ListAnswer(au, lists)), None)
    BY <1>4, Zenon DEF HandleToolsList
  <2>2. ASSUME NEW au, NEW lists PROVE Unremarkable(ListAnswer(au, lists))
    <3> DEFINE l == Response(200, "list")
               r(listed) == [l EXCEPT !.listed = listed]
    <3>1. \E listed : ListAnswer(au, lists) = IF DOMAIN lists = {} THEN RPCError(InternalError)
                                                                  ELSE r(listed)
      BY Zenon DEF ListAnswer
    <3>2. Unremarkable(l)
      BY Unremarkables
    <3> HIDE DEF l
    <3>3. \A x : Unremarkable(r(x))
      BY <3>2 DEF Unremarkable, ResponseFields
    <3> HIDE DEF r
    <3> QED
      BY <3>1, <3>3, Unremarkables
  <2> QED
    BY <1>2, <2>1, <2>2
<1>5. CASE CallRefused(h)
  <2>1. PICK q \in Requests :
           LET err == VerifierGroups(cfg.auth, q.auth).err
           IN  AnswerAtOnce(h, q, Stamped(reg, Challenge(cfg, q, err)), Attrs("", err))
    BY <1>5 DEF CallRefused
  <2> DEFINE err == VerifierGroups(cfg.auth, q.auth).err
             p   == Response(IF err = "insufficient_scope" THEN 403 ELSE 401, "error")
             r   == Challenge(cfg, q, err)
             u   == MetadataURL(cfg, q)
  <2>2. AnswerAtOnce(h, q, Stamped(reg, r), Attrs("", err))
    BY <2>1
  <2>3. DOMAIN p = ResponseFields /\ p.body = "error"
    BY PlainResponse
  <2>4. r = [p EXCEPT !.code = NotAuthorized, !.url = u]
    BY DEF Challenge
  <2> HIDE DEF p, r, u, err
  <2>5. DOMAIN r = ResponseFields /\ r.body = "error" /\ r.url = u
    BY <2>3, <2>4 DEF ResponseFields
  <2>6. Stamped(reg, r).body = "error" /\ Stamped(reg, r).url = u
    BY <2>5, StampedResponse
  <2>7. OriginFits(q, reply[h], Stamped(reg, r))
    BY <2>6 DEF OriginFits, u
  <2> QED
    BY <2>2, <2>7, OriginAtOnce
<1>6. CASE CallInvalid(h) \/ ListInstances(h) \/ SelectionFails(h)
  BY <1>2, <1>6, Unremarkables DEF CallInvalid, ListInstances, SelectionFails
<1>7. CASE ArgumentsInvalid(h) \/ SessionMissing(h)
  BY <1>2, <1>7, Unremarkables DEF ArgumentsInvalid, SessionMissing
<1>8. CASE MetaPanics(h)
  <2> DEFINE r == Response(0, "dropped")
             a(t) == Attrs(t, "")
  <2>1. PICK q \in Requests, t \in DOMAIN reg : AnswerAtOnce(h, q, r, a(t))
    BY <1>8 DEF MetaPanics
  <2>2. r.status = 0 /\ r.body = "dropped"
    BY PlainResponse
  <2> HIDE DEF r, a
  <2>3. r.status \notin {401, 403} /\ r.body # "relay"
    BY <2>2
  <2> QED
    BY <1>1, <2>1, <2>3, Zenon
<1> QED
  BY <1>3, <1>4, <1>5, <1>6, <1>7, <1>8

\* routeToBackend: what is relayed was decoded from the answer to the call, and a failure relays
\* nothing.
LEMMA OriginOfRelay ==
  ASSUME Core, Responses, NEW h \in Handlers, OpenFails(h) \/ CallFails(h) \/ CallAnswered(h)
  PROVE  Responses'
<1>1. TypeHandlers
  BY DEF Core, TypeOK, TypeHandlers
<1>2. ASSUME NEW rep \in Replies, NEW r, NEW a, Respond(h, r, a), reply' = [reply EXCEPT ![h] = rep],
             UNCHANGED <<lifeVars, req>>, OriginFits(req[h], rep, r)
      PROVE  Responses'
  <2>1. \A k \in Handlers \ {h} : Same(k)
    BY <1>1, <1>2 DEF TypeHandlers, Same, Respond
  <2>2. req'[h] = req[h] /\ reply'[h] = rep /\ resp'[h] = r
    BY <1>1, <1>2 DEF TypeHandlers, Respond
  <2> QED
    BY <1>2, <2>1, <2>2, OneResponse
<1>3. CASE OpenFails(h) \/ CallFails(h)
  <2>1. PICK rep \in Replies, n \in {SessionNotOpened, BackendCallFailed} :
           /\ Respond(h, Stamped(reg, RPCError(n)), Attrs(plan[h].tenant, "backend_error"))
           /\ reply' = [reply EXCEPT ![h] = rep]
           /\ UNCHANGED <<lifeVars, req>>
    BY <1>3, Zenon DEF OpenFails, CallFails, BackendFails, Receive
  <2>2. OriginFits(req[h], rep, Stamped(reg, RPCError(n)))
    BY Unremarkables, StampedUnremarkable DEF OriginFits
  <2> QED
    BY <1>2, <2>1, <2>2
<1>4. CASE CallAnswered(h)
  <2> DEFINE l == Response(200, "relay")
             r(payload) == [l EXCEPT !.payload = payload]
             a == Attrs(plan[h].tenant, "")
  <2>1. PICK rep \in Replies : /\ \E payload \in Posted(rep) : Respond(h, Stamped(reg, r(payload)), a)
                               /\ reply' = [reply EXCEPT ![h] = rep]
                               /\ UNCHANGED <<lifeVars, req>>
    BY <1>4 DEF CallAnswered, Receive
  <2>2. PICK payload \in Posted(rep) : Respond(h, Stamped(reg, r(payload)), a)
    BY <2>1
  <2>3. DOMAIN l = ResponseFields /\ l.status = 200
    BY PlainResponse
  <2> HIDE DEF l
  <2> DEFINE p == r(payload)
  <2>4. DOMAIN p = ResponseFields /\ p.status = 200 /\ p.payload = payload
    BY <2>3 DEF ResponseFields
  <2> HIDE DEF p, a
  <2>5. Stamped(reg, p).status = 200 /\ Stamped(reg, p).payload = payload
    BY <2>4, StampedResponse
  <2>6. OriginFits(req[h], rep, Stamped(reg, p))
    BY <2>5 DEF OriginFits
  <2> QED
    BY <1>2, <2>1, <2>2, <2>6 DEF p
<1> QED
  BY <1>3, <1>4

\* Every step keeps what responses say about themselves.
LEMMA ResponsesStep == Core /\ Responses /\ [Next]_vars => Responses'
<1> SUFFICES ASSUME Core, Responses, [Next]_vars PROVE Responses'
  OBVIOUS
<1>1. TypeOK /\ Lifetime /\ Handled /\ TypeHandlers
  BY Parts DEF TypeOK, TypeHandlers
<1>2. CASE LifeSteps
  <2>1. /\ UNCHANGED <<raw, reqVars>>
        /\ srv # "new" => srv' # "new" /\ UNCHANGED <<cfg, reg>>
    BY <1>1, <1>2, RegistryFixed
  <2>2. \A h \in Handlers : Done(h) => srv # "new"
    BY <1>1 DEF Handled, HandlerInv, Done
  <2> QED
    BY <2>1, <2>2 DEF Responses, Done
<1>3. CASE UNCHANGED vars
  BY <1>3 DEF Responses, Done, vars
<1>4. ASSUME NEW h \in Handlers, UNCHANGED lifeVars, pc'[h] # "done",
             \A k \in Handlers \ {h} : Same(k)
      PROVE  Responses'
  BY <1>4, OneResponse
<1>5. ASSUME NEW h \in Handlers, Arrive(h) PROVE Responses'
  <2>1. CASE Forward(h) \/ OpenSession(h)
    BY <1>1, <1>4, <2>1 DEF Forward, OpenSession, Take, Send, TypeHandlers, Same
  <2> QED
    BY <1>5, <2>1, OriginActions DEF Arrive, HandleToolsCall
<1>6. ASSUME NEW h \in Handlers, Proceed(h) PROVE Responses'
  <2>1. CASE OpenAnswered(h)
    BY <1>1, <1>4, <2>1 DEF OpenAnswered, Receive, Send, TypeHandlers, Same
  <2>2. CASE Notified(h)
    BY <1>1, <1>4, <2>2 DEF Notified, Send, TypeHandlers, Same
  <2> QED
    BY <1>6, <2>1, <2>2, OriginOfRelay DEF Proceed
<1>7. ASSUME NEW h \in Handlers, Close(h) PROVE Responses'
  BY <1>1, <1>4, <1>7 DEF Close, TypeHandlers, Same
<1> QED
  BY <1>2, <1>3, <1>5, <1>6, <1>7, Zenon DEF Next, LifeSteps, Stopped

\* The invariant holds in every reachable state of the process (run, ServeHTTP).
THEOREM ServiceInvariant == Spec => []IInv
<1>1. Init => Responses
  BY DEF Init, Responses, Done
<1>2. Core /\ Responses /\ [Next]_vars => Responses'
  BY ResponsesStep
<1>3. Spec => []Responses
  BY <1>1, <1>2, CoreInvariant, PTL DEF Spec
<1>4. Core /\ Responses => IInv
  BY DEF IInv
<1> QED
  BY <1>3, <1>4, CoreInvariant, PTL
-----------------------------------------------------------------------------
(* What goes to backends *)

\* The messages of a handler are for the tenant that its request is routed to.
LEMMA SentFor ==
  ASSUME Core, NEW h \in Handlers, NEW i \in DOMAIN sent[h]
  PROVE  /\ Planned(h) /\ srv # "new"
         /\ sent[h][i].tenant = plan[h].tenant
<1>1. HandlerInv(h) /\ pc[h] \in {"idle", "open", "notify", "call", "done"}
  BY Parts DEF Handled, TypeOK
<1> DEFINE t == plan[h].tenant
           a == Handshake(reg, t, "initialize")
           b == Handshake(reg, t, "initialized")
<1>2. a.tenant = t /\ b.tenant = t
  BY Handshakes
<1>3. \/ sent[h] \in {<<>>, <<a>>, <<a, b>>, <<plan[h]>>, <<a, plan[h]>>, <<a, b, plan[h]>>}
  BY <1>1 DEF HandlerInv, Exchange
<1>4. pc[h] \notin {"idle", "done"}
  BY <1>1 DEF HandlerInv, Exchange
<1>5. Planned(h) /\ srv # "new"
  BY <1>1, <1>4 DEF HandlerInv
<1> HIDE DEF a, b
<1>6. sent[h][i].tenant = t
  BY <1>2, <1>3
<1> QED
  BY <1>5, <1>6

\* Verifier.Groups succeeds only for a token that has all the configuration asks for, and
\* returns only groups that are in it.
LEMMA TokenChecked ==
  ASSUME NEW a, NEW k, AuthUsable(a), VerifierGroups(a, k).err = ""
  PROVE  /\ Trusted(a, k)
         /\ VerifierGroups(a, k).groups \subseteq k.claims[a.groupsClaim].strings
<1>1. /\ Parses(a, k) /\ CheckAudience(a, k)
      /\ a.scopes = {} \/ HasRequiredScope(a, k)
      /\ VerifierGroups(a, k) = ExtractGroups(a, k)
  BY DEF VerifierGroups, Unauthorized, InsufficientScope
<1>2. k.scheme = "bearer" /\ k.key # "garbled"
  BY <1>1 DEF Parses
<1>3. a.mode # "insecure" => /\ k.key = KeyOf(a) /\ k.exp = "ahead"
                             /\ a.issuer \in {"", k.iss}
  BY <1>1 DEF Parses
<1>4. a.mode # "insecure" => /\ k.key \in {a.mode, "hmac", "pem"} \ {"static"}
                             /\ k.key = "hmac" => a.hmac # ""
                             /\ k.key = "pem" => a.pem # ""
  <2>1. CASE a.mode = "jwks"
    BY <1>3, <2>1 DEF KeyOf
  <2>2. CASE a.mode = "static"
    <3>1. (a.hmac = "") => (a.pem # "")
      BY <2>2, Zenon DEF AuthUsable
    <3> QED
      BY <1>3, <2>2, <3>1 DEF KeyOf
  <2> QED
    BY <2>1, <2>2 DEF AuthUsable
<1>5. \/ a.audience = "" /\ a.additional = {}
      \/ a.audience # "" /\ a.audience \in k.claims["aud"].strings
      \/ a.additional \cap k.claims["aud"].strings # {}
  BY <1>1 DEF CheckAudience, AcceptedAudiences
<1>6. \/ a.scopes = {}
      \/ a.scopes \cap (IF k.claims["scope"].kind = "absent" THEN k.claims["scp"].strings
                                                             ELSE k.claims["scope"].strings) # {}
  BY <1>1 DEF HasRequiredScope
<1>7. VerifierGroups(a, k).groups \subseteq k.claims[a.groupsClaim].strings
  <2> DEFINE strings == k.claims[a.groupsClaim].strings
             g == ExtractGroups(a, k).groups
  <2>1. g = {} \/ g = strings \/ g = strings \ {""}
    BY DEF ExtractGroups, Unauthorized, Verified
  <2> QED
    BY <1>1, <2>1
<1>8. Trusted(a, k)
  BY <1>2, <1>3, <1>4, <1>5, <1>6 DEF Trusted
<1> QED
  BY <1>7, <1>8

\* Load: the auth section that is used is one that Validate has accepted.
LEMMA AuthAccepted ==
  ASSUME HasRegistry
  PROVE  AuthUsable(cfg.auth)
BY DEF HasRegistry, HasConfig, Loads, Loaded, Validate

\* Nothing goes to a backend but for a caller whose token is verified in all respects that the
\* file asks for, and names a group of the tenant (Verifier.Groups, selectTenant).
THEOREM VerifiedCalls == Spec => []OnlyVerifiedCalls
<1>1. ASSUME Core, NEW h \in Handlers, NEW m \in Sent(h)
      PROVE  LET a == cfg.auth
                 k == req[h].auth
             IN  /\ Trusted(a, k)
                 /\ TenantAt(raw, PlaceOf(m.tenant)).groups
                       \cap k.claims[a.groupsClaim].strings # {}
  <2> DEFINE q == req[h]
             t == plan[h].tenant
  <2>1. /\ Routed(q, t) /\ t \in DOMAIN reg /\ srv # "new" /\ m.tenant = t
    BY <1>1, SentFor DEF Sent, Planned
  <2>2. HasRegistry /\ raw \in RawConfigs
    BY <1>1, <2>1, Serving
  <2>3. VerifierGroups(cfg.auth, q.auth).err = ""
    BY <2>1 DEF Routed, ToTenant, Accepted
  <2>4. Serves(reg, raw)
    BY <2>2, Served
  <2> DEFINE p == PlaceOf(t)
  <2>5. p \in Places(raw) /\ TenantAt(raw, p).id = t
    BY <2>1, <2>4, PlaceOfTenant DEF PlaceOf
  <2>6. reg[t].groups = TenantAt(raw, p).groups
    <3> HIDE DEF p, t
    <3> QED
      BY <2>4, <2>5, ServedAsWritten, Zenon
  <2>7. reg[t].groups \cap VerifierGroups(cfg.auth, q.auth).groups # {}
    <3>1. t \in Authorized(cfg, reg, q)
      BY <2>1, RoutedAuthorized
    <3> QED
      BY <3>1 DEF Authorized, CallerGroups, Of!AuthorizedTenants, Of!IsAuthorized
  <2>8. AuthUsable(cfg.auth)
    BY <2>2, AuthAccepted
  <2> DEFINE a == cfg.auth
             k == q.auth
  <2> HIDE DEF p, q, t, a, k
  <2>9. AuthUsable(a) /\ VerifierGroups(a, k).err = ""
    BY <2>3, <2>8 DEF a, k
  <2>10. Trusted(a, k) /\ VerifierGroups(a, k).groups \subseteq k.claims[a.groupsClaim].strings
    BY <2>9, TokenChecked, Zenon
  <2>11. TenantAt(raw, PlaceOf(m.tenant)).groups \cap k.claims[a.groupsClaim].strings # {}
    BY <2>1, <2>6, <2>7, <2>10 DEF p, a, k
  <2> QED
    BY <2>10, <2>11 DEF a, k, q
<1>2. Core => OnlyVerifiedCalls
  BY <1>1, Zenon DEF OnlyVerifiedCalls
<1> QED
  BY <1>2, CoreInvariant, PTL

\* client.initialize, routeToBackend and post: no call before its session is open, and each
\* message has what the revision of its backend asks for.
THEOREM Handshaken == Spec => []HandshakeOrRevision
<1>1. ASSUME Core, NEW h \in Handlers, NEW i \in DOMAIN sent[h]
      PROVE  LET m == sent[h][i]
             IN  IF reg[m.tenant].backend.version = StatelessVersion
                   THEN /\ m.kind = "call" /\ i = 1 /\ m.version /\ m.meta /\ ~m.session
                        /\ m.named <=> m.tool # ""
                   ELSE /\ ~m.version /\ ~m.meta
                        /\ m.kind = "initialized" => i > 1 /\ sent[h][i - 1].kind = "initialize"
                        /\ pc[h] = "call" /\ i > 1 =>
                              reply[h].ok /\ reply[h].rpc \notin {"error", "null", "garbled"}
  <2> DEFINE t == plan[h].tenant
             stateless == reg[t].backend.version = StatelessVersion
             a == Handshake(reg, t, "initialize")
             b == Handshake(reg, t, "initialized")
             c == plan[h]
             m == sent[h][i]
  <2>1. Planned(h) /\ m.tenant = t
    BY <1>1, SentFor
  <2>2. HandlerInv(h) /\ pc[h] \in {"idle", "open", "notify", "call", "done"}
    BY <1>1, Parts DEF Handled, TypeOK
  <2>3. /\ a.kind = "initialize" /\ b.kind = "initialized"
        /\ a.version = stateless /\ b.version = stateless
        /\ ~a.meta /\ ~b.meta
    BY Handshakes
  <2>4. PICK session \in BOOLEAN, extra \in ForwardHeaders(req[h]) :
           c = CallMessage(reg, t, req[h], session, extra)
    BY <2>1 DEF Planned
  <2>5. /\ c.kind = "call" /\ c.version = stateless /\ c.meta = stateless
        /\ c.session = (session /\ ~stateless)
    BY <2>4, Posts DEF CallMessage
  <2>5a. stateless => (c.named <=> c.tool # "")
    BY <2>4, PostedName, Zenon DEF CallMessage
  <2>6. \/ sent[h] = <<c>>
        \/ ~stateless /\ sent[h] \in {<<a>>, <<a, b>>} /\ pc[h] # "call"
        \/ ~stateless /\ sent[h] \in {<<a, c>>, <<a, b, c>>} /\ Opened(reply[h])
    <3>1. Exchange(h)
      BY <2>2 DEF HandlerInv
    <3>2. reg[t].backend.version = StatefulVersion => ~stateless
      BY DEF StatefulVersion, StatelessVersion
    <3>3. sent[h] # <<>>
      BY <1>1
    <3> HIDE DEF stateless
    <3> QED
      BY <2>2, <3>1, <3>2, <3>3 DEF Exchange
  <2> HIDE DEF a, b, c, t, stateless
  <2>7. CASE sent[h] = <<c>>
    <3>1. i = 1 /\ m = c
      BY <2>7
    <3>2. stateless => m.version /\ m.meta /\ ~m.session /\ (m.named <=> m.tool # "")
      BY <2>5, <2>5a, <3>1, Zenon
    <3>3. ~stateless => ~m.version /\ ~m.meta
      BY <2>5, <3>1, Zenon
    <3>4. m.kind = "call" /\ ~(i > 1) /\ m.kind # "initialized"
      BY <2>5, <3>1
    <3> QED
      BY <2>1, <3>1, <3>2, <3>3, <3>4, Zenon DEF stateless
  <2>8. CASE ~stateless /\ sent[h] \in {<<a>>, <<a, b>>} /\ pc[h] # "call"
    <3>1. \/ i = 1 /\ m = a
          \/ i = 2 /\ m = b /\ sent[h][i - 1] = a
      BY <2>8
    <3>2. ~m.version /\ ~m.meta
      BY <2>3, <2>8, <3>1
    <3>3. m.kind = "initialized" => i > 1 /\ sent[h][i - 1].kind = "initialize"
      BY <2>3, <3>1
    <3> QED
      BY <2>1, <2>8, <3>2, <3>3 DEF stateless
  <2>9. CASE ~stateless /\ sent[h] \in {<<a, c>>, <<a, b, c>>} /\ Opened(reply[h])
    <3>1. \/ i = 1 /\ m = a
          \/ i = 2 /\ m = b /\ sent[h][i - 1] = a
          \/ m = c
      BY <2>9
    <3>2. ~m.version /\ ~m.meta
      BY <2>3, <2>5, <2>9, <3>1
    <3>3. m.kind = "initialized" => i > 1 /\ sent[h][i - 1].kind = "initialize"
      BY <2>3, <2>5, <3>1
    <3>4. reply[h].ok /\ reply[h].rpc \notin {"error", "null", "garbled"}
      BY <2>9 DEF Opened, Posted
    <3> QED
      BY <2>1, <2>9, <3>2, <3>3, <3>4 DEF stateless
  <2> QED
    BY <2>6, <2>7, <2>8, <2>9
<1>2. Core => HandshakeOrRevision
  BY <1>1, Zenon DEF HandshakeOrRevision
<1> QED
  BY <1>2, CoreInvariant, PTL

\* injectTenantArg against stripTenantArg: arguments that follow the schema with the selector
\* follow the schema of the backend once the selector is taken off.
LEMMA StrippedConforms ==
  ASSUME NEW sch, NEW mine, NEW having, NEW args, mine # {}, "tenant" \notin sch.required,
         IsObject(args) \/ args.fields = <<>>,
         Conforms(args, ListedSchema(sch, mine, having))
  PROVE  Conforms(StripTenantArg(args), sch)
<1> DEFINE listed == ListedSchema(sch, mine, having)
           new == StripTenantArg(args)
<1>1. \/ listed = sch
      \/ /\ sch.required \subseteq listed.required
         /\ DOMAIN listed.props = DOMAIN sch.props \cup {"tenant"}
         /\ \A p \in DOMAIN sch.props \ {"tenant"} : listed.props[p] = sch.props[p]
  <2> DEFINE req2 == Cardinality(having) >= 2
             inj == InjectTenantArg(sch, having, req2)
  <2>1. listed = sch \/ listed = inj
    BY DEF ListedSchema
  <2>2. /\ sch.required \subseteq inj.required
        /\ inj.props = Overlay(sch.props, [tenant |-> Property("", having)])
    BY DEF InjectTenantArg
  <2> HIDE DEF inj, listed
  <2>3. /\ DOMAIN inj.props = DOMAIN sch.props \cup {"tenant"}
        /\ \A p \in DOMAIN sch.props \ {"tenant"} : inj.props[p] = sch.props[p]
    BY <2>2 DEF Overlay
  <2> QED
    BY <2>1, <2>2, <2>3
<1>2. /\ Strippable(args) /\ listed.required \subseteq DOMAIN args.fields
      /\ DOMAIN args.fields \subseteq DOMAIN listed.props
      /\ \A p \in DOMAIN args.fields :
            listed.props[p].enum # {} =>
               args.fields[p][1] = "string" /\ \E v \in listed.props[p].enum : args.fields[p][2] = <<v>>
  BY DEF Conforms
<1> HIDE DEF listed
<1>3. /\ Strippable(new)
      /\ DOMAIN new.fields = DOMAIN args.fields \ {"tenant"}
      /\ \A p \in DOMAIN new.fields : new.fields[p] = args.fields[p]
  BY <1>2 DEF StripTenantArg, Object, Without, IsObject, Strippable
<1> HIDE DEF new
<1>4. /\ sch.required \subseteq DOMAIN new.fields
      /\ DOMAIN new.fields \subseteq DOMAIN sch.props
  BY <1>1, <1>2, <1>3
<1>5. ASSUME NEW p \in DOMAIN new.fields, sch.props[p].enum # {}
      PROVE  /\ new.fields[p][1] = "string"
             /\ \E v \in sch.props[p].enum : new.fields[p][2] = <<v>>
  <2>1. p \in DOMAIN args.fields /\ listed.props[p] = sch.props[p] /\ new.fields[p] = args.fields[p]
    BY <1>1, <1>3, <1>4, <1>5
  <2> QED
    BY <1>2, <1>5, <2>1
<1> QED
  BY <1>3, <1>4, <1>5 DEF Conforms, new

\* The call among the messages of a handler is the planned one.
LEMMA CallIsPlan ==
  ASSUME Core, NEW h \in Handlers, NEW m \in Calls(h)
  PROVE  Planned(h) /\ m = plan[h]
<1>1. PICK i \in DOMAIN sent[h] : m = sent[h][i] /\ m.kind = "call"
  BY DEF Calls, Sent
<1>2. Planned(h)
  BY <1>1, SentFor
<1>3. HandlerInv(h) /\ pc[h] \in {"idle", "open", "notify", "call", "done"}
  BY Parts DEF Handled, TypeOK
<1> DEFINE t == plan[h].tenant
           a == Handshake(reg, t, "initialize")
           b == Handshake(reg, t, "initialized")
           c == plan[h]
<1>4. a.kind = "initialize" /\ b.kind = "initialized"
  BY Handshakes
<1>5. sent[h] \in {<<>>, <<a>>, <<a, b>>, <<c>>, <<a, c>>, <<a, b, c>>}
  BY <1>3 DEF HandlerInv, Exchange
<1> HIDE DEF a, b, c
<1>6. m \in {a, b, c}
  BY <1>1, <1>5
<1> QED
  BY <1>1, <1>2, <1>4, <1>6 DEF c

\* Arguments that follow a definition of the tool as the caller may have been shown it follow
\* that definition once they are forwarded (injectTenantArg, stripTenantArg, routeToBackend).
THEOREM ForwardedConform == Spec => []ListedCallsConform
<1>1. ASSUME Core, NEW h \in Handlers, NEW m \in Calls(h), NEW sch \in Definitions(m.tool)
      PROVE  LET mine == Authorized(cfg, reg, req[h])
             IN  /\ "tenant" \notin sch.required
                 /\ \E having \in SUBSET mine :
                       Conforms(req[h].args, ListedSchema(sch, mine, having))
                 => Conforms(m.args, sch)
  <2> DEFINE q == req[h]
             t == plan[h].tenant
             mine == Authorized(cfg, reg, q)
  <2>1. Planned(h) /\ m = plan[h]
    BY <1>1, CallIsPlan
  <2>2. q \in Requests /\ Routed(q, t)
    BY <2>1 DEF Planned
  <2>3. m.args = StripTenantArg(q.args)
    BY <2>1, CallContent DEF Planned
  <2>4. mine # {}
    BY <2>2, RoutedAuthorized
  <2>5. IsObject(q.args) \/ q.args.fields = <<>>
    BY <2>2, ArgumentsAssumption
  <2> HIDE DEF q, mine
  <2> SUFFICES ASSUME "tenant" \notin sch.required, NEW having \in SUBSET mine,
                      Conforms(q.args, ListedSchema(sch, mine, having))
               PROVE  Conforms(StripTenantArg(q.args), sch)
    BY <2>3 DEF q, mine
  <2> QED
    BY <2>4, <2>5, StrippedConforms
<1>2. Core => ListedCallsConform
  BY <1>1, Zenon DEF ListedCallsConform
<1> QED
  BY <1>2, CoreInvariant, PTL
-----------------------------------------------------------------------------
(* Secrets *)

\* All the secrets that the file has for the tenant at a place, and for its backend.
SecretsAt(c, p) ==
    {c.backends[p[1]].credential}
    \cup {c.backends[p[1]].headers[k] : k \in DOMAIN c.backends[p[1]].headers}
    \cup TenantSecrets(TenantAt(c, p))

\* The values that a header may have on behalf of a backend with this scheme.
OwnTexts(scheme, secrets) == {scheme} \cup UNION {Texts(ExpandRefs(s)) : s \in secrets}

\* A set of headers whose plain ones have only such texts.
OwnHeaders(headers, own) ==
    \A n \in DOMAIN headers : n[1] = "" => Texts(headers[n]) \subseteq own

\* An empty map has no keys.
LEMMA NoHeaders ==
  ASSUME NEW e, e = <<>>
  PROVE  DOMAIN e = {}
OBVIOUS

\* Without headers, nothing goes out.
LEMMA NoneOwn ==
  ASSUME NEW own
  PROVE  OwnHeaders(<<>>, own)
<1> DEFINE e == <<>>
<1>1. DOMAIN e = {}
  BY NoHeaders
<1> HIDE DEF e
<1>2. OwnHeaders(e, own)
  BY <1>1 DEF OwnHeaders
<1> QED
  BY <1>2 DEF e

\* mergeHeaders brings in nothing new.
LEMMA OverlayOwn ==
  ASSUME NEW f, NEW g, NEW own, OwnHeaders(f, own), OwnHeaders(g, own)
  PROVE  OwnHeaders(Overlay(f, g), own)
BY DEF OwnHeaders, Overlay

\* The texts of a credential with its scheme.
LEMMA SchemeTexts ==
  ASSUME NEW S, NEW x, NEW s \in Seq(S)
  PROVE  Texts(<<x>> \o s) \subseteq {x} \cup Texts(s)
<1> DEFINE T == S \cup {x}
           w == <<x>>
           v == w \o s
<1>1. w \in Seq(T) /\ Len(w) = 1 /\ w[1] = x
  OBVIOUS
<1>2. s \in Seq(T) /\ Len(s) \in Nat /\ DOMAIN s = 1..Len(s)
  OBVIOUS
<1> HIDE DEF w, T
<1>3. DOMAIN v = 1..(1 + Len(s)) /\ v[1] = x /\ \A i \in 2..(1 + Len(s)) : v[i] = s[i - 1]
  <2>1. v \in Seq(T) /\ Len(v) = 1 + Len(s)
    BY <1>1, <1>2, ConcatProperties, ZenonT(40)
  <2>2. \A i \in 1 .. Len(w) + Len(s) : v[i] = IF i <= Len(w) THEN w[i] ELSE s[i - Len(w)]
    BY <1>1, <1>2, ConcatProperties, Zenon
  <2>3. DOMAIN v = 1..(1 + Len(s))
    <3> HIDE DEF v
    <3> QED
      BY <2>1
  <2> HIDE DEF v
  <2> QED
    BY <1>1, <1>2, <2>2, <2>3
<1> HIDE DEF v
<1>4. ASSUME NEW i \in DOMAIN v PROVE v[i] \in {x} \cup Texts(s)
  <2>1. CASE i = 1
    BY <1>3, <2>1
  <2>2. CASE i # 1
    <3>1. i - 1 \in DOMAIN s /\ v[i] = s[i - 1]
      BY <1>2, <1>3, <1>4, <2>2
    <3> QED
      BY <3>1 DEF Texts
  <2> QED
    BY <2>1, <2>2
<1>5. Texts(v) \subseteq {x} \cup Texts(s)
  BY <1>4 DEF Texts
<1> QED
  BY <1>5 DEF v, w

\* Headers of the file, expanded.
LEMMA PlainOwn ==
  ASSUME NEW headers, NEW own,
         \A k \in DOMAIN headers : Texts(ExpandRefs(headers[k])) \subseteq own
  PROVE  OwnHeaders(Plain(ExpandHeaders(headers)), own)
<1> DEFINE e == ExpandHeaders(headers)
           f == Plain(e)
<1>1. DOMAIN e = DOMAIN headers /\ \A k \in DOMAIN headers : e[k] = ExpandRefs(headers[k])
  BY DEF ExpandHeaders
<1> HIDE DEF e
<1>2. ASSUME NEW n \in DOMAIN f PROVE Texts(f[n]) \subseteq own
  <2>1. n \in {PlainHeader(k) : k \in DOMAIN e} /\ f[n] = e[n[2]]
    BY <1>2 DEF Plain
  <2>2. PICK k \in DOMAIN e : n = <<"", k>>
    BY <2>1 DEF PlainHeader
  <2>3. f[n] = ExpandRefs(headers[k])
    BY <1>1, <2>1, <2>2
  <2> QED
    BY <1>1, <2>3
<1> QED
  BY <1>2 DEF OwnHeaders, e

\* paramHeadersForTool: a parameter goes under a name with the prefix.
LEMMA ParamsOwn ==
  ASSUME NEW q, NEW extra \in ForwardHeaders(q), NEW own
  PROVE  OwnHeaders(extra, own)
<1>1. CASE extra = <<>>
  BY <1>1, NoneOwn
<1>2. ASSUME NEW sch, extra \in ParamHeaders(sch, q.args) PROVE OwnHeaders(extra, own)
  <2> DEFINE projected == Projected(sch, q.args)
             names == {sch.props[p].header : p \in projected}
             value(f, n) == EncodeText(TextOf(q.args.fields[f[n[2]]]))
  <2>1. \E f : extra = [n \in {ParamHeader(k) : k \in names} |-> value(f, n)]
    <3> HIDE DEF value
    <3> QED
      BY <1>2, Zenon DEF ParamHeaders, value
  <2> HIDE DEF value, names
  <2>2. DOMAIN extra = {ParamHeader(k) : k \in names}
    BY <2>1
  <2>3. \A n \in DOMAIN extra : n[1] = "Mcp-Param-"
    BY <2>2 DEF ParamHeader
  <2> QED
    BY <2>3 DEF OwnHeaders
<1> QED
  BY <1>1, <1>2 DEF ForwardHeaders

\* applyAuth: what goes to a tenant's backend under a plain name is the tenant's own.
LEMMA AuthOwn ==
  ASSUME NEW c \in RawConfigs, NEW g, Serves(g, c), NEW t \in DOMAIN g, NEW extra, NEW p \in Places(c),
         TenantAt(c, p).id = t,
         OwnHeaders(extra, OwnTexts(g[t].backend.scheme, SecretsAt(c, p)))
  PROVE  OwnHeaders(ApplyAuth(g[t].backend, Of(g)!EffectiveCredential(t), extra),
                    OwnTexts(g[t].backend.scheme, SecretsAt(c, p)))
<1> DEFINE scheme == g[t].backend.scheme
           own == OwnTexts(scheme, SecretsAt(c, p))
           b == c.backends[p[1]]
           d == TenantAt(c, p)
           cred == Of(g)!EffectiveCredential(t)
<1>1. /\ g[t].credential = ExpandRefs(d.credential)
      /\ g[t].backend.credential = ExpandRefs(b.credential)
      /\ g[t].backend.headers = ExpandHeaders(b.headers)
      /\ p[1] \in DOMAIN c.backends
  BY ServedAsWritten, Zenon
<1>2. cred = ExpandRefs(d.credential) \/ cred = ExpandRefs(b.credential)
  BY <1>1 DEF Of!EffectiveCredential
<1>3. /\ d.credential \in SecretsAt(c, p) /\ b.credential \in SecretsAt(c, p)
      /\ \A k \in DOMAIN b.headers : b.headers[k] \in SecretsAt(c, p)
  BY DEF SecretsAt, TenantSecrets
<1>4. d.credential \in BackendSecrets(b) /\ b.credential \in BackendSecrets(b)
  <2>1. PICK i \in DOMAIN c.backends : \E j \in DOMAIN c.backends[i].tenants : p = <<i, j>>
    BY DEF Places
  <2>2. PICK j \in DOMAIN c.backends[i].tenants : p = <<i, j>>
    BY <2>1
  <2>3. b = c.backends[i] /\ d = b.tenants[j]
    BY <2>2 DEF TenantAt
  <2> HIDE DEF b, d
  <2>4. j \in DOMAIN b.tenants
    BY <2>3
  <2> QED
    BY <2>3, <2>4 DEF BackendSecrets, TenantSecrets
<1>5. cred \in Seq(STRING) /\ Texts(cred) \subseteq own
  <2>1. /\ ExpandRefs(d.credential) \in Seq(STRING) /\ ExpandRefs(b.credential) \in Seq(STRING)
    BY <1>1, <1>4, FilesAssumption
  <2>2. \A s \in SecretsAt(c, p) : Texts(ExpandRefs(s)) \subseteq own
    BY DEF OwnTexts
  <2> HIDE DEF own, cred, b, d
  <2> QED
    BY <1>2, <1>3, <2>1, <2>2
<1>6. scheme \in own
  BY DEF OwnTexts
<1>7. OwnHeaders(CredentialHeader(g[t].backend, cred), own)
  <2> DEFINE value == IF scheme = "" THEN cred ELSE <<scheme>> \o cred
  <2> HIDE DEF own, cred
  <2>1. Texts(value) \subseteq own
    <3>1. Texts(<<scheme>> \o cred) \subseteq {scheme} \cup Texts(cred)
      BY <1>5, SchemeTexts
    <3> QED
      BY <1>5, <1>6, <3>1
  <2> HIDE DEF value
  <2>2. \/ CredentialHeader(g[t].backend, cred) = <<>>
        \/ CredentialHeader(g[t].backend, cred) = [h \in {PlainHeader(g[t].backend.header)} |-> value]
    BY DEF CredentialHeader, value
  <2>3. OwnHeaders(<<>>, own)
    BY NoneOwn
  <2>4. OwnHeaders([h \in {PlainHeader(g[t].backend.header)} |-> value], own)
    BY <2>1 DEF OwnHeaders
  <2> QED
    BY <2>2, <2>3, <2>4
<1>8. OwnHeaders(Plain(g[t].backend.headers), own)
  <2>1. \A k \in DOMAIN b.headers : Texts(ExpandRefs(b.headers[k])) \subseteq own
    BY <1>3 DEF OwnTexts
  <2> HIDE DEF own, b
  <2> QED
    BY <1>1, <2>1, PlainOwn
<1> QED
  BY <1>7, <1>8, OverlayOwn DEF ApplyAuth

\* No credential or header value reaches another tenant's backend, and no argument of a caller
\* goes out under a plain name (applyAuth, mergeHeaders, paramHeadersForTool).
THEOREM SecretsKept == Spec => []OwnSecretsOnly
<1>1. ASSUME Core, NEW h \in Handlers, NEW m \in Sent(h)
      PROVE  LET p   == PlaceOf(m.tenant)
                 b   == raw.backends[p[1]]
                 own == {reg[m.tenant].backend.scheme} \cup
                        UNION {Texts(ExpandRefs(s)) : s \in {b.credential}
                                  \cup {b.headers[k] : k \in DOMAIN b.headers}
                                  \cup TenantSecrets(TenantAt(raw, p))}
             IN  \A n \in DOMAIN m.headers : n[1] = "" => Texts(m.headers[n]) \subseteq own
  <2> DEFINE q == req[h]
             t == plan[h].tenant
             p == PlaceOf(t)
             own == OwnTexts(reg[t].backend.scheme, SecretsAt(raw, p))
             cred == Of(reg)!EffectiveCredential(t)
  <2>1. PICK i \in DOMAIN sent[h] : m = sent[h][i]
    BY DEF Sent
  <2>2. Planned(h) /\ srv # "new" /\ m.tenant = t
    BY <1>1, <2>1, SentFor
  <2>3. HandlerInv(h) /\ pc[h] \in {"idle", "open", "notify", "call", "done"}
    BY <1>1, Parts DEF Handled, TypeOK
  <2>4. raw \in RawConfigs /\ Serves(reg, raw) /\ t \in DOMAIN reg
    BY <1>1, <2>2, Serving, Served DEF Planned
  <2>5. p \in Places(raw) /\ TenantAt(raw, p).id = t
    BY <2>4, PlaceOfTenant DEF PlaceOf
  <2>6. \E extra : m.headers = ApplyAuth(reg[t].backend, cred, extra) /\ OwnHeaders(extra, own)
    <3> DEFINE a == Handshake(reg, t, "initialize")
               b == Handshake(reg, t, "initialized")
               c == plan[h]
    <3>1. /\ a.headers = ApplyAuth(reg[t].backend, cred, <<>>)
          /\ b.headers = ApplyAuth(reg[t].backend, cred, <<>>)
      BY DEF Handshake, Post
    <3>2. OwnHeaders(<<>>, own)
      BY NoneOwn
    <3>3. PICK session \in BOOLEAN, params \in ForwardHeaders(q) :
             c = CallMessage(reg, t, q, session, params)
      BY <2>2 DEF Planned
    <3> DEFINE extra == Overlay(Plain(reg[t].headers), params)
    <3>4. c.headers = ApplyAuth(reg[t].backend, cred, extra)
      BY <3>3, CallContent
    <3>5. OwnHeaders(extra, own)
      <4>1. reg[t].headers = ExpandHeaders(TenantAt(raw, p).headers)
        <5> HIDE DEF t, p
        <5> QED
          BY <2>4, <2>5, ServedAsWritten, Zenon
      <4>2. \A k \in DOMAIN TenantAt(raw, p).headers :
               Texts(ExpandRefs(TenantAt(raw, p).headers[k])) \subseteq own
        BY DEF OwnTexts, SecretsAt, TenantSecrets
      <4> HIDE DEF t, p, own
      <4>3. OwnHeaders(Plain(reg[t].headers), own)
        BY <4>1, <4>2, PlainOwn
      <4>4. OwnHeaders(params, own)
        BY ParamsOwn
      <4> QED
        BY <4>3, <4>4, OverlayOwn
    <3>6. sent[h] \in {<<>>, <<a>>, <<a, b>>, <<c>>, <<a, c>>, <<a, b, c>>}
      BY <2>3 DEF HandlerInv, Exchange
    <3> HIDE DEF a, b, c, t, own, cred, extra
    <3>7. m \in {a, b, c}
      BY <2>1, <3>6
    <3> QED
      BY <3>1, <3>2, <3>4, <3>5, <3>7
  <2>7. OwnHeaders(m.headers, own)
    <3> HIDE DEF t, p
    <3> QED
      BY <2>4, <2>5, <2>6, AuthOwn
  <2>8. \A n \in DOMAIN m.headers : n[1] = "" => Texts(m.headers[n]) \subseteq own
    BY <2>7 DEF OwnHeaders
  <2> QED
    BY <2>2, <2>8 DEF OwnTexts, SecretsAt
<1>2. Core => OwnSecretsOnly
  BY <1>1, Zenon DEF OwnSecretsOnly
<1> QED
  BY <1>2, CoreInvariant, PTL
-----------------------------------------------------------------------------
(* Parameter headers *)

\* encodeParamHeaderValue: what a backend decodes is the text that the body has, but for integers
\* that a float64 does not have.
LEMMA ValueDecoded ==
  ASSUME NEW q \in Requests, NEW p \in DOMAIN q.args.fields, Encodable(q.args.fields[p])
  PROVE  LET v == q.args.fields[p]
         IN  Inexact(v) \/ DecodeHeader(EncodeText(TextOf(v))) = BodyText(v)
<1> DEFINE v == q.args.fields[p]
           s == TextOf(v)
<1>1. /\ v[1] = "string" => v[2] \in Seq(STRING)
      /\ v[1] = "int" => v[2] \in Int
      /\ RequiresBase64(s) => \A i \in DOMAIN s : s[i] \in DOMAIN Encoded
      /\ v[1] \in {"string", "bool", "int"}
  BY ValuesAssumption DEF Encodable
<1> HIDE DEF v
<1>2. \E S : s \in Seq(S)
  <2>1. CASE v[1] = "string"
    BY <1>1, <2>1 DEF TextOf
  <2>2. CASE v[1] = "bool"
    <3> DEFINE x == IF v[2] THEN "true" ELSE "false"
    <3>1. s = <<x>>
      BY <2>2 DEF TextOf
    <3> HIDE DEF x, s
    <3>2. <<x>> \in Seq({x})
      OBVIOUS
    <3> QED
      BY <3>1, <3>2
  <2>3. CASE v[1] = "int"
    <3> DEFINE x == ToString(Float(v[2]))
    <3>1. s = <<x>>
      BY <2>3 DEF TextOf
    <3> HIDE DEF x, s
    <3>2. <<x>> \in Seq({x})
      OBVIOUS
    <3> QED
      BY <3>1, <3>2
  <2> QED
    BY <1>1, <2>1, <2>2, <2>3
<1>3. DecodeHeader(EncodeText(s)) = s
  BY <1>1, <1>2, HeaderRoundTrip
<1>4. Inexact(v) \/ s = BodyText(v)
  <2>1. CASE v[1] = "int" /\ ~Inexact(v)
    <3>1. FloatExact \in Nat \ {0}
      BY EncodedAssumption, Zenon
    <3>2. v[2] \in Int /\ v[2] <= FloatExact /\ -FloatExact <= v[2]
      BY <1>1, <2>1, <3>1 DEF Inexact
    <3>3. Float(v[2]) = v[2]
      BY <3>2, FloatIsExact
    <3>4. s = <<ToString(Float(v[2]))>> /\ BodyText(v) = <<ToString(v[2])>>
      BY <2>1 DEF TextOf, BodyText
    <3> QED
      BY <3>3, <3>4, Zenon
  <2>2. CASE v[1] # "int"
    BY <2>2 DEF BodyText
  <2> QED
    BY <2>1, <2>2 DEF Inexact
<1> QED
  BY <1>3, <1>4 DEF v

\* A header whose name has the prefix of the parameters.
Prefixed(n) == n[1] # ""

\* applyAuth: a header with a prefix is one of the parameters.
LEMMA PrefixedIsParam ==
  ASSUME NEW b, NEW cred, NEW headers, NEW params
  PROVE  LET f == ApplyAuth(b, cred, Overlay(Plain(headers), params))
         IN  \A n \in DOMAIN f : Prefixed(n) => n \in DOMAIN params /\ f[n] = params[n]
<1> DEFINE f == ApplyAuth(b, cred, Overlay(Plain(headers), params))
<1> SUFFICES ASSUME NEW n \in DOMAIN f, Prefixed(n)
             PROVE  n \in DOMAIN params /\ f[n] = params[n]
  OBVIOUS
<1> HIDE DEF f
<1>1. ASSUME NEW e, NEW g, n \notin DOMAIN e, n \in DOMAIN Overlay(e, g)
      PROVE  n \in DOMAIN g /\ Overlay(e, g)[n] = g[n]
  BY <1>1 DEF Overlay
<1>2. ASSUME NEW k PROVE n # PlainHeader(k)
  <2>1. PlainHeader(k)[1] = ""
    BY DEF PlainHeader
  <2> QED
    BY <2>1 DEF Prefixed
<1>3. ASSUME NEW k PROVE n \notin DOMAIN Plain(k)
  <2>1. DOMAIN Plain(k) = {PlainHeader(x) : x \in DOMAIN k}
    BY DEF Plain
  <2> QED
    BY <1>2, <2>1
<1>4. n \notin DOMAIN CredentialHeader(b, cred)
  <2> DEFINE value == IF b.scheme = "" THEN cred ELSE <<b.scheme>> \o cred
             one == [x \in {PlainHeader(b.header)} |-> value]
             none == <<>>
  <2>1. CredentialHeader(b, cred) = none \/ CredentialHeader(b, cred) = one
    BY DEF CredentialHeader
  <2>2. DOMAIN none = {}
    BY NoHeaders
  <2> HIDE DEF value, none
  <2>3. n \notin DOMAIN one
    BY <1>2
  <2> QED
    BY <2>1, <2>2, <2>3
<1> DEFINE base == Overlay(CredentialHeader(b, cred), Plain(b.headers))
           over == Overlay(Plain(headers), params)
<1>5. n \notin DOMAIN base
  BY <1>3, <1>4 DEF Overlay
<1>6. n \in DOMAIN Overlay(base, over) /\ f = Overlay(base, over)
  BY DEF ApplyAuth, f
<1> HIDE DEF base, over
<1>7. n \in DOMAIN over /\ f[n] = over[n]
  BY <1>1, <1>5, <1>6
<1>8. n \in DOMAIN params /\ over[n] = params[n]
  BY <1>1, <1>3, <1>7 DEF over
<1> QED
  BY <1>7, <1>8 DEF over

\* paramHeadersForCall: headers are those of one definition of the tool.
LEMMA HeadersOfDefinition ==
  ASSUME NEW q, NEW params \in ForwardHeaders(q), DOMAIN params # {}
  PROVE  \E sch \in Definitions(q.tool) : params \in ParamHeaders(sch, q.args)
<1> DEFINE e == <<>>
<1>1. DOMAIN e = {}
  BY NoHeaders
<1> HIDE DEF e
<1>2. params # e
  BY <1>1
<1> QED
  BY <1>2 DEF ForwardHeaders, e

\* This header is that of the parameter p, and has its encoded value.
Carries(params, n, sch, args, p) ==
    /\ sch.props[p].header = n[2]
    /\ params[n] = EncodeText(TextOf(args.fields[p]))

\* paramHeadersForTool: a header has the encoded value of a parameter that asks for it.
LEMMA ParamOfHeader ==
  ASSUME NEW q, NEW sch, NEW params \in ParamHeaders(sch, q.args), NEW n \in DOMAIN params
  PROVE  \E p \in Projected(sch, q.args) : Carries(params, n, sch, q.args, p)
<1> DEFINE projected == Projected(sch, q.args)
           names == {sch.props[p].header : p \in projected}
           value(f, x) == EncodeText(TextOf(q.args.fields[f[x[2]]]))
<1>2. PICK f \in [names -> projected] :
         /\ \A k \in names : sch.props[f[k]].header = k
         /\ params = [x \in {ParamHeader(k) : k \in names} |-> value(f, x)]
  <2> HIDE DEF value
  <2> QED
    BY Zenon DEF ParamHeaders, value
<1> HIDE DEF value, names, projected
<1>3. n \in {ParamHeader(k) : k \in names} /\ params[n] = value(f, n)
  BY <1>2
<1>4. PICK k \in names : n = ParamHeader(k)
  BY <1>3
<1>5. n[2] = k
  BY <1>4 DEF ParamHeader
<1>6. f[k] \in projected /\ sch.props[f[k]].header = n[2]
  BY <1>2, <1>5
<1>7. params[n] = EncodeText(TextOf(q.args.fields[f[k]]))
  BY <1>3, <1>5 DEF value
<1> QED
  BY <1>6, <1>7 DEF projected, Carries

\* A backend that decodes this header by this definition finds the value in the body.
Agrees(m, sch, n) ==
    \E p \in DOMAIN sch.props \cap DOMAIN m.args.fields :
        /\ sch.props[p].header = n[2]
        /\ \/ Inexact(m.args.fields[p])
           \/ DecodeHeader(m.headers[n]) = BodyText(m.args.fields[p])

\* A backend that compares a parameter header with the body of the call finds the same value, as
\* SEP-2243 asks (paramHeadersForTool, stripTenantArg, applyAuth).
THEOREM HeadersAgree == Spec => []HeadersMatchBody
<1>1. ASSUME Core, NEW h \in Handlers, NEW m \in Calls(h), NEW x \in DOMAIN m.headers, Prefixed(x)
      PROVE  \E sch \in Definitions(m.tool) : \A n \in DOMAIN m.headers :
                Prefixed(n) => OwnTenantHeader(sch, n[2]) \/ Agrees(m, sch, n)
  <2> DEFINE q == req[h]
             t == plan[h].tenant
             cred == Of(reg)!EffectiveCredential(t)
  <2>1. Planned(h) /\ m = plan[h]
    BY <1>1, CallIsPlan
  <2>2. PICK session \in BOOLEAN, params \in ForwardHeaders(q) :
           plan[h] = CallMessage(reg, t, q, session, params)
    BY <2>1 DEF Planned
  <2>3. /\ m.headers = ApplyAuth(reg[t].backend, cred, Overlay(Plain(reg[t].headers), params))
        /\ m.args = StripTenantArg(q.args) /\ m.tool = q.tool
    BY <2>1, <2>2, CallContent
  <2>4. q \in Requests
    BY <2>1 DEF Planned
  <2> HIDE DEF q, t, cred
  <2>5. \A n \in DOMAIN m.headers : Prefixed(n) => n \in DOMAIN params /\ m.headers[n] = params[n]
    <3> DEFINE b == reg[t].backend
               own == reg[t].headers
               f == ApplyAuth(b, cred, Overlay(Plain(own), params))
    <3>1. m.headers = f
      BY <2>3
    <3> HIDE DEF b, own
    <3>2. \A n \in DOMAIN f : Prefixed(n) => n \in DOMAIN params /\ f[n] = params[n]
      BY PrefixedIsParam
    <3> HIDE DEF f
    <3> QED
      BY <3>1, <3>2
  <2>6. PICK sch \in Definitions(q.tool) : params \in ParamHeaders(sch, q.args)
    BY <1>1, <2>5, HeadersOfDefinition
  <2>7. ASSUME NEW n \in DOMAIN m.headers, Prefixed(n), ~OwnTenantHeader(sch, n[2])
        PROVE  Agrees(m, sch, n)
    <3>1. n \in DOMAIN params /\ m.headers[n] = params[n]
      BY <2>5, <2>7
    <3>2. PICK p \in Projected(sch, q.args) : Carries(params, n, sch, q.args, p)
      BY <2>6, <3>1, ParamOfHeader
    <3>3. /\ IsObject(q.args)
          /\ p \in DOMAIN sch.props /\ p \in DOMAIN q.args.fields
          /\ Encodable(q.args.fields[p])
      BY <3>2 DEF Projected
    <3>4. p # "tenant"
      BY <2>7, <3>2, <3>3 DEF OwnTenantHeader, Carries
    <3>5. p \in DOMAIN m.args.fields /\ m.args.fields[p] = q.args.fields[p]
      BY <2>3, <3>3, <3>4 DEF StripTenantArg, Object, Without
    <3>6. Inexact(q.args.fields[p]) \/ DecodeHeader(params[n]) = BodyText(q.args.fields[p])
      BY <2>4, <3>2, <3>3, ValueDecoded DEF Carries
    <3> QED
      BY <3>1, <3>2, <3>3, <3>5, <3>6 DEF Agrees, Carries
  <2> QED
    BY <2>3, <2>6, <2>7
<1>2. Core => HeadersMatchBody
  BY <1>1, Zenon DEF HeadersMatchBody, Prefixed, Agrees
<1> QED
  BY <1>2, CoreInvariant, PTL
-----------------------------------------------------------------------------
(* Answers and challenges *)

\* What a caller gets of a backend's answer is its first message, whole (post, decodeBody,
\* routeToBackend).
THEOREM OneMessageRelayed == Spec => []RelaysOneMessage
<1>1. ASSUME IInv, NEW h \in Handlers, Done(h), resp[h].body = "relay", resp[h].payload # {}
      PROVE  IsFirstMessage(reply[h].lines, resp[h].payload)
  <2>1. reply[h] \in Replies /\ resp[h].payload \in Posted(reply[h])
    BY <1>1 DEF IInv, Responses
  <2>2. Framed(reply[h])
    BY <2>1, RepliesAssumption
  <2> QED
    BY <1>1, <2>1, <2>2, FirstMessageRelayed DEF IsFirstMessage
<1>2. IInv => RelaysOneMessage
  BY <1>1 DEF RelaysOneMessage
<1> QED
  BY <1>2, ServiceInvariant, PTL

\* Load: the path has its default, the external URL is as it is written.
LEMMA LoadedURLs ==
  ASSUME NEW c, FileTyped(c)
  PROVE  /\ Loaded(c).path = IF c.path = <<>> THEN <<"/", "mcp">> ELSE c.path
         /\ Loaded(c).external = c.external
<1> DEFINE d == ApplyDefaults(c)
<1>1. /\ d.path = IF c.path = <<>> THEN <<"/", "mcp">> ELSE c.path
      /\ d.external = c.external
      /\ DOMAIN d = DOMAIN c
  BY DEF ApplyDefaults, FileTyped
<1> HIDE DEF d
<1>2. /\ ExpandEnv(d).path = d.path
      /\ ExpandEnv(d).external = d.external
  BY <1>1 DEF ExpandEnv, FileTyped
<1> QED
  BY <1>1, <1>2 DEF Loaded, d

\* A client that follows a challenge finds a metadata document for the resource that it asked for
\* (writeUnauthorized, metadataURL, resourceURL).
THEOREM ChallengesLead == Spec => []ChallengeLeadsToResource
<1>1. ASSUME IInv, NEW h \in Handlers, Done(h), resp[h].status \in {401, 403}, UsualURLs(cfg)
      PROVE  LET url  == resp[h].url
                 base == TrimSuffix(url, WellKnown)
             IN  /\ base # url
                 /\ ResourceURL(cfg, req[h]) = base \o cfg.path
  <2>1. resp[h].url = MetadataURL(cfg, req[h])
    BY <1>1 DEF IInv, Responses
  <2>2. srv # "new"
    BY <1>1 DEF IInv, Core, Exchanges, Done
  <2>3. raw \in RawConfigs /\ cfg = Loaded(raw)
    BY <1>1, <2>2, Serving DEF IInv, HasRegistry, HasConfig
  <2>4. FileTyped(raw) /\ raw.path \in Seq(STRING) /\ raw.external \in Seq(STRING)
    BY <2>3, FilesAssumption
  <2> DEFINE S == STRING \cup {"/", "mcp"}
  <2>5. /\ cfg.path = IF raw.path = <<>> THEN <<"/", "mcp">> ELSE raw.path
        /\ cfg.external = raw.external
    BY <2>3, <2>4, LoadedURLs
  <2>6. <<"/", "mcp">> \in Seq(S) /\ <<"/", "mcp">> # <<>>
    OBVIOUS
  <2>7. raw.path \in Seq(S) /\ raw.external \in Seq(S)
    BY <2>4
  <2> HIDE DEF S
  <2>8. cfg.path \in Seq(S) /\ cfg.external \in Seq(S) /\ cfg.path # <<>>
    BY <2>5, <2>6, <2>7
  <2>9. /\ TrimSuffix(MetadataURL(cfg, req[h]), WellKnown) # MetadataURL(cfg, req[h])
        /\ ResourceURL(cfg, req[h])
             = TrimSuffix(MetadataURL(cfg, req[h]), WellKnown) \o cfg.path
    <3>1. UsualURLs(cfg)
      BY <1>1
    <3>2. \A q : UsualURLs(cfg) =>
            /\ TrimSuffix(MetadataURL(cfg, q), WellKnown) # MetadataURL(cfg, q)
            /\ ResourceURL(cfg, q) = TrimSuffix(MetadataURL(cfg, q), WellKnown) \o cfg.path
      BY <2>8, MetadataBesideResource
    <3> QED
      BY <3>1, <3>2
  <2> QED
    BY <2>1, <2>9
<1>2. IInv => ChallengeLeadsToResource
  BY <1>1 DEF ChallengeLeadsToResource
<1> QED
  BY <1>2, ServiceInvariant, PTL
=============================================================================
