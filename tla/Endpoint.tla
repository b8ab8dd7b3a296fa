------------------------------ MODULE Endpoint ------------------------------
(***************************************************************************)
(* The HTTP endpoint, as operators on a loaded configuration, a registry   *)
(* and a request: the dispatch of ServeHTTP, the answers that need neither *)
(* a catalog nor a backend, the challenges, the OAuth metadata document,   *)
(* and the requests that go to a backend.                                  *)
(*                                                                         *)
(* A request has route ("mcp", "metadata" or "healthz"), method, body      *)
(* ("ok", "unreadable" or "garbled"), rpc (the JSON-RPC method), id (it    *)
(* has one), auth (see Verifier), tls (directly or in front of the proxy), *)
(* and for tools/call params ("object", "null" or "invalid": they are      *)
(* missing or do not decode), tool (the name, "" if there is none) and     *)
(* args.                                                                   *)
(***************************************************************************)
EXTENDS Config, Verifier, Wire

\* Registry and selectTenant for the registry that was built.
Of(reg) == INSTANCE TenantSelection WITH
    Tenants           <- DOMAIN reg,
    Backends          <- {reg[t].backend : t \in DOMAIN reg},
    Groups            <- UNION {reg[t].groups : t \in DOMAIN reg},
    Creds             <- ({reg[t].credential : t \in DOMAIN reg}
                          \cup {reg[t].backend.credential : t \in DOMAIN reg}) \ {<<>>},
    NoCred            <- <<>>,
    TenantBackend     <- [t \in DOMAIN reg |-> reg[t].backend],
    TenantGroups      <- [t \in DOMAIN reg |-> reg[t].groups],
    TenantCredential  <- [t \in DOMAIN reg |-> reg[t].credential],
    BackendCredential <- [b \in {reg[t].backend : t \in DOMAIN reg} |-> b.credential],
    StatelessBackends <- {b \in {reg[t].backend : t \in DOMAIN reg} :
                             b.version = StatelessVersion},
    NoArg             <- "",
    UnknownTenant     <- "?"
-----------------------------------------------------------------------------
(* oauth.go *)

WellKnown == <<"/", ".well-known", "/", "oauth-protected-resource">>

TrimSuffix(s, suffix) ==
    IF Len(s) >= Len(suffix) /\ SubSeq(s, Len(s) - Len(suffix) + 1, Len(s)) = suffix
      THEN SubSeq(s, 1, Len(s) - Len(suffix)) ELSE s

\* The origin the request was sent to, as the proxy can tell.
Origin(q) == <<IF q.tls THEN "https://host" ELSE "http://host">>

ResourceURL(cfg, q) ==
    LET ext == TrimSuffix(cfg.external, <<"/">>)
    IN  IF cfg.external = <<>> THEN Origin(q) \o cfg.path
        ELSE IF TrimSuffix(ext, cfg.path) = ext THEN ext \o cfg.path ELSE ext

\* Mutant: the path of the endpoint is not taken off.
MetadataURLUnderPath(cfg, q) ==
    IF cfg.external = <<>> THEN Origin(q) \o WellKnown
    ELSE TrimSuffix(cfg.external, <<"/">>) \o WellKnown

MetadataURL(cfg, q) ==
    LET ext == TrimSuffix(TrimSuffix(cfg.external, <<"/">>), cfg.path)
    IN  IF cfg.external = <<>> THEN Origin(q) \o WellKnown
        ELSE TrimSuffix(ext, <<"/">>) \o WellKnown

\* The path is absolute, and no segment of the external URL is empty.
UsualURLs(c) ==
    /\ c.path[1] = "/"
    /\ \A i \in 1..(Len(c.external) - 1) : ~(c.external[i] = "/" /\ c.external[i + 1] = "/")
-----------------------------------------------------------------------------
(* Responses.  url is that of a challenge, or the resource of the metadata; *)
(* listed the schemas of tools/list, payload what is relayed of a backend.  *)

Response(status, body) ==
    [status |-> status, body |-> body, code |-> 0, version |-> FALSE, session |-> FALSE,
     url |-> <<>>, listed |-> <<>>, payload |-> {}]

\* The codes of the errors.
ParseError        == -32700
MethodNotFound    == -32601
InvalidParams     == -32602
InternalError     == -32603
SessionNotFound   == -32000
NotAuthorized     == -32001
SessionNotOpened  == -32002
BackendCallFailed == -32003

RPCError(code) == [Response(200, "error") EXCEPT !.code = code]

\* Mutant: a session is handed out in every deployment.
InitializeAlwaysMints(reg) == [Response(200, "result") EXCEPT !.session = TRUE]

\* handleInitialize
Initialize(reg) == [Response(200, "result") EXCEPT !.session = ~Of(reg)!AllStateless]

\* ServeHTTP answers before the body is parsed, or fails to parse it.
Early(q) == q.method # "POST" \/ q.body # "ok"

EarlyAnswer(q) ==
    CASE q.method = "DELETE" -> Response(204, "none")
      [] q.method = "GET"    -> Response(200, "stream")
      [] q.method = "POST"   -> RPCError(ParseError)
      [] OTHER               -> Response(405, "text")

Listing(q) == ~Early(q) /\ q.rpc = "tools/list"
Calling(q) == ~Early(q) /\ q.rpc = "tools/call"

\* The methods with an answer of their own; of the others, notifications get none.
MethodAnswer(reg, q) ==
    CASE q.rpc = "initialize" -> Initialize(reg)
      [] q.rpc = "notifications/initialized" -> Response(202, "none")
      [] q.rpc \in {"server/discover", "ping"} -> Response(200, "result")
      [] OTHER -> IF q.id THEN RPCError(MethodNotFound) ELSE Response(202, "none")

\* Once the body is parsed, an all-stateless proxy stamps every response.
Stamped(reg, r) == [r EXCEPT !.version = Of(reg)!AllStateless]

Metadata(cfg, q) == [Response(200, "metadata") EXCEPT !.url = ResourceURL(cfg, q)]

LocalAnswer(cfg, reg, q) ==
    CASE q.route = "metadata" -> Metadata(cfg, q)
      [] q.route = "healthz"  -> Response(200, "text")
      [] OTHER -> IF Early(q) THEN EarlyAnswer(q) ELSE Stamped(reg, MethodAnswer(reg, q))

\* handleToolsCall, when Verifier.Groups returns an error.
Challenge(cfg, q, err) ==
    [Response(IF err = "insufficient_scope" THEN 403 ELSE 401, "error")
        EXCEPT !.code = NotAuthorized, !.url = MetadataURL(cfg, q)]
-----------------------------------------------------------------------------
(* handleToolsList and handleToolsCall *)

CallerGroups(cfg, q) == VerifierGroups(cfg.auth, q.auth).groups
Authorized(cfg, reg, q) == Of(reg)!AuthorizedTenants(CallerGroups(cfg, q))

\* A tenant id is a string of one character here.
Explicit(reg, q) ==
    LET s == ExtractTenantArg(q.args)
    IN  IF s = <<>> THEN ""
        ELSE IF Len(s) = 1 /\ s[1] \in DOMAIN reg THEN s[1] ELSE "?"

Selected(cfg, reg, q, mayHave) ==
    Of(reg)!SelectTenant(Explicit(reg, q), CallerGroups(cfg, q), mayHave)
-----------------------------------------------------------------------------
(* backendClient.post *)

\* A message for tenant t, in its backend's revision: session id, or version,
\* Mcp-Method and, if the tool has a name, Mcp-Name headers and the _meta of injectMeta.
Post(reg, t, kind, session, extra, tool, args) ==
    LET b == reg[t].backend
        stateless == b.version = StatelessVersion
    IN  [kind |-> kind, tenant |-> t, args |-> args, tool |-> tool,
         headers |-> ApplyAuth(b, Of(reg)!EffectiveCredential(t), extra),
         session |-> session /\ ~stateless,
         version |-> stateless,
         named   |-> stateless /\ tool # "",
         meta    |-> stateless /\ kind = "call"]

\* client.initialize and notifyInitialized carry no tenant headers.
Handshake(reg, t, kind) == Post(reg, t, kind, kind = "initialized", <<>>, "", NoArgs)

\* mergeHeaders(tenant.Headers, paramHeaders)
CallMessage(reg, t, q, session, paramHeaders) ==
    Post(reg, t, "call", session, Overlay(Plain(reg[t].headers), paramHeaders),
         q.tool, StripTenantArg(q.args))
=============================================================================
