------------------------------- MODULE Config -------------------------------
(***************************************************************************)
(* The configuration (internal/config) and the registry that is built from *)
(* it (registry.New), as operators on records.                             *)
(*                                                                         *)
(* A configuration has the fields                                          *)
(*    path, external   server.path and server.external_url, in pieces      *)
(*    metrics          observability.metrics_listen                        *)
(*    metricsPath      observability.metrics_path, in pieces               *)
(*    auth             a record: mode, groupsClaim, issuer, audience,      *)
(*                     additional, scopes, jwksURL, hmac, pem              *)
(*    backends         a sequence of records: name, url, credential,       *)
(*                     header, scheme, version, headers, tenants; a tenant *)
(*                     has id, groups, credential, headers                 *)
(* "" is the empty string, Null the nil pointer of an omitted scheme.      *)
(*                                                                         *)
(* A secret (a credential or the value of a header) of the file is the     *)
(* sequence of its parts, literal text or a reference to an environment    *)
(* variable; expanded, it is a sequence of texts.  The empty string is the *)
(* empty sequence.  A malformed reference is text.                         *)
(***************************************************************************)
EXTENDS Naturals, Sequences, FiniteSets
LOCAL INSTANCE SequencesExt

CONSTANT Env   \* the variables that are set, and the texts they are set to

Null == "null"

Lit(x) == <<"lit", x>>
Ref(v) == <<"ref", v>>

ASSUME EnvAssumption == \A v \in DOMAIN Env : Env[v] \in Seq(STRING)

\* os.LookupEnv: a variable may also be set to the empty string.
IsUnset(v) == v \notin DOMAIN Env

StatefulVersion  == "2025-03-26"
StatelessVersion == "2026-07-28"

\* yaml.Unmarshal into a Config: a field that the file leaves out is there all the same.
FileTyped(c) ==
    /\ DOMAIN c = {"path", "external", "metrics", "metricsPath", "auth", "backends"}
    /\ DOMAIN c.auth = {"mode", "groupsClaim", "issuer", "audience", "additional", "scopes",
                        "jwksURL", "hmac", "pem"}
    /\ \A i \in DOMAIN c.backends :
          /\ DOMAIN c.backends[i] = {"name", "url", "credential", "header", "scheme", "version",
                                     "headers", "tenants"}
          /\ \A j \in DOMAIN c.backends[i].tenants :
                DOMAIN c.backends[i].tenants[j] = {"id", "groups", "credential", "headers"}
-----------------------------------------------------------------------------
(* Load: applyDefaults, expandEnv, Validate *)

OrElse(x, default) == IF x = "" THEN default ELSE x

\* Mutant: a scheme that is left out stays nil.
DefaultBackendNoScheme(b) ==
    [b EXCEPT !.header = OrElse(@, "Authorization"), !.version = OrElse(@, StatefulVersion)]

DefaultBackend(b) ==
    [b EXCEPT !.header  = OrElse(@, "Authorization"),
              !.scheme  = IF @ = Null THEN "Bearer" ELSE @,
              !.version = OrElse(@, StatefulVersion)]

ApplyDefaults(c) ==
    [c EXCEPT !.path             = IF @ = <<>> THEN <<"/", "mcp">> ELSE @,
              !.auth.groupsClaim = OrElse(@, "groups"),
              !.backends         = [i \in DOMAIN @ |-> DefaultBackend(@[i])],
              !.metrics          = OrElse(@, ":9090"),
              !.metricsPath      = IF @ = <<>> THEN <<"/", "metrics">> ELSE @]

RefsIn(s) == {s[i][2] : i \in {j \in DOMAIN s : s[j][1] = "ref"}}

\* expandRefs; with a variable that is not set it also reports an error.
ExpandRefs(s) ==
    FlattenSeq([i \in DOMAIN s |->
        IF s[i][1] = "lit" THEN <<s[i][2]>> ELSE IF IsUnset(s[i][2]) THEN <<>> ELSE Env[s[i][2]]])

\* The secrets that expandEnv goes through.
TenantSecrets(t)  == {t.credential} \cup {t.headers[k] : k \in DOMAIN t.headers}
BackendSecrets(b) == {b.credential} \cup {b.headers[k] : k \in DOMAIN b.headers}
                     \cup UNION {TenantSecrets(b.tenants[i]) : i \in DOMAIN b.tenants}

\* expandEnv finds every variable that is referred to.
EnvComplete(c) ==
    \A i \in DOMAIN c.backends :
        \A s \in BackendSecrets(c.backends[i]) : \A v \in RefsIn(s) : ~IsUnset(v)

ExpandHeaders(headers) == [k \in DOMAIN headers |-> ExpandRefs(headers[k])]

ExpandTenant(t) == [t EXCEPT !.credential = ExpandRefs(@), !.headers = ExpandHeaders(@)]

ExpandBackend(b) ==
    [b EXCEPT !.credential = ExpandRefs(@),
              !.headers    = ExpandHeaders(@),
              !.tenants    = [j \in DOMAIN @ |-> ExpandTenant(@[j])]]

ExpandEnv(c) == [c EXCEPT !.backends = [i \in DOMAIN @ |-> ExpandBackend(@[i])]]

AuthUsable(a) ==
    \/ a.mode = "jwks" /\ (a.jwksURL # "" \/ a.issuer # "")
    \/ a.mode = "static" /\ ((a.hmac = "") # (a.pem = ""))
    \/ a.mode = "insecure"

\* Where a tenant stands in the file.
Places(c) == UNION {{<<i, j>> : j \in DOMAIN c.backends[i].tenants} : i \in DOMAIN c.backends}
TenantAt(c, p) == c.backends[p[1]].tenants[p[2]]

\* Mutant: a tenant id may come back under another backend.
IdsUniquePerBackend(c) ==
    \A p, q \in Places(c) : p # q /\ p[1] = q[1] => TenantAt(c, p).id # TenantAt(c, q).id

IdsUnique(c) == \A p, q \in Places(c) : p # q => TenantAt(c, p).id # TenantAt(c, q).id

BackendUsable(b) ==
    /\ b.name # "" /\ b.url # ""
    /\ b.version \in {StatefulVersion, StatelessVersion}
    /\ Len(b.tenants) > 0
    /\ \A i \in DOMAIN b.tenants : b.tenants[i].id # "" /\ b.tenants[i].groups # {}

Validate(c) ==
    /\ AuthUsable(c.auth)
    /\ Len(c.backends) > 0
    /\ \A i, j \in DOMAIN c.backends : i # j => c.backends[i].name # c.backends[j].name
    /\ \A i \in DOMAIN c.backends : BackendUsable(c.backends[i])
    /\ IdsUnique(c)

\* Load succeeds, and with what; the order of its steps is the code's.
Loads(c)  == LET d == ApplyDefaults(c) IN EnvComplete(d) /\ Validate(ExpandEnv(d))
Loaded(c) == ExpandEnv(ApplyDefaults(c))
-----------------------------------------------------------------------------
(* registry.New *)

\* The URL parses, and has a scheme and a host.
Absolute(url) == url \notin {"relative", "unparsable"}

Builds(c) ==
    /\ \A i \in DOMAIN c.backends : Absolute(c.backends[i].url)
    /\ IdsUnique(c)
    /\ Places(c) # {}

\* Registry.byTenant: a tenant with a pointer to its backend, for which New fills
\* in the defaults once more.
Built(c) ==
    [id \in {TenantAt(c, p).id : p \in Places(c)} |->
        LET p == CHOOSE p \in Places(c) : TenantAt(c, p).id = id
            b == DefaultBackend(c.backends[p[1]])
        IN  [groups     |-> TenantAt(c, p).groups,
             credential |-> TenantAt(c, p).credential,
             headers    |-> TenantAt(c, p).headers,
             backend    |-> [name |-> b.name, credential |-> b.credential, header |-> b.header,
                             scheme |-> b.scheme, version |-> b.version, headers |-> b.headers]]]
=============================================================================
