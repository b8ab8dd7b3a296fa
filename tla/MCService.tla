----------------------------- MODULE MCService -----------------------------
(***************************************************************************)
(* Small instances of Service: twelve files, of which four are served; the *)
(* tokens differ from a good one in one respect each, the arguments in one *)
(* value each.                                                             *)
(***************************************************************************)
EXTENDS Service

MCEnv == [SET |-> <<"own">>, EMPTY |-> <<>>]

\* Characters.  "<A" stands for base64 of a, and so on.
MCEncoded == "a" :> "<A" @@ " " :> "<S" @@ "\t" :> "<T" @@ "U+E9" :> "<E"
             @@ "=?base64" :> "<P" @@ "?" :> "<Q" @@ "=" :> "<R"
MCSafe    == {"a", "=?base64", "?", "=", "true", "false", "0", "3", "4", "-5", "-4",
              "t1", "t2", "t3", "<A", "<S", "<T", "<E", "<P", "<Q", "<R"}

\* x is described in two ways.  The first has two parameters that share a header, and one
\* whose header has the name of a credential's; the second has a header for s, and
\* requires it.  y has a parameter under the name of the selector.
MCTools ==
    [x |-> {[props    |-> [p |-> Property("P", {}), q |-> Property("P", {}),
                           r |-> Property("Authorization", {}), s |-> Property("", {})],
             required |-> {"p"}],
            [props    |-> [p |-> Property("", {}), s |-> Property("S", {})],
             required |-> {"p", "s"}]},
     y |-> {[props |-> [tenant |-> Property("T", {})], required |-> {}]}]

MCRank == [t1 |-> 1, t2 |-> 2, t3 |-> 3]
-----------------------------------------------------------------------------
(* Files *)

Tenant(id, groups, credential, headers) ==
    [id |-> id, groups |-> groups, credential |-> credential, headers |-> headers]

T1 == Tenant("t1", {"g1"}, <<Ref("SET")>>, [Org |-> <<Lit("one")>>])
T2 == Tenant("t2", {"g1", "g2"}, <<Ref("EMPTY")>>, [Org |-> <<Lit("two"), Ref("SET")>>])
T3 == Tenant("t3", {"g2"}, <<>>, <<>>)

Backend(name, version, tenants) ==
    [name |-> name, url |-> "absolute", credential |-> <<Lit("shared")>>, header |-> "",
     scheme |-> Null, version |-> version, headers |-> [App |-> <<Lit("mt")>>],
     tenants |-> tenants]

HMAC == [mode |-> "static", groupsClaim |-> "", issuer |-> "iss", audience |-> "aud",
         additional |-> {"aud2"}, scopes |-> {"s", "t"}, jwksURL |-> "", hmac |-> "k", pem |-> ""]
JWKS == [HMAC EXCEPT !.mode = "jwks", !.jwksURL = "url", !.hmac = "", !.issuer = "",
                     !.scopes = {}]
OIDC == [HMAC EXCEPT !.mode = "jwks", !.hmac = "", !.groupsClaim = "roles",
                     !.audience = "", !.additional = {}]
Trusting == [HMAC EXCEPT !.mode = "insecure", !.issuer = "", !.audience = "", !.hmac = "",
                         !.additional = {}, !.scopes = {}]
PEM == [HMAC EXCEPT !.hmac = "", !.pem = "k"]

Shared == [path |-> <<>>, external |-> <<>>, metrics |-> "", metricsPath |-> <<>>, auth |-> HMAC,
           backends |-> <<Backend("b1", "", <<T1, T2>>)>>]
Mixed  == [Shared EXCEPT !.auth = JWKS, !.external = <<"https://x", "/", "mcp">>,
                         !.metrics = ":1",
                         !.backends = <<Backend("b1", StatefulVersion, <<T1>>),
                                        Backend("b2", StatelessVersion, <<T3>>)>>]
Modern == [Shared EXCEPT !.auth = OIDC, !.external = <<"https://x", "/", "in", "/">>,
                         !.backends = <<[Backend("b2", StatelessVersion, <<T2, T3>>)
                                            EXCEPT !.scheme = "", !.header = "Key"]>>]
Open   == [Shared EXCEPT !.auth = Trusting, !.path = <<"/">>, !.external = <<"https://x">>,
                         !.backends = <<Backend("b2", StatelessVersion, <<T2>>)>>]

MCRawConfigs ==
    {Shared, Mixed, Modern, Open,
     [Shared EXCEPT !.auth = PEM, !.path = <<"/", "healthz">>],
     [Shared EXCEPT !.path = <<"mcp">>], [Shared EXCEPT !.metricsPath = <<"/", "healthz">>],
     [Shared EXCEPT !.backends[1].url = "relative"],
     [Shared EXCEPT !.backends[1].tenants[2].headers = [Org |-> <<Ref("UNSET")>>]],
     [Shared EXCEPT !.backends = @ \o <<Backend("b2", "", <<T1>>)>>],
     [Shared EXCEPT !.auth.pem = "k"],
     [Shared EXCEPT !.backends[1].version = "2024"]}
-----------------------------------------------------------------------------
(* Tokens *)

Absent       == [kind |-> "absent", strings |-> {}]
Word(x)      == [kind |-> "string", strings |-> {x}]
List(xs)     == [kind |-> "list", strings |-> xs]
OtherKind    == [kind |-> "other", strings |-> {}]

Signed(key) ==
    [scheme |-> "bearer", key |-> key, exp |-> "ahead", iss |-> "iss",
     claims |-> [aud |-> List({"aud", "z"}), scope |-> Word("s"), scp |-> Absent,
                 groups |-> List({"g1"}), roles |-> List({"g2", "g3"})]]
Good      == {Signed("hmac"), Signed("jwks")}
Both(k)   == [k EXCEPT !.claims["groups"] = List({"g1", "g2"}), !.claims["aud"] = Word("aud2")]
NoToken   == [Signed("hmac") EXCEPT !.scheme = "none"]

Variants(k) ==
    {k, Both(k),
     [k EXCEPT !.exp = "past"], [k EXCEPT !.exp = "missing"], [k EXCEPT !.iss = "z"],
     [k EXCEPT !.claims["aud"] = Word("z")],
     [k EXCEPT !.claims["scope"] = Word("z"), !.claims["scp"] = List({"s"})],
     [k EXCEPT !.claims["scope"] = Absent, !.claims["scp"] = List({"s"})],
     [k EXCEPT !.claims["groups"] = Word("g2"), !.claims["roles"] = Word("")],
     [k EXCEPT !.claims["groups"] = OtherKind, !.claims["roles"] = Absent],
     [k EXCEPT !.claims["groups"] = List({"g3"})]}

\* The file Shared asks for the most, so all variants are for it.
Tokens == Variants(Signed("hmac")) \cup {Signed("jwks"), Both(Signed("jwks")), NoToken,
                                        [NoToken EXCEPT !.scheme = "other"],
                                        Signed("foreign"), Signed("garbled")}
-----------------------------------------------------------------------------
(* Requests *)

Str(s) == <<"string", s>>

Values == {Str(<<"a">>), Str(<<>>), Str(<<" ", "a">>), Str(<<"a", " ">>), Str(<<"a", " ", "a">>),
           Str(<<"a", "\t", "a">>), Str(<<"U+E9">>), Str(Prefix \o <<"a">> \o Suffix),
           <<"int", 3>>, <<"int", 5>>, <<"int", -5>>, <<"bool", TRUE>>, <<"null">>, <<"other">>}

ArgShapes ==
    {Object([p |-> v]) : v \in Values}
    \cup {Object([p |-> Str(<<"a">>)] @@ f) :
             f \in {[q |-> Str(<<"a", "a">>)], [r |-> Str(<<"a">>)], [s |-> Str(<<"a">>)],
                    [tenant |-> Str(<<"t1">>)], [tenant |-> Str(<<"t2">>)],
                    [tenant |-> Str(<<"a">>)], [tenant |-> <<"int", 3>>]}}
    \cup {Object(<<>>), Object([tenant |-> Str(<<"t2">>)]), NoArgs,
          [kind |-> "other", fields |-> <<>>]}

Plainest == Object([p |-> Str(<<"a">>)])

Request ==
    [route |-> "mcp", method |-> "POST", body |-> "ok", rpc |-> "tools/call", id |-> TRUE,
     auth |-> NoToken, tls |-> FALSE, params |-> "object", tool |-> "", args |-> NoArgs]

LocalRequests ==
    {[Request EXCEPT !.route = r, !.method = "GET", !.tls = tls] :
        r \in {"metadata", "healthz"}, tls \in BOOLEAN}
    \cup {[Request EXCEPT !.method = m] : m \in {"GET", "DELETE", "PUT"}}
    \cup {[Request EXCEPT !.body = b] : b \in {"unreadable", "garbled"}}
    \cup {[Request EXCEPT !.rpc = m, !.id = id] :
             m \in {"initialize", "ping", "server/discover", "other"}, id \in BOOLEAN}
    \cup {[Request EXCEPT !.rpc = "notifications/initialized", !.id = FALSE]}

Lists == {[Request EXCEPT !.rpc = "tools/list", !.auth = k] :
             k \in Good \cup {Both(g) : g \in Good} \cup {NoToken}}

CallRequests ==
    {[Request EXCEPT !.auth = k, !.tool = "x", !.args = Plainest] : k \in Tokens}
    \cup {[Request EXCEPT !.auth = Both(k), !.tool = "x", !.args = a] : k \in Good, a \in ArgShapes}
    \cup {[Request EXCEPT !.auth = k, !.tool = "y", !.id = FALSE] : k \in Good}
    \cup {[Request EXCEPT !.auth = Both(k), !.tool = "y",
                          !.args = Object([tenant |-> Str(<<"t2">>)])] : k \in Good}
    \cup {[Request EXCEPT !.auth = k, !.tool = "list_instances"] : k \in Good}
    \cup {[Request EXCEPT !.auth = k, !.params = p] : k \in Good, p \in {"object", "null", "invalid"}}
    \cup {[Request EXCEPT !.auth = Both(k), !.tool = "z", !.args = Plainest] : k \in Good}
    \cup {[Request EXCEPT !.tls = TRUE, !.tool = "x"]}

MCRequests == LocalRequests \cup Lists \cup CallRequests
-----------------------------------------------------------------------------
(* Answers of backends *)

Data(m, x) == <<"data", m, x>>

JSON(rpc, sid) == [ok |-> TRUE, stream |-> FALSE, lines |-> <<Data(1, 1)>>, rpc |-> rpc, sid |-> sid]
SSE(rpc, lines) == [ok |-> TRUE, stream |-> TRUE, lines |-> lines, rpc |-> rpc, sid |-> TRUE]

MCReplies ==
    {JSON("result", TRUE), JSON("result", FALSE), JSON("error", TRUE), JSON("null", TRUE),
     [JSON("garbled", FALSE) EXCEPT !.ok = FALSE],
     [JSON("garbled", FALSE) EXCEPT !.lines = <<>>],
     [JSON("garbled", FALSE) EXCEPT !.lines = <<Data(1, 1), <<"cut">>>>],
     SSE("result", <<<<"field">>, Data(1, 1), Data(1, 2), <<"blank">>>>),
     SSE("result", <<<<"blank">>, Data(1, 1)>>),
     SSE("notification", <<Data(1, 1), <<"blank">>, Data(2, 1), <<"blank">>>>),
     SSE("garbled", <<<<"field">>, <<"blank">>>>),
     SSE("garbled", <<Data(1, 1), <<"cut">>>>)}
=============================================================================
