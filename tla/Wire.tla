-------------------------------- MODULE Wire --------------------------------
(***************************************************************************)
(* What goes over the wire, as operators: the tenant selector in schemas   *)
(* and arguments (schema.go), the SEP-2243 parameter headers               *)
(* (paramheaders.go), the headers of a backend request (client.go) and the *)
(* decoding of a backend's answer (mcp.go, client.go).                     *)
(*                                                                         *)
(* A JSON value is tagged with its kind: <<"string", s>> with s a sequence *)
(* of characters, <<"int", n>>, <<"bool", b>>, <<"null">> or <<"other">>   *)
(* (an object, a list, a fraction).  Arguments are an "object", with the   *)
(* function of its fields, "absent" (or null), or "other".                 *)
(***************************************************************************)
EXTENDS Integers, Sequences, FiniteSets, TLC

CONSTANTS Safe,        \* the characters from 0x21 to 0x7E
          Encoded,     \* base64, character by character, into Safe
          FloatExact   \* 2^53: the integers up to here have a float64 each

Blank == {" ", "\t"}

ASSUME EncodedAssumption ==
    /\ \A c, d \in DOMAIN Encoded : c # d => Encoded[c] # Encoded[d]
    /\ \A c \in DOMAIN Encoded : Encoded[c] \in Safe \ {"=?base64", "?", "="}
    /\ " " \notin Safe /\ "\t" \notin Safe
    /\ FloatExact \in Nat \ {0} /\ FloatExact % 2 = 0

\* mergeHeaders: the entries of both, those of over where base has them too.
Overlay(base, over) ==
    [x \in DOMAIN base \cup DOMAIN over |-> IF x \in DOMAIN over THEN over[x] ELSE base[x]]

Without(f, x) == [y \in DOMAIN f \ {x} |-> f[y]]

IsObject(args) == args.kind = "object"
Object(fields) == [kind |-> "object", fields |-> fields]
NoArgs         == [kind |-> "absent", fields |-> <<>>]
-----------------------------------------------------------------------------
(* schema.go *)

\* The schema of a tool's input: for each property its x-mcp-header ("" if it
\* has none) and its enum ({} if it has none), and the required properties.
Property(header, enum) == [header |-> header, enum |-> enum]

\* Mutant: what was required before is lost.
InjectTenantArgOnly(sch, ids, required) ==
    [props    |-> Overlay(sch.props, [tenant |-> Property("", ids)]),
     required |-> IF required THEN {"tenant"} ELSE sch.required]

\* injectTenantArg with tenantSchema, on a clone of the cached tool.
InjectTenantArg(sch, ids, required) ==
    [props    |-> Overlay(sch.props, [tenant |-> Property("", ids)]),
     required |-> sch.required \cup (IF required THEN {"tenant"} ELSE {})]

\* The schema tools/list shows a caller with these tenants, for a tool that
\* those in having have.
ListedSchema(sch, authorized, having) ==
    CASE authorized = {} -> InjectTenantArg(sch, {}, FALSE)
      [] Cardinality(authorized) >= 2 ->
             InjectTenantArg(sch, having, Cardinality(having) >= 2)
      [] OTHER -> sch

\* extractTenantArg: the characters of the argument, none when it is no string.
ExtractTenantArg(args) ==
    IF IsObject(args) /\ "tenant" \in DOMAIN args.fields /\ args.fields["tenant"][1] = "string"
      THEN args.fields["tenant"][2] ELSE <<>>

\* stripTenantArg leaves absent arguments alone, and fails on "other" ones.
Strippable(args)     == args.kind # "other"
StripTenantArg(args) == IF IsObject(args) THEN Object(Without(args.fields, "tenant")) ELSE args
-----------------------------------------------------------------------------
(* paramheaders.go *)

Prefix == <<"=?base64", "?">>
Suffix == <<"?", "=">>

\* The value has both marks, which may overlap.
LooksEncoded(s) ==
    /\ Len(s) >= 2
    /\ s[1] = Prefix[1] /\ s[2] = Prefix[2]
    /\ s[Len(s) - 1] = Suffix[1] /\ s[Len(s)] = Suffix[2]

\* Mutant: only a leading blank counts.
RequiresBase64Leading(s) ==
    /\ s # <<>>
    /\ \/ s[1] \in Blank
       \/ \E i \in DOMAIN s : s[i] \notin Safe \cup Blank
       \/ LooksEncoded(s)

\* requiresParamHeaderBase64: a blank at an end, a control or a non-ASCII
\* character (the tab among them), or what looks encoded already.
RequiresBase64(s) ==
    /\ s # <<>>
    /\ \/ s[1] \in Blank \/ s[Len(s)] \in Blank
       \/ \E i \in DOMAIN s : s[i] \notin Safe \cup {" "}
       \/ LooksEncoded(s)

\* float64(n): above 2^53 every second integer, ties to the even mantissa.
\* Modelled up to 2^54, and its mirror image.
Float(n) ==
    LET m == IF n < 0 THEN -n ELSE n
        k == m \div 2
        r == IF m <= FloatExact \/ m % 2 = 0 THEN m ELSE IF k % 2 = 0 THEN m - 1 ELSE m + 1
    IN  IF n < 0 THEN -r ELSE r

\* The text of a JSON value, by the way of json.Unmarshal into an `any'.
TextOf(v) ==
    CASE v[1] = "string" -> v[2]
      [] v[1] = "bool"   -> <<IF v[2] THEN "true" ELSE "false">>
      [] v[1] = "int"    -> <<ToString(Float(v[2]))>>

EncodeText(s) ==
    IF RequiresBase64(s) THEN Prefix \o [i \in DOMAIN s |-> Encoded[s[i]]] \o Suffix ELSE s

\* encodeParamHeaderValue reports true.
Encodable(v) == v[1] \in {"string", "bool", "int"}

\* The properties that paramHeadersForTool projects.
Projected(sch, args) ==
    IF ~IsObject(args) THEN {}
    ELSE {p \in DOMAIN sch.props \cap DOMAIN args.fields :
             sch.props[p].header # "" /\ Encodable(args.fields[p])}

\* The name of a header is a pair, so that the prefix can be told.
PlainHeader(name) == <<"", name>>

\* Mutant: the header gets the bare name.
ParamHeaderBare(name) == PlainHeader(name)

ParamHeader(name) == <<"Mcp-Param-", name>>

\* paramHeadersForTool.  Of two properties with the same header, the last one
\* in Go's random order of the map stays: a set of possible results.
ParamHeaders(sch, args) ==
    LET projected == Projected(sch, args)
        names     == {sch.props[p].header : p \in projected}
        by        == {f \in [names -> projected] : \A n \in names : sch.props[f[n]].header = n}
    IN  {[h \in {ParamHeader(n) : n \in names} |-> EncodeText(TextOf(args.fields[f[h[2]]]))]
            : f \in by}

\* What the backend makes of such a header: HTTP trims it, SEP-2243 decodes it.
TrimBlanks(s) ==
    LET inner == {i \in DOMAIN s : s[i] \notin Blank}
    IN  IF inner = {} THEN <<>>
        ELSE SubSeq(s, CHOOSE i \in inner : \A j \in inner : i <= j,
                       CHOOSE i \in inner : \A j \in inner : i >= j)

DecodeHeader(h) ==
    LET s == TrimBlanks(h)
        decode(c) == CHOOSE d \in DOMAIN Encoded : Encoded[d] = c
        n == Len(s) - 4
    IN  IF n >= 0 /\ LooksEncoded(s)
          THEN [i \in 1..n |-> decode(s[i + 2])] ELSE s
-----------------------------------------------------------------------------
(* client.go: the request *)

\* applyAuth: the credential, over it the backend's headers, over these the
\* extra ones.  The value of a header is a sequence.
CredentialHeader(backend, credential) ==
    LET value == IF backend.scheme = "" THEN credential ELSE <<backend.scheme>> \o credential
    IN  IF credential = <<>> THEN <<>> ELSE [h \in {PlainHeader(backend.header)} |-> value]

Plain(headers) == [h \in {PlainHeader(k) : k \in DOMAIN headers} |-> headers[h[2]]]

ApplyAuth(backend, credential, extra) ==
    Overlay(Overlay(CredentialHeader(backend, credential), Plain(backend.headers)), extra)
-----------------------------------------------------------------------------
(* mcp.go, client.go: the answer *)

\* A line of an event stream is <<"data", m, x>>, for a message with number m,
\* <<"blank">>, <<"field">> (event, id, retry, a comment) or <<"cut">>: the stream
\* breaks off with an error.
IsData(l) == l[1] = "data"

\* The framing: a message is the data lines up to a blank line.  A body that is no
\* stream is one message.
Framed(reply) ==
    LET lines == reply.lines
        datas == {i \in DOMAIN lines : IsData(lines[i])}
    IN  /\ Len(lines) \in Nat /\ DOMAIN lines = 1..Len(lines)
        /\ ~reply.stream => \A i \in DOMAIN lines : lines[i][1] \in {"data", "cut"}
        /\ \A i \in datas : lines[i][2] \in Nat
        /\ \A i, j \in datas : i < j =>
              IF \E b \in (i + 1)..(j - 1) : lines[b][1] = "blank"
                THEN lines[i][2] < lines[j][2] ELSE lines[i][2] = lines[j][2]

\* A payload is the set of the positions of its data lines, which are joined in their
\* order; decoding yields a set of at most one payload, none for an error.

\* Mutant: the stream is read to its end.
DecodeSSEAll(lines) == {{i \in DOMAIN lines : IsData(lines[i])}}

\* decodeSSE: the data lines up to the first blank line that follows one.
DecodeSSE(lines) ==
    LET closed == {i \in DOMAIN lines : /\ lines[i][1] \in {"blank", "cut"}
                                       /\ \/ \E j \in 1..(i - 1) : IsData(lines[j])
                                          \/ lines[i][1] = "cut"}
        end    == IF closed = {} THEN Len(lines) + 1
                                 ELSE CHOOSE i \in closed : \A j \in closed : i <= j
        data   == {i \in 1..(end - 1) : IsData(lines[i])}
    IN  IF data = {} \/ (end <= Len(lines) /\ lines[end][1] = "cut") THEN {} ELSE {data}

\* decodeBody of a 2xx answer.  A body that is no stream is taken as it is, even
\* an empty one.
DecodeBody(reply) ==
    IF reply.stream THEN DecodeSSE(reply.lines)
    ELSE IF \E i \in DOMAIN reply.lines : reply.lines[i][1] = "cut" THEN {} ELSE {DOMAIN reply.lines}

\* post, then for initialize the envelope of the payload: rpc is "result",
\* "error", "null" (an error member that is null), "garbled" or "notification"
\* (some other message).  What has no error member counts as a success.
Posted(reply) == IF reply.ok THEN DecodeBody(reply) ELSE {}

\* Mutant: the member error is not looked at.
OpenedAnyway(reply) == Posted(reply) # {} /\ reply.rpc # "garbled"

Opened(reply) == Posted(reply) # {} /\ reply.rpc \in {"result", "notification"}
=============================================================================
