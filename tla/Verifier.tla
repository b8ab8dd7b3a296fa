------------------------------ MODULE Verifier ------------------------------
(***************************************************************************)
(* Token verification (internal/auth), as operators on the auth section of *)
(* a configuration and the Authorization header of a request.              *)
(*                                                                         *)
(* A header is a record                                                    *)
(*    scheme     "none", "other" or "bearer"                               *)
(*    key        the key whose signature the token carries, with its       *)
(*               family: "hmac", "pem", "jwks", "foreign", or "garbled"    *)
(*               for what does not parse as a token                        *)
(*    exp        "ahead", "past" or "missing"                              *)
(*    iss        the issuer                                                *)
(*    claims     aud, scope, scp, groups, roles                            *)
(* and a claim a record of its JSON kind ("absent", "string", "list" or    *)
(* "other") and the strings in it: the items of a list, those that are not *)
(* strings left out, the words of a scope string, or the one string.       *)
(***************************************************************************)
EXTENDS FiniteSets

Unauthorized      == [err |-> "unauthorized", groups |-> {}]
InsufficientScope == [err |-> "insufficient_scope", groups |-> {}]
Verified(groups)  == [err |-> "", groups |-> groups]

\* loadStaticKey, or the key set of the JWKS endpoint.
KeyOf(a) == IF a.mode = "jwks" THEN "jwks" ELSE IF a.hmac # "" THEN "hmac" ELSE "pem"

\* Mutant: exp is checked only when it is there.
ParsesAnyExpiry(a, k) ==
    /\ k.scheme = "bearer" /\ k.key # "garbled"
    /\ a.mode = "insecure" \/ /\ k.key = KeyOf(a)
                              /\ k.exp # "past"
                              /\ a.issuer # "" => k.iss = a.issuer

\* bearerToken, then jwt.ParseWithClaims with parserOpts and the algorithms of
\* the key, or ParseUnverified.
Parses(a, k) ==
    /\ k.scheme = "bearer" /\ k.key # "garbled"
    /\ a.mode = "insecure" \/ /\ k.key = KeyOf(a)
                              /\ k.exp = "ahead"
                              /\ a.issuer # "" => k.iss = a.issuer

AcceptedAudiences(a) == ({a.audience} \ {""}) \cup a.additional

CheckAudience(a, k) ==
    AcceptedAudiences(a) # {} => k.claims["aud"].strings \cap AcceptedAudiences(a) # {}

\* One of the scopes is enough.  scp is read only when there is no scope.
HasRequiredScope(a, k) ==
    LET raw == IF k.claims["scope"].kind # "absent" THEN k.claims["scope"] ELSE k.claims["scp"]
    IN  raw.strings \cap a.scopes # {}

\* An empty string claim yields no group; an empty string in a list is one.
ExtractGroups(a, k) ==
    LET raw == k.claims[a.groupsClaim]
    IN  IF raw.kind \in {"absent", "other"} THEN Unauthorized
        ELSE Verified(IF raw.kind = "string" THEN raw.strings \ {""} ELSE raw.strings)

\* Verifier.Groups of both verifiers.
VerifierGroups(a, k) ==
    IF ~Parses(a, k) \/ ~CheckAudience(a, k) THEN Unauthorized
    ELSE IF a.scopes # {} /\ ~HasRequiredScope(a, k) THEN InsufficientScope
    ELSE ExtractGroups(a, k)
-----------------------------------------------------------------------------
(* auth.New *)

\* The verifiers that need neither a file nor the network.
BuiltLocally(a) == a.mode = "insecure" \/ (a.mode = "static" /\ a.hmac # "")

\* discoverJWKSURL is going to ask the issuer, under the context of the process.
Discovers(a) == a.mode = "jwks" /\ a.jwksURL = ""
=============================================================================
