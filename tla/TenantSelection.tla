-------------------------- MODULE TenantSelection --------------------------
(***************************************************************************)
(* Handler.selectTenant: which tenant a tools/call goes to, or which error *)
(* result the caller gets.                                                 *)
(*                                                                         *)
(* `mayHave' stands for the answers of Catalogs.cachedTool: the tenants    *)
(* whose cached catalog lists the tool, or whose catalog is not known yet. *)
(* `explicit' is the value of extractTenantArg: NoArg when the argument is *)
(* absent, empty or not a string.                                          *)
(***************************************************************************)
EXTENDS Registry, FiniteSets

CONSTANTS NoArg,          \* no usable "tenant" argument
          UnknownTenant   \* any id that is not a key of the registry

ASSUME ArgAssumption == NoArg \notin Tenants /\ UnknownTenant \notin Tenants
                        /\ NoArg # UnknownTenant

TenantArgs == Tenants \cup {NoArg, UnknownTenant}

\* Handler.tenantsWithTool
TenantsWithTool(candidates, mayHave) == candidates \cap mayHave

\* Handler.unavailable returns a message
Unavailable(t, mayHave) == t \notin mayHave

\* Mutant: the named tenant is resolved but not checked against the groups.
SelectExplicitUnchecked(id, groups, mayHave) ==
    {t \in {id} : Resolves(t) /\ ~Unavailable(t, mayHave)}

\* The tenant selectTenant returns: a set with at most one element, empty
\* when it returns one of its error results.
SelectExplicit(id, groups, mayHave) ==
    {t \in {id} : Resolves(t) /\ IsAuthorized(t, groups) /\ ~Unavailable(t, mayHave)}

SelectImplicit(groups, mayHave) ==
    LET authorized == AuthorizedTenants(groups)
        candidates == TenantsWithTool(authorized, mayHave)
    IN  IF Cardinality(authorized) = 1
          THEN {t \in authorized : ~Unavailable(t, mayHave)}
          ELSE IF Cardinality(candidates) = 1 THEN candidates ELSE {}

SelectTenant(explicit, groups, mayHave) ==
    IF explicit # NoArg THEN SelectExplicit(explicit, groups, mayHave)
                        ELSE SelectImplicit(groups, mayHave)
=============================================================================
