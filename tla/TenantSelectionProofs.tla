------------------------ MODULE TenantSelectionProofs ------------------------
(***************************************************************************)
(* TLAPS proofs about selectTenant, for every registry, every set of       *)
(* groups and every state of the catalogs.                                 *)
(***************************************************************************)
EXTENDS TenantSelection, FiniteSetTheorems, TLAPS

\* A registry is a map built from a file: it is finite.
LEMMA FewAuthorized ==
  ASSUME IsFiniteSet(Tenants), NEW groups
  PROVE  AuthorizedTenants(groups) \subseteq Tenants /\ IsFiniteSet(AuthorizedTenants(groups))
<1>1. AuthorizedTenants(groups) \subseteq Tenants
  BY DEF AuthorizedTenants
<1> QED
  BY <1>1, FS_Subset

\* A call without "tenant" goes to one tenant or to none.
LEMMA ImplicitSingle ==
  ASSUME IsFiniteSet(Tenants), NEW groups, NEW mayHave, NEW t \in SelectImplicit(groups, mayHave)
  PROVE  SelectImplicit(groups, mayHave) = {t} /\ t \in AuthorizedTenants(groups) \cap mayHave
<1> DEFINE authorized == AuthorizedTenants(groups)
           candidates == authorized \cap mayHave
<1>1. IsFiniteSet(authorized) /\ IsFiniteSet(candidates)
  BY FewAuthorized, FS_Subset
<1>2. SelectImplicit(groups, mayHave) =
        IF Cardinality(authorized) = 1
          THEN {u \in authorized : u \in mayHave}
          ELSE IF Cardinality(candidates) = 1 THEN candidates ELSE {}
  BY DEF SelectImplicit, TenantsWithTool, Unavailable
<1> HIDE DEF authorized
<1>3. CASE Cardinality(authorized) = 1
  <2>1. PICK u : authorized = {u}
    BY <1>1, <1>3, FS_Singleton
  <2> QED
    BY <1>2, <1>3, <2>1 DEF authorized
<1>4. CASE Cardinality(authorized) # 1
  <2>1. Cardinality(candidates) = 1 /\ t \in candidates
    BY <1>2, <1>4
  <2>2. PICK u : candidates = {u}
    BY <1>1, <2>1, FS_Singleton
  <2> QED
    BY <1>2, <1>4, <2>1, <2>2 DEF authorized
<1> QED
  BY <1>3, <1>4

\* selectTenant returns one tenant or none, and only one that the groups of the token authorize
\* and that may have the tool.
THEOREM OneAuthorizedTenant ==
  ASSUME IsFiniteSet(Tenants), NEW arg \in TenantArgs, NEW groups, NEW mayHave,
         NEW t \in SelectTenant(arg, groups, mayHave)
  PROVE  /\ SelectTenant(arg, groups, mayHave) = {t}
         /\ t \in AuthorizedTenants(groups) \cap mayHave
         /\ arg # NoArg => t = arg
<1>1. CASE arg # NoArg
  BY <1>1 DEF SelectTenant, SelectExplicit, Resolves, Unavailable, AuthorizedTenants
<1>2. CASE arg = NoArg
  BY <1>2, ImplicitSingle DEF SelectTenant
<1> QED
  BY <1>1, <1>2

\* The tenant that a call without "tenant" is given is the one it would have got by naming it: the
\* argument only ever narrows the choice (selectTenant's two branches agree).
THEOREM NamingTheOnlyTenant ==
  ASSUME IsFiniteSet(Tenants), NEW groups, NEW mayHave,
         NEW t \in SelectTenant(NoArg, groups, mayHave)
  PROVE  SelectTenant(t, groups, mayHave) = {t}
<1>1. t \in AuthorizedTenants(groups) /\ t \in mayHave
  BY ImplicitSingle DEF SelectTenant
<1>2. t \in Tenants /\ IsAuthorized(t, groups) /\ t # NoArg
  BY <1>1, ArgAssumption DEF AuthorizedTenants
<1> QED
  BY <1>1, <1>2 DEF SelectTenant, SelectExplicit, Resolves, Unavailable

\* Where a call goes does not depend on the tenants that the caller is not authorized for: two
\* states of the catalogs that agree on the caller's own tenants route it alike (selectTenant,
\* tenantsWithTool).
THEOREM OthersDoNotMatter ==
  ASSUME NEW arg, NEW groups, NEW mayHave, NEW other,
         AuthorizedTenants(groups) \cap mayHave = AuthorizedTenants(groups) \cap other
  PROVE  SelectTenant(arg, groups, mayHave) = SelectTenant(arg, groups, other)
<1> DEFINE authorized == AuthorizedTenants(groups)
<1>1. ASSUME NEW t \in authorized PROVE t \in mayHave <=> t \in other
  BY <1>1
<1>2. SelectExplicit(arg, groups, mayHave) = SelectExplicit(arg, groups, other)
  BY <1>1 DEF SelectExplicit, Resolves, Unavailable, AuthorizedTenants
<1>3. {t \in authorized : ~Unavailable(t, mayHave)} = {t \in authorized : ~Unavailable(t, other)}
  BY <1>1 DEF Unavailable
<1> HIDE DEF authorized
<1>4. SelectImplicit(groups, mayHave) = SelectImplicit(groups, other)
  BY <1>3, Zenon DEF SelectImplicit, TenantsWithTool, authorized
<1> QED
  BY <1>2, <1>4 DEF SelectTenant
=============================================================================
