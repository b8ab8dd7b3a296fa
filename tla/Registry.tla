------------------------------ MODULE Registry ------------------------------
(***************************************************************************)
(* The immutable tenant index built at startup (internal/registry).        *)
(*                                                                         *)
(* The configuration is a family of constants: registry.New never changes  *)
(* it after startup, and rejects what the assumptions below exclude        *)
(* (duplicate tenant ids, no tenant at all).  Names, URLs and credentials  *)
(* are opaque values; NoCred is the empty credential string.               *)
(***************************************************************************)

CONSTANTS
    Tenants,            \* tenant ids: the keys of Registry.byTenant
    Backends,           \* downstream MCP servers
    Groups,             \* group names a token can carry
    Creds,              \* non-empty credential strings
    NoCred,             \* the empty credential
    TenantBackend,      \* Tenant.Backend
    TenantGroups,       \* Tenant.Groups
    TenantCredential,   \* Tenant.Credential
    BackendCredential,  \* Backend.Credential
    StatelessBackends   \* backends whose ProtocolVersion is the stateless one

ASSUME TenantsAssumption  == Tenants # {}
ASSUME BackendAssumption  == TenantBackend \in [Tenants -> Backends]
ASSUME GroupsAssumption   == TenantGroups \in [Tenants -> SUBSET Groups]
ASSUME CredAssumption     == /\ NoCred \notin Creds
                             /\ TenantCredential \in [Tenants -> Creds \cup {NoCred}]
                             /\ BackendCredential \in [Backends -> Creds \cup {NoCred}]
ASSUME StatelessAssumption == StatelessBackends \subseteq Backends
-----------------------------------------------------------------------------
Stateless(b) == b \in StatelessBackends

\* With no backend at all the code answers false; a tenant has a backend, so
\* that case is excluded by TenantsAssumption, but the test is kept.
AllStateless == Backends # {} /\ \A b \in Backends : Stateless(b)

EffectiveCredential(t) ==
    IF TenantCredential[t] # NoCred THEN TenantCredential[t]
                                    ELSE BackendCredential[TenantBackend[t]]

\* Registry.ResolveTenant: the id is a key of byTenant.
Resolves(id) == id \in Tenants

IsAuthorized(t, groups) == TenantGroups[t] \cap groups # {}

\* A set: the order by tenant id only matters for wording.
AuthorizedTenants(groups) == {t \in Tenants : IsAuthorized(t, groups)}
=============================================================================
