SPECIFICATION Spec
CONSTANTS
    t1 = t1
    t2 = t2
    t3 = t3
    be1 = be1
    be2 = be2
    g1 = g1
    g2 = g2
    c1 = c1
    c2 = c2
    c3 = c3
    r1 = r1
    r2 = r2
    s1 = s1
    s2 = s2
    b1 = b1
    b2 = b2
    NoCred = NoCred
    NoArg = NoArg
    UnknownTenant = UnknownTenant
    NoSID = NoSID
    Unset = Unset
    NoReq = NoReq
    NoSession = NoSession
    Creds = {c1, c2, c3}
    TTL = 1
    Reqs = {r1, r2}
    Tenants = {t1}
    Backends = {be1}
    Groups = {g1}
    TenantBackend <- ClientsBackend
    TenantGroups <- ClientsGroups
    TenantCredential <- ClientsCred
    BackendCredential <- ClientsDefault
    StatelessBackends = {}
    SIDs = {s1}
    BSIDs = {b1}
SYMMETRY Symmetry
INVARIANTS
    NoMapRace
