SPECIFICATION Spec
CONSTANTS
    t1 = t1
    t2 = t2
    t3 = t3
    be1 = be1
    be2 = be2
    g1 = g1
    g2 = g2
    g3 = g3
    c1 = c1
    c2 = c2
    p1 = p1
    p2 = p2
    x = x
    h = h
    NoCred = NoCred
    NoArg = NoArg
    UnknownTenant = UnknownTenant
    NoTool = NoTool
    Warmer = Warmer
    NoProc = NoProc
    Skipped = Skipped
    Unread = Unread
    Creds = {c1, c2}
    Groups = {g1, g2, g3}
    Tenants = {t1, t2}
    TenantGroups <- FlakyGroups
    TenantCredential <- FlakyCreds
    TenantHeaders <- FlakyHeaders
    TenantOrder <- FlakyOrder
    ClientGroups <- FlakyTokens
    StatelessBackends = {}
    CatalogTTL = 1
    Backends = {be1}
    TenantBackend <- FlakyBackend
    BackendCredential <- FlakyDefault
    Health <- FlakyHealth
    Offers <- FlakyOffers
    Tools = {x}
    Clients = {p1, p2}
INVARIANTS
    IInv
    ColdCacheNeverRefuses
    ListedStaysListed
    WarmDoneMeansFetched
    CompleteSelectorWorks
