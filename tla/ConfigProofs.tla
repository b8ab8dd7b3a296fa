---------------------------- MODULE ConfigProofs ----------------------------
(***************************************************************************)
(* TLAPS proofs about Config, for every file and every environment: what   *)
(* Load and registry.New leave of a file, and what they put in.            *)
(***************************************************************************)
EXTENDS Config, TLAPS

\* applyDefaults and expandEnv keep the backends, and of each the name and the URL; the
\* header, the scheme and the version are those of the file or the defaults.
LEMMA LoadedBackend ==
  ASSUME NEW c, FileTyped(c)
  PROVE  /\ DOMAIN Loaded(c).backends = DOMAIN c.backends
         /\ \A i \in DOMAIN c.backends :
               LET b == c.backends[i]
                   d == Loaded(c).backends[i]
               IN  /\ DOMAIN d = DOMAIN b
                   /\ d.name = b.name /\ d.url = b.url
                   /\ d.header = OrElse(b.header, "Authorization")
                   /\ d.scheme = (IF b.scheme = Null THEN "Bearer" ELSE b.scheme)
                   /\ d.version = OrElse(b.version, StatefulVersion)
                   /\ d.credential = ExpandRefs(b.credential)
                   /\ d.headers = ExpandHeaders(b.headers)
                   /\ d.tenants = [j \in DOMAIN b.tenants |-> ExpandTenant(b.tenants[j])]
<1> DEFINE a == ApplyDefaults(c)
<1>1. /\ a.backends = [i \in DOMAIN c.backends |-> DefaultBackend(c.backends[i])]
      /\ DOMAIN a = DOMAIN c
  BY DEF ApplyDefaults, FileTyped
<1>2. Loaded(c).backends = [i \in DOMAIN a.backends |-> ExpandBackend(a.backends[i])]
  <2>1. Loaded(c) = ExpandEnv(a)
    BY DEF Loaded
  <2>2. "backends" \in DOMAIN a
    BY <1>1 DEF FileTyped
  <2> HIDE DEF a
  <2> QED
    BY <2>1, <2>2 DEF ExpandEnv
<1> HIDE DEF a
<1>3. DOMAIN Loaded(c).backends = DOMAIN c.backends
  BY <1>1, <1>2
<1>4. SUFFICES ASSUME NEW i \in DOMAIN c.backends
               PROVE  LET b == c.backends[i]
                          d == Loaded(c).backends[i]
                      IN  /\ DOMAIN d = DOMAIN b
                          /\ d.name = b.name /\ d.url = b.url
                          /\ d.header = OrElse(b.header, "Authorization")
                          /\ d.scheme = (IF b.scheme = Null THEN "Bearer" ELSE b.scheme)
                          /\ d.version = OrElse(b.version, StatefulVersion)
                          /\ d.credential = ExpandRefs(b.credential)
                          /\ d.headers = ExpandHeaders(b.headers)
                          /\ d.tenants = [j \in DOMAIN b.tenants |-> ExpandTenant(b.tenants[j])]
  BY <1>3
<1> DEFINE b == c.backends[i]
           e == a.backends[i]
           d == Loaded(c).backends[i]
<1>5. DOMAIN b = {"name", "url", "credential", "header", "scheme", "version", "headers", "tenants"}
  BY DEF FileTyped
<1>6. e = DefaultBackend(b)
  BY <1>1
<1>7. d = ExpandBackend(e)
  BY <1>1, <1>2
<1> HIDE DEF b, d, e
<1>8. /\ DOMAIN e = DOMAIN b
      /\ e.name = b.name /\ e.url = b.url /\ e.credential = b.credential
      /\ e.headers = b.headers /\ e.tenants = b.tenants
      /\ e.header = OrElse(b.header, "Authorization")
      /\ e.scheme = (IF b.scheme = Null THEN "Bearer" ELSE b.scheme)
      /\ e.version = OrElse(b.version, StatefulVersion)
  BY <1>5, <1>6 DEF DefaultBackend
<1>9. /\ DOMAIN d = DOMAIN e
      /\ d.name = e.name /\ d.url = e.url /\ d.header = e.header /\ d.scheme = e.scheme
      /\ d.version = e.version
      /\ d.credential = ExpandRefs(e.credential) /\ d.headers = ExpandHeaders(e.headers)
      /\ d.tenants = [j \in DOMAIN e.tenants |-> ExpandTenant(e.tenants[j])]
  BY <1>5, <1>7, <1>8 DEF ExpandBackend
<1> QED
  BY <1>8, <1>9 DEF b, d

\* Load keeps the tenants, each at its place, with its id and its groups.
LEMMA LoadedTenant ==
  ASSUME NEW c, FileTyped(c)
  PROVE  /\ Places(Loaded(c)) = Places(c)
         /\ \A p \in Places(c) :
               /\ p[1] \in DOMAIN c.backends
               /\ TenantAt(Loaded(c), p).id = TenantAt(c, p).id
               /\ TenantAt(Loaded(c), p).groups = TenantAt(c, p).groups
               /\ TenantAt(Loaded(c), p).credential = ExpandRefs(TenantAt(c, p).credential)
               /\ TenantAt(Loaded(c), p).headers = ExpandHeaders(TenantAt(c, p).headers)
<1>1. /\ DOMAIN Loaded(c).backends = DOMAIN c.backends
      /\ \A i \in DOMAIN c.backends :
            Loaded(c).backends[i].tenants =
               [j \in DOMAIN c.backends[i].tenants |-> ExpandTenant(c.backends[i].tenants[j])]
  BY LoadedBackend
<1>2. \A i \in DOMAIN c.backends :
         DOMAIN Loaded(c).backends[i].tenants = DOMAIN c.backends[i].tenants
  BY <1>1
<1>3. Places(Loaded(c)) = Places(c)
  <2>1. \A i \in DOMAIN c.backends :
           {<<i, j>> : j \in DOMAIN Loaded(c).backends[i].tenants} =
           {<<i, j>> : j \in DOMAIN c.backends[i].tenants}
    BY <1>2, Zenon
  <2>2. UNION {{<<i, j>> : j \in DOMAIN Loaded(c).backends[i].tenants} : i \in DOMAIN c.backends} =
        UNION {{<<i, j>> : j \in DOMAIN c.backends[i].tenants} : i \in DOMAIN c.backends}
    BY <2>1
  <2> QED
    BY <1>1, <2>2, Zenon DEF Places
<1>4. ASSUME NEW p \in Places(c)
      PROVE  /\ p[1] \in DOMAIN c.backends
             /\ TenantAt(Loaded(c), p).id = TenantAt(c, p).id
             /\ TenantAt(Loaded(c), p).groups = TenantAt(c, p).groups
             /\ TenantAt(Loaded(c), p).credential = ExpandRefs(TenantAt(c, p).credential)
             /\ TenantAt(Loaded(c), p).headers = ExpandHeaders(TenantAt(c, p).headers)
  <2>0. PICK i \in DOMAIN c.backends : \E j \in DOMAIN c.backends[i].tenants : p = <<i, j>>
    BY <1>4 DEF Places
  <2>1. PICK j \in DOMAIN c.backends[i].tenants : p = <<i, j>>
    BY <2>0
  <2> DEFINE t == c.backends[i].tenants[j]
  <2>2. TenantAt(c, p) = t /\ TenantAt(Loaded(c), p) = ExpandTenant(t)
    BY <1>1, <2>1 DEF TenantAt
  <2>3. DOMAIN t = {"id", "groups", "credential", "headers"}
    BY DEF FileTyped
  <2> HIDE DEF t
  <2> QED
    BY <2>1, <2>2, <2>3 DEF ExpandTenant
<1> QED
  BY <1>3, <1>4

\* The place registry.New takes a tenant from is the place of that id, as no id comes twice.
LEMMA UniquePlace ==
  ASSUME NEW c, IdsUnique(c), NEW p \in Places(c)
  PROVE  p = CHOOSE q \in Places(c) : TenantAt(c, q).id = TenantAt(c, p).id
<1> DEFINE ch == CHOOSE q \in Places(c) : TenantAt(c, q).id = TenantAt(c, p).id
<1>1. ch \in Places(c) /\ TenantAt(c, ch).id = TenantAt(c, p).id
  OBVIOUS
<1> QED
  BY <1>1 DEF IdsUnique

\* registry.New indexes the tenants of a configuration, each with its own backend.
LEMMA BuiltTenant ==
  ASSUME NEW c, IdsUnique(c)
  PROVE  /\ DOMAIN Built(c) = {TenantAt(c, p).id : p \in Places(c)}
         /\ \A p \in Places(c) :
               LET t == TenantAt(c, p)
                   r == Built(c)[t.id]
                   b == DefaultBackend(c.backends[p[1]])
               IN  /\ r.groups = t.groups /\ r.credential = t.credential /\ r.headers = t.headers
                   /\ r.backend = [name |-> b.name, credential |-> b.credential,
                                   header |-> b.header, scheme |-> b.scheme,
                                   version |-> b.version, headers |-> b.headers]
<1>1. DOMAIN Built(c) = {TenantAt(c, p).id : p \in Places(c)}
  BY DEF Built
<1>2. ASSUME NEW p \in Places(c)
      PROVE  LET t == TenantAt(c, p)
                 r == Built(c)[t.id]
                 b == DefaultBackend(c.backends[p[1]])
             IN  /\ r.groups = t.groups /\ r.credential = t.credential /\ r.headers = t.headers
                 /\ r.backend = [name |-> b.name, credential |-> b.credential,
                                 header |-> b.header, scheme |-> b.scheme,
                                 version |-> b.version, headers |-> b.headers]
  <2> DEFINE id == TenantAt(c, p).id
             ch == CHOOSE q \in Places(c) : TenantAt(c, q).id = id
             b(q) == DefaultBackend(c.backends[q[1]])
             record(q) == [groups     |-> TenantAt(c, q).groups,
                           credential |-> TenantAt(c, q).credential,
                           headers    |-> TenantAt(c, q).headers,
                           backend    |-> [name |-> b(q).name, credential |-> b(q).credential,
                                           header |-> b(q).header, scheme |-> b(q).scheme,
                                           version |-> b(q).version, headers |-> b(q).headers]]
  <2>1. id \in {TenantAt(c, q).id : q \in Places(c)}
    BY Zenon
  <2>2. Built(c)[id] = record(ch)
    BY <2>1 DEF Built
  <2>3. ch = p
    BY UniquePlace
  <2> HIDE DEF ch
  <2>4. Built(c)[id] = record(p)
    BY <2>2, <2>3
  <2> QED
    BY <2>4
<1> QED
  BY <1>1, <1>2

\* A registry built of a file that Load accepts, in terms of the file.
Serves(reg, c) == FileTyped(c) /\ Loads(c) /\ reg = Built(Loaded(c))

\* Load and registry.New serve each tenant of the file, with its groups and secrets, on the
\* backend it stands under, which has its defaults and a revision that the proxy speaks.
THEOREM ServedAsWritten ==
  ASSUME NEW c, NEW reg, Serves(reg, c)
  PROVE  /\ DOMAIN reg = {TenantAt(c, p).id : p \in Places(c)}
         /\ \A p \in Places(c) :
               LET t == TenantAt(c, p)
                   b == c.backends[p[1]]
                   r == reg[t.id]
               IN  /\ p[1] \in DOMAIN c.backends
                   /\ r.groups = t.groups
                   /\ r.credential = ExpandRefs(t.credential)
                   /\ r.headers = ExpandHeaders(t.headers)
                   /\ r.backend.name = b.name
                   /\ r.backend.credential = ExpandRefs(b.credential)
                   /\ r.backend.headers = ExpandHeaders(b.headers)
                   /\ r.backend.scheme # Null
                   /\ r.backend.header # ""
                   /\ r.backend.version = OrElse(b.version, StatefulVersion)
                   /\ r.backend.version \in {StatefulVersion, StatelessVersion}
                   /\ \A s \in BackendSecrets(b) : \A v \in RefsIn(s) : ~IsUnset(v)
<1> DEFINE l == Loaded(c)
<1>0. FileTyped(c) /\ reg = Built(l)
  BY DEF Serves
<1>1. /\ IdsUnique(l) /\ \A i \in DOMAIN l.backends : BackendUsable(l.backends[i])
      /\ EnvComplete(ApplyDefaults(c))
  BY DEF Serves, Loads, Loaded, Validate
<1>2. /\ Places(l) = Places(c)
      /\ \A p \in Places(c) :
            /\ p[1] \in DOMAIN c.backends
            /\ TenantAt(l, p).id = TenantAt(c, p).id
            /\ TenantAt(l, p).groups = TenantAt(c, p).groups
            /\ TenantAt(l, p).credential = ExpandRefs(TenantAt(c, p).credential)
            /\ TenantAt(l, p).headers = ExpandHeaders(TenantAt(c, p).headers)
  BY <1>0, LoadedTenant
<1>3. DOMAIN reg = {TenantAt(c, p).id : p \in Places(c)}
  <2>1. DOMAIN reg = {TenantAt(l, p).id : p \in Places(l)}
    BY <1>0, <1>1, BuiltTenant
  <2> HIDE DEF l
  <2> QED
    BY <1>2, <2>1
<1>4. ASSUME NEW p \in Places(c)
      PROVE  LET t == TenantAt(c, p)
                 b == c.backends[p[1]]
                 r == reg[t.id]
             IN  /\ p[1] \in DOMAIN c.backends
                 /\ r.groups = t.groups
                 /\ r.credential = ExpandRefs(t.credential)
                 /\ r.headers = ExpandHeaders(t.headers)
                 /\ r.backend.name = b.name
                 /\ r.backend.credential = ExpandRefs(b.credential)
                 /\ r.backend.headers = ExpandHeaders(b.headers)
                 /\ r.backend.scheme # Null
                 /\ r.backend.header # ""
                 /\ r.backend.version = OrElse(b.version, StatefulVersion)
                 /\ r.backend.version \in {StatefulVersion, StatelessVersion}
                 /\ \A s \in BackendSecrets(b) : \A v \in RefsIn(s) : ~IsUnset(v)
  <2> DEFINE i == p[1]
             b == c.backends[i]
             d == l.backends[i]
             e == DefaultBackend(d)
             r == reg[TenantAt(c, p).id]
  <2>1. i \in DOMAIN c.backends /\ i \in DOMAIN l.backends
    BY <1>0, <1>2, LoadedBackend
  <2>2. DOMAIN b = {"name", "url", "credential", "header", "scheme", "version", "headers", "tenants"}
    BY <1>0, <2>1 DEF FileTyped
  <2>3. /\ DOMAIN d = DOMAIN b
        /\ d.name = b.name
        /\ d.version = OrElse(b.version, StatefulVersion)
        /\ d.credential = ExpandRefs(b.credential)
        /\ d.headers = ExpandHeaders(b.headers)
    BY <1>0, <2>1, LoadedBackend, ZenonT(40)
  <2>4. d.version \in {StatefulVersion, StatelessVersion}
    BY <1>1, <2>1 DEF BackendUsable
  <2>5. /\ r.groups = TenantAt(l, p).groups /\ r.credential = TenantAt(l, p).credential
        /\ r.headers = TenantAt(l, p).headers
        /\ r.backend = [name |-> e.name, credential |-> e.credential,
                        header |-> e.header, scheme |-> e.scheme,
                        version |-> e.version, headers |-> e.headers]
    <3>1. p \in Places(l) /\ TenantAt(l, p).id = TenantAt(c, p).id
      BY <1>2
    <3>2. IdsUnique(l) /\ reg = Built(l)
      BY <1>0, <1>1
    <3> HIDE DEF l
    <3> QED
      BY <3>1, <3>2, BuiltTenant, ZenonT(40)
  <2>6. \A s \in BackendSecrets(b) : \A v \in RefsIn(s) : ~IsUnset(v)
    <3> DEFINE a == ApplyDefaults(c)
    <3>1. a.backends = [k \in DOMAIN c.backends |-> DefaultBackend(c.backends[k])]
      BY <1>0 DEF ApplyDefaults, FileTyped
    <3> HIDE DEF a
    <3>2. i \in DOMAIN a.backends /\ a.backends[i] = DefaultBackend(b)
      BY <2>1, <3>1
    <3>3. \A s \in BackendSecrets(a.backends[i]) : \A v \in RefsIn(s) : ~IsUnset(v)
      BY <1>1, <3>2 DEF EnvComplete, a
    <3> HIDE DEF b
    <3>4. /\ DefaultBackend(b).credential = b.credential /\ DefaultBackend(b).headers = b.headers
          /\ DefaultBackend(b).tenants = b.tenants
      BY <2>2 DEF DefaultBackend
    <3>5. BackendSecrets(a.backends[i]) = BackendSecrets(b)
      BY <3>2, <3>4 DEF BackendSecrets
    <3> QED
      BY <3>3, <3>5
  <2> HIDE DEF b, d, r, l
  <2>7. /\ e.name = d.name /\ e.credential = d.credential /\ e.headers = d.headers
        /\ e.header = OrElse(d.header, "Authorization")
        /\ e.scheme = (IF d.scheme = Null THEN "Bearer" ELSE d.scheme)
        /\ e.version = OrElse(d.version, StatefulVersion)
    BY <2>2, <2>3 DEF DefaultBackend
  <2> HIDE DEF e
  <2>8. /\ r.backend.name = e.name /\ r.backend.credential = e.credential
        /\ r.backend.header = e.header /\ r.backend.scheme = e.scheme
        /\ r.backend.version = e.version /\ r.backend.headers = e.headers
    BY <2>5
  <2>9. e.scheme # Null /\ e.header # ""
    BY <2>7 DEF Null, OrElse
  <2>10. e.version = d.version
    BY <2>4, <2>7 DEF OrElse, StatefulVersion, StatelessVersion
  <2>11. /\ r.groups = TenantAt(c, p).groups
         /\ r.credential = ExpandRefs(TenantAt(c, p).credential)
         /\ r.headers = ExpandHeaders(TenantAt(c, p).headers)
    BY <1>2, <2>5
  <2>12. /\ r.backend.name = b.name /\ r.backend.credential = ExpandRefs(b.credential)
         /\ r.backend.headers = ExpandHeaders(b.headers)
         /\ r.backend.version = OrElse(b.version, StatefulVersion)
         /\ r.backend.version \in {StatefulVersion, StatelessVersion}
    BY <2>3, <2>4, <2>7, <2>8, <2>10
  <2> QED
    BY <2>1, <2>6, <2>8, <2>9, <2>11, <2>12 DEF b, r
<1> QED
  BY <1>3, <1>4

\* The ids of a file that Load accepts are unique, so a tenant of the registry has one place.
LEMMA PlaceOfTenant ==
  ASSUME NEW c, NEW reg, Serves(reg, c), NEW t \in DOMAIN reg
  PROVE  LET p == CHOOSE p \in Places(c) : TenantAt(c, p).id = t
         IN  p \in Places(c) /\ TenantAt(c, p).id = t
<1>1. DOMAIN reg = {TenantAt(c, p).id : p \in Places(c)}
  BY ServedAsWritten, Zenon
<1>2. \E p \in Places(c) : TenantAt(c, p).id = t
  BY <1>1
<1> QED
  BY <1>2
=============================================================================
