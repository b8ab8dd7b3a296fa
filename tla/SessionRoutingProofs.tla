------------------------ MODULE SessionRoutingProofs ------------------------
(***************************************************************************)
(* TLAPS proofs about SessionRouting, for every set of tenants, backends,  *)
(* handlers and sessions and every TTL.                                    *)
(***************************************************************************)
EXTENDS SessionRouting, TLAPS

USE DEF Goto, Answer, Forward, Locals, storeVars, reqVars, envVars

\* Handler.selectTenant returns only tenants the caller's groups authorize,
\* with or without a "tenant" argument, whatever the catalogs hold.
LEMMA SelectableAuthorized ==
  ASSUME NEW groups, NEW t \in Selectable(groups)
  PROVE  t \in Tenants /\ IsAuthorized(t, groups)
<1>1. PICK explicit \in TenantArgs, mayHave \in SUBSET Tenants :
         t \in SelectTenant(explicit, groups, mayHave)
  BY DEF Selectable
<1>2. CASE explicit # NoArg
  BY <1>1, <1>2 DEF SelectTenant, SelectExplicit, Resolves
<1>3. CASE explicit = NoArg
  BY <1>1, <1>3 DEF SelectTenant, SelectImplicit, TenantsWithTool, AuthorizedTenants
<1> QED
  BY <1>2, <1>3

\* The effective credential of a tenant is its own or its backend's.
LEMMA CredentialType ==
  ASSUME NEW t \in Tenants
  PROVE  EffectiveCredential(t) \in Creds \cup {NoCred}
BY BackendAssumption, CredAssumption DEF EffectiveCredential

\* The idle counter has room for a session that was just seen.
LEMMA CapType == IdleCap \in Nat /\ 0 \in 0..IdleCap
BY TTLAssumption DEF IdleCap

\* The unlocked read returns no entry, the empty id, the entry in the map, or
\* the id that another handler is storing for the same session and tenant.
LEMMA ReadCases ==
  ASSUME NEW r \in Reqs, NEW v \in ReadOutcomes(r)
  PROVE  \/ v = Unset
         \/ v = NoSID
         \/ v = backendSID[rsid[r]][rten[r]]
         \/ /\ mu # NoReq
            /\ rsid[mu] = rsid[r] /\ rten[mu] = rten[r]
            /\ v = rbsid[mu]
BY DEF ReadOutcomes, BeingWritten

\* Every step preserves the types.
LEMMA TypeStep == TypeOK /\ Control /\ [Next]_vars => TypeOK'
<1> SUFFICES ASSUME TypeOK /\ Control, [Next]_vars PROVE TypeOK'
  OBVIOUS
<1> USE DEF TypeOK, StoreTypeOK, PCs, UsingSession, Serving, BackendStates, Control
<1>1. ASSUME NEW r \in Reqs, HandleInitialize(r) PROVE TypeOK'
  <2>1. CASE AllStateless
    BY <1>1, <2>1 DEF HandleInitialize
  <2>2. ASSUME NEW s \in SIDs, Mint(s) PROVE TypeOK'
    <3>1. StoreTypeOK'
      BY <2>2, CapType DEF Mint, Reaped
    <3> QED
      BY <1>1, <2>2, <3>1 DEF HandleInitialize, Mint
  <2> QED
    BY <1>1, <2>1, <2>2 DEF HandleInitialize
<1>2. ASSUME NEW r \in Reqs, NEW s \in SIDs \cup {NoSession}, NEW groups \in SUBSET Groups,
             HandleToolsCall(r, s, groups)
      PROVE  TypeOK'
  <2>1. PICK t \in Selectable(groups) :
           pc' = [pc EXCEPT ![r] = Route(t)] /\ rten' = [rten EXCEPT ![r] = t]
    BY <1>2 DEF HandleToolsCall
  <2>2. t \in Tenants
    BY SelectableAuthorized
  <2> QED
    BY <1>2, <2>1, <2>2 DEF HandleToolsCall, Route
<1>3. ASSUME NEW r \in Reqs, NEW s \in SIDs, HandleDelete(r, s) PROVE TypeOK'
  BY <1>3 DEF HandleDelete, Delete
<1>4. ASSUME NEW r \in Reqs, GetSession(r) PROVE TypeOK'
  <2>1. CASE GetHit(rsid[r])
    BY <1>4, <2>1, CapType DEF GetSession, GetHit, GetMiss, Reaped
  <2>2. CASE GetMiss(rsid[r])
    BY <1>4, <2>2 DEF GetSession, GetHit, GetMiss, Reaped
  <2> QED
    BY <1>4, <2>1, <2>2 DEF GetSession
<1>5. ASSUME NEW r \in Reqs, ReadBackendSID(r) PROVE TypeOK'
  <2>1. PICK v \in ReadOutcomes(r) :
           IF v = Unset THEN pc' = [pc EXCEPT ![r] = "init"] /\ UNCHANGED <<rbsid, late>>
           ELSE /\ pc' = [pc EXCEPT ![r] = "call"]
                /\ late' = [late EXCEPT ![r] = FALSE]
                /\ rbsid' = [rbsid EXCEPT ![r] = v]
    BY <1>5 DEF ReadBackendSID
  <2>2. rsid[r] \in SIDs /\ rten[r] \in Tenants
    BY <1>5 DEF ReadBackendSID
  <2>3. backendSID[rsid[r]][rten[r]] \in BSIDs \cup {NoSID, Unset}
    BY <2>2
  <2>4. v # Unset => v \in BSIDs \cup {NoSID}
    BY <2>3, ReadCases
  <2> QED
    BY <1>5, <2>1, <2>4 DEF ReadBackendSID
<1>6. ASSUME NEW r \in Reqs, TornRead(r) PROVE TypeOK'
  BY <1>6 DEF TornRead
<1>7. ASSUME NEW r \in Reqs, OpenBackendSession(r) PROVE TypeOK'
  <2>1. Opening(r) \in Openings
    BY <1>7, CredentialType DEF OpenBackendSession, Opening, Openings
  <2>2. bstate' \in [BSIDs -> BackendStates] /\ opener' \in [BSIDs -> Openings]
    BY <1>7, <2>1 DEF OpenBackendSession
  <2>3. rbsid' \in [Reqs -> BSIDs \cup {NoSID}]
    BY <1>7 DEF OpenBackendSession
  <2>4. /\ pc' \in [Reqs -> PCs] /\ rsid' \in [Reqs -> SIDs \cup {NoSession}]
        /\ rten' \in [Reqs -> Tenants \cup {NoArg}]
        /\ rgroups' \in [Reqs -> SUBSET Groups] /\ late' \in [Reqs -> BOOLEAN]
    BY <1>7 DEF OpenBackendSession
  <2>5. UNCHANGED <<minted, live, idle, backendSID, mu, teardowns, deleted, attempted>>
    BY <1>7 DEF OpenBackendSession
  <2> QED
    BY <2>2, <2>3, <2>4, <2>5
<1>8. ASSUME NEW r \in Reqs, NotifyInitialized(r) PROVE TypeOK'
  BY <1>8 DEF NotifyInitialized
<1>9. ASSUME NEW r \in Reqs, BeginSetBackendSID(r) PROVE TypeOK'
  BY <1>9 DEF BeginSetBackendSID, Unlocked
<1>10. ASSUME NEW r \in Reqs, EndSetBackendSID(r) PROVE TypeOK'
  <2>1. /\ rsid[r] \in SIDs /\ rten[r] \in Tenants
        /\ rbsid[r] \in BSIDs \cup {NoSID}
    BY <1>10 DEF EndSetBackendSID
  <2>2. backendSID' \in [SIDs -> [Tenants -> BSIDs \cup {NoSID, Unset}]]
    BY <1>10, <2>1, SMTT(30) DEF EndSetBackendSID, SetBackendSID
  <2>3. idle' \in [SIDs -> 0..IdleCap]
    BY <1>10, <2>1, CapType DEF EndSetBackendSID, SetBackendSID
  <2> QED
    BY <1>10, <2>2, <2>3 DEF EndSetBackendSID, SetBackendSID
<1>11. ASSUME NEW r \in Reqs, CallTool(r) PROVE TypeOK'
  BY <1>11 DEF CallTool
<1>12. ASSUME NEW r \in Reqs, CollectTeardowns(r) PROVE TypeOK'
  BY <1>12 DEF CollectTeardowns
<1>13. ASSUME NEW t \in Tenants, NEW b \in BSIDs, TeardownBackend(t, b) PROVE TypeOK'
  BY <1>13 DEF TeardownBackend
<1>14. ASSUME NEW b \in BSIDs, BackendDrop(b) PROVE TypeOK'
  BY <1>14 DEF BackendDrop, Usable
<1>15. ASSUME Tick PROVE TypeOK'
  <2>1. idle' \in [SIDs -> 0..IdleCap]
    BY <1>15, CapType DEF Tick, PassTime
  <2> QED
    BY <1>15, <2>1 DEF Tick, PassTime
<1>16. ASSUME Lose PROVE TypeOK'
  BY <1>16 DEF Lose, LoseAll
<1>17. ASSUME UNCHANGED vars PROVE TypeOK'
  BY <1>17 DEF vars
<1> QED
  BY <1>1, <1>2, <1>3, <1>4, <1>5, <1>6, <1>7, <1>8, <1>9, <1>10, <1>11, <1>12, <1>13,
     <1>14, <1>15, <1>16, <1>17
     DEF Next, Arrive, Proceed, Restart, ConcurrentMapFatal

\* Every step preserves what the handlers know.
LEMMA ControlStep == TypeOK /\ Control /\ [Next]_vars => Control'
<1> SUFFICES ASSUME TypeOK /\ Control, [Next]_vars PROVE Control'
  OBVIOUS
<1> USE DEF TypeOK, StoreTypeOK, PCs, UsingSession, Serving, Control
<1>1. ASSUME NEW r \in Reqs, HandleInitialize(r) PROVE Control'
  BY <1>1, ReqAssumption, SIDAssumption DEF HandleInitialize, Mint, Reaped, Expired
<1>2. ASSUME NEW r \in Reqs, NEW s \in SIDs \cup {NoSession}, NEW groups \in SUBSET Groups,
             HandleToolsCall(r, s, groups)
      PROVE  Control'
  <2>1. PICK t \in Selectable(groups) :
           pc' = [pc EXCEPT ![r] = Route(t)] /\ rten' = [rten EXCEPT ![r] = t]
    BY <1>2 DEF HandleToolsCall
  <2>2. t \in Tenants /\ IsAuthorized(t, groups)
    BY SelectableAuthorized
  <2> QED
    BY <1>2, <2>1, <2>2, ReqAssumption DEF HandleToolsCall, Route
<1>3. ASSUME NEW r \in Reqs, NEW s \in SIDs, HandleDelete(r, s) PROVE Control'
  BY <1>3, ReqAssumption, SIDAssumption DEF HandleDelete, Delete
<1>4. ASSUME NEW r \in Reqs, GetSession(r) PROVE Control'
  BY <1>4, ReqAssumption, SIDAssumption DEF GetSession, GetHit, GetMiss, Reaped, Expired
<1>5. ASSUME NEW r \in Reqs, ReadBackendSID(r) PROVE Control'
  BY <1>5, ReqAssumption, SIDAssumption DEF ReadBackendSID, ReadOutcomes, BeingWritten
<1>6. ASSUME NEW r \in Reqs, TornRead(r) PROVE Control'
  BY <1>6, ReqAssumption, SIDAssumption DEF TornRead
<1>7. ASSUME NEW r \in Reqs, OpenBackendSession(r) PROVE Control'
  BY <1>7, ReqAssumption, SIDAssumption DEF OpenBackendSession, Opening
<1>8. ASSUME NEW r \in Reqs, NotifyInitialized(r) PROVE Control'
  BY <1>8, ReqAssumption, SIDAssumption DEF NotifyInitialized
<1>9. ASSUME NEW r \in Reqs, BeginSetBackendSID(r) PROVE Control'
  BY <1>9, ReqAssumption, SIDAssumption DEF BeginSetBackendSID, Unlocked
<1>10. ASSUME NEW r \in Reqs, EndSetBackendSID(r) PROVE Control'
  BY <1>10, ReqAssumption, SIDAssumption DEF EndSetBackendSID, SetBackendSID
<1>11. ASSUME NEW r \in Reqs, CallTool(r) PROVE Control'
  BY <1>11, ReqAssumption, SIDAssumption DEF CallTool
<1>12. ASSUME NEW r \in Reqs, CollectTeardowns(r) PROVE Control'
  BY <1>12, ReqAssumption, SIDAssumption DEF CollectTeardowns
<1>13. ASSUME NEW t \in Tenants, NEW b \in BSIDs, TeardownBackend(t, b) PROVE Control'
  BY <1>13, ReqAssumption, SIDAssumption DEF TeardownBackend
<1>14. ASSUME NEW b \in BSIDs, BackendDrop(b) PROVE Control'
  BY <1>14, ReqAssumption, SIDAssumption DEF BackendDrop, Usable
<1>15. ASSUME Tick PROVE Control'
  BY <1>15, ReqAssumption, SIDAssumption DEF Tick, PassTime, IdleCap
<1>16. ASSUME Lose PROVE Control'
  BY <1>16, ReqAssumption, SIDAssumption DEF Lose, LoseAll
<1>17. ASSUME UNCHANGED vars PROVE Control'
  BY <1>17 DEF vars
<1> QED
  BY <1>1, <1>2, <1>3, <1>4, <1>5, <1>6, <1>7, <1>8, <1>9, <1>10, <1>11, <1>12, <1>13,
     <1>14, <1>15, <1>16, <1>17
     DEF Next, Arrive, Proceed, Restart, ConcurrentMapFatal

\* No map and no handler refers to a backend session that was never opened.
LEMMA FreeIsUnreferenced ==
  ASSUME TypeOK, Control, Ownership, NEW b \in BSIDs, bstate[b] = "free"
  PROVE  /\ \A s \in SIDs, t \in Tenants : backendSID[s][t] # b
         /\ \A q \in Reqs : rbsid[q] # b
<1>1. opener[b].tenant = NoArg
  BY DEF Ownership, NoOpening
<1>2. ASSUME NEW s \in SIDs, NEW t \in Tenants, backendSID[s][t] = b PROVE FALSE
  <2>1. OpenedFor(b, s, t)
    BY <1>2 DEF Ownership
  <2> QED
    BY <1>1, <2>1, ArgAssumption DEF OpenedFor
<1>3. ASSUME NEW q \in Reqs, rbsid[q] = b PROVE FALSE
  <2>1. pc[q] \in Serving
    BY <1>3, SIDAssumption DEF TypeOK, PCs, Control, Serving, UsingSession
  <2>2. rten[q] \in Tenants
    BY <2>1 DEF Control
  <2>3. OpenedFor(b, rsid[q], rten[q])
    BY <1>3 DEF Ownership
  <2> QED
    BY <1>1, <2>2, <2>3, ArgAssumption DEF OpenedFor
<1> QED
  BY <1>2, <1>3

\* What Mint does to the maps: no backend session enters one.
LEMMA MintEffect ==
  ASSUME TypeOK, NEW s \in SIDs, Mint(s)
  PROVE  /\ s \notin live /\ live' \subseteq live \cup {s}
         /\ \A x \in SIDs, t \in Tenants : backendSID'[x][t] \in BSIDs =>
               x # s /\ backendSID'[x][t] = backendSID[x][t]
         /\ minted' = minted \cup {s} /\ s \notin minted
BY SIDAssumption DEF TypeOK, StoreTypeOK, Mint, Reaped

\* What SetBackendSID does to the maps: one entry of a live session.
LEMMA SetEffect ==
  ASSUME TypeOK, Control, NEW r \in Reqs, EndSetBackendSID(r)
  PROVE  /\ rsid[r] \in SIDs /\ rten[r] \in Tenants
         /\ \A s \in SIDs, t \in Tenants : backendSID'[s][t] =
               IF s = rsid[r] /\ t = rten[r] /\ s \in live THEN rbsid[r] ELSE backendSID[s][t]
         /\ UNCHANGED <<minted, live, envVars, rsid, rten, rbsid>>
         /\ pc' = [pc EXCEPT ![r] = "call"]
<1>1. rsid[r] \in SIDs /\ rten[r] \in Tenants
  BY DEF EndSetBackendSID, Control, UsingSession, Serving, TypeOK, StoreTypeOK
<1> QED
  BY <1>1 DEF EndSetBackendSID, SetBackendSID, TypeOK, StoreTypeOK

\* A call ends: its handler is idle again and nothing else has changed.
LEMMA CallEffect ==
  ASSUME NEW r \in Reqs, CallTool(r)
  PROVE  /\ pc[r] = "call" /\ pc' = [pc EXCEPT ![r] = "idle"]
         /\ rsid' = [rsid EXCEPT ![r] = NoSession]
         /\ rten' = [rten EXCEPT ![r] = NoArg]
         /\ rbsid' = [rbsid EXCEPT ![r] = NoSID]
         /\ UNCHANGED <<storeVars, mu, envVars>>
BY DEF CallTool

\* Every step preserves the ownership of backend sessions.
LEMMA OwnershipStep ==
  TypeOK /\ Control /\ Ownership /\ TeardownsOwned /\ [Next]_vars => Ownership'
<1> SUFFICES ASSUME TypeOK /\ Control /\ Ownership /\ TeardownsOwned, [Next]_vars PROVE Ownership'
  OBVIOUS
<1> USE DEF TypeOK, StoreTypeOK, PCs, UsingSession, Serving, Control, Ownership, OpenedFor,
            NoOpening, BackendStates
<1>1. ASSUME NEW r \in Reqs, HandleInitialize(r) PROVE Ownership'
  <2>1. CASE AllStateless
    BY <1>1, <2>1, SIDAssumption DEF HandleInitialize
  <2>2. ASSUME NEW s \in SIDs, Mint(s) PROVE Ownership'
    BY <1>1, <2>2, MintEffect, SIDAssumption DEF HandleInitialize
  <2> QED
    BY <1>1, <2>1, <2>2 DEF HandleInitialize
<1>2. ASSUME NEW r \in Reqs, NEW s \in SIDs \cup {NoSession}, NEW groups \in SUBSET Groups,
             HandleToolsCall(r, s, groups)
      PROVE  Ownership'
  BY <1>2, ReqAssumption, SIDAssumption, ArgAssumption DEF HandleToolsCall, Route
<1>3. ASSUME NEW r \in Reqs, NEW s \in SIDs, HandleDelete(r, s) PROVE Ownership'
  BY <1>3, ReqAssumption, SIDAssumption, ArgAssumption DEF HandleDelete, Delete
<1>4. ASSUME NEW r \in Reqs, GetSession(r) PROVE Ownership'
  BY <1>4, ReqAssumption, SIDAssumption, ArgAssumption
     DEF GetSession, GetHit, GetMiss, Reaped, Expired
<1>5. ASSUME NEW r \in Reqs, ReadBackendSID(r) PROVE Ownership'
  BY <1>5, ReqAssumption, SIDAssumption, ArgAssumption
     DEF ReadBackendSID, ReadOutcomes, BeingWritten
<1>6. ASSUME NEW r \in Reqs, TornRead(r) PROVE Ownership'
  BY <1>6, ReqAssumption, SIDAssumption, ArgAssumption DEF TornRead
<1>7. ASSUME NEW r \in Reqs, OpenBackendSession(r) PROVE Ownership'
  <2>1. /\ rsid[r] \in minted /\ rten[r] \in Tenants
        /\ ~Stateless(TenantBackend[rten[r]]) /\ rbsid[r] = NoSID
    BY <1>7 DEF OpenBackendSession
  <2>2. CASE UNCHANGED <<bstate, opener>>
    BY <1>7, <2>1, <2>2, SIDAssumption DEF OpenBackendSession
  <2>3. ASSUME NEW b \in BSIDs, bstate[b] = "free", NEW n \in {"open", "lost"},
               opener' = [opener EXCEPT ![b] = Opening(r)],
               bstate' = [bstate EXCEPT ![b] = n],
               \/ rbsid' = [rbsid EXCEPT ![r] = NoSID]
               \/ rbsid' = [rbsid EXCEPT ![r] = b] /\ UNCHANGED <<rsid, rten>>
        PROVE  Ownership'
    <3>1. /\ \A s \in SIDs, t \in Tenants : backendSID[s][t] # b
          /\ \A q \in Reqs : rbsid[q] # b
      BY <2>3, FreeIsUnreferenced
    <3>2. UNCHANGED <<minted, backendSID>>
      BY <1>7 DEF OpenBackendSession
    <3>3. \A q \in Reqs : q # r => rsid'[q] = rsid[q] /\ rten'[q] = rten[q]
      BY <1>7 DEF OpenBackendSession
    <3>4. /\ Opening(r).sid = rsid[r] /\ Opening(r).tenant = rten[r]
          /\ Opening(r) # NoOpening
      BY <2>1, ArgAssumption DEF Opening
    <3>5. ASSUME NEW q \in Reqs, rbsid'[q] \in BSIDs
          PROVE  OpenedFor(rbsid[q], rsid[q], rten[q])'
      <4>1. CASE q = r
        <5>1. rbsid'[r] = b /\ rsid'[r] = rsid[r] /\ rten'[r] = rten[r]
          BY <2>3, <3>5, <4>1, SIDAssumption
        <5>2. opener'[b] = Opening(r)
          BY <2>3
        <5> QED
          BY <4>1, <5>1, <5>2 DEF Opening
      <4>2. CASE q # r
        <5>1. rbsid'[q] = rbsid[q] /\ rbsid[q] # b
          BY <2>3, <3>1, <4>2
        <5>2. opener'[rbsid[q]] = opener[rbsid[q]]
          BY <2>3, <3>5, <5>1
        <5> QED
          BY <3>3, <3>5, <4>2, <5>1, <5>2
      <4> QED
        BY <4>1, <4>2
    <3>6. \A x \in BSIDs : x # b => opener'[x] = opener[x] /\ bstate'[x] = bstate[x]
      BY <2>3
    <3>7. opener'[b] = Opening(r) /\ bstate'[b] = n
      BY <2>3
    <3>8. ASSUME NEW s \in SIDs, NEW t \in Tenants, backendSID'[s][t] \in BSIDs
          PROVE  OpenedFor(backendSID[s][t], s, t)'
      BY <3>1, <3>2, <3>6, <3>8
    <3>9. ASSUME NEW x \in BSIDs
          PROVE  /\ (bstate[x] = "free" <=> opener[x] = NoOpening)'
                 /\ (bstate[x] # "free" => /\ opener[x].sid \in minted
                                           /\ opener[x].tenant \in Tenants
                                           /\ ~Stateless(TenantBackend[opener[x].tenant]))'
      BY <2>1, <3>2, <3>4, <3>6, <3>7
    <3> QED
      BY <3>5, <3>8, <3>9
  <2> QED
    BY <1>7, <2>2, <2>3 DEF OpenBackendSession
<1>8. ASSUME NEW r \in Reqs, NotifyInitialized(r) PROVE Ownership'
  BY <1>8, ReqAssumption, SIDAssumption, ArgAssumption DEF NotifyInitialized
<1>9. ASSUME NEW r \in Reqs, BeginSetBackendSID(r) PROVE Ownership'
  BY <1>9, ReqAssumption, SIDAssumption, ArgAssumption DEF BeginSetBackendSID, Unlocked
<1>10. ASSUME NEW r \in Reqs, EndSetBackendSID(r) PROVE Ownership'
  BY <1>10, SetEffect
<1>11. ASSUME NEW r \in Reqs, CallTool(r) PROVE Ownership'
  BY <1>11, ReqAssumption, SIDAssumption, ArgAssumption DEF CallTool
<1>12. ASSUME NEW r \in Reqs, CollectTeardowns(r) PROVE Ownership'
  BY <1>12, ReqAssumption, SIDAssumption, ArgAssumption DEF CollectTeardowns
<1>13. ASSUME NEW t \in Tenants, NEW b \in BSIDs, TeardownBackend(t, b) PROVE Ownership'
  BY <1>13, ArgAssumption, ReqAssumption DEF TeardownBackend, TeardownsOwned
<1>14. ASSUME NEW b \in BSIDs, BackendDrop(b) PROVE Ownership'
  BY <1>14, ReqAssumption, SIDAssumption, ArgAssumption DEF BackendDrop, Usable
<1>15. ASSUME Tick PROVE Ownership'
  BY <1>15, ReqAssumption, SIDAssumption, ArgAssumption DEF Tick, PassTime, IdleCap
<1>16. ASSUME Lose PROVE Ownership'
  BY <1>16, ReqAssumption, SIDAssumption, ArgAssumption DEF Lose, LoseAll
<1>17. ASSUME UNCHANGED vars PROVE Ownership'
  BY <1>17 DEF vars
<1> QED
  BY <1>1, <1>2, <1>3, <1>4, <1>5, <1>6, <1>7, <1>8, <1>9, <1>10, <1>11, <1>12, <1>13,
     <1>14, <1>15, <1>16, <1>17
     DEF Next, Arrive, Proceed, Restart, ConcurrentMapFatal

\* Every step preserves the order of the handshake.
LEMMA HandshakeStep == TypeOK /\ Control /\ Ownership /\ Handshake /\ [Next]_vars => Handshake'
<1> SUFFICES ASSUME TypeOK /\ Control /\ Ownership /\ Handshake, [Next]_vars PROVE Handshake'
  OBVIOUS
<1> USE DEF TypeOK, StoreTypeOK, PCs, UsingSession, Serving, Control, BackendStates, Handshake
<1>1. ASSUME NEW r \in Reqs, HandleInitialize(r) PROVE Handshake'
  <2>1. CASE AllStateless
    BY <1>1, <2>1, SIDAssumption DEF HandleInitialize
  <2>2. ASSUME NEW s \in SIDs, Mint(s) PROVE Handshake'
    BY <1>1, <2>2, MintEffect, SIDAssumption DEF HandleInitialize
  <2> QED
    BY <1>1, <2>1, <2>2 DEF HandleInitialize
<1>2. ASSUME NEW r \in Reqs, NEW s \in SIDs \cup {NoSession}, NEW groups \in SUBSET Groups,
             HandleToolsCall(r, s, groups)
      PROVE  Handshake'
  BY <1>2, ReqAssumption, SIDAssumption, ArgAssumption DEF HandleToolsCall, Route
<1>3. ASSUME NEW r \in Reqs, NEW s \in SIDs, HandleDelete(r, s) PROVE Handshake'
  BY <1>3, ReqAssumption, SIDAssumption, ArgAssumption DEF HandleDelete, Delete
<1>4. ASSUME NEW r \in Reqs, GetSession(r) PROVE Handshake'
  BY <1>4, ReqAssumption, SIDAssumption, ArgAssumption
     DEF GetSession, GetHit, GetMiss, Reaped, Expired
<1>5. ASSUME NEW r \in Reqs, ReadBackendSID(r) PROVE Handshake'
  BY <1>5, ReqAssumption, SIDAssumption, ArgAssumption
  DEF ReadBackendSID, ReadOutcomes, BeingWritten, Ownership, OpenedFor, NoOpening
<1>6. ASSUME NEW r \in Reqs, TornRead(r) PROVE Handshake'
  BY <1>6, ReqAssumption, SIDAssumption, ArgAssumption DEF TornRead
<1>7. ASSUME NEW r \in Reqs, OpenBackendSession(r) PROVE Handshake'
  <2>1. rbsid[r] = NoSID
    BY <1>7 DEF OpenBackendSession
  <2>2. CASE UNCHANGED <<bstate, opener>>
    BY <1>7, <2>1, <2>2, SIDAssumption DEF OpenBackendSession
  <2>3. ASSUME NEW b \in BSIDs, bstate[b] = "free",
               \/ /\ bstate' = [bstate EXCEPT ![b] = "open"]
                  /\ rbsid' = [rbsid EXCEPT ![r] = b]
                  /\ pc' = [pc EXCEPT ![r] = "notify"]
               \/ /\ bstate' = [bstate EXCEPT ![b] = "lost"]
                  /\ rbsid' = [rbsid EXCEPT ![r] = NoSID]
                  /\ pc' = [pc EXCEPT ![r] = "idle"]
        PROVE  Handshake'
    <3>1. /\ \A s \in SIDs, t \in Tenants : backendSID[s][t] # b
          /\ \A q \in Reqs : rbsid[q] # b
      BY <2>3, FreeIsUnreferenced
    <3>2. UNCHANGED backendSID
      BY <1>7 DEF OpenBackendSession
    <3> QED
      BY <2>3, <3>1, <3>2, SIDAssumption, SMTT(30)
  <2> QED
    BY <1>7, <2>2, <2>3 DEF OpenBackendSession
<1>8. ASSUME NEW r \in Reqs, NotifyInitialized(r) PROVE Handshake'
  BY <1>8, SIDAssumption, ArgAssumption DEF NotifyInitialized, Ownership, OpenedFor, NoOpening
<1>9. ASSUME NEW r \in Reqs, BeginSetBackendSID(r) PROVE Handshake'
  BY <1>9, ReqAssumption, SIDAssumption, ArgAssumption DEF BeginSetBackendSID, Unlocked
<1>10. ASSUME NEW r \in Reqs, EndSetBackendSID(r) PROVE Handshake'
  <2>1. pc[r] = "write"
    BY <1>10 DEF EndSetBackendSID
  <2>2. rbsid[r] \in BSIDs => bstate[rbsid[r]] \in {"ready", "unready", "closed"}
    BY <2>1
  <2>3. \A s \in SIDs, t \in Tenants :
           backendSID'[s][t] = rbsid[r] \/ backendSID'[s][t] = backendSID[s][t]
    BY <1>10, SetEffect
  <2>4. /\ UNCHANGED <<bstate, rbsid>>
        /\ \A q \in Reqs : pc'[q] # "notify" => pc[q] # "notify"
    BY <1>10, <2>1, SetEffect
  <2> QED
    BY <2>2, <2>3, <2>4
<1>11. ASSUME NEW r \in Reqs, CallTool(r) PROVE Handshake'
  BY <1>11, CallEffect, SIDAssumption
<1>12. ASSUME NEW r \in Reqs, CollectTeardowns(r) PROVE Handshake'
  BY <1>12, ReqAssumption, SIDAssumption, ArgAssumption DEF CollectTeardowns
<1>13. ASSUME NEW t \in Tenants, NEW b \in BSIDs, TeardownBackend(t, b) PROVE Handshake'
  <2>1. /\ \A x \in BSIDs : bstate'[x] = bstate[x] \/ bstate'[x] = "closed"
        /\ UNCHANGED <<backendSID, rbsid, pc>>
    BY <1>13 DEF TeardownBackend
  <2> QED
    BY <2>1
<1>14. ASSUME NEW b \in BSIDs, BackendDrop(b) PROVE Handshake'
  BY <1>14, ReqAssumption, SIDAssumption, ArgAssumption DEF BackendDrop, Usable
<1>15. ASSUME Tick PROVE Handshake'
  BY <1>15, ReqAssumption, SIDAssumption, ArgAssumption DEF Tick, PassTime, IdleCap
<1>16. ASSUME Lose PROVE Handshake'
  BY <1>16, ReqAssumption, SIDAssumption, ArgAssumption DEF Lose, LoseAll
<1>17. ASSUME UNCHANGED vars PROVE Handshake'
  BY <1>17 DEF vars
<1> QED
  BY <1>1, <1>2, <1>3, <1>4, <1>5, <1>6, <1>7, <1>8, <1>9, <1>10, <1>11, <1>12, <1>13,
     <1>14, <1>15, <1>16, <1>17
     DEF Next, Arrive, Proceed, Restart, ConcurrentMapFatal

\* A step that adds nothing to the map of a deleted session, and leaves every
\* DELETE in progress alone, keeps that map covered.
LEMMA MapCoveredFrame ==
  ASSUME MapCovered, UNCHANGED <<deleted, attempted>>,
         \A s \in deleted, t \in Tenants :
            backendSID'[s][t] \in BSIDs => backendSID'[s][t] = backendSID[s][t],
         \A q \in Reqs : pc[q] = "collect" => pc'[q] = "collect" /\ rsid'[q] = rsid[q]
  PROVE  MapCovered'
<1> SUFFICES ASSUME NEW s \in deleted, Collected(s)', NEW t \in Tenants,
                    backendSID'[s][t] \in BSIDs
             PROVE  backendSID'[s][t] \in attempted
  BY DEF MapCovered
<1>1. Collected(s)
  BY DEF Collected
<1> QED
  BY <1>1 DEF MapCovered

\* A step that leaves the store, the histories and every DELETE in progress alone
\* preserves all of Deletion.
LEMMA DeletionFrame ==
  ASSUME Deletion, UNCHANGED <<minted, live, backendSID, opener, teardowns, deleted, attempted>>,
         \A q \in Reqs : pc[q] = "collect" => pc'[q] = "collect" /\ rsid'[q] = rsid[q]
  PROVE  Deletion'
BY DEF Deletion, DeletedGone, MapCovered, Collected, TeardownsOwned, OpenedFor

\* Every step preserves what a DELETE has achieved.
LEMMA DeletionStep == TypeOK /\ Control /\ Ownership /\ Deletion /\ [Next]_vars => Deletion'
<1> SUFFICES ASSUME TypeOK /\ Control /\ Ownership /\ Deletion, [Next]_vars PROVE Deletion'
  OBVIOUS
<1> USE DEF TypeOK, StoreTypeOK, UsingSession, Control, Deletion
<1>1. ASSUME NEW r \in Reqs, HandleInitialize(r) PROVE Deletion'
  <2>1. CASE AllStateless
    BY <1>1, <2>1, DeletionFrame DEF HandleInitialize
  <2>2. ASSUME NEW s \in SIDs, Mint(s) PROVE Deletion'
    <3>1. UNCHANGED envVars /\ \A q \in Reqs : pc[q] = "collect" => pc'[q] = "collect" /\ rsid'[q] = rsid[q]
      BY <1>1 DEF HandleInitialize
    <3>2. DeletedGone'
      BY <2>2, <3>1, MintEffect DEF DeletedGone
    <3>3. MapCovered'
      BY <2>2, <3>1, MintEffect, MapCoveredFrame
    <3>4. TeardownsOwned'
      BY <2>2, <3>1, MintEffect DEF TeardownsOwned, OpenedFor
    <3> QED
      BY <3>2, <3>3, <3>4
  <2> QED
    BY <1>1, <2>1, <2>2 DEF HandleInitialize
<1>2. ASSUME NEW r \in Reqs, NEW s \in SIDs \cup {NoSession}, NEW groups \in SUBSET Groups,
             HandleToolsCall(r, s, groups)
      PROVE  Deletion'
  BY <1>2, DeletionFrame DEF HandleToolsCall
<1>3. ASSUME NEW r \in Reqs, NEW s \in SIDs, HandleDelete(r, s) PROVE Deletion'
  <2>1. DeletedGone'
    BY <1>3 DEF HandleDelete, Delete, DeletedGone
  <2>2. MapCovered'
    BY <1>3 DEF HandleDelete, Delete, MapCovered, Collected
  <2>3. TeardownsOwned'
    BY <1>3 DEF HandleDelete, Delete, TeardownsOwned, OpenedFor
  <2> QED
    BY <2>1, <2>2, <2>3
<1>4. ASSUME NEW r \in Reqs, GetSession(r) PROVE Deletion'
  <2>1. /\ live' \subseteq live /\ UNCHANGED <<minted, backendSID, envVars>>
        /\ \A q \in Reqs : pc[q] = "collect" => pc'[q] = "collect" /\ rsid'[q] = rsid[q]
    BY <1>4 DEF GetSession, GetHit, GetMiss, Reaped
  <2>2. DeletedGone' /\ MapCovered'
    BY <2>1, MapCoveredFrame DEF DeletedGone
  <2>3. TeardownsOwned'
    BY <2>1 DEF TeardownsOwned, OpenedFor
  <2> QED
    BY <2>2, <2>3
<1>5. ASSUME NEW r \in Reqs, ReadBackendSID(r) PROVE Deletion'
  BY <1>5, DeletionFrame DEF ReadBackendSID
<1>6. ASSUME NEW r \in Reqs, TornRead(r) PROVE Deletion'
  BY <1>6, DeletionFrame DEF TornRead
<1>7. ASSUME NEW r \in Reqs, OpenBackendSession(r) PROVE Deletion'
  <2>1. /\ UNCHANGED <<minted, live, backendSID, teardowns, deleted, attempted>>
        /\ \A q \in Reqs : pc[q] = "collect" => pc'[q] = "collect" /\ rsid'[q] = rsid[q]
    BY <1>7 DEF OpenBackendSession
  <2>2. DeletedGone' /\ MapCovered'
    BY <2>1, MapCoveredFrame DEF DeletedGone
  <2>3. \A b \in BSIDs : opener[b] # NoOpening => opener'[b] = opener[b]
    BY <1>7 DEF OpenBackendSession, Ownership
  <2>4. ASSUME NEW t \in Tenants, NEW b \in BSIDs, <<t, b>> \in teardowns'
        PROVE  \E s \in minted \ live : OpenedFor(b, s, t)'
    <3>1. PICK s \in minted \ live : OpenedFor(b, s, t)
      BY <2>1, <2>4 DEF TeardownsOwned
    <3>2. opener[b].tenant = t
      BY <3>1 DEF OpenedFor
    <3>3. opener'[b] = opener[b]
      BY <2>3, <3>2, ArgAssumption DEF NoOpening
    <3> QED
      BY <3>1, <3>3 DEF OpenedFor
  <2> QED
    BY <2>1, <2>2, <2>4 DEF TeardownsOwned
<1>8. ASSUME NEW r \in Reqs, NotifyInitialized(r) PROVE Deletion'
  BY <1>8, DeletionFrame DEF NotifyInitialized
<1>9. ASSUME NEW r \in Reqs, BeginSetBackendSID(r) PROVE Deletion'
  BY <1>9, DeletionFrame DEF BeginSetBackendSID
<1>10. ASSUME NEW r \in Reqs, EndSetBackendSID(r) PROVE Deletion'
  <2>1. MapCovered'
    BY <1>10, SetEffect, MapCoveredFrame DEF DeletedGone, EndSetBackendSID
  <2>2. DeletedGone' /\ TeardownsOwned'
    BY <1>10, SetEffect DEF DeletedGone, TeardownsOwned, OpenedFor
  <2> QED
    BY <2>1, <2>2
<1>11. ASSUME NEW r \in Reqs, CallTool(r) PROVE Deletion'
  BY <1>11, CallEffect, DeletionFrame
<1>12. ASSUME NEW r \in Reqs, CollectTeardowns(r) PROVE Deletion'
  <2> DEFINE mapped == {<<t, backendSID[rsid[r]][t]>> : t \in Tenants} \cap (Tenants \X BSIDs)
  <2>1. /\ rsid[r] \in minted \ live
        /\ UNCHANGED <<minted, live, backendSID, opener, deleted>>
        /\ teardowns' = teardowns \cup mapped
        /\ attempted' = attempted \cup {m[2] : m \in mapped}
        /\ pc' = [pc EXCEPT ![r] = "idle"] /\ rsid' = [rsid EXCEPT ![r] = NoSession]
    BY <1>12 DEF CollectTeardowns, DeletedGone
  <2>2. \A t \in Tenants : backendSID[rsid[r]][t] \in BSIDs => backendSID[rsid[r]][t] \in attempted'
    <3> SUFFICES ASSUME NEW t \in Tenants, backendSID[rsid[r]][t] \in BSIDs
                 PROVE  backendSID[rsid[r]][t] \in attempted'
      OBVIOUS
    <3>1. <<t, backendSID[rsid[r]][t]>> \in mapped
      OBVIOUS
    <3> QED
      BY <2>1, <3>1
  <2>3. MapCovered'
    <3> SUFFICES ASSUME NEW s \in deleted', Collected(s)',
                        NEW t \in Tenants, backendSID'[s][t] \in BSIDs
                 PROVE  backendSID'[s][t] \in attempted'
      BY DEF MapCovered
    <3>1. CASE s = rsid[r]
      BY <2>1, <2>2, <3>1
    <3>2. CASE s # rsid[r]
      BY <2>1, <3>2 DEF MapCovered, Collected
    <3> QED
      BY <3>1, <3>2
  <2>4. ASSUME NEW t \in Tenants, NEW b \in BSIDs, <<t, b>> \in teardowns'
        PROVE  \E s \in minted \ live : OpenedFor(b, s, t)'
    <3>1. CASE <<t, b>> \in teardowns
      BY <2>1, <3>1 DEF TeardownsOwned, OpenedFor
    <3>2. CASE <<t, b>> \in mapped
      <4>1. backendSID[rsid[r]][t] = b
        BY <3>2
      <4>2. OpenedFor(b, rsid[r], t)
        BY <2>1, <4>1 DEF Ownership
      <4> QED
        BY <2>1, <4>2 DEF OpenedFor
    <3> QED
      BY <2>1, <2>4, <3>1, <3>2
  <2>5. DeletedGone'
    BY <2>1 DEF DeletedGone
  <2> QED
    BY <2>1, <2>3, <2>4, <2>5 DEF TeardownsOwned
<1>13. ASSUME NEW t \in Tenants, NEW b \in BSIDs, TeardownBackend(t, b) PROVE Deletion'
  BY <1>13 DEF TeardownBackend, DeletedGone, MapCovered, Collected, TeardownsOwned, OpenedFor
<1>14. ASSUME NEW b \in BSIDs, BackendDrop(b) PROVE Deletion'
  BY <1>14, DeletionFrame DEF BackendDrop
<1>15. ASSUME Tick PROVE Deletion'
  BY <1>15, DeletionFrame DEF Tick, PassTime
<1>16. ASSUME Lose PROVE Deletion'
  BY <1>16 DEF Lose, LoseAll, DeletedGone, MapCovered, TeardownsOwned
<1>17. ASSUME UNCHANGED vars PROVE Deletion'
  BY <1>17, DeletionFrame DEF vars
<1> QED
  BY <1>1, <1>2, <1>3, <1>4, <1>5, <1>6, <1>7, <1>8, <1>9, <1>10, <1>11, <1>12, <1>13,
     <1>14, <1>15, <1>16, <1>17
     DEF Next, Arrive, Proceed, Restart, ConcurrentMapFatal

\* Every step preserves the freshness of sessions in use.
LEMMA FreshnessStep == TypeOK /\ Control /\ Deletion /\ Freshness /\ [Next]_vars => Freshness'
<1> SUFFICES ASSUME TypeOK /\ Control /\ Deletion /\ Freshness, [Next]_vars PROVE Freshness'
  OBVIOUS
<1> USE DEF TypeOK, StoreTypeOK, PCs, UsingSession, Serving, Control, Deletion, Freshness
<1>1. ASSUME NEW r \in Reqs, HandleInitialize(r) PROVE Freshness'
  BY <1>1, ReqAssumption, SIDAssumption, TTLAssumption DEF HandleInitialize, Mint, Reaped, Expired
<1>2. ASSUME NEW r \in Reqs, NEW s \in SIDs \cup {NoSession}, NEW groups \in SUBSET Groups,
             HandleToolsCall(r, s, groups)
      PROVE  Freshness'
  BY <1>2, ReqAssumption, SIDAssumption, TTLAssumption DEF HandleToolsCall, Route
<1>3. ASSUME NEW r \in Reqs, NEW s \in SIDs, HandleDelete(r, s) PROVE Freshness'
  BY <1>3, ReqAssumption, SIDAssumption, TTLAssumption DEF HandleDelete, Delete
<1>4. ASSUME NEW r \in Reqs, GetSession(r) PROVE Freshness'
  BY <1>4, ReqAssumption, SIDAssumption, TTLAssumption
     DEF GetSession, GetHit, GetMiss, Reaped, Expired
<1>5. ASSUME NEW r \in Reqs, ReadBackendSID(r) PROVE Freshness'
  BY <1>5, ReqAssumption, SIDAssumption, TTLAssumption
     DEF ReadBackendSID, ReadOutcomes, BeingWritten
<1>6. ASSUME NEW r \in Reqs, TornRead(r) PROVE Freshness'
  BY <1>6, ReqAssumption, SIDAssumption, TTLAssumption DEF TornRead
<1>7. ASSUME NEW r \in Reqs, OpenBackendSession(r) PROVE Freshness'
  BY <1>7, ReqAssumption, SIDAssumption, TTLAssumption DEF OpenBackendSession, Opening
<1>8. ASSUME NEW r \in Reqs, NotifyInitialized(r) PROVE Freshness'
  BY <1>8, ReqAssumption, SIDAssumption, TTLAssumption DEF NotifyInitialized
<1>9. ASSUME NEW r \in Reqs, BeginSetBackendSID(r) PROVE Freshness'
  BY <1>9, ReqAssumption, SIDAssumption, TTLAssumption DEF BeginSetBackendSID, Unlocked
<1>10. ASSUME NEW r \in Reqs, EndSetBackendSID(r) PROVE Freshness'
  <2>1. /\ rsid[r] \in SIDs /\ UNCHANGED <<live, deleted, rsid>>
        /\ idle' = IF rsid[r] \in live THEN [idle EXCEPT ![rsid[r]] = 0] ELSE idle
        /\ pc' = [pc EXCEPT ![r] = "call"] /\ late' = [late EXCEPT ![r] = FALSE]
    BY <1>10, SetEffect DEF EndSetBackendSID, SetBackendSID
  <2> QED
    BY <2>1
<1>11. ASSUME NEW r \in Reqs, CallTool(r) PROVE Freshness'
  BY <1>11, ReqAssumption, SIDAssumption, TTLAssumption DEF CallTool
<1>12. ASSUME NEW r \in Reqs, CollectTeardowns(r) PROVE Freshness'
  BY <1>12, ReqAssumption, SIDAssumption, TTLAssumption DEF CollectTeardowns
<1>13. ASSUME NEW t \in Tenants, NEW b \in BSIDs, TeardownBackend(t, b) PROVE Freshness'
  BY <1>13, ReqAssumption, SIDAssumption, TTLAssumption DEF TeardownBackend
<1>14. ASSUME NEW b \in BSIDs, BackendDrop(b) PROVE Freshness'
  BY <1>14, ReqAssumption, SIDAssumption, TTLAssumption DEF BackendDrop, Usable
<1>15. ASSUME Tick PROVE Freshness'
  <2>1. /\ \A q \in Reqs : ~late[q]
        /\ late' = [q \in Reqs |-> pc[q] \in UsingSession]
        /\ UNCHANGED <<pc, rsid, live, deleted>>
    BY <1>15 DEF Tick, PassTime
  <2>2. \A s \in SIDs : idle'[s] <= idle[s] + 1
    BY <1>15, CapType DEF Tick, PassTime
  <2> SUFFICES ASSUME NEW q \in Reqs, pc[q] \in UsingSession
               PROVE  /\ rsid[q] \in live \cup deleted
                      /\ rsid[q] \in live => idle'[rsid[q]] <= 1
    BY <2>1
  <2>3. CASE rsid[q] \in live
    <3>1. rsid[q] \in SIDs /\ idle[rsid[q]] \in Nat /\ idle'[rsid[q]] \in Int
      BY <1>15, <2>3, CapType DEF Tick, PassTime
    <3>2. idle[rsid[q]] <= 0
      BY <2>1, <2>3
    <3> QED
      BY <2>2, <2>3, <3>1, <3>2
  <2> QED
    BY <2>3
<1>16. ASSUME Lose PROVE Freshness'
  BY <1>16, ReqAssumption, SIDAssumption, TTLAssumption DEF Lose, LoseAll
<1>17. ASSUME UNCHANGED vars PROVE Freshness'
  BY <1>17 DEF vars
<1> QED
  BY <1>1, <1>2, <1>3, <1>4, <1>5, <1>6, <1>7, <1>8, <1>9, <1>10, <1>11, <1>12, <1>13,
     <1>14, <1>15, <1>16, <1>17
     DEF Next, Arrive, Proceed, Restart, ConcurrentMapFatal

\* Every step keeps the map of an id that was not minted empty.
LEMMA UnbornStep == TypeOK /\ Control /\ Unborn /\ [Next]_vars => Unborn'
<1> SUFFICES ASSUME TypeOK /\ Control /\ Unborn, [Next]_vars PROVE Unborn'
  OBVIOUS
<1> USE DEF TypeOK, StoreTypeOK, PCs, UsingSession, Serving, Control, Unborn
<1>1. ASSUME NEW r \in Reqs, HandleInitialize(r) PROVE Unborn'
  BY <1>1, ReqAssumption, SIDAssumption DEF HandleInitialize, Mint, Reaped, Expired
<1>2. ASSUME NEW r \in Reqs, NEW s \in SIDs \cup {NoSession}, NEW groups \in SUBSET Groups,
             HandleToolsCall(r, s, groups)
      PROVE  Unborn'
  BY <1>2, ReqAssumption, SIDAssumption DEF HandleToolsCall, Route
<1>3. ASSUME NEW r \in Reqs, NEW s \in SIDs, HandleDelete(r, s) PROVE Unborn'
  BY <1>3, ReqAssumption, SIDAssumption DEF HandleDelete, Delete
<1>4. ASSUME NEW r \in Reqs, GetSession(r) PROVE Unborn'
  BY <1>4, ReqAssumption, SIDAssumption DEF GetSession, GetHit, GetMiss, Reaped, Expired
<1>5. ASSUME NEW r \in Reqs, ReadBackendSID(r) PROVE Unborn'
  BY <1>5, ReqAssumption, SIDAssumption DEF ReadBackendSID, ReadOutcomes, BeingWritten
<1>6. ASSUME NEW r \in Reqs, TornRead(r) PROVE Unborn'
  BY <1>6, ReqAssumption, SIDAssumption DEF TornRead
<1>7. ASSUME NEW r \in Reqs, OpenBackendSession(r) PROVE Unborn'
  BY <1>7, ReqAssumption, SIDAssumption DEF OpenBackendSession, Opening
<1>8. ASSUME NEW r \in Reqs, NotifyInitialized(r) PROVE Unborn'
  BY <1>8, ReqAssumption, SIDAssumption DEF NotifyInitialized
<1>9. ASSUME NEW r \in Reqs, BeginSetBackendSID(r) PROVE Unborn'
  BY <1>9, ReqAssumption, SIDAssumption DEF BeginSetBackendSID, Unlocked
<1>10. ASSUME NEW r \in Reqs, EndSetBackendSID(r) PROVE Unborn'
  BY <1>10, ReqAssumption, SIDAssumption DEF EndSetBackendSID, SetBackendSID
<1>11. ASSUME NEW r \in Reqs, CallTool(r) PROVE Unborn'
  BY <1>11, ReqAssumption, SIDAssumption DEF CallTool
<1>12. ASSUME NEW r \in Reqs, CollectTeardowns(r) PROVE Unborn'
  BY <1>12, ReqAssumption, SIDAssumption DEF CollectTeardowns
<1>13. ASSUME NEW t \in Tenants, NEW b \in BSIDs, TeardownBackend(t, b) PROVE Unborn'
  BY <1>13, ReqAssumption, SIDAssumption DEF TeardownBackend
<1>14. ASSUME NEW b \in BSIDs, BackendDrop(b) PROVE Unborn'
  BY <1>14, ReqAssumption, SIDAssumption DEF BackendDrop, Usable
<1>15. ASSUME Tick PROVE Unborn'
  BY <1>15, ReqAssumption, SIDAssumption DEF Tick, PassTime, IdleCap
<1>16. ASSUME Lose PROVE Unborn'
  BY <1>16, ReqAssumption, SIDAssumption DEF Lose, LoseAll
<1>17. ASSUME UNCHANGED vars PROVE Unborn'
  BY <1>17 DEF vars
<1> QED
  BY <1>1, <1>2, <1>3, <1>4, <1>5, <1>6, <1>7, <1>8, <1>9, <1>10, <1>11, <1>12, <1>13,
     <1>14, <1>15, <1>16, <1>17
     DEF Next, Arrive, Proceed, Restart, ConcurrentMapFatal

\* The initial state satisfies the inductive invariant.
LEMMA InitInvariant == Init => IInv
<1> SUFFICES ASSUME Init PROVE IInv
  OBVIOUS
<1> USE SIDAssumption, ReqAssumption, ArgAssumption DEF Init, StoreInit
<1>1. TypeOK
  BY CapType, CredAssumption DEF TypeOK, StoreTypeOK, PCs, BackendStates, Openings, NoOpening
<1>2. Control /\ Handshake /\ Freshness /\ Unborn
  BY DEF Control, Serving, UsingSession, Handshake, Freshness, Unborn
<1>3. Ownership
  BY DEF Ownership
<1>4. Deletion
  BY DEF Deletion, DeletedGone, MapCovered, TeardownsOwned
<1> QED
  BY <1>1, <1>2, <1>3, <1>4 DEF IInv

\* The parts of IInv hold together in every reachable state of the proxy:
\* whatever requests, deletes, reaping, lost exchanges, racing map accesses and
\* restarts interleave.
THEOREM InductiveInvariant == Spec => []IInv
<1>1. IInv /\ [Next]_vars => IInv'
  <2> SUFFICES ASSUME IInv, [Next]_vars PROVE IInv'
    OBVIOUS
  <2>1. TypeOK' /\ Control'
    BY TypeStep, ControlStep DEF IInv
  <2>2. Ownership' /\ Handshake' /\ Deletion'
    BY OwnershipStep, HandshakeStep, DeletionStep DEF IInv, Deletion
  <2>3. Freshness' /\ Unborn'
    BY FreshnessStep, UnbornStep DEF IInv
  <2> QED
    BY <2>1, <2>2, <2>3 DEF IInv
<1> QED
  BY InitInvariant, <1>1, PTL DEF Spec

\* Every variable of the proxy keeps its type.
THEOREM TypeCorrect == Spec => []TypeOK
<1>1. IInv => TypeOK
  BY DEF IInv
<1> QED
  BY InductiveInvariant, <1>1, PTL

\* A tenant's backend session is never shared: what the map holds, and what a
\* call is forwarded on, was opened for that client session and tenant with the
\* tenant's effective credential (routeToBackend, README "Sessions").
THEOREM Isolation == Spec => []IsolatedSessions
<1>1. IInv => IsolatedSessions
  BY DEF IInv, Ownership, IsolatedSessions
<1> QED
  BY InductiveInvariant, <1>1, PTL

\* No handler of tools/call acts for a tenant that its caller's groups do not
\* authorize (handleToolsCall, selectTenant).
THEOREM Authorization == Spec => []AuthorizedCredential
<1>1. IInv => AuthorizedCredential
  BY DEF IInv, Control, AuthorizedCredential
<1> QED
  BY InductiveInvariant, <1>1, PTL

\* The handshake of a backend session precedes every call on it.
THEOREM HandshakeOrder == Spec => []HandshakeBeforeCall
<1>1. IInv => HandshakeBeforeCall
  BY DEF IInv, Handshake, HandshakeBeforeCall
<1> QED
  BY InductiveInvariant, <1>1, PTL

\* handleDelete reads the removed session's map without the lock, and misses
\* no backend session that is or ever will be in it.
THEOREM DeleteComplete == Spec => []DeleteCoversMap
<1>1. IInv => DeleteCoversMap
  BY DEF IInv, Control, Deletion, DeletedGone, DeleteCoversMap, BeingWritten
<1> QED
  BY InductiveInvariant, <1>1, PTL

\* teardownBackend uses the credential the backend session was opened with.
THEOREM TeardownOwned == Spec => []TeardownOwnSession
<1>1. IInv => TeardownOwnSession
  BY DEF IInv, TypeOK, StoreTypeOK, Deletion, TeardownsOwned, TeardownOwnSession
<1> QED
  BY InductiveInvariant, <1>1, PTL

\* The reaper never removes a session that a handler has looked up and still
\* relies on, for any TTL of at least one tick, or none.
THEOREM ReaperSparesSessionsInUse == Spec => []NotReapedInUse
<1>1. IInv => NotReapedInUse
  BY DEF IInv, Freshness, NotReapedInUse
<1> QED
  BY InductiveInvariant, <1>1, PTL

\* Stateless backends get no session, and an all-stateless proxy mints none.
THEOREM StatelessStaysStateless == Spec => []StatelessKeepsNoSession
<1>1. IInv => StatelessKeepsNoSession
  <2> SUFFICES ASSUME IInv PROVE StatelessKeepsNoSession
    OBVIOUS
  <2>1. ASSUME NEW b \in BSIDs, opener[b].tenant \in Tenants
        PROVE  ~Stateless(TenantBackend[opener[b].tenant])
    <3>1. bstate[b] # "free"
      BY <2>1, ArgAssumption DEF IInv, Ownership, NoOpening
    <3> QED
      BY <3>1 DEF IInv, Ownership
  <2> QED
    BY <2>1 DEF IInv, Unborn, StatelessKeepsNoSession
<1> QED
  BY InductiveInvariant, <1>1, PTL

\* A step that changes neither the store's keys nor a map is a stutter.
LEMMA LifecycleStutter ==
  ASSUME UNCHANGED <<minted, live, backendSID>>
  PROVE  UNCHANGED Lifecycle!lifecycleVars
BY DEF Phase, Lifecycle!lifecycleVars

\* A step that only removes keys from the store is a step Expire.
LEMMA LifecycleExpire ==
  ASSUME TypeOK, live' \subseteq live, UNCHANGED <<minted, backendSID>>
  PROVE  Lifecycle!LNext
<1> DEFINE dying == live \ live'
<1>1. dying \in SUBSET {s \in SIDs : Phase[s] = "live"}
  BY DEF TypeOK, StoreTypeOK, Phase
<1>2. Phase' = [s \in SIDs |-> IF s \in dying THEN "dead" ELSE Phase[s]]
  BY DEF TypeOK, StoreTypeOK, Phase
<1>3. Lifecycle!Expire
  BY <1>1, <1>2 DEF Lifecycle!Expire, Lifecycle!Die
<1> QED
  BY <1>3 DEF Lifecycle!LNext

\* Mint is a birth that may expire other sessions.
LEMMA LifecycleBirth ==
  ASSUME TypeOK, Unborn, NEW s \in SIDs, Mint(s)
  PROVE  Lifecycle!LNext
<1> DEFINE dying == live \ Reaped
<1>1. dying \in SUBSET {x \in SIDs : Phase[x] = "live"}
  BY DEF TypeOK, StoreTypeOK, Phase
<1>2. Phase' = [x \in SIDs |-> IF x = s THEN "live"
                                ELSE IF x \in dying THEN "dead" ELSE Phase[x]]
  BY DEF TypeOK, StoreTypeOK, Phase, Mint, Reaped
<1>3. backendSID' = backendSID
  BY DEF TypeOK, StoreTypeOK, Unborn, Mint
<1>4. Phase[s] = "unborn"
  BY DEF Phase, Mint
<1>5. Lifecycle!Birth(s)
  BY <1>1, <1>2, <1>3, <1>4 DEF Lifecycle!Birth
<1> QED
  BY <1>5 DEF Lifecycle!LNext

\* SetBackendSID binds an id in a live session, and nothing in any other.
LEMMA LifecycleBind ==
  ASSUME TypeOK, Control, NEW r \in Reqs, EndSetBackendSID(r)
  PROVE  [Lifecycle!LNext]_(Lifecycle!lifecycleVars)
<1>1. /\ rsid[r] \in SIDs /\ rten[r] \in Tenants /\ rbsid[r] \in BSIDs \cup {NoSID}
      /\ UNCHANGED <<minted, live>>
  BY SetEffect DEF TypeOK
<1>2. CASE rsid[r] \in live
  <2>1. backendSID' = [backendSID EXCEPT ![rsid[r]][rten[r]] = rbsid[r]]
    BY <1>2 DEF EndSetBackendSID, SetBackendSID
  <2>2. Phase' = Phase /\ Phase[rsid[r]] = "live"
    BY <1>1, <1>2 DEF Phase, TypeOK, StoreTypeOK
  <2>3. Lifecycle!Bind(rsid[r], rten[r], rbsid[r])
    BY <2>1, <2>2 DEF Lifecycle!Bind
  <2> QED
    BY <1>1, <2>3 DEF Lifecycle!LNext
<1>3. CASE rsid[r] \notin live
  BY <1>1, <1>3, LifecycleStutter DEF EndSetBackendSID, SetBackendSID
<1> QED
  BY <1>2, <1>3

\* The proxy implements the life of a session: with all its handlers running
\* against the store, no id is born twice, no session that was deleted, reaped
\* or lost comes back, and no map changes after the death of its session.
THEOREM ImplementsLifecycle == Spec => SessionsLiveOnce
<1>1. Init => Lifecycle!LInit
  BY DEF Init, StoreInit, Phase, Lifecycle!LInit
<1>2. IInv /\ [Next]_vars => [Lifecycle!LNext]_(Lifecycle!lifecycleVars)
  <2> SUFFICES ASSUME IInv, [Next]_vars
               PROVE  [Lifecycle!LNext]_(Lifecycle!lifecycleVars)
    OBVIOUS
  <2> USE DEF IInv
  <2>1. ASSUME NEW r \in Reqs, HandleInitialize(r)
        PROVE  [Lifecycle!LNext]_(Lifecycle!lifecycleVars)
    BY <2>1, LifecycleBirth, LifecycleStutter DEF HandleInitialize
  <2>2. ASSUME NEW r \in Reqs, NEW s \in SIDs, HandleDelete(r, s)
        PROVE  [Lifecycle!LNext]_(Lifecycle!lifecycleVars)
    BY <2>2, LifecycleExpire DEF HandleDelete, Delete
  <2>3. ASSUME NEW r \in Reqs, GetSession(r)
        PROVE  [Lifecycle!LNext]_(Lifecycle!lifecycleVars)
    BY <2>3, LifecycleExpire DEF GetSession, GetHit, GetMiss, Reaped
  <2>4. ASSUME NEW r \in Reqs, EndSetBackendSID(r)
        PROVE  [Lifecycle!LNext]_(Lifecycle!lifecycleVars)
    BY <2>4, LifecycleBind
  <2>5. ASSUME Lose
        PROVE  [Lifecycle!LNext]_(Lifecycle!lifecycleVars)
    BY <2>5, LifecycleExpire DEF Lose, LoseAll
  <2>6. ASSUME NEW r \in Reqs,
               \/ \E s \in SIDs \cup {NoSession}, groups \in SUBSET Groups :
                     HandleToolsCall(r, s, groups)
               \/ ReadBackendSID(r) \/ TornRead(r) \/ OpenBackendSession(r)
               \/ NotifyInitialized(r) \/ BeginSetBackendSID(r)
               \/ CallTool(r) \/ CollectTeardowns(r)
        PROVE  UNCHANGED <<minted, live, backendSID>>
    BY <2>6 DEF HandleToolsCall, ReadBackendSID, TornRead, OpenBackendSession,
                NotifyInitialized, BeginSetBackendSID, CallTool, CollectTeardowns
  <2>7. ASSUME \/ \E t \in Tenants, b \in BSIDs : TeardownBackend(t, b)
               \/ \E b \in BSIDs : BackendDrop(b)
               \/ Tick
               \/ UNCHANGED vars
        PROVE  UNCHANGED <<minted, live, backendSID>>
    BY <2>7 DEF TeardownBackend, BackendDrop, Tick, PassTime, vars
  <2> QED
    BY <2>1, <2>2, <2>3, <2>4, <2>5, <2>6, <2>7, LifecycleStutter
    DEF Next, Arrive, Proceed, Restart, ConcurrentMapFatal
<1> QED
  BY <1>1, <1>2, InductiveInvariant, PTL DEF Spec, SessionsLiveOnce, Lifecycle!LSpec
=============================================================================
