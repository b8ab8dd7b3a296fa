-------------------------- MODULE MCSessionRouting --------------------------
(***************************************************************************)
(* Small deployments of SessionRouting.                                    *)
(*   Tenants    t1 (own credential) and t2 (the backend's credential) share *)
(*              the stateful backend be1, t3 is on the stateless be2; one  *)
(*              client session.                                            *)
(*   Clients    one tenant, two client sessions.                           *)
(***************************************************************************)
EXTENDS SessionRouting, TLC

CONSTANTS t1, t2, t3, be1, be2, g1, g2, c1, c2, c3, r1, r2, s1, s2, b1, b2

TenantsBackend == t1 :> be1 @@ t2 :> be1 @@ t3 :> be2
TenantsGroups  == t1 :> {g1} @@ t2 :> {g1} @@ t3 :> {g2}
TenantsCred    == t1 :> c1 @@ t2 :> NoCred @@ t3 :> c3
TenantsDefault == be1 :> c2 @@ be2 :> NoCred

ClientsBackend == t1 :> be1
ClientsGroups  == t1 :> {g1}
ClientsCred    == t1 :> c1
ClientsDefault == be1 :> c2

\* Handlers, client sessions and backend sessions are interchangeable.
Symmetry == Permutations(Reqs) \cup Permutations(SIDs) \cup Permutations(BSIDs)
=============================================================================
