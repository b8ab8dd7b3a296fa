----------------------------- MODULE MCCatalogs -----------------------------
(***************************************************************************)
(* Small deployments of Catalogs.                                          *)
(*   Flaky   t1 and t2 share the flaky backend be1 under different         *)
(*           credentials and so have a view each; p1 is in both, p2 has no *)
(*           token and lists all.  The list of t1 loses the tool.          *)
(*   Shared  t1 and t3 share a view of be1; p1 is in t1, p2 in t3.  The    *)
(*           list loses the tool and gets it back.                         *)
(*   Hung    t1 is on the hung be1, t2 on the healthy be2, which stops to  *)
(*           answer with a list.                                           *)
(***************************************************************************)
EXTENDS Catalogs, TLC

CONSTANTS t1, t2, t3, be1, be2, g1, g2, g3, c1, c2, p1, p2, x, h

FlakyBackend == t1 :> be1 @@ t2 :> be1
FlakyGroups  == t1 :> {g1} @@ t2 :> {g2}
FlakyCreds   == t1 :> NoCred @@ t2 :> c2
FlakyHeaders == t1 :> h @@ t2 :> h
FlakyOrder   == <<t1, t2>>
FlakyDefault == be1 :> c1
FlakyHealth  == be1 :> "flaky"
FlakyOffers  == <<be1, c1, h>> :> <<{x}, {}>> @@ <<be1, c2, h>> :> <<{x}>>
FlakyTokens  == p1 :> {g1, g2} @@ p2 :> {}

SharedBackend == t1 :> be1 @@ t3 :> be1
SharedGroups  == t1 :> {g1} @@ t3 :> {g3}
SharedCreds   == t1 :> NoCred @@ t3 :> c1
SharedHeaders == t1 :> h @@ t3 :> h
SharedOrder   == <<t1, t3>>
SharedDefault == be1 :> c1
SharedHealth  == be1 :> "flaky"
SharedOffers  == <<be1, c1, h>> :> <<{x}, {}, {x}>>
SharedTokens  == p1 :> {g1} @@ p2 :> {g3}

HungBackend == t1 :> be1 @@ t2 :> be2
HungGroups  == t1 :> {g1} @@ t2 :> {g2}
HungCreds   == t1 :> c1 @@ t2 :> NoCred
HungHeaders == t1 :> h @@ t2 :> h
HungOrder   == <<t1, t2>>
HungDefault == be1 :> c1 @@ be2 :> c2
HungHealth  == be1 :> "hung" @@ be2 :> "healthy"
HungOffers  == <<be1, c1, h>> :> <<{x}>> @@ <<be2, c2, h>> :> <<{x}, Nil>>
HungTokens  == p1 :> {g1, g2} @@ p2 :> {}
=============================================================================
