---------------------------- MODULE SessionStore ----------------------------
(***************************************************************************)
(* session.Store: the in-memory map from proxy session ids to sessions.    *)
(*                                                                         *)
(* Every operation here runs under Store.mu and is one step; the handlers  *)
(* that call them, and the reads of a Session outside the lock, are in     *)
(* SessionRouting.                                                         *)
(*                                                                         *)
(* Store.m is the set `live' of its keys.  A *Session outlives its removal *)
(* from the map (a handler may still hold the pointer), so its field       *)
(* `backendSID' is kept for every id ever minted.  Time is counted in      *)
(* ticks since lastSeen: idle[s] = now - lastSeen, which stops counting    *)
(* one tick after it has passed the TTL.                                   *)
(***************************************************************************)
EXTENDS Integers, TenantSelection

CONSTANTS SIDs,      \* proxy session ids newID can return (bounds the sessions minted)
          BSIDs,     \* non-empty backend session ids
          NoSID,     \* the empty backend session id ""
          Unset,     \* the key is not in Session.backendSID
          TTL        \* Store.ttl in ticks; <= 0 disables reaping

ASSUME SIDAssumption == NoSID \notin BSIDs /\ Unset \notin BSIDs /\ NoSID # Unset
ASSUME TTLAssumption == TTL \in Int

VARIABLES
    minted,       \* ids handed out so far, over all restarts (16 random bytes never repeat)
    live,         \* keys of Store.m
    idle,         \* ticks since Session.lastSeen
    backendSID    \* Session.backendSID

storeVars == <<minted, live, idle, backendSID>>

IdleCap == IF TTL > 0 THEN TTL + 1 ELSE 0

StoreTypeOK ==
    /\ minted \in SUBSET SIDs
    /\ live \in SUBSET minted
    /\ idle \in [SIDs -> 0..IdleCap]
    /\ backendSID \in [SIDs -> [Tenants -> BSIDs \cup {NoSID, Unset}]]

StoreInit ==
    /\ minted = {}
    /\ live = {}
    /\ idle = [s \in SIDs |-> 0]
    /\ backendSID = [s \in SIDs |-> [t \in Tenants |-> Unset]]
-----------------------------------------------------------------------------
\* lastSeen.Before(now - ttl): strictly longer than the TTL.
Expired(s) == TTL > 0 /\ idle[s] > TTL

\* Store.reapLocked: what is left of the map.
Reaped == {s \in live : ~Expired(s)}

Mint(s) ==
    /\ s \notin minted
    /\ minted' = minted \cup {s}
    /\ live' = Reaped \cup {s}
    /\ idle' = [idle EXCEPT ![s] = 0]
    /\ backendSID' = [backendSID EXCEPT ![s] = [t \in Tenants |-> Unset]]

\* Mutant: lastSeen is not refreshed.
GetHitNoRefresh(s) == s \in Reaped /\ live' = Reaped /\ UNCHANGED <<minted, idle, backendSID>>

\* Store.Get returns the session.
GetHit(s) ==
    /\ s \in Reaped
    /\ live' = Reaped
    /\ idle' = [idle EXCEPT ![s] = 0]
    /\ UNCHANGED <<minted, backendSID>>

\* Store.Get returns false; the reaping has happened all the same.
GetMiss(s) ==
    /\ s \notin Reaped
    /\ live' = Reaped
    /\ UNCHANGED <<minted, idle, backendSID>>

\* Mutant: the session is created again when it is gone.
SetBackendSIDUpsert(s, t, v) ==
    /\ live' = live \cup {s}
    /\ backendSID' = [backendSID EXCEPT ![s][t] = v]
    /\ idle' = [idle EXCEPT ![s] = 0]
    /\ UNCHANGED minted

\* Mutant: writes through the pointer without looking the session up.
SetBackendSIDUnchecked(s, t, v) ==
    /\ backendSID' = [backendSID EXCEPT ![s][t] = v]
    /\ idle' = [idle EXCEPT ![s] = 0]
    /\ UNCHANGED <<minted, live>>

\* Mutant: one map in the store instead of one per session.
SetBackendSIDShared(s, t, v) ==
    /\ backendSID' = [x \in SIDs |-> IF x \in live THEN [backendSID[x] EXCEPT ![t] = v]
                                                   ELSE backendSID[x]]
    /\ UNCHANGED <<minted, live, idle>>

\* Store.SetBackendSID does not reap, and does nothing for an unknown id.
SetBackendSID(s, t, v) ==
    /\ IF s \in live
         THEN /\ backendSID' = [backendSID EXCEPT ![s][t] = v]
              /\ idle' = [idle EXCEPT ![s] = 0]
         ELSE UNCHANGED <<backendSID, idle>>
    /\ UNCHANGED <<minted, live>>

\* Store.Delete does not reap either.
Delete(s) ==
    /\ live' = live \ {s}
    /\ UNCHANGED <<minted, idle, backendSID>>

\* The clock advances.  Nothing reads lastSeen of a session that left the map.
PassTime ==
    /\ idle' = [s \in SIDs |-> IF s \in live /\ idle[s] < IdleCap
                                 THEN idle[s] + 1 ELSE idle[s]]
    /\ UNCHANGED <<minted, live, backendSID>>

\* The process ends and a new one starts with an empty Store.
LoseAll ==
    /\ live' = {}
    /\ UNCHANGED <<minted, idle, backendSID>>
-----------------------------------------------------------------------------
\* The abstract specification of a session's life, and the store's image in it.
Phase == [s \in SIDs |-> IF s \notin minted THEN "unborn"
                         ELSE IF s \in live THEN "live" ELSE "dead"]

Lifecycle == INSTANCE SessionLifecycle
                 WITH Values <- BSIDs \cup {NoSID}, Unbound <- Unset,
                      phase <- Phase, bound <- backendSID

\* Every step of the store is a step of a session's life: no id is ever born
\* twice, a deleted, reaped or lost session never comes back, and nothing is
\* written into a session that has left the store (Store.SetBackendSID is a
\* no-op for an id that a concurrent DELETE or the reaper has removed).
SessionsLiveOnce == Lifecycle!LSpec
=============================================================================
