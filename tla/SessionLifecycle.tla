-------------------------- MODULE SessionLifecycle --------------------------
(***************************************************************************)
(* What the session store promises to the rest of the proxy, without the   *)
(* clock, the lock, the reaping or the handlers: a session id is born      *)
(* once, with an empty map; while it is live, backend session ids may be   *)
(* bound to its tenants; once it is dead (deleted, reaped or lost with the *)
(* process) it stays dead and its map never changes again.  The last part  *)
(* is what lets handleDelete read the map of a session it has just removed *)
(* without holding the store's lock.                                       *)
(***************************************************************************)
CONSTANTS SIDs,     \* session ids the proxy can mint
          Tenants, 
          Values,   \* backend session ids that can be bound
          Unbound

VARIABLES phase, bound

lifecycleVars == <<phase, bound>>

LInit == /\ phase = [s \in SIDs |-> "unborn"]
         /\ bound = [s \in SIDs |-> [t \in Tenants |-> Unbound]]

Die(dying) == phase' = [s \in SIDs |-> IF s \in dying THEN "dead" ELSE phase[s]]

\* Any set of live sessions may die, in any step.
Expire == /\ \E dying \in SUBSET {s \in SIDs : phase[s] = "live"} : Die(dying)
          /\ UNCHANGED bound

\* A birth may expire other sessions in the same step.
Birth(s) == /\ phase[s] = "unborn"
            /\ \E dying \in SUBSET {x \in SIDs : phase[x] = "live"} :
                  phase' = [x \in SIDs |-> IF x = s THEN "live"
                                           ELSE IF x \in dying THEN "dead" ELSE phase[x]]
            /\ UNCHANGED bound

Bind(s, t, v) == /\ phase[s] = "live"
                 /\ bound' = [bound EXCEPT ![s][t] = v]
                 /\ UNCHANGED phase

LNext == \/ Expire
         \/ \E s \in SIDs : Birth(s)
         \/ \E s \in SIDs, t \in Tenants, v \in Values : Bind(s, t, v)

LSpec == LInit /\ [][LNext]_lifecycleVars
=============================================================================
