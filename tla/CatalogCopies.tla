---------------------------- MODULE CatalogCopies ----------------------------
(***************************************************************************)
(* What the tool catalogs promise to the clients of the proxy, without the *)
(* TTL, the lock, the fetches or the handlers.  Each source has a latest   *)
(* version, of which the proxy keeps a copy; the copy moves only forward   *)
(* and never past the source.  A reader is shown, for every item, the      *)
(* version of a copy of the item's source or a mark that there is none:    *)
(* never a copy that was not made yet, and never an older version than it  *)
(* was last shown (monotonic reads).                                       *)
(***************************************************************************)
EXTENDS Naturals

CONSTANTS Sources,
          Items,
          Source(_),  \* the source of an item
          Readers,
          Marks,      \* instead of a version
          NotShown    \* the first of them

VARIABLES latest, copy, seen

copyVars == <<latest, copy, seen>>

CInit == /\ latest = [s \in Sources |-> 1]
         /\ copy = [s \in Sources |-> 0]
         /\ seen = [r \in Readers |-> [i \in Items |-> NotShown]]

Publish(s) == /\ latest' = [latest EXCEPT ![s] = @ + 1]
              /\ UNCHANGED <<copy, seen>>

\* The copy is of a version the source had at some time since the last one.
Refresh(s) == /\ \E n \in copy[s]..latest[s] : n > 0 /\ copy' = [copy EXCEPT ![s] = n]
              /\ UNCHANGED <<latest, seen>>

\* Versions that reader r may be shown for item i.
Showable(r, i) == {n \in 1..copy[Source(i)] : seen[r][i] \in Marks \/ seen[r][i] <= n}

Show(r) == /\ \E f \in [Items -> Marks \cup UNION {Showable(r, i) : i \in Items}] :
                 /\ \A i \in Items : f[i] \in Marks \cup Showable(r, i)
                 /\ seen' = [seen EXCEPT ![r] = f]
           /\ UNCHANGED <<latest, copy>>

CNext == \/ \E s \in Sources : Publish(s) \/ Refresh(s)
         \/ \E r \in Readers : Show(r)

CSpec == CInit /\ [][CNext]_copyVars
=============================================================================
