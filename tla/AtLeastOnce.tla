---------------------------- MODULE AtLeastOnce ----------------------------
(***************************************************************************)
(* What a transactional outbox promises: only events of committed          *)
(* transactions are delivered, in any order and any number of times, and   *)
(* each of them is delivered eventually.                                   *)
(***************************************************************************)
CONSTANT Events

VARIABLES committed, delivered

vars == <<committed, delivered>>

Init == committed = {} /\ delivered = {}

Commit(e) == /\ committed' = committed \cup {e}
             /\ UNCHANGED delivered

Deliver == /\ delivered \subseteq delivered'
           /\ delivered' \subseteq committed
           /\ UNCHANGED committed

Next == (\E e \in Events : Commit(e)) \/ Deliver

\* No committed event waits for ever.
AllDelivered == \A e \in Events : e \in committed ~> e \in delivered

Safety == Init /\ [][Next]_vars
Spec == Safety /\ AllDelivered
=============================================================================
