------------------------------ MODULE MCOutbox ------------------------------
(***************************************************************************)
(* The outbox, and how an application's clients are served, for TLC.  One  *)
(* module moves at a time: `part` says which, the others stay in one       *)
(* initial state.                                                          *)
(***************************************************************************)
EXTENDS Outbox, Pagination, Routing

CONSTANTS e1, e2  \* two events that are written in the same way

VARIABLE part

\* A keyset of more than the maximum either way; the relay strategy both ways by a
\* column, by two and by the primary key; and offsets with a total order or without,
\* within the maximum or above.
By(c, a) == [column |-> c, ascending |-> a]
MCPages ==
    {[strategy |-> "keyset", sort |-> <<By("value", a)>>, backward |-> FALSE, size |-> 2, maxSize |-> 1] : a \in BOOLEAN}
    \cup {[strategy |-> "relay", sort |-> s, backward |-> b, size |-> 1, maxSize |-> 2] :
             s \in {<<By("value", TRUE)>>, <<By("value", FALSE), By("id", FALSE)>>, <<By("id", TRUE)>>},
             b \in BOOLEAN}
    \cup {[strategy |-> "offset", sort |-> s, backward |-> FALSE, size |-> n, maxSize |-> 2] :
             s \in {<<By("value", TRUE)>>, <<By("value", TRUE), By("id", TRUE)>>}, n \in {2, 3}}

\* One tenant's source has two replicas, and there is another to take its place.
MCSources == {[of |-> "ta", replicas |-> 2, name |-> "first"], [of |-> "ta", replicas |-> 0, name |-> "other"],
              [of |-> "tb", replicas |-> 0, name |-> "first"]}
MCRoutings == {[default |-> "none", fallback |-> FALSE], [default |-> "tb", fallback |-> TRUE]}

mcVars == <<part, vars, pageVars, routingVars>>

\* Where a module that does not move stays.
Pages0 == PageStart([strategy |-> "keyset", sort |-> <<By("value", TRUE)>>, backward |-> FALSE,
                     size |-> 2, maxSize |-> 1], [i \in RowIds |-> NoRow])
Routing0 == RoutingStart(CHOOSE k \in MCRoutings : ~k.fallback)

MCInit ==
    \/ part = "outbox" /\ Init /\ Pages0 /\ Routing0
    \/ part = "pages" /\ Init /\ PagesInit /\ Routing0
    \/ part = "routes" /\ Init /\ Pages0 /\ RoutingInit

\* e1 and e2 are interchangeable, so it is enough that e1 happens first.
InOrder == entity'[e2] # "none" => entity'[e1] # "none"

MCNext ==
    /\ UNCHANGED part
    /\ \/ /\ part = "outbox" /\ Next /\ InOrder
          /\ UNCHANGED <<pageVars, routingVars>>
       \/ /\ part = "pages" /\ PagesNext
          /\ UNCHANGED <<vars, routingVars>>
       \/ /\ part = "routes" /\ RoutingNext
          /\ UNCHANGED <<vars, pageVars>>
       \/ part # "outbox" /\ UNCHANGED mcVars  \* its callers may be done

\* As in Outbox.
MCFairness ==
    /\ WF_vars(part = "outbox" /\ Start)
    /\ \A p \in Polls : WF_vars(part = "outbox" /\ (FetchUnpublished(p) \/ Publish(p) \/ MarkPublished(p)))

MCSpec == MCInit /\ [][MCNext]_mcVars /\ MCFairness
=============================================================================
