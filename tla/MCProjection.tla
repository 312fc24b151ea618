---------------------------- MODULE MCProjection ----------------------------
(***************************************************************************)
(* Projection, aggregates from their snapshots, and the loads of           *)
(* packages/data that something awaits, for TLC: batched loads by id, and  *)
(* relations.  One module moves at a time: `part` says which, the others   *)
(* stay in one initial state.                                              *)
(***************************************************************************)
EXTENDS Projection, Relations, Snapshots

CONSTANTS u1, u2, u3, d1, d2

VARIABLE part

\* Collections of three parents in chunks, and of one, lazily; what d1 and d2
\* refer to, lazily by key and in the joined row.
MCLoads == {[kind |-> "collection", of |-> <<u1, u2, u3>>, lazy |-> FALSE],
            [kind |-> "collection", of |-> <<u1>>, lazy |-> TRUE],
            [kind |-> "single", of |-> d1, lazy |-> TRUE],
            [kind |-> "join", of |-> d2, lazy |-> FALSE]}

\* Where a module that does not move stays.
Projection0 == Init /\ numeric = CHOOSE n \in NumericSequence : TRUE
Relations0 == RelationsStart([kind |-> "join", of |-> d2, lazy |-> FALSE])

Snapshots0 == SnapshotsStart(0)

MCInit ==
    \/ part = "projection" /\ Init /\ BatcherInit /\ Relations0 /\ Snapshots0
    \/ part = "batcher" /\ Loads # {} /\ Projection0 /\ BatcherInit /\ Relations0 /\ Snapshots0
    \/ part = "relations" /\ Projection0 /\ BatcherInit /\ RelationsInit /\ Snapshots0
    \/ part = "snapshots" /\ Projection0 /\ BatcherInit /\ Relations0 /\ SnapshotsInit

MCNext ==
    /\ UNCHANGED part
    /\ \/ part = "projection" /\ Next /\ UNCHANGED <<batcherVars, relationVars, snapshotVars>>
       \/ part = "batcher" /\ BatcherNext /\ UNCHANGED <<vars, relationVars, snapshotVars>>
       \/ part = "relations" /\ RelationsNext /\ UNCHANGED <<vars, batcherVars, snapshotVars>>
       \/ part = "snapshots" /\ SnapshotsNext /\ UNCHANGED <<vars, batcherVars, relationVars>>

\* The awaits of the loop, of a batch and of a relation settle.
MCSpec ==
    /\ MCInit /\ [][MCNext]_<<part, vars, batcherVars, relationVars, snapshotVars>>
    /\ WF_vars(part = "projection" /\ (LoadBatch \/ Handle \/ BatchDone))
    /\ WF_batcherVars(part = "batcher" /\ BatcherWorks)
    /\ WF_relationVars(part = "relations" /\ RelationWork)
    /\ \A x \in Readers : WF_relationVars(part = "relations" /\ Answer(x))

\* What a load answers was so while it was awaited.
LoadsAreTrue == LoadsAnswerTheirRow /\ RelationsAreTrue /\ SnapshotsHold

\* Every load is answered, whoever awaits it.
LoadsAndReadersSettle == LoadsSettle /\ ReadersAnswered
=============================================================================
