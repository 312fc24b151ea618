------------------------------- MODULE Outbox -------------------------------
(***************************************************************************)
(* The transactional outbox of packages/event-sourcing: OutboxStore writes *)
(* an event's row beside the entity change, OutboxPublisher polls the      *)
(* unpublished rows, hands them to publishFn and marks them.               *)
(*                                                                         *)
(* setInterval does not wait for the poll before, so polls overlap; each   *)
(* poll is cut at its awaits.  The publisher's process may crash and be    *)
(* started again.  The row of an event in AutoOutbox is written not in the *)
(* entity's transaction but by EventSourcingPlugin, on its own connection. *)
(***************************************************************************)
EXTENDS Naturals, FiniteSets

CONSTANTS Events,      \* events of entity changes, one each
          Polls,       \* polls that can be under way at once
          BatchSize,   \* rows a poll fetches
          ChunkSize,   \* rows one UPDATE of markPublished takes
          MaxTime,     \* bound: distinct values of created_at
          MaxFaults,   \* bound: failed statements, failed publishes, crashes
          AutoOutbox   \* events whose rows EventSourcingPlugin writes (autoOutbox)

ASSUME OutboxAssumption ==
    /\ BatchSize \in Nat \ {0} /\ ChunkSize \in Nat \ {0}
    /\ MaxTime \in Nat /\ MaxFaults \in Nat /\ AutoOutbox \subseteq Events

VARIABLES entity,    \* entity[e]: the transaction that changes e's entity
          row,       \* row[e]: e's row of the outbox table
          createdAt, \* createdAt[e]: its created_at
          now,       \* the clock the writers share
          running,   \* the publisher is started
          pc,        \* pc[p]: the await poll p is at
          batch,     \* batch[p]: the entries p fetched
          unmarked,  \* unmarked[p]: those of them p has yet to mark
          delivered, \* events the external system has received
          faults     \* faults so far

vars == <<entity, row, createdAt, now, running, pc, batch, unmarked, delivered,
          faults>>

\* The process of the publisher, and the outside world.
publisher == <<running, pc, batch, unmarked>>

Init == /\ entity = [e \in Events |-> "none"]
        /\ row = [e \in Events |-> "none"]
        /\ createdAt = [e \in Events |-> 0]
        /\ now = 0
        /\ running = FALSE
        /\ pc = [p \in Polls |-> "idle"]
        /\ batch = [p \in Polls |-> {}]
        /\ unmarked = [p \in Polls |-> {}]
        /\ delivered = {}
        /\ faults = 0

Fault == faults < MaxFaults /\ faults' = faults + 1

\* new Date() for e's row.
Stamp(e) == \E t \in {now, now + 1} : /\ t <= MaxTime
                                     /\ now' = t
                                     /\ createdAt' = [createdAt EXCEPT ![e] = t]

Explicit == Events \ AutoOutbox

-----------------------------------------------------------------------------
ChangeInAutocommit(e) ==
    /\ entity[e] = "none"
    /\ entity' = [entity EXCEPT ![e] = "open"]
    /\ row' = [row EXCEPT ![e] = "unpublished"]
    /\ UNCHANGED <<createdAt, now, publisher, delivered, faults>>

\* A caller changes the entity in a transaction of its own.  OutboxStore's
\* contract: writeEvents on the connection of that transaction.  The plugin
\* is only told of the change (entity:persisted and so on).
Change(e) == /\ entity[e] = "none"
             /\ entity' = [entity EXCEPT ![e] = "open"]
             /\ IF e \in AutoOutbox
                THEN /\ row' = [row EXCEPT ![e] = "told"]
                     /\ UNCHANGED <<now, createdAt>>
                ELSE /\ row' = [row EXCEPT ![e] = "uncommitted"]
                     /\ Stamp(e)
             /\ UNCHANGED <<publisher, delivered, faults>>

Commit(e) == /\ entity[e] = "open"
             /\ entity' = [entity EXCEPT ![e] = "committed"]
             /\ row' = IF row[e] = "uncommitted"
                       THEN [row EXCEPT ![e] = "unpublished"] ELSE row
             /\ UNCHANGED <<createdAt, now, publisher, delivered, faults>>

RollBack(e) == /\ entity[e] = "open"
               /\ entity' = [entity EXCEPT ![e] = "rolledBack"]
               /\ row' = IF row[e] = "uncommitted"
                         THEN [row EXCEPT ![e] = "none"] ELSE row
               /\ UNCHANGED <<createdAt, now, publisher, delivered, faults>>

\* writeOutboxEvent of the plugin: a connection of its own, committed at once.
\* A failure is logged.
PluginWrites(e) == /\ row[e] = "told"
                   /\ \/ /\ row' = [row EXCEPT ![e] = "unpublished"]
                         /\ Stamp(e)
                         /\ UNCHANGED faults
                      \/ /\ row' = [row EXCEPT ![e] = "none"]
                         /\ Fault
                         /\ UNCHANGED <<createdAt, now>>
                   /\ UNCHANGED <<entity, publisher, delivered>>

-----------------------------------------------------------------------------
Start == /\ ~running /\ running' = TRUE
         /\ UNCHANGED <<entity, row, createdAt, now, pc, batch, unmarked, delivered,
                        faults>>

\* Polls under way are not told.
Stop == /\ running /\ Fault
        /\ running' = FALSE
        /\ UNCHANGED <<entity, row, createdAt, now, pc, batch, unmarked, delivered>>

Unpublished == {e \in Events : row[e] = "unpublished"}

\* ORDER BY created_at LIMIT batchSize; equal times come in any order.
OldestUnpublished ==
    {b \in SUBSET Unpublished :
        /\ Cardinality(b) = IF Cardinality(Unpublished) < BatchSize
                            THEN Cardinality(Unpublished) ELSE BatchSize
        /\ \A e \in b, f \in Unpublished \ b : createdAt[e] <= createdAt[f]}

\* The timer fires, also while an earlier poll is under way.  Without an
\* unpublished row poll returns at once.
FetchUnpublished(p) ==
    /\ running /\ pc[p] = "idle"
    /\ \E b \in OldestUnpublished :
          /\ batch' = [batch EXCEPT ![p] = b]
          /\ unmarked' = [unmarked EXCEPT ![p] = b]
          /\ pc' = [pc EXCEPT ![p] = IF b = {} THEN "idle" ELSE "publish"]
    /\ UNCHANGED <<entity, row, createdAt, now, running, delivered, faults>>

DoneKeepsBatch(p) == /\ pc' = [pc EXCEPT ![p] = "idle"]
                     /\ unmarked' = [unmarked EXCEPT ![p] = {}]
                     /\ UNCHANGED batch

\* poll returns, with or without a call of errorFn.
Done(p) == /\ pc' = [pc EXCEPT ![p] = "idle"]
           /\ batch' = [batch EXCEPT ![p] = {}]
           /\ unmarked' = [unmarked EXCEPT ![p] = {}]

MarkBeforePublish(p) ==
    /\ pc[p] = "publish"
    /\ row' = [e \in Events |-> IF e \in batch[p] THEN "published" ELSE row[e]]
    /\ \/ /\ delivered' = delivered \cup batch[p]
          /\ pc' = [pc EXCEPT ![p] = "mark"]
          /\ UNCHANGED <<batch, unmarked, faults>>
       \/ \E sent \in SUBSET batch[p] :
              /\ delivered' = delivered \cup sent
              /\ Done(p)
              /\ Fault
    /\ UNCHANGED <<entity, createdAt, now, running>>

Publish(p) ==
    /\ pc[p] = "publish"
    /\ \/ /\ delivered' = delivered \cup batch[p]
          /\ pc' = [pc EXCEPT ![p] = "mark"]
          /\ UNCHANGED <<batch, unmarked, faults>>
       \/ \* publishFn throws, with some of the batch sent.
          \E sent \in SUBSET batch[p] :
              /\ delivered' = delivered \cup sent
              /\ Done(p)
              /\ Fault
    /\ UNCHANGED <<entity, row, createdAt, now, running>>

\* markPublished: one UPDATE, committed on its own, per chunk.  A row that
\* cleanup has deleted is not matched.
MarkPublished(p) ==
    /\ pc[p] = "mark"
    /\ \/ \E chunk \in SUBSET unmarked[p] :
              /\ chunk # {}
              /\ Cardinality(chunk) = ChunkSize
                    \/ (chunk = unmarked[p] /\ Cardinality(chunk) < ChunkSize)
              /\ row' = [e \in Events |-> IF e \in chunk /\ row[e] = "unpublished"
                                          THEN "published" ELSE row[e]]
              /\ IF chunk = unmarked[p]
                 THEN Done(p)
                 ELSE /\ unmarked' = [unmarked EXCEPT ![p] = @ \ chunk]
                      /\ UNCHANGED <<pc, batch>>
              /\ UNCHANGED faults
       \/ /\ Done(p)
          /\ Fault
          /\ UNCHANGED row
    /\ UNCHANGED <<entity, createdAt, now, running, delivered>>

CleanupOfAllRows ==
    /\ \E old \in SUBSET {e \in Events : row[e] \in {"published", "unpublished"}} :
          /\ old # {}
          /\ row' = [e \in Events |-> IF e \in old THEN "deleted" ELSE row[e]]
    /\ UNCHANGED <<entity, createdAt, now, publisher, delivered, faults>>

\* deletePublished: any published rows may be older than the given time.
Cleanup == /\ \E old \in SUBSET {e \in Events : row[e] = "published"} :
                 /\ old # {}
                 /\ row' = [e \in Events |-> IF e \in old THEN "deleted" ELSE row[e]]
           /\ UNCHANGED <<entity, createdAt, now, publisher, delivered, faults>>

\* The process of the publisher dies: the batch may have been sent in part,
\* or handled as a whole without a row being marked.
Crash == /\ Fault
         /\ running' = FALSE
         /\ pc' = [p \in Polls |-> "idle"]
         /\ batch' = [p \in Polls |-> {}]
         /\ unmarked' = [p \in Polls |-> {}]
         /\ UNCHANGED <<entity, row, createdAt, now, delivered>>

Next == \/ \E e \in Events : Change(e) \/ Commit(e) \/ RollBack(e) \/ PluginWrites(e)
        \/ \E p \in Polls : FetchUnpublished(p) \/ Publish(p) \/ MarkPublished(p)
        \/ Start \/ Stop \/ Cleanup \/ Crash

\* The supervisor starts a publisher that is down, the interval timer fires
\* again and again, and the awaits of a poll settle.
Fairness == /\ WF_vars(Start)
            /\ \A p \in Polls : WF_vars(FetchUnpublished(p) \/ Publish(p)
                                          \/ MarkPublished(p))

Spec == Init /\ [][Next]_vars /\ Fairness

-----------------------------------------------------------------------------
(* Properties *)

\* Every variable keeps its type, and a poll that is over has no entries left.
TypeOK == /\ entity \in [Events -> {"none", "open", "committed", "rolledBack"}]
          /\ row \in [Events -> {"none", "told", "uncommitted", "unpublished",
                                 "published", "deleted"}]
          /\ createdAt \in [Events -> Nat]
          /\ now \in Nat /\ faults \in Nat
          /\ running \in BOOLEAN
          /\ pc \in [Polls -> {"idle", "publish", "mark"}]
          /\ batch \in [Polls -> SUBSET Events]
          /\ unmarked \in [Polls -> SUBSET Events]
          /\ \A p \in Polls : /\ unmarked[p] \subseteq batch[p]
                             /\ (pc[p] = "idle" => batch[p] = {})
          /\ delivered \subseteq Events

\* A row that no poll will fetch again (marked, or cleaned up after that) was
\* delivered, although polls overlap, chunks commit one by one and the process
\* crashes anywhere.
NothingLost == \A e \in Events : row[e] \in {"published", "deleted"} => e \in delivered

\* The external system never hears of a change that was rolled back or is
\* still open, if its row was written on the connection of the change.
OnlyCommittedDelivered == \A e \in delivered \cap Explicit : entity[e] = "committed"

\* For rows written so, the outbox implements at-least-once delivery
\* ("Implements at-least-once delivery semantics"), liveness included, beside
\* rows of the plugin that compete for the same batches.
Delivery == INSTANCE AtLeastOnce
                WITH Events    <- Explicit,
                     committed <- {e \in Explicit : entity[e] = "committed"},
                     delivered <- delivered \cap Explicit
ImplementsAtLeastOnce == Delivery!Spec
=============================================================================
