----------------------------- MODULE EventStore -----------------------------
(***************************************************************************)
(* The event store of packages/event-sourcing: sessions that each hold an  *)
(* in-memory aggregate (AggregateBase), apply events to it and append them *)
(* to the shared table with optimistic concurrency control                 *)
(* (EventStore.append), either with the INSERT committing on its own or    *)
(* inside a transaction of the caller, the way EventSourcingPlugin and     *)
(* callers of the store drive it.                                          *)
(*                                                                         *)
(* append awaits the database twice, so it is three steps here: the call,  *)
(* the version check and the INSERT; the commit is a fourth.  The table is *)
(* PostgreSQL's: UNIQUE (aggregate_id, version), and a BIGSERIAL sequence  *)
(* whose numbers are drawn when the INSERT runs and never given back.      *)
(***************************************************************************)
EXTENDS Naturals, Sequences, FiniteSets

CONSTANTS Sessions,    \* concurrent request handlers, each with a connection
          Aggregates,  \* aggregate ids
          MaxApplied,  \* bound: events one session applies in its life
          MaxSequence  \* bound: sequence numbers drawn, used or wasted

ASSUME EventStoreAssumption == MaxApplied \in Nat /\ MaxSequence \in Nat

VARIABLES events,       \* the committed rows of the event table
          nextSequence, \* next value of the BIGSERIAL sequence
          instance,     \* instance[s]: the aggregate object session s holds
          applied,      \* applied[s]: how many events s has applied so far
          pc,           \* where session s is in append
          inTx,         \* whether s appends inside its caller's transaction
          batch,        \* append's argument: the events to store
          expected,     \* append's argument: expectedVersion
          inflight      \* rows s has inserted and not yet committed

vars == <<events, nextSequence, instance, applied, pc, inTx, batch, expected,
          inflight>>

\* An event is named by who applied it and when.
EventIds == Sessions \X (1..MaxApplied)

\* A DomainEvent in memory: apply() numbers it.
DomainEvent == [id : EventIds, version : Nat]

Row == [aggregate : Aggregates, version : Nat \ {0}, sequence : Nat \ {0}, id : EventIds,
        claimed : Nat]

\* idle: not in append; called, checked, inserted: at an await of append;
\* stored: append returned and markEventsAsCommitted is next; conflict:
\* append threw ConcurrencyError; dbError: append threw the driver's error.
Steps == {"idle", "called", "checked", "inserted", "stored", "conflict", "dbError"}

AtRest == {"idle", "conflict", "dbError"}

-----------------------------------------------------------------------------
\* The version column of aggregate a's committed rows.
Versions(a) == {r.version : r \in {x \in events : x.aggregate = a}}

\* getCurrentVersion: SELECT MAX(version), 0 for an aggregate without events.
GetCurrentVersion(a) ==
    IF Versions(a) = {} THEN 0
    ELSE CHOOSE m \in Versions(a) : \A v \in Versions(a) : v <= m

\* Mutants of RowsToInsert: versions counted from expectedVersion itself, and
\* rows written newest first.
RowsFromExpected(s) ==
    {[aggregate |-> instance[s].aggregate, version |-> expected[s] + i - 1,
      sequence |-> nextSequence + i - 1, id |-> batch[s][i].id,
      claimed |-> batch[s][i].version] : i \in 1..Len(batch[s])}

RowsNewestFirst(s) ==
    {[aggregate |-> instance[s].aggregate, version |-> expected[s] + i,
      sequence |-> nextSequence + Len(batch[s]) - i, id |-> batch[s][i].id,
      claimed |-> batch[s][i].version] : i \in 1..Len(batch[s])}

\* What the INSERT writes: consecutive versions after expectedVersion,
\* whatever version apply() gave the event (kept here as "claimed").
RowsToInsert(s) ==
    {[aggregate |-> instance[s].aggregate,
      version   |-> expected[s] + i,
      sequence  |-> nextSequence + i - 1,
      id        |-> batch[s][i].id,
      claimed   |-> batch[s][i].version] : i \in 1..Len(batch[s])}

\* Rows clash when they have the same unique key.
Clash(R, T) == \E r \in R, t \in T : r.aggregate = t.aggregate /\ r.version = t.version

\* The INSERT draws a number for each row of the batch.
DrawSequence(s) ==
    /\ nextSequence + Len(batch[s]) <= MaxSequence + 1
    /\ nextSequence' = nextSequence + Len(batch[s])

\* append returns to its caller as outcome: its locals are gone.
ReturnFromAppend(s, outcome) ==
    /\ pc' = [pc EXCEPT ![s] = outcome]
    /\ batch' = [batch EXCEPT ![s] = <<>>]
    /\ expected' = [expected EXCEPT ![s] = 0]
    /\ inTx' = [inTx EXCEPT ![s] = FALSE]
    /\ inflight' = [inflight EXCEPT ![s] = {}]

\* Rows other sessions have inserted and not committed.
OtherInflight(s) == UNION {inflight[t] : t \in Sessions \ {s}}

-----------------------------------------------------------------------------
Init ==
    /\ events = {}
    /\ nextSequence = 1
    /\ \E held \in [Sessions -> Aggregates] :
          instance = [s \in Sessions |-> [aggregate |-> held[s], version |-> 0, uncommitted |-> <<>>]]
    /\ applied = [s \in Sessions |-> 0]
    /\ pc = [s \in Sessions |-> "idle"]
    /\ inTx = [s \in Sessions |-> FALSE]
    /\ batch = [s \in Sessions |-> <<>>]
    /\ expected = [s \in Sessions |-> 0]
    /\ inflight = [s \in Sessions |-> {}]

\* loadEvents and loadFromHistory into a new object: the history is ordered
\* by version, so its last version is the maximum.
LoadFromHistory(s, a) ==
    /\ pc[s] \in AtRest
    /\ instance' = [instance EXCEPT ![s] = [aggregate |-> a, version |-> GetCurrentVersion(a),
                                            uncommitted |-> <<>>]]
    /\ pc' = [pc EXCEPT ![s] = "idle"]
    /\ UNCHANGED <<events, nextSequence, applied, inTx, batch, expected, inflight>>

\* apply(): synchronous, and possible while an append of the same object is
\* awaiting the database.
Apply(s) ==
    /\ applied[s] < MaxApplied
    /\ applied' = [applied EXCEPT ![s] = @ + 1]
    /\ instance' = [instance EXCEPT ![s].uncommitted =
            Append(@, [id      |-> <<s, applied[s] + 1>>,
                       version |-> instance[s].version + Len(@) + 1])]
    /\ UNCHANGED <<events, nextSequence, pc, inTx, batch, expected, inflight>>

\* append([...uncommittedEvents], version): an empty batch returns at once.
AppendCall(s, transactional) ==
    /\ pc[s] \in AtRest
    /\ instance[s].uncommitted # <<>>
    /\ batch' = [batch EXCEPT ![s] = instance[s].uncommitted]
    /\ expected' = [expected EXCEPT ![s] = instance[s].version]
    /\ inTx' = [inTx EXCEPT ![s] = transactional]
    /\ pc' = [pc EXCEPT ![s] = "called"]
    /\ UNCHANGED <<events, nextSequence, instance, applied, inflight>>

\* Mutant of CheckVersion: takes the version it read for the expected one.
RebaseInsteadOfCheck(s) ==
    /\ pc[s] = "called"
    /\ pc' = [pc EXCEPT ![s] = "checked"]
    /\ expected' = [expected EXCEPT ![s] = GetCurrentVersion(instance[s].aggregate)]
    /\ UNCHANGED <<events, nextSequence, instance, applied, inTx, batch, inflight>>

\* The optimistic check.
CheckVersion(s) ==
    /\ pc[s] = "called"
    /\ \/ /\ GetCurrentVersion(instance[s].aggregate) = expected[s]
          /\ pc' = [pc EXCEPT ![s] = "checked"]
          /\ UNCHANGED <<inTx, batch, expected, inflight>>
       \/ /\ GetCurrentVersion(instance[s].aggregate) # expected[s]
          /\ ReturnFromAppend(s, "conflict")
    /\ UNCHANGED <<events, nextSequence, instance, applied>>

\* Mutant of Insert: a table without UNIQUE (aggregate_id, version).
InsertWithoutUniqueKey(s) ==
    /\ pc[s] = "checked"
    /\ DrawSequence(s)
    /\ inflight' = [inflight EXCEPT ![s] = RowsToInsert(s)]
    /\ pc' = [pc EXCEPT ![s] = "inserted"]
    /\ UNCHANGED <<events, instance, applied, inTx, batch, expected>>

\* The multi-row INSERT.  PostgreSQL makes it wait while another transaction
\* holds an uncommitted row with the same key.
Insert(s) ==
    LET rows == RowsToInsert(s)
    IN  /\ pc[s] = "checked"
        /\ ~ Clash(rows, OtherInflight(s))
        /\ ~ Clash(rows, events)
        /\ inflight' = [inflight EXCEPT ![s] = rows]
        /\ DrawSequence(s)
        /\ pc' = [pc EXCEPT ![s] = "inserted"]
        /\ UNCHANGED <<events, instance, applied, inTx, batch, expected>>

\* Error 23505: the numbers drawn are gone.  append reads the version again
\* on the same connection for its ConcurrencyError; inside the caller's
\* transaction, which the failed INSERT has aborted, that query fails itself.
UniqueViolation(s) ==
    LET rows == RowsToInsert(s)
    IN  /\ pc[s] = "checked"
        /\ ~ Clash(rows, OtherInflight(s))
        /\ Clash(rows, events)
        /\ DrawSequence(s)
        /\ ReturnFromAppend(s, IF inTx[s] THEN "dbError" ELSE "conflict")
        /\ UNCHANGED <<events, instance, applied>>

\* The INSERT commits: by itself, or with its caller's transaction.  The
\* acknowledgement may be lost with the connection, and the caller then sees
\* an error although the rows are there.
Commit(s, acknowledged) ==
    /\ pc[s] = "inserted"
    /\ events' = events \cup inflight[s]
    /\ ReturnFromAppend(s, IF acknowledged THEN "stored" ELSE "dbError")
    /\ UNCHANGED <<nextSequence, instance, applied>>

\* Any other failure of the database or of the caller's transaction.
Rollback(s) ==
    /\ pc[s] \in {"called", "checked", "inserted"}
    /\ ReturnFromAppend(s, "dbError")
    /\ UNCHANGED <<events, nextSequence, instance, applied>>

\* Empties the list of uncommitted events; the object's version stays.
MarkEventsAsCommitted(s) ==
    /\ pc[s] = "stored"
    /\ instance' = [instance EXCEPT ![s].uncommitted = <<>>]
    /\ pc' = [pc EXCEPT ![s] = "idle"]
    /\ UNCHANGED <<events, nextSequence, applied, inTx, batch, expected, inflight>>

Next ==
    \E s \in Sessions :
        \/ \E a \in Aggregates : LoadFromHistory(s, a)
        \/ Apply(s)
        \/ \E transactional \in BOOLEAN : AppendCall(s, transactional)
        \/ CheckVersion(s)
        \/ Insert(s)
        \/ UniqueViolation(s)
        \/ \E acknowledged \in BOOLEAN : Commit(s, acknowledged)
        \/ Rollback(s)
        \/ MarkEventsAsCommitted(s)

Spec == Init /\ [][Next]_vars

-----------------------------------------------------------------------------
\* Every variable stays in its domain (EventStore and AggregateBase state).
TypeOK ==
    /\ events \subseteq Row
    /\ nextSequence \in Nat \ {0}
    /\ instance \in [Sessions -> [aggregate : Aggregates, version : Nat, uncommitted : Seq(DomainEvent)]]
    /\ applied \in [Sessions -> 0..MaxApplied]
    /\ pc \in [Sessions -> Steps]
    /\ inTx \in [Sessions -> BOOLEAN]
    /\ batch \in [Sessions -> Seq(DomainEvent)]
    /\ expected \in [Sessions -> Nat]
    /\ inflight \in [Sessions -> SUBSET Row]

\* The committed versions of an aggregate are 1..n with no hole, and no
\* version is taken twice: what the check and the unique key of
\* EventStore.append give together, whoever appends in whatever order.
VersionsContiguous ==
    /\ \A a \in Aggregates : Versions(a) = 1..GetCurrentVersion(a)
    /\ \A r, t \in events : r.aggregate = t.aggregate /\ r.version = t.version => r = t

\* Within an aggregate the global sequence agrees with the version, although
\* sequence numbers are drawn before the commit: replay by sequence
\* (loadAllEvents) and load by version (loadEvents) see the same order.
SequenceFollowsVersion ==
    \A r, t \in events :
        r.aggregate = t.aggregate /\ r.version < t.version => r.sequence < t.sequence

\* An event is stored at most once, even when the acknowledgement of a commit
\* was lost and the caller appends the same batch again: the retry always
\* meets the version check.
StoredOnce == \A r, t \in events : r.id = t.id => r = t

\* The version apply() gave an event in memory (AggregateBase.apply) is the
\* version append stores it under, which it computes on its own.
StoredVersionIsAppliedVersion == \A r \in events : r.version = r.claimed

\* What apply() made in memory is stored once and as it is.
StoredAsApplied == StoredOnce /\ StoredVersionIsAppliedVersion

\* The log each aggregate's rows amount to, for the refinement.
LogOf(a) == [v \in 1..Cardinality(Versions(a)) |->
                (CHOOSE r \in events : r.aggregate = a /\ r.version = v).id]

Logs == [a \in Aggregates |-> LogOf(a)]

Log == INSTANCE EventLog WITH log <- Logs

\* The table behaves as an append-only stream per aggregate in which a batch
\* lands whole, at the length its writer knew (EventStore.append).
ImplementsEventLog == Log!Spec

\* An object whose append was acknowledged carries on from there
\* (aggregate.test.ts:362): while nobody else has appended since, its next
\* event is numbered after the last one stored.
NewEventsContinueTheStream ==
    [][\A s \in Sessions : \A i \in DOMAIN instance'[s].uncommitted :
          /\ pc[s] = "idle"
          /\ i > Len(instance[s].uncommitted)
          /\ \A r \in events : r.aggregate = instance[s].aggregate => r.id[1] = s
          => instance'[s].uncommitted[i].version > GetCurrentVersion(instance[s].aggregate)]_vars
=============================================================================
