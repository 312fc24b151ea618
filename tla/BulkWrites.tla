----------------------------- MODULE BulkWrites -----------------------------
(***************************************************************************)
(* saveAll, upsertAll and deleteAll of a repository, each a transaction of *)
(* several statements, beside findById, count and findAllStream, which     *)
(* read without one and share its caches.  PostgreSQL as READ COMMITTED.   *)
(***************************************************************************)
EXTENDS Integers, Sequences, FiniteSets, SequencesExt

CONSTANTS BulkCallers, \* numbers
          Stored,      \* ids of the rows there are
          MaxBulkCalls, MaxBulkFaults, \* bounds: calls, statements that fail
          MaxRowVersion, MaxInserted   \* bounds: a row's version, rows inserted

ASSUME BulkAssumption ==
    /\ BulkCallers \subseteq Nat /\ Stored \subseteq 1..100
    /\ IsFiniteSet(BulkCallers) /\ MaxRowVersion > 0
    /\ {MaxBulkCalls, MaxBulkFaults, MaxRowVersion, MaxInserted} \subseteq Nat

NewIds == {100 + i : i \in 1..MaxInserted}
RowIds == Stored \cup NewIds
Unchanged == -1
NotCounted == -1
NoVersion == 0
TheCount == 0 \* in raced, beside ids

VARIABLES table,     \* table[i]: the committed version of row i, or NoVersion
          drawn,     \* ids drawn from the sequence
          cachedRow, \* cachedRow[i]: the version of the instance in the entity cache, or NoVersion
          counted,   \* the cached result of count()
          work,      \* work[k]: the call of k
          out,       \* connections that are out of the pool
          updates,   \* history: updates[i]: committed saves of i
          upserted,  \* history: rows written by upsertAll
          raced,     \* history: entries of the caches read beside a transaction
          leaked,    \* history: streams that were given up or failed to begin
          bulkCalls, bulkFaults

bulkVars == <<table, drawn, cachedRow, counted, work, out, updates, upserted, raced, leaked,
              bulkCalls, bulkFaults>>

NoChange == [i \in RowIds |-> Unchanged]
NoWork == [op |-> "none", todo |-> <<>>, news |-> 0, mine |-> NoChange, got |-> NoVersion]

BulkInit ==
    /\ table = [i \in RowIds |-> IF i \in Stored THEN 1 ELSE NoVersion] /\ drawn = 0
    /\ cachedRow = [i \in RowIds |-> NoVersion] /\ counted = NotCounted
    /\ work = [k \in BulkCallers |-> NoWork] /\ out = 0
    /\ updates = [i \in RowIds |-> 0] /\ upserted = {} /\ raced = {} /\ leaked = 0
    /\ bulkCalls = 0 /\ bulkFaults = 0

\* What one transaction has written, another one waits for.
LockedFor(k, i) == \E j \in BulkCallers \ {k} : work[j].mine[i] # Unchanged
Seen(k, i) == IF work[k].mine[i] = Unchanged THEN table[i] ELSE work[k].mine[i]
RowsThere == Cardinality({i \in RowIds : table[i] # NoVersion})

BulkCalled(k, w) ==
    /\ work[k].op = "none" /\ bulkCalls < MaxBulkCalls
    /\ \A j \in BulkCallers : j < k => work[j].op # "none"
    /\ bulkCalls' = bulkCalls + 1
    /\ work' = [work EXCEPT ![k] = w]
    /\ out' = out + 1
Ends(k) == work' = [work EXCEPT ![k] = NoWork] /\ out' = out - 1

\* entityCache.evict or clear, and queryCache.invalidate of the class.
EvictRows(is) ==
    /\ cachedRow' = [i \in RowIds |-> IF i \in is THEN NoVersion ELSE cachedRow[i]]
    /\ counted' = NotCounted
    /\ raced' = raced \ (is \cup {TheCount})
KeepCaches == UNCHANGED <<cachedRow, counted, raced>>
KeepHistory == UNCHANGED <<updates, upserted, leaked>>

\* A list of entities to write: each with the version its caller has seen.
WriteAll(k, op, items, news) ==
    /\ items # <<>> \/ news > 0
    /\ BulkCalled(k, [NoWork EXCEPT !.op = op, !.todo = items, !.news = news])
    /\ UNCHANGED <<table, drawn, bulkFaults>> /\ KeepCaches /\ KeepHistory

\* New entities go in one statement, and both caches are cleared.
BulkInsert(k) ==
    LET n == work[k].news
        ids == {100 + i : i \in (drawn + 1)..(drawn + n)}
    IN /\ work[k].op = "save" /\ n > 0 /\ drawn + n <= MaxInserted
       /\ drawn' = drawn + n
       /\ work' = [work EXCEPT ![k].news = 0,
                               ![k].mine = [i \in RowIds |-> IF i \in ids THEN 1 ELSE @[i]]]
       /\ EvictRows(RowIds)
       /\ UNCHANGED <<table, out, bulkCalls, bulkFaults>> /\ KeepHistory

Rollback(k) ==
    /\ Ends(k)
    /\ UNCHANGED <<table, drawn, bulkCalls>> /\ KeepHistory

\* A write that ignores the version (for a mutant).
WriteNextAnyVersion(k) ==
    LET i == Head(work[k].todo).id
        v == Head(work[k].todo).version
    IN /\ work[k].op \in {"save", "delete"} /\ work[k].news = 0 /\ work[k].todo # <<>>
       /\ ~LockedFor(k, i) /\ v < MaxRowVersion /\ Seen(k, i) # NoVersion
       /\ work' = [work EXCEPT ![k].todo = Tail(@),
                               ![k].mine[i] = IF work[k].op = "save" THEN v + 1 ELSE NoVersion]
       /\ EvictRows({i})
       /\ UNCHANGED <<table, drawn, out, bulkCalls, bulkFaults>> /\ KeepHistory

\* The entities that have an id, one by one: UPDATE or DELETE of the version they have.
WriteNext(k) ==
    LET i == Head(work[k].todo).id
        v == Head(work[k].todo).version
    IN /\ work[k].op \in {"save", "delete"} /\ work[k].news = 0 /\ work[k].todo # <<>>
       /\ ~LockedFor(k, i) /\ v < MaxRowVersion
       /\ UNCHANGED bulkFaults
       /\ \/ /\ Seen(k, i) = v /\ v # NoVersion
             /\ work' = [work EXCEPT ![k].todo = Tail(@),
                                     ![k].mine[i] = IF work[k].op = "save" THEN v + 1 ELSE NoVersion]
             /\ EvictRows({i})
             /\ UNCHANGED <<table, drawn, out, bulkCalls>> /\ KeepHistory
          \/ Seen(k, i) # v /\ Rollback(k) /\ KeepCaches

\* INSERT ... ON CONFLICT DO UPDATE of them all: the version is one more than the
\* entity's, whatever the row has.  Both caches are cleared before the COMMIT.
UpsertStatement(k) ==
    LET items == ToSet(work[k].todo)
    IN /\ work[k].op = "upsert" /\ items # {}
       /\ \A x \in items : ~LockedFor(k, x.id) /\ x.version < MaxRowVersion
       /\ work' = [work EXCEPT ![k].todo = <<>>,
                               ![k].mine = [i \in RowIds |->
                                   IF \E x \in items : x.id = i
                                   THEN (CHOOSE x \in items : x.id = i).version + 1 ELSE @[i]]]
       /\ EvictRows(RowIds)
       /\ UNCHANGED <<table, drawn, out, bulkCalls, bulkFaults>> /\ KeepHistory

CommitAll(k) ==
    LET changed == {i \in RowIds : work[k].mine[i] # Unchanged}
    IN /\ work[k].op \in {"save", "upsert", "delete"} /\ work[k].news = 0 /\ work[k].todo = <<>>
       /\ table' = [i \in RowIds |-> Seen(k, i)]
       /\ updates' = [i \in RowIds |-> IF i \in changed \cap Stored /\ work[k].op = "save"
                                       THEN updates[i] + 1 ELSE updates[i]]
       /\ upserted' = IF work[k].op = "upsert" THEN upserted \cup changed ELSE upserted
       /\ Ends(k)
       /\ UNCHANGED <<drawn, leaked, bulkCalls, bulkFaults>> /\ KeepCaches

\* A statement fails; or PostgreSQL ends one of two that wait for each other.
WaitsFor(k, j) ==
    /\ work[k].todo # <<>> /\ work[k].op \in {"save", "delete", "upsert"}
    /\ work[j].mine[Head(work[k].todo).id] # Unchanged
FailAll(k) ==
    /\ work[k].op \in {"save", "upsert", "delete"}
    /\ \/ bulkFaults < MaxBulkFaults /\ bulkFaults' = bulkFaults + 1
       \/ (\E j \in BulkCallers \ {k} : WaitsFor(k, j) /\ WaitsFor(j, k)) /\ UNCHANGED bulkFaults
    /\ Rollback(k) /\ KeepCaches

\* findById and count answer from their cache at once; else they have a connection, and
\* put what they read after the awaits of the statement and the callbacks.
FindOne(k, i) ==
    /\ cachedRow[i] = NoVersion /\ table[i] # NoVersion
    /\ BulkCalled(k, [NoWork EXCEPT !.op = "find", !.todo = <<[id |-> i, version |-> 0]>>, !.got = table[i]])
    /\ UNCHANGED <<table, drawn, bulkFaults>> /\ KeepCaches /\ KeepHistory

CountAll(k) ==
    /\ counted = NotCounted
    /\ BulkCalled(k, [NoWork EXCEPT !.op = "count", !.got = RowsThere])
    /\ UNCHANGED <<table, drawn, bulkFaults>> /\ KeepCaches /\ KeepHistory

InTransaction(i) == \E j \in BulkCallers : work[j].mine[i] # Unchanged
Cache(k) ==
    /\ IF work[k].op = "find"
       THEN LET i == work[k].todo[1].id
            IN /\ cachedRow' = [cachedRow EXCEPT ![i] = work[k].got]
               /\ raced' = IF table[i] # work[k].got \/ InTransaction(i) THEN raced \cup {i} ELSE raced \ {i}
               /\ UNCHANGED counted
       ELSE /\ counted' = work[k].got
            /\ raced' = IF RowsThere # work[k].got \/ \E i \in RowIds : InTransaction(i)
                        THEN raced \cup {TheCount} ELSE raced \ {TheCount}
            /\ UNCHANGED cachedRow
    /\ Ends(k)
    /\ UNCHANGED <<table, drawn, bulkCalls, bulkFaults>> /\ KeepHistory
Answered(k) == work[k].op \in {"find", "count"} /\ Cache(k)

\* findAllStream: the first next() gets the connection and the result.
OpenStream(k) ==
    /\ BulkCalled(k, [NoWork EXCEPT !.op = "stream", !.got = RowsThere])
    /\ UNCHANGED <<table, drawn, bulkFaults>> /\ KeepCaches /\ KeepHistory

NextOfStream(k) ==
    /\ work[k].op = "stream" /\ work[k].got > 0
    /\ work' = [work EXCEPT ![k].got = @ - 1]
    /\ UNCHANGED <<table, drawn, out, bulkCalls, bulkFaults>> /\ KeepCaches /\ KeepHistory

\* The result stays open (for a mutant).
CloseStreamOnly(k) ==
    /\ work[k].op = "stream"
    /\ work' = [work EXCEPT ![k] = NoWork]
    /\ UNCHANGED <<table, drawn, out, bulkCalls, bulkFaults>> /\ KeepCaches /\ KeepHistory

\* The last next(), return() or throw(): cleanup.
CloseStream(k) ==
    /\ work[k].op = "stream"
    /\ Ends(k)
    /\ UNCHANGED <<table, drawn, bulkCalls, bulkFaults>> /\ KeepCaches /\ KeepHistory

\* A next() throws, for which for-await does not call return(); or nobody calls it again.
AbandonStream(k) ==
    /\ work[k].op = "stream" /\ bulkFaults < MaxBulkFaults
    /\ bulkFaults' = bulkFaults + 1
    /\ work' = [work EXCEPT ![k] = NoWork]
    /\ leaked' = leaked + 1
    /\ UNCHANGED <<table, drawn, out, updates, upserted, bulkCalls>> /\ KeepCaches

BulkNext ==
    \E k \in BulkCallers :
        \/ BulkInsert(k) \/ WriteNext(k) \/ UpsertStatement(k) \/ CommitAll(k) \/ FailAll(k)
        \/ CountAll(k) \/ Answered(k) \/ OpenStream(k) \/ NextOfStream(k) \/ CloseStream(k)
        \/ AbandonStream(k)
        \/ \E i \in Stored : FindOne(k, i)
        \/ \E op \in {"save", "upsert", "delete"}, ids \in SetToSeqs(Stored) \cup {<<>>}, stale \in BOOLEAN :
               \E news \in (IF op = "save" THEN {0, 1} ELSE {0}) :
                   WriteAll(k, op, [n \in DOMAIN ids |->
                                [id |-> ids[n], version |-> IF stale THEN 1 ELSE table[ids[n]]]], news)

-----------------------------------------------------------------------------
(* Properties *)

BulkTypeOK ==
    /\ table \in [RowIds -> 0..MaxRowVersion] /\ drawn \in 0..MaxInserted
    /\ \A k \in BulkCallers : work[k].mine \in [RowIds -> -1..MaxRowVersion]

\* Of saves that saw the same version one succeeds, lists in transactions or not, unless
\* upsertAll has written the row.
NoSaveLost ==
    \A i \in Stored \ upserted : table[i] \in {NoVersion, 1 + updates[i]}

\* Two transactions never have written the same row.
RowsApart ==
    \A k, j \in BulkCallers : \A i \in RowIds :
        k # j => Unchanged \in {work[k].mine[i], work[j].mine[i]}

\* The caches say what is committed, but for what was read or put beside a transaction
\* that had evicted it and was not yet committed.
BulkCachesCoherent ==
    /\ \A i \in RowIds \ raced : cachedRow[i] \in {NoVersion, table[i]}
    /\ counted = NotCounted \/ counted = RowsThere \/ TheCount \in raced

\* Every connection is with a call, or was lost with a stream.
NoConnectionLost == out = Cardinality({k \in BulkCallers : work[k].op # "none"}) + leaked

\* Bulk writes lose no save, keep out of each other's rows, leave the caches as the table
\* is, and give their connection back.
BulkHolds == BulkTypeOK /\ NoSaveLost /\ RowsApart /\ BulkCachesCoherent /\ NoConnectionLost
=============================================================================
