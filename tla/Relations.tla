----------------------------- MODULE Relations -----------------------------
(***************************************************************************)
(* Loading the relations of entities beside writers: in chunks of IN       *)
(* queries for collections, by the key and then its row for a single       *)
(* entity, in one joined row for fetch "JOIN", and through a lazy proxy    *)
(* that many readers await.  key[c] is the foreign key of c: the parent    *)
(* whose collection c is in, and the entity that c.parent loads.  Loads by *)
(* id are batched the same way, by the query batcher, at the end.          *)
(***************************************************************************)
EXTENDS Naturals, Sequences, FiniteSets, SequencesExt

CONSTANTS Parents, Children, Nil,
          RelationLoads,   \* records [kind, of, lazy]
          Readers,
          RelationBatch,   \* batchSize of the relation
          MaxMoves, MaxLoadFaults

ASSUME RelationsAssumption ==
    /\ Nil \notin Parents \cup Children /\ Parents # {}
    /\ RelationBatch \in Nat \ {0} /\ MaxMoves \in Nat /\ MaxLoadFaults \in Nat
    /\ \A x \in RelationLoads :
          /\ x.kind \in {"collection", "single", "join"} /\ x.lazy \in BOOLEAN
          /\ IF x.kind = "collection" THEN x.of \in Seq(Parents) ELSE x.of \in Children

VARIABLES what,          \* the relation, one of RelationLoads
          key, alive,    \* the rows
          load,          \* what its load has done
          reader,        \* "no", "awaits", or what the reader got
          moves, loadFaults,
          everTrue, alwaysTrue  \* history: pairs true at some moment, at every moment of the load

relationVars == <<what, key, alive, load, reader, moves, loadFaults, everTrue, alwaysTrue>>

Owned(k) == {<<k[c], c>> : c \in Children}

RelationsStart(x) ==
    /\ what = x
    /\ key = [c \in Children |-> CHOOSE p \in Parents : TRUE]
    /\ alive = Parents
    /\ load = [phase |-> "new", left |-> x.of, fk |-> Nil, got |-> {}]
    /\ reader = [r \in Readers |-> [state |-> "no", got |-> {}]]
    /\ moves = 0 /\ loadFaults = 0
    /\ everTrue = {} /\ alwaysTrue = {}

RelationsInit == \E x \in RelationLoads : RelationsStart(x)

Begin ==
    /\ load' = [load EXCEPT !.phase = "reading"]
    /\ everTrue' = Owned(key) /\ alwaysTrue' = Owned(key)

\* findAll, findById: the load is part of the call.
LoadEagerly ==
    /\ ~what.lazy /\ load.phase = "new"
    /\ Begin
    /\ UNCHANGED <<what, key, alive, reader, moves, loadFaults>>

\* `await proxy`: the first reader starts the load, the others get its promise; a
\* promise that was rejected stays.
Await(r) ==
    /\ what.lazy /\ reader[r].state = "no"
    /\ IF load.phase = "new" THEN Begin ELSE UNCHANGED <<load, everTrue, alwaysTrue>>
    /\ reader' = [reader EXCEPT ![r].state = "awaits"]
    /\ UNCHANGED <<what, key, alive, moves, loadFaults>>

Reading(kind) == load.phase = "reading" /\ what.kind = kind

Shorter(m, n) == IF m <= n THEN m ELSE n

Batch == SubSeq(load.left, 1, Shorter(RelationBatch, Len(load.left)))

\* As if a parent fell between two chunks.
AfterBatchAndOne == SubSeq(load.left, Len(Batch) + 2, Len(load.left))

AfterBatch == SubSeq(load.left, Len(Batch) + 1, Len(load.left))

\* batchLoadOneToMany: one SELECT for the next chunk of parents; a row goes to the
\* parent its key names.
ReadCollection ==
    /\ Reading("collection") /\ load.left # <<>>
    /\ load' = [load EXCEPT !.left = AfterBatch,
                            !.got = @ \cup {o \in Owned(key) : o[1] \in ToSet(Batch)},
                            !.phase = IF AfterBatch = <<>> THEN "done" ELSE @]
    /\ UNCHANGED <<what, key, alive, reader, moves, loadFaults, everTrue, alwaysTrue>>

\* loadOneToOneRelations, attachLazyProxies: the key first ...
ReadKey ==
    /\ Reading("single") /\ load.fk = Nil
    /\ load' = IF key[what.of] = Nil THEN [load EXCEPT !.phase = "done"]
               ELSE [load EXCEPT !.fk = key[what.of]]
    /\ UNCHANGED <<what, key, alive, reader, moves, loadFaults, everTrue, alwaysTrue>>

\* ... and then its row, which may be gone.
ReadTarget ==
    /\ Reading("single") /\ load.fk # Nil
    /\ load' = [load EXCEPT !.phase = "done",
                            !.got = IF load.fk \in alive THEN {<<load.fk, what.of>>} ELSE {}]
    /\ UNCHANGED <<what, key, alive, reader, moves, loadFaults, everTrue, alwaysTrue>>

\* addJoins, extractRelatedRow: the row and what it refers to at once.
ReadJoined ==
    /\ Reading("join")
    /\ load' = [load EXCEPT !.phase = "done",
                            !.got = IF key[what.of] = Nil THEN {} ELSE {<<key[what.of], what.of>>}]
    /\ UNCHANGED <<what, key, alive, reader, moves, loadFaults, everTrue, alwaysTrue>>

LoadFails ==
    /\ load.phase = "reading" /\ loadFaults < MaxLoadFaults
    /\ loadFaults' = loadFaults + 1
    /\ load' = [load EXCEPT !.phase = "failed"]
    /\ UNCHANGED <<what, key, alive, reader, moves, everTrue, alwaysTrue>>

Got == [state |-> load.phase, got |-> load.got]

\* The promise tells each of its readers.
Answer(r) ==
    /\ reader[r].state = "awaits" /\ load.phase \in {"done", "failed"}
    /\ reader' = [reader EXCEPT ![r] = Got]
    /\ UNCHANGED <<what, key, alive, load, moves, loadFaults, everTrue, alwaysTrue>>

Changed(k) ==
    /\ moves < MaxMoves /\ moves' = moves + 1
    /\ everTrue' = IF load.phase = "reading" THEN everTrue \cup Owned(k) ELSE everTrue
    /\ alwaysTrue' = IF load.phase = "reading" THEN alwaysTrue \cap Owned(k) ELSE alwaysTrue
    /\ UNCHANGED <<what, load, reader, loadFaults>>

\* Another session gives c to another parent, or to none ...
Move(c, p) ==
    /\ key[c] # p /\ p \in alive \cup {Nil}
    /\ key' = [key EXCEPT ![c] = p]
    /\ Changed(key')
    /\ UNCHANGED alive

\* ... or deletes a parent that nobody refers to.
RemoveParent(p) ==
    /\ p \in alive /\ \A c \in Children : key[c] # p
    /\ alive' = alive \ {p}
    /\ Changed(key)
    /\ UNCHANGED key

RelationWork == ReadCollection \/ ReadKey \/ ReadTarget \/ ReadJoined

RelationsNext ==
    \/ LoadEagerly \/ ReadCollection \/ ReadKey \/ ReadTarget \/ ReadJoined \/ LoadFails
    \/ \E r \in Readers : Await(r) \/ Answer(r)
    \/ \E c \in Children, p \in Parents \cup {Nil} : Move(c, p)
    \/ \E p \in Parents : RemoveParent(p)

-----------------------------------------------------------------------------
(* Properties *)

\* Every row of a loaded collection belonged to the parent it was given to at some
\* moment of the load, and no row that belonged to one throughout is missing from
\* it, whatever the chunks (batchLoadOneToMany).
CollectionIsTrue ==
    what.kind = "collection" /\ load.phase = "done" =>
        /\ load.got \subseteq everTrue
        /\ {o \in alwaysTrue : o[1] \in ToSet(what.of)} \subseteq load.got

\* A single relation loads what it was at some moment of the load; two reads may
\* find nothing where the row was replaced and deleted in between, a join never.
SingleIsTrue ==
    what.kind # "collection" /\ load.phase = "done" =>
        \/ load.got # {} /\ load.got \subseteq everTrue
        \/ load.got = {} /\ <<Nil, what.of>> \in everTrue
        \/ load.got = {} /\ what.kind = "single" /\ load.fk \in Parents \ alive

\* All readers of a lazy proxy get the same answer, value or rejection.
ReadersAgree ==
    \A r, q \in Readers :
        {reader[r].state, reader[q].state} \cap {"no", "awaits"} = {} => reader[r] = reader[q]

\* What a relation loads was true (batchLoadOneToMany, loadOneToOneRelations,
\* extractRelatedRow), and is one answer for everyone (ensureInitialized).
RelationsAreTrue == CollectionIsTrue /\ SingleIsTrue /\ ReadersAgree

\* Whoever awaits a proxy is answered, also after the load, or its failure.
ReadersAnswered == \A r \in Readers : reader[r].state = "awaits" ~> reader[r].state # "awaits"

-----------------------------------------------------------------------------
(* Loads by id collected into IN queries, the QueryBatcher, beside writers *)
(* of the rows.  A load waits in `pending`; a microtask takes all that     *)
(* wait and reads them in chunks, one after another, while later loads     *)
(* start a batch of their own.  A row is a number that every write raises. *)

CONSTANTS Loads,        \* calls of load()
          RowIds,
          MaxBatchSize,
          MaxRowWrites, MaxQueryFaults, MaxClears

ASSUME BatcherAssumption ==
    /\ MaxBatchSize \in Nat \ {0}
    /\ MaxRowWrites \in Nat /\ MaxQueryFaults \in Nat /\ MaxClears \in Nat

VARIABLES stock,     \* stock[i]: the row, 0 for none
          waiting,   \* `pending`
          scheduled,
          microtasks, \* executeBatch calls that have not begun
          batches,   \* what is left of each batch, and what its first chunk has read
          wanted,    \* wanted[l]: the id, or "none"
          outcome,   \* "new", "asked", "forgotten", "rejected", or the row
          seen,      \* history: the values of the row since l asked
          writes, queryFaults, clears

batcherVars == <<stock, waiting, scheduled, microtasks, batches, wanted, outcome, seen,
                 writes, queryFaults, clears>>

NotRead == <<>>
New == [state |-> "new", row |-> 0]

BatcherStart ==
    /\ stock = [i \in RowIds |-> 1]
    /\ waiting = <<>> /\ scheduled = FALSE /\ microtasks = 0 /\ batches = {}
    /\ wanted = [l \in Loads |-> CHOOSE i \in RowIds : TRUE]
    /\ outcome = [l \in Loads |-> New]
    /\ seen = [l \in Loads |-> {}]
    /\ writes = 0 /\ queryFaults = 0 /\ clears = 0

BatcherInit == BatcherStart

\* load: the first one that waits schedules the batch.
Load(l, i) ==
    /\ outcome[l] = New
    /\ waiting' = Append(waiting, l)
    /\ scheduled' = TRUE
    /\ microtasks' = IF scheduled THEN microtasks ELSE microtasks + 1
    /\ wanted' = [wanted EXCEPT ![l] = i]
    /\ outcome' = [outcome EXCEPT ![l].state = "asked"]
    /\ seen' = [seen EXCEPT ![l] = {stock[i]}]
    /\ UNCHANGED <<stock, batches, writes, queryFaults, clears>>

Taken == IF waiting = <<>> THEN {} ELSE {[left |-> waiting, rows |-> NotRead]}

\* executeBatch if it did not reset the flag.
ExecuteBatchOnce ==
    /\ microtasks > 0
    /\ microtasks' = microtasks - 1
    /\ waiting' = <<>>
    /\ batches' = batches \cup Taken
    /\ UNCHANGED <<stock, scheduled, wanted, outcome, seen, writes, queryFaults, clears>>

\* executeBatch, to its first await.
ExecuteBatch ==
    /\ microtasks > 0
    /\ microtasks' = microtasks - 1
    /\ waiting' = <<>> /\ scheduled' = FALSE
    /\ batches' = batches \cup Taken
    /\ UNCHANGED <<stock, wanted, outcome, seen, writes, queryFaults, clears>>

Least(a, b) == IF a <= b THEN a ELSE b
Chunk(b) == SubSeq(b.left, 1, Least(MaxBatchSize, Len(b.left)))
Rest(b) == SubSeq(b.left, Least(MaxBatchSize, Len(b.left)) + 1, Len(b.left))
ChunkIds(b) == {wanted[l] : l \in ToSet(Chunk(b))}

\* The SELECT of a chunk: the rows that are there, by id.
ReadChunk(b) ==
    /\ b.rows = NotRead
    /\ LET there == {i \in ChunkIds(b) : stock[i] > 0}
       IN batches' = (batches \ {b}) \cup {[b EXCEPT !.rows = <<[i \in there |-> stock[i]]>>]}
    /\ UNCHANGED <<stock, waiting, scheduled, microtasks, wanted, outcome, seen, writes, queryFaults, clears>>

After(b) == (batches \ {b}) \cup (IF Rest(b) = <<>> THEN {} ELSE {[left |-> Rest(b), rows |-> NotRead]})

Found(b, l) == LET rows == Head(b.rows)
               IN IF wanted[l] \in DOMAIN rows THEN rows[wanted[l]] ELSE 0

\* Every load of the chunk gets the row of its id, or null.
AnswerChunk(b) ==
    /\ b.rows # NotRead
    /\ outcome' = [l \in Loads |-> IF l \in ToSet(Chunk(b))
                                   THEN [state |-> "answered", row |-> Found(b, l)]
                                   ELSE outcome[l]]
    /\ batches' = After(b)
    /\ UNCHANGED <<stock, waiting, scheduled, microtasks, wanted, seen, writes, queryFaults, clears>>

\* getConnection or the query fails: the chunk is rejected, the next one is tried.
RejectChunk(b) ==
    /\ b.rows = NotRead /\ queryFaults < MaxQueryFaults
    /\ queryFaults' = queryFaults + 1
    /\ outcome' = [l \in Loads |-> IF l \in ToSet(Chunk(b))
                                   THEN [outcome[l] EXCEPT !.state = "rejected"]
                                   ELSE outcome[l]]
    /\ batches' = After(b)
    /\ UNCHANGED <<stock, waiting, scheduled, microtasks, wanted, seen, writes, clears>>

\* clear: what waits is forgotten, and its promises with it.
Clear ==
    /\ clears < MaxClears /\ clears' = clears + 1
    /\ waiting' = <<>> /\ scheduled' = FALSE
    /\ outcome' = [l \in Loads |-> IF l \in ToSet(waiting)
                                   THEN [outcome[l] EXCEPT !.state = "forgotten"]
                                   ELSE outcome[l]]
    /\ UNCHANGED <<stock, microtasks, batches, wanted, seen, writes, queryFaults>>

\* Another session inserts, updates or deletes.
WriteRow(i) ==
    /\ writes < MaxRowWrites /\ writes' = writes + 1
    /\ \E v \in {0, writes + 2} :
          /\ v # stock[i]
          /\ stock' = [stock EXCEPT ![i] = v]
          /\ seen' = [l \in Loads |-> IF wanted[l] = i /\ outcome[l].state = "asked"
                                      THEN seen[l] \cup {v} ELSE seen[l]]
    /\ UNCHANGED <<waiting, scheduled, microtasks, batches, wanted, outcome, queryFaults, clears>>

BatcherNext ==
    \/ \E l \in Loads, i \in RowIds : Load(l, i)
    \/ ExecuteBatch \/ Clear
    \/ \E b \in batches : ReadChunk(b) \/ AnswerChunk(b) \/ RejectChunk(b)
    \/ \E i \in RowIds : WriteRow(i)

BatcherWorks == ExecuteBatch \/ \E b \in batches : ReadChunk(b) \/ AnswerChunk(b)

\* A load answers what a query of its own could have: the row of its id, or its
\* absence, as it was at some moment since the load was made (executeChunk).
LoadsAnswerTheirRow ==
    \A l \in Loads : outcome[l].state = "answered" => outcome[l].row \in seen[l]

\* Every promise of load settles, unless clear dropped it while it waited.
LoadsSettle == \A l \in Loads : outcome[l].state = "asked" ~> outcome[l].state # "asked"
=============================================================================
