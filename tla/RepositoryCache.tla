-------------------------- MODULE RepositoryCache --------------------------
(***************************************************************************)
(* One repository of packages/data over one versioned table: callers       *)
(* (Sessions) run findById, findAll, save, delete, deleteById and refresh  *)
(* concurrently and share the repository's entity cache (identity map,     *)
(* one instance per id), its query cache and its change tracker.           *)
(*                                                                         *)
(* A handler is cut at its awaits: the statement, the lifecycle callbacks, *)
(* the commit.  A row's data is the set of edits made to it: a save that   *)
(* overwrites an edit it has not seen makes the set lose an element.       *)
(*                                                                         *)
(* In-memory entities are the numbers in Objects.  An object nobody        *)
(* references is Unused, which is what the garbage collector makes of it.  *)
(***************************************************************************)
EXTENDS Integers, FiniteSets

CONSTANTS Sessions,       \* concurrent callers of the repository
          Outside,        \* another process that writes the table
          Ids,            \* primary keys the table's sequence can draw
          ObjectBound,    \* bound: entity instances alive at once
          MaxVersion,     \* bound: the version of a row
          Settings        \* the settings under which the repository is used

ASSUME RepositoryAssumption ==
    /\ Outside \notin Sessions
    /\ Ids \subseteq Nat \ {0}
    /\ ObjectBound \in Nat /\ MaxVersion \in Nat
    /\ Settings \subseteq [maxCalls : Nat, cascades : BOOLEAN, external : BOOLEAN,
                           throws : BOOLEAN, expiry : BOOLEAN, lists : BOOLEAN]

Writers == Sessions \cup {Outside}
Objects == 1..ObjectBound
NoObject == 0
NoId == 0

VARIABLES setting,     \* one of Settings, the same in all of a behaviour
          db,          \* db[i]: the committed row with primary key i
          obj,         \* obj[o]: the entity instance o
          entityCache, \* entityCache[i]: the cached instance, or NoObject
          queryCache,  \* the cached result of findAll()
          pc,          \* the await session s is at
          arg,         \* the entity s passed to save, delete or refresh
          wanted,      \* the id s passed to findById or deleteById
          fetched,     \* instances the call of s has built from rows
          todo,        \* of fetched, those still to go through postLoadEntity
          held,        \* the entity the caller s holds
          sent,        \* parameters of the UPDATE or DELETE s has sent
          pending      \* row written by the open transaction of s

vars == <<setting, db, obj, entityCache, queryCache, pc, arg, wanted, fetched, todo,
          held, sent, pending>>

\* setting.maxCalls is a bound: callers act while fewer calls are in progress,
\* with 1 one call at a time; cascades: the entity has cascades, so save opens
\* a transaction; external: Outside writes; throws: the PostPersist, PostUpdate
\* and PostRemove callbacks may throw; expiry: cache entries may expire or be
\* pushed out; lists: callers call findAll too.
Undisturbed == setting.maxCalls = 1 /\ ~setting.external /\ ~setting.throws

Row == [version : Nat, edits : SUBSET Writers]
Unborn == [version |-> 0, edits |-> {}]
Gone == [version |-> -1, edits |-> {}]

\* tracked: the change tracker has a snapshot; refused: a history flag, the last
\* save of this instance threw OptimisticLockException (kept where another
\* process writes).
Entity == [id : Ids \cup {NoId}, version : Nat, edits : SUBSET Writers,
           tracked : BOOLEAN, snapshot : SUBSET Writers, refused : BOOLEAN]
Unused == [id |-> NoId, version |-> 0, edits |-> {}, tracked |-> FALSE,
           snapshot |-> {}, refused |-> FALSE]

NothingSent == [id |-> NoId, version |-> 0, edits |-> {}]
NotPending == [id |-> NoId, row |-> Unborn]

Live(i) == db[i].version > 0

\* PostgreSQL's row lock: a write of row i waits for the transaction that
\* wrote it.
Locked(i) == \E t \in Sessions : pending[t].id = i

\* The awaits of a call.
Steps == {"idle", "find", "findLoaded", "findAll", "findAllLoaded", "update", "saved", "commit",
          "delete", "deleted", "removed", "refresh", "refreshLoaded", "refreshCopied"}

\* What the program still references.
Referenced ==
    (UNION {fetched[s] : s \in Sessions}) \cup {held[s] : s \in Sessions}
        \cup {arg[s] : s \in Sessions} \cup {entityCache[i] : i \in Ids}
        \cup queryCache.results

\* The heap becomes h, without what is no longer referenced.
Heap(h) == /\ obj' = [o \in Objects |-> IF o \in Referenced' THEN h[o] ELSE Unused]
           /\ UNCHANGED setting

\* The n lowest free instances.
Allocate(n) == {o \in Objects \ Referenced :
                    Cardinality({p \in Objects \ Referenced : p < o}) < n}

\* rowMapper.mapRow: a new instance, without a snapshot.
Mapped(i, row) == [id |-> i, version |-> row.version, edits |-> row.edits,
                   tracked |-> FALSE, snapshot |-> {}, refused |-> FALSE]

\* changeTracker.snapshot
Snapshotted(e) == [e EXCEPT !.tracked = TRUE, !.snapshot = e.edits]

Dirty(e) == ~e.tracked \/ e.edits # e.snapshot

Evict(i) == entityCache' = [entityCache EXCEPT ![i] = NoObject]

NoResult == [cached |-> FALSE, results |-> {}]
InvalidateNothing == UNCHANGED queryCache

Invalidate == queryCache' = NoResult

Init == /\ setting \in Settings
        /\ db = [i \in Ids |-> Unborn]
        /\ obj = [o \in Objects |-> Unused]
        /\ entityCache = [i \in Ids |-> NoObject]
        /\ queryCache = NoResult
        /\ pc = [s \in Sessions |-> "idle"]
        /\ arg = [s \in Sessions |-> NoObject]
        /\ wanted = [s \in Sessions |-> NoId]
        /\ fetched = [s \in Sessions |-> {}]
        /\ todo = [s \in Sessions |-> {}]
        /\ held = [s \in Sessions |-> NoObject]
        /\ sent = [s \in Sessions |-> NothingSent]
        /\ pending = [s \in Sessions |-> NotPending]

\* Session s is about to make a call, or to touch its entity between calls.
Calls(s) == /\ pc[s] = "idle"
            /\ Cardinality({t \in Sessions : pc[t] # "idle"}) < setting.maxCalls

\* s returns to its caller, who then holds o.
Return(s, o) == /\ pc' = [pc EXCEPT ![s] = "idle"]
                /\ arg' = [arg EXCEPT ![s] = NoObject]
                /\ wanted' = [wanted EXCEPT ![s] = NoId]
                /\ fetched' = [fetched EXCEPT ![s] = {}]
                /\ todo' = [todo EXCEPT ![s] = {}]
                /\ sent' = [sent EXCEPT ![s] = NothingSent]
                /\ held' = [held EXCEPT ![s] = o]

-----------------------------------------------------------------------------
\* findById: a cached instance is returned as it is.
FindHit(s, i) == /\ Calls(s) /\ entityCache[i] # NoObject
                 /\ Return(s, entityCache[i])
                 /\ UNCHANGED <<db, entityCache, queryCache, pending>>
                 /\ Heap(obj)

FindMiss(s, i) == /\ Calls(s) /\ entityCache[i] = NoObject
                  /\ pc' = [pc EXCEPT ![s] = "find"]
                  /\ wanted' = [wanted EXCEPT ![s] = i]
                  /\ held' = [held EXCEPT ![s] = NoObject]
                  /\ UNCHANGED <<db, entityCache, queryCache, arg, fetched,
                                 todo, sent, pending>>
                  /\ Heap(obj)

FindRead(s) ==
    /\ pc[s] = "find"
    /\ UNCHANGED <<db, entityCache, queryCache, pending>>
    /\ \/ /\ Live(wanted[s])
          /\ \E o \in Allocate(1) :
                /\ fetched' = [fetched EXCEPT ![s] = {o}]
                /\ todo' = [todo EXCEPT ![s] = {o}]
                /\ pc' = [pc EXCEPT ![s] = "findLoaded"]
                /\ UNCHANGED <<arg, wanted, held, sent>>
                /\ Heap([obj EXCEPT ![o] = Mapped(wanted[s], db[wanted[s]])])
       \/ /\ ~Live(wanted[s])
          /\ Return(s, NoObject)
          /\ Heap(obj)

\* postLoadEntity(o): after the PostLoad callbacks, snapshot and put.
PostLoad(o) == /\ entityCache' = [entityCache EXCEPT ![obj[o].id] = o]
               /\ Heap([obj EXCEPT ![o] = Snapshotted(obj[o])])

FindPost(s) == /\ pc[s] = "findLoaded"
               /\ \E o \in todo[s] :
                     /\ UNCHANGED <<db, queryCache, pending>>
                     /\ Return(s, o)
                     /\ PostLoad(o)

\* The caller of findAll keeps one of the results.
OneOf(results) == IF results = {} THEN {NoObject} ELSE results

\* findAll with a cached result: every entity of it is put again.
RePut(cache, results) ==
    [i \in Ids |-> IF \E o \in results : obj[o].id = i
                   THEN CHOOSE o \in results : obj[o].id = i
                   ELSE cache[i]]

FindAllHit(s) ==
    /\ Calls(s) /\ setting.lists /\ queryCache.cached
    /\ entityCache' = RePut(entityCache, queryCache.results)
    /\ UNCHANGED <<db, queryCache, pending>>
    /\ \E o \in OneOf(queryCache.results) : Return(s, o)
    /\ Heap(obj)

FindAllMiss(s) == /\ Calls(s) /\ setting.lists /\ ~queryCache.cached
                  /\ pc' = [pc EXCEPT ![s] = "findAll"]
                  /\ held' = [held EXCEPT ![s] = NoObject]
                  /\ UNCHANGED <<db, entityCache, queryCache, arg, wanted,
                                 fetched, todo, sent, pending>>
                  /\ Heap(obj)

\* The row each new instance is mapped from: one instance per row, the lowest
\* free ones in the order of the ids.
RowsInOrder(built) ==
    {rowOf \in [built -> {i \in Ids : Live(i)}] :
        /\ \A o, p \in built : o < p => rowOf[o] < rowOf[p]
        /\ \A i \in Ids : Live(i) => \E o \in built : rowOf[o] = i}

FindAllRead(s) ==
    LET built == Allocate(Cardinality({i \in Ids : Live(i)}))
    IN /\ pc[s] = "findAll"
       /\ fetched' = [fetched EXCEPT ![s] = built]
       /\ todo' = [todo EXCEPT ![s] = built]
       /\ pc' = [pc EXCEPT ![s] = "findAllLoaded"]
       /\ UNCHANGED <<db, entityCache, queryCache, arg, wanted, held, sent, pending>>
       /\ \E rowOf \in RowsInOrder(built) :
             Heap([o \in Objects |-> IF o \in built THEN Mapped(rowOf[o], db[rowOf[o]])
                                     ELSE obj[o]])

FindAllPost(s) ==
    /\ pc[s] = "findAllLoaded"
    /\ \E o \in todo[s] :
          /\ \A p \in todo[s] : o <= p
          /\ todo' = [todo EXCEPT ![s] = @ \ {o}]
          /\ UNCHANGED <<db, queryCache, pc, arg, wanted, fetched, held, sent, pending>>
          /\ PostLoad(o)

FindAllPut(s) ==
    /\ pc[s] = "findAllLoaded" /\ todo[s] = {}
    /\ queryCache' = [cached |-> TRUE, results |-> fetched[s]]
    /\ UNCHANGED <<db, entityCache, pending>>
    /\ \E o \in OneOf(fetched[s]) : Return(s, o)
    /\ Heap(obj)

\* The TTL of the query cache, the size limit of the entity cache.
Expire == /\ setting.expiry
          /\ \/ /\ queryCache.cached
                /\ Invalidate
                /\ UNCHANGED entityCache
             \/ \E i \in Ids : /\ entityCache[i] # NoObject
                               /\ Evict(i)
                               /\ UNCHANGED queryCache
          /\ UNCHANGED <<db, pc, arg, wanted, fetched, todo, held, sent, pending>>
          /\ Heap(obj)

-----------------------------------------------------------------------------
\* The caller assigns to a field of the entity it holds.
Edit(s) == /\ Calls(s) /\ held[s] # NoObject
           /\ s \notin obj[held[s]].edits
           /\ obj' = [obj EXCEPT ![held[s]].edits = @ \cup {s}]
           /\ UNCHANGED <<setting, db, entityCache, queryCache, pc, arg, wanted,
                          fetched, todo, held, sent, pending>>

\* s is in the step after passing its entity to save, delete or refresh.
Pass(s, step) == /\ Calls(s) /\ held[s] # NoObject
                 /\ pc' = [pc EXCEPT ![s] = step]
                 /\ arg' = [arg EXCEPT ![s] = held[s]]
                 /\ UNCHANGED <<db, wanted, fetched, todo, held, pending>>

\* The parameters are taken from the entity when the statement is sent.
Send(s) == /\ sent' = [sent EXCEPT ![s] = [id |-> obj[held[s]].id,
                                           version |-> obj[held[s]].version,
                                           edits |-> obj[held[s]].edits]]
           /\ UNCHANGED <<setting, obj, entityCache, queryCache>>

\* save of an entity with an id, up to the UPDATE.  Without a dirty field save
\* returns its argument and changes nothing.
Save(s) == /\ Pass(s, "update")
           /\ Dirty(obj[held[s]]) /\ obj[held[s]].version < MaxVersion
           /\ Send(s)

MatchesIdOnly(e) == Live(e.id)

\* WHERE id = ? AND version = ?
Matches(e) == Live(e.id) /\ db[e.id].version = e.version

\* The statement writes row i; it is committed when it returns, unless save
\* opened a transaction.
Write(s, i, row) ==
    IF setting.cascades
    THEN /\ pending' = [pending EXCEPT ![s] = [id |-> i, row |-> row]]
         /\ UNCHANGED db
    ELSE /\ db' = [db EXCEPT ![i] = row]
         /\ UNCHANGED pending

\* s has run its INSERT or UPDATE ... RETURNING * of row i and is in the
\* callbacks that follow, with the new instance saved.
Written(s, i, row) ==
    \E saved \in Allocate(1) :
        /\ Write(s, i, row)
        /\ fetched' = [fetched EXCEPT ![s] = {saved}]
        /\ pc' = [pc EXCEPT ![s] = "saved"]
        /\ UNCHANGED <<entityCache, queryCache, wanted, todo, held, sent>>
        /\ Heap([obj EXCEPT ![saved] = Mapped(i, row)])

Update(s) ==
    /\ pc[s] = "update" /\ ~Locked(sent[s].id)
    /\ Matches(sent[s])
    /\ UNCHANGED arg
    /\ Written(s, sent[s].id,
               [version |-> sent[s].version + 1, edits |-> sent[s].edits])

\* OptimisticLockException: only the entity cache is told.
UpdateRefused(s) ==
    /\ pc[s] = "update" /\ ~Locked(sent[s].id) /\ ~Matches(sent[s])
    /\ Evict(sent[s].id)
    /\ UNCHANGED <<db, queryCache, pending>>
    /\ Return(s, held[s])
    /\ Heap([obj EXCEPT ![arg[s]].refused = setting.external])

\* save of an entity without an id; the sequence never draws an id twice.
Insert(s) ==
    /\ Calls(s)
    /\ \E i \in Ids :
          /\ db[i] = Unborn /\ ~Locked(i)
          /\ \A j \in Ids : (db[j] = Unborn /\ ~Locked(j)) => i <= j
          /\ UNCHANGED arg
          /\ Written(s, i, [version |-> 1, edits |-> {}])

\* After the PostPersist or PostUpdate callbacks.
SavePost(s) ==
    /\ pc[s] = "saved"
    /\ \E saved \in fetched[s] :
          /\ Evict(obj[saved].id)
          /\ Invalidate
          /\ UNCHANGED <<db, pending>>
          /\ IF setting.cascades
             THEN /\ pc' = [pc EXCEPT ![s] = "commit"]
                  /\ UNCHANGED <<arg, wanted, fetched, todo, held, sent>>
             ELSE \E o \in {saved, held[s]} : Return(s, o)
          /\ Heap([obj EXCEPT ![saved] = Snapshotted(obj[saved])])

Commit(s) == /\ pc[s] = "commit"
             /\ db' = [db EXCEPT ![pending[s].id] = pending[s].row]
             /\ pending' = [pending EXCEPT ![s] = NotPending]
             /\ UNCHANGED <<entityCache, queryCache>>
             /\ \E o \in fetched[s] \cup {held[s]} : Return(s, o)
             /\ Heap(obj)

\* A row that was inserted and rolled back has used up its id.
RollBack(s) ==
    /\ pending' = [pending EXCEPT ![s] = NotPending]
    /\ db' = [i \in Ids |-> IF pending[s].id = i /\ db[i] = Unborn THEN Gone ELSE db[i]]
    /\ UNCHANGED <<entityCache, queryCache>>
    /\ Return(s, held[s])
    /\ Heap(obj)

\* The commit fails, or the event handlers or the audit entry before it do.
SaveFails(s) == pc[s] = "commit" /\ RollBack(s)

\* A callback after the statement throws: the lines that tell the caches are
\* not reached.
SaveThrows(s) == setting.throws /\ pc[s] = "saved" /\ RollBack(s)

-----------------------------------------------------------------------------
Delete(s) == Pass(s, "delete") /\ Send(s)

\* DELETE ... WHERE id = ? AND version = ?, committed when it returns.
DeleteRow(s) ==
    /\ pc[s] = "delete" /\ ~Locked(sent[s].id)
    /\ \/ /\ Matches(sent[s])
          /\ db' = [db EXCEPT ![sent[s].id] = Gone]
          /\ pc' = [pc EXCEPT ![s] = "deleted"]
          /\ UNCHANGED <<setting, obj, entityCache, queryCache, arg, wanted, fetched, todo,
                         held, sent, pending>>
       \/ \* OptimisticLockException: no cache is told.
          /\ ~Matches(sent[s])
          /\ UNCHANGED <<db, entityCache, queryCache, pending>>
          /\ Return(s, held[s])
          /\ Heap(obj)

\* After the PostRemove callbacks, the events and the audit entry.
DeletePost(s) ==
    /\ pc[s] = "deleted"
    /\ Evict(obj[arg[s]].id)
    /\ Invalidate
    /\ UNCHANGED <<db, pending>>
    /\ Return(s, held[s])
    /\ Heap([obj EXCEPT ![arg[s]].tracked = FALSE, ![arg[s]].snapshot = {}])

DeleteThrows(s) == /\ setting.throws /\ pc[s] = "deleted"
                   /\ UNCHANGED <<db, entityCache, queryCache, pending>>
                   /\ Return(s, held[s])
                   /\ Heap(obj)

DeleteById(s, i) ==
    /\ Calls(s) /\ ~Locked(i) /\ db[i] # Unborn
    /\ db' = [db EXCEPT ![i] = Gone]
    /\ wanted' = [wanted EXCEPT ![s] = i]
    /\ pc' = [pc EXCEPT ![s] = "removed"]
    /\ UNCHANGED <<setting, obj, entityCache, queryCache, arg, fetched, todo, held, sent, pending>>

DeleteByIdPost(s) == /\ pc[s] = "removed"
                     /\ Evict(wanted[s])
                     /\ Invalidate
                     /\ UNCHANGED <<db, pending>>
                     /\ Return(s, held[s])
                     /\ Heap(obj)

-----------------------------------------------------------------------------
\* refresh: the caches and the snapshot go before the SELECT is sent.
RefreshCall(s) == /\ Pass(s, "refresh")
                  /\ Evict(obj[held[s]].id)
                  /\ Invalidate
                  /\ UNCHANGED sent
                  /\ Heap([obj EXCEPT ![held[s]].tracked = FALSE,
                                      ![held[s]].snapshot = {}])

RefreshRead(s) ==
    LET i == obj[arg[s]].id
    IN /\ pc[s] = "refresh"
       /\ UNCHANGED <<db, entityCache, queryCache, pending>>
       /\ \/ /\ Live(i)
             /\ \E o \in Allocate(1) :
                   /\ fetched' = [fetched EXCEPT ![s] = {o}]
                   /\ pc' = [pc EXCEPT ![s] = "refreshLoaded"]
                   /\ UNCHANGED <<arg, wanted, todo, held, sent>>
                   /\ Heap([obj EXCEPT ![o] = Mapped(i, db[i])])
          \/ \* EntityNotFoundException
             /\ ~Live(i)
             /\ Return(s, held[s])
             /\ Heap(obj)

RefreshCopyVersionOnly(s) ==
    /\ pc[s] = "refreshLoaded"
    /\ \E o \in fetched[s] :
          /\ fetched' = [fetched EXCEPT ![s] = {}]
          /\ pc' = [pc EXCEPT ![s] = "refreshCopied"]
          /\ UNCHANGED <<db, entityCache, queryCache, arg, wanted, todo, held, sent, pending>>
          /\ Heap([obj EXCEPT ![arg[s]].version = obj[o].version])

\* The relations are loaded; the fields of the fresh entity are copied.
RefreshCopy(s) ==
    /\ pc[s] = "refreshLoaded"
    /\ \E o \in fetched[s] :
          /\ fetched' = [fetched EXCEPT ![s] = {}]
          /\ pc' = [pc EXCEPT ![s] = "refreshCopied"]
          /\ UNCHANGED <<db, entityCache, queryCache, arg, wanted, todo, held, sent, pending>>
          /\ Heap([obj EXCEPT ![arg[s]].version = obj[o].version,
                              ![arg[s]].edits = obj[o].edits,
                              ![arg[s]].refused = FALSE])

\* After the PostLoad callbacks.
RefreshPost(s) == /\ pc[s] = "refreshCopied"
                  /\ entityCache' = [entityCache EXCEPT ![obj[arg[s]].id] = arg[s]]
                  /\ UNCHANGED <<db, queryCache, pending>>
                  /\ Return(s, arg[s])
                  /\ Heap([obj EXCEPT ![arg[s]] = Snapshotted(obj[arg[s]])])

\* Another process updates or deletes a row.
ExternalWrite(i) ==
    /\ setting.external /\ Live(i) /\ ~Locked(i)
    /\ \/ /\ db[i].version < MaxVersion
          /\ db' = [db EXCEPT ![i] = [version |-> @.version + 1,
                                      edits |-> @.edits \cup {Outside}]]
       \/ db' = [db EXCEPT ![i] = Gone]
    /\ UNCHANGED <<setting, obj, entityCache, queryCache, pc, arg, wanted, fetched, todo,
                   held, sent, pending>>

Next ==
    \/ Expire
    \/ \E i \in Ids : ExternalWrite(i)
    \/ \E s \in Sessions :
          \/ \E i \in Ids : FindHit(s, i) \/ FindMiss(s, i) \/ DeleteById(s, i)
          \/ FindRead(s) \/ FindPost(s)
          \/ FindAllHit(s) \/ FindAllMiss(s) \/ FindAllRead(s) \/ FindAllPost(s)
          \/ FindAllPut(s)
          \/ Edit(s) \/ Save(s) \/ Update(s) \/ UpdateRefused(s)
          \/ Insert(s) \/ SavePost(s) \/ Commit(s) \/ SaveFails(s) \/ SaveThrows(s)
          \/ Delete(s) \/ DeleteRow(s) \/ DeletePost(s) \/ DeleteThrows(s)
          \/ DeleteByIdPost(s)
          \/ RefreshCall(s) \/ RefreshRead(s) \/ RefreshCopy(s) \/ RefreshPost(s)

Spec == Init /\ [][Next]_vars

-----------------------------------------------------------------------------
(* Properties *)

\* Every variable keeps its type, an instance is cached under its own id, and
\* a transaction is open exactly while the save that opened it runs.
TypeOK ==
    /\ setting \in Settings
    /\ db \in [Ids -> Row \cup {Gone}]
    /\ obj \in [Objects -> Entity]
    /\ entityCache \in [Ids -> Objects \cup {NoObject}]
    /\ \A i \in Ids : entityCache[i] # NoObject => obj[entityCache[i]].id = i
    /\ queryCache \in [cached : BOOLEAN, results : SUBSET Objects]
    /\ pc \in [Sessions -> Steps]
    /\ arg \in [Sessions -> Objects \cup {NoObject}]
    /\ held \in [Sessions -> Objects \cup {NoObject}]
    /\ wanted \in [Sessions -> Ids \cup {NoId}]
    /\ fetched \in [Sessions -> SUBSET Objects]
    /\ sent \in [Sessions -> [id : Ids \cup {NoId}, version : Nat,
                              edits : SUBSET Writers]]
    /\ todo \in [Sessions -> SUBSET Objects]
    /\ pending \in [Sessions -> [id : Ids \cup {NoId}, row : Row]]
    /\ \A s \in Sessions :
          IF setting.cascades /\ pc[s] \in {"saved", "commit"}
          THEN pending[s].id \in Ids
          ELSE pending[s] = NotPending

\* @Version: no step makes a row lose an edit, whoever made it.  performUpdate
\* writes the entity as it is in memory, possibly a shared cached instance,
\* and only the version in the WHERE clause protects the edits it never saw.
NoLostUpdate ==
    [][\A i \in Ids : Live(i) /\ Live(i)' => db[i].edits \subseteq db'[i].edits]_vars

AllIdle == \A s \in Sessions : pc[s] = "idle"

Agrees(o) == /\ Live(obj[o].id) /\ obj[o].version = db[obj[o].id].version
             /\ obj[o].tracked /\ obj[o].snapshot = db[obj[o].id].edits

\* Between two calls the caches hold the committed rows: every cached instance
\* was loaded from the row as it is now (it may carry edits not yet saved), and
\* a cached findAll has every row.  For calls one at a time, without other
\* writers or throwing callbacks.
CachesCoherent ==
    Undisturbed /\ AllIdle =>
        /\ \A i \in Ids : entityCache[i] # NoObject => Agrees(entityCache[i])
        /\ \A o \in queryCache.results : Agrees(o)
        /\ queryCache.cached =>
               {i \in Ids : Live(i)} = {obj[o].id : o \in queryCache.results}

\* The caches are in place, and say what the table says.
CoherentCaches == TypeOK /\ CachesCoherent

\* Dirty checking: an instance of the current version that the change tracker
\* calls clean has the row's data, so the save that skips the UPDATE loses
\* nothing.  For calls one at a time: see the README for the concurrent case.
CleanMeansStored ==
    setting.maxCalls = 1 =>
    \A o \in Objects :
        LET e == obj[o]
        IN e.id # NoId /\ ~Dirty(e) /\ Matches(e) => e.edits = db[e.id].edits

\* After a save was refused for a stale version the entity cache does not hand
\* out the refused instance again (performUpdate evicts it for that purpose).
NoGhostAfterRefusal ==
    \A i \in Ids : entityCache[i] # NoObject => ~obj[entityCache[i]].refused

=============================================================================
