---------------------------- MODULE LinkedCaches ----------------------------
(***************************************************************************)
(* The caches of the repository as they are built: a Map to entries that   *)
(* are also nodes of a doubly linked list.  The code has the list four     *)
(* times: StatementCache (packages/jdbc), PreparedStatementPool,           *)
(* EntityCache and QueryCache (packages/data).  An entry is its key, since *)
(* no two entries of a list share one.                                     *)
(*                                                                         *)
(* The kind of cache is chosen once.  An owner is a connection for the     *)
(* pool, a class for the entity cache; the statement cache and the query   *)
(* cache have one list.                                                    *)
(***************************************************************************)
EXTENDS Integers, Sequences, FiniteSets, SequencesExt, FiniteSetsExt

CONSTANTS CacheKinds,    \* subset of {"statement", "pool", "entity", "query"}
          CacheOwners, CacheKeys, CacheValues,
          NoKey,         \* null
          Classes,       \* entity classes a query result may belong to
          Capacity,      \* maxSize
          MaxTotalSize,  \* maxTotalSize of the entity cache
          Lifetime       \* ttl of a query result

FirstOwner == CHOOSE o \in CacheOwners : TRUE
FirstClass == CHOOSE c \in Classes : TRUE

ASSUME CachesAssumption ==
    /\ NoKey \notin CacheKeys /\ IsFiniteSet(CacheKeys)
    /\ CacheOwners # {} /\ IsFiniteSet(CacheOwners) /\ Classes # {}
    /\ CacheKinds \subseteq {"statement", "pool", "entity", "query"}
    /\ Capacity \in Nat \ {0} /\ MaxTotalSize \in Nat /\ Lifetime \in Nat

VARIABLES kind, lists, stored, classOf, entityIndex,
          timeLeft, \* timeLeft[k]: ticks of the clock until k expires, -1 afterwards
          asked     \* the last call, for the promise only

cacheVars == <<kind, lists, stored, classOf, entityIndex, timeLeft, asked>>

Asked(op, owners, keys) == asked' = [op |-> op, owners |-> owners, keys |-> keys]

\* map, head, tail and the links of the entries.
EmptyList == [keys |-> {}, head |-> NoKey, tail |-> NoKey,
              prev |-> [k \in CacheKeys |-> NoKey], next |-> [k \in CacheKeys |-> NoKey]]

CachesStart(c) ==
    /\ kind = c
    /\ lists = [o \in CacheOwners |-> EmptyList]
    /\ stored = [o \in CacheOwners |-> [k \in CacheKeys |-> CHOOSE v \in CacheValues : TRUE]]
    /\ classOf = [k \in CacheKeys |-> FirstClass]
    /\ entityIndex = [c2 \in Classes |-> {}]
    /\ timeLeft = [k \in CacheKeys |-> 0]
    /\ asked = [op |-> "none", owners |-> {}, keys |-> {}]

CachesInit == \E c \in CacheKinds : CachesStart(c)

-----------------------------------------------------------------------------
(* The linked list *)

AddToHead(l, k) ==
    [l EXCEPT !.prev = IF l.head = NoKey THEN [@ EXCEPT ![k] = NoKey]
                       ELSE [@ EXCEPT ![k] = NoKey, ![l.head] = k],
              !.next[k] = l.head,
              !.head = k,
              !.tail = IF @ = NoKey THEN k ELSE @]

RemoveNode(l, k) ==
    [l EXCEPT !.head = IF l.prev[k] = NoKey THEN l.next[k] ELSE @,
              !.tail = IF l.next[k] = NoKey THEN l.prev[k] ELSE @,
              !.next = [j \in CacheKeys |-> IF j = k THEN NoKey
                                            ELSE IF j = l.prev[k] THEN l.next[k] ELSE @[j]],
              !.prev = [j \in CacheKeys |-> IF j = k THEN NoKey
                                            ELSE IF j = l.next[k] THEN l.prev[k] ELSE @[j]]]

\* Without removing the entry first.
PushToHead(l, k) == AddToHead(l, k)

\* A get that is no use: the caches would evict in the order of the puts.
LeaveInPlace(l, k) == l

MoveToHead(l, k) == IF l.head = k THEN l ELSE AddToHead(RemoveNode(l, k), k)

\* The tail leaves the list and the map.
EvictTail(l) == IF l.tail = NoKey THEN l
                ELSE [RemoveNode(l, l.tail) EXCEPT !.keys = @ \ {l.tail}]

DropEntry(l, k) == IF k \in l.keys THEN [RemoveNode(l, k) EXCEPT !.keys = @ \ {k}] ELSE l

\* An entry that exists is moved, a new one may push the tail out.
PutEntry(l, k) ==
    IF k \in l.keys THEN MoveToHead(l, k)
    ELSE LET new == AddToHead([l EXCEPT !.keys = @ \cup {k}], k)
         IN IF Cardinality(new.keys) > Capacity THEN EvictTail(new) ELSE new

-----------------------------------------------------------------------------
(* StatementCache and PreparedStatementPool: prepareStatement gets and, on *)
(* a miss, puts the statement it has created.                              *)

StatementGet(k) ==
    /\ kind = "statement" /\ k \in lists[FirstOwner].keys
    /\ Asked("get", {FirstOwner}, {k})
    /\ lists' = [lists EXCEPT ![FirstOwner] = MoveToHead(@, k)]
    /\ UNCHANGED <<kind, stored, classOf, entityIndex, timeLeft>>

StatementPut(k, v) ==
    /\ kind = "statement"
    /\ Asked("put", {FirstOwner}, {k})
    /\ lists' = [lists EXCEPT ![FirstOwner] = PutEntry(@, k)]
    /\ stored' = [stored EXCEPT ![FirstOwner][k] = v]
    /\ UNCHANGED <<kind, classOf, entityIndex, timeLeft>>

StatementEvict(k) ==
    /\ kind = "statement" /\ k \in lists[FirstOwner].keys
    /\ Asked("remove", {FirstOwner}, {k})
    /\ lists' = [lists EXCEPT ![FirstOwner] = DropEntry(@, k)]
    /\ UNCHANGED <<kind, stored, classOf, entityIndex, timeLeft>>

StatementClear ==
    /\ kind = "statement" /\ lists[FirstOwner].keys # {}
    /\ Asked("remove", {FirstOwner}, CacheKeys)
    /\ lists' = [lists EXCEPT ![FirstOwner] = EmptyList]
    /\ UNCHANGED <<kind, stored, classOf, entityIndex, timeLeft>>

\* acquire, a hit and a miss.
PoolAcquire(o, k, v) ==
    /\ kind = "pool"
    /\ Asked(IF k \in lists[o].keys THEN "get" ELSE "put", {o}, {k})
    /\ lists' = [lists EXCEPT ![o] = PutEntry(@, k)]
    /\ stored' = IF k \in lists[o].keys THEN stored ELSE [stored EXCEPT ![o][k] = v]
    /\ UNCHANGED <<kind, classOf, entityIndex, timeLeft>>

\* releaseConnection with retainOnRelease = false, clearConnection.
PoolClearConnection(o) ==
    /\ kind = "pool" /\ lists[o].keys # {}
    /\ Asked("remove", {o}, CacheKeys)
    /\ lists' = [lists EXCEPT ![o] = EmptyList]
    /\ UNCHANGED <<kind, stored, classOf, entityIndex, timeLeft>>

-----------------------------------------------------------------------------
(* EntityCache: one list for each class and a limit for all of them *)

EntityGet(o, k) ==
    /\ kind = "entity" /\ k \in lists[o].keys
    /\ Asked("get", {o}, {k})
    /\ lists' = [lists EXCEPT ![o] = MoveToHead(@, k)]
    /\ UNCHANGED <<kind, stored, classOf, entityIndex, timeLeft>>

EntityCount(f) == Cardinality(UNION {{o} \X f[o].keys : o \in CacheOwners})

\* The largest lists; the code takes the first it meets.
Largest(f) == {o \in CacheOwners :
                 \A p \in CacheOwners : Cardinality(f[p].keys) <= Cardinality(f[o].keys)}

\* enforceGlobalLimit: one put makes the caches too large by one.
EnforceGlobalLimit(f) ==
    IF EntityCount(f) <= MaxTotalSize THEN lists' = f
    ELSE \E o \in Largest(f) : lists' = [f EXCEPT ![o] = EvictTail(@)]

EntityPut(o, k, v) ==
    /\ kind = "entity"
    /\ Asked("put", {o}, {k})
    /\ EnforceGlobalLimit([lists EXCEPT ![o] = PutEntry(@, k)])
    /\ stored' = [stored EXCEPT ![o][k] = v]
    /\ UNCHANGED <<kind, classOf, entityIndex, timeLeft>>

EntityEvict(o, k) ==
    /\ kind = "entity" /\ k \in lists[o].keys
    /\ Asked("remove", {o}, {k})
    /\ lists' = [lists EXCEPT ![o] = DropEntry(@, k)]
    /\ UNCHANGED <<kind, stored, classOf, entityIndex, timeLeft>>

\* evictAll(class) and clear()
EntityEvictAll ==
    /\ kind = "entity"
    /\ \/ \E o \in CacheOwners : /\ lists[o].keys # {} /\ Asked("remove", {o}, CacheKeys)
                                 /\ lists' = [lists EXCEPT ![o] = EmptyList]
       \/ /\ Asked("remove", CacheOwners, CacheKeys)
          /\ lists' = [o \in CacheOwners |-> EmptyList]
    /\ UNCHANGED <<kind, stored, classOf, entityIndex, timeLeft>>

-----------------------------------------------------------------------------
(* QueryCache: one list, entries that expire, and an index by entity class *)

Results == lists[FirstOwner]

\* removeFromEntityIndex for the entries S, addToEntityIndex of k under c.
Unindexed(S) == [c \in Classes |-> entityIndex[c] \ S]

\* The index is kept when an entry changes its class.
IndexedOnce(S, k, c) == IF \E d \in Classes : k \in entityIndex[d] THEN Unindexed(S \ {k})
                        ELSE [Unindexed(S) EXCEPT ![c] = @ \cup {k}]

Indexed(S, k, c) == [Unindexed(S) EXCEPT ![c] = @ \cup {k}]

\* What the entries that remain in the list are, and nothing of the others.
Remain(ofClass, left) ==
    LET keys == lists'[FirstOwner].keys
    IN /\ classOf' = [k \in CacheKeys |-> IF k \in keys THEN ofClass[k] ELSE FirstClass]
       /\ timeLeft' = [k \in CacheKeys |-> IF k \in keys THEN left[k] ELSE 0]

\* get: an entry past its time is removed.
QueryGet(k) ==
    /\ kind = "query" /\ k \in Results.keys
    /\ IF timeLeft[k] < 0
       THEN /\ Asked("remove", {FirstOwner}, {k})
            /\ lists' = [lists EXCEPT ![FirstOwner] = DropEntry(@, k)]
            /\ entityIndex' = Unindexed({k})
       ELSE /\ Asked("get", {FirstOwner}, {k})
            /\ lists' = [lists EXCEPT ![FirstOwner] = MoveToHead(@, k)]
            /\ UNCHANGED entityIndex
    /\ Remain(classOf, timeLeft)
    /\ UNCHANGED <<kind, stored>>

\* put: the ttl is jittered; a key that was cached may change its class.
QueryPut(k, v, c) ==
    /\ kind = "query"
    /\ Asked("put", {FirstOwner}, {k})
    /\ LET new == PutEntry(Results, k)
       IN /\ lists' = [lists EXCEPT ![FirstOwner] = new]
          /\ entityIndex' = Indexed((Results.keys \ new.keys) \cup {k}, k, c)
    /\ stored' = [stored EXCEPT ![FirstOwner][k] = v]
    /\ \E jitter \in {0, 1} : Remain([classOf EXCEPT ![k] = c], [timeLeft EXCEPT ![k] = Lifetime + jitter])
    /\ UNCHANGED kind

\* removeEntry of one entry after the other.
Dropped(l, ks) == LET after[n \in 0..Len(ks)] == IF n = 0 THEN l ELSE DropEntry(after[n - 1], ks[n])
                  IN after[Len(ks)]

\* invalidate: the entries the index has for the class.
QueryInvalidate(c) ==
    /\ kind = "query" /\ entityIndex[c] # {}
    /\ Asked("remove", {FirstOwner}, entityIndex[c])
    /\ \E ks \in SetToSeqs(entityIndex[c]) :
           lists' = [lists EXCEPT ![FirstOwner] = Dropped(@, ks)]
    /\ entityIndex' = [entityIndex EXCEPT ![c] = {}]
    /\ Remain(classOf, timeLeft)
    /\ UNCHANGED <<kind, stored>>

\* invalidateAll and clear
QueryClear ==
    /\ kind = "query" /\ Results.keys # {}
    /\ Asked("remove", {FirstOwner}, CacheKeys)
    /\ lists' = [lists EXCEPT ![FirstOwner] = EmptyList]
    /\ entityIndex' = [c \in Classes |-> {}]
    /\ Remain(classOf, timeLeft)
    /\ UNCHANGED <<kind, stored>>

CacheTick == /\ kind = "query"
             /\ timeLeft' = [k \in CacheKeys |-> IF k \in Results.keys /\ timeLeft[k] >= 0
                                                THEN timeLeft[k] - 1 ELSE timeLeft[k]]
             /\ UNCHANGED <<kind, lists, stored, classOf, entityIndex, asked>>

CachesNext ==
    \/ \E k \in CacheKeys : StatementGet(k) \/ StatementEvict(k) \/ QueryGet(k)
    \/ \E k \in CacheKeys, v \in CacheValues : StatementPut(k, v)
    \/ \E o \in CacheOwners, k \in CacheKeys, v \in CacheValues : PoolAcquire(o, k, v)
    \/ \E o \in CacheOwners : PoolClearConnection(o)
    \/ \E o \in CacheOwners, k \in CacheKeys, v \in CacheValues : EntityPut(o, k, v)
    \/ \E o \in CacheOwners, k \in CacheKeys : EntityGet(o, k) \/ EntityEvict(o, k)
    \/ EntityEvictAll
    \/ \E k \in CacheKeys, v \in CacheValues, c \in Classes : QueryPut(k, v, c)
    \/ \E c \in Classes : QueryInvalidate(c)
    \/ StatementClear \/ QueryClear \/ CacheTick

CachesSpec == CachesInit /\ [][CachesNext]_cacheVars

-----------------------------------------------------------------------------
(* Properties *)

\* What next leads to from the head on, and where that is a key; a list that is tied
\* into a knot is cut at the number of keys there are.
Visited(l) == LET at[n \in 1..Cardinality(CacheKeys)] ==
                      IF n = 1 THEN l.head
                      ELSE IF at[n - 1] = NoKey THEN NoKey ELSE l.next[at[n - 1]]
              IN at
Walk(l) == SubSeq(Visited(l), 1,
                  Cardinality({n \in 1..Cardinality(CacheKeys) : Visited(l)[n] # NoKey}))

CacheTotal == IF kind = "entity" THEN MaxTotalSize
              ELSE Capacity * Cardinality(CacheOwners)

LruCache == INSTANCE LeastRecentlyUsed
                WITH order <- [o \in CacheOwners |-> Walk(lists[o])],
                     content <- stored, total <- CacheTotal

\* Through any sequence of gets, puts, evictions, invalidations and expiries the
\* linked lists are the order of the last uses: every get and every put makes its
\* key the most recent one, only the least recently used entry makes room, and a
\* removal takes what it names.  A link that removeNode or moveToHead leaves behind
\* shows up only some operations later.
CachesAreLru == LruCache!AbsSpec

\* The Map and the list of every cache have the same entries, and the index of
\* the query cache has every entry under the class it holds: what the index
\* lost would be served after invalidate(class) for as long as its ttl.
MapListAndIndexAgree ==
    /\ \A o \in CacheOwners : lists[o].keys = ToSet(Walk(lists[o]))
    /\ kind = "query" =>
          \A c \in Classes : entityIndex[c] = {k \in Results.keys : classOf[k] = c}
=============================================================================
