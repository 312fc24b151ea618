-------------------------- MODULE LeastRecentlyUsed --------------------------
(***************************************************************************)
(* What the four caches of the repository promise: each owner (an entity   *)
(* class, a connection, or the one list of a statement or query cache) has *)
(* its keys in the order of their last use, most recent first, at most     *)
(* Capacity of them, total over all owners, and the least recently used    *)
(* one goes.  A get returns what was put last.                             *)
(*                                                                         *)
(* `asked` is the last call, so that no call is a stuttering step: a get   *)
(* has to make its key the most recent one, and only what a caller removes *)
(* may be missing after a removal.  A cache that evicts in the order of    *)
(* the puts is none of these.                                              *)
(***************************************************************************)
EXTENDS Naturals, Sequences, FiniteSets, SequencesExt

CONSTANTS CacheOwners, CacheKeys, CacheValues, Capacity

VARIABLES order,   \* order[o]: the keys of o, most recently used first
          content, \* content[o][k]: what was put under k; of no interest once k is gone
          total,   \* the most keys all owners may have together
          asked    \* the last call: what was asked of whom, for which keys

Asked(op, owners, keys) == asked' = [op |-> op, owners |-> owners, keys |-> keys]

NoContent == [o \in CacheOwners |-> [k \in CacheKeys |-> CHOOSE v \in CacheValues : TRUE]]

TotalOf(f) == Cardinality(UNION {{o} \X ToSet(f[o]) : o \in CacheOwners})

\* k, and behind it the others in their order.
MovedUp(seq, k) == <<k>> \o RemoveFirst(seq, k)

FirstKeys(seq, n) == SubSeq(seq, 1, IF Len(seq) < n THEN Len(seq) ELSE n)

\* Some of the keys of seq, in its order.
InOrderOf(some, seq) ==
    /\ ToSet(some) \subseteq ToSet(seq)
    /\ \A i, j \in DOMAIN some : i < j =>
           \E m, n \in DOMAIN seq : m < n /\ seq[m] = some[i] /\ seq[n] = some[j]

AbsInit == /\ order = [o \in CacheOwners |-> <<>>] /\ content = NoContent /\ total \in Nat
           /\ asked = [op |-> "none", owners |-> {}, keys |-> {}]

AfterUse(f, o, k) == [q \in CacheOwners |-> IF q = o THEN MovedUp(f[o], k) ELSE f[q]]

\* A get that finds k is a use of it.
AbsGet(o, k) == /\ Asked("get", {o}, {k})
                /\ k \in ToSet(order[o])
                /\ order' = AfterUse(order, o, k)
                /\ UNCHANGED <<content, total>>

AfterPut(f, o, k) ==
    [q \in CacheOwners |-> IF q = o THEN FirstKeys(MovedUp(f[o], k), Capacity) ELSE f[q]]

AfterEviction(f, p) == [q \in CacheOwners |-> IF q = p THEN Front(f[p]) ELSE f[q]]

\* A put that makes the caches too large evicts from one that has most keys.
Trimmed(f) == IF TotalOf(f) <= total THEN {f}
              ELSE {AfterEviction(f, p) : p \in {p \in CacheOwners :
                        \A q \in CacheOwners : Len(f[q]) <= Len(f[p])}}

AbsPut(o, k, v) == /\ Asked("put", {o}, {k})
                   /\ order' \in Trimmed(AfterPut(order, o, k))
                   /\ content' = [content EXCEPT ![o][k] = v]
                   /\ UNCHANGED total

\* Eviction by name, invalidation, expiry and clearing: of these owners these keys go
\* and no others, and what remains keeps its order.
AbsRemove(owners, keys) ==
    /\ Asked("remove", owners, keys)
    /\ order' \in [CacheOwners -> Seq(CacheKeys)]
    /\ \A o \in owners : /\ InOrderOf(order'[o], order[o])
                          /\ ToSet(order'[o]) = ToSet(order[o]) \ keys
    /\ \A o \in CacheOwners \ owners : order'[o] = order[o]
    /\ UNCHANGED <<content, total>>

AbsNext == \/ \E o \in CacheOwners, k \in CacheKeys : AbsGet(o, k)
           \/ \E o \in CacheOwners, k \in CacheKeys, v \in CacheValues : AbsPut(o, k, v)
           \/ \E owners \in SUBSET CacheOwners, keys \in SUBSET CacheKeys : AbsRemove(owners, keys)

AbsSpec == AbsInit /\ [][AbsNext]_<<order, content, total, asked>>
=============================================================================
