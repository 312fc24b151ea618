-------------------------- MODULE EventStoreProofs --------------------------
(***************************************************************************)
(* Proofs about EventStore for any sets of sessions and aggregates and any *)
(* bounds: type correctness; the versions of every aggregate are 1..n      *)
(* without hole or duplicate; sequence numbers follow the versions; every  *)
(* event is stored once, at the version apply() gave it; and the table     *)
(* implements the append-only log of EventLog.                             *)
(*                                                                         *)
(* After that, about the REST routes and GraphQL resolvers of Endpoints:   *)
(* what clients are told is what happened, no edit is lost, and the cache  *)
(* answers for the table.                                                  *)
(***************************************************************************)
EXTENDS EventStore, Endpoints, FiniteSetTheorems, TLAPS

\* What an INSERT in flight holds: consecutive versions of one aggregate,
\* right after the last committed one.
InflightOf(s) ==
    /\ batch[s] # <<>>
    /\ expected[s] = GetCurrentVersion(instance[s].aggregate)
    /\ {r.version : r \in inflight[s]} = (expected[s] + 1)..(expected[s] + Len(batch[s]))
    /\ \A r \in inflight[s] : r.aggregate = instance[s].aggregate
    /\ \A r, t \in inflight[s] : r.version = t.version => r = t

\* While append is past its check, the version it expects can only have been
\* overtaken; the unique key then refuses the first row of the batch.
Behind(s) == batch[s] # <<>> /\ expected[s] <= GetCurrentVersion(instance[s].aggregate)

Sound(s) ==
    /\ pc[s] = "called" => batch[s] # <<>>
    /\ pc[s] = "checked" => Behind(s)
    /\ pc[s] = "inserted" => InflightOf(s)
    /\ pc[s] # "inserted" => inflight[s] = {}

NoClash == \A s, t \in Sessions : s # t => ~ Clash(inflight[s], inflight[t])

\* VersionsContiguous, said without getCurrentVersion: "n" is what the proof
\* must know to be a number before it may speak of a maximum.
Contiguous == \A a \in Aggregates : \E n \in Nat : Versions(a) = 1..n

UniqueVersions ==
    \A r, t \in events : r.aggregate = t.aggregate /\ r.version = t.version => r = t

IInv ==
    /\ TypeOK
    /\ Contiguous
    /\ UniqueVersions
    /\ \A s \in Sessions : Sound(s)
    /\ NoClash

-----------------------------------------------------------------------------
\* The greatest element of 1..n, and 0 when it is empty, as MAX(version) is
\* read by getCurrentVersion.
LEMMA MaxOfInterval ==
    ASSUME NEW n \in Nat, NEW S, S = 1..n
    PROVE  (IF S = {} THEN 0 ELSE CHOOSE m \in S : \A v \in S : v <= m) = n
<1>1. CASE n = 0
  BY <1>1
<1>2. CASE n # 0
  <2>1. n \in S /\ \A v \in S : v <= n
    BY <1>2
  <2>2. \A m \in S : (\A v \in S : v <= m) => m = n
    BY <2>1
  <2> QED
    BY <2>1, <2>2
<1> QED
  BY <1>1, <1>2

\* getCurrentVersion answers the n of 1..n.
LEMMA CurrentVersion ==
    ASSUME NEW a \in Aggregates, NEW n \in Nat, Versions(a) = 1..n
    PROVE  GetCurrentVersion(a) = n
BY MaxOfInterval DEF GetCurrentVersion

\* What the invariant says of the versions of one aggregate.
LEMMA ContiguousVersions ==
    ASSUME Contiguous, NEW a \in Aggregates
    PROVE  GetCurrentVersion(a) \in Nat /\ Versions(a) = 1..GetCurrentVersion(a)
<1>1. PICK n \in Nat : Versions(a) = 1..n
  BY DEF Contiguous
<1>2. GetCurrentVersion(a) = n
  BY <1>1, CurrentVersion
<1> QED
  BY <1>1, <1>2

\* What an INSERT would write, when it clashes with no committed row: the
\* expected version is the current one, and the rows are what InflightOf says.
LEMMA InsertedRows ==
    ASSUME TypeOK, Contiguous, NEW s \in Sessions, Behind(s),
           ~ Clash(RowsToInsert(s), events)
    PROVE  /\ expected[s] = GetCurrentVersion(instance[s].aggregate)
           /\ RowsToInsert(s) \subseteq Row
           /\ {r.version : r \in RowsToInsert(s)} = (expected[s] + 1)..(expected[s] + Len(batch[s]))
           /\ \A r \in RowsToInsert(s) : r.aggregate = instance[s].aggregate
           /\ \A r, t \in RowsToInsert(s) : r.version = t.version => r = t
<1> DEFINE a == instance[s].aggregate
           n == Len(batch[s])
<1>1. /\ a \in Aggregates /\ n \in Nat \ {0} /\ expected[s] \in Nat
      /\ nextSequence \in Nat \ {0}
      /\ \A i \in 1..n : batch[s][i].id \in EventIds /\ batch[s][i].version \in Nat
  <2>1. a \in Aggregates /\ expected[s] \in Nat /\ nextSequence \in Nat \ {0}
    BY DEF TypeOK
  <2>2. batch[s] \in Seq(DomainEvent) /\ batch[s] # <<>>
    BY DEF TypeOK, Behind
  <2>3. n \in Nat \ {0} /\ \A i \in 1..n : batch[s][i] \in DomainEvent
    BY <2>2
  <2> QED
    BY <2>1, <2>3 DEF DomainEvent
<1>2. GetCurrentVersion(a) \in Nat /\ Versions(a) = 1..GetCurrentVersion(a)
  BY <1>1, ContiguousVersions
<1>3. \A i \in 1..n : \E r \in RowsToInsert(s) : r.version = expected[s] + i
  <2> SUFFICES ASSUME NEW i \in 1..n PROVE \E r \in RowsToInsert(s) : r.version = expected[s] + i
    OBVIOUS
  <2> DEFINE row == [aggregate |-> a, version |-> expected[s] + i, sequence |-> nextSequence + i - 1,
                     id |-> batch[s][i].id, claimed |-> batch[s][i].version]
  <2>1. row \in RowsToInsert(s)
    BY DEF RowsToInsert
  <2>2. row.version = expected[s] + i
    OBVIOUS
  <2> QED
    BY <2>1, <2>2
<1>4. \A r \in RowsToInsert(s) : \E i \in 1..n :
        r = [aggregate |-> a, version |-> expected[s] + i, sequence |-> nextSequence + i - 1,
             id |-> batch[s][i].id, claimed |-> batch[s][i].version]
  BY DEF RowsToInsert
<1>5. RowsToInsert(s) \subseteq Row
  <2> SUFFICES ASSUME NEW r \in RowsToInsert(s) PROVE r \in Row
    OBVIOUS
  <2> PICK i \in 1..n :
        r = [aggregate |-> a, version |-> expected[s] + i, sequence |-> nextSequence + i - 1,
             id |-> batch[s][i].id, claimed |-> batch[s][i].version]
    BY <1>4
  <2>1. expected[s] + i \in Nat /\ nextSequence + i - 1 \in Nat
    BY <1>1
  <2>2. batch[s][i].id \in EventIds /\ batch[s][i].version \in Nat
    BY <1>1
  <2> QED
    BY <1>1, <2>1, <2>2 DEF Row
<1>6. {r.version : r \in RowsToInsert(s)} = (expected[s] + 1)..(expected[s] + n)
  <2>1. ASSUME NEW v \in (expected[s] + 1)..(expected[s] + n)
        PROVE  v \in {r.version : r \in RowsToInsert(s)}
    <3>1. v - expected[s] \in 1..n /\ expected[s] + (v - expected[s]) = v
      BY <1>1
    <3> QED
      BY <1>3, <3>1
  <2>2. \A r \in RowsToInsert(s) : r.version \in (expected[s] + 1)..(expected[s] + n)
    BY <1>1, <1>4
  <2> QED
    BY <2>1, <2>2
<1>7. \A r \in RowsToInsert(s) : r.aggregate = a
  BY <1>4
<1>8. \A r, t \in RowsToInsert(s) : r.version = t.version => r = t
  <2> SUFFICES ASSUME NEW r \in RowsToInsert(s), NEW t \in RowsToInsert(s), r.version = t.version
               PROVE  r = t
    OBVIOUS
  <2>1. PICK i \in 1..n :
          r = [aggregate |-> a, version |-> expected[s] + i, sequence |-> nextSequence + i - 1,
               id |-> batch[s][i].id, claimed |-> batch[s][i].version]
    BY <1>4
  <2>2. PICK j \in 1..n :
          t = [aggregate |-> a, version |-> expected[s] + j, sequence |-> nextSequence + j - 1,
               id |-> batch[s][j].id, claimed |-> batch[s][j].version]
    BY <1>4
  <2>3. i = j
    BY <1>1, <2>1, <2>2
  <2> QED
    BY <2>1, <2>2, <2>3
<1>9. expected[s] = GetCurrentVersion(a)
  <2>1. expected[s] + 1 \notin Versions(a)
    <3>1. PICK r \in RowsToInsert(s) : r.version = expected[s] + 1
      BY <1>1, <1>3
    <3> QED
      BY <1>7, <3>1 DEF Clash, Versions
  <2> QED
    BY <1>1, <1>2, <2>1 DEF Behind
<1> QED
  BY <1>5, <1>6, <1>7, <1>8, <1>9

-----------------------------------------------------------------------------
\* A step that leaves the table alone leaves every current version alone.
LEMMA SameEvents ==
    ASSUME UNCHANGED events
    PROVE  /\ \A a : Versions(a)' = Versions(a) /\ GetCurrentVersion(a)' = GetCurrentVersion(a)
           /\ Contiguous => Contiguous'
           /\ UniqueVersions => UniqueVersions'
BY DEF Versions, GetCurrentVersion, Contiguous, UniqueVersions

\* The sessions that do not move stay sound while the table is unchanged.
Frame(s) ==
    \A t \in Sessions \ {s} :
        /\ pc'[t] = pc[t] /\ batch'[t] = batch[t] /\ expected'[t] = expected[t]
        /\ inflight'[t] = inflight[t] /\ instance'[t].aggregate = instance[t].aggregate

\* What a session does to itself leaves the other sessions' appends sound.
LEMMA OthersStaySound ==
    ASSUME IInv, NEW s \in Sessions, Frame(s), UNCHANGED events
    PROVE  \A t \in Sessions \ {s} : Sound(t)'
<1> SUFFICES ASSUME NEW t \in Sessions \ {s} PROVE Sound(t)'
  OBVIOUS
<1>1. /\ pc'[t] = pc[t] /\ batch'[t] = batch[t] /\ expected'[t] = expected[t]
      /\ inflight'[t] = inflight[t] /\ instance'[t].aggregate = instance[t].aggregate
  BY DEF Frame
<1>2. GetCurrentVersion(instance[t].aggregate)' = GetCurrentVersion(instance[t].aggregate)
  BY <1>1, SameEvents
<1>3. Sound(t)
  BY DEF IInv
<1> QED
  BY <1>1, <1>2, <1>3 DEF Sound, Behind, InflightOf

\* An append that returns without rows in flight keeps the invariant.
LEMMA ReturnStep ==
    ASSUME IInv, NEW s \in Sessions, NEW outcome \in AtRest, ReturnFromAppend(s, outcome),
           UNCHANGED <<events, instance, applied>>, nextSequence' \in Nat \ {0}
    PROVE  IInv'
<1>1. TypeOK'
  BY DEF IInv, TypeOK, ReturnFromAppend, AtRest, Steps
<1>2. Contiguous' /\ UniqueVersions'
  BY SameEvents DEF IInv
<1>3. pc'[s] = outcome /\ inflight'[s] = {}
  BY DEF ReturnFromAppend, IInv, TypeOK
<1>4. Sound(s)'
  BY <1>3 DEF Sound, AtRest
<1>5. Frame(s)
  BY DEF Frame, ReturnFromAppend, IInv, TypeOK
<1>6. NoClash'
  BY <1>3, <1>5 DEF NoClash, Clash, Frame, IInv
<1> QED
  BY <1>1, <1>2, <1>4, <1>5, <1>6, OthersStaySound DEF IInv

\* Steps that leave append's state alone and only change a session's object.
LEMMA ObjectStep ==
    ASSUME IInv, TypeOK', NEW s \in Sessions,
           UNCHANGED <<events, batch, expected, inflight>>,
           \A t \in Sessions \ {s} : pc'[t] = pc[t] /\ instance'[t] = instance[t],
           inflight[s] = {} \/ (pc'[s] = pc[s] /\ instance'[s].aggregate = instance[s].aggregate),
           pc'[s] \in AtRest \/ (pc'[s] = pc[s] /\ instance'[s].aggregate = instance[s].aggregate)
    PROVE  IInv'
<1>1. Contiguous' /\ UniqueVersions'
  BY SameEvents DEF IInv
<1>2. NoClash'
  BY DEF NoClash, Clash, IInv
<1>3. Frame(s)
  BY DEF Frame
<1>4. Sound(s)'
  <2>1. CASE pc'[s] = pc[s] /\ instance'[s].aggregate = instance[s].aggregate
    <3>1. GetCurrentVersion(instance[s].aggregate)' = GetCurrentVersion(instance[s].aggregate)
      BY <2>1, SameEvents
    <3> QED
      BY <2>1, <3>1 DEF IInv, Sound, Behind, InflightOf
  <2>2. CASE inflight[s] = {} /\ pc'[s] \in AtRest
    BY <2>2 DEF Sound, AtRest
  <2> QED
    BY <2>1, <2>2
<1> QED
  BY <1>1, <1>2, <1>3, <1>4, OthersStaySound DEF IInv

\* EventSourcedRepository.load keeps the invariant.
LEMMA LoadStep ==
    ASSUME IInv, NEW s \in Sessions, NEW a \in Aggregates, LoadFromHistory(s, a)
    PROVE  IInv'
<1>1. GetCurrentVersion(a) \in Nat
  BY ContiguousVersions DEF IInv
<1>2. TypeOK'
  <2>1. instance' \in [Sessions -> [aggregate : Aggregates, version : Nat, uncommitted : Seq(DomainEvent)]]
    BY <1>1 DEF LoadFromHistory, IInv, TypeOK
  <2> QED
    BY <2>1 DEF LoadFromHistory, IInv, TypeOK, AtRest, Steps
<1>3. inflight[s] = {} /\ pc'[s] \in AtRest
  BY DEF LoadFromHistory, IInv, Sound, AtRest, TypeOK
<1>4. /\ UNCHANGED <<events, batch, expected, inflight>>
      /\ \A t \in Sessions \ {s} : pc'[t] = pc[t] /\ instance'[t] = instance[t]
  BY DEF LoadFromHistory, IInv, TypeOK
<1>5. inflight[s] = {} \/ (pc'[s] = pc[s] /\ instance'[s].aggregate = instance[s].aggregate)
  BY <1>3
<1>6. pc'[s] \in AtRest \/ (pc'[s] = pc[s] /\ instance'[s].aggregate = instance[s].aggregate)
  BY <1>3
<1> QED
  BY <1>2, <1>4, <1>5, <1>6, ObjectStep

\* AggregateBase.apply keeps the invariant.
LEMMA ApplyStep ==
    ASSUME IInv, NEW s \in Sessions, Apply(s)
    PROVE  IInv'
<1> DEFINE u == instance[s].uncommitted
           e == [id |-> <<s, applied[s] + 1>>, version |-> instance[s].version + Len(u) + 1]
<1>1. applied[s] \in Nat /\ applied[s] + 1 \in 1..MaxApplied /\ instance[s].version \in Nat
      /\ u \in Seq(DomainEvent)
  BY EventStoreAssumption DEF Apply, IInv, TypeOK
<1>2. e \in DomainEvent
  BY <1>1 DEF DomainEvent, EventIds
<1>3. Append(u, e) \in Seq(DomainEvent)
  BY <1>1, <1>2
<1>4. instance' = [instance EXCEPT ![s].uncommitted = Append(u, e)]
  BY DEF Apply
<1>5. TypeOK'
  <2>1. instance' \in [Sessions -> [aggregate : Aggregates, version : Nat, uncommitted : Seq(DomainEvent)]]
    BY <1>3, <1>4 DEF IInv, TypeOK
  <2> QED
    BY SMTT(30), <1>1, <2>1 DEF Apply, IInv, TypeOK
<1>6. /\ instance'[s].aggregate = instance[s].aggregate
      /\ \A t \in Sessions \ {s} : instance'[t] = instance[t]
  BY <1>4 DEF IInv, TypeOK
<1> QED
  BY <1>5, <1>6, ObjectStep DEF Apply

\* markEventsAsCommitted keeps the invariant.
LEMMA MarkStep ==
    ASSUME IInv, NEW s \in Sessions, MarkEventsAsCommitted(s)
    PROVE  IInv'
<1>1. TypeOK'
  <2>1. <<>> \in Seq(DomainEvent)
    OBVIOUS
  <2>2. instance' \in [Sessions -> [aggregate : Aggregates, version : Nat, uncommitted : Seq(DomainEvent)]]
    BY <2>1 DEF MarkEventsAsCommitted, IInv, TypeOK
  <2> QED
    BY <2>2 DEF MarkEventsAsCommitted, IInv, TypeOK, Steps
<1>2. inflight[s] = {} /\ pc'[s] \in AtRest
  BY DEF MarkEventsAsCommitted, IInv, Sound, AtRest, TypeOK
<1> QED
  BY <1>1, <1>2, ObjectStep DEF MarkEventsAsCommitted, IInv, TypeOK

\* Calling append keeps the invariant.
LEMMA AppendCallStep ==
    ASSUME IInv, NEW s \in Sessions, NEW transactional \in BOOLEAN, AppendCall(s, transactional)
    PROVE  IInv'
<1>1. TypeOK'
  BY DEF AppendCall, IInv, TypeOK, Steps
<1>2. Contiguous' /\ UniqueVersions'
  BY SameEvents DEF IInv, AppendCall
<1>3. pc'[s] = "called" /\ batch'[s] # <<>> /\ inflight'[s] = {}
  BY DEF AppendCall, IInv, TypeOK, Sound, AtRest
<1>4. Sound(s)'
  BY <1>3 DEF Sound
<1>5. Frame(s)
  BY DEF Frame, AppendCall, IInv, TypeOK
<1>6. NoClash'
  BY DEF AppendCall, NoClash, Clash, IInv
<1> QED
  BY <1>1, <1>2, <1>4, <1>5, <1>6, OthersStaySound DEF IInv, AppendCall

\* The version check of append keeps the invariant, whether it passes or not.
LEMMA CheckStep ==
    ASSUME IInv, NEW s \in Sessions, CheckVersion(s)
    PROVE  IInv'
<1>1. CASE GetCurrentVersion(instance[s].aggregate) = expected[s]
  <2>1. /\ pc' = [pc EXCEPT ![s] = "checked"]
        /\ UNCHANGED <<events, nextSequence, instance, applied, inTx, batch, expected, inflight>>
    BY <1>1 DEF CheckVersion
  <2>2. TypeOK'
    BY <2>1 DEF IInv, TypeOK, Steps
  <2>3. Contiguous' /\ UniqueVersions'
    BY <2>1, SameEvents DEF IInv
  <2>4. instance[s].aggregate \in Aggregates /\ expected[s] \in Nat
    BY DEF IInv, TypeOK
  <2>5. Sound(s)'
    <3>1. pc'[s] = "checked" /\ inflight'[s] = {} /\ batch'[s] # <<>>
      BY <2>1 DEF CheckVersion, IInv, TypeOK, Sound
    <3>2. GetCurrentVersion(instance[s].aggregate)' = expected'[s]
      BY <1>1, <2>1, SameEvents
    <3> QED
      BY <2>1, <2>4, <3>1, <3>2 DEF Sound, Behind
  <2>6. Frame(s)
    BY <2>1 DEF Frame, IInv, TypeOK
  <2>7. NoClash'
    BY <2>1 DEF NoClash, Clash, IInv
  <2> QED
    BY <2>1, <2>2, <2>3, <2>5, <2>6, <2>7, OthersStaySound DEF IInv
<1>2. CASE GetCurrentVersion(instance[s].aggregate) # expected[s]
  BY <1>2, ReturnStep DEF CheckVersion, AtRest, IInv, TypeOK
<1> QED
  BY <1>1, <1>2

\* The INSERT keeps the invariant: its rows clash with no committed one and none in flight.
LEMMA InsertStep ==
    ASSUME IInv, NEW s \in Sessions, Insert(s)
    PROVE  IInv'
<1> DEFINE rows == RowsToInsert(s)
<1>1. /\ pc[s] = "checked" /\ ~ Clash(rows, OtherInflight(s)) /\ ~ Clash(rows, events)
      /\ inflight' = [inflight EXCEPT ![s] = rows]
      /\ nextSequence' = nextSequence + Len(batch[s])
      /\ pc' = [pc EXCEPT ![s] = "inserted"]
      /\ UNCHANGED <<events, instance, applied, inTx, batch, expected>>
  BY DEF Insert, DrawSequence
<1>2. Behind(s)
  BY <1>1 DEF IInv, Sound
<1>3. /\ expected[s] = GetCurrentVersion(instance[s].aggregate)
      /\ rows \subseteq Row
      /\ {r.version : r \in rows} = (expected[s] + 1)..(expected[s] + Len(batch[s]))
      /\ \A r \in rows : r.aggregate = instance[s].aggregate
      /\ \A r, t \in rows : r.version = t.version => r = t
  BY <1>1, <1>2, InsertedRows DEF IInv
<1>4. TypeOK'
  <2>1. Len(batch[s]) \in Nat
    BY DEF IInv, TypeOK
  <2>2. nextSequence' \in Nat \ {0}
    BY <1>1, <2>1 DEF IInv, TypeOK
  <2> QED
    BY <1>1, <1>3, <2>2 DEF IInv, TypeOK, Steps
<1>5. Contiguous' /\ UniqueVersions'
  BY <1>1, SameEvents DEF IInv
<1>6. pc'[s] = "inserted" /\ inflight'[s] = rows
  BY <1>1 DEF IInv, TypeOK
<1>7. GetCurrentVersion(instance[s].aggregate)' = GetCurrentVersion(instance[s].aggregate)
  BY <1>1, SameEvents
<1>8. Sound(s)'
  BY <1>1, <1>2, <1>3, <1>6, <1>7 DEF Sound, InflightOf, Behind
<1>9. Frame(s)
  BY <1>1 DEF Frame, IInv, TypeOK
<1>10. NoClash'
  <2> SUFFICES ASSUME NEW t \in Sessions, NEW u \in Sessions, t # u,
                      NEW r \in inflight'[t], NEW q \in inflight'[u],
                      r.aggregate = q.aggregate, r.version = q.version
               PROVE  FALSE
    BY DEF NoClash, Clash
  <2>1. CASE t = s
    BY <1>1, <1>6, <1>9, <2>1 DEF Clash, OtherInflight, Frame
  <2>2. CASE u = s
    BY <1>1, <1>6, <1>9, <2>2 DEF Clash, OtherInflight, Frame
  <2>3. CASE t # s /\ u # s
    BY <1>9, <2>3 DEF Frame, NoClash, Clash, IInv
  <2> QED
    BY <2>1, <2>2, <2>3
<1> QED
  BY <1>1, <1>4, <1>5, <1>8, <1>9, <1>10, OthersStaySound DEF IInv

\* An INSERT refused by the unique key keeps the invariant.
LEMMA UniqueViolationStep ==
    ASSUME IInv, NEW s \in Sessions, UniqueViolation(s)
    PROVE  IInv'
<1>1. nextSequence' \in Nat \ {0}
  <2>1. Len(batch[s]) \in Nat /\ nextSequence \in Nat \ {0}
    BY DEF IInv, TypeOK
  <2> QED
    BY <2>1 DEF UniqueViolation, DrawSequence
<1> QED
  BY <1>1, ReturnStep DEF UniqueViolation, AtRest

\* A rollback keeps the invariant: the rows in flight are dropped.
LEMMA RollbackStep ==
    ASSUME IInv, NEW s \in Sessions, Rollback(s)
    PROVE  IInv'
BY ReturnStep DEF Rollback, AtRest, IInv, TypeOK

\* The commit: the rows in flight extend the versions of their aggregate from
\* 1..n to 1..(n + batch length), and nobody else's rows in flight are for the
\* same aggregate, since they too would start at n + 1.
LEMMA CommitStep ==
    ASSUME IInv, NEW s \in Sessions, NEW acknowledged \in BOOLEAN, Commit(s, acknowledged)
    PROVE  IInv'
<1>1. /\ pc[s] = "inserted" /\ InflightOf(s) /\ inflight[s] \subseteq Row
      /\ events' = events \cup inflight[s]
      /\ UNCHANGED <<nextSequence, instance, applied>>
      /\ ReturnFromAppend(s, IF acknowledged THEN "stored" ELSE "dbError")
  BY DEF Commit, IInv, Sound, TypeOK
<1>2. PICK a \in Aggregates, n \in Nat, k \in Nat \ {0} :
        a = instance[s].aggregate /\ n = expected[s] /\ k = Len(batch[s])
  <2>1. /\ instance[s].aggregate \in Aggregates /\ expected[s] \in Nat
        /\ batch[s] \in Seq(DomainEvent) /\ batch[s] # <<>>
    BY <1>1 DEF IInv, TypeOK, InflightOf
  <2>2. Len(batch[s]) \in Nat \ {0}
    BY <2>1
  <2> QED
    BY <2>1, <2>2
<1>3. Versions(a) = 1..n
  BY <1>1, <1>2, ContiguousVersions DEF InflightOf, IInv
<1>4. \A b : Versions(b)' = Versions(b) \cup {r.version : r \in {x \in inflight[s] : x.aggregate = b}}
  BY <1>1 DEF Versions
<1>5. \A b : b # a => Versions(b)' = Versions(b)
  BY <1>1, <1>2, <1>4 DEF InflightOf
<1>6. Versions(a)' = 1..(n + k)
  <2>1. {r.version : r \in {x \in inflight[s] : x.aggregate = a}} = (n + 1)..(n + k)
    BY <1>1, <1>2 DEF InflightOf
  <2>2. Versions(a)' = (1..n) \cup ((n + 1)..(n + k))
    BY <1>3, <1>4, <2>1
  <2> QED
    BY <1>2, <2>2
<1>7. TypeOK'
  BY <1>1 DEF IInv, TypeOK, ReturnFromAppend, Steps
<1>8. Contiguous'
  <2> SUFFICES ASSUME NEW b \in Aggregates PROVE \E m \in Nat : Versions(b)' = 1..m
    BY DEF Contiguous
  <2>1. CASE b = a
    BY <1>2, <1>6, <2>1
  <2>2. CASE b # a
    BY <1>5, <2>2 DEF IInv, Contiguous
  <2> QED
    BY <2>1, <2>2
<1>9. UniqueVersions'
  <2> SUFFICES ASSUME NEW r \in events', NEW t \in events', r.aggregate = t.aggregate,
                      r.version = t.version
               PROVE  r = t
    BY DEF UniqueVersions
  <2>1. ASSUME NEW x \in events, NEW y \in inflight[s]
        PROVE  ~ (x.aggregate = y.aggregate /\ x.version = y.version)
    <3>1. y.aggregate = a /\ y.version \in (n + 1)..(n + k)
      BY <1>1, <1>2 DEF InflightOf
    <3>2. x.aggregate = a => x.version \in 1..n
      BY <1>3 DEF Versions
    <3> QED
      BY <1>2, <3>1, <3>2
  <2> QED
    BY <1>1, <2>1 DEF IInv, UniqueVersions, InflightOf
<1>10. Frame(s)
  BY <1>1 DEF Frame, ReturnFromAppend, IInv, TypeOK
<1>11. pc'[s] # "inserted" /\ pc'[s] # "called" /\ pc'[s] # "checked" /\ inflight'[s] = {}
  BY <1>1 DEF ReturnFromAppend, IInv, TypeOK
<1>12. NoClash'
  BY <1>10, <1>11 DEF NoClash, Clash, Frame, IInv
<1>13. ASSUME NEW t \in Sessions \ {s} PROVE Sound(t)'
  <2>1. /\ pc'[t] = pc[t] /\ batch'[t] = batch[t] /\ expected'[t] = expected[t]
        /\ inflight'[t] = inflight[t] /\ instance'[t].aggregate = instance[t].aggregate
        /\ Sound(t)
    BY <1>10 DEF Frame, IInv
  <2>2. PICK b \in Aggregates : b = instance[t].aggregate /\ expected[t] \in Nat
    BY DEF IInv, TypeOK
  <2>3. CASE b # a
    <3>1. GetCurrentVersion(b)' = GetCurrentVersion(b)
      <4>1. PICK m \in Nat : Versions(b) = 1..m
        BY DEF IInv, Contiguous
      <4>2. Versions(b)' = 1..m
        BY <1>5, <2>3, <4>1
      <4>3. GetCurrentVersion(b)' = m
        BY <4>2, MaxOfInterval DEF GetCurrentVersion
      <4> QED
        BY <4>1, <4>3, CurrentVersion
    <3> QED
      BY <2>1, <2>2, <3>1 DEF Sound, Behind, InflightOf
  <2>4. CASE b = a
    <3>1. GetCurrentVersion(a) = n
      BY <1>2, <1>3, CurrentVersion
    <3>2. GetCurrentVersion(a)' = n + k
      <4>1. n + k \in Nat
        BY <1>2
      <4> QED
        BY <1>6, <4>1, MaxOfInterval DEF GetCurrentVersion
    <3>3. pc[t] # "inserted"
      <4> SUFFICES ASSUME pc[t] = "inserted" PROVE FALSE
        OBVIOUS
      <4>1. InflightOf(t) /\ Len(batch[t]) \in Nat \ {0}
        <5>1. InflightOf(t) /\ batch[t] \in Seq(DomainEvent) /\ batch[t] # <<>>
          BY <2>1 DEF Sound, InflightOf, IInv, TypeOK
        <5> QED
          BY <5>1
      <4>2. expected[t] = n
        BY <2>2, <2>4, <3>1, <4>1 DEF InflightOf
      <4>3. n + 1 \in (n + 1)..(n + k) /\ n + 1 \in (expected[t] + 1)..(expected[t] + Len(batch[t]))
        BY <1>2, <4>1, <4>2
      <4>4. PICK r \in inflight[s] : r.version = n + 1
        BY <1>1, <1>2, <4>3 DEF InflightOf
      <4>5. PICK q \in inflight[t] : q.version = n + 1
        BY <4>1, <4>3 DEF InflightOf
      <4>6. r.aggregate = q.aggregate
        BY <1>1, <1>2, <2>2, <2>4, <4>1, <4>4, <4>5 DEF InflightOf
      <4> QED
        BY <4>4, <4>5, <4>6 DEF IInv, NoClash, Clash
    <3> QED
      BY <1>2, <2>1, <2>2, <2>4, <3>1, <3>2, <3>3 DEF Sound, Behind
  <2> QED
    BY <2>3, <2>4
<1>14. Sound(s)'
  BY <1>11 DEF Sound
<1> QED
  BY <1>7, <1>8, <1>9, <1>12, <1>13, <1>14 DEF IInv

\* The empty table satisfies the invariant.
LEMMA InitIInv == Init => IInv
<1> SUFFICES ASSUME Init PROVE IInv
  OBVIOUS
<1>1. TypeOK
  <2>1. <<>> \in Seq(DomainEvent) /\ 0 \in 0..MaxApplied
    BY EventStoreAssumption
  <2>2. instance \in [Sessions -> [aggregate : Aggregates, version : Nat, uncommitted : Seq(DomainEvent)]]
    BY <2>1 DEF Init
  <2> QED
    BY <2>1, <2>2 DEF Init, TypeOK, Steps
<1>2. \A a \in Aggregates : Versions(a) = 1..0
  BY DEF Init, Versions
<1>3. Contiguous /\ UniqueVersions
  BY <1>2 DEF Contiguous, UniqueVersions, Init
<1>4. (\A s \in Sessions : Sound(s)) /\ NoClash
  BY DEF Init, Sound, NoClash, Clash
<1> QED
  BY <1>1, <1>3, <1>4 DEF IInv

\* Every step keeps the invariant.
LEMMA NextIInv == IInv /\ [Next]_vars => IInv'
<1> SUFFICES ASSUME IInv, [Next]_vars PROVE IInv'
  OBVIOUS
<1>1. CASE UNCHANGED vars
  <2> USE <1>1 DEF vars
  <2>1. TypeOK'
    BY DEF IInv, TypeOK
  <2>2. Contiguous' /\ UniqueVersions'
    BY SameEvents DEF IInv
  <2>3. \A s \in Sessions : Sound(s)'
    BY SameEvents DEF IInv, Sound, Behind, InflightOf
  <2>4. NoClash'
    BY DEF IInv, NoClash, Clash
  <2> QED
    BY <2>1, <2>2, <2>3, <2>4 DEF IInv
<1>2. ASSUME NEW s \in Sessions, NEW a \in Aggregates, LoadFromHistory(s, a) PROVE IInv'
  BY <1>2, LoadStep
<1>3. ASSUME NEW s \in Sessions, Apply(s) PROVE IInv'
  BY <1>3, ApplyStep
<1>4. ASSUME NEW s \in Sessions, NEW transactional \in BOOLEAN, AppendCall(s, transactional)
      PROVE  IInv'
  BY <1>4, AppendCallStep
<1>5. ASSUME NEW s \in Sessions, CheckVersion(s) PROVE IInv'
  BY <1>5, CheckStep
<1>6. ASSUME NEW s \in Sessions, Insert(s) PROVE IInv'
  BY <1>6, InsertStep
<1>7. ASSUME NEW s \in Sessions, UniqueViolation(s) PROVE IInv'
  BY <1>7, UniqueViolationStep
<1>8. ASSUME NEW s \in Sessions, NEW acknowledged \in BOOLEAN, Commit(s, acknowledged) PROVE IInv'
  BY <1>8, CommitStep
<1>9. ASSUME NEW s \in Sessions, Rollback(s) PROVE IInv'
  BY <1>9, RollbackStep
<1>10. ASSUME NEW s \in Sessions, MarkEventsAsCommitted(s) PROVE IInv'
  BY <1>10, MarkStep
<1> QED
  BY <1>1, <1>2, <1>3, <1>4, <1>5, <1>6, <1>7, <1>8, <1>9, <1>10 DEF Next

\* The inductive invariant holds in every reachable state.
THEOREM Invariance == Spec => []IInv
BY InitIInv, NextIInv, PTL DEF Spec

\* Type correctness of EventStore: every variable stays in its domain.  It is
\* not inductive alone: that getCurrentVersion answers a number rests on the
\* versions being an interval.
THEOREM TypeCorrect == Spec => []TypeOK
<1>1. IInv => TypeOK
  BY DEF IInv
<1> QED
  BY <1>1, Invariance, PTL

\* For any number of sessions and aggregates, concurrent appends leave every
\* aggregate with the versions 1..n, each taken once (EventStore.append's
\* check and the table's unique key together).
THEOREM Contiguity == Spec => []VersionsContiguous
<1>1. IInv => VersionsContiguous
  BY ContiguousVersions DEF IInv, UniqueVersions, VersionsContiguous
<1> QED
  BY <1>1, Invariance, PTL
-----------------------------------------------------------------------------
(* Sequence numbers *)

\* The rows s has in flight are numbered in the order of their versions, after
\* all that is committed of their aggregate.
NumberedInOrder(s) ==
    /\ \A r \in inflight[s] : r.sequence < nextSequence
    /\ \A r, t \in inflight[s] : r.version < t.version => r.sequence < t.sequence
    /\ \A r \in inflight[s], x \in events : x.aggregate = r.aggregate => x.sequence < r.sequence

SequenceInv ==
    /\ SequenceFollowsVersion
    /\ \A x \in events : x.sequence < nextSequence
    /\ \A s \in Sessions : NumberedInOrder(s)

\* Of each aggregate at most one session has rows in flight: two would start
\* at the same version.
LEMMA OneWriterPerAggregate ==
    ASSUME IInv, NEW s \in Sessions, NEW t \in Sessions, s # t,
           NEW r \in inflight[s], NEW q \in inflight[t]
    PROVE  r.aggregate # q.aggregate
<1> SUFFICES ASSUME r.aggregate = q.aggregate PROVE FALSE
  OBVIOUS
<1>1. pc[s] = "inserted" /\ pc[t] = "inserted" /\ InflightOf(s) /\ InflightOf(t)
  BY DEF IInv, Sound
<1>2. /\ batch[s] \in Seq(DomainEvent) /\ batch[s] # <<>> /\ expected[s] \in Nat
      /\ batch[t] \in Seq(DomainEvent) /\ batch[t] # <<>> /\ expected[t] \in Nat
  BY <1>1 DEF IInv, TypeOK, InflightOf
<1>3. Len(batch[s]) \in Nat \ {0} /\ Len(batch[t]) \in Nat \ {0}
  BY <1>2
<1>4. instance[s].aggregate = instance[t].aggregate /\ expected[s] = expected[t]
  BY <1>1 DEF InflightOf
<1>5. /\ expected[s] + 1 \in (expected[s] + 1)..(expected[s] + Len(batch[s]))
      /\ expected[s] + 1 \in (expected[t] + 1)..(expected[t] + Len(batch[t]))
  BY <1>2, <1>3, <1>4
<1>6. PICK x \in inflight[s] : x.version = expected[s] + 1
  BY <1>1, <1>5 DEF InflightOf
<1>7. PICK y \in inflight[t] : y.version = expected[s] + 1
  BY <1>1, <1>5 DEF InflightOf
<1>8. x.aggregate = y.aggregate
  BY <1>1, <1>4 DEF InflightOf
<1> QED
  BY <1>6, <1>7, <1>8 DEF IInv, NoClash, Clash

\* Where the fields of a row to insert come from.
LEMMA RowsComeFromBatch ==
    ASSUME NEW s \in Sessions, NEW r \in RowsToInsert(s)
    PROVE  \E i \in 1..Len(batch[s]) :
               /\ r.aggregate = instance[s].aggregate /\ r.version = expected[s] + i
               /\ r.sequence = nextSequence + i - 1
               /\ r.id = batch[s][i].id /\ r.claimed = batch[s][i].version
BY DEF RowsToInsert

\* Only INSERT and commit touch rows, but for dropping those in flight.
LEMMA StepEffect ==
    ASSUME IInv, [Next]_vars
    PROVE  \/ \E s \in Sessions : Insert(s)
           \/ \E s \in Sessions, acknowledged \in BOOLEAN : Commit(s, acknowledged)
           \/ /\ UNCHANGED events /\ nextSequence' >= nextSequence
              /\ \A s \in Sessions : inflight'[s] \subseteq inflight[s]
<1> DEFINE Quiet == /\ UNCHANGED events /\ nextSequence' >= nextSequence
                    /\ \A s \in Sessions : inflight'[s] \subseteq inflight[s]
<1>0. nextSequence \in Nat /\ inflight \in [Sessions -> SUBSET Row]
      /\ \A s \in Sessions : Len(batch[s]) \in Nat
  BY DEF IInv, TypeOK
<1>1. CASE UNCHANGED vars
  BY <1>0, <1>1 DEF vars
<1>2. ASSUME NEW s \in Sessions, NEW a \in Aggregates, LoadFromHistory(s, a) PROVE Quiet
  BY <1>0, <1>2 DEF LoadFromHistory
<1>3. ASSUME NEW s \in Sessions, Apply(s) PROVE Quiet
  BY <1>0, <1>3 DEF Apply
<1>4. ASSUME NEW s \in Sessions, NEW transactional \in BOOLEAN, AppendCall(s, transactional)
      PROVE  Quiet
  BY <1>0, <1>4 DEF AppendCall
<1>5. ASSUME NEW s \in Sessions, CheckVersion(s) PROVE Quiet
  BY <1>0, <1>5 DEF CheckVersion, ReturnFromAppend
<1>6. ASSUME NEW s \in Sessions, UniqueViolation(s) PROVE Quiet
  BY <1>0, <1>6 DEF UniqueViolation, ReturnFromAppend, DrawSequence
<1>7. ASSUME NEW s \in Sessions, Rollback(s) PROVE Quiet
  BY <1>0, <1>7 DEF Rollback, ReturnFromAppend
<1>8. ASSUME NEW s \in Sessions, MarkEventsAsCommitted(s) PROVE Quiet
  BY <1>0, <1>8 DEF MarkEventsAsCommitted
<1> QED
  BY <1>1, <1>2, <1>3, <1>4, <1>5, <1>6, <1>7, <1>8 DEF Next

\* An INSERT draws its numbers after every number drawn before.
LEMMA SequenceOfInsert ==
    ASSUME IInv, SequenceInv, NEW s \in Sessions, Insert(s)
    PROVE  SequenceInv'
<1> DEFINE rows == RowsToInsert(s)
<1>1. /\ inflight' = [inflight EXCEPT ![s] = rows] /\ UNCHANGED events
      /\ nextSequence' = nextSequence + Len(batch[s])
  BY DEF Insert, DrawSequence
<1>2. /\ nextSequence \in Nat /\ expected[s] \in Nat /\ Len(batch[s]) \in Nat
      /\ events \subseteq Row /\ inflight \in [Sessions -> SUBSET Row]
  BY DEF IInv, TypeOK
<1>3. \A x \in events : x.sequence < nextSequence
  BY DEF SequenceInv
<1>4. \A x \in events : x.sequence \in Nat
  BY <1>2 DEF Row
<1>5. ASSUME NEW t \in Sessions PROVE NumberedInOrder(t)'
  <2>1. CASE t = s
    <3>1. inflight'[t] = rows
      BY <1>1, <1>2, <2>1
    <3>2. \A r \in rows : r.sequence < nextSequence' /\ r.sequence >= nextSequence /\ r.sequence \in Nat
      BY <1>1, <1>2, RowsComeFromBatch
    <3>3. \A r, q \in rows : r.version < q.version => r.sequence < q.sequence
      <4> SUFFICES ASSUME NEW r \in rows, NEW q \in rows, r.version < q.version
                   PROVE  r.sequence < q.sequence
        OBVIOUS
      <4>1. PICK i \in 1..Len(batch[s]) : r.version = expected[s] + i /\ r.sequence = nextSequence + i - 1
        BY RowsComeFromBatch
      <4>2. PICK j \in 1..Len(batch[s]) : q.version = expected[s] + j /\ q.sequence = nextSequence + j - 1
        BY RowsComeFromBatch
      <4> QED
        BY <1>2, <4>1, <4>2
    <3>4. \A r \in rows, x \in events : x.sequence < r.sequence
      BY <1>2, <1>3, <1>4, <3>2
    <3> QED
      BY <1>1, <3>1, <3>2, <3>3, <3>4 DEF NumberedInOrder
  <2>2. CASE t # s
    <3>1. inflight'[t] = inflight[t] /\ NumberedInOrder(t) /\ \A r \in inflight[t] : r.sequence \in Nat
      BY <1>1, <1>2, <2>2 DEF SequenceInv, Row
    <3>2. \A r \in inflight'[t] : r.sequence < nextSequence'
      BY <1>1, <1>2, <3>1 DEF NumberedInOrder
    <3> QED
      BY <1>1, <3>1, <3>2 DEF NumberedInOrder
  <2> QED
    BY <2>1, <2>2
<1>6. \A x \in events' : x.sequence < nextSequence'
  BY <1>1, <1>2, <1>3, <1>4
<1> QED
  BY <1>1, <1>5, <1>6 DEF SequenceInv, SequenceFollowsVersion

\* A commit keeps the order: its rows were the only ones of their aggregate in flight.
LEMMA SequenceOfCommit ==
    ASSUME IInv, SequenceInv, NEW s \in Sessions, NEW acknowledged \in BOOLEAN,
           Commit(s, acknowledged)
    PROVE  SequenceInv'
<1>1. /\ events' = events \cup inflight[s] /\ UNCHANGED nextSequence
      /\ inflight' = [inflight EXCEPT ![s] = {}] /\ pc[s] = "inserted"
  BY DEF Commit, ReturnFromAppend
<1>2. inflight \in [Sessions -> SUBSET Row] /\ events \subseteq Row
  BY DEF IInv, TypeOK
<1>3. NumberedInOrder(s) /\ InflightOf(s)
  BY <1>1 DEF SequenceInv, IInv, Sound
<1>4. \A x \in events' : x.sequence < nextSequence'
  BY <1>1, <1>3 DEF SequenceInv, NumberedInOrder
<1>5. ASSUME NEW t \in Sessions PROVE NumberedInOrder(t)'
  <2>1. CASE t = s
    BY <1>1, <1>2, <2>1 DEF NumberedInOrder
  <2>2. CASE t # s
    <3>1. inflight'[t] = inflight[t] /\ NumberedInOrder(t)
      BY <1>1, <1>2, <2>2 DEF SequenceInv
    <3>2. \A r \in inflight[t], x \in inflight[s] : x.aggregate # r.aggregate
      BY <2>2, OneWriterPerAggregate
    <3> QED
      BY <1>1, <3>1, <3>2 DEF NumberedInOrder
  <2> QED
    BY <2>1, <2>2
<1>6. SequenceFollowsVersion'
  <2> SUFFICES ASSUME NEW r \in events', NEW t \in events', r.aggregate = t.aggregate,
                      r.version < t.version
               PROVE  r.sequence < t.sequence
    BY DEF SequenceFollowsVersion
  <2>1. CASE t \in inflight[s]
    BY <1>1, <1>3, <2>1 DEF NumberedInOrder
  <2>2. CASE r \in events /\ t \in events
    BY <2>2 DEF SequenceInv, SequenceFollowsVersion
  <2>3. CASE r \in inflight[s] /\ t \in events
    <3>1. r.aggregate = instance[s].aggregate /\ r.aggregate \in Aggregates
      BY <1>2, <1>3, <2>3 DEF InflightOf, Row
    <3>2. /\ GetCurrentVersion(r.aggregate) \in Nat
          /\ Versions(r.aggregate) = 1..GetCurrentVersion(r.aggregate)
      BY <3>1, ContiguousVersions DEF IInv
    <3>3. t.version \in Versions(r.aggregate)
      BY <2>3 DEF Versions
    <3>4. r.version \in (expected[s] + 1)..(expected[s] + Len(batch[s]))
          /\ expected[s] = GetCurrentVersion(r.aggregate)
      BY <1>3, <2>3, <3>1 DEF InflightOf
    <3>5. t.version \in Nat /\ r.version \in Nat /\ Len(batch[s]) \in Nat
      BY <1>2, <2>3 DEF Row, IInv, TypeOK
    <3> QED
      BY <3>2, <3>3, <3>4, <3>5
  <2> QED
    BY <1>1, <2>1, <2>2, <2>3
<1> QED
  BY <1>4, <1>5, <1>6 DEF SequenceInv

\* Every step keeps the order of the sequence numbers.
LEMMA NextSequenceInv == IInv /\ SequenceInv /\ [Next]_vars => SequenceInv'
<1> SUFFICES ASSUME IInv, SequenceInv, [Next]_vars PROVE SequenceInv'
  OBVIOUS
<1>1. CASE /\ UNCHANGED events /\ nextSequence' >= nextSequence
           /\ \A s \in Sessions : inflight'[s] \subseteq inflight[s]
  <2>0. /\ nextSequence \in Nat /\ nextSequence' \in Nat
        /\ \A x \in events : x.sequence \in Nat
        /\ \A s \in Sessions : \A r \in inflight[s] : r.sequence \in Nat
    BY NextIInv DEF IInv, TypeOK, Row
  <2>1. \A x \in events' : x.sequence < nextSequence'
    BY <1>1, <2>0 DEF SequenceInv
  <2>2. ASSUME NEW s \in Sessions PROVE NumberedInOrder(s)'
    <3>1. NumberedInOrder(s) /\ inflight'[s] \subseteq inflight[s]
      BY <1>1 DEF SequenceInv
    <3>2. \A r \in inflight'[s] : r.sequence < nextSequence'
      BY <1>1, <2>0, <3>1 DEF NumberedInOrder
    <3> QED
      BY <1>1, <3>1, <3>2 DEF NumberedInOrder
  <2> QED
    BY <1>1, <2>1, <2>2 DEF SequenceInv, SequenceFollowsVersion
<1> QED
  BY <1>1, StepEffect, SequenceOfInsert, SequenceOfCommit

\* For any number of sessions and aggregates, reading an aggregate by the global
\* sequence and by version gives the same order: a number is drawn before the
\* commit, but never by two writers of one aggregate at a time.
THEOREM SequenceOrder == Spec => []SequenceFollowsVersion
<1>1. Init => SequenceInv
  BY DEF Init, SequenceInv, SequenceFollowsVersion, NumberedInOrder
<1>2. SequenceInv => SequenceFollowsVersion
  BY DEF SequenceInv
<1> QED
  BY <1>1, <1>2, NextSequenceInv, Invariance, PTL DEF Spec

-----------------------------------------------------------------------------
(* What is stored *)

\* The uncommitted events of s are its own, applied one after the other, and
\* numbered on from the version its object was loaded at.
AppliedInOrder(s) ==
    LET u == instance[s].uncommitted
    IN  /\ \A i \in 1..Len(u) : /\ u[i].version = instance[s].version + i
                                /\ u[i].id[1] = s /\ u[i].id[2] <= applied[s]
        /\ \A i, j \in 1..Len(u) : i < j => u[i].id[2] < u[j].id[2]

\* While s is in append, its batch is how its uncommitted events begin.
BatchOf(s) ==
    LET u == instance[s].uncommitted
    IN  pc[s] \in {"called", "checked", "inserted"} =>
            /\ expected[s] = instance[s].version
            /\ Len(batch[s]) <= Len(u)
            /\ \A i \in 1..Len(batch[s]) : batch[s][i] = u[i]

WrittenFromBatch(s) ==
    \A r \in inflight[s] : \E i \in 1..Len(batch[s]) :
        r.id = batch[s][i].id /\ r.version = expected[s] + i /\ r.claimed = batch[s][i].version

\* An object that still has an event which is already stored (the
\* acknowledgement was lost, or markEventsAsCommitted is next) is behind the
\* table, so that no append of it passes the check.
Overtaken(s) ==
    (\E i \in 1..Len(instance[s].uncommitted), r \in events : r.id = instance[s].uncommitted[i].id)
        => instance[s].version < GetCurrentVersion(instance[s].aggregate)

Traced(s) == AppliedInOrder(s) /\ BatchOf(s) /\ WrittenFromBatch(s) /\ Overtaken(s)

StoredInv ==
    /\ StoredAsApplied
    /\ \A r \in events : r.id[2] <= applied[r.id[1]]
    /\ \A s \in Sessions : Traced(s)

\* What the types say of a session and its events, field by field.
LEMMA TypesOf ==
    ASSUME TypeOK, NEW s \in Sessions
    PROVE  /\ instance[s].aggregate \in Aggregates /\ instance[s].version \in Nat
           /\ instance[s].uncommitted \in Seq(DomainEvent) /\ Len(instance[s].uncommitted) \in Nat
           /\ \A i \in 1..Len(instance[s].uncommitted) :
                 /\ instance[s].uncommitted[i] \in DomainEvent
                 /\ instance[s].uncommitted[i].version \in Nat
                 /\ instance[s].uncommitted[i].id[2] \in Nat
           /\ applied[s] \in Nat /\ applied[s] <= MaxApplied
           /\ batch[s] \in Seq(DomainEvent) /\ Len(batch[s]) \in Nat /\ expected[s] \in Nat
<1>1. /\ instance[s] \in [aggregate : Aggregates, version : Nat, uncommitted : Seq(DomainEvent)]
      /\ applied[s] \in 0..MaxApplied /\ batch[s] \in Seq(DomainEvent) /\ expected[s] \in Nat
  BY DEF TypeOK
<1>2. \A e \in DomainEvent : e.version \in Nat /\ e.id[2] \in Nat
  BY DEF DomainEvent, EventIds
<1>3. \A i \in 1..Len(instance[s].uncommitted) : instance[s].uncommitted[i] \in DomainEvent
  BY <1>1
<1> QED
  BY <1>1, <1>2, <1>3, EventStoreAssumption

\* A session stays traced when it does not move and the table is unchanged.
LEMMA OthersStayTraced ==
    ASSUME StoredInv, NEW s \in Sessions, Frame(s), UNCHANGED events,
           \A t \in Sessions \ {s} : instance'[t] = instance[t] /\ applied'[t] = applied[t]
    PROVE  \A t \in Sessions \ {s} : Traced(t)'
<1> SUFFICES ASSUME NEW t \in Sessions \ {s} PROVE Traced(t)'
  OBVIOUS
<1>1. /\ pc'[t] = pc[t] /\ batch'[t] = batch[t] /\ expected'[t] = expected[t]
      /\ inflight'[t] = inflight[t] /\ instance'[t] = instance[t] /\ applied'[t] = applied[t]
  BY DEF Frame
<1>2. GetCurrentVersion(instance[t].aggregate)' = GetCurrentVersion(instance[t].aggregate)
  BY <1>1, SameEvents
<1>3. Traced(t)
  BY DEF StoredInv
<1>4. AppliedInOrder(t)' /\ BatchOf(t)' /\ WrittenFromBatch(t)'
  <2>1. AppliedInOrder(t)'
    BY <1>1, <1>3 DEF Traced, AppliedInOrder
  <2>2. BatchOf(t)'
    BY <1>1, <1>3 DEF Traced, BatchOf
  <2>3. WrittenFromBatch(t)'
    BY <1>1, <1>3 DEF Traced, WrittenFromBatch
  <2> QED
    BY <2>1, <2>2, <2>3
<1>5. Overtaken(t)'
  BY <1>1, <1>2, <1>3 DEF Traced, Overtaken
<1> QED
  BY <1>4, <1>5 DEF Traced

\* Steps after which s is not in append, or still is with the same locals.
LEMMA LeavesAppend ==
    ASSUME IInv, StoredInv, NEW s \in Sessions, Frame(s),
           UNCHANGED <<events, instance, applied>>,
           \/ pc'[s] \notin {"called", "checked", "inserted"} /\ inflight'[s] = {}
           \/ /\ pc[s] \in {"called", "checked", "inserted"}
              /\ batch'[s] = batch[s] /\ expected'[s] = expected[s]
              /\ inflight'[s] \subseteq inflight[s]
    PROVE  StoredInv'
<1>1. \A t \in Sessions \ {s} : Traced(t)'
  BY OthersStayTraced DEF IInv, TypeOK
<1>2. GetCurrentVersion(instance[s].aggregate)' = GetCurrentVersion(instance[s].aggregate)
  BY SameEvents
<1>3. Traced(s)
  BY DEF StoredInv
<1>4. AppliedInOrder(s)' /\ Overtaken(s)'
  BY <1>2, <1>3 DEF Traced, AppliedInOrder, Overtaken
<1>5. BatchOf(s)' /\ WrittenFromBatch(s)'
  BY SMTT(30), <1>3 DEF Traced, BatchOf, WrittenFromBatch
<1> QED
  BY <1>1, <1>4, <1>5 DEF StoredInv, Traced, StoredAsApplied, StoredOnce, StoredVersionIsAppliedVersion

\* apply() names an event nobody has, at the next version.
LEMMA StoredByApply ==
    ASSUME IInv, StoredInv, NEW s \in Sessions, Apply(s)
    PROVE  StoredInv'
<1> DEFINE u == instance[s].uncommitted
           e == [id |-> <<s, applied[s] + 1>>, version |-> instance[s].version + Len(u) + 1]
           L == Append(u, e)
<1>1. /\ instance' = [instance EXCEPT ![s].uncommitted = Append(u, e)]
      /\ applied' = [applied EXCEPT ![s] = @ + 1]
      /\ UNCHANGED <<events, nextSequence, pc, inTx, batch, expected, inflight>>
  BY DEF Apply
<1>2. /\ instance'[s].aggregate = instance[s].aggregate
      /\ instance'[s].version = instance[s].version
      /\ instance'[s].uncommitted = L
      /\ \A t \in Sessions \ {s} : instance'[t] = instance[t] /\ applied'[t] = applied[t]
      /\ applied'[s] = applied[s] + 1
  BY <1>1 DEF IInv, TypeOK
<1>3. /\ u \in Seq(DomainEvent) /\ Len(u) \in Nat /\ applied[s] \in Nat /\ instance[s].version \in Nat
      /\ \A i \in 1..Len(u) : u[i].version \in Nat /\ u[i].id[2] \in Nat
  BY TypesOf DEF IInv
<1>4. /\ Len(L) = Len(u) + 1 /\ L[Len(u) + 1] = e
      /\ \A i \in 1..Len(u) : L[i] = u[i]
  BY <1>3
<1>5. Traced(s)
  BY DEF StoredInv
<1>n. Len(u) \in Nat /\ applied[s] \in Nat /\ instance[s].version \in Nat
  BY <1>3
<1>e. e.version = instance[s].version + Len(u) + 1 /\ e.id[1] = s /\ e.id[2] = applied[s] + 1
  OBVIOUS
<1>u. u = instance[s].uncommitted
  OBVIOUS
<1> HIDE DEF e, u, L
<1>6. AppliedInOrder(s)'
  <2>1. ASSUME NEW i \in 1..(Len(u) + 1)
        PROVE  /\ L[i].version = instance[s].version + i
               /\ L[i].id[1] = s /\ L[i].id[2] <= applied[s] + 1
    <3>1. CASE i = Len(u) + 1
      <4>1. L[i] = e
        BY <1>4, <3>1
      <4>2. instance[s].version + i = instance[s].version + Len(u) + 1
        BY <1>n, <3>1
      <4> QED
        BY <1>n, <1>e, <4>1, <4>2
    <3>2. CASE i \in 1..Len(u)
      <4>1. /\ u[i].version = instance[s].version + i
            /\ u[i].id[1] = s /\ u[i].id[2] <= applied[s] /\ u[i].id[2] \in Nat
        BY <1>3, <1>5, <1>u, <3>2 DEF Traced, AppliedInOrder
      <4>2. L[i] = u[i]
        BY <1>4, <3>2
      <4> QED
        BY <1>n, <4>1, <4>2
    <3> QED
      BY <1>n, <3>1, <3>2
  <2>2. ASSUME NEW i \in 1..(Len(u) + 1), NEW j \in 1..(Len(u) + 1), i < j
        PROVE  L[i].id[2] < L[j].id[2]
    <3>1. i \in 1..Len(u)
      BY <1>3, <2>2
    <3>2. L[i] = u[i] /\ u[i].id[2] <= applied[s] /\ u[i].id[2] \in Nat
      BY <1>3, <1>4, <1>5, <1>u, <3>1 DEF Traced, AppliedInOrder
    <3>3. CASE j = Len(u) + 1
      <4>1. L[j].id[2] = applied[s] + 1
        BY <1>4, <1>e, <3>3
      <4>2. L[i].id[2] <= applied[s] /\ L[i].id[2] \in Nat
        BY <3>2
      <4> QED
        BY <1>n, <4>1, <4>2
    <3>4. CASE j \in 1..Len(u)
      <4>1. u[i].id[2] < u[j].id[2]
        BY <1>5, <1>u, <2>2, <3>1, <3>4 DEF Traced, AppliedInOrder
      <4> QED
        BY <1>4, <3>1, <3>4, <4>1
    <3>5. j = Len(u) + 1 \/ j \in 1..Len(u)
      BY <1>3
    <3> QED
      BY <3>3, <3>4, <3>5
  <2> QED
    BY <1>2, <1>4, <2>1, <2>2 DEF AppliedInOrder
<1>7. BatchOf(s)'
  <2>1. Len(batch[s]) \in Nat
    BY TypesOf DEF IInv
  <2> QED
    BY <1>1, <1>2, <1>3, <1>4, <1>5, <1>u, <2>1 DEF Traced, BatchOf
<1>8. WrittenFromBatch(s)'
  BY <1>1, <1>5 DEF Traced, WrittenFromBatch
<1>9. Overtaken(s)'
  <2>1. GetCurrentVersion(instance[s].aggregate)' = GetCurrentVersion(instance[s].aggregate)
    BY <1>1, SameEvents
  <2>2. \A r \in events : r.id # e.id
    <3> SUFFICES ASSUME NEW r \in events, r.id = e.id PROVE FALSE
      OBVIOUS
    <3>1. r.id[1] = s /\ r.id[2] = applied[s] + 1
      BY <1>e
    <3> QED
      BY <1>3, <3>1 DEF StoredInv
  <2>3. ASSUME NEW i \in 1..(Len(u) + 1), NEW r \in events, r.id = L[i].id
        PROVE  \E j \in 1..Len(u) : r.id = u[j].id
    <3>1. i # Len(u) + 1
      BY <1>4, <2>2, <2>3
    <3>2. i \in 1..Len(u)
      BY <1>n, <3>1
    <3> QED
      BY <1>4, <2>3, <3>2
  <2>4. ASSUME NEW i \in 1..Len(L), NEW r \in events, r.id = L[i].id
        PROVE  instance[s].version < GetCurrentVersion(instance[s].aggregate)
    <3>1. PICK j \in 1..Len(u) : r.id = u[j].id
      BY <1>4, <2>3, <2>4
    <3> QED
      BY <1>5, <1>u, <3>1 DEF Traced, Overtaken
  <2>5. /\ events' = events /\ instance'[s].uncommitted = L
        /\ instance'[s].version = instance[s].version
    BY <1>1, <1>2
  <2> HIDE DEF GetCurrentVersion
  <2> QED
    BY <2>1, <2>4, <2>5 DEF Overtaken
<1>10. Frame(s)
  BY <1>1, <1>2 DEF Frame
<1>11. \A t \in Sessions \ {s} : Traced(t)'
  BY <1>1, <1>2, <1>10, OthersStayTraced
<1>12. \A r \in events' : r.id[2] <= applied'[r.id[1]]
  <2> SUFFICES ASSUME NEW r \in events PROVE r.id[2] <= applied'[r.id[1]]
    BY <1>1
  <2>1. r.id[1] \in Sessions /\ r.id[2] \in Nat /\ r.id[2] <= applied[r.id[1]]
    BY DEF StoredInv, IInv, TypeOK, Row, EventIds
  <2>2. CASE r.id[1] = s
    BY <1>2, <1>n, <2>1, <2>2
  <2>3. CASE r.id[1] # s
    BY <1>2, <2>1, <2>3
  <2> QED
    BY <2>2, <2>3
<1> QED
  BY <1>1, <1>6, <1>7, <1>8, <1>9, <1>11, <1>12
     DEF StoredInv, Traced, StoredAsApplied, StoredOnce, StoredVersionIsAppliedVersion

\* A session that takes another object, or empties its list, has nothing left
\* to be stored twice.
LEMMA StoredByNewObject ==
    ASSUME IInv, StoredInv, NEW s \in Sessions,
           instance'[s].uncommitted = <<>>, pc'[s] = "idle", inflight[s] = {},
           \A t \in Sessions \ {s} : instance'[t] = instance[t] /\ pc'[t] = pc[t],
           UNCHANGED <<events, nextSequence, applied, inTx, batch, expected, inflight>>
    PROVE  StoredInv'
<1>1. Frame(s)
  BY DEF Frame
<1>2. \A t \in Sessions \ {s} : Traced(t)'
  BY <1>1, OthersStayTraced
<1>3. Len(<<>>) = 0 /\ 1..0 = {}
  OBVIOUS
<1>4. Traced(s)'
  BY <1>3 DEF Traced, AppliedInOrder, BatchOf, WrittenFromBatch, Overtaken
<1> QED
  BY <1>2, <1>4 DEF StoredInv, StoredAsApplied, StoredOnce, StoredVersionIsAppliedVersion

\* append copies the uncommitted events as they are.
LEMMA StoredByAppendCall ==
    ASSUME IInv, StoredInv, NEW s \in Sessions, NEW transactional \in BOOLEAN,
           AppendCall(s, transactional)
    PROVE  StoredInv'
<1>1. /\ batch' = [batch EXCEPT ![s] = instance[s].uncommitted]
      /\ expected' = [expected EXCEPT ![s] = instance[s].version]
      /\ pc' = [pc EXCEPT ![s] = "called"] /\ pc[s] \in AtRest
      /\ UNCHANGED <<events, nextSequence, instance, applied, inflight>>
  BY DEF AppendCall
<1>2. /\ batch'[s] = instance[s].uncommitted /\ expected'[s] = instance[s].version
      /\ inflight'[s] = {} /\ Frame(s)
  BY <1>1 DEF IInv, TypeOK, Sound, AtRest, Frame
<1>3. \A t \in Sessions \ {s} : Traced(t)'
  BY <1>1, <1>2, OthersStayTraced
<1>4. GetCurrentVersion(instance[s].aggregate)' = GetCurrentVersion(instance[s].aggregate)
  BY <1>1, SameEvents
<1>5. Traced(s) /\ Len(instance[s].uncommitted) \in Nat
  BY TypesOf DEF StoredInv, IInv
<1>6. Traced(s)'
  BY <1>1, <1>2, <1>4, <1>5 DEF Traced, AppliedInOrder, BatchOf, WrittenFromBatch, Overtaken
<1> QED
  BY <1>1, <1>3, <1>6 DEF StoredInv, StoredAsApplied, StoredOnce, StoredVersionIsAppliedVersion

\* The rows of an INSERT carry the versions apply() gave.
LEMMA StoredByInsert ==
    ASSUME IInv, StoredInv, NEW s \in Sessions, Insert(s)
    PROVE  StoredInv'
<1>1. /\ inflight' = [inflight EXCEPT ![s] = RowsToInsert(s)]
      /\ pc' = [pc EXCEPT ![s] = "inserted"] /\ pc[s] = "checked"
      /\ UNCHANGED <<events, instance, applied, inTx, batch, expected>>
  BY DEF Insert
<1>2. inflight'[s] = RowsToInsert(s) /\ Frame(s)
  BY <1>1 DEF IInv, TypeOK, Frame
<1>3. \A t \in Sessions \ {s} : Traced(t)'
  BY <1>1, <1>2, OthersStayTraced
<1>4. GetCurrentVersion(instance[s].aggregate)' = GetCurrentVersion(instance[s].aggregate)
  BY <1>1, SameEvents
<1>5. Traced(s)
  BY DEF StoredInv
<1>6. WrittenFromBatch(s)'
  BY <1>1, <1>2, RowsComeFromBatch DEF WrittenFromBatch
<1>7. AppliedInOrder(s)' /\ BatchOf(s)' /\ Overtaken(s)'
  BY <1>1, <1>4, <1>5 DEF Traced, AppliedInOrder, BatchOf, Overtaken
<1> QED
  BY <1>1, <1>3, <1>6, <1>7
     DEF StoredInv, Traced, StoredAsApplied, StoredOnce, StoredVersionIsAppliedVersion

\* The commit stores events that were not stored before, since their object was
\* not overtaken; from now on it is.
LEMMA StoredByCommit ==
    ASSUME IInv, StoredInv, NEW s \in Sessions, NEW acknowledged \in BOOLEAN,
           Commit(s, acknowledged)
    PROVE  StoredInv'
<1> PICK a \in Aggregates : a = instance[s].aggregate
  BY TypesOf DEF IInv
<1> DEFINE u == instance[s].uncommitted
<1>1. /\ pc[s] = "inserted" /\ events' = events \cup inflight[s]
      /\ UNCHANGED <<nextSequence, instance, applied>>
      /\ ReturnFromAppend(s, IF acknowledged THEN "stored" ELSE "dbError")
  BY DEF Commit
<1>2. InflightOf(s) /\ Traced(s) /\ inflight[s] \subseteq Row /\ events \subseteq Row
  BY <1>1 DEF IInv, Sound, StoredInv, TypeOK
<1>3. /\ a \in Aggregates /\ expected[s] \in Nat /\ Len(batch[s]) \in Nat \ {0}
      /\ Len(u) \in Nat /\ applied[s] \in Nat
  <2>1. batch[s] \in Seq(DomainEvent) /\ batch[s] # <<>>
    BY <1>2, TypesOf DEF IInv, InflightOf
  <2> QED
    BY <2>1, TypesOf DEF IInv
<1>4. /\ expected[s] = instance[s].version /\ Len(batch[s]) <= Len(u)
      /\ \A i \in 1..Len(batch[s]) : i \in 1..Len(u) /\ batch[s][i] = u[i]
  BY <1>1, <1>2, <1>3 DEF Traced, BatchOf
<1>5. \A r \in inflight[s] : \E i \in 1..Len(batch[s]) :
          i \in 1..Len(u) /\ r.id = u[i].id /\ r.version = expected[s] + i /\ r.claimed = u[i].version
  <2> SUFFICES ASSUME NEW r \in inflight[s]
               PROVE  \E i \in 1..Len(batch[s]) :
                          i \in 1..Len(u) /\ r.id = u[i].id /\ r.version = expected[s] + i
                          /\ r.claimed = u[i].version
    OBVIOUS
  <2>1. PICK i \in 1..Len(batch[s]) : r.id = batch[s][i].id /\ r.version = expected[s] + i
                                      /\ r.claimed = batch[s][i].version
    BY <1>2 DEF Traced, WrittenFromBatch
  <2> QED
    BY <1>4, <2>1
<1>6. \A r \in inflight[s] : r.id[1] = s /\ r.id[2] <= applied[s]
  BY <1>2, <1>5 DEF Traced, AppliedInOrder
<1>7. \A r \in inflight[s], x \in events : r.id # x.id
  <2> SUFFICES ASSUME NEW r \in inflight[s], NEW x \in events, r.id = x.id PROVE FALSE
    OBVIOUS
  <2>1. PICK i \in 1..Len(u) : x.id = u[i].id
    BY <1>5
  <2>2. instance[s].version < GetCurrentVersion(a)
    BY <1>2, <2>1 DEF Traced, Overtaken
  <2> QED
    BY <1>2, <1>3, <1>4, <2>2 DEF InflightOf
<1>8. StoredOnce'
  <2> SUFFICES ASSUME NEW r \in events', NEW t \in events', r.id = t.id PROVE r = t
    BY DEF StoredOnce
  <2>1. CASE r \in inflight[s] /\ t \in inflight[s]
    <3>1. PICK i \in 1..Len(u) : r.id = u[i].id /\ r.version = expected[s] + i
      BY <1>5, <2>1
    <3>2. PICK j \in 1..Len(u) : t.id = u[j].id /\ t.version = expected[s] + j
      BY <1>5, <2>1
    <3>3. i = j
      <4>1. u[i].id[2] \in Nat /\ u[j].id[2] \in Nat /\ u[i].id[2] = u[j].id[2]
        BY <3>1, <3>2, TypesOf DEF IInv
      <4>2. ~(i < j) /\ ~(j < i)
        BY <1>2, <4>1 DEF Traced, AppliedInOrder
      <4> QED
        BY <1>3, <4>2
    <3> QED
      BY <1>2, <2>1, <3>1, <3>2, <3>3 DEF InflightOf
  <2> QED
    BY <1>1, <1>7, <2>1 DEF StoredInv, StoredAsApplied, StoredOnce
<1>9. StoredVersionIsAppliedVersion'
  <2>1. \A r \in inflight[s] : r.version = r.claimed
    BY <1>2, <1>4, <1>5 DEF Traced, AppliedInOrder
  <2> QED
    BY <1>1, <2>1 DEF StoredInv, StoredAsApplied, StoredVersionIsAppliedVersion
<1>10. \A r \in events' : r.id[2] <= applied'[r.id[1]]
  BY <1>1, <1>6 DEF StoredInv
<1>11. pc'[s] \notin {"called", "checked", "inserted"} /\ inflight'[s] = {} /\ Frame(s)
  BY <1>1 DEF ReturnFromAppend, IInv, TypeOK, Frame
<1>12. /\ Versions(a) = 1..expected[s]
       /\ Versions(a)' = Versions(a) \cup {r.version : r \in {x \in inflight[s] : x.aggregate = a}}
       /\ \A b : b # a => Versions(b)' = Versions(b)
  BY <1>1, <1>2, <1>3, ContiguousVersions DEF InflightOf, IInv, Versions
<1>13. GetCurrentVersion(a) = expected[s] /\ GetCurrentVersion(a)' = expected[s] + Len(batch[s])
  <2>1. {r.version : r \in {x \in inflight[s] : x.aggregate = a}}
            = (expected[s] + 1)..(expected[s] + Len(batch[s]))
    BY <1>2 DEF InflightOf
  <2>2. Versions(a)' = 1..(expected[s] + Len(batch[s])) /\ expected[s] + Len(batch[s]) \in Nat
    BY <1>3, <1>12, <2>1
  <2>3. GetCurrentVersion(a)' = expected[s] + Len(batch[s])
    BY <2>2, MaxOfInterval DEF GetCurrentVersion
  <2> QED
    BY <1>2, <2>3 DEF InflightOf
<1>14. ASSUME NEW t \in Sessions PROVE Traced(t)'
  <2> PICK b \in Aggregates : b = instance[t].aggregate
    BY TypesOf DEF IInv
  <2>1. Traced(t) /\ instance[t].version \in Nat
    BY TypesOf DEF StoredInv, IInv
  <2>2. AppliedInOrder(t)'
    BY <1>1, <2>1 DEF Traced, AppliedInOrder
  <2>3. BatchOf(t)' /\ WrittenFromBatch(t)'
    <3>1. CASE t = s
      BY <1>11, <3>1 DEF BatchOf, WrittenFromBatch
    <3>2. CASE t # s
      BY <1>1, <1>11, <2>1, <3>2 DEF Frame, Traced, BatchOf, WrittenFromBatch
    <3> QED
      BY <3>1, <3>2
  <2>4. GetCurrentVersion(b) \in Nat /\ GetCurrentVersion(b)' \in Nat
        /\ GetCurrentVersion(b) <= GetCurrentVersion(b)'
    <3>1. CASE b = a
      BY <1>3, <1>13, <3>1
    <3>2. CASE b # a
      <4>1. PICK m \in Nat : Versions(b) = 1..m
        BY DEF IInv, Contiguous
      <4>2. Versions(b)' = 1..m
        BY <1>12, <3>2, <4>1
      <4>3. GetCurrentVersion(b)' = m
        BY <4>2, MaxOfInterval DEF GetCurrentVersion
      <4> QED
        BY <4>1, <4>3, CurrentVersion
    <3> QED
      BY <3>1, <3>2
  <2>5. Overtaken(t)'
    <3> SUFFICES ASSUME NEW i \in 1..Len(instance[t].uncommitted), NEW r \in events',
                        r.id = instance[t].uncommitted[i].id
                 PROVE  instance[t].version < GetCurrentVersion(b)'
      BY <1>1 DEF Overtaken
    <3>1. CASE r \in events
      <4>1. instance[t].version < GetCurrentVersion(b)
        BY <2>1, <3>1 DEF Traced, Overtaken
      <4> QED
        BY <2>1, <2>4, <4>1
    <3>2. CASE r \in inflight[s]
      <4>1. t = s
        BY <1>6, <2>1, <3>2 DEF Traced, AppliedInOrder
      <4> QED
        BY <1>3, <1>4, <1>13, <4>1
    <3> QED
      BY <1>1, <3>1, <3>2
  <2> QED
    BY <2>2, <2>3, <2>5 DEF Traced
<1> QED
  BY <1>8, <1>9, <1>10, <1>14 DEF StoredInv, StoredAsApplied

\* Every step keeps what is stored traced to what was applied.
LEMMA NextStoredInv == IInv /\ StoredInv /\ [Next]_vars => StoredInv'
<1> SUFFICES ASSUME IInv, StoredInv, [Next]_vars PROVE StoredInv'
  OBVIOUS
<1>0. \A s \in Sessions : pc[s] # "inserted" => inflight[s] = {}
  BY DEF IInv, Sound
<1>1. CASE UNCHANGED vars
  <2> USE <1>1 DEF vars
  <2>1. ASSUME NEW s \in Sessions PROVE Traced(s)'
    <3>1. Traced(s)
      BY DEF StoredInv
    <3>2. AppliedInOrder(s)'
      BY <3>1 DEF Traced, AppliedInOrder
    <3>3. BatchOf(s)'
      BY <3>1 DEF Traced, BatchOf
    <3>4. WrittenFromBatch(s)'
      BY <3>1 DEF Traced, WrittenFromBatch
    <3>5. Overtaken(s)'
      BY <3>1, SameEvents DEF Traced, Overtaken
    <3> QED
      BY <3>2, <3>3, <3>4, <3>5 DEF Traced
  <2> QED
    BY <2>1 DEF StoredInv, StoredAsApplied, StoredOnce, StoredVersionIsAppliedVersion
<1>2. ASSUME NEW s \in Sessions, NEW a \in Aggregates, LoadFromHistory(s, a) PROVE StoredInv'
  <2>1. /\ instance'[s].uncommitted = <<>> /\ pc'[s] = "idle" /\ inflight[s] = {}
        /\ \A t \in Sessions \ {s} : instance'[t] = instance[t] /\ pc'[t] = pc[t]
    BY <1>0, <1>2 DEF LoadFromHistory, IInv, TypeOK, AtRest
  <2> QED
    BY <1>2, <2>1, StoredByNewObject DEF LoadFromHistory
<1>3. ASSUME NEW s \in Sessions, Apply(s) PROVE StoredInv'
  BY <1>3, StoredByApply
<1>4. ASSUME NEW s \in Sessions, NEW transactional \in BOOLEAN, AppendCall(s, transactional)
      PROVE  StoredInv'
  BY <1>4, StoredByAppendCall
<1>5. ASSUME NEW s \in Sessions, NEW outcome \in AtRest, ReturnFromAppend(s, outcome),
             UNCHANGED <<events, instance, applied>>
      PROVE  StoredInv'
  <2>1. Frame(s) /\ pc'[s] = outcome /\ inflight'[s] = {}
    BY <1>5 DEF Frame, ReturnFromAppend, IInv, TypeOK
  <2>2. outcome \notin {"called", "checked", "inserted"}
    BY DEF AtRest
  <2> QED
    BY <1>5, <2>1, <2>2, LeavesAppend
<1>6. ASSUME NEW s \in Sessions, CheckVersion(s) PROVE StoredInv'
  <2>1. CASE GetCurrentVersion(instance[s].aggregate) = expected[s]
    <3>1. /\ pc' = [pc EXCEPT ![s] = "checked"] /\ pc[s] = "called"
          /\ UNCHANGED <<events, instance, applied, batch, expected, inflight>>
      BY <1>6, <2>1 DEF CheckVersion
    <3>2. Frame(s)
      BY <3>1 DEF Frame, IInv, TypeOK
    <3> QED
      BY <3>1, <3>2, LeavesAppend
  <2>2. CASE GetCurrentVersion(instance[s].aggregate) # expected[s]
    BY <1>5, <1>6, <2>2 DEF CheckVersion, AtRest
  <2> QED
    BY <2>1, <2>2
<1>7. ASSUME NEW s \in Sessions, Insert(s) PROVE StoredInv'
  BY <1>7, StoredByInsert
<1>8. ASSUME NEW s \in Sessions, UniqueViolation(s) PROVE StoredInv'
  BY <1>5, <1>8 DEF UniqueViolation, AtRest
<1>9. ASSUME NEW s \in Sessions, NEW acknowledged \in BOOLEAN, Commit(s, acknowledged)
      PROVE  StoredInv'
  BY <1>9, StoredByCommit
<1>10. ASSUME NEW s \in Sessions, Rollback(s) PROVE StoredInv'
  BY <1>5, <1>10 DEF Rollback, AtRest
<1>11. ASSUME NEW s \in Sessions, MarkEventsAsCommitted(s) PROVE StoredInv'
  <2>1. /\ instance'[s].uncommitted = <<>> /\ pc'[s] = "idle" /\ inflight[s] = {}
        /\ \A t \in Sessions \ {s} : instance'[t] = instance[t] /\ pc'[t] = pc[t]
    BY <1>0, <1>11 DEF MarkEventsAsCommitted, IInv, TypeOK
  <2> QED
    BY <1>11, <2>1, StoredByNewObject DEF MarkEventsAsCommitted
<1> QED
  BY <1>1, <1>2, <1>3, <1>4, <1>6, <1>7, <1>8, <1>9, <1>10, <1>11 DEF Next

\* Nothing is stored at first.
LEMMA InitStoredInv == Init => StoredInv
<1> SUFFICES ASSUME Init PROVE StoredInv
  OBVIOUS
<1>1. /\ events = {} /\ \A s \in Sessions : pc[s] = "idle" /\ inflight[s] = {}
      /\ \A s \in Sessions : instance[s].uncommitted = <<>>
  BY DEF Init
<1>2. \A s \in Sessions : 1..Len(instance[s].uncommitted) = {}
  BY <1>1
<1>3. \A s \in Sessions : Traced(s)
  BY <1>1, <1>2 DEF Traced, AppliedInOrder, BatchOf, WrittenFromBatch, Overtaken
<1> QED
  BY <1>1, <1>3 DEF StoredInv, StoredAsApplied, StoredOnce, StoredVersionIsAppliedVersion

\* For any number of sessions, aggregates and events, and wherever an
\* acknowledgement is lost: an event is stored at most once, under the version
\* that apply() gave it in memory.
THEOREM StoredOnceAsApplied == Spec => []StoredAsApplied
<1>1. StoredInv => StoredAsApplied
  BY DEF StoredInv
<1> QED
  BY <1>1, InitStoredInv, NextStoredInv, Invariance, PTL DEF Spec

-----------------------------------------------------------------------------
(* The table implements the log *)

\* The log of an aggregate has an entry for each of its rows, at its version.
LogsMatchRows ==
    \A a \in Aggregates :
        /\ GetCurrentVersion(a) \in Nat
        /\ LogOf(a) \in Seq(EventIds) /\ Len(LogOf(a)) = GetCurrentVersion(a)
        /\ \A v \in 1..GetCurrentVersion(a) :
              \E r \in events : r.aggregate = a /\ r.version = v /\ LogOf(a)[v] = r.id
        /\ \A r \in events : r.aggregate = a =>
              r.version \in 1..GetCurrentVersion(a) /\ LogOf(a)[r.version] = r.id

\* Contiguous versions are all it takes.
LEMMA LogShape == IInv => LogsMatchRows
<1> SUFFICES ASSUME IInv, NEW a \in Aggregates
             PROVE  /\ GetCurrentVersion(a) \in Nat
                    /\ LogOf(a) \in Seq(EventIds) /\ Len(LogOf(a)) = GetCurrentVersion(a)
                    /\ \A v \in 1..GetCurrentVersion(a) :
                          \E r \in events : r.aggregate = a /\ r.version = v /\ LogOf(a)[v] = r.id
                    /\ \A r \in events : r.aggregate = a =>
                          r.version \in 1..GetCurrentVersion(a) /\ LogOf(a)[r.version] = r.id
  BY DEF LogsMatchRows
<1> PICK n \in Nat : n = GetCurrentVersion(a) /\ Versions(a) = 1..n
  BY ContiguousVersions DEF IInv
<1>1. Cardinality(Versions(a)) = n
  BY FS_Interval
<1>2. ASSUME NEW v \in 1..n
      PROVE  \E r \in events : r.aggregate = a /\ r.version = v /\ r.id \in EventIds
  BY DEF Versions, IInv, TypeOK, Row
<1>3. ASSUME NEW r \in events, r.aggregate = a
      PROVE  r.version \in 1..n /\ r = CHOOSE x \in events : x.aggregate = a /\ x.version = r.version
  BY <1>3 DEF Versions, IInv, UniqueVersions
<1>4. LogOf(a) = [v \in 1..n |-> (CHOOSE r \in events : r.aggregate = a /\ r.version = v).id]
  BY <1>1 DEF LogOf
<1>5. \A r \in events : r.aggregate = a => r.version \in 1..n /\ LogOf(a)[r.version] = r.id
  BY <1>3, <1>4
<1>6. \A v \in 1..n : \E r \in events : r.aggregate = a /\ r.version = v /\ LogOf(a)[v] = r.id
                                        /\ r.id \in EventIds
  BY <1>2, <1>5
<1>7. LogOf(a) \in [1..n -> EventIds]
  BY <1>4, <1>6
<1> QED
  BY <1>5, <1>6, <1>7

\* A sequence that begins with another one is that one and the rest.
LEMMA PrefixAndRest ==
    ASSUME NEW S, NEW p \in Seq(S), NEW q \in Seq(S), Len(p) <= Len(q),
           \A i \in 1..Len(p) : q[i] = p[i]
    PROVE  /\ SubSeq(q, Len(p) + 1, Len(q)) \in Seq(S)
           /\ Len(SubSeq(q, Len(p) + 1, Len(q))) = Len(q) - Len(p)
           /\ \A i \in 1..(Len(q) - Len(p)) : SubSeq(q, Len(p) + 1, Len(q))[i] = q[Len(p) + i]
           /\ q = p \o SubSeq(q, Len(p) + 1, Len(q))
<1> DEFINE rest == SubSeq(q, Len(p) + 1, Len(q))
<1>1. Len(p) \in Nat /\ Len(q) \in Nat
  OBVIOUS
<1>2. rest \in Seq(S) /\ Len(rest) = Len(q) - Len(p)
      /\ \A i \in 1..Len(rest) : rest[i] = q[Len(p) + i]
  BY <1>1
<1>3. p \o rest \in Seq(S) /\ Len(p \o rest) = Len(q)
  BY <1>1, <1>2
<1>4. \A i \in 1..Len(q) : (p \o rest)[i] = q[i]
  BY <1>1, <1>2
<1> QED
  BY <1>1, <1>2, <1>3, <1>4

\* A step that leaves the table alone leaves the log alone.
LEMMA SameLog == ASSUME UNCHANGED events PROVE \A a : LogOf(a)' = LogOf(a)
BY DEF LogOf, Versions

\* A commit puts its batch on the end of the log of its aggregate, at the
\* length its writer knew, and none of its events is in a log already.
LEMMA CommitAppends ==
    ASSUME IInv, IInv', StoredInv', NEW s \in Sessions, NEW acknowledged \in BOOLEAN,
           Commit(s, acknowledged)
    PROVE  Log!Next
<1>1. /\ pc[s] = "inserted" /\ InflightOf(s) /\ events' = events \cup inflight[s]
  BY DEF Commit, IInv, Sound
<1> PICK a \in Aggregates : a = instance[s].aggregate
  BY TypesOf DEF IInv
<1> PICK n \in Nat, k \in Nat : k > 0 /\ n = expected[s] /\ k = Len(batch[s])
  <2>1. batch[s] \in Seq(DomainEvent) /\ batch[s] # <<>> /\ expected[s] \in Nat
    BY <1>1, TypesOf DEF IInv, InflightOf
  <2> QED
    BY <2>1
<1>2. GetCurrentVersion(a) = n /\ Versions(a) = 1..n
  BY <1>1, ContiguousVersions DEF InflightOf, IInv
<1>3. \A r \in inflight[s] : r.aggregate = a /\ r.version \in (n + 1)..(n + k)
  BY <1>1 DEF InflightOf
<1>4. Versions(a)' = 1..(n + k)
  <2>1. {r.version : r \in {x \in inflight[s] : x.aggregate = a}} = (n + 1)..(n + k)
    BY <1>1 DEF InflightOf
  <2>2. Versions(a)' = Versions(a) \cup {r.version : r \in {x \in inflight[s] : x.aggregate = a}}
    BY <1>1 DEF Versions
  <2>3. 1..n \cup (n + 1)..(n + k) = 1..(n + k)
    OBVIOUS
  <2> QED
    BY <1>2, <2>1, <2>2, <2>3
<1>5. GetCurrentVersion(a)' = n + k
  <2>1. n + k \in Nat
    OBVIOUS
  <2> QED
    BY <1>4, <2>1, MaxOfInterval DEF GetCurrentVersion
<1>6. LogsMatchRows /\ LogsMatchRows'
  BY LogShape, PTL
<1>7. ASSUME NEW b \in Aggregates, NEW v \in 1..GetCurrentVersion(b)
      PROVE  LogOf(b)'[v] = LogOf(b)[v]
  BY <1>1, <1>6 DEF LogsMatchRows
<1>8. ASSUME NEW b \in Aggregates, b # a PROVE LogOf(b)' = LogOf(b)
  <2>1. Versions(b)' = Versions(b)
    BY <1>1, <1>3, <1>8 DEF Versions
  <2>2. PICK m \in Nat : Versions(b) = 1..m
    BY DEF IInv, Contiguous
  <2>3. GetCurrentVersion(b) = m
    BY <2>2, CurrentVersion
  <2>4. GetCurrentVersion(b)' = m
    BY <2>1, <2>2, MaxOfInterval DEF GetCurrentVersion
  <2> QED
    BY <1>6, <1>7, <2>3, <2>4 DEF LogsMatchRows
<1>9. PICK old \in Seq(EventIds), long \in Seq(EventIds) : old = LogOf(a) /\ long = LogOf(a)'
  BY <1>6 DEF LogsMatchRows
<1>10. Len(old) = n /\ Len(long) = n + k /\ \A i \in 1..n : long[i] = old[i]
  BY <1>2, <1>5, <1>6, <1>7, <1>9 DEF LogsMatchRows
<1>11. /\ SubSeq(long, n + 1, n + k) \in Seq(EventIds)
       /\ Len(SubSeq(long, n + 1, n + k)) = k
       /\ \A i \in 1..k : SubSeq(long, n + 1, n + k)[i] = long[n + i]
       /\ long = old \o SubSeq(long, n + 1, n + k)
  <2>1. n <= n + k /\ (n + k) - n = k
    OBVIOUS
  <2>2. \A p, q \in Seq(EventIds) :
           /\ Len(p) <= Len(q) /\ \A i \in 1..Len(p) : q[i] = p[i]
           => /\ SubSeq(q, Len(p) + 1, Len(q)) \in Seq(EventIds)
              /\ Len(SubSeq(q, Len(p) + 1, Len(q))) = Len(q) - Len(p)
              /\ \A i \in 1..(Len(q) - Len(p)) : SubSeq(q, Len(p) + 1, Len(q))[i] = q[Len(p) + i]
              /\ q = p \o SubSeq(q, Len(p) + 1, Len(q))
    BY PrefixAndRest
  <2>3. Len(old) <= Len(long) /\ \A i \in 1..Len(old) : long[i] = old[i]
    BY <1>10, <2>1
  <2>4. /\ SubSeq(long, Len(old) + 1, Len(long)) \in Seq(EventIds)
        /\ Len(SubSeq(long, Len(old) + 1, Len(long))) = Len(long) - Len(old)
        /\ \A i \in 1..(Len(long) - Len(old)) :
              SubSeq(long, Len(old) + 1, Len(long))[i] = long[Len(old) + i]
        /\ long = old \o SubSeq(long, Len(old) + 1, Len(long))
    BY <2>2, <2>3
  <2> QED
    BY <1>10, <2>1, <2>4
<1>12. PICK new : /\ new = SubSeq(long, n + 1, n + k)
                  /\ new \in Seq(EventIds) /\ Len(new) = k /\ new # <<>>
                  /\ \A i \in 1..k : new[i] = long[n + i]
                  /\ long = old \o new
  <2>1. Len(SubSeq(long, n + 1, n + k)) # Len(<<>>)
    BY <1>11
  <2>2. SubSeq(long, n + 1, n + k) # <<>>
    BY <2>1, Zenon
  <2> QED
    BY <1>11, <2>2
<1>13. DOMAIN new = 1..k
  BY <1>12
<1>14. ASSUME NEW i \in 1..k
       PROVE  \E r \in events' : r.aggregate = a /\ r.version = n + i /\ new[i] = r.id
  <2>1. n + i \in 1..(n + k)
    OBVIOUS
  <2>2. \A v \in 1..(GetCurrentVersion(a)') :
           \E r \in events' : r.aggregate = a /\ r.version = v /\ LogOf(a)'[v] = r.id
    BY <1>6 DEF LogsMatchRows
  <2>3. \E r \in events' : r.aggregate = a /\ r.version = n + i /\ LogOf(a)'[n + i] = r.id
    BY <1>5, <2>1, <2>2
  <2>4. new[i] = LogOf(a)'[n + i]
    BY <1>9, <1>12
  <2> QED
    BY <2>3, <2>4
<1>15. \A i \in 1..k : \A b \in Aggregates : \A j \in DOMAIN LogOf(b) : LogOf(b)[j] # new[i]
  <2> SUFFICES ASSUME NEW i \in 1..k, NEW b \in Aggregates, NEW j \in DOMAIN LogOf(b),
                      LogOf(b)[j] = new[i]
               PROVE  FALSE
    OBVIOUS
  <2>1. PICK r \in events' : r.aggregate = a /\ r.version = n + i /\ new[i] = r.id
    BY <1>14
  <2>2. j \in 1..GetCurrentVersion(b)
    <3>1. LogOf(b) \in Seq(EventIds) /\ Len(LogOf(b)) = GetCurrentVersion(b)
      BY <1>6 DEF LogsMatchRows
    <3> QED
      BY <3>1
  <2>3. PICK q \in events : LogOf(b)[j] = q.id
    BY <1>6, <2>2 DEF LogsMatchRows
  <2>4. q = r
    BY <1>1, <2>1, <2>3 DEF StoredInv, StoredAsApplied, StoredOnce
  <2>5. n + i \in Versions(a)
    BY <2>1, <2>3, <2>4 DEF Versions
  <2> QED
    BY <1>2, <2>5
<1>16. \A i, j \in 1..k : i # j => new[i] # new[j]
  <2> SUFFICES ASSUME NEW i \in 1..k, NEW j \in 1..k, new[i] = new[j] PROVE i = j
    OBVIOUS
  <2>1. PICK r \in events' : r.version = n + i /\ new[i] = r.id
    BY <1>14
  <2>2. PICK q \in events' : q.version = n + j /\ new[j] = q.id
    BY <1>14
  <2>3. q = r
    BY <2>1, <2>2 DEF StoredInv, StoredAsApplied, StoredOnce
  <2> QED
    BY <2>1, <2>2, <2>3
<1>17. Logs' = [Logs EXCEPT ![a] = old \o new]
  <2>1. \A b \in Aggregates : LogOf(b)' = IF b = a THEN old \o new ELSE LogOf(b)
    BY <1>8, <1>9, <1>12
  <2>2. Logs' = [b \in Aggregates |-> LogOf(b)']
    BY DEF Logs
  <2> QED
    BY <2>1, <2>2 DEF Logs
<1>18. Logs[a] = old /\ Logs'[a] = long
  BY <1>9 DEF Logs
<1>19. \A i \in DOMAIN new : ~ Log!Recorded(new[i])
  BY <1>13, <1>15 DEF Log!Recorded, Logs
<1>20. Log!Append1(a, new, n)
  <2>1. new # <<>> /\ Len(Logs[a]) = n /\ Logs' = [Logs EXCEPT ![a] = Logs[a] \o new]
    BY <1>10, <1>12, <1>17, <1>18
  <2>2. \A i, j \in DOMAIN new : i # j => new[i] # new[j]
    BY <1>13, <1>16
  <2> QED
    BY <1>19, <2>1, <2>2 DEF Log!Append1
<1>21. /\ Len(Logs[a]) = n /\ Len(Logs'[a]) = n + k
       /\ SubSeq(Logs'[a], Len(Logs[a]) + 1, Len(Logs'[a])) = new
  BY <1>10, <1>12, <1>18
<1>22. Len(Logs'[a]) > Len(Logs[a])
  BY <1>21
<1> QED
  BY <1>20, <1>21, <1>22 DEF Log!Next

\* For any number of sessions and aggregates, the table of events implements
\* the append-only log: a batch lands whole, on the end of one stream, at the
\* length its writer knew, and no event lands twice.
THEOREM EventLogRefinement == Spec => ImplementsEventLog
<1>1. Init => Log!Init
  <2> SUFFICES ASSUME Init, NEW a \in Aggregates PROVE LogOf(a) = <<>>
    BY DEF Log!Init, Logs
  <2>1. Versions(a) = 1..0
    BY DEF Init, Versions
  <2>2. Cardinality(Versions(a)) = 0
    BY <2>1, FS_EmptySet
  <2> QED
    BY <2>2 DEF LogOf
<1>2. IInv /\ IInv' /\ StoredInv' /\ [Next]_vars => [Log!Next]_Logs
  <2> SUFFICES ASSUME IInv, IInv', StoredInv', [Next]_vars PROVE Log!Next \/ Logs' = Logs
    BY DEF Log!Next
  <2>1. CASE UNCHANGED events
    BY <2>1, SameLog DEF Logs
  <2>2. CASE \E s \in Sessions : Insert(s)
    BY <2>2, SameLog DEF Insert, Logs
  <2>3. CASE \E s \in Sessions, acknowledged \in BOOLEAN : Commit(s, acknowledged)
    BY <2>3, CommitAppends
  <2> QED
    BY <2>1, <2>2, <2>3, StepEffect
<1> QED
  BY <1>1, <1>2, InitStoredInv, NextStoredInv, Invariance, PTL DEF Spec, ImplementsEventLog, Log!Spec

-----------------------------------------------------------------------------
(* The REST routes and GraphQL resolvers *)

\* The routes and resolvers on their own, without the other parts of the run.
EndpointsSpec == EndpointsInit /\ [][EndpointsNext]_endpointVars

Verbs == {"none", "get", "put", "delete", "deleted", "restore"}
Statuses == {0, 200, 204, 404, 409, 500}
Answers == [status : Statuses, version : Nat]
Asked == [verb : Verbs, sends : Nat, column : Columns, on : Values,
          at : {"new", "asked", "found", "assigned", "updated", "deleted", "restored", "answered"},
          row : Answers, answer : Answers]
Instances == [version : Nat, values : [Columns -> Values],
              oldVersion : Nat, oldValues : [Columns -> Values]]

EndpointsTyped ==
    /\ endpoint \in EndpointKinds
    /\ record \in [there : BOOLEAN, hidden : BOOLEAN, version : Nat, values : [Columns -> Values]]
    /\ managed \in [Requests -> Instances]
    /\ identity \in Values
    /\ request \in [Requests -> Asked]
    /\ stored \subseteq Values /\ mixed \subseteq Requests /\ busy \subseteq Requests
    /\ listed \in BOOLEAN /\ rejected \subseteq Requests

\* What a request is at, and what it can work on there.
Stage(r) ==
    /\ request[r].at = "new" => request[r].verb = "none"
    /\ request[r].at \in {"new", "asked"} => request[r].on = NoRequest /\ r \notin rejected
    /\ request[r].at \in {"assigned", "updated"} => Updates(r)
    /\ request[r].at = "deleted" => request[r].verb = "delete"
    /\ request[r].at = "restored" => request[r].verb = "restore"
    /\ request[r].at \in {"found", "assigned", "updated"} => request[r].on # NoRequest
    /\ request[r].verb \in {"deleted", "restore"} => endpoint.soft
    /\ request[r].at # "answered" => request[r].answer.status = 0
    /\ r \in rejected => Updates(r) /\ request[r].at = "answered"

\* Whose instance somebody works on, or the cache holds, has been loaded.
Loaded(k) == k \in Requests => request[k].at \notin {"new", "asked"}

\* Two updates of one instance at a time are known as such.
Shared(q, r) ==
    q # r /\ Updates(q) /\ Updates(r) /\ Under(q) /\ Under(r) /\ request[q].on = request[r].on
        /\ request[q].on # NoRequest
    => r \in mixed

\* The row's values were stored, and so were those of every snapshot; what an instance
\* has that was not is of an update of this instance.
Known ==
    /\ NoRequest \in stored
    /\ \A c \in Columns : record.values[c] \in stored
    /\ endpoint.soft => record.there
    /\ ~endpoint.soft => ~record.hidden
Origin(k) ==
    \A c \in Columns :
        /\ managed[k].oldValues[c] \in stored
        /\ LET v == managed[k].values[c]
           IN v \notin stored => /\ Updates(v) /\ request[v].on = k
                                 /\ request[v].at \in {"assigned", "updated", "answered"}

\* Where an update is that has its instance for itself.
Alone(r) ==
    /\ request[r].at \in {"new", "asked", "found"} => r \notin stored
    /\ r \notin mixed /\ Updates(r) =>
        /\ request[r].at = "assigned" =>
              /\ r \notin stored
              /\ managed[request[r].on].values[request[r].column] = r
              /\ request[r].sends > 0 => managed[request[r].on].version = request[r].sends
        /\ request[r].at = "updated" =>
              /\ request[r].row.status \in {200, 409}
              /\ request[r].row.status = 409 => r \notin stored
        /\ request[r].at = "answered" =>
              /\ request[r].answer.status \in {200, 404, 409, 500}
              /\ request[r].answer.status = 404 => request[r].on = NoRequest
              /\ request[r].answer.status \in {404, 409} => r \notin stored
              /\ request[r].answer.status = 409 =>
                     /\ request[r].on # NoRequest
                     /\ identity # request[r].on
                     /\ \A q \in Requests : Updates(q) /\ Under(q) => request[q].on # request[r].on
              /\ request[r].answer.status = 500 /\ r \in stored =>
                     \E q \in Requests \ {r} : /\ Updates(q) /\ request[q].on = request[r].on
                                               /\ request[q].at \in {"updated", "answered"}

\* The row was updated by r, which has been or will be told so.
Stores(r) == \/ request[r].at = "updated" /\ request[r].row.status = 200
             \/ request[r].at = "answered" /\ request[r].answer.status = 200

Past(r) == r \notin mixed /\ Updates(r) /\ Stores(r) =>
               r \in stored /\ (request[r].sends > 0 => request[r].sends < record.version)

Apart(q, r) == {q, r} \cap mixed = {} /\ Updates(q) /\ Updates(r) /\ Stores(q) /\ Stores(r)
                   /\ request[q].sends > 0 /\ q # r
               => request[q].sends # request[r].sends

\* Somebody has changed the row and is about to clear the cache.
Clearing == \E q \in Requests : request[q].at \in {"updated", "deleted", "restored"}

\* The cached instance, unless it is about to go, was loaded from the row as it is, and
\* is as it was loaded unless an update is at it or has left it.
Cached ==
    identity # NoRequest /\ ~Clearing =>
        /\ managed[identity].oldVersion = record.version
        /\ managed[identity].oldValues = record.values
        /\ record.there /\ (record.hidden => listed)
        /\ \/ Clean(managed[identity])
           \/ \E q \in Requests : request[q].on = identity /\ request[q].at = "assigned"
           \/ \E q \in rejected : request[q].on = identity

Current(k) ==
    \/ record.hidden /\ listed
    \/ \E q \in rejected : request[q].on = k
    \/ Visible /\ managed[k].version = record.version /\ managed[k].values = record.values

Reads(r) ==
    request[r].verb = "get" /\ Under(r) /\ r \notin busy =>
        /\ \A q \in Requests : Under(q) => request[q].verb = "get"
        /\ request[r].at = "found" => Current(request[r].on)

\* The inductive invariant: what is cached and what is worked on come from the row, a value
\* nobody has stored belongs to an update of its instance, and every request knows as
\* much of the row as its answer says.
EInv == /\ EndpointsTyped /\ Known /\ Cached /\ Loaded(identity)
        /\ \A r \in Requests : /\ Stage(r) /\ Loaded(request[r].on) /\ Origin(r)
                               /\ Alone(r) /\ Past(r) /\ Reads(r)
        /\ \A q, r \in Requests : Shared(q, r) /\ Apart(q, r)

-----------------------------------------------------------------------------
(* What the actions have in common *)

LEMMA EndpointConstants ==
    /\ NoRequest \notin Requests /\ Requests \subseteq Nat /\ NewRequest.column \in Columns
    /\ EndpointKinds \subseteq [api : {"rest", "graphql"}, soft : BOOLEAN,
                                verbs : SUBSET {"get", "put", "delete", "deleted", "restore"}]
<1>1. (CHOOSE c \in Columns : TRUE) \in Columns  BY EndpointsAssumption
<1>. QED  BY <1>1, EndpointsAssumption DEF NewRequest

LEMMA FieldsOfRequest ==
    ASSUME request \in [Requests -> Asked], NEW r \in Requests
    PROVE  /\ request[r].verb \in Verbs /\ request[r].sends \in Nat /\ request[r].column \in Columns
           /\ request[r].on \in Values /\ request[r].row \in Answers /\ request[r].answer \in Answers
           /\ request[r].at \in {"new", "asked", "found", "assigned", "updated", "deleted", "restored",
                                 "answered"}
BY DEF Asked

LEMMA FieldsOfInstance ==
    ASSUME NEW i \in Instances
    PROVE  /\ i.version \in Nat /\ i.values \in [Columns -> Values]
           /\ i.oldVersion \in Nat /\ i.oldValues \in [Columns -> Values]
BY DEF Instances

LEMMA NoInstanceIsOne == NoInstance \in Instances
BY DEF NoInstance, Instances, NoValues, Values

\* Everybody but r stays where it is.
Apiece(r) == \A q \in Requests : q # r => request'[q] = request[q]

\* A request is a function of its fields.
RequestFields == {"verb", "sends", "column", "on", "at", "row", "answer"}

LEMMA FieldwiseIs ==
    ASSUME NEW d \in Asked
    PROVE  d = [f \in RequestFields |-> d[f]]
BY DEF Asked, RequestFields

\* The answer a, with what is kept of the request.
Answered(r, a) ==
    /\ request' \in [Requests -> Asked] /\ Apiece(r)
    /\ request'[r].at = "answered" /\ request'[r].answer = a
    /\ Updates(r) => /\ request'[r].verb = "put" /\ request'[r].sends = request[r].sends
                     /\ request'[r].on = request[r].on
    /\ ~Updates(r) => request'[r].verb = "none" /\ request'[r].on = NoRequest

LEMMA AnswerIs ==
    ASSUME request \in [Requests -> Asked], NEW r \in Requests, NEW a \in Answers, Answer(r, a)
    PROVE  Answered(r, a)
<1>1. NewRequest.column \in Columns  BY EndpointConstants
<1>2. PICK c \in Columns : c = NewRequest.column  BY <1>1
<1>3. NoAnswer \in Answers  BY DEF NoAnswer, Answers, Statuses
<1>4. NewRequest = [verb |-> "none", sends |-> 0, column |-> c, on |-> NoRequest,
                    at |-> "new", row |-> NoAnswer, answer |-> NoAnswer]
  BY <1>2 DEF NewRequest
<1>5. request[r].sends \in Nat /\ request[r].on \in Values  BY FieldsOfRequest
<1>6. CASE Updates(r)
  <2>1. PICK n \in Nat, o \in Values : n = request[r].sends /\ o = request[r].on  BY <1>5
  <2>2. PICK x : x = [verb |-> "put", sends |-> n, column |-> c, on |-> o,
                      at |-> "answered", row |-> NoAnswer, answer |-> a]
    OBVIOUS
  <2>5. [NewRequest EXCEPT !.verb = "put", !.sends = n, !.on = o, !.at = "answered", !.answer = a] = x
    <3>1. NewRequest = [f \in RequestFields |-> NewRequest[f]]  BY <1>4 DEF RequestFields
    <3>2. [NewRequest EXCEPT !.verb = "put", !.sends = n, !.on = o, !.at = "answered", !.answer = a]
          = [f \in RequestFields |-> IF f = "answer" THEN a ELSE IF f = "at" THEN "answered"
                                     ELSE IF f = "on" THEN o ELSE IF f = "sends" THEN n
                                     ELSE IF f = "verb" THEN "put" ELSE NewRequest[f]]
      BY <3>1 DEF RequestFields
    <3>. QED  BY <1>4, <2>2, <3>2 DEF RequestFields
  <2>3. request' = [request EXCEPT ![r] = x]  BY <1>6, <2>1, <2>5 DEF Answer
  <2>4. x \in Asked  BY <1>3, <2>2 DEF Asked, Verbs
  <2>. QED  BY <1>6, <2>1, <2>2, <2>3, <2>4 DEF Answered, Apiece
<1>7. CASE ~Updates(r)
  <2>1. PICK x : x = [verb |-> "none", sends |-> 0, column |-> c, on |-> NoRequest,
                      at |-> "answered", row |-> NoAnswer, answer |-> a]
    OBVIOUS
  <2>5. [NewRequest EXCEPT !.at = "answered", !.answer = a] = x
    <3>1. NewRequest = [f \in RequestFields |-> NewRequest[f]]  BY <1>4 DEF RequestFields
    <3>2. [NewRequest EXCEPT !.at = "answered", !.answer = a]
          = [f \in RequestFields |-> IF f = "answer" THEN a ELSE IF f = "at" THEN "answered"
                                     ELSE NewRequest[f]]
      BY <3>1 DEF RequestFields
    <3>. QED  BY <1>4, <2>1, <3>2 DEF RequestFields
  <2>2. request' = [request EXCEPT ![r] = x]  BY <1>7, <2>5 DEF Answer
  <2>3. x \in Asked  BY <1>3, <2>1 DEF Asked, Verbs, Values
  <2>. QED  BY <1>7, <2>1, <2>2, <2>3 DEF Answered, Apiece
<1>. QED  BY <1>6, <1>7

\* Only where the request is, and what it works on, has changed.
Walks(r, at, on) ==
    /\ request' \in [Requests -> Asked] /\ Apiece(r)
    /\ request'[r].at = at /\ request'[r].on = on
    /\ request'[r].verb = request[r].verb /\ request'[r].sends = request[r].sends
    /\ request'[r].column = request[r].column /\ request'[r].answer = request[r].answer

Stages == {"new", "asked", "found", "assigned", "updated", "deleted", "restored", "answered"}

LEMMA GoesIs ==
    ASSUME request \in [Requests -> Asked], NEW r \in Requests, NEW at \in Stages, NEW on \in Values,
           request' = [request EXCEPT ![r].on = on, ![r].at = at]
    PROVE  Walks(r, at, on)
<1>1. PICK v \in Verbs, n \in Nat, c \in Columns, o \in Values, t \in Stages, w \in Answers, a \in Answers :
          request[r] = [verb |-> v, sends |-> n, column |-> c, on |-> o, at |-> t, row |-> w, answer |-> a]
  BY DEF Asked, Stages
<1>2. PICK x : x = [verb |-> v, sends |-> n, column |-> c, on |-> on, at |-> at, row |-> w, answer |-> a]
  OBVIOUS
<1>5. [request[r] EXCEPT !.on = on, !.at = at] = x
  <2>1. request[r] = [f \in RequestFields |-> request[r][f]]  BY FieldwiseIs
  <2>2. [request[r] EXCEPT !.on = on, !.at = at] = [f \in RequestFields |-> IF f = "at" THEN at ELSE IF f = "on" THEN on ELSE request[r][f]]
    BY <2>1 DEF RequestFields
  <2>. QED  BY <1>1, <1>2, <2>2 DEF RequestFields
<1>3. request' = [request EXCEPT ![r] = x]
  <2>1. request' = [q \in Requests |-> IF q = r THEN [request[r] EXCEPT !.on = on, !.at = at] ELSE request[q]]  OBVIOUS
  <2>. QED  BY <1>5, <2>1
<1>4. x \in Asked  BY <1>2 DEF Asked, Stages
<1>6. request'[r] = x /\ Apiece(r) /\ request' \in [Requests -> Asked]  BY <1>3, <1>4 DEF Apiece
<1>. QED  BY <1>1, <1>2, <1>6 DEF Walks

LEMMA StaysIs ==
    ASSUME request \in [Requests -> Asked], NEW r \in Requests, NEW at \in Stages,
           request' = [request EXCEPT ![r].at = at]
    PROVE  Walks(r, at, request[r].on)
<1>1. PICK v \in Verbs, n \in Nat, c \in Columns, o \in Values, t \in Stages, w \in Answers, a \in Answers :
          request[r] = [verb |-> v, sends |-> n, column |-> c, on |-> o, at |-> t, row |-> w, answer |-> a]
  BY DEF Asked, Stages
<1>2. PICK x : x = [verb |-> v, sends |-> n, column |-> c, on |-> o, at |-> at, row |-> w, answer |-> a]
  OBVIOUS
<1>5. [request[r] EXCEPT !.at = at] = x  BY <1>1, <1>2
<1>3. request' = [request EXCEPT ![r] = x]
  <2>1. request' = [q \in Requests |-> IF q = r THEN [request[r] EXCEPT !.at = at] ELSE request[q]]  OBVIOUS
  <2>. QED  BY <1>5, <2>1
<1>4. x \in Asked  BY <1>2 DEF Asked, Stages
<1>6. request'[r] = x /\ Apiece(r) /\ request' \in [Requests -> Asked]  BY <1>3, <1>4 DEF Apiece
<1>. QED  BY <1>1, <1>2, <1>6 DEF Walks

RowTold(r, b) == request' = [request EXCEPT ![r].at = "updated", ![r].row = b]

LEMMA RowIs ==
    ASSUME request \in [Requests -> Asked], NEW r \in Requests, NEW b \in Answers, RowTold(r, b)
    PROVE  Walks(r, "updated", request[r].on) /\ request'[r].row = b
<1>1. PICK v \in Verbs, n \in Nat, c \in Columns, o \in Values, t \in Stages, w \in Answers, a \in Answers :
          request[r] = [verb |-> v, sends |-> n, column |-> c, on |-> o, at |-> t, row |-> w, answer |-> a]
  BY DEF Asked, Stages
<1>2. PICK x : x = [verb |-> v, sends |-> n, column |-> c, on |-> o, at |-> "updated", row |-> b, answer |-> a]
  OBVIOUS
<1>5. [request[r] EXCEPT !.at = "updated", !.row = b] = x
  <2>1. request[r] = [f \in RequestFields |-> request[r][f]]  BY FieldwiseIs
  <2>2. [request[r] EXCEPT !.at = "updated", !.row = b] = [f \in RequestFields |-> IF f = "row" THEN b ELSE IF f = "at" THEN "updated" ELSE request[r][f]]
    BY <2>1 DEF RequestFields
  <2>. QED  BY <1>1, <1>2, <2>2 DEF RequestFields
<1>3. request' = [request EXCEPT ![r] = x]
  <2>1. request' = [q \in Requests |-> IF q = r THEN [request[r] EXCEPT !.at = "updated", !.row = b] ELSE request[q]]
    BY DEF RowTold
  <2>. QED  BY <1>5, <2>1
<1>4. x \in Asked  BY <1>2 DEF Asked
<1>6. request'[r] = x /\ Apiece(r) /\ request' \in [Requests -> Asked]  BY <1>3, <1>4 DEF Apiece
<1>. QED  BY <1>1, <1>2, <1>6 DEF Walks

\* Who has an instance.
Used(k) == identity = k \/ \E q \in Requests : request[q].on = k /\ Under(q)

LEMMA HeapIs ==
    ASSUME NEW h \in [Requests -> Instances], Heap(h)
    PROVE  /\ managed' \in [Requests -> Instances]
           /\ \A k \in Requests : /\ Used(k)' => managed'[k] = h[k]
                                  /\ ~Used(k)' => managed'[k] = NoInstance
<1>1. managed' = [k \in Requests |-> IF Used(k)' THEN h[k] ELSE NoInstance]
  BY DEF Heap, Used, Under
<1>. QED  BY <1>1, NoInstanceIsOne

\* A step of a request that has come in, and what it leaves to the others.
Goes(r) ==
    /\ Apiece(r) /\ endpoint' = endpoint /\ mixed' = mixed /\ busy' = busy
    /\ Under(r) /\ request'[r].at \notin {"new", "asked"}
    /\ \/ request'[r].verb = request[r].verb
       \/ ~Updates(r) /\ request'[r].verb = "none" /\ request'[r].at = "answered"
    /\ Updates(r) => request'[r].sends = request[r].sends
    /\ request[r].at = "updated" => request'[r].at = "answered"
    /\ \/ request'[r].on = request[r].on
       \/ request[r].at = "asked" /\ request'[r].on = r
       \/ ~Updates(r) /\ request'[r].on = NoRequest
    /\ \/ identity' \in {identity, NoRequest}
       \/ identity' = r /\ request[r].at = "asked"

\* What has been stored was in the instance the request works on.
Stored(r) ==
    /\ stored \subseteq stored'
    /\ \A v \in stored' :
           \/ v \in stored
           \/ /\ Updates(r) /\ request[r].at = "assigned" /\ request'[r].at = "updated"
              /\ Updates(v) /\ request[v].on = request[r].on
              /\ request[v].at \in {"assigned", "updated", "answered"}

\* No instance that another uses changes, except by an update.
Touches(r) ==
    \A k \in Requests : \/ managed'[k] = managed[k]
                        \/ ~Used(k)'
                        \/ k = r /\ request[r].at = "asked"
                        \/ Updates(r) /\ request[r].on = k

LEMMA StagesKept ==
    ASSUME EInv, NEW r \in Requests, Goes(r), Stage(r)',
           rejected \subseteq rejected', rejected' \subseteq rejected \cup {r}
    PROVE  Loaded(identity)' /\ \A q \in Requests : Stage(q)' /\ Loaded(request[q].on)'
<1>1. /\ \A q \in Requests : Stage(q) /\ Loaded(request[q].on)
      /\ Loaded(identity) /\ NoRequest \notin Requests
  BY EndpointConstants DEF EInv
<1>2. ASSUME NEW k, Loaded(k) PROVE Loaded(k)'
  BY <1>2 DEF Loaded, Goes, Apiece
<1>3. Loaded(r)' /\ Loaded(NoRequest)'  BY <1>1 DEF Loaded, Goes
<1>4. Loaded(identity)'
  <2>1. identity' \in {identity, NoRequest, r}  BY DEF Goes
  <2>2. PICK k : k = identity'  OBVIOUS
  <2>3. Loaded(k)'  BY <1>1, <1>2, <1>3, <2>1, <2>2
  <2>. QED  BY <2>2, <2>3 DEF Loaded
<1>5. ASSUME NEW q \in Requests PROVE Stage(q)' /\ Loaded(request[q].on)'
  <2>1. CASE q = r
    <3>1. PICK k : k = request'[r].on  OBVIOUS
    <3>2. k \in {request[r].on, NoRequest, r}  BY <3>1 DEF Goes
    <3>3. Loaded(k)'  BY <1>1, <1>2, <1>3, <3>2
    <3>. QED  BY <2>1, <3>1, <3>3 DEF Loaded
  <2>2. CASE q # r
    <3>1. request'[q] = request[q] /\ (q \in rejected' <=> q \in rejected) /\ endpoint' = endpoint
      BY <2>2 DEF Goes, Apiece
    <3>2. Stage(q)'  BY <1>1, <3>1 DEF Stage, Updates
    <3>3. PICK k : k = request[q].on  OBVIOUS
    <3>4. Loaded(k)'  BY <1>1, <1>2, <3>3
    <3>. QED  BY <3>1, <3>2, <3>3, <3>4 DEF Loaded
  <2>. QED  BY <2>1, <2>2
<1>. QED  BY <1>4, <1>5

LEMMA SharedKept ==
    ASSUME EInv, NEW r \in Requests, Goes(r)
    PROVE  \A p, q \in Requests : Shared(p, q)'
<1>. SUFFICES ASSUME NEW p \in Requests, NEW q \in Requests, p # q, Updates(p)', Updates(q)', Under(p)', Under(q)',
                     request'[p].on = request'[q].on, request'[p].on # NoRequest
              PROVE  q \in mixed'
  BY DEF Shared
<1>1. /\ \A k \in Requests : Loaded(request[k].on)
      /\ Shared(p, q)
  BY DEF EInv
<1>2. ASSUME NEW k \in {p, q}
      PROVE  /\ Updates(k) /\ Under(k)
             /\ request'[k].on = request[k].on \/ (k = r /\ request[r].at = "asked" /\ request'[r].on = r)
  <2>1. k \in Requests /\ Updates(k)' /\ Under(k)'  OBVIOUS
  <2>2. CASE k = r
    <3>1. request'[r].verb = "put" /\ request'[r].at # "answered"  BY <2>1, <2>2 DEF Updates, Under
    <3>2. request[r].verb = "put" /\ Under(r)  BY <3>1 DEF Goes, Updates
    <3>. QED  BY <2>2, <3>2 DEF Goes, Updates
  <2>3. CASE k # r
    <3>1. request'[k] = request[k]  BY <2>1, <2>3 DEF Goes, Apiece
    <3>. QED  BY <2>1, <3>1 DEF Updates, Under
  <2>. QED  BY <2>2, <2>3
<1>3. request'[p].on = request[p].on /\ request'[q].on = request[q].on
  BY <1>1, <1>2 DEF Loaded
<1>4. q \in mixed  BY <1>1, <1>2, <1>3 DEF Shared
<1>. QED  BY <1>4 DEF Goes

LEMMA OriginKept ==
    ASSUME EInv, NEW r \in Requests, Goes(r), stored \subseteq stored',
           request[r].at \in {"assigned", "updated"} => request'[r].at \in {"assigned", "updated", "answered"},
           NEW k \in Requests, managed'[k] \in {managed[k], NoInstance}
    PROVE  Origin(k)'
<1>1. Origin(k) /\ NoRequest \in stored /\ managed[k] \in Instances /\ stored \subseteq Values
  BY DEF EInv, EndpointsTyped, Known
<1>2. CASE managed'[k] = NoInstance
  <2>1. \A c \in Columns : managed'[k].oldValues[c] = NoRequest /\ managed'[k].values[c] = NoRequest
    BY <1>2 DEF NoInstance, NoValues
  <2>2. NoRequest \in stored'  BY <1>1
  <2>. QED  BY <2>1, <2>2 DEF Origin
<1>3. CASE managed'[k] = managed[k]
  <2>. SUFFICES ASSUME NEW c \in Columns, NEW v, v = managed'[k].values[c]
                PROVE  /\ managed'[k].oldValues[c] \in stored'
                       /\ v \notin stored' =>
                             /\ request'[v].verb = "put" /\ request'[v].on = k
                             /\ request'[v].at \in {"assigned", "updated", "answered"}
    BY DEF Origin, Updates
  <2>1. v = managed[k].values[c]  BY <1>3
  <2>2. v \in Values  BY <1>1, <2>1, FieldsOfInstance
  <2>3. managed[k].oldValues[c] \in stored
        /\ (v \notin stored => /\ Updates(v) /\ request[v].on = k
                               /\ request[v].at \in {"assigned", "updated", "answered"})
    BY <1>1, <2>1 DEF Origin
  <2>4. CASE v \in stored'  BY <1>1, <1>3, <2>3, <2>4
  <2>5. CASE v \notin stored'
    <3>1. v \notin stored /\ v \in Requests  BY <1>1, <2>2, <2>5 DEF Values
    <3>2. Updates(v) /\ request[v].on = k /\ request[v].at \in {"assigned", "updated", "answered"}
      BY <2>3, <3>1
    <3>3. Updates(v)' /\ request'[v].on = k /\ request'[v].at \in {"assigned", "updated", "answered"}
      <4>1. CASE v = r  BY <3>2, <4>1 DEF Goes, Updates, Under
      <4>2. CASE v # r
        <5>1. request'[v] = request[v]  BY <3>1, <4>2 DEF Goes, Apiece
        <5>. QED  BY <3>2, <5>1 DEF Updates
      <4>. QED  BY <4>1, <4>2
    <3>. QED  BY <1>1, <1>3, <2>3, <3>3 DEF Updates
  <2>. QED  BY <2>4, <2>5
<1>. QED  BY <1>2, <1>3

\* r has updated the row with the version it was sent.
Raises(r) == /\ r \in stored' /\ record.version < record'.version
             /\ request[r].sends > 0 => request[r].sends = record.version

LEMMA PastKept ==
    ASSUME EInv, NEW r \in Requests, Goes(r), stored \subseteq stored',
           record.version <= record'.version, record'.version \in Nat,
           Updates(r)' /\ Stores(r)' /\ r \notin mixed => Stores(r) \/ Raises(r)
    PROVE  /\ \A q \in Requests : Past(q)'
           /\ \A p, q \in Requests : Apart(p, q)'
<1>1. /\ \A q \in Requests : Past(q)
      /\ \A p, q \in Requests : Apart(p, q)
      /\ request \in [Requests -> Asked] /\ record.version \in Nat
  BY DEF EInv, EndpointsTyped
<1>2. ASSUME NEW q \in Requests, q \notin mixed, Updates(q)', Stores(q)'
      PROVE  /\ Updates(q) /\ request'[q].sends = request[q].sends /\ request[q].sends \in Nat
             /\ Stores(q) \/ (q = r /\ Raises(r))
  <2>1. request[q].sends \in Nat  BY <1>1, FieldsOfRequest
  <2>2. CASE q = r
    <3>1. Updates(r)  BY <1>2, <2>2 DEF Goes, Updates
    <3>2. Stores(r) \/ Raises(r)  BY <1>2, <2>2
    <3>. QED  BY <2>1, <2>2, <3>1, <3>2 DEF Goes
  <2>3. CASE q # r
    <3>1. request'[q] = request[q]  BY <2>3 DEF Goes, Apiece
    <3>. QED  BY <1>2, <2>1, <3>1 DEF Updates, Stores
  <2>. QED  BY <2>2, <2>3
<1>3. mixed' = mixed  BY DEF Goes
<1>4. ASSUME NEW q \in Requests, q \notin mixed, Updates(q), Stores(q)
      PROVE  q \in stored' /\ (request[q].sends > 0 => request[q].sends < record.version)
  BY <1>1, <1>4 DEF Past
<1>5. ASSUME NEW q \in Requests PROVE Past(q)'
  <2>. SUFFICES ASSUME q \notin mixed, Updates(q)', Stores(q)'
                PROVE  q \in stored' /\ (request'[q].sends > 0 => request'[q].sends < record'.version)
    BY <1>3 DEF Past
  <2>1. /\ Updates(q) /\ request'[q].sends = request[q].sends /\ request[q].sends \in Nat
        /\ Stores(q) \/ (q = r /\ Raises(r))
    BY <1>2
  <2>2. PICK n \in Nat, m \in Nat, o \in Nat : n = request[q].sends /\ m = record.version /\ o = record'.version
    BY <1>1, <2>1
  <2>3. q \in stored' /\ (n > 0 => n <= m) /\ m <= o /\ (n = m => m < o \/ n = 0)
    <3>1. CASE Stores(q)  BY <1>4, <2>1, <2>2, <3>1
    <3>2. CASE q = r /\ Raises(r)  BY <2>2, <3>2 DEF Raises
    <3>. QED  BY <2>1, <3>1, <3>2
  <2>. QED  BY <2>1, <2>2, <2>3
<1>6. ASSUME NEW p \in Requests, NEW q \in Requests PROVE Apart(p, q)'
  <2>. SUFFICES ASSUME p \notin mixed, q \notin mixed, Updates(p)', Updates(q)', Stores(p)', Stores(q)',
                       request'[p].sends > 0, p # q, request'[p].sends = request'[q].sends
                PROVE  FALSE
    BY <1>3 DEF Apart
  <2>1. /\ Updates(p) /\ request'[p].sends = request[p].sends /\ request[p].sends \in Nat
        /\ Stores(p) \/ (p = r /\ Raises(r))
    BY <1>2
  <2>2. /\ Updates(q) /\ request'[q].sends = request[q].sends /\ request[q].sends \in Nat
        /\ Stores(q) \/ (q = r /\ Raises(r))
    BY <1>2
  <2>3. request[p].sends = request[q].sends /\ request[p].sends > 0  BY <2>1, <2>2
  <2>4. CASE Stores(p) /\ Stores(q)  BY <1>1, <2>1, <2>2, <2>3, <2>4 DEF Apart
  <2>5. CASE Stores(p) /\ q = r /\ Raises(r)
    <3>1. request[p].sends < record.version /\ request[q].sends = record.version
      BY <1>4, <2>1, <2>3, <2>5 DEF Raises
    <3>. QED  BY <1>1, <2>1, <2>3, <3>1
  <2>6. CASE Stores(q) /\ p = r /\ Raises(r)
    <3>1. request[q].sends < record.version /\ request[p].sends = record.version
      BY <1>4, <2>2, <2>3, <2>6 DEF Raises
    <3>. QED  BY <1>1, <2>2, <2>3, <3>1
  <2>. QED  BY <2>1, <2>2, <2>4, <2>5, <2>6
<1>. QED  BY <1>5, <1>6

LEMMA ReadsKept ==
    ASSUME EInv, NEW r \in Requests, Goes(r), Touches(r), NEW q \in Requests, q # r,
           request[r].verb = "get" => UNCHANGED <<record, listed, rejected>>
    PROVE  Reads(q)'
<1>. SUFFICES ASSUME request'[q].verb = "get", Under(q)', q \notin busy'
              PROVE  /\ \A p \in Requests : Under(p)' => request'[p].verb = "get"
                     /\ request'[q].at = "found" => Current(request[q].on)'
  BY DEF Reads
<1>1. request'[q] = request[q] /\ busy' = busy /\ \A p \in Requests : p # r => request'[p] = request[p]
  BY DEF Goes, Apiece
<1>2. request[q].verb = "get" /\ Under(q) /\ q \notin busy  BY <1>1 DEF Under
<1>3. /\ \A p \in Requests : Under(p) => request[p].verb = "get"
      /\ request[q].at = "found" => Current(request[q].on)
  BY <1>2 DEF EInv, Reads
<1>4. request[r].verb = "get" /\ ~Updates(r)  BY <1>3 DEF Goes, Updates
<1>5. ASSUME NEW p \in Requests, Under(p)' PROVE request'[p].verb = "get"
  <2>1. CASE p = r
    <3>1. request'[r].at # "answered"  BY <1>5, <2>1 DEF Under
    <3>. QED  BY <1>4, <2>1, <3>1 DEF Goes
  <2>2. CASE p # r  BY <1>1, <1>3, <1>5, <2>2 DEF Under
  <2>. QED  BY <2>1, <2>2
<1>6. ASSUME request[q].at = "found" PROVE Current(request[q].on)'
  <2>1. PICK k : k = request[q].on  OBVIOUS
  <2>2. k \in Requests /\ Loaded(k)
    <3>1. request[q].on \in Values /\ request[q].on # NoRequest /\ Loaded(request[q].on)
      BY <1>6, FieldsOfRequest DEF EInv, EndpointsTyped, Stage
    <3>. QED  BY <2>1, <3>1 DEF Values
  <2>3. managed'[k] = managed[k]
    <3>1. Used(k)'  BY <1>1, <1>2, <2>1 DEF Used, Under
    <3>2. ~(k = r /\ request[r].at = "asked")  BY <2>2 DEF Loaded
    <3>. QED  BY <1>4, <2>2, <3>1, <3>2 DEF Touches
  <2>4. \A p \in rejected : p \in Requests /\ request'[p] = request[p]
    <3>1. r \notin rejected  BY DEF EInv, Stage, Goes, Under
    <3>. QED  BY <1>1, <3>1 DEF EInv, EndpointsTyped
  <2>5. record' = record /\ listed' = listed /\ rejected' = rejected  BY <1>4
  <2>6. Current(k)  BY <1>3, <1>6, <2>1
  <2>7. Current(k)'  BY <2>3, <2>4, <2>5, <2>6 DEF Current, Visible
  <2>. QED  BY <1>1, <2>1, <2>7
<1>. QED  BY <1>1, <1>5, <1>6

LEMMA CachedKept ==
    ASSUME EInv, NEW r \in Requests, Goes(r), identity' = identity, UNCHANGED <<record, listed>>,
           request[r].at \notin {"updated", "deleted", "restored"}, rejected \subseteq rejected',
           identity # NoRequest =>
               /\ managed'[identity].oldVersion = managed[identity].oldVersion
               /\ managed'[identity].oldValues = managed[identity].oldValues
               /\ \/ managed'[identity] = managed[identity]
                  \/ request'[r].at = "assigned" /\ request'[r].on = identity
               /\ request[r].at = "assigned" /\ request[r].on = identity =>
                     \/ Clean(managed'[identity])
                     \/ r \in rejected' /\ request'[r].on = identity
    PROVE  Cached'
<1>. SUFFICES ASSUME identity # NoRequest, ~Clearing'
              PROVE  /\ managed'[identity].oldVersion = record.version
                     /\ managed'[identity].oldValues = record.values
                     /\ record.there /\ (record.hidden => listed)
                     /\ \/ Clean(managed'[identity])
                        \/ \E q \in Requests : request'[q].on = identity /\ request'[q].at = "assigned"
                        \/ \E q \in rejected' : request'[q].on = identity
  BY DEF Cached
<1>1. \A p \in Requests : p # r => request'[p] = request[p]  BY DEF Goes, Apiece
<1>2. ~Clearing
  <2>. SUFFICES ASSUME NEW q \in Requests, request[q].at \in {"updated", "deleted", "restored"} PROVE FALSE
    BY DEF Clearing
  <2>1. q # r /\ request'[q] = request[q]  BY <1>1
  <2>. QED  BY <2>1 DEF Clearing
<1>3. /\ managed[identity].oldVersion = record.version /\ managed[identity].oldValues = record.values
      /\ record.there /\ (record.hidden => listed)
      /\ \/ Clean(managed[identity])
         \/ \E q \in Requests : request[q].on = identity /\ request[q].at = "assigned"
         \/ \E q \in rejected : request[q].on = identity
  BY <1>2 DEF EInv, Cached
<1>4. CASE request'[r].at = "assigned" /\ request'[r].on = identity  BY <1>3, <1>4
<1>5. CASE managed'[identity] = managed[identity]
  <2>1. CASE Clean(managed[identity])  BY <1>3, <1>5, <2>1
  <2>2. ASSUME NEW q \in Requests, request[q].on = identity, request[q].at = "assigned"
        PROVE  \/ Clean(managed'[identity])
               \/ \E p \in Requests : request'[p].on = identity /\ request'[p].at = "assigned"
               \/ \E p \in rejected' : request'[p].on = identity
    BY <1>1, <2>2
  <2>3. ASSUME NEW q \in rejected, request[q].on = identity
        PROVE  \E p \in rejected' : request'[p].on = identity
    <3>1. q \in Requests /\ q # r  BY DEF EInv, EndpointsTyped, Stage, Goes, Under
    <3>. QED  BY <1>1, <2>3, <3>1
  <2>. QED  BY <1>3, <1>5, <2>1, <2>2, <2>3
<1>. QED  BY <1>3, <1>4, <1>5

LEMMA AloneKept ==
    ASSUME EInv, NEW r \in Requests, Goes(r), Stored(r), Touches(r), NEW q \in Requests, q # r
    PROVE  Alone(q)'
<1>1. /\ request'[q] = request[q] /\ mixed' = mixed
      /\ \A p \in Requests : p # r => request'[p] = request[p]
  BY DEF Goes, Apiece
<1>2. /\ Alone(q) /\ Stage(q) /\ Loaded(request[q].on) /\ Shared(r, q) /\ request[q].on \in Values
      /\ managed \in [Requests -> Instances] /\ stored \subseteq Values
  BY FieldsOfRequest DEF EInv, EndpointsTyped
<1>3. ASSUME q \in stored', q \notin stored
      PROVE  /\ Updates(r) /\ request[r].at = "assigned" /\ request'[r].at = "updated"
             /\ Updates(q) /\ request[q].on = request[r].on /\ request[r].on # NoRequest
             /\ request[q].at \in {"assigned", "updated", "answered"}
  <2>1. Stage(r)  BY DEF EInv
  <2>. QED  BY <1>3, <2>1 DEF Stored, Stage
<1>4. ASSUME q \notin mixed, request[q].at \in {"assigned", "updated"}, q \in stored'
      PROVE  q \in stored
  <2>. SUFFICES ASSUME q \notin stored PROVE FALSE  OBVIOUS
  <2>1. Updates(q) /\ Updates(r) /\ Under(q) /\ Under(r) /\ request[q].on = request[r].on /\ request[r].on # NoRequest
    BY <1>3, <1>4 DEF Under
  <2>. QED  BY <1>2, <1>4, <2>1 DEF Shared
<1>5. request[q].at \in {"new", "asked", "found"} => q \notin stored'
  <2>1. request[q].at \in {"new", "asked", "found"} => q \notin stored  BY <1>2 DEF Alone
  <2>. QED  BY <1>3, <2>1
<1>. SUFFICES ASSUME q \notin mixed, Updates(q)
              PROVE  /\ request[q].at = "assigned" =>
                            /\ q \notin stored'
                            /\ managed'[request[q].on].values[request[q].column] = q
                            /\ request[q].sends > 0 => managed'[request[q].on].version = request[q].sends
                     /\ request[q].at = "updated" =>
                            /\ request[q].row.status \in {200, 409}
                            /\ request[q].row.status = 409 => q \notin stored'
                     /\ request[q].at = "answered" =>
                            /\ request[q].answer.status \in {200, 404, 409, 500}
                            /\ request[q].answer.status = 404 => request[q].on = NoRequest
                            /\ request[q].answer.status \in {404, 409} => q \notin stored'
                            /\ request[q].answer.status = 409 =>
                                   /\ request[q].on # NoRequest
                                   /\ identity' # request[q].on
                                   /\ \A p \in Requests : Updates(p)' /\ Under(p)' => request'[p].on # request[q].on
                            /\ request[q].answer.status = 500 /\ q \in stored' =>
                                   \E p \in Requests \ {q} : /\ Updates(p)' /\ request'[p].on = request[q].on
                                                             /\ request'[p].at \in {"updated", "answered"}
  BY <1>1, <1>5 DEF Alone, Updates
<1>6. /\ request[q].at = "assigned" =>
              /\ q \notin stored
              /\ managed[request[q].on].values[request[q].column] = q
              /\ request[q].sends > 0 => managed[request[q].on].version = request[q].sends
      /\ request[q].at = "updated" =>
              /\ request[q].row.status \in {200, 409}
              /\ request[q].row.status = 409 => q \notin stored
      /\ request[q].at = "answered" =>
              /\ request[q].answer.status \in {200, 404, 409, 500}
              /\ request[q].answer.status = 404 => request[q].on = NoRequest
              /\ request[q].answer.status \in {404, 409} => q \notin stored
              /\ request[q].answer.status = 409 =>
                     /\ request[q].on # NoRequest
                     /\ identity # request[q].on
                     /\ \A p \in Requests : Updates(p) /\ Under(p) => request[p].on # request[q].on
              /\ request[q].answer.status = 500 /\ q \in stored =>
                     \E p \in Requests \ {q} : /\ Updates(p) /\ request[p].on = request[q].on
                                               /\ request[p].at \in {"updated", "answered"}
  BY <1>2 DEF Alone
<1>7. ASSUME request[q].at = "assigned"
      PROVE  managed'[request[q].on] = managed[request[q].on] /\ q \notin stored'
  <2>1. PICK k : k = request[q].on  OBVIOUS
  <2>2. k \in Requests /\ Under(q)  BY <1>2, <1>7, <2>1 DEF Stage, Values, Under
  <2>3. Used(k)'  BY <1>1, <2>1, <2>2 DEF Used, Under
  <2>4. ~(k = r /\ request[r].at = "asked")  BY <1>2, <2>1 DEF Loaded
  <2>5. ~(Updates(r) /\ request[r].on = k)
    <3>1. Under(r) /\ k # NoRequest  BY <2>2, EndpointConstants DEF Goes
    <3>. QED  BY <1>2, <2>1, <2>2, <3>1 DEF Shared
  <2>6. managed'[k] = managed[k]  BY <2>2, <2>3, <2>4, <2>5 DEF Touches
  <2>7. q \notin stored'  BY <1>4, <1>6, <1>7
  <2>. QED  BY <2>1, <2>6, <2>7
<1>8. request[q].at = "updated" /\ request[q].row.status = 409 => q \notin stored'  BY <1>4, <1>6
<1>9. ASSUME request[q].at = "answered", request[q].answer.status = 409
      PROVE  /\ q \notin stored' /\ identity' # request[q].on
             /\ \A p \in Requests : Updates(p)' /\ Under(p)' => request'[p].on # request[q].on
  <2>1. /\ request[q].on # NoRequest /\ identity # request[q].on /\ q \notin stored
        /\ \A p \in Requests : Updates(p) /\ Under(p) => request[p].on # request[q].on
    BY <1>6, <1>9
  <2>2. ~(request[q].on = r /\ request[r].at = "asked")  BY <1>2 DEF Loaded
  <2>3. identity' # request[q].on  BY <2>1, <2>2 DEF Goes
  <2>4. q \notin stored'  BY <1>3, <2>1 DEF Under
  <2>5. ASSUME NEW p \in Requests, Updates(p)', Under(p)' PROVE request'[p].on # request[q].on
    <3>1. CASE p = r
      <4>1. Updates(r) /\ Under(r)  BY <2>5, <3>1 DEF Goes, Updates
      <4>2. request[r].on # request[q].on  BY <2>1, <4>1
      <4>. QED  BY <2>1, <2>2, <3>1, <4>1, <4>2 DEF Goes
    <3>2. CASE p # r
      <4>1. request'[p] = request[p]  BY <1>1, <3>2
      <4>. QED  BY <2>1, <2>5, <4>1 DEF Updates, Under
    <3>. QED  BY <3>1, <3>2
  <2>. QED  BY <2>3, <2>4, <2>5
<1>10. ASSUME request[q].at = "answered", request[q].answer.status = 404 PROVE q \notin stored'
  <2>1. q \notin stored /\ request[q].on = NoRequest  BY <1>6, <1>10
  <2>. QED  BY <1>3, <2>1
<1>11. ASSUME request[q].at = "answered", request[q].answer.status = 500, q \in stored'
       PROVE  \E p \in Requests \ {q} : /\ Updates(p)' /\ request'[p].on = request[q].on
                                        /\ request'[p].at \in {"updated", "answered"}
  <2>1. CASE q \in stored
    <3>1. PICK p \in Requests \ {q} : /\ Updates(p) /\ request[p].on = request[q].on
                                      /\ request[p].at \in {"updated", "answered"}
      BY <1>6, <1>11, <2>1
    <3>2. CASE p # r
      <4>1. request'[p] = request[p]  BY <1>1, <3>2
      <4>2. Updates(p)' /\ request'[p].on = request[q].on /\ request'[p].at \in {"updated", "answered"}
        BY <3>1, <4>1 DEF Updates
      <4>. QED  BY <4>2
    <3>3. CASE p = r
      <4>1. request[r].at = "updated"  BY <3>1, <3>3 DEF Goes, Under
      <4>2. Updates(r)' /\ request'[r].on = request[q].on  BY <3>1, <3>3, <4>1 DEF Goes, Updates
      <4>3. request'[r].at \in {"updated", "answered"}  BY <4>1, <3>3 DEF Goes
      <4>. QED  BY <3>3, <4>2, <4>3
    <3>. QED  BY <3>2, <3>3
  <2>2. CASE q \notin stored
    <3>1. Updates(r) /\ request[r].at = "assigned" /\ request'[r].at = "updated" /\ request[q].on = request[r].on
      BY <1>3, <1>11, <2>2
    <3>2. Updates(r)' /\ request'[r].on = request[q].on  BY <3>1 DEF Goes, Updates
    <3>. QED  BY <3>1, <3>2
  <2>. QED  BY <2>1, <2>2
<1>. QED  BY <1>6, <1>7, <1>8, <1>9, <1>10, <1>11

\* What is left to show of an action when these are known to hold of it.
LEMMA Together ==
    ASSUME EInv, NEW r \in Requests, Goes(r), Stored(r), Touches(r),
           EndpointsTyped', Known', Cached', Stage(r)', Alone(r)', Reads(r)',
           \A k \in Requests : Origin(k)',
           rejected \subseteq rejected', rejected' \subseteq rejected \cup {r},
           record.version <= record'.version,
           Updates(r)' /\ Stores(r)' /\ r \notin mixed => Stores(r) \/ Raises(r),
           request[r].verb = "get" => UNCHANGED <<record, listed, rejected>>
    PROVE  EInv'
<1>1. Loaded(identity)' /\ \A q \in Requests : Stage(q)' /\ Loaded(request[q].on)'  BY StagesKept
<1>2. \A p, q \in Requests : Shared(p, q)'  BY SharedKept
<1>3. record'.version \in Nat /\ stored \subseteq stored'  BY DEF EndpointsTyped, Stored
<1>4. (\A q \in Requests : Past(q)') /\ \A p, q \in Requests : Apart(p, q)'  BY <1>3, PastKept
<1>5. \A q \in Requests : Alone(q)'  BY AloneKept
<1>6. \A q \in Requests : Reads(q)'  BY ReadsKept
<1>. QED  BY <1>1, <1>2, <1>4, <1>5, <1>6 DEF EInv

\* A request that is answered.
LEMMA AnsweredGoes ==
    ASSUME EInv, NEW r \in Requests, NEW a \in Answers, Under(r), Answer(r, a),
           UNCHANGED <<endpoint, mixed, busy>>,
           identity' \in {identity, NoRequest} \/ (identity' = r /\ request[r].at = "asked"),
           rejected' = rejected \/ (rejected' = rejected \cup {r} /\ Updates(r))
    PROVE  /\ Answered(r, a) /\ Goes(r) /\ Stage(r)' /\ Reads(r)'
           /\ Updates(r)' => Updates(r)
<1>1. Answered(r, a)  BY AnswerIs DEF EInv, EndpointsTyped
<1>2. request[r].at \notin {"new", "answered"} /\ Stage(r)  BY DEF Under, EInv
<1>3. /\ request'[r].at = "answered" /\ Apiece(r)
      /\ Updates(r) => request'[r].verb = "put" /\ request'[r].sends = request[r].sends /\ request'[r].on = request[r].on
      /\ ~Updates(r) => request'[r].verb = "none" /\ request'[r].on = NoRequest
  BY <1>1 DEF Answered
<1>4. Goes(r)  BY <1>2, <1>3 DEF Goes, Updates, Under
<1>5. Stage(r)'  BY <1>2, <1>3 DEF Stage, Updates
<1>6. Reads(r)'  BY <1>3 DEF Reads, Under
<1>7. Updates(r)' => Updates(r)  BY <1>3 DEF Updates
<1>. QED  BY <1>1, <1>4, <1>5, <1>6, <1>7

LEMMA VersionTold ==
    ASSUME NEW n \in Nat
    PROVE  [status |-> 200, version |-> n] \in Answers
BY DEF Answers, Statuses

LEMMA NotFound == Told404 \in Answers /\ Told404.status = 404
BY DEF Told404, NoAnswer, Answers, Statuses

\* A new instance, of the row as it is.
LEMMA LoadsIs ==
    ASSUME EInv, NEW r \in Requests, Loads(r)
    PROVE  /\ managed' \in [Requests -> Instances] /\ identity' = r
           /\ managed'[r].version = record.version /\ managed'[r].oldVersion = record.version
           /\ managed'[r].values = record.values /\ managed'[r].oldValues = record.values
           /\ \A k \in Requests : k # r => /\ managed'[k] \in {managed[k], NoInstance}
                                           /\ Used(k)' => managed'[k] = managed[k]
<1>1. record.version \in Nat /\ record.values \in [Columns -> Values] /\ managed \in [Requests -> Instances]
  BY DEF EInv, EndpointsTyped
<1>2. PICK x : x = [version |-> record.version, values |-> record.values,
                    oldVersion |-> record.version, oldValues |-> record.values]
  OBVIOUS
<1>3. x \in Instances  BY <1>1, <1>2 DEF Instances
<1>4. PICK h : h = [managed EXCEPT ![r] = x]  OBVIOUS
<1>5. h \in [Requests -> Instances] /\ h[r] = x /\ \A k \in Requests : k # r => h[k] = managed[k]
  BY <1>1, <1>3, <1>4
<1>6. Heap(h) /\ identity' = r  BY <1>2, <1>4 DEF Loads
<1>7. /\ managed' \in [Requests -> Instances]
      /\ \A k \in Requests : (Used(k)' => managed'[k] = h[k]) /\ (~Used(k)' => managed'[k] = NoInstance)
  BY <1>5, <1>6, HeapIs
<1>8. Used(r)'  BY <1>6 DEF Used
<1>9. managed'[r] = x  BY <1>5, <1>7, <1>8
<1>. QED  BY <1>2, <1>5, <1>6, <1>7, <1>9

\* Instances that stay, as far as somebody has them.
LEMMA HeapStays ==
    ASSUME EInv, NEW r \in Requests, Goes(r), Heap(managed), stored \subseteq stored',
           request[r].at = "assigned" => request'[r].at \in {"assigned", "updated", "answered"}
    PROVE  /\ managed' \in [Requests -> Instances] /\ Touches(r) /\ \A k \in Requests : Origin(k)'
           /\ identity' \in Requests => managed'[identity'] = managed[identity']
<1>1. managed \in [Requests -> Instances]  BY DEF EInv, EndpointsTyped
<1>2. /\ managed' \in [Requests -> Instances]
      /\ \A k \in Requests : (Used(k)' => managed'[k] = managed[k]) /\ (~Used(k)' => managed'[k] = NoInstance)
  BY <1>1, HeapIs
<1>3. Touches(r)  BY <1>2 DEF Touches
<1>4. request[r].at \in {"assigned", "updated"} => request'[r].at \in {"assigned", "updated", "answered"}
  BY DEF Goes
<1>5. ASSUME NEW k \in Requests PROVE Origin(k)'
  <2>1. managed'[k] \in {managed[k], NoInstance}  BY <1>2
  <2>. QED  BY <1>4, <2>1, OriginKept
<1>6. identity' \in Requests => managed'[identity'] = managed[identity']
  <2>1. PICK k : k = identity'  OBVIOUS
  <2>2. Used(k)'  BY <2>1 DEF Used
  <2>. QED  BY <1>2, <2>1, <2>2
<1>. QED  BY <1>2, <1>3, <1>5, <1>6

LEMMA LoadedHolds ==
    ASSUME EInv, NEW r \in Requests, Loads(r), Goes(r), request[r].at = "asked",
           UNCHANGED <<record, stored>>, rejected' = rejected,
           record.there, record.hidden => listed'
    PROVE  /\ Touches(r) /\ Stored(r) /\ Known' /\ Cached' /\ \A k \in Requests : Origin(k)'
<1>1. /\ managed' \in [Requests -> Instances] /\ identity' = r
      /\ managed'[r].version = record.version /\ managed'[r].oldVersion = record.version
      /\ managed'[r].values = record.values /\ managed'[r].oldValues = record.values
      /\ \A k \in Requests : k # r => /\ managed'[k] \in {managed[k], NoInstance}
                                      /\ Used(k)' => managed'[k] = managed[k]
  BY LoadsIs
<1>2. Touches(r)  BY <1>1 DEF Touches
<1>3. Stored(r)  BY DEF Stored
<1>4. Known'  BY DEF EInv, Known, Goes
<1>5. Cached'
  <2>1. Clean(managed'[r])  BY <1>1 DEF Clean
  <2>. QED  BY <1>1, <2>1 DEF Cached
<1>6. ASSUME NEW k \in Requests PROVE Origin(k)'
  <2>1. CASE k = r
    <3>1. \A c \in Columns : record.values[c] \in stored  BY DEF EInv, Known
    <3>. QED  BY <1>1, <2>1, <3>1 DEF Origin
  <2>2. CASE k # r
    <3>1. managed'[k] \in {managed[k], NoInstance} /\ request[r].at \notin {"assigned", "updated"}  BY <1>1, <2>2
    <3>. QED  BY <3>1, OriginKept
  <2>. QED  BY <2>1, <2>2
<1>. QED  BY <1>2, <1>3, <1>4, <1>5, <1>6

-----------------------------------------------------------------------------
(* The actions *)

LEMMA FindRowKeeps ==
    ASSUME EInv, NEW r \in Requests, FindRow(r)
    PROVE  EInv'
<1>1. /\ request[r].at = "asked" /\ request[r].verb \in {"get", "put", "delete"} /\ Under(r)
      /\ UNCHANGED <<endpoint, record, stored, mixed, busy, listed, rejected>>
  BY DEF FindRow, LooksUp, Under
<1>2. /\ EndpointsTyped /\ Stage(r) /\ Alone(r) /\ Reads(r) /\ Known
      /\ request \in [Requests -> Asked] /\ managed \in [Requests -> Instances] /\ record.version \in Nat
  BY DEF EInv, EndpointsTyped
<1>3. r # NoRequest /\ r \in Values /\ NoRequest \in Values  BY EndpointConstants DEF Values
<1>4. CASE Visible
  <2>1. Found(r, r) /\ Loads(r)  BY <1>4 DEF FindRow
  <2>2. Walks(r, "found", r)  BY <1>2, <1>3, <2>1, GoesIs DEF Found, Stages
  <2>3. /\ request' \in [Requests -> Asked] /\ Apiece(r)
        /\ request'[r].at = "found" /\ request'[r].on = r /\ request'[r].verb = request[r].verb
        /\ request'[r].sends = request[r].sends /\ request'[r].answer = request[r].answer
    BY <2>2 DEF Walks
  <2>4. /\ managed' \in [Requests -> Instances] /\ identity' = r
        /\ managed'[r].version = record.version /\ managed'[r].values = record.values
    BY <2>1, LoadsIs
  <2>5. Goes(r)  BY <1>1, <2>3, <2>4 DEF Goes
  <2>6. Touches(r) /\ Stored(r) /\ Known' /\ Cached' /\ \A k \in Requests : Origin(k)'
    <3>1. record.there /\ ~record.hidden  BY <1>4 DEF Visible
    <3>. QED  BY <1>1, <2>1, <2>5, <3>1, LoadedHolds
  <2>7. EndpointsTyped'  BY <1>1, <1>2, <1>3, <2>3, <2>4 DEF EndpointsTyped
  <2>8. Stage(r)'  BY <1>1, <1>2, <1>3, <2>3 DEF Stage
  <2>9. Alone(r)'  BY <1>1, <1>2, <2>3 DEF Alone
  <2>10. Reads(r)'
    <3>1. Current(r)'  BY <1>1, <1>4, <2>4 DEF Current, Visible
    <3>2. request[r].verb = "get" /\ r \notin busy => \A q \in Requests : Under(q)' => request'[q].verb = "get"
      BY <1>1, <1>2, <2>3 DEF Reads, Under, Apiece
    <3>. QED  BY <1>1, <2>3, <3>1, <3>2 DEF Reads
  <2>11. ~Stores(r)'  BY <2>3 DEF Stores
  <2>12. rejected' = rejected /\ record' = record /\ listed' = listed  BY <1>1
  <2>. QED  BY <1>2, <2>5, <2>6, <2>7, <2>8, <2>9, <2>10, <2>11, <2>12, Together
<1>5. CASE ~Visible
  <2>1. Answer(r, Told404) /\ UNCHANGED <<managed, identity>>  BY <1>5 DEF FindRow
  <2>2. /\ Answered(r, Told404) /\ Goes(r) /\ Stage(r)' /\ Reads(r)'
        /\ Updates(r)' => Updates(r)
    BY <1>1, <2>1, NotFound, AnsweredGoes
  <2>3. /\ request' \in [Requests -> Asked]
        /\ request'[r].at = "answered" /\ request'[r].answer.status = 404
        /\ Updates(r) => request'[r].on = request[r].on
    BY <2>2, NotFound DEF Answered
  <2>4. Touches(r) /\ Stored(r) /\ Known'  BY <1>1, <1>2, <2>1 DEF Touches, Stored, Known
  <2>5. Cached'  BY <1>1, <2>1, <2>2, CachedKept
  <2>6. ASSUME NEW k \in Requests PROVE Origin(k)'
    <3>1. managed'[k] \in {managed[k], NoInstance} /\ stored \subseteq stored' /\ request[r].at \notin {"assigned", "updated"}
      BY <1>1, <2>1
    <3>. QED  BY <2>2, <3>1, OriginKept
  <2>7. EndpointsTyped'  BY <1>1, <1>2, <2>1, <2>3 DEF EndpointsTyped
  <2>8. Alone(r)'
    <3>1. r \notin stored /\ request[r].on = NoRequest  BY <1>1, <1>2 DEF Alone, Stage
    <3>. QED  BY <1>1, <2>2, <2>3, <3>1 DEF Alone
  <2>9. ~Stores(r)'  BY <2>3 DEF Stores
  <2>10. rejected' = rejected /\ record' = record /\ listed' = listed  BY <1>1
  <2>. QED  BY <1>2, <2>2, <2>4, <2>5, <2>6, <2>7, <2>8, <2>9, <2>10, Together
<1>. QED  BY <1>4, <1>5

\* The instance that a request works on.
LEMMA WorksOn ==
    ASSUME EInv, NEW r \in Requests, request[r].at \in {"found", "assigned", "updated"}
    PROVE  request[r].on \in Requests /\ managed[request[r].on] \in Instances /\ request[r].on # NoRequest
<1>1. Stage(r) /\ request \in [Requests -> Asked] /\ managed \in [Requests -> Instances]  BY DEF EInv, EndpointsTyped
<1>2. request[r].on \in Values /\ request[r].on # NoRequest  BY <1>1, FieldsOfRequest DEF Stage
<1>. QED  BY <1>1, <1>2 DEF Values

LEMMA GetKeeps ==
    ASSUME EInv, NEW r \in Requests, Get(r)
    PROVE  EInv'
<1>1. /\ request[r].at = "found" /\ request[r].verb = "get" /\ Under(r) /\ ~Updates(r) /\ Heap(managed)
      /\ UNCHANGED <<endpoint, record, identity, stored, mixed, busy, listed, rejected>>
      /\ Answer(r, [status |-> 200, version |-> managed[request[r].on].version])
  BY DEF Get, Under, Updates
<1>2. EndpointsTyped /\ Known /\ record.version \in Nat  BY DEF EInv, EndpointsTyped
<1>3. managed[request[r].on].version \in Nat  BY <1>1, WorksOn, FieldsOfInstance
<1>4. PICK a \in Answers : a = [status |-> 200, version |-> managed[request[r].on].version]
  BY <1>3, VersionTold
<1>5. /\ Answered(r, a) /\ Goes(r) /\ Stage(r)' /\ Reads(r)'
      /\ Updates(r)' => Updates(r)
  BY <1>1, <1>4, AnsweredGoes
<1>6. /\ managed' \in [Requests -> Instances] /\ Touches(r) /\ \A k \in Requests : Origin(k)'
      /\ identity' \in Requests => managed'[identity'] = managed[identity']
  BY <1>1, <1>5, HeapStays
<1>7. Stored(r) /\ Known'  BY <1>1, <1>2 DEF Stored, Known
<1>8. Cached'
  <2>1. identity # NoRequest => managed'[identity] = managed[identity]  BY <1>1, <1>2, <1>6 DEF EndpointsTyped, Values
  <2>. QED  BY <1>1, <1>5, <2>1, CachedKept
<1>9. request' \in [Requests -> Asked] /\ request'[r].at = "answered"  BY <1>5 DEF Answered
<1>10. EndpointsTyped'  BY <1>1, <1>2, <1>6, <1>9 DEF EndpointsTyped
<1>11. Alone(r)'  BY <1>1, <1>5, <1>9 DEF Alone
<1>12. rejected' = rejected /\ record' = record /\ listed' = listed  BY <1>1
<1>. QED  BY <1>1, <1>2, <1>5, <1>6, <1>7, <1>8, <1>10, <1>11, <1>12, Together

\* The instance, with the value that r sends, and the version.
Sent(i, r) == [version |-> IF request[r].sends = 0 THEN i.version ELSE request[r].sends,
               values |-> [i.values EXCEPT ![request[r].column] = r],
               oldVersion |-> i.oldVersion, oldValues |-> i.oldValues]

LEMMA AssignIs ==
    ASSUME EInv, NEW r \in Requests, Assign(r), NEW k \in Requests, k = request[r].on
    PROVE  /\ managed' \in [Requests -> Instances] /\ managed'[k] = Sent(managed[k], r)
           /\ \A j \in Requests : j # k => managed'[j] = managed[j]
<1>1. managed \in [Requests -> Instances] /\ request \in [Requests -> Asked]  BY DEF EInv, EndpointsTyped
<1>2. PICK n \in Nat, c \in Columns : n = request[r].sends /\ c = request[r].column  BY <1>1, FieldsOfRequest
<1>3. PICK v \in Nat, w \in [Columns -> Values], ov \in Nat, ow \in [Columns -> Values] :
          managed[k] = [version |-> v, values |-> w, oldVersion |-> ov, oldValues |-> ow]
  BY <1>1 DEF Instances
<1>4. PICK x : x = Sent(managed[k], r)  OBVIOUS
<1>5. x = [version |-> IF n = 0 THEN v ELSE n, values |-> [w EXCEPT ![c] = r], oldVersion |-> ov, oldValues |-> ow]
  BY <1>2, <1>3, <1>4 DEF Sent
<1>6. x \in Instances
  <2>1. [w EXCEPT ![c] = r] \in [Columns -> Values]  BY DEF Values
  <2>. QED  BY <1>5, <2>1 DEF Instances
<1>7. managed' = [managed EXCEPT ![k].values[c] = r, ![k].version = IF n = 0 THEN @ ELSE n]
  BY <1>2 DEF Assign
<1>8. managed' = [j \in Requests |-> IF j = k THEN [managed[k] EXCEPT !.values[c] = r, !.version = IF n = 0 THEN @ ELSE n]
                                     ELSE managed[j]]
  BY <1>1, <1>7
<1>9. [managed[k] EXCEPT !.values[c] = r, !.version = IF n = 0 THEN @ ELSE n] = x
  <2>1. managed[k] = [f \in {"version", "values", "oldVersion", "oldValues"} |-> managed[k][f]]  BY <1>3
  <2>2. [managed[k] EXCEPT !.values[c] = r, !.version = IF n = 0 THEN @ ELSE n]
        = [f \in {"version", "values", "oldVersion", "oldValues"} |->
              IF f = "version" THEN (IF n = 0 THEN managed[k].version ELSE n)
              ELSE IF f = "values" THEN [managed[k].values EXCEPT ![c] = r] ELSE managed[k][f]]
    BY <2>1
  <2>. QED  BY <1>3, <1>5, <2>2
<1>. QED  BY <1>1, <1>4, <1>6, <1>8, <1>9

LEMMA AssignKeeps ==
    ASSUME EInv, NEW r \in Requests, Assign(r)
    PROVE  EInv'
<1>1. /\ request[r].at = "found" /\ request[r].verb = "put" /\ Under(r) /\ Updates(r)
      /\ UNCHANGED <<endpoint, record, identity, stored, mixed, busy, listed, rejected>>
      /\ request' = [request EXCEPT ![r].at = "assigned"]
  BY DEF Assign, Under, Updates
<1>2. /\ EndpointsTyped /\ Known /\ record.version \in Nat /\ Stage(r) /\ Alone(r)
      /\ request \in [Requests -> Asked] /\ managed \in [Requests -> Instances] /\ stored \subseteq Values
      /\ NoRequest \in stored /\ NoRequest \notin Requests
  BY EndpointConstants DEF EInv, EndpointsTyped, Known
<1>3. PICK k \in Requests : k = request[r].on /\ k # NoRequest  BY <1>1, WorksOn
<1>4. request[r].sends \in Nat /\ request[r].column \in Columns  BY <1>2, FieldsOfRequest
<1>5. /\ managed' \in [Requests -> Instances] /\ managed'[k] = Sent(managed[k], r)
      /\ \A j \in Requests : j # k => managed'[j] = managed[j]
  BY <1>3, AssignIs
<1>6. /\ managed'[k].oldVersion = managed[k].oldVersion /\ managed'[k].oldValues = managed[k].oldValues
      /\ managed'[k].values = [managed[k].values EXCEPT ![request[r].column] = r]
      /\ request[r].sends > 0 => managed'[k].version = request[r].sends
  BY <1>4, <1>5 DEF Sent
<1>7. managed[k].values \in [Columns -> Values]  BY <1>2, FieldsOfInstance
<1>8. Walks(r, "assigned", k)  BY <1>1, <1>2, <1>3, StaysIs DEF Stages
<1>9. /\ request' \in [Requests -> Asked] /\ Apiece(r)
      /\ request'[r].at = "assigned" /\ request'[r].on = k /\ request'[r].verb = "put"
      /\ request'[r].sends = request[r].sends /\ request'[r].answer = request[r].answer
      /\ request'[r].column = request[r].column
  BY <1>1, <1>8 DEF Walks
<1>10. Goes(r)  BY <1>1, <1>3, <1>9 DEF Goes
<1>11. Stored(r) /\ Known'  BY <1>1, <1>2 DEF Stored, Known
<1>12. Touches(r)  BY <1>1, <1>3, <1>5 DEF Touches
<1>13. Cached'
  <2>1. identity # NoRequest =>
            /\ managed'[identity].oldVersion = managed[identity].oldVersion
            /\ managed'[identity].oldValues = managed[identity].oldValues
            /\ \/ managed'[identity] = managed[identity]
               \/ request'[r].at = "assigned" /\ request'[r].on = identity
    <3>1. identity # NoRequest => identity \in Requests  BY <1>2 DEF EndpointsTyped, Values
    <3>. QED  BY <1>5, <1>6, <1>9, <3>1
  <2>. QED  BY <1>1, <1>10, <2>1, CachedKept
<1>14. EndpointsTyped'  BY <1>1, <1>2, <1>5, <1>9 DEF EndpointsTyped
<1>15. Stage(r)'  BY <1>1, <1>2, <1>3, <1>9 DEF Stage, Updates
<1>16. Alone(r)'
  <2>1. r \notin stored'  BY <1>1, <1>2 DEF Alone
  <2>2. managed'[k].values[request[r].column] = r  BY <1>4, <1>6, <1>7
  <2>. QED  BY <1>6, <1>9, <2>1, <2>2 DEF Alone
<1>17. Reads(r)'  BY <1>9 DEF Reads
<1>18. ASSUME NEW j \in Requests PROVE Origin(j)'
  <2>1. CASE j # k
    <3>1. managed'[j] \in {managed[j], NoInstance} /\ stored \subseteq stored' /\ request[r].at \notin {"assigned", "updated"}
      BY <1>1, <1>5, <2>1
    <3>. QED  BY <1>10, <3>1, OriginKept
  <2>2. CASE j = k
    <3>. SUFFICES ASSUME NEW c \in Columns, NEW v, v = managed'[k].values[c]
                  PROVE  /\ managed[k].oldValues[c] \in stored
                         /\ v \notin stored =>
                               /\ request'[v].verb = "put" /\ request'[v].on = k
                               /\ request'[v].at \in {"assigned", "updated", "answered"}
      BY <1>1, <1>6, <2>2 DEF Origin, Updates
    <3>1. /\ managed[k].oldValues[c] \in stored
          /\ LET w == managed[k].values[c]
             IN w \notin stored => /\ Updates(w) /\ request[w].on = k
                                   /\ request[w].at \in {"assigned", "updated", "answered"}
      BY DEF EInv, Origin
    <3>2. CASE c = request[r].column
      <4>1. v = r  BY <1>4, <1>6, <1>7, <3>2
      <4>. QED  BY <1>9, <3>1, <4>1
    <3>3. CASE c # request[r].column
      <4>1. v = managed[k].values[c] /\ v \in Values  BY <1>6, <1>7, <3>3
      <4>2. CASE v \in stored  BY <3>1, <4>2
      <4>3. CASE v \notin stored
        <5>1. /\ Updates(v) /\ request[v].on = k /\ request[v].at \in {"assigned", "updated", "answered"}
              /\ v \in Requests
          BY <1>2, <3>1, <4>1, <4>3 DEF Values
        <5>2. request'[v] = request[v]  BY <1>1, <1>9, <5>1 DEF Apiece
        <5>. QED  BY <3>1, <5>1, <5>2 DEF Updates
      <4>. QED  BY <4>2, <4>3
    <3>. QED  BY <3>2, <3>3
  <2>. QED  BY <2>1, <2>2
<1>19. ~Stores(r)'  BY <1>9 DEF Stores
<1>20. rejected' = rejected /\ record' = record /\ listed' = listed  BY <1>1
<1>. QED  BY <1>2, <1>10, <1>11, <1>12, <1>13, <1>14, <1>15, <1>16, <1>17, <1>18, <1>19, <1>20, Together

LEMMA NoVersion ==
    ASSUME NEW s \in Statuses
    PROVE  [NoAnswer EXCEPT !.status = s] \in Answers /\ [NoAnswer EXCEPT !.status = s].status = s
<1>1. [NoAnswer EXCEPT !.status = s] = [status |-> s, version |-> 0]  BY DEF NoAnswer
<1>. QED  BY <1>1 DEF Answers

LEMMA UpdateRowKeeps ==
    ASSUME EInv, NEW r \in Requests, UpdateRow(r)
    PROVE  EInv'
<1>1. /\ request[r].at = "assigned" /\ Under(r) /\ Heap(managed)
      /\ UNCHANGED <<endpoint, identity, mixed, busy, listed, rejected>>
  BY DEF UpdateRow, Under
<1>2. /\ EndpointsTyped /\ Known /\ record.version \in Nat /\ Stage(r) /\ Alone(r)
      /\ request \in [Requests -> Asked] /\ managed \in [Requests -> Instances] /\ stored \subseteq Values
      /\ record.values \in [Columns -> Values]
      /\ record \in [there : BOOLEAN, hidden : BOOLEAN, version : Nat, values : [Columns -> Values]]
  BY DEF EInv, EndpointsTyped
<1>3. Updates(r) /\ request[r].verb = "put" /\ r \notin rejected  BY <1>1, <1>2 DEF Stage, Updates
<1>4. PICK k \in Requests, i \in Instances : k = request[r].on /\ k # NoRequest /\ i = managed[k]
  BY <1>1, WorksOn
<1>5. request[r].sends \in Nat /\ request[r].column \in Columns /\ request[r].on \in Values  BY <1>2, FieldsOfRequest
<1>6. i.version \in Nat /\ i.values \in [Columns -> Values] /\ i.oldValues \in [Columns -> Values]  BY FieldsOfInstance
<1>7. \A c \in Columns :
          /\ i.oldValues[c] \in stored
          /\ i.values[c] \notin stored => /\ Updates(i.values[c]) /\ request[i.values[c]].on = k
                                          /\ request[i.values[c]].at \in {"assigned", "updated", "answered"}
  BY <1>4 DEF EInv, Origin
<1>8. r \notin mixed => /\ r \notin stored /\ i.values[request[r].column] = r
                        /\ request[r].sends > 0 => i.version = request[r].sends
  BY <1>1, <1>2, <1>3, <1>4 DEF Alone
<1>9. r \notin mixed => i.values[request[r].column] # i.oldValues[request[r].column]
  BY <1>5, <1>7, <1>8
<1>10. CASE Clean(i)
  <2>1. Answer(r, [status |-> 200, version |-> i.version]) /\ UNCHANGED <<record, stored>>
    BY <1>4, <1>10 DEF UpdateRow
  <2>2. PICK a \in Answers : a = [status |-> 200, version |-> i.version]  BY <1>6, VersionTold
  <2>3. /\ Answered(r, a) /\ Goes(r) /\ Stage(r)' /\ Reads(r)'
        /\ Updates(r)' => Updates(r)
    BY <1>1, <2>1, <2>2, AnsweredGoes
  <2>4. request' \in [Requests -> Asked] /\ request'[r].at = "answered"  BY <2>3 DEF Answered
  <2>5. /\ managed' \in [Requests -> Instances] /\ Touches(r) /\ \A j \in Requests : Origin(j)'
        /\ identity' \in Requests => managed'[identity'] = managed[identity']
    BY <1>1, <2>1, <2>3, <2>4, HeapStays
  <2>6. Stored(r) /\ Known'  BY <1>1, <1>2, <2>1 DEF Stored, Known
  <2>7. Cached'
    <3>1. identity # NoRequest => managed'[identity] = managed[identity]  BY <1>1, <1>2, <2>5 DEF EndpointsTyped, Values
    <3>2. request[r].on = identity => Clean(managed[identity])  BY <1>4, <1>10
    <3>. QED  BY <1>1, <2>1, <2>3, <3>1, <3>2, CachedKept
  <2>8. EndpointsTyped'  BY <1>1, <1>2, <2>1, <2>4, <2>5 DEF EndpointsTyped
  <2>9. r \in mixed  BY <1>9, <1>10 DEF Clean
  <2>10. Alone(r)'  BY <1>1, <2>4, <2>9 DEF Alone
  <2>11. rejected' = rejected /\ record' = record /\ listed' = listed  BY <1>1, <2>1
  <2>. QED  BY <1>2, <2>3, <2>5, <2>6, <2>7, <2>8, <2>9, <2>10, <2>11, Together
<1>11. ASSUME NEW b \in Answers, b.status \in {200, 409}, stored \subseteq stored',
              RowTold(r, b)
       PROVE  /\ Goes(r) /\ Stage(r)' /\ Reads(r)' /\ Touches(r) /\ Cached'
              /\ request' \in [Requests -> Asked] /\ managed' \in [Requests -> Instances]
              /\ \A j \in Requests : Origin(j)'
              /\ request'[r].at = "updated" /\ request'[r].row = b /\ request'[r].verb = "put"
              /\ request'[r].sends = request[r].sends /\ request'[r].on = request[r].on
  <2>1. Walks(r, "updated", request[r].on) /\ request'[r].row = b
    <3>1. request \in [Requests -> Asked]  BY <1>2
    <3>. QED  BY <1>11, <3>1, RowIs
  <2>2. /\ request' \in [Requests -> Asked] /\ Apiece(r)
        /\ request'[r].at = "updated" /\ request'[r].on = request[r].on /\ request'[r].verb = "put"
        /\ request'[r].sends = request[r].sends /\ request'[r].answer = request[r].answer
    BY <1>3, <2>1 DEF Walks
  <2>3. Goes(r)  BY <1>1, <1>3, <2>2 DEF Goes
  <2>4. /\ managed' \in [Requests -> Instances] /\ Touches(r) /\ \A j \in Requests : Origin(j)'
    BY <1>1, <1>11, <2>2, <2>3, HeapStays
  <2>5. Stage(r)'  BY <1>1, <1>2, <1>3, <1>4, <2>2 DEF Stage, Updates
  <2>6. Reads(r)'  BY <2>2 DEF Reads
  <2>7. Cached'  BY <2>2 DEF Cached, Clearing
  <2>. QED  BY <2>1, <2>2, <2>3, <2>4, <2>5, <2>6, <2>7
<1>12. CASE ~Clean(i) /\ record.there /\ record.version = i.version
  <2>1. PICK row : row = Written(i)  OBVIOUS
  <2>2. row \in [Columns -> Values]  BY <1>2, <1>6, <2>1 DEF Written
  <2>14. record.version + 1 \in Nat  BY <1>2
  <2>3. PICK b \in Answers : b = [status |-> 200, version |-> record.version + 1]  BY <2>14, VersionTold
  <2>4. /\ record' = [record EXCEPT !.version = @ + 1, !.values = row]
        /\ stored' = stored \cup {row[c] : c \in Columns}
        /\ RowTold(r, b)
    BY <1>4, <1>12, <2>1, <2>3 DEF UpdateRow, RowTold
  <2>5. /\ Goes(r) /\ Stage(r)' /\ Reads(r)' /\ Touches(r) /\ Cached'
        /\ request' \in [Requests -> Asked] /\ managed' \in [Requests -> Instances]
        /\ \A j \in Requests : Origin(j)'
        /\ request'[r].at = "updated" /\ request'[r].row = b /\ request'[r].verb = "put"
        /\ request'[r].sends = request[r].sends /\ request'[r].on = request[r].on
    BY <1>11, <2>3, <2>4
  <2>6. /\ record' \in [there : BOOLEAN, hidden : BOOLEAN, version : Nat, values : [Columns -> Values]]
        /\ record'.version = record.version + 1 /\ record'.values = row
        /\ record'.there = record.there /\ record'.hidden = record.hidden
    <3>1. PICK t \in BOOLEAN, h \in BOOLEAN, n \in Nat, w \in [Columns -> Values] :
              record = [there |-> t, hidden |-> h, version |-> n, values |-> w]
      BY <1>2
    <3>2. record' = [there |-> t, hidden |-> h, version |-> n + 1, values |-> row]  BY <2>4, <3>1
    <3>. QED  BY <2>2, <3>1, <3>2
  <2>7. stored' \subseteq Values /\ stored \subseteq stored'  BY <1>2, <2>2, <2>4
  <2>8. EndpointsTyped'  BY <1>1, <1>2, <2>5, <2>6, <2>7 DEF EndpointsTyped
  <2>9. Known'  BY <1>1, <1>2, <2>4, <2>6, <2>7 DEF Known
  <2>10. Stored(r)
    <3>1. ASSUME NEW v \in stored', v \notin stored
          PROVE  /\ Updates(v) /\ request[v].on = request[r].on
                 /\ request[v].at \in {"assigned", "updated", "answered"}
      <4>1. PICK c \in Columns : v = row[c]  BY <2>4, <3>1
      <4>2. v = record.values[c] \/ v = i.values[c]  BY <2>1, <4>1 DEF Written
      <4>3. v = i.values[c]  BY <1>2, <3>1, <4>2 DEF Known
      <4>. QED  BY <1>4, <1>7, <3>1, <4>3
    <3>. QED  BY <1>1, <1>3, <2>5, <2>7, <3>1 DEF Stored
  <2>11. Alone(r)'  BY <1>1, <2>3, <2>5 DEF Alone
  <2>12. r \notin mixed => Raises(r)
    <3>1. r \notin mixed => r = row[request[r].column]  BY <1>5, <1>8, <1>9, <2>1 DEF Written
    <3>. QED  BY <1>2, <1>5, <1>8, <1>12, <2>4, <2>6, <3>1 DEF Raises
  <2>13. rejected' = rejected /\ record.version <= record'.version  BY <1>1, <1>2, <2>6
  <2>. QED  BY <1>3, <2>5, <2>8, <2>9, <2>10, <2>11, <2>12, <2>13, Together
<1>13. CASE ~Clean(i) /\ ~(record.there /\ record.version = i.version)
  <2>1. PICK b : b = [NoAnswer EXCEPT !.status = 409]  OBVIOUS
  <2>11. 409 \in Statuses  BY DEF Statuses
  <2>2. b \in Answers /\ b.status = 409  BY <2>1, <2>11, NoVersion
  <2>3. /\ UNCHANGED <<record, stored>>
        /\ RowTold(r, b)
    BY <1>4, <1>13, <2>1 DEF UpdateRow, RowTold
  <2>5. /\ Goes(r) /\ Stage(r)' /\ Reads(r)' /\ Touches(r) /\ Cached'
        /\ request' \in [Requests -> Asked] /\ managed' \in [Requests -> Instances]
        /\ \A j \in Requests : Origin(j)'
        /\ request'[r].at = "updated" /\ request'[r].row = b /\ request'[r].verb = "put"
        /\ request'[r].sends = request[r].sends /\ request'[r].on = request[r].on
    BY <1>11, <2>2, <2>3
  <2>6. EndpointsTyped'  BY <1>1, <1>2, <2>3, <2>5 DEF EndpointsTyped
  <2>7. Known' /\ Stored(r)  BY <1>1, <1>2, <2>3 DEF Known, Stored
  <2>8. Alone(r)'  BY <1>1, <1>8, <2>2, <2>3, <2>5 DEF Alone
  <2>9. ~Stores(r)'  BY <2>2, <2>5 DEF Stores
  <2>10. rejected' = rejected /\ record.version <= record'.version  BY <1>1, <1>2, <2>3
  <2>. QED  BY <1>3, <2>5, <2>6, <2>7, <2>8, <2>9, <2>10, Together
<1>. QED  BY <1>10, <1>12, <1>13

LEMMA UpdateRefusedKeeps ==
    ASSUME EInv, NEW r \in Requests, UpdateRefused(r)
    PROVE  EInv'
<1>1. /\ request[r].at = "assigned" /\ Under(r) /\ Heap(managed) /\ rejected' = rejected \cup {r}
      /\ UNCHANGED <<endpoint, record, identity, stored, mixed, busy, listed>>
      /\ Answer(r, [NoAnswer EXCEPT !.status = 500])
  BY DEF UpdateRefused, Under
<1>2. /\ EndpointsTyped /\ Known /\ record.version \in Nat /\ Stage(r) /\ Alone(r)
  BY DEF EInv, EndpointsTyped
<1>3. Updates(r) /\ request[r].verb = "put"  BY <1>1, <1>2 DEF Stage, Updates
<1>4. PICK a : a = [NoAnswer EXCEPT !.status = 500]  OBVIOUS
<1>15. 500 \in Statuses  BY DEF Statuses
<1>5. a \in Answers /\ a.status = 500  BY <1>4, <1>15, NoVersion
<1>6. /\ Answered(r, a) /\ Goes(r) /\ Stage(r)' /\ Reads(r)'
      /\ Updates(r)' => Updates(r)
  BY <1>1, <1>3, <1>4, <1>5, AnsweredGoes
<1>7. /\ request' \in [Requests -> Asked] /\ request'[r].at = "answered" /\ request'[r].answer = a
      /\ request'[r].on = request[r].on
  BY <1>3, <1>6 DEF Answered
<1>8. /\ managed' \in [Requests -> Instances] /\ Touches(r) /\ \A j \in Requests : Origin(j)'
      /\ identity' \in Requests => managed'[identity'] = managed[identity']
  BY <1>1, <1>6, <1>7, HeapStays
<1>9. Stored(r) /\ Known'  BY <1>1, <1>2 DEF Stored, Known
<1>10. Cached'
  <2>1. identity # NoRequest => managed'[identity] = managed[identity]  BY <1>1, <1>2, <1>8 DEF EndpointsTyped, Values
  <2>2. rejected \subseteq rejected' /\ r \in rejected'  BY <1>1
  <2>. QED  BY <1>1, <1>6, <1>7, <2>1, <2>2, CachedKept
<1>11. EndpointsTyped'  BY <1>1, <1>2, <1>7, <1>8 DEF EndpointsTyped
<1>12. Alone(r)'
  <2>1. r \notin mixed => r \notin stored  BY <1>1, <1>2, <1>3 DEF Alone
  <2>. QED  BY <1>1, <1>5, <1>7, <2>1 DEF Alone
<1>13. ~Stores(r)'  BY <1>5, <1>7 DEF Stores
<1>14. rejected \subseteq rejected' /\ rejected' \subseteq rejected \cup {r} /\ record.version <= record'.version
  BY <1>1, <1>2
<1>. QED  BY <1>3, <1>6, <1>8, <1>9, <1>10, <1>11, <1>12, <1>13, <1>14, Together

LEMMA UpdatedKeeps ==
    ASSUME EInv, NEW r \in Requests, Updated(r)
    PROVE  EInv'
<1>1. /\ request[r].at = "updated" /\ Under(r) /\ Heap(managed) /\ identity' = NoRequest
      /\ UNCHANGED <<endpoint, record, stored, mixed, busy, listed, rejected>>
      /\ Answer(r, request[r].row)
  BY DEF Updated, Under
<1>2. /\ EndpointsTyped /\ Known /\ record.version \in Nat /\ Stage(r) /\ Alone(r)
      /\ request \in [Requests -> Asked] /\ NoRequest \in Values
  BY DEF EInv, EndpointsTyped, Values
<1>3. Updates(r) /\ request[r].verb = "put" /\ request[r].on # NoRequest  BY <1>1, <1>2 DEF Stage, Updates
<1>4. PICK a \in Answers : a = request[r].row  BY <1>2, FieldsOfRequest
<1>6. /\ Answered(r, a) /\ Goes(r) /\ Stage(r)' /\ Reads(r)'
      /\ Updates(r)' => Updates(r)
  BY <1>1, <1>4, AnsweredGoes
<1>7. /\ request' \in [Requests -> Asked] /\ request'[r].at = "answered" /\ request'[r].answer = a
      /\ request'[r].on = request[r].on /\ Apiece(r)
  BY <1>3, <1>6 DEF Answered
<1>8. /\ managed' \in [Requests -> Instances] /\ Touches(r) /\ \A j \in Requests : Origin(j)'
  BY <1>1, <1>6, <1>7, HeapStays
<1>9. Stored(r) /\ Known'  BY <1>1, <1>2 DEF Stored, Known
<1>10. Cached'  BY <1>1 DEF Cached
<1>11. EndpointsTyped'  BY <1>1, <1>2, <1>7, <1>8 DEF EndpointsTyped
<1>12. Alone(r)'
  <2>1. r \notin mixed => /\ a.status \in {200, 409}
                          /\ a.status = 409 => r \notin stored
    BY <1>1, <1>2, <1>3, <1>4 DEF Alone
  <2>2. ASSUME r \notin mixed, NEW p \in Requests, Updates(p)', Under(p)'
        PROVE  request'[p].on # request[r].on
    <3>1. p # r /\ request'[p] = request[p]  BY <1>7, <2>2 DEF Under, Apiece
    <3>2. Updates(p) /\ Under(p)  BY <2>2, <3>1 DEF Updates, Under
    <3>3. Shared(p, r)  BY DEF EInv
    <3>. QED  BY <1>1, <1>3, <2>2, <3>1, <3>2, <3>3 DEF Shared
  <2>3. r \notin mixed' => r \notin mixed  BY <1>1
  <2>4. r \notin mixed' /\ Updates(r)' =>
            /\ a.status \in {200, 409} /\ (a.status = 409 => r \notin stored')
            /\ identity' # request'[r].on /\ request'[r].on # NoRequest
            /\ \A p \in Requests : Updates(p)' /\ Under(p)' => request'[p].on # request'[r].on
    BY <1>1, <1>3, <1>7, <2>1, <2>2, <2>3
  <2>. QED  BY <1>7, <2>4 DEF Alone
<1>13. Stores(r)' => Stores(r)  BY <1>1, <1>4, <1>7 DEF Stores
<1>14. rejected' = rejected /\ record.version <= record'.version  BY <1>1, <1>2
<1>. QED  BY <1>3, <1>6, <1>8, <1>9, <1>10, <1>11, <1>12, <1>13, <1>14, Together

LEMMA DeleteRowKeeps ==
    ASSUME EInv, NEW r \in Requests, DeleteRow(r)
    PROVE  EInv'
<1>1. /\ request[r].at \in {"found", "asked"} /\ request[r].verb = "delete" /\ Under(r) /\ ~Updates(r)
      /\ UNCHANGED <<endpoint, managed, identity, stored, mixed, busy, rejected>>
      /\ request' = [request EXCEPT ![r].at = "deleted"] /\ listed' = (listed /\ record.hidden)
  BY DEF DeleteRow, Under, Updates
<1>2. /\ EndpointsTyped /\ Known /\ record.version \in Nat /\ Stage(r) /\ Alone(r)
      /\ request \in [Requests -> Asked]
      /\ record \in [there : BOOLEAN, hidden : BOOLEAN, version : Nat, values : [Columns -> Values]]
  BY DEF EInv, EndpointsTyped
<1>3. request[r].on \in Values  BY <1>2, FieldsOfRequest
<1>4. Walks(r, "deleted", request[r].on)  BY <1>1, <1>2, StaysIs DEF Stages
<1>5. /\ request' \in [Requests -> Asked] /\ Apiece(r)
      /\ request'[r].at = "deleted" /\ request'[r].on = request[r].on /\ request'[r].verb = "delete"
      /\ request'[r].sends = request[r].sends /\ request'[r].answer = request[r].answer
  BY <1>1, <1>4 DEF Walks
<1>6. Goes(r)  BY <1>1, <1>5 DEF Goes
<1>7. Touches(r) /\ Stored(r)  BY <1>1 DEF Touches, Stored
<1>8. /\ record' \in [there : BOOLEAN, hidden : BOOLEAN, version : Nat, values : [Columns -> Values]]
      /\ record'.version = record.version /\ record'.values = record.values
      /\ endpoint.soft => record'.there = record.there
      /\ ~endpoint.soft => record'.hidden = record.hidden
  BY <1>2 DEF DeleteRow
<1>9. EndpointsTyped'  BY <1>1, <1>2, <1>5, <1>8 DEF EndpointsTyped
<1>10. Known'  BY <1>1, <1>2, <1>8 DEF Known
<1>11. Cached'  BY <1>5 DEF Cached, Clearing
<1>12. Stage(r)'  BY <1>1, <1>2, <1>5 DEF Stage
<1>13. Alone(r)' /\ Reads(r)'  BY <1>5 DEF Alone, Reads, Updates
<1>14. ASSUME NEW k \in Requests PROVE Origin(k)'
  <2>1. managed'[k] \in {managed[k], NoInstance} /\ stored \subseteq stored' /\ request[r].at \notin {"assigned", "updated"}
    BY <1>1
  <2>. QED  BY <1>6, <2>1, OriginKept
<1>15. rejected' = rejected /\ record.version <= record'.version /\ ~Stores(r)'  BY <1>1, <1>2, <1>5, <1>8 DEF Stores
<1>. QED  BY <1>1, <1>6, <1>7, <1>9, <1>10, <1>11, <1>12, <1>13, <1>14, <1>15, Together

LEMMA RestoreRowKeeps ==
    ASSUME EInv, NEW r \in Requests, RestoreRow(r)
    PROVE  EInv'
<1>1. /\ request[r].at = "found" /\ request[r].verb = "restore" /\ Under(r) /\ ~Updates(r)
      /\ UNCHANGED <<endpoint, managed, identity, stored, mixed, busy, listed, rejected>>
      /\ request' = [request EXCEPT ![r].at = "restored"] /\ record' = [record EXCEPT !.hidden = FALSE]
  BY DEF RestoreRow, Under, Updates
<1>2. /\ EndpointsTyped /\ Known /\ record.version \in Nat /\ Stage(r) /\ Alone(r)
      /\ request \in [Requests -> Asked]
      /\ record \in [there : BOOLEAN, hidden : BOOLEAN, version : Nat, values : [Columns -> Values]]
  BY DEF EInv, EndpointsTyped
<1>3. request[r].on \in Values  BY <1>2, FieldsOfRequest
<1>4. Walks(r, "restored", request[r].on)  BY <1>1, <1>2, StaysIs DEF Stages
<1>5. /\ request' \in [Requests -> Asked] /\ Apiece(r)
      /\ request'[r].at = "restored" /\ request'[r].on = request[r].on /\ request'[r].verb = "restore"
      /\ request'[r].sends = request[r].sends /\ request'[r].answer = request[r].answer
  BY <1>1, <1>4 DEF Walks
<1>6. Goes(r)  BY <1>1, <1>5 DEF Goes
<1>7. Touches(r) /\ Stored(r)  BY <1>1 DEF Touches, Stored
<1>8. /\ record' \in [there : BOOLEAN, hidden : BOOLEAN, version : Nat, values : [Columns -> Values]]
      /\ record'.version = record.version /\ record'.values = record.values
      /\ record'.there = record.there /\ record'.hidden = FALSE
  BY <1>1, <1>2
<1>9. EndpointsTyped'  BY <1>1, <1>2, <1>5, <1>8 DEF EndpointsTyped
<1>10. Known'  BY <1>1, <1>2, <1>8 DEF Known
<1>11. Cached'  BY <1>5 DEF Cached, Clearing
<1>12. Stage(r)'  BY <1>1, <1>2, <1>5 DEF Stage
<1>13. Alone(r)' /\ Reads(r)'  BY <1>5 DEF Alone, Reads, Updates
<1>14. ASSUME NEW k \in Requests PROVE Origin(k)'
  <2>1. managed'[k] \in {managed[k], NoInstance} /\ stored \subseteq stored' /\ request[r].at \notin {"assigned", "updated"}
    BY <1>1
  <2>. QED  BY <1>6, <2>1, OriginKept
<1>15. rejected' = rejected /\ record.version <= record'.version /\ ~Stores(r)'  BY <1>1, <1>2, <1>5, <1>8 DEF Stores
<1>. QED  BY <1>1, <1>6, <1>7, <1>9, <1>10, <1>11, <1>12, <1>13, <1>14, <1>15, Together

\* A request other than an update that clears the cache and is answered.
LEMMA ClearsAndAnswers ==
    ASSUME EInv, NEW r \in Requests, NEW a \in Answers, Under(r), ~Updates(r), request[r].verb # "get",
           request[r].at \notin {"assigned", "updated"},
           Answer(r, a), Heap(managed), identity' = NoRequest,
           UNCHANGED <<endpoint, record, stored, mixed, busy, listed, rejected>>
    PROVE  EInv'
<1>1. EndpointsTyped /\ Known /\ record.version \in Nat  BY DEF EInv, EndpointsTyped
<1>2. /\ Answered(r, a) /\ Goes(r) /\ Stage(r)' /\ Reads(r)'
      /\ ~Updates(r)'
  BY AnsweredGoes
<1>3. request' \in [Requests -> Asked] /\ request'[r].at = "answered"  BY <1>2 DEF Answered
<1>4. managed' \in [Requests -> Instances] /\ Touches(r) /\ \A k \in Requests : Origin(k)'
  BY <1>2, HeapStays
<1>5. Stored(r) /\ Known' /\ Cached'  BY <1>1 DEF Stored, Known, Cached
<1>6. EndpointsTyped'  BY <1>1, <1>3, <1>4 DEF EndpointsTyped, Values
<1>7. Alone(r)'  BY <1>2, <1>3 DEF Alone
<1>8. rejected' = rejected /\ record.version <= record'.version  BY <1>1
<1>. QED  BY <1>2, <1>4, <1>5, <1>6, <1>7, <1>8, Together

LEMMA DeletedKeeps ==
    ASSUME EInv, NEW r \in Requests, Deleted(r)
    PROVE  EInv'
<1>1. Stage(r)  BY DEF EInv
<1>2. /\ request[r].at = "deleted" /\ request[r].verb = "delete" /\ Under(r) /\ ~Updates(r)
      /\ UNCHANGED <<endpoint, record, stored, mixed, busy, listed, rejected>>
      /\ Heap(managed) /\ identity' = NoRequest /\ Answer(r, [NoAnswer EXCEPT !.status = 204])
  BY <1>1 DEF Deleted, Under, Updates, Stage
<1>3. PICK a : a = [NoAnswer EXCEPT !.status = 204]  OBVIOUS
<1>4. 204 \in Statuses  BY DEF Statuses
<1>5. a \in Answers  BY <1>3, <1>4, NoVersion
<1>. QED  BY <1>2, <1>3, <1>5, ClearsAndAnswers

LEMMA RestoredKeeps ==
    ASSUME EInv, NEW r \in Requests, Restored(r)
    PROVE  EInv'
<1>1. Stage(r) /\ managed \in [Requests -> Instances]  BY DEF EInv, EndpointsTyped
<1>2. /\ request[r].at = "restored" /\ request[r].verb = "restore" /\ Under(r) /\ ~Updates(r)
      /\ UNCHANGED <<endpoint, record, stored, mixed, busy, listed, rejected>>
      /\ Heap(managed) /\ identity' = NoRequest /\ Answer(r, [status |-> 200, version |-> managed[r].version])
  BY <1>1 DEF Restored, Under, Updates, Stage
<1>3. managed[r].version \in Nat  BY <1>1, FieldsOfInstance
<1>4. PICK a \in Answers : a = [status |-> 200, version |-> managed[r].version]  BY <1>3, VersionTold
<1>. QED  BY <1>2, <1>4, ClearsAndAnswers

LEMMA FindDeletedKeeps ==
    ASSUME EInv, NEW r \in Requests, FindDeleted(r)
    PROVE  EInv'
<1>1. /\ request[r].at = "asked" /\ request[r].verb = "deleted" /\ Under(r) /\ ~Updates(r)
      /\ UNCHANGED <<endpoint, record, stored, mixed, busy, rejected>>
      /\ Answer(r, [NoAnswer EXCEPT !.status = 200])
  BY DEF FindDeleted, Under, Updates
<1>2. /\ EndpointsTyped /\ Known /\ record.version \in Nat /\ managed \in [Requests -> Instances]
      /\ r \in Values /\ listed \in BOOLEAN
  BY DEF EInv, EndpointsTyped, Values
<1>3. PICK a : a = [NoAnswer EXCEPT !.status = 200]  OBVIOUS
<1>4. 200 \in Statuses  BY DEF Statuses
<1>5. a \in Answers  BY <1>3, <1>4, NoVersion
<1>6. CASE record.hidden
  <2>1. Loads(r) /\ listed' = TRUE  BY <1>6 DEF FindDeleted
  <2>2. managed' \in [Requests -> Instances] /\ identity' = r  BY <2>1, LoadsIs
  <2>3. /\ Answered(r, a) /\ Goes(r) /\ Stage(r)' /\ Reads(r)'
        /\ ~Updates(r)'
    BY <1>1, <1>3, <1>5, <2>2, AnsweredGoes
  <2>4. request' \in [Requests -> Asked] /\ request'[r].at = "answered"  BY <2>3 DEF Answered
  <2>5. record.there  BY <1>2, <1>6 DEF Known
  <2>6. Touches(r) /\ Stored(r) /\ Known' /\ Cached' /\ \A k \in Requests : Origin(k)'
    BY <1>1, <2>1, <2>3, <2>5, LoadedHolds
  <2>7. EndpointsTyped'  BY <1>1, <1>2, <2>1, <2>2, <2>4 DEF EndpointsTyped
  <2>8. Alone(r)'  BY <2>3, <2>4 DEF Alone
  <2>9. rejected' = rejected /\ record.version <= record'.version  BY <1>1, <1>2
  <2>. QED  BY <1>1, <2>3, <2>6, <2>7, <2>8, <2>9, Together
<1>7. CASE ~record.hidden
  <2>1. UNCHANGED <<managed, identity, listed>>  BY <1>7 DEF FindDeleted
  <2>3. /\ Answered(r, a) /\ Goes(r) /\ Stage(r)' /\ Reads(r)'
        /\ ~Updates(r)'
    BY <1>1, <1>3, <1>5, <2>1, AnsweredGoes
  <2>4. request' \in [Requests -> Asked] /\ request'[r].at = "answered"  BY <2>3 DEF Answered
  <2>5. Touches(r) /\ Stored(r) /\ Known'  BY <1>1, <1>2, <2>1 DEF Touches, Stored, Known
  <2>6. Cached'  BY <1>1, <2>1, <2>3, CachedKept
  <2>7. EndpointsTyped'  BY <1>1, <1>2, <2>1, <2>4 DEF EndpointsTyped
  <2>8. Alone(r)'  BY <2>3, <2>4 DEF Alone
  <2>9. rejected' = rejected /\ record.version <= record'.version  BY <1>1, <1>2
  <2>10. ASSUME NEW k \in Requests PROVE Origin(k)'
    <3>1. managed'[k] \in {managed[k], NoInstance} /\ stored \subseteq stored' /\ request[r].at \notin {"assigned", "updated"}
      BY <1>1, <2>1
    <3>. QED  BY <2>3, <3>1, OriginKept
  <2>. QED  BY <1>1, <2>3, <2>5, <2>6, <2>7, <2>8, <2>9, <2>10, Together
<1>. QED  BY <1>6, <1>7

LEMMA FindToRestoreKeeps ==
    ASSUME EInv, NEW r \in Requests, FindToRestore(r)
    PROVE  EInv'
<1>1. /\ request[r].at = "asked" /\ request[r].verb = "restore" /\ Under(r) /\ ~Updates(r)
      /\ UNCHANGED <<endpoint, record, stored, mixed, busy, rejected>>
      /\ Found(r, r) /\ Loads(r) /\ listed' = (listed \/ record.hidden)
  BY DEF FindToRestore, Under, Updates
<1>2. /\ EndpointsTyped /\ Known /\ record.version \in Nat /\ Stage(r) /\ Alone(r)
      /\ request \in [Requests -> Asked] /\ listed \in BOOLEAN /\ record.hidden \in BOOLEAN
  BY DEF EInv, EndpointsTyped
<1>3. r # NoRequest /\ r \in Values  BY EndpointConstants DEF Values
<1>4. Walks(r, "found", r)  BY <1>1, <1>2, <1>3, GoesIs DEF Found, Stages
<1>5. /\ request' \in [Requests -> Asked] /\ Apiece(r)
      /\ request'[r].at = "found" /\ request'[r].on = r /\ request'[r].verb = "restore"
      /\ request'[r].sends = request[r].sends /\ request'[r].answer = request[r].answer
  BY <1>1, <1>4 DEF Walks
<1>6. managed' \in [Requests -> Instances] /\ identity' = r  BY <1>1, LoadsIs
<1>7. Goes(r)  BY <1>1, <1>5, <1>6 DEF Goes
<1>8. record.there  BY <1>1, <1>2 DEF Known, Stage
<1>9. Touches(r) /\ Stored(r) /\ Known' /\ Cached' /\ \A k \in Requests : Origin(k)'
  <2>1. record.hidden => listed'  BY <1>1
  <2>. QED  BY <1>1, <1>7, <1>8, <2>1, LoadedHolds
<1>10. listed' \in BOOLEAN  BY <1>1
<1>11. EndpointsTyped'  BY <1>1, <1>2, <1>3, <1>5, <1>6, <1>10 DEF EndpointsTyped
<1>12. Stage(r)'  BY <1>1, <1>2, <1>3, <1>5 DEF Stage
<1>13. Alone(r)' /\ Reads(r)'  BY <1>1, <1>2, <1>5 DEF Alone, Reads, Updates
<1>14. rejected' = rejected /\ record.version <= record'.version /\ ~Stores(r)'  BY <1>1, <1>2, <1>5 DEF Stores
<1>. QED  BY <1>1, <1>7, <1>9, <1>11, <1>12, <1>13, <1>14, Together

\* The request that comes in.
Comes(v, n, c) ==
    [NewRequest EXCEPT !.verb = v, !.sends = n, !.column = c,
                       !.on = IF LooksUp(v) THEN identity ELSE NoRequest,
                       !.at = IF LooksUp(v) /\ identity # NoRequest THEN "found" ELSE "asked"]

LEMMA ComesIs ==
    ASSUME identity \in Values, NEW v \in Verbs, NEW n \in Nat, NEW c \in Columns
    PROVE  /\ Comes(v, n, c) \in Asked /\ Comes(v, n, c).verb = v /\ Comes(v, n, c).answer.status = 0
           /\ \/ /\ Comes(v, n, c).at = "found" /\ Comes(v, n, c).on = identity /\ identity # NoRequest
                 /\ LooksUp(v)
              \/ Comes(v, n, c).at = "asked" /\ Comes(v, n, c).on = NoRequest
<1>1. PICK d \in Columns : d = NewRequest.column  BY EndpointConstants
<1>2. PICK o \in Values : o = IF LooksUp(v) THEN identity ELSE NoRequest  BY DEF Values
<1>3. PICK t \in Stages : t = IF LooksUp(v) /\ identity # NoRequest THEN "found" ELSE "asked"  BY DEF Stages
<1>4. NewRequest = [verb |-> "none", sends |-> 0, column |-> d, on |-> NoRequest,
                    at |-> "new", row |-> NoAnswer, answer |-> NoAnswer]
  BY <1>1 DEF NewRequest
<1>5. NoAnswer \in Answers /\ NoAnswer.status = 0  BY DEF NoAnswer, Answers, Statuses
<1>6. PICK x : x = [verb |-> v, sends |-> n, column |-> c, on |-> o, at |-> t, row |-> NoAnswer, answer |-> NoAnswer]
  OBVIOUS
<1>7. Comes(v, n, c) = x
  <2>1. NewRequest = [f \in RequestFields |-> NewRequest[f]]  BY <1>4 DEF RequestFields
  <2>2. [NewRequest EXCEPT !.verb = v, !.sends = n, !.column = c, !.on = o, !.at = t]
        = [f \in RequestFields |-> IF f = "at" THEN t ELSE IF f = "on" THEN o ELSE IF f = "column" THEN c
                                   ELSE IF f = "sends" THEN n ELSE IF f = "verb" THEN v ELSE NewRequest[f]]
    BY <2>1 DEF RequestFields
  <2>3. [NewRequest EXCEPT !.verb = v, !.sends = n, !.column = c, !.on = o, !.at = t] = x
    BY <1>4, <1>6, <2>2 DEF RequestFields
  <2>. QED  BY <1>2, <1>3, <2>3 DEF Comes
<1>8. x \in Asked  BY <1>5, <1>6 DEF Asked, Stages
<1>9. x.verb = v /\ x.answer = NoAnswer /\ x.at = t /\ x.on = o  BY <1>6
<1>. QED  BY <1>2, <1>3, <1>5, <1>7, <1>8, <1>9

\* The updates that have the instance in the cache.
Sharing == {q \in Requests : Updates(q) /\ Under(q) /\ request[q].on = identity}

LEMMA AskIs ==
    ASSUME EInv, NEW r \in Requests, Ask(r)
    PROVE  /\ request[r].at = "new" /\ UNCHANGED <<endpoint, record, managed, identity, stored, listed, rejected>>
           /\ request' \in [Requests -> Asked] /\ Apiece(r)
           /\ request'[r].verb # "none" /\ request'[r].answer.status = 0
           /\ request'[r].verb \in {"deleted", "restore"} => endpoint.soft
           /\ \/ request'[r].at = "found" /\ request'[r].on = identity /\ identity # NoRequest
              \/ request'[r].at = "asked" /\ request'[r].on = NoRequest
           /\ request'[r].at = "found" => request'[r].verb \in {"get", "put", "delete"}
           /\ busy' \subseteq Requests /\ busy \subseteq busy'
           /\ (\E q \in Requests : Under(q)) => r \in busy'
           /\ request'[r].verb # "get" => \A q \in Requests : Under(q) => q \in busy'
           /\ mixed' \subseteq Requests /\ mixed \subseteq mixed'
           /\ request'[r].verb = "put" /\ identity # NoRequest /\ Sharing # {} =>
                  r \in mixed' /\ Sharing \subseteq mixed'
<1>1. /\ request \in [Requests -> Asked] /\ identity \in Values /\ endpoint \in EndpointKinds
      /\ mixed \subseteq Requests /\ busy \subseteq Requests
  BY DEF EInv, EndpointsTyped
<1>2. request[r].at = "new" /\ UNCHANGED <<endpoint, record, managed, identity, stored, listed, rejected>>
  BY DEF Ask
<1>15. PICK v \in Offered :
          \E n \in (IF v = "put" THEN {0} \cup Told ELSE {0}), c \in Sends(v) :
              /\ request' = [request EXCEPT ![r] = Comes(v, n, c)]
              /\ busy' = busy \cup (IF \E q \in Requests : Under(q) THEN {r} ELSE {})
                             \cup {q \in Requests : Under(q) /\ v # "get"}
              /\ mixed' = IF v = "put" /\ identity # NoRequest /\ Sharing # {}
                          THEN mixed \cup Sharing \cup {r} ELSE mixed
  BY DEF Ask, Comes, Sharing
<1>3. PICK n \in (IF v = "put" THEN {0} \cup Told ELSE {0}), c \in Sends(v) :
          /\ request' = [request EXCEPT ![r] = Comes(v, n, c)]
          /\ busy' = busy \cup (IF \E q \in Requests : Under(q) THEN {r} ELSE {})
                         \cup {q \in Requests : Under(q) /\ v # "get"}
          /\ mixed' = IF v = "put" /\ identity # NoRequest /\ Sharing # {}
                      THEN mixed \cup Sharing \cup {r} ELSE mixed
  BY <1>15
<1>4. v \in Verbs /\ v # "none" /\ (v \in {"deleted", "restore"} => endpoint.soft)
  <2>1. endpoint.verbs \subseteq {"get", "put", "delete", "deleted", "restore"}  BY <1>1, EndpointConstants
  <2>. QED  BY <2>1 DEF Offered, Verbs
<1>5. n \in Nat
  <2>1. \A q \in Requests : request[q].answer.version \in Nat
    <3>1. ASSUME NEW q \in Requests PROVE request[q].answer \in Answers  BY <1>1, FieldsOfRequest
    <3>. QED  BY <3>1 DEF Answers
  <2>2. Told \subseteq Nat  BY <2>1 DEF Told
  <2>. QED  BY <2>2
<1>6. c \in Columns  BY EndpointConstants DEF Sends
<1>7. PICK x : x = Comes(v, n, c)  OBVIOUS
<1>8. /\ x \in Asked /\ x.verb = v /\ x.answer.status = 0
      /\ \/ x.at = "found" /\ x.on = identity /\ identity # NoRequest /\ LooksUp(v)
         \/ x.at = "asked" /\ x.on = NoRequest
  BY <1>1, <1>4, <1>5, <1>6, <1>7, ComesIs
<1>9. request' = [request EXCEPT ![r] = x]  BY <1>3, <1>7
<1>10. request'[r] = x /\ request' \in [Requests -> Asked] /\ Apiece(r)  BY <1>1, <1>8, <1>9 DEF Apiece
<1>11. x.at = "found" => v \in {"get", "put", "delete"}  BY <1>8 DEF LooksUp
<1>12. /\ busy' \subseteq Requests /\ busy \subseteq busy'
       /\ (\E q \in Requests : Under(q)) => r \in busy'
       /\ v # "get" => \A q \in Requests : Under(q) => q \in busy'
  BY <1>1, <1>3
<1>13. Sharing \subseteq Requests  BY DEF Sharing
<1>14. /\ mixed' \subseteq Requests /\ mixed \subseteq mixed'
       /\ v = "put" /\ identity # NoRequest /\ Sharing # {} => r \in mixed' /\ Sharing \subseteq mixed'
  BY <1>1, <1>3, <1>13
<1>. QED  BY <1>2, <1>4, <1>8, <1>10, <1>11, <1>12, <1>14

LEMMA AskKeeps ==
    ASSUME EInv, NEW r \in Requests, Ask(r)
    PROVE  EInv'
<1>1. /\ request[r].at = "new" /\ UNCHANGED <<endpoint, record, managed, identity, stored, listed, rejected>>
      /\ request' \in [Requests -> Asked] /\ \A q \in Requests : q # r => request'[q] = request[q]
      /\ request'[r].verb # "none" /\ request'[r].answer.status = 0
      /\ request'[r].verb \in {"deleted", "restore"} => endpoint.soft
      /\ \/ request'[r].at = "found" /\ request'[r].on = identity /\ identity # NoRequest
         \/ request'[r].at = "asked" /\ request'[r].on = NoRequest
      /\ request'[r].at = "found" => request'[r].verb \in {"get", "put", "delete"}
      /\ busy' \subseteq Requests /\ busy \subseteq busy'
      /\ (\E q \in Requests : Under(q)) => r \in busy'
      /\ request'[r].verb # "get" => \A q \in Requests : Under(q) => q \in busy'
      /\ mixed' \subseteq Requests /\ mixed \subseteq mixed'
      /\ request'[r].verb = "put" /\ identity # NoRequest /\ Sharing # {} =>
             r \in mixed' /\ Sharing \subseteq mixed'
  BY AskIs DEF Apiece
<1>2. /\ EndpointsTyped /\ Known /\ Stage(r) /\ Alone(r) /\ Loaded(identity)
      /\ rejected \subseteq Requests /\ stored \subseteq Values /\ identity \in Values
      /\ managed \in [Requests -> Instances] /\ NoRequest \notin Requests /\ NoRequest \in stored
      /\ record.hidden \in BOOLEAN
  BY EndpointConstants DEF EInv, EndpointsTyped, Known
<1>3. r \notin rejected  BY <1>1, <1>2 DEF Stage
<1>4. EndpointsTyped'  BY <1>1, <1>2 DEF EndpointsTyped
<1>5. Known'  BY <1>1, <1>2 DEF Known
<1>6. ASSUME NEW k, Loaded(k) PROVE Loaded(k)'  BY <1>1, <1>6 DEF Loaded
<1>7. Loaded(identity)'
  <2>1. PICK k : k = identity /\ Loaded(k)  BY <1>2
  <2>2. Loaded(k)'  BY <1>6, <2>1
  <2>. QED  BY <1>1, <2>1, <2>2 DEF Loaded
<1>8. ASSUME NEW q \in Requests PROVE Stage(q)'
  <2>1. Stage(q)  BY DEF EInv
  <2>2. CASE q = r  BY <1>1, <1>3, <2>2 DEF Stage, Updates
  <2>3. CASE q # r
    <3>1. request'[q] = request[q]  BY <1>1, <2>3
    <3>. QED  BY <1>1, <2>1, <3>1 DEF Stage, Updates
  <2>. QED  BY <2>2, <2>3
<1>9. ASSUME NEW q \in Requests PROVE Loaded(request[q].on)'
  <2>1. PICK k : k = request'[q].on  OBVIOUS
  <2>2. Loaded(k)
    <3>1. Loaded(request[q].on) /\ Loaded(NoRequest)  BY <1>2 DEF EInv, Loaded
    <3>. QED  BY <1>1, <1>2, <2>1, <3>1
  <2>3. Loaded(k)'  BY <1>6, <2>2
  <2>. QED  BY <2>1, <2>3 DEF Loaded
<1>10. ASSUME NEW p \in Requests, NEW q \in Requests PROVE Shared(p, q)'
  <2>. SUFFICES ASSUME p # q, Updates(p)', Updates(q)', Under(p)', Under(q)', request'[p].on = request'[q].on,
                       request'[p].on # NoRequest
                PROVE  q \in mixed'
    BY DEF Shared
  <2>1. CASE p = r
    <3>1. request'[q] = request[q]  BY <1>1, <2>1
    <3>2. Updates(q) /\ Under(q) /\ request[q].on = identity /\ identity # NoRequest /\ request'[r].verb = "put"
      BY <1>1, <2>1, <3>1 DEF Updates, Under
    <3>3. q \in Sharing  BY <3>2 DEF Sharing
    <3>. QED  BY <1>1, <3>2, <3>3
  <2>2. CASE q = r
    <3>1. request'[p] = request[p]  BY <1>1, <2>2
    <3>2. Updates(p) /\ Under(p) /\ request[p].on = identity /\ identity # NoRequest /\ request'[r].verb = "put"
      BY <1>1, <2>2, <3>1 DEF Updates, Under
    <3>3. p \in Sharing  BY <3>2 DEF Sharing
    <3>. QED  BY <1>1, <2>2, <3>2, <3>3
  <2>3. CASE p # r /\ q # r
    <3>1. request'[p] = request[p] /\ request'[q] = request[q] /\ Shared(p, q)  BY <1>1, <2>3 DEF EInv
    <3>2. q \in mixed  BY <3>1 DEF Shared, Updates, Under
    <3>. QED  BY <1>1, <3>2
  <2>. QED  BY <2>1, <2>2, <2>3
<1>11. ASSUME NEW k \in Requests PROVE Origin(k)'
  <2>. SUFFICES ASSUME NEW c \in Columns, NEW v, v = managed[k].values[c]
                PROVE  /\ managed[k].oldValues[c] \in stored
                       /\ v \notin stored => /\ request'[v].verb = "put" /\ request'[v].on = k
                                             /\ request'[v].at \in {"assigned", "updated", "answered"}
    BY <1>1 DEF Origin, Updates
  <2>1. /\ managed[k].oldValues[c] \in stored
        /\ v \notin stored => /\ Updates(v) /\ request[v].on = k
                              /\ request[v].at \in {"assigned", "updated", "answered"}
    BY DEF EInv, Origin
  <2>2. v \in Values
    <3>1. managed[k].values \in [Columns -> Values]  BY <1>2, FieldsOfInstance
    <3>. QED  BY <3>1
  <2>3. v \notin stored => v \in Requests /\ v # r  BY <1>1, <1>2, <2>1, <2>2 DEF Values
  <2>4. v \notin stored => request'[v] = request[v]  BY <1>1, <2>3
  <2>. QED  BY <2>1, <2>4 DEF Updates
<1>12. ASSUME NEW q \in Requests PROVE Alone(q)'
  <2>1. Alone(q)  BY DEF EInv
  <2>2. CASE q = r
    <3>1. r \notin stored /\ request'[r].at \in {"asked", "found"}  BY <1>1, <1>2 DEF Alone
    <3>. QED  BY <1>1, <2>2, <3>1 DEF Alone
  <2>3. CASE q # r
    <3>1. request'[q] = request[q]  BY <1>1, <2>3
    <3>2. ASSUME request[q].on # NoRequest, identity # request[q].on,
                 \A p \in Requests : Updates(p) /\ Under(p) => request[p].on # request[q].on
          PROVE  \A p \in Requests : Updates(p)' /\ Under(p)' => request'[p].on # request[q].on
      <4>. SUFFICES ASSUME NEW p \in Requests, Updates(p)', Under(p)' PROVE request'[p].on # request[q].on  OBVIOUS
      <4>1. CASE p = r  BY <1>1, <3>2, <4>1
      <4>2. CASE p # r
        <5>1. request'[p] = request[p]  BY <1>1, <4>2
        <5>2. Updates(p) /\ Under(p)  BY <5>1 DEF Updates, Under
        <5>. QED  BY <3>2, <5>1, <5>2
      <4>. QED  BY <4>1, <4>2
    <3>3. ASSUME NEW p \in Requests \ {q}, Updates(p), request[p].on = request[q].on,
                 request[p].at \in {"updated", "answered"}
          PROVE  \E o \in Requests \ {q} : /\ Updates(o)' /\ request'[o].on = request[q].on
                                           /\ request'[o].at \in {"updated", "answered"}
      <4>1. request'[p] = request[p]  BY <1>1, <3>3
      <4>2. Updates(p)' /\ request'[p].on = request[q].on /\ request'[p].at \in {"updated", "answered"}
        BY <3>3, <4>1 DEF Updates
      <4>. QED  BY <4>2
    <3>4. request[q].at \in {"new", "asked", "found"} => q \notin stored  BY <2>1 DEF Alone
    <3>5. q \notin mixed' => q \notin mixed  BY <1>1
    <3>6. ASSUME q \notin mixed, Updates(q)
          PROVE  /\ request[q].at = "assigned" =>
                        /\ q \notin stored
                        /\ managed[request[q].on].values[request[q].column] = q
                        /\ request[q].sends > 0 => managed[request[q].on].version = request[q].sends
                 /\ request[q].at = "updated" =>
                        /\ request[q].row.status \in {200, 409}
                        /\ request[q].row.status = 409 => q \notin stored
                 /\ request[q].at = "answered" =>
                        /\ request[q].answer.status \in {200, 404, 409, 500}
                        /\ request[q].answer.status = 404 => request[q].on = NoRequest
                        /\ request[q].answer.status \in {404, 409} => q \notin stored
                        /\ request[q].answer.status = 409 =>
                               /\ request[q].on # NoRequest
                               /\ identity # request[q].on
                               /\ \A p \in Requests : Updates(p) /\ Under(p) => request[p].on # request[q].on
                        /\ request[q].answer.status = 500 /\ q \in stored =>
                               \E p \in Requests \ {q} : /\ Updates(p) /\ request[p].on = request[q].on
                                                         /\ request[p].at \in {"updated", "answered"}
      BY <2>1, <3>6 DEF Alone
    <3>7. Updates(q)' <=> Updates(q)  BY <3>1 DEF Updates
    <3>. QED  BY <1>1, <3>1, <3>2, <3>3, <3>4, <3>5, <3>6, <3>7 DEF Alone
  <2>. QED  BY <2>2, <2>3
<1>13. ASSUME NEW q \in Requests, Stores(q)' PROVE Stores(q) /\ request'[q] = request[q]
  <2>1. q # r  BY <1>1, <1>13 DEF Stores
  <2>2. request'[q] = request[q]  BY <1>1, <2>1
  <2>. QED  BY <1>13, <2>2 DEF Stores
<1>14. ASSUME NEW q \in Requests PROVE Past(q)'
  <2>1. Past(q)  BY DEF EInv
  <2>. QED  BY <1>1, <1>13, <2>1 DEF Past, Updates
<1>15. ASSUME NEW p \in Requests, NEW q \in Requests PROVE Apart(p, q)'
  <2>1. Apart(p, q)  BY DEF EInv
  <2>. SUFFICES ASSUME {p, q} \cap mixed' = {}, Updates(p)', Updates(q)', Stores(p)', Stores(q)',
                       request'[p].sends > 0, p # q
                PROVE  request'[p].sends # request'[q].sends
    BY DEF Apart
  <2>2. Stores(p) /\ request'[p] = request[p] /\ Stores(q) /\ request'[q] = request[q]  BY <1>13
  <2>3. Updates(p) /\ Updates(q) /\ {p, q} \cap mixed = {}  BY <1>1, <2>2 DEF Updates
  <2>. QED  BY <2>1, <2>2, <2>3 DEF Apart
<1>16. ASSUME ~Clearing' PROVE ~Clearing
  <2>. SUFFICES ASSUME NEW q \in Requests, request[q].at \in {"updated", "deleted", "restored"} PROVE FALSE
    BY DEF Clearing
  <2>1. request'[q] = request[q]  BY <1>1
  <2>. QED  BY <1>16, <2>1 DEF Clearing
<1>17. Cached'
  <2>. SUFFICES ASSUME identity # NoRequest, ~Clearing'
                PROVE  /\ managed[identity].oldVersion = record.version
                       /\ managed[identity].oldValues = record.values
                       /\ record.there /\ (record.hidden => listed)
                       /\ \/ Clean(managed[identity])
                          \/ \E q \in Requests : request'[q].on = identity /\ request'[q].at = "assigned"
                          \/ \E q \in rejected : request'[q].on = identity
    BY <1>1 DEF Cached
  <2>1. /\ managed[identity].oldVersion = record.version
        /\ managed[identity].oldValues = record.values
        /\ record.there /\ (record.hidden => listed)
        /\ \/ Clean(managed[identity])
           \/ \E q \in Requests : request[q].on = identity /\ request[q].at = "assigned"
           \/ \E q \in rejected : request[q].on = identity
    BY <1>16 DEF EInv, Cached
  <2>2. ASSUME NEW q \in Requests, request[q].on = identity, request[q].at = "assigned"
        PROVE  request'[q].on = identity /\ request'[q].at = "assigned"
    <3>1. request'[q] = request[q]  BY <1>1, <2>2
    <3>. QED  BY <2>2, <3>1
  <2>3. ASSUME NEW q \in rejected, request[q].on = identity
        PROVE  request'[q].on = identity
    BY <1>1, <1>2, <1>3, <2>3
  <2>. QED  BY <2>1, <2>2, <2>3
<1>18. ASSUME NEW k \in Requests, Current(k) PROVE Current(k)'
  <2>1. \A q \in rejected : request'[q] = request[q]  BY <1>1, <1>2, <1>3
  <2>. QED  BY <1>1, <1>18, <2>1 DEF Current, Visible
<1>19. ASSUME NEW q \in Requests, q # r PROVE Reads(q)'
  <2>1. request'[q] = request[q]  BY <1>1, <1>19
  <2>. SUFFICES ASSUME request[q].verb = "get", Under(q), q \notin busy'
                PROVE  /\ \A p \in Requests : Under(p)' => request'[p].verb = "get"
                       /\ request[q].at = "found" => Current(request[q].on)'
    BY <2>1 DEF Reads, Under
  <2>2. /\ \A p \in Requests : Under(p) => request[p].verb = "get"
        /\ request[q].at = "found" => Current(request[q].on)
    <3>1. Reads(q) /\ q \notin busy  BY <1>1 DEF EInv
    <3>. QED  BY <3>1 DEF Reads
  <2>3. ASSUME NEW p \in Requests, Under(p)' PROVE request'[p].verb = "get"
    <3>1. CASE p = r  BY <1>1, <3>1
    <3>2. CASE p # r
      <4>1. request'[p] = request[p]  BY <1>1, <3>2
      <4>. QED  BY <2>2, <2>3, <4>1 DEF Under
    <3>. QED  BY <3>1, <3>2
  <2>4. ASSUME request[q].at = "found" PROVE Current(request[q].on)'
    <3>1. PICK k \in Requests : k = request[q].on  BY <2>4, WorksOn
    <3>2. Current(k)  BY <2>2, <2>4, <3>1
    <3>3. Current(k)'  BY <1>18, <3>2
    <3>. QED  BY <2>1, <3>1, <3>3
  <2>. QED  BY <2>3, <2>4
<1>20. Reads(r)'
  <2>. SUFFICES ASSUME request'[r].verb = "get", r \notin busy'
                PROVE  /\ \A p \in Requests : Under(p)' => request'[p].verb = "get"
                       /\ request'[r].at = "found" => Current(request[r].on)'
    BY DEF Reads
  <2>1. \A q \in Requests : ~Under(q)  BY <1>1
  <2>2. ASSUME NEW p \in Requests, Under(p)' PROVE request'[p].verb = "get"
    <3>1. p = r  BY <1>1, <2>1, <2>2 DEF Under
    <3>. QED  BY <3>1
  <2>3. ASSUME request'[r].at = "found" PROVE Current(request[r].on)'
    <3>1. PICK k \in Requests : k = identity /\ k # NoRequest /\ k = request'[r].on
      BY <1>1, <1>2, <2>3 DEF Values
    <3>2. ~Clearing  BY <2>1 DEF Clearing, Under
    <3>3. /\ managed[k].oldVersion = record.version
          /\ managed[k].oldValues = record.values
          /\ record.there /\ (record.hidden => listed)
          /\ \/ Clean(managed[k])
             \/ \E q \in rejected : request[q].on = k
      <4>1. Cached  BY DEF EInv
      <4>2. ~\E q \in Requests : request[q].on = identity /\ request[q].at = "assigned"  BY <2>1 DEF Under
      <4>. QED  BY <3>1, <3>2, <4>1, <4>2 DEF Cached
    <3>4. Current(k)  BY <1>2, <3>3 DEF Current, Visible, Clean
    <3>5. Current(k)'  BY <1>18, <3>4
    <3>. QED  BY <3>1, <3>5
  <2>. QED  BY <2>2, <2>3
<1>. QED  BY <1>4, <1>5, <1>7, <1>8, <1>9, <1>10, <1>11, <1>12, <1>14, <1>15, <1>17, <1>19, <1>20 DEF EInv

-----------------------------------------------------------------------------

LEMMA EndpointsStarts == EndpointsInit => EInv
<1>. SUFFICES ASSUME NEW e \in EndpointKinds, EndpointsStart(e) PROVE EInv  BY DEF EndpointsInit
<1>1. NoRequest \in Values /\ NoRequest \notin Requests  BY EndpointConstants DEF Values
<1>2. NewRequest \in Asked /\ NewRequest.at = "new" /\ NewRequest.verb = "none" /\ NewRequest.on = NoRequest
      /\ NewRequest.answer.status = 0
  <2>1. PICK c \in Columns : c = NewRequest.column  BY EndpointConstants
  <2>2. NoAnswer \in Answers /\ NoAnswer.status = 0  BY DEF NoAnswer, Answers, Statuses
  <2>3. NewRequest = [verb |-> "none", sends |-> 0, column |-> c, on |-> NoRequest,
                      at |-> "new", row |-> NoAnswer, answer |-> NoAnswer]
    BY <2>1 DEF NewRequest
  <2>. QED  BY <1>1, <2>2, <2>3 DEF Asked, Verbs
<1>3. /\ FirstRecord \in [there : BOOLEAN, hidden : BOOLEAN, version : Nat, values : [Columns -> Values]]
      /\ FirstRecord.there /\ ~FirstRecord.hidden /\ FirstRecord.values = NoValues
      /\ NoInstance.values = NoValues /\ NoInstance.oldValues = NoValues
      /\ \A c \in Columns : NoValues[c] = NoRequest
  BY <1>1 DEF FirstRecord, NoInstance, NoValues
<1>4. /\ endpoint = e /\ record = FirstRecord /\ managed = [r \in Requests |-> NoInstance]
      /\ identity = NoRequest /\ request = [r \in Requests |-> NewRequest] /\ stored = {NoRequest}
      /\ mixed = {} /\ busy = {} /\ listed = FALSE /\ rejected = {}
  BY DEF EndpointsStart
<1>5. EndpointsTyped  BY <1>1, <1>2, <1>3, <1>4, NoInstanceIsOne DEF EndpointsTyped
<1>6. Known /\ Cached /\ Loaded(identity)  BY <1>1, <1>3, <1>4 DEF Known, Cached, Loaded
<1>7. ASSUME NEW r \in Requests
      PROVE  Stage(r) /\ Loaded(request[r].on) /\ Origin(r) /\ Alone(r) /\ Past(r) /\ Reads(r)
  <2>1. request[r] = NewRequest /\ managed[r] = NoInstance  BY <1>4
  <2>2. Stage(r) /\ Loaded(request[r].on)  BY <1>1, <1>2, <1>4, <2>1 DEF Stage, Loaded
  <2>3. Origin(r)  BY <1>3, <1>4, <2>1 DEF Origin
  <2>4. Alone(r)  BY <1>1, <1>2, <1>4, <2>1 DEF Alone
  <2>5. Past(r) /\ Reads(r)  BY <1>2, <2>1 DEF Past, Reads, Updates, Under
  <2>. QED  BY <2>2, <2>3, <2>4, <2>5
<1>8. ASSUME NEW q \in Requests, NEW r \in Requests PROVE Shared(q, r) /\ Apart(q, r)
  BY <1>2, <1>4 DEF Shared, Apart, Updates
<1>. QED  BY <1>5, <1>6, <1>7, <1>8 DEF EInv

LEMMA EndpointsStep == EInv /\ [EndpointsNext]_endpointVars => EInv'
<1>. SUFFICES ASSUME EInv, [EndpointsNext]_endpointVars PROVE EInv'  OBVIOUS
<1>1. CASE EndpointsNext
  BY <1>1, AskKeeps, FindRowKeeps, GetKeeps, AssignKeeps, UpdateRowKeeps, UpdateRefusedKeeps, UpdatedKeeps,
     DeleteRowKeeps, DeletedKeeps, FindDeletedKeeps, FindToRestoreKeeps, RestoreRowKeeps, RestoredKeeps
  DEF EndpointsNext
<1>2. CASE UNCHANGED endpointVars
  <2>1. /\ endpoint' = endpoint /\ record' = record /\ managed' = managed /\ identity' = identity
        /\ request' = request /\ stored' = stored /\ mixed' = mixed /\ busy' = busy /\ listed' = listed
        /\ rejected' = rejected
    BY <1>2 DEF endpointVars
  <2>2. EndpointsTyped' /\ Known' /\ Loaded(identity)'  BY <2>1 DEF EInv, EndpointsTyped, Known, Loaded
  <2>3. Cached'  BY <2>1 DEF EInv, Cached, Clearing, Clean
  <2>4. ASSUME NEW r \in Requests
        PROVE  Stage(r)' /\ Loaded(request[r].on)' /\ Origin(r)' /\ Alone(r)' /\ Past(r)' /\ Reads(r)'
    <3>1. Stage(r) /\ Loaded(request[r].on) /\ Origin(r) /\ Alone(r) /\ Past(r) /\ Reads(r)  BY DEF EInv
    <3>2. Stage(r)' /\ Loaded(request[r].on)' /\ Origin(r)'  BY <2>1, <3>1 DEF Stage, Loaded, Origin, Updates
    <3>3. Alone(r)'  BY <2>1, <3>1 DEF Alone, Updates, Under
    <3>4. Past(r)'  BY <2>1, <3>1 DEF Past, Stores, Updates
    <3>5. Reads(r)'  BY <2>1, <3>1 DEF Reads, Current, Visible, Under
    <3>. QED  BY <3>2, <3>3, <3>4, <3>5
  <2>5. ASSUME NEW q \in Requests, NEW r \in Requests PROVE Shared(q, r)' /\ Apart(q, r)'
    <3>1. Shared(q, r) /\ Apart(q, r)  BY DEF EInv
    <3>. QED  BY <2>1, <3>1 DEF Shared, Apart, Stores, Updates, Under
  <2>. QED  BY <2>2, <2>3, <2>4, <2>5 DEF EInv
<1>. QED  BY <1>1, <1>2

LEMMA WhatEndpointsHold == EInv => EndpointsHold
<1>. SUFFICES ASSUME EInv PROVE EndpointsHold  OBVIOUS
<1>1. EndpointsTyped /\ request \in [Requests -> Asked]  BY DEF EInv, EndpointsTyped
<1>2. EndpointsTypeOK
  <2>1. ASSUME NEW r \in Requests
        PROVE  /\ request[r].answer.status \in {0, 200, 204, 404, 409, 500}
               /\ request[r].at = "found" => request[r].on # NoRequest
    <3>1. request[r].answer \in Answers /\ Stage(r)  BY <1>1, FieldsOfRequest DEF EInv
    <3>. QED  BY <3>1 DEF Answers, Statuses, Stage
  <2>. QED  BY <1>1, <2>1 DEF EndpointsTyped, EndpointsTypeOK
<1>3. ASSUME NEW r \in Requests, NEW s \in {200, 404, 409, 500}, Said(r, s)
      PROVE  Updates(r) /\ request[r].answer.status = s /\ request[r].at = "answered"
  <2>1. Stage(r)  BY DEF EInv
  <2>. QED  BY <1>3, <2>1 DEF Said, Stage
<1>4. StatusIsTrue
  <2>. SUFFICES ASSUME NEW r \in Requests \ mixed
                PROVE  /\ Said(r, 200) => r \in stored
                       /\ Said(r, 404) \/ Said(r, 409) => r \notin stored
                       /\ Said(r, 500) /\ r \in stored =>
                              \E q \in Requests \ {r} : /\ request[q].verb = "put" /\ request[q].on = request[r].on
                                                      /\ request[q].at \in {"updated", "answered"}
    BY DEF StatusIsTrue
  <2>1. Alone(r) /\ Past(r)  BY DEF EInv
  <2>2. Said(r, 200) => r \in stored  BY <1>3, <2>1 DEF Past, Stores
  <2>3. Said(r, 404) \/ Said(r, 409) => r \notin stored  BY <1>3, <2>1 DEF Alone
  <2>4. ASSUME Said(r, 500), r \in stored
        PROVE  \E q \in Requests \ {r} : /\ request[q].verb = "put" /\ request[q].on = request[r].on
                                       /\ request[q].at \in {"updated", "answered"}
    <3>1. Updates(r) /\ request[r].answer.status = 500 /\ request[r].at = "answered"  BY <1>3, <2>4
    <3>. QED  BY <2>1, <2>4, <3>1 DEF Alone, Updates
  <2>. QED  BY <2>2, <2>3, <2>4
<1>5. NoEditLost
  <2>. SUFFICES ASSUME NEW q \in Requests \ mixed, NEW r \in Requests \ mixed, q # r, Said(q, 200), Said(r, 200),
                       request[q].sends > 0
                PROVE  request[q].sends # request[r].sends
    BY DEF NoEditLost
  <2>1. Updates(q) /\ Stores(q) /\ Updates(r) /\ Stores(r)  BY <1>3 DEF Stores
  <2>2. Apart(q, r)  BY DEF EInv
  <2>. QED  BY <2>1, <2>2 DEF Apart
<1>6. GetIsCurrent
  <2>. SUFFICES ASSUME NEW r \in Requests, request[r].verb = "get", request[r].at = "found", r \notin busy
                PROVE  Current(request[r].on)
    BY DEF GetIsCurrent, Current
  <2>1. Reads(r)  BY DEF EInv
  <2>. QED  BY <2>1 DEF Reads, Under
<1>. QED  BY <1>2, <1>4, <1>5, <1>6 DEF EndpointsHold

\* Whatever the clients of the routes and resolvers ask, at whatever point their requests
\* cross: an update that is told 200 was in the row and one that is told 404 or 409 never
\* was, no two clients both update the version that they have read, and a get beside which
\* nothing goes on shows the row, so that the entity cache may answer for the table.
THEOREM EndpointsAreTrue == EndpointsSpec => []EndpointsHold
<1>1. EndpointsSpec => []EInv  BY EndpointsStarts, EndpointsStep, PTL DEF EndpointsSpec
<1>. QED  BY <1>1, WhatEndpointsHold, PTL
=============================================================================
