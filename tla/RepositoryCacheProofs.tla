----------------------- MODULE RepositoryCacheProofs -----------------------
(***************************************************************************)
(* What holds of RepositoryCache for any callers, ids, bounds and settings *)
(* of the kinds RepositoryAssumption names.                                *)
(*                                                                         *)
(* NoLostUpdate needs to know what an UPDATE may carry: IInv says that     *)
(* every instance a caller or a cache can reach (Roots) is Settled, that   *)
(* is, no newer than its row, and with all of the row's edits if it is of  *)
(* the row's version; that what a call has sent is so too; and that the    *)
(* row an open transaction has written is newer than the committed one and *)
(* is locked.  It holds whatever the callers, another process, callbacks   *)
(* that throw and caches that expire do at the same time.                  *)
(*                                                                         *)
(* CleanMeansStored and CoherentCaches are about calls one at a time: SInv *)
(* adds what the instances a call is about to snapshot hold at each of its *)
(* awaits (Loaded), what it is about to cache (CallFresh), and that a      *)
(* cached instance is what is loaded from its row now unless the call in   *)
(* progress has changed that row and is still to tell the caches.          *)
(*                                                                         *)
(* After that, about the lists of BulkWrites and the reads of Filters.     *)
(***************************************************************************)
EXTENDS RepositoryCache, BulkWrites, Filters, FiniteSetTheorems, SequenceTheorems, TLAPS

\* s has a row in an open transaction.
Uncommitted(s) == pending[s] # NotPending

\* What everybody but an open transaction can see: all instances but those
\* built from rows not committed yet.
Roots ==
    ((UNION {fetched[s] : s \in {t \in Sessions : ~Uncommitted(t)}}) \cup {held[s] : s \in Sessions}
        \cup {arg[s] : s \in Sessions} \cup {entityCache[i] : i \in Ids}
        \cup queryCache.results) \ {NoObject}

\* A copy e of a row is no newer than the row, and if it is as new it has every
\* edit of the row.
Settled(e) ==
    /\ e.id \in Ids /\ db[e.id] # Unborn
    /\ Live(e.id) => /\ e.version <= db[e.id].version
                     /\ e.version = db[e.id].version => db[e.id].edits \subseteq e.edits

RootsSettled == \A o \in Roots : Settled(obj[o])

\* What the locals of a call are at its await.
LocalsOK(s) ==
    /\ pc[s] \in {"update", "delete", "deleted", "refresh", "refreshLoaded", "refreshCopied"} =>
           arg[s] # NoObject
    /\ pc[s] \in {"find", "removed"} => wanted[s] \in Ids
    /\ todo[s] \subseteq fetched[s]
    /\ pc[s] \notin {"findLoaded", "findAllLoaded"} => todo[s] = {}
    /\ pc[s] \in {"update", "delete"} => Settled(sent[s])
    /\ pc[s] = "refreshLoaded" => \A o \in fetched[s] : obj[o].id = obj[arg[s]].id

\* A row not committed yet is newer than the committed one and has its edits;
\* the row lock keeps it to one transaction.
PendingOK(s) ==
    Uncommitted(s) =>
        LET i == pending[s].id
            row == pending[s].row
        IN  /\ i \in Ids /\ row.version > 0
            /\ \/ db[i] = Unborn
               \/ Live(i) /\ row.version > db[i].version /\ db[i].edits \subseteq row.edits
            /\ \A t \in Sessions \ {s} : pending[t].id # i
            /\ \A o \in fetched[s] :
                  obj[o].id = i /\ obj[o].version = row.version /\ row.edits \subseteq obj[o].edits

IInv ==
    /\ TypeOK
    /\ RootsSettled
    /\ \A s \in Sessions : LocalsOK(s) /\ PendingOK(s)
-----------------------------------------------------------------------------
(* What a step may do *)

\* A row goes on to a newer version, or away, or was not there.
Advances(i) ==
    \/ db[i] = Unborn
    \/ db'[i] = db[i]
    \/ db'[i] # Unborn /\ (Live(i)' => Live(i) /\ db[i].version < db'[i].version)

\* Only s moves.
OthersAlone(s) ==
    \A t \in Sessions \ {s} :
        /\ pc'[t] = pc[t] /\ arg'[t] = arg[t] /\ wanted'[t] = wanted[t]
        /\ fetched'[t] = fetched[t] /\ todo'[t] = todo[t] /\ held'[t] = held[t]
        /\ sent'[t] = sent[t] /\ pending'[t] = pending[t]

\* At most an edit was made to instance o.
Kept(o) == /\ obj'[o].id = obj[o].id /\ obj'[o].version = obj[o].version
           /\ obj[o].edits \subseteq obj'[o].edits

\* A live row is a row that was inserted.
LEMMA LiveRows == \A i : Live(i) => db[i] # Unborn
BY DEF Live, Unborn

\* What the types say of rows and instances.
LEMMA Types ==
    ASSUME TypeOK
    PROVE  /\ NoId \notin Ids /\ NoObject \notin Objects
           /\ \A i \in Ids : /\ i \in Nat /\ db[i].version \in Int /\ db[i].edits \subseteq Writers
                             /\ Live(i) => db[i] \in Row
           /\ \A o \in Objects : obj[o] \in Entity
           /\ \A s \in Sessions : Uncommitted(s) => setting.cascades /\ pc[s] \in {"saved", "commit"}
BY RepositoryAssumption
   DEF TypeOK, NoId, NoObject, Objects, Row, Gone, Live, Uncommitted

\* What a caller or a cache has in hand is referenced.
AllReferenced ==
    /\ \A s \in Sessions : /\ held[s] \in Referenced /\ arg[s] \in Referenced
                           /\ \A o \in fetched[s] : o \in Referenced
    /\ \A i \in Ids : entityCache[i] \in Referenced
    /\ \A o \in queryCache.results : o \in Referenced

\* Whatever the state is.
LEMMA Reachable == AllReferenced
<1>1. ASSUME NEW s \in Sessions PROVE held[s] \in Referenced /\ arg[s] \in Referenced
  <2>1. held[s] \in {held[t] : t \in Sessions} /\ arg[s] \in {arg[t] : t \in Sessions}
    OBVIOUS
  <2> QED
    BY <2>1, Zenon DEF Referenced
<1>2. ASSUME NEW s \in Sessions, NEW o \in fetched[s] PROVE o \in Referenced
  <2>1. o \in UNION {fetched[t] : t \in Sessions}
    OBVIOUS
  <2> QED
    BY <2>1, Zenon DEF Referenced
<1>3. ASSUME NEW i \in Ids PROVE entityCache[i] \in Referenced
  <2>1. entityCache[i] \in {entityCache[j] : j \in Ids}
    OBVIOUS
  <2> QED
    BY <2>1, Zenon DEF Referenced
<1>4. ASSUME NEW o \in queryCache.results PROVE o \in Referenced
  BY Zenon DEF Referenced
<1> QED
  BY <1>1, <1>2, <1>3, <1>4 DEF AllReferenced

\* Roots are instances.
LEMMA RootsAreObjects == TypeOK => Roots \subseteq Objects
<1> SUFFICES ASSUME TypeOK, NEW o \in Roots PROVE o \in Objects
  OBVIOUS
<1>1. o # NoObject
  BY DEF Roots
<1>2. CASE o \in UNION {fetched[s] : s \in {t \in Sessions : ~Uncommitted(t)}}
  <2> PICK t \in Sessions : o \in fetched[t]
    BY <1>2
  <2> QED
    BY DEF TypeOK
<1>3. CASE o \in {held[s] : s \in Sessions} \cup {arg[s] : s \in Sessions}
  BY <1>1, <1>3 DEF TypeOK
<1>4. CASE o \in {entityCache[i] : i \in Ids} \cup queryCache.results
  BY <1>1, <1>4 DEF TypeOK
<1> QED
  BY <1>2, <1>3, <1>4, Zenon DEF Roots

\* A copy stays settled when its row advances.
LEMMA SettledStays ==
    ASSUME TypeOK, TypeOK', NEW e, e.version \in Int, Settled(e), Advances(e.id)
    PROVE  Settled(e)'
<1>1. e.id \in Ids /\ db[e.id].version \in Int
  BY Types DEF Settled
<1>2. \A i \in Ids : db'[i].version \in Int
  BY DEF TypeOK, Row, Gone
<1> QED
  BY <1>1, <1>2 DEF Settled, Advances, Live

\* What an open transaction has built nobody else can see.
LEMMA Private ==
    ASSUME IInv, NEW s \in Sessions, Uncommitted(s), NEW o \in fetched[s]
    PROVE  /\ o \notin Roots
           /\ \A t \in Sessions \ {s} : Uncommitted(t) => o \notin fetched[t]
<1>1. /\ pending[s].id \in Ids /\ obj[o].id = pending[s].id
      /\ obj[o].version = pending[s].row.version
      /\ \/ db[pending[s].id] = Unborn
         \/ Live(pending[s].id) /\ pending[s].row.version > db[pending[s].id].version
      /\ \A t \in Sessions \ {s} : pending[t].id # pending[s].id
  BY DEF IInv, PendingOK
<1>2. pending[s].row.version \in Int /\ db[pending[s].id].version \in Int
  BY <1>1, Types DEF IInv, TypeOK, Row
<1>3. ~ Settled(obj[o])
  BY <1>1, <1>2 DEF Settled
<1>4. ASSUME NEW t \in Sessions \ {s}, Uncommitted(t), o \in fetched[t] PROVE FALSE
  BY <1>1, <1>4 DEF IInv, PendingOK
<1> QED
  BY <1>3, <1>4 DEF IInv, RootsSettled

\* What is left to show of a step of s, or of none of the callers.
LEMMA StepKeeps ==
    ASSUME IInv, TypeOK', NEW s, OthersAlone(s),
           \A i \in Ids : Advances(i),
           \A t \in Sessions \ {s} : Uncommitted(t) => /\ db'[pending[t].id] = db[pending[t].id]
                                                       /\ \A o \in fetched[t] : Kept(o),
           \A o \in Referenced : o \in Objects /\ o \in Referenced' => obj'[o].id = obj[o].id,
           \A o \in Roots' : Settled(obj[o])' \/ (o \in Roots /\ Kept(o)),
           s \in Sessions => LocalsOK(s)' /\ PendingOK(s)'
    PROVE  IInv'
<1>1. RootsSettled'
  <2> SUFFICES ASSUME NEW o \in Roots' PROVE Settled(obj[o])'
    BY DEF RootsSettled
  <2>1. CASE o \in Roots /\ Kept(o)
    <3>1. o \in Objects
      BY <2>1, RootsAreObjects DEF IInv
    <3>2. obj[o].version \in Int /\ Settled(obj[o])
      BY <2>1, <3>1, Types DEF IInv, RootsSettled, Entity
    <3> PICK e : e = obj[o]
      OBVIOUS
    <3>3. e.version \in Int /\ Settled(e) /\ Advances(e.id)
      BY <3>2 DEF Settled
    <3>4. Settled(e)'
      BY <3>3, SettledStays DEF IInv
    <3> QED
      BY <2>1, <3>4 DEF Settled, Kept, Live
  <2> QED
    BY <2>1
<1>2. ASSUME NEW t \in Sessions, t # s PROVE LocalsOK(t)'
  <2>1. LocalsOK(t)
    BY DEF IInv
  <2>2. /\ pc'[t] = pc[t] /\ arg'[t] = arg[t] /\ wanted'[t] = wanted[t]
        /\ fetched'[t] = fetched[t] /\ todo'[t] = todo[t] /\ sent'[t] = sent[t]
    BY <1>2 DEF OthersAlone
  <2>3. pc[t] \in {"update", "delete"} => Settled(sent[t])'
    <3> SUFFICES ASSUME Settled(sent[t]) PROVE Settled(sent[t])'
      BY <2>1 DEF LocalsOK
    <3> PICK e : e = sent[t]
      OBVIOUS
    <3>1. e.version \in Int /\ Settled(e) /\ Advances(e.id)
      BY DEF Settled, IInv, TypeOK
    <3>2. Settled(e)'
      BY <3>1, SettledStays DEF IInv
    <3> QED
      BY <2>2, <3>2
  <2>4. pc[t] = "refreshLoaded" => \A o \in fetched[t] : obj'[o].id = obj'[arg[t]].id
    <3> SUFFICES ASSUME pc[t] = "refreshLoaded", NEW o \in fetched[t]
                 PROVE  obj'[o].id = obj'[arg[t]].id
      OBVIOUS
    <3>1. arg[t] \in Objects /\ o \in Objects /\ obj[o].id = obj[arg[t]].id
      BY <2>1 DEF LocalsOK, IInv, TypeOK
    <3>2. /\ o \in Referenced /\ arg[t] \in Referenced
          /\ o \in Referenced' /\ arg[t] \in Referenced'
      <4>1. AllReferenced'
        BY Reachable, PTL
      <4> QED
        BY <2>2, <4>1, Reachable DEF AllReferenced
    <3> QED
      BY <3>1, <3>2
  <2> QED
    BY <2>1, <2>2, <2>3, <2>4 DEF LocalsOK
<1>3. ASSUME NEW t \in Sessions, t # s PROVE PendingOK(t)'
  <2> SUFFICES ASSUME Uncommitted(t)' PROVE PendingOK(t)'
    BY DEF PendingOK
  <2>1. pending'[t] = pending[t] /\ fetched'[t] = fetched[t] /\ Uncommitted(t)
    BY <1>3 DEF OthersAlone, Uncommitted
  <2>2. PendingOK(t) /\ db'[pending[t].id] = db[pending[t].id] /\ \A o \in fetched[t] : Kept(o)
    BY <1>3, <2>1 DEF IInv
  <2>3. ASSUME NEW u \in Sessions \ {t} PROVE pending'[u].id # pending[t].id
    <3>1. CASE u # s
      BY <2>1, <2>2, <3>1 DEF OthersAlone, PendingOK
    <3>2. CASE u = s
      <4>1. CASE Uncommitted(s)'
        BY <1>3, <2>1, <3>2, <4>1 DEF PendingOK
      <4>2. CASE ~Uncommitted(s)'
        BY <2>1, <2>2, <3>2, <4>2, Types DEF Uncommitted, NotPending, PendingOK, IInv
      <4> QED
        BY <4>1, <4>2
    <3> QED
      BY <3>1, <3>2
  <2> QED
    BY <2>1, <2>2, <2>3 DEF PendingOK, Kept, Live
<1>4. ASSUME NEW t \in Sessions PROVE (LocalsOK(t) /\ PendingOK(t))'
  BY <1>2, <1>3
<1> QED
  BY <1>1, <1>4 DEF IInv

\* What Roots are made of, and what the garbage collector leaves.
RootMeaning ==
    \A o : o \in Roots <=>
        /\ o # NoObject
        /\ \/ \E s \in Sessions : ~Uncommitted(s) /\ o \in fetched[s]
           \/ \E s \in Sessions : o = held[s] \/ o = arg[s]
           \/ \E i \in Ids : o = entityCache[i]
           \/ o \in queryCache.results

\* Whatever the state is.
LEMMA RootsMean == RootMeaning
<1> SUFFICES ASSUME NEW o
             PROVE  o \in Roots <=>
                        /\ o # NoObject
                        /\ \/ \E s \in Sessions : ~Uncommitted(s) /\ o \in fetched[s]
                           \/ \E s \in Sessions : o = held[s] \/ o = arg[s]
                           \/ \E i \in Ids : o = entityCache[i]
                           \/ o \in queryCache.results
  BY DEF RootMeaning
<1>1. o \in UNION {fetched[s] : s \in {t \in Sessions : ~Uncommitted(t)}}
         <=> \E s \in Sessions : ~Uncommitted(s) /\ o \in fetched[s]
  OBVIOUS
<1>2. o \in {held[s] : s \in Sessions} \cup {arg[s] : s \in Sessions}
         <=> \E s \in Sessions : o = held[s] \/ o = arg[s]
  OBVIOUS
<1>3. o \in {entityCache[i] : i \in Ids} <=> \E i \in Ids : o = entityCache[i]
  OBVIOUS
<1> QED
  BY <1>1, <1>2, <1>3 DEF Roots

\* Roots are referenced.
RootsInHand == Roots \subseteq Referenced
LEMMA RootsReferenced == RootsInHand
BY RootsMean, Reachable DEF RootMeaning, AllReferenced, RootsInHand

\* An instance that is still referenced is what the step made it.
LEMMA HeapStep ==
    ASSUME NEW h \in [Objects -> Entity], Heap(h)
    PROVE  /\ setting' = setting /\ obj' \in [Objects -> Entity]
           /\ \A o \in Objects : o \in Referenced' => obj'[o] = h[o]
BY DEF Heap, Entity, Unused, NoId

\* A step of s, or of no caller, that leaves the rows alone.
LEMMA CalmStep ==
    ASSUME IInv, TypeOK', NEW s, OthersAlone(s), UNCHANGED <<db, pending>>,
           \A o \in Objects : o \in Referenced' =>
               \/ Kept(o)
               \/ o \in Roots /\ obj'[o].id = obj[o].id /\ Settled(obj[o])'
               \/ o \notin Referenced,
           \A o \in Roots' : o \in Roots \/ Settled(obj[o])',
           s \in Sessions => /\ LocalsOK(s)'
                             /\ Uncommitted(s) => fetched'[s] = fetched[s]
    PROVE  IInv'
<1>1. \A i \in Ids : Advances(i)
  BY DEF Advances
<1>2. AllReferenced /\ AllReferenced' /\ RootMeaning /\ RootMeaning' /\ RootsInHand /\ RootsInHand'
  BY Reachable, RootsMean, RootsReferenced, PTL
<1>3. ASSUME NEW t \in Sessions, Uncommitted(t), NEW o \in fetched[t] PROVE Kept(o)
  <2>1. o \in Objects /\ o \in Referenced /\ o \notin Roots
    BY <1>2, <1>3, Private DEF AllReferenced, IInv, TypeOK
  <2>2. fetched'[t] = fetched[t]
    BY <1>3 DEF OthersAlone
  <2>3. o \in Referenced'
    BY <1>2, <2>2 DEF AllReferenced
  <2> QED
    BY <2>1, <2>3 DEF Kept
<1>4. ASSUME NEW o \in Roots' PROVE Settled(obj[o])' \/ (o \in Roots /\ Kept(o))
  <2>1. o \in Objects
    <3>1. Roots' \subseteq Objects
      <4>1. (TypeOK => Roots \subseteq Objects)'
        BY RootsAreObjects, PTL
      <4> QED
        BY <4>1 DEF Objects
    <3> QED
      BY <3>1
  <2> QED
    BY <1>2, <2>1 DEF Kept, RootsInHand
<1>5. \A o \in Referenced : o \in Objects /\ o \in Referenced' => obj'[o].id = obj[o].id
  BY DEF Kept
<1>6. ASSUME s \in Sessions PROVE PendingOK(s)'
  <2>1. PendingOK(s) /\ (Uncommitted(s) => fetched'[s] = fetched[s])
    BY <1>6 DEF IInv
  <2>2. Uncommitted(s) => \A o \in fetched[s] : Kept(o)
    BY <1>3, <1>6
  <2> QED
    BY <2>1, <2>2 DEF PendingOK, Uncommitted, Kept, Live
<1> QED
  BY <1>1, <1>3, <1>4, <1>5, <1>6, StepKeeps

-----------------------------------------------------------------------------
(* Returning, and waiting for rows *)

\* Only s moves, its call goes on where it was told.
LEMMA Returns ==
    ASSUME TypeOK, NEW s \in Sessions, NEW r \in Objects \cup {NoObject}, Return(s, r)
    PROVE  /\ pc' \in [Sessions -> Steps] /\ arg' \in [Sessions -> Objects \cup {NoObject}]
           /\ wanted' \in [Sessions -> Ids \cup {NoId}] /\ fetched' \in [Sessions -> SUBSET Objects]
           /\ todo' \in [Sessions -> SUBSET Objects] /\ held' \in [Sessions -> Objects \cup {NoObject}]
           /\ sent' \in [Sessions -> [id : Ids \cup {NoId}, version : Nat, edits : SUBSET Writers]]
           /\ pc'[s] = "idle" /\ arg'[s] = NoObject /\ wanted'[s] = NoId /\ fetched'[s] = {}
           /\ todo'[s] = {} /\ held'[s] = r /\ sent'[s] = NothingSent
           /\ UNCHANGED pending => OthersAlone(s)
           /\ \A t \in Sessions \ {s} :
                 /\ pc'[t] = pc[t] /\ arg'[t] = arg[t] /\ wanted'[t] = wanted[t]
                 /\ fetched'[t] = fetched[t] /\ todo'[t] = todo[t] /\ held'[t] = held[t]
                 /\ sent'[t] = sent[t]
<1>1. NothingSent \in [id : Ids \cup {NoId}, version : Nat, edits : SUBSET Writers]
  BY DEF NothingSent
<1>2. /\ pc' = [pc EXCEPT ![s] = "idle"] /\ arg' = [arg EXCEPT ![s] = NoObject]
      /\ wanted' = [wanted EXCEPT ![s] = NoId] /\ fetched' = [fetched EXCEPT ![s] = {}]
      /\ todo' = [todo EXCEPT ![s] = {}] /\ held' = [held EXCEPT ![s] = r]
      /\ sent' = [sent EXCEPT ![s] = NothingSent]
  BY DEF Return
<1> QED
  BY <1>1, <1>2 DEF TypeOK, Steps, OthersAlone

\* A call that returns one of the roots, or nothing, and changes no row.
LEMMA CalmReturn ==
    ASSUME IInv, NEW s \in Sessions, NEW r, Return(s, r), r = NoObject \/ r \in Roots,
           NEW h \in [Objects -> Entity], Heap(h), UNCHANGED <<db, pending>>, ~Uncommitted(s),
           entityCache' \in [Ids -> Objects \cup {NoObject}],
           \A i \in Ids : entityCache'[i] # NoObject =>
               entityCache'[i] \in Roots /\ obj[entityCache'[i]].id = i,
           queryCache' \in [cached : BOOLEAN, results : SUBSET Roots],
           \A o \in Objects :
               \/ h[o] = obj[o]
               \/ /\ o \in Roots
                  /\ h[o].id = obj[o].id /\ h[o].version = obj[o].version
                  /\ obj[o].edits \subseteq h[o].edits
    PROVE  IInv'
<1>1. /\ AllReferenced /\ AllReferenced' /\ RootMeaning /\ RootMeaning' /\ RootsInHand /\ RootsInHand'
      /\ Roots \subseteq Objects
  BY Reachable, RootsMean, RootsReferenced, RootsAreObjects, PTL DEF IInv
<1>2. r \in Objects \cup {NoObject}
  BY <1>1
<1>3. /\ setting' = setting /\ obj' \in [Objects -> Entity]
      /\ \A o \in Objects : o \in Referenced' => obj'[o] = h[o]
  BY HeapStep
<1>4. ASSUME NEW i \in Ids, entityCache'[i] # NoObject PROVE obj'[entityCache'[i]].id = i
  <2>1. entityCache'[i] \in Objects /\ entityCache'[i] \in Referenced'
    BY <1>1, <1>4 DEF AllReferenced
  <2> QED
    BY <1>3, <1>4, <2>1
<1>5. TypeOK'
  <2>1. queryCache' \in [cached : BOOLEAN, results : SUBSET Objects]
    BY <1>1
  <2>2. ASSUME NEW t \in Sessions
        PROVE  IF setting.cascades /\ pc'[t] \in {"saved", "commit"}
               THEN pending[t].id \in Ids
               ELSE pending[t] = NotPending
    BY <1>2, Returns DEF IInv, TypeOK, Uncommitted
  <2> QED
    BY <1>2, <1>3, <1>4, <2>1, <2>2, Returns DEF IInv, TypeOK
<1>6. \A o \in Roots' : o \in Roots
  <2> SUFFICES ASSUME NEW o \in Roots' PROVE o \in Roots
    OBVIOUS
  <2>1. o # NoObject
    BY <1>1 DEF RootMeaning
  <2>2. ASSUME NEW t \in Sessions, ~Uncommitted(t)', o \in fetched'[t] PROVE o \in Roots
    <3>1. t # s /\ fetched'[t] = fetched[t] /\ ~Uncommitted(t)
      BY <1>2, <2>2, Returns DEF Uncommitted, IInv
    <3> QED
      BY <1>1, <2>1, <2>2, <3>1 DEF RootMeaning
  <2>3. ASSUME NEW t \in Sessions, o = held'[t] \/ o = arg'[t] PROVE o \in Roots
    <3>1. t # s => held'[t] = held[t] /\ arg'[t] = arg[t]
      BY <1>2, Returns DEF IInv
    <3>2. held'[s] = r /\ arg'[s] = NoObject
      BY <1>2, Returns DEF IInv
    <3> QED
      BY <1>1, <2>1, <2>3, <3>1, <3>2 DEF RootMeaning
  <2> QED
    BY <1>1, <2>1, <2>2, <2>3 DEF RootMeaning
<1>7. OthersAlone(s) /\ LocalsOK(s)' /\ ~Uncommitted(s)'
  BY <1>2, Returns DEF LocalsOK, Uncommitted, IInv
<1>8. \A o \in Objects : o \in Referenced' => Kept(o)
  BY <1>3 DEF Kept
<1> QED
  BY <1>5, <1>6, <1>7, <1>8, CalmStep

\* What is at hand is a root.
LEMMA AtHand ==
    ASSUME IInv
    PROVE  /\ \A s \in Sessions : /\ held[s] = NoObject \/ held[s] \in Roots
                                  /\ arg[s] = NoObject \/ arg[s] \in Roots
                                  /\ ~Uncommitted(s) => fetched[s] \subseteq Roots
                                  /\ Uncommitted(s) => pc[s] \in {"saved", "commit"}
           /\ \A i \in Ids : entityCache[i] = NoObject \/ entityCache[i] \in Roots
           /\ \A i \in Ids : entityCache[i] # NoObject => obj[entityCache[i]].id = i
           /\ queryCache \in [cached : BOOLEAN, results : SUBSET Roots]
           /\ Roots \subseteq Objects /\ Roots \subseteq Referenced
           /\ entityCache \in [Ids -> Objects \cup {NoObject}]
           /\ obj \in [Objects -> Entity]
           /\ NoObject \notin Objects
<1>1. RootMeaning /\ RootsInHand /\ Roots \subseteq Objects /\ TypeOK
  BY RootsMean, RootsReferenced, RootsAreObjects DEF IInv
<1>2. NoObject \notin Objects
  BY <1>1, Types
<1>3. queryCache \in [cached : BOOLEAN, results : SUBSET Roots]
  BY <1>1, <1>2 DEF RootMeaning, TypeOK
<1> QED
  BY <1>1, <1>2, <1>3, Types DEF RootMeaning, RootsInHand, TypeOK, Uncommitted

\* An invalidated query cache.
LEMMA InvalidatedType == Invalidate => queryCache' \in [cached : BOOLEAN, results : SUBSET Roots]
BY DEF Invalidate, NoResult

\* An evicted id is not cached, the others are as they were.
LEMMA Evicted ==
    ASSUME IInv, NEW i, Evict(i)
    PROVE  /\ entityCache' \in [Ids -> Objects \cup {NoObject}]
           /\ \A j \in Ids : entityCache'[j] = IF j = i THEN NoObject ELSE entityCache[j]
           /\ \A j \in Ids : entityCache'[j] # NoObject =>
                  entityCache'[j] \in Roots /\ obj[entityCache'[j]].id = j
<1>1. /\ entityCache' \in [Ids -> Objects \cup {NoObject}]
      /\ \A j \in Ids : entityCache'[j] = IF j = i THEN NoObject ELSE entityCache[j]
  BY AtHand DEF Evict
<1> QED
  BY <1>1, AtHand

\* findById that finds its entity cached.
LEMMA FindHitStep == ASSUME IInv, NEW s \in Sessions, NEW i \in Ids, FindHit(s, i) PROVE IInv'
<1>1. /\ pc[s] = "idle" /\ entityCache[i] # NoObject /\ Return(s, entityCache[i]) /\ Heap(obj)
      /\ UNCHANGED <<db, entityCache, queryCache, pending>>
  BY DEF FindHit, Calls
<1> QED
  BY <1>1, AtHand, CalmReturn

\* The SELECT of findById finds no row.
LEMMA FindNoneStep ==
    ASSUME IInv, NEW s \in Sessions, pc[s] = "find", Return(s, NoObject), Heap(obj),
           UNCHANGED <<db, entityCache, queryCache, pending>>
    PROVE  IInv'
BY AtHand, CalmReturn

\* findById caches what it found.
LEMMA FindPostStep == ASSUME IInv, NEW s \in Sessions, FindPost(s) PROVE IInv'
<1> PICK o \in todo[s] : Return(s, o) /\ PostLoad(o)
  BY DEF FindPost
<1>1. pc[s] = "findLoaded" /\ UNCHANGED <<db, queryCache, pending>> /\ o \in fetched[s]
  BY DEF FindPost, IInv, LocalsOK
<1>2. o \in Roots /\ o \in Objects /\ obj[o] \in Entity
  BY <1>1, AtHand
<1> DEFINE h == [obj EXCEPT ![o] = Snapshotted(obj[o])]
<1>3. /\ h \in [Objects -> Entity] /\ Heap(h)
      /\ \A p \in Objects : IF p = o THEN /\ h[p].id = obj[p].id /\ h[p].version = obj[p].version
                                          /\ h[p].edits = obj[p].edits
                            ELSE h[p] = obj[p]
  BY <1>2, AtHand DEF PostLoad, Snapshotted, Entity
<1>4. /\ entityCache' \in [Ids -> Objects \cup {NoObject}]
      /\ \A j \in Ids : entityCache'[j] # NoObject =>
             entityCache'[j] \in Roots /\ obj[entityCache'[j]].id = j
  BY <1>2, AtHand DEF PostLoad
<1> HIDE DEF h
<1> QED
  BY <1>1, <1>2, <1>3, <1>4, AtHand, CalmReturn

\* findAll with a cached result.
LEMMA FindAllHitStep == ASSUME IInv, NEW s \in Sessions, FindAllHit(s) PROVE IInv'
<1> PICK o \in OneOf(queryCache.results) : Return(s, o)
  BY DEF FindAllHit
<1>1. /\ pc[s] = "idle" /\ Heap(obj) /\ UNCHANGED <<db, queryCache, pending>>
      /\ entityCache' = RePut(entityCache, queryCache.results)
  BY DEF FindAllHit, Calls
<1>2. o = NoObject \/ o \in Roots
  BY AtHand DEF OneOf
<1>3. \A j \in Ids : \/ entityCache'[j] = entityCache[j]
                     \/ entityCache'[j] \in queryCache.results /\ obj[entityCache'[j]].id = j
  BY <1>1 DEF RePut
<1>4. /\ entityCache' \in [Ids -> Objects \cup {NoObject}]
      /\ \A j \in Ids : entityCache'[j] # NoObject =>
             entityCache'[j] \in Roots /\ obj[entityCache'[j]].id = j
  BY <1>1, <1>3, AtHand DEF RePut
<1> QED
  BY <1>1, <1>2, <1>4, AtHand, CalmReturn

\* findAll caches its result.
LEMMA FindAllPutStep == ASSUME IInv, NEW s \in Sessions, FindAllPut(s) PROVE IInv'
<1> PICK o \in OneOf(fetched[s]) : Return(s, o)
  BY DEF FindAllPut
<1>1. /\ pc[s] = "findAllLoaded" /\ Heap(obj) /\ UNCHANGED <<db, entityCache, pending>>
      /\ queryCache' = [cached |-> TRUE, results |-> fetched[s]]
  BY DEF FindAllPut
<1>2. fetched[s] \subseteq Roots /\ (o = NoObject \/ o \in Roots)
  BY <1>1, AtHand DEF OneOf
<1> QED
  BY <1>1, <1>2, AtHand, CalmReturn

\* An UPDATE that matched no row.
LEMMA UpdateRefusedStep == ASSUME IInv, NEW s \in Sessions, UpdateRefused(s) PROVE IInv'
<1> DEFINE h == [obj EXCEPT ![arg[s]].refused = setting.external]
<1>1. /\ pc[s] = "update" /\ Evict(sent[s].id) /\ UNCHANGED <<db, queryCache, pending>>
      /\ Return(s, held[s]) /\ Heap(h)
  BY DEF UpdateRefused
<1>2. arg[s] \in Roots /\ arg[s] \in Objects /\ setting.external \in BOOLEAN
  BY <1>1, AtHand, RepositoryAssumption DEF IInv, LocalsOK, TypeOK
<1>3. /\ h \in [Objects -> Entity]
      /\ \A p \in Objects : IF p = arg[s] THEN /\ h[p].id = obj[p].id /\ h[p].version = obj[p].version
                                               /\ h[p].edits = obj[p].edits
                            ELSE h[p] = obj[p]
  BY <1>2, AtHand DEF Entity
<1> HIDE DEF h
<1> QED
  BY <1>1, <1>2, <1>3, AtHand, Evicted, CalmReturn

\* Calls that end without an answer: nothing deleted, a callback that throws,
\* nothing to refresh.
LEMMA NothingDoneStep ==
    ASSUME IInv, NEW s \in Sessions, pc[s] \in {"delete", "deleted", "refresh"},
           Return(s, held[s]), Heap(obj), UNCHANGED <<db, entityCache, queryCache, pending>>
    PROVE  IInv'
BY AtHand, CalmReturn

\* delete forgets the snapshot and clears the caches.
LEMMA DeletePostStep == ASSUME IInv, NEW s \in Sessions, DeletePost(s) PROVE IInv'
<1> PICK o : o = arg[s]
  OBVIOUS
<1> DEFINE h == [obj EXCEPT ![o] = [obj[o] EXCEPT !.tracked = FALSE, !.snapshot = {}]]
<1>1. /\ pc[s] = "deleted" /\ Evict(obj[o].id) /\ Invalidate /\ UNCHANGED <<db, pending>>
      /\ Return(s, held[s]) /\ Heap([obj EXCEPT ![o].tracked = FALSE, ![o].snapshot = {}])
  BY DEF DeletePost
<1>2. o \in Roots /\ o \in Objects /\ obj[o] \in Entity
  BY <1>1, AtHand DEF IInv, LocalsOK
<1>3. [obj EXCEPT ![o].tracked = FALSE, ![o].snapshot = {}] = h
  BY <1>2, AtHand
<1>4. /\ h \in [Objects -> Entity] /\ Heap(h)
      /\ \A p \in Objects : IF p = o THEN /\ h[p].id = obj[p].id /\ h[p].version = obj[p].version
                                          /\ h[p].edits = obj[p].edits
                            ELSE h[p] = obj[p]
  <2>1. h \in [Objects -> Entity]
    BY <1>2, AtHand DEF Entity
  <2> QED
    BY <1>1, <1>2, <1>3, <2>1, AtHand DEF Entity
<1> HIDE DEF h
<1> QED
  BY <1>1, <1>2, <1>4, AtHand, Evicted, InvalidatedType, CalmReturn

\* deleteById clears the caches.
LEMMA DeleteByIdPostStep == ASSUME IInv, NEW s \in Sessions, DeleteByIdPost(s) PROVE IInv'
<1>1. /\ pc[s] = "removed" /\ Evict(wanted[s]) /\ Invalidate /\ UNCHANGED <<db, pending>>
      /\ Return(s, held[s]) /\ Heap(obj)
  BY DEF DeleteByIdPost
<1> QED
  BY <1>1, AtHand, Evicted, InvalidatedType, CalmReturn

\* refresh caches its entity.
LEMMA RefreshPostStep == ASSUME IInv, NEW s \in Sessions, RefreshPost(s) PROVE IInv'
<1> PICK o : o = arg[s]
  OBVIOUS
<1> DEFINE h == [obj EXCEPT ![o] = Snapshotted(obj[o])]
<1>1. /\ pc[s] = "refreshCopied" /\ UNCHANGED <<db, queryCache, pending>> /\ Return(s, o) /\ Heap(h)
      /\ entityCache' = [entityCache EXCEPT ![obj[o].id] = o]
  BY DEF RefreshPost
<1>2. o \in Roots /\ o \in Objects /\ obj[o] \in Entity
  BY <1>1, AtHand DEF IInv, LocalsOK
<1>3. /\ h \in [Objects -> Entity]
      /\ \A p \in Objects : IF p = o THEN /\ h[p].id = obj[p].id /\ h[p].version = obj[p].version
                                          /\ h[p].edits = obj[p].edits
                            ELSE h[p] = obj[p]
  BY <1>2, AtHand DEF Snapshotted, Entity
<1>4. /\ entityCache' \in [Ids -> Objects \cup {NoObject}]
      /\ \A j \in Ids : entityCache'[j] # NoObject =>
             entityCache'[j] \in Roots /\ obj[entityCache'[j]].id = j
  BY <1>1, <1>2, AtHand
<1> HIDE DEF h
<1> QED
  BY <1>1, <1>2, <1>3, <1>4, AtHand, CalmReturn

\* save is done: the snapshot is taken, the caches are told.
LEMMA SavePostStep == ASSUME IInv, NEW s \in Sessions, SavePost(s) PROVE IInv'
<1> PICK saved \in fetched[s] :
        /\ Evict(obj[saved].id)
        /\ IF setting.cascades
           THEN /\ pc' = [pc EXCEPT ![s] = "commit"]
                /\ UNCHANGED <<arg, wanted, fetched, todo, held, sent>>
           ELSE \E o \in {saved, held[s]} : Return(s, o)
        /\ Heap([obj EXCEPT ![saved] = Snapshotted(obj[saved])])
  BY DEF SavePost
<1> DEFINE h == [obj EXCEPT ![saved] = Snapshotted(obj[saved])]
<1>1. pc[s] = "saved" /\ Invalidate /\ UNCHANGED <<db, pending>> /\ Heap(h)
  BY DEF SavePost
<1>2. saved \in Objects /\ obj[saved] \in Entity
  BY AtHand DEF IInv, TypeOK
<1>3. /\ h \in [Objects -> Entity]
      /\ \A p \in Objects : IF p = saved
                            THEN /\ h[p].id = obj[p].id /\ h[p].version = obj[p].version
                                 /\ h[p].edits = obj[p].edits
                            ELSE h[p] = obj[p]
  BY <1>2, AtHand DEF Snapshotted, Entity
<1> HIDE DEF h
<1>4. CASE ~setting.cascades
  <2>1. ~Uncommitted(s)
    BY <1>4, Types DEF IInv
  <2>2. saved \in Roots
    BY <2>1, AtHand
  <2> QED
    BY <1>1, <1>3, <1>4, <2>1, <2>2, AtHand, Evicted, InvalidatedType, CalmReturn
<1>5. CASE setting.cascades
  <2>1. /\ Uncommitted(s) /\ pc' = [pc EXCEPT ![s] = "commit"]
        /\ UNCHANGED <<arg, wanted, fetched, todo, held, sent, pending>>
    BY <1>1, <1>5, Types DEF IInv, TypeOK, Uncommitted, NotPending
  <2>2. /\ setting' = setting /\ obj' \in [Objects -> Entity]
        /\ \A o \in Objects : o \in Referenced' => obj'[o] = h[o]
    BY <1>1, <1>3, HeapStep
  <2>3. AllReferenced' /\ RootMeaning /\ RootMeaning'
    BY Reachable, RootsMean, PTL
  <2>4. \A j \in Ids : entityCache'[j] # NoObject => obj'[entityCache'[j]].id = j
    BY <1>3, <2>2, <2>3, Evicted, AtHand DEF AllReferenced
  <2>5. TypeOK'
    <3>1. queryCache' \in [cached : BOOLEAN, results : SUBSET Objects]
      BY <1>1, InvalidatedType, AtHand
    <3> QED
      BY <1>1, <1>5, <2>1, <2>2, <2>4, <3>1, Evicted DEF IInv, TypeOK, Steps
  <2>6. ASSUME NEW o \in Roots' PROVE o \in Roots
    <3>1. o # NoObject
      BY <2>3 DEF RootMeaning
    <3>2. ASSUME NEW t \in Sessions, ~Uncommitted(t)', o \in fetched'[t] PROVE o \in Roots
      BY <1>1, <2>1, <2>3, <3>1, <3>2 DEF RootMeaning, Uncommitted
    <3>3. ASSUME NEW i \in Ids, o = entityCache'[i] PROVE o \in Roots
      BY <3>1, <3>3, Evicted
    <3>4. queryCache'.results \subseteq Roots
      BY <1>1, InvalidatedType
    <3> QED
      BY <2>1, <2>3, <3>1, <3>2, <3>3, <3>4 DEF RootMeaning
  <2>7. OthersAlone(s) /\ LocalsOK(s)'
    BY <1>1, <2>1 DEF OthersAlone, LocalsOK, IInv, TypeOK
  <2>8. \A o \in Objects : o \in Referenced' => Kept(o)
    BY <1>3, <2>2 DEF Kept
  <2> QED
    BY <1>1, <2>1, <2>5, <2>6, <2>7, <2>8, CalmStep
<1> QED
  BY <1>4, <1>5

-----------------------------------------------------------------------------
(* Calls, and steps on the way *)

LocalTypes ==
    /\ pc \in [Sessions -> Steps]
    /\ arg \in [Sessions -> Objects \cup {NoObject}]
    /\ held \in [Sessions -> Objects \cup {NoObject}]
    /\ wanted \in [Sessions -> Ids \cup {NoId}]
    /\ fetched \in [Sessions -> SUBSET Objects]
    /\ sent \in [Sessions -> [id : Ids \cup {NoId}, version : Nat, edits : SUBSET Writers]]
    /\ todo \in [Sessions -> SUBSET Objects]

\* A step of s, which has no transaction and does not end its call, or of none
\* of the callers, that changes no row.
LEMMA CalmMove ==
    ASSUME IInv, NEW s, OthersAlone(s), LocalTypes',
           UNCHANGED <<setting, db, pending>>, obj' \in [Objects -> Entity],
           \A o \in Objects : o \in Referenced' => Kept(o),
           entityCache' \in [Ids -> Objects \cup {NoObject}],
           \A i \in Ids : entityCache'[i] # NoObject =>
               entityCache'[i] \in Roots /\ obj[entityCache'[i]].id = i,
           queryCache' \in [cached : BOOLEAN, results : SUBSET Roots],
           s \in Sessions =>
               /\ ~Uncommitted(s) /\ pc'[s] \notin {"saved", "commit"} /\ LocalsOK(s)'
               /\ held'[s] = NoObject \/ held'[s] \in Roots
               /\ arg'[s] = NoObject \/ arg'[s] \in Roots
               /\ fetched'[s] \subseteq Roots
    PROVE  IInv'
<1>1. /\ AllReferenced /\ AllReferenced' /\ RootMeaning /\ RootMeaning' /\ Roots \subseteq Objects
  BY Reachable, RootsMean, RootsAreObjects, PTL DEF IInv
<1>2. ASSUME NEW i \in Ids, entityCache'[i] # NoObject PROVE obj'[entityCache'[i]].id = i
  <2>1. entityCache'[i] \in Objects /\ entityCache'[i] \in Referenced'
    BY <1>1, <1>2 DEF AllReferenced
  <2> QED
    BY <1>2, <2>1 DEF Kept
<1>3. TypeOK'
  <2>1. queryCache' \in [cached : BOOLEAN, results : SUBSET Objects]
    BY <1>1
  <2>2. ASSUME NEW t \in Sessions
        PROVE  IF setting.cascades /\ pc'[t] \in {"saved", "commit"}
               THEN pending[t].id \in Ids
               ELSE pending[t] = NotPending
    BY DEF IInv, TypeOK, Uncommitted, OthersAlone
  <2> QED
    BY <1>2, <2>1, <2>2 DEF IInv, TypeOK, LocalTypes
<1>4. ASSUME NEW o \in Roots' PROVE o \in Roots
  <2>1. o # NoObject
    BY <1>1 DEF RootMeaning
  <2>2. ASSUME NEW t \in Sessions, ~Uncommitted(t)', o \in fetched'[t] PROVE o \in Roots
    <3>1. t # s => fetched'[t] = fetched[t] /\ ~Uncommitted(t)
      BY <2>2 DEF OthersAlone, Uncommitted
    <3> QED
      BY <1>1, <2>1, <2>2, <3>1 DEF RootMeaning
  <2>3. ASSUME NEW t \in Sessions, o = held'[t] \/ o = arg'[t] PROVE o \in Roots
    <3>1. t # s => held'[t] = held[t] /\ arg'[t] = arg[t]
      BY DEF OthersAlone
    <3> QED
      BY <1>1, <2>1, <2>3, <3>1 DEF RootMeaning
  <2> QED
    BY <1>1, <2>1, <2>2, <2>3 DEF RootMeaning
<1> QED
  BY <1>3, <1>4, CalmStep

\* What a collection that changes no instance does to one still referenced.
LEMMA HeapSame ==
    ASSUME IInv, Heap(obj)
    PROVE  /\ setting' = setting /\ obj' \in [Objects -> Entity]
           /\ \A o \in Objects : o \in Referenced' => Kept(o)
BY AtHand, HeapStep DEF Kept

\* findById that has to ask the database.
LEMMA FindMissStep == ASSUME IInv, NEW s \in Sessions, NEW i \in Ids, FindMiss(s, i) PROVE IInv'
<1>1. /\ pc[s] = "idle" /\ Heap(obj) /\ pc' = [pc EXCEPT ![s] = "find"]
      /\ wanted' = [wanted EXCEPT ![s] = i] /\ held' = [held EXCEPT ![s] = NoObject]
      /\ UNCHANGED <<db, entityCache, queryCache, arg, fetched, todo, sent, pending>>
  BY DEF FindMiss, Calls
<1>2. OthersAlone(s) /\ LocalTypes' /\ pc'[s] = "find" /\ wanted'[s] = i /\ held'[s] = NoObject
  BY <1>1 DEF IInv, TypeOK, LocalTypes, OthersAlone, Steps
<1>3. LocalsOK(s)' /\ ~Uncommitted(s) /\ fetched[s] \subseteq Roots
  BY <1>1, <1>2, AtHand DEF LocalsOK, IInv
<1> QED
  BY <1>1, <1>2, <1>3, HeapSame, AtHand, CalmMove

\* findAll that has to ask the database.
LEMMA FindAllMissStep == ASSUME IInv, NEW s \in Sessions, FindAllMiss(s) PROVE IInv'
<1>1. /\ pc[s] = "idle" /\ Heap(obj) /\ pc' = [pc EXCEPT ![s] = "findAll"]
      /\ held' = [held EXCEPT ![s] = NoObject]
      /\ UNCHANGED <<db, entityCache, queryCache, arg, wanted, fetched, todo, sent, pending>>
  BY DEF FindAllMiss, Calls
<1>2. OthersAlone(s) /\ LocalTypes' /\ pc'[s] = "findAll" /\ held'[s] = NoObject
  BY <1>1 DEF IInv, TypeOK, LocalTypes, OthersAlone, Steps
<1>3. LocalsOK(s)' /\ ~Uncommitted(s) /\ fetched[s] \subseteq Roots
  BY <1>1, <1>2, AtHand DEF LocalsOK, IInv
<1> QED
  BY <1>1, <1>2, <1>3, HeapSame, AtHand, CalmMove

\* findAll caches one of its entities.
LEMMA FindAllPostStep == ASSUME IInv, NEW s \in Sessions, FindAllPost(s) PROVE IInv'
<1> PICK o \in todo[s] : todo' = [todo EXCEPT ![s] = @ \ {o}] /\ PostLoad(o)
  BY DEF FindAllPost
<1>1. /\ pc[s] = "findAllLoaded" /\ o \in fetched[s] /\ ~Uncommitted(s)
      /\ UNCHANGED <<db, queryCache, pc, arg, wanted, fetched, held, sent, pending>>
  BY AtHand DEF FindAllPost, IInv, LocalsOK
<1>2. o \in Roots /\ o \in Objects /\ obj[o] \in Entity
  BY <1>1, AtHand
<1> DEFINE h == [obj EXCEPT ![o] = Snapshotted(obj[o])]
<1>3. /\ h \in [Objects -> Entity] /\ Heap(h)
      /\ \A p \in Objects : IF p = o THEN /\ h[p].id = obj[p].id /\ h[p].version = obj[p].version
                                          /\ h[p].edits = obj[p].edits
                            ELSE h[p] = obj[p]
  BY <1>2, AtHand DEF PostLoad, Snapshotted, Entity
<1>4. /\ entityCache' \in [Ids -> Objects \cup {NoObject}]
      /\ \A j \in Ids : entityCache'[j] # NoObject =>
             entityCache'[j] \in Roots /\ obj[entityCache'[j]].id = j
  BY <1>2, AtHand DEF PostLoad
<1> HIDE DEF h
<1>5. /\ setting' = setting /\ obj' \in [Objects -> Entity]
      /\ \A p \in Objects : p \in Referenced' => Kept(p)
  BY <1>3, HeapStep DEF Kept
<1>6. OthersAlone(s) /\ LocalTypes' /\ todo'[s] = todo[s] \ {o}
  BY <1>1 DEF IInv, TypeOK, LocalTypes, OthersAlone
<1>7. LocalsOK(s)'
  BY <1>1, <1>6 DEF LocalsOK, IInv
<1> QED
  BY <1>1, <1>4, <1>5, <1>6, <1>7, AtHand, CalmMove

\* A cache entry expires or is pushed out.
LEMMA ExpireStep == ASSUME IInv, Expire PROVE IInv'
<1>1. /\ Heap(obj) /\ UNCHANGED <<db, pc, arg, wanted, fetched, todo, held, sent, pending>>
      /\ \/ Invalidate /\ UNCHANGED entityCache
         \/ \E i \in Ids : Evict(i) /\ UNCHANGED queryCache
  BY DEF Expire
<1>2. LocalTypes' /\ OthersAlone(Outside) /\ Outside \notin Sessions
  BY <1>1, RepositoryAssumption DEF IInv, TypeOK, LocalTypes, OthersAlone
<1>3. CASE Invalidate /\ UNCHANGED entityCache
  BY <1>1, <1>2, <1>3, HeapSame, AtHand, InvalidatedType, CalmMove
<1>4. ASSUME NEW i \in Ids, Evict(i), UNCHANGED queryCache PROVE IInv'
  BY <1>1, <1>2, <1>4, HeapSame, AtHand, Evicted, CalmMove
<1> QED
  BY <1>1, <1>3, <1>4

\* The caller changes a field of its entity.
LEMMA EditStep == ASSUME IInv, NEW s \in Sessions, Edit(s) PROVE IInv'
<1> PICK o : o = held[s]
  OBVIOUS
<1>1. /\ pc[s] = "idle" /\ o # NoObject /\ obj' = [obj EXCEPT ![o].edits = @ \cup {s}]
      /\ UNCHANGED <<setting, db, entityCache, queryCache, pc, arg, wanted, fetched, todo, held,
                     sent, pending>>
  BY DEF Edit, Calls
<1>2. o \in Objects /\ obj[o] \in Entity /\ s \in Writers
  BY <1>1, AtHand DEF Writers
<1>3. obj' \in [Objects -> Entity] /\ \A p \in Objects : Kept(p)
  <2>1. [obj[o] EXCEPT !.edits = @ \cup {s}] \in Entity
    BY <1>2 DEF Entity
  <2>2. obj' = [obj EXCEPT ![o] = [obj[o] EXCEPT !.edits = @ \cup {s}]]
    BY <1>1
  <2>3. obj' \in [Objects -> Entity]
    BY <2>1, <2>2, AtHand
  <2> QED
    BY <1>2, <2>2, <2>3, AtHand DEF Kept, Entity
<1>4. OthersAlone(s) /\ LocalTypes' /\ LocalsOK(s)' /\ ~Uncommitted(s)
  BY <1>1, AtHand DEF IInv, TypeOK, LocalTypes, OthersAlone, LocalsOK
<1> QED
  BY <1>1, <1>3, <1>4, AtHand, CalmMove

\* The parameters of the statement are as new as the entity they come from.
LEMMA SendStep ==
    ASSUME IInv, NEW s \in Sessions, NEW step \in {"update", "delete"}, Pass(s, step), Send(s)
    PROVE  IInv'
<1> PICK o : o = held[s]
  OBVIOUS
<1>1. /\ pc[s] = "idle" /\ o # NoObject /\ pc' = [pc EXCEPT ![s] = step]
      /\ arg' = [arg EXCEPT ![s] = o]
      /\ sent' = [sent EXCEPT ![s] = [id |-> obj[o].id, version |-> obj[o].version,
                                      edits |-> obj[o].edits]]
      /\ UNCHANGED <<setting, obj, db, entityCache, queryCache, wanted, fetched, todo, held, pending>>
  BY DEF Pass, Send, Calls
<1>2. o \in Roots /\ o \in Objects /\ obj[o] \in Entity /\ Settled(obj[o])
  BY <1>1, AtHand DEF IInv, RootsSettled
<1>3. OthersAlone(s) /\ LocalTypes' /\ ~Uncommitted(s)
  BY ZenonT(60), <1>1, <1>2, AtHand DEF IInv, TypeOK, LocalTypes, OthersAlone, Steps, Entity
<1>4. /\ pc'[s] = step /\ arg'[s] = o /\ sent'[s].id = obj[o].id
      /\ sent'[s].version = obj[o].version /\ sent'[s].edits = obj[o].edits
  BY <1>1 DEF IInv, TypeOK
<1>5. Settled(sent[s])'
  BY <1>1, <1>2, <1>4 DEF Settled, Live
<1>6. LocalsOK(s)'
  BY <1>1, <1>2, <1>4, <1>5, AtHand DEF LocalsOK, IInv
<1>7. obj' \in [Objects -> Entity] /\ \A p \in Objects : Kept(p)
  BY <1>1, AtHand DEF Kept
<1> QED
  BY <1>1, <1>2, <1>3, <1>4, <1>6, <1>7, AtHand, CalmMove

\* save sends an UPDATE.
LEMMA SaveStep == ASSUME IInv, NEW s \in Sessions, Save(s) PROVE IInv'
BY SendStep DEF Save

\* delete sends a DELETE.
LEMMA DeleteStep == ASSUME IInv, NEW s \in Sessions, Delete(s) PROVE IInv'
BY SendStep DEF Delete

\* refresh clears the caches and the snapshot first.
LEMMA RefreshCallStep == ASSUME IInv, NEW s \in Sessions, RefreshCall(s) PROVE IInv'
<1> PICK o : o = held[s]
  OBVIOUS
<1> DEFINE h == [obj EXCEPT ![o] = [obj[o] EXCEPT !.tracked = FALSE, !.snapshot = {}]]
<1>1. /\ pc[s] = "idle" /\ o # NoObject /\ pc' = [pc EXCEPT ![s] = "refresh"]
      /\ arg' = [arg EXCEPT ![s] = o] /\ Evict(obj[o].id) /\ Invalidate
      /\ UNCHANGED <<db, wanted, fetched, todo, held, pending, sent>>
      /\ Heap([obj EXCEPT ![o].tracked = FALSE, ![o].snapshot = {}])
  BY DEF RefreshCall, Pass, Calls
<1>2. o \in Roots /\ o \in Objects /\ obj[o] \in Entity
  BY <1>1, AtHand
<1>3. [obj EXCEPT ![o].tracked = FALSE, ![o].snapshot = {}] = h
  BY <1>2, AtHand
<1>4. /\ h \in [Objects -> Entity] /\ Heap(h)
      /\ \A p \in Objects : IF p = o THEN /\ h[p].id = obj[p].id /\ h[p].version = obj[p].version
                                          /\ h[p].edits = obj[p].edits
                            ELSE h[p] = obj[p]
  <2>1. h \in [Objects -> Entity]
    BY <1>2, AtHand DEF Entity
  <2> QED
    BY <1>1, <1>2, <1>3, <2>1, AtHand DEF Entity
<1> HIDE DEF h
<1>5. /\ setting' = setting /\ obj' \in [Objects -> Entity]
      /\ \A p \in Objects : p \in Referenced' => Kept(p)
  BY <1>4, HeapStep DEF Kept
<1>6. /\ OthersAlone(s) /\ LocalTypes' /\ ~Uncommitted(s)
      /\ pc'[s] = "refresh" /\ arg'[s] = o
  BY <1>1, <1>2, AtHand DEF IInv, TypeOK, LocalTypes, OthersAlone, Steps
<1>7. LocalsOK(s)'
  BY <1>1, <1>2, <1>6, AtHand DEF LocalsOK, IInv
<1> QED
  BY <1>1, <1>2, <1>5, <1>6, <1>7, AtHand, Evicted, InvalidatedType, CalmMove

\* refresh copies the row it has read into the entity.
LEMMA RefreshCopyStep == ASSUME IInv, NEW s \in Sessions, RefreshCopy(s) PROVE IInv'
<1> PICK a : a = arg[s]
  OBVIOUS
<1> PICK o \in fetched[s] :
        Heap([obj EXCEPT ![a].version = obj[o].version, ![a].edits = obj[o].edits, ![a].refused = FALSE])
  BY DEF RefreshCopy
<1> DEFINE h == [obj EXCEPT ![a] = [obj[a] EXCEPT !.version = obj[o].version, !.edits = obj[o].edits,
                                                  !.refused = FALSE]]
<1>1. /\ pc[s] = "refreshLoaded" /\ fetched' = [fetched EXCEPT ![s] = {}]
      /\ pc' = [pc EXCEPT ![s] = "refreshCopied"]
      /\ UNCHANGED <<db, entityCache, queryCache, arg, wanted, todo, held, sent, pending>>
  BY DEF RefreshCopy
<1>2. /\ a \in Roots /\ a \in Objects /\ obj[a] \in Entity
      /\ o \in Roots /\ o \in Objects /\ obj[o] \in Entity /\ obj[o].id = obj[a].id
      /\ ~Uncommitted(s)
  BY <1>1, AtHand DEF IInv, LocalsOK
<1>3. [obj EXCEPT ![a].version = obj[o].version, ![a].edits = obj[o].edits, ![a].refused = FALSE] = h
  BY <1>2, AtHand
<1>4. /\ h \in [Objects -> Entity] /\ Heap(h)
      /\ \A p \in Objects : IF p = a THEN /\ h[p].id = obj[o].id /\ h[p].version = obj[o].version
                                          /\ h[p].edits = obj[o].edits
                            ELSE h[p] = obj[p]
  <2>1. h \in [Objects -> Entity]
    BY <1>2, AtHand DEF Entity
  <2> QED
    BY <1>2, <1>3, <2>1, AtHand DEF Entity
<1> HIDE DEF h
<1>5. /\ setting' = setting /\ obj' \in [Objects -> Entity]
      /\ \A p \in Objects : p \in Referenced' =>
            IF p = a THEN /\ obj'[p].id = obj[o].id /\ obj'[p].version = obj[o].version
                          /\ obj'[p].edits = obj[o].edits
            ELSE obj'[p] = obj[p]
  BY <1>4, HeapStep
<1>6. /\ OthersAlone(s) /\ LocalTypes' /\ pc'[s] = "refreshCopied" /\ fetched'[s] = {}
  BY <1>1, <1>2 DEF IInv, TypeOK, LocalTypes, OthersAlone, Steps
<1>7. LocalsOK(s)'
  BY <1>1, <1>2, <1>6, AtHand DEF LocalsOK, IInv
<1>8. a \in Referenced' => Settled(obj[a])'
  BY <1>1, <1>2, <1>5 DEF IInv, RootsSettled, Settled, Live
<1>9. AllReferenced' /\ RootMeaning /\ RootMeaning'
  BY Reachable, RootsMean, PTL
<1>10. TypeOK'
  <2>1. ASSUME NEW i \in Ids, entityCache'[i] # NoObject PROVE obj'[entityCache'[i]].id = i
    BY <1>1, <1>2, <1>5, <1>9, <2>1, AtHand DEF AllReferenced
  <2> QED
    BY <1>1, <1>2, <1>5, <1>6, <2>1 DEF IInv, TypeOK, LocalTypes
<1>11. ASSUME NEW p \in Roots' PROVE p \in Roots
  <2>1. p # NoObject
    BY <1>9 DEF RootMeaning
  <2>2. ASSUME NEW t \in Sessions, ~Uncommitted(t)', p \in fetched'[t] PROVE p \in Roots
    BY <1>1, <1>6, <1>9, <2>1, <2>2 DEF RootMeaning, OthersAlone, Uncommitted
  <2> QED
    BY <1>1, <1>9, <2>1, <2>2 DEF RootMeaning
<1>12. ASSUME NEW p \in Objects, p \in Referenced'
       PROVE  Kept(p) \/ (p \in Roots /\ obj'[p].id = obj[p].id /\ Settled(obj[p])')
  <2>1. CASE p = a
    BY <1>2, <1>5, <1>8, <1>12, <2>1
  <2>2. CASE p # a
    BY <1>5, <1>12, <2>2 DEF Kept
  <2> QED
    BY <2>1, <2>2
<1> QED
  BY <1>1, <1>2, <1>6, <1>7, <1>10, <1>11, <1>12, CalmStep

-----------------------------------------------------------------------------
(* New instances *)

\* A free instance is an instance nobody references.
LEMMA Allocated == \A n : \A o \in Allocate(n) : o \in Objects /\ o \notin Referenced
BY DEF Allocate

\* A row that was just read is settled.
LEMMA MappedSettled ==
    ASSUME TypeOK, NEW i \in Ids, Live(i)
    PROVE  /\ Mapped(i, db[i]) \in Entity /\ Mapped(i, db[i]).id = i
           /\ Mapped(i, db[i]).version = db[i].version /\ Mapped(i, db[i]).edits = db[i].edits
           /\ Settled(Mapped(i, db[i]))
<1>1. db[i] \in Row /\ db[i] # Unborn /\ db[i].version \in Int
  BY Types, LiveRows
<1> QED
  BY <1>1 DEF Mapped, Entity, Settled, Row

\* A call that has built instances from rows as they are.
LEMMA ReadStep ==
    ASSUME IInv, NEW s \in Sessions, NEW built \in SUBSET Objects, NEW rowOf \in [built -> Ids],
           \A o \in built : o \notin Referenced /\ Live(rowOf[o]),
           Heap([o \in Objects |-> IF o \in built THEN Mapped(rowOf[o], db[rowOf[o]]) ELSE obj[o]]),
           OthersAlone(s), LocalTypes', ~Uncommitted(s), pc'[s] \notin {"saved", "commit"},
           fetched'[s] = built, UNCHANGED <<db, entityCache, queryCache, arg, held, pending>>,
           (\A o \in built : obj'[o].id = rowOf[o]) => LocalsOK(s)'
    PROVE  IInv'
<1> DEFINE h == [o \in Objects |-> IF o \in built THEN Mapped(rowOf[o], db[rowOf[o]]) ELSE obj[o]]
<1>1. h \in [Objects -> Entity]
  BY MappedSettled, AtHand DEF IInv
<1>2. /\ setting' = setting /\ obj' \in [Objects -> Entity]
      /\ \A o \in Objects : o \in Referenced' => obj'[o] = h[o]
  BY <1>1, HeapStep
<1>3. AllReferenced' /\ RootMeaning /\ RootMeaning' /\ AllReferenced
  BY Reachable, RootsMean, PTL
<1>4. \A o \in built : obj'[o] = Mapped(rowOf[o], db[rowOf[o]])
  BY <1>2, <1>3 DEF AllReferenced
<1>5. ASSUME NEW o \in built PROVE Settled(obj[o])' /\ obj'[o].id = rowOf[o]
  <2>1. Settled(Mapped(rowOf[o], db[rowOf[o]])) /\ Mapped(rowOf[o], db[rowOf[o]]).id = rowOf[o]
    BY MappedSettled DEF IInv
  <2> QED
    BY <1>4, <2>1 DEF Settled, Live
<1>6. \A o \in Objects : o \in Referenced' /\ o \notin built => obj'[o] = obj[o]
  BY <1>2
<1>7. TypeOK'
  <2>1. ASSUME NEW i \in Ids, entityCache'[i] # NoObject PROVE obj'[entityCache'[i]].id = i
    <3>1. entityCache[i] \in Objects /\ entityCache[i] \notin built /\ entityCache[i] \in Referenced'
      BY <1>3, <2>1, AtHand DEF AllReferenced
    <3> QED
      BY <1>6, <2>1, <3>1, AtHand
  <2>2. ASSUME NEW t \in Sessions
        PROVE  IF setting.cascades /\ pc'[t] \in {"saved", "commit"}
               THEN pending[t].id \in Ids
               ELSE pending[t] = NotPending
    BY DEF IInv, TypeOK, Uncommitted, OthersAlone
  <2> QED
    BY <1>2, <2>1, <2>2 DEF IInv, TypeOK, LocalTypes
<1>8. ASSUME NEW o \in Roots' PROVE o \in Roots \/ Settled(obj[o])'
  <2>1. o # NoObject
    BY <1>3 DEF RootMeaning
  <2>2. ASSUME NEW t \in Sessions, ~Uncommitted(t)', o \in fetched'[t]
        PROVE  o \in Roots \/ o \in built
    BY <1>3, <2>1, <2>2 DEF RootMeaning, OthersAlone, Uncommitted
  <2> QED
    BY <1>3, <1>5, <2>1, <2>2 DEF RootMeaning
<1>9. LocalsOK(s)'
  BY <1>5
<1>10. \A o \in Objects : o \in Referenced' => Kept(o) \/ o \notin Referenced
  BY <1>6 DEF Kept
<1> QED
  BY <1>7, <1>8, <1>9, <1>10, CalmStep

\* findById builds an instance from the row.
LEMMA FindReadStep == ASSUME IInv, NEW s \in Sessions, FindRead(s) PROVE IInv'
<1>1. pc[s] = "find" /\ UNCHANGED <<db, entityCache, queryCache, pending>>
  BY DEF FindRead
<1>2. CASE Return(s, NoObject) /\ Heap(obj)
  BY <1>1, <1>2, FindNoneStep
<1>3. ASSUME Live(wanted[s]), NEW o \in Allocate(1),
             fetched' = [fetched EXCEPT ![s] = {o}], todo' = [todo EXCEPT ![s] = {o}],
             pc' = [pc EXCEPT ![s] = "findLoaded"], UNCHANGED <<arg, wanted, held, sent>>,
             Heap([obj EXCEPT ![o] = Mapped(wanted[s], db[wanted[s]])])
      PROVE  IInv'
  <2>1. o \in Objects /\ o \notin Referenced /\ wanted[s] \in Ids
    BY <1>1, Allocated DEF IInv, LocalsOK
  <2> DEFINE rowOf == [p \in {o} |-> wanted[s]]
  <2>2. [obj EXCEPT ![o] = Mapped(wanted[s], db[wanted[s]])]
          = [p \in Objects |-> IF p \in {o} THEN Mapped(rowOf[p], db[rowOf[p]]) ELSE obj[p]]
    BY <2>1, AtHand
  <2>3. /\ OthersAlone(s) /\ LocalTypes' /\ ~Uncommitted(s)
        /\ pc'[s] = "findLoaded" /\ fetched'[s] = {o} /\ todo'[s] = {o}
    BY <1>1, <1>3, <2>1, AtHand DEF IInv, TypeOK, LocalTypes, OthersAlone, Steps
  <2>4. LocalsOK(s)'
    BY <2>3 DEF LocalsOK
  <2>5. rowOf \in [{o} -> Ids] /\ \A p \in {o} : p \notin Referenced /\ Live(rowOf[p])
    BY <1>3, <2>1
  <2>6. Heap([p \in Objects |-> IF p \in {o} THEN Mapped(rowOf[p], db[rowOf[p]]) ELSE obj[p]])
    BY <1>3, <2>2
  <2> HIDE DEF rowOf
  <2> QED
    BY <1>1, <1>3, <2>1, <2>3, <2>4, <2>5, <2>6, ReadStep
<1> QED
  BY <1>2, <1>3 DEF FindRead

\* findAll builds an instance from every row.
LEMMA FindAllReadStep == ASSUME IInv, NEW s \in Sessions, FindAllRead(s) PROVE IInv'
<1> PICK built : built = Allocate(Cardinality({i \in Ids : Live(i)}))
  OBVIOUS
<1> PICK rowOf \in RowsInOrder(built) :
        Heap([o \in Objects |-> IF o \in built THEN Mapped(rowOf[o], db[rowOf[o]]) ELSE obj[o]])
  BY DEF FindAllRead
<1>1. /\ pc[s] = "findAll" /\ fetched' = [fetched EXCEPT ![s] = built]
      /\ todo' = [todo EXCEPT ![s] = built] /\ pc' = [pc EXCEPT ![s] = "findAllLoaded"]
      /\ UNCHANGED <<db, entityCache, queryCache, arg, wanted, held, sent, pending>>
  BY DEF FindAllRead
<1>2. built \in SUBSET Objects /\ \A o \in built : o \notin Referenced
  BY Allocated
<1>3. rowOf \in [built -> Ids] /\ \A o \in built : Live(rowOf[o])
  BY DEF RowsInOrder
<1>4. /\ OthersAlone(s) /\ LocalTypes' /\ ~Uncommitted(s)
      /\ pc'[s] = "findAllLoaded" /\ fetched'[s] = built /\ todo'[s] = built
  BY <1>1, <1>2, AtHand DEF IInv, TypeOK, LocalTypes, OthersAlone, Steps
<1>5. LocalsOK(s)'
  BY <1>4 DEF LocalsOK
<1> QED
  BY <1>1, <1>2, <1>3, <1>4, <1>5, ReadStep

\* refresh builds an instance from the row.
LEMMA RefreshReadStep == ASSUME IInv, NEW s \in Sessions, RefreshRead(s) PROVE IInv'
<1> PICK i : i = obj[arg[s]].id
  OBVIOUS
<1>1. pc[s] = "refresh" /\ UNCHANGED <<db, entityCache, queryCache, pending>>
  BY DEF RefreshRead
<1>2. CASE Return(s, held[s]) /\ Heap(obj)
  BY <1>1, <1>2, NothingDoneStep
<1>3. ASSUME Live(i), NEW o \in Allocate(1), fetched' = [fetched EXCEPT ![s] = {o}],
             pc' = [pc EXCEPT ![s] = "refreshLoaded"], UNCHANGED <<arg, wanted, todo, held, sent>>,
             Heap([obj EXCEPT ![o] = Mapped(i, db[i])])
      PROVE  IInv'
  <2>1. /\ o \in Objects /\ o \notin Referenced /\ i \in Ids /\ arg[s] \in Objects /\ arg[s] # o
        /\ arg[s] # NoObject /\ arg[s] \in Roots
    BY <1>1, Allocated, AtHand DEF IInv, LocalsOK, RootsSettled, Settled
  <2> DEFINE rowOf == [p \in {o} |-> i]
             h == [p \in Objects |-> IF p \in {o} THEN Mapped(rowOf[p], db[rowOf[p]]) ELSE obj[p]]
  <2>2. [obj EXCEPT ![o] = Mapped(i, db[i])] = h
    BY <2>1, AtHand
  <2>3. /\ OthersAlone(s) /\ LocalTypes' /\ ~Uncommitted(s)
        /\ pc'[s] = "refreshLoaded" /\ fetched'[s] = {o} /\ arg'[s] = arg[s] /\ todo'[s] = todo[s]
    BY <1>1, <1>3, <2>1, AtHand DEF IInv, TypeOK, LocalTypes, OthersAlone, Steps
  <2>4. rowOf \in [{o} -> Ids] /\ \A p \in {o} : p \notin Referenced /\ Live(rowOf[p])
    BY <1>3, <2>1
  <2>5. Heap(h)
    BY <1>3, <2>2
  <2>6. obj'[arg[s]].id = i
    <3>1. h \in [Objects -> Entity]
      BY <2>1, <2>4, MappedSettled, AtHand DEF IInv
    <3>2. AllReferenced'
      BY Reachable, PTL
    <3>3. arg[s] \in Referenced'
      BY <2>3, <3>2 DEF AllReferenced
    <3>4. obj'[arg[s]] = h[arg[s]]
      BY <2>1, <2>5, <3>1, <3>3, HeapStep
    <3> QED
      BY <2>1, <3>4
  <2>7. (\A p \in {o} : obj'[p].id = rowOf[p]) => LocalsOK(s)'
    BY <1>1, <2>1, <2>3, <2>6 DEF LocalsOK, IInv
  <2> HIDE DEF rowOf
  <2> QED
    BY <1>1, <1>3, <2>1, <2>3, <2>4, <2>5, <2>7, ReadStep
<1> QED
  BY <1>2, <1>3 DEF RefreshRead

-----------------------------------------------------------------------------
(* Rows that change *)

\* A row another transaction has written is locked.
LEMMA NotLocked ==
    ASSUME NEW i, ~Locked(i) PROVE \A t \in Sessions : pending[t].id # i
BY DEF Locked

\* What becomes of the instances when one is built from the row just written.
LEMMA SavedInstance ==
    ASSUME IInv, NEW i \in Ids, NEW row \in Row, NEW saved \in Allocate(1),
           Heap([obj EXCEPT ![saved] = Mapped(i, row)]), saved \in Referenced'
    PROVE  /\ setting' = setting /\ obj' \in [Objects -> Entity]
           /\ saved \in Objects /\ saved \notin Referenced
           /\ obj'[saved] = Mapped(i, row)
           /\ \A o \in Objects \ {saved} : o \in Referenced' => obj'[o] = obj[o]
<1> DEFINE h == [obj EXCEPT ![saved] = Mapped(i, row)]
<1>1. saved \in Objects /\ saved \notin Referenced
  BY Allocated
<1>2. Mapped(i, row) \in Entity
  BY DEF Mapped, Entity, Row
<1>3. h \in [Objects -> Entity]
  BY <1>1, <1>2, AtHand
<1>4. /\ setting' = setting /\ obj' \in [Objects -> Entity]
      /\ \A o \in Objects : o \in Referenced' => obj'[o] = h[o]
  BY <1>3, HeapStep
<1>5. obj'[saved] = Mapped(i, row)
  BY <1>1, <1>4, AtHand
<1> QED
  BY <1>1, <1>4, <1>5, AtHand

\* The only new instance is saved, which s has built from row i.
Built(s, saved, i, row) ==
    /\ fetched'[s] = {saved} /\ saved \notin Referenced
    /\ obj'[saved] = Mapped(i, row)
    /\ \A o \in Objects \ {saved} : o \in Referenced' => obj'[o] = obj[o]

\* What an INSERT or UPDATE does to the variables.
LEMMA WrittenEffect ==
    ASSUME IInv, NEW s \in Sessions, NEW i \in Ids, NEW row \in Row, row.version > 0,
           pc[s] \in {"idle", "update"}, UNCHANGED arg, Written(s, i, row), ~Locked(i),
           db[i] = Unborn \/ (Live(i) /\ row.version > db[i].version)
    PROVE  /\ OthersAlone(s) /\ LocalTypes' /\ UNCHANGED <<setting, entityCache, queryCache>>
           /\ obj' \in [Objects -> Entity]
           /\ pc'[s] = "saved" /\ ~Uncommitted(s) /\ todo'[s] = {} /\ held' = held
           /\ \E saved \in Objects : Built(s, saved, i, row)
           /\ db' \in [Ids -> Row \cup {Gone}] /\ \A j \in Ids : Advances(j) /\ (j # i => db'[j] = db[j])
           /\ pending' \in [Sessions -> [id : Ids \cup {NoId}, row : Row]]
           /\ \A t \in Sessions : Uncommitted(t) =>
                 pending[t].id \in Ids /\ pending[t].id # i /\ db'[pending[t].id] = db[pending[t].id]
           /\ IF setting.cascades
              THEN UNCHANGED db /\ pending'[s] = [id |-> i, row |-> row] /\ Uncommitted(s)'
              ELSE UNCHANGED pending /\ db'[i] = row
<1> PICK saved \in Allocate(1) : /\ fetched' = [fetched EXCEPT ![s] = {saved}]
                                 /\ Heap([obj EXCEPT ![saved] = Mapped(i, row)])
  BY DEF Written
<1>1. /\ Write(s, i, row) /\ pc' = [pc EXCEPT ![s] = "saved"]
      /\ UNCHANGED <<arg, entityCache, queryCache, wanted, todo, held, sent>>
  BY DEF Written
<1>2. saved \in Objects /\ saved \notin Referenced
  BY Allocated
<1>3. LocalTypes' /\ pc'[s] = "saved" /\ fetched'[s] = {saved} /\ ~Uncommitted(s) /\ todo'[s] = {}
  BY ZenonT(60), <1>1, <1>2, AtHand DEF IInv, TypeOK, LocalTypes, LocalsOK, Steps
<1>4. AllReferenced'
  BY Reachable, PTL
<1>5. /\ setting' = setting /\ obj' \in [Objects -> Entity] /\ obj'[saved] = Mapped(i, row)
      /\ \A o \in Objects \ {saved} : o \in Referenced' => obj'[o] = obj[o]
  BY <1>3, <1>4, SavedInstance DEF AllReferenced
<1>6. /\ db' \in [Ids -> Row \cup {Gone}] /\ pending' \in [Sessions -> [id : Ids \cup {NoId}, row : Row]]
      /\ OthersAlone(s)
      /\ IF setting.cascades
         THEN UNCHANGED db /\ pending'[s] = [id |-> i, row |-> row] /\ Uncommitted(s)'
         ELSE UNCHANGED pending /\ db' = [db EXCEPT ![i] = row]
  <2>1. [id |-> i, row |-> row] # NotPending
    BY Types DEF NotPending, IInv
  <2>2. /\ db \in [Ids -> Row \cup {Gone}] /\ pending \in [Sessions -> [id : Ids \cup {NoId}, row : Row]]
        /\ [id |-> i, row |-> row] \in [id : Ids \cup {NoId}, row : Row]
    BY DEF IInv, TypeOK
  <2>3. ASSUME NEW t \in Sessions \ {s}
        PROVE  /\ pc'[t] = pc[t] /\ arg'[t] = arg[t] /\ wanted'[t] = wanted[t]
               /\ fetched'[t] = fetched[t] /\ todo'[t] = todo[t] /\ held'[t] = held[t]
               /\ sent'[t] = sent[t]
    BY <1>1 DEF IInv, TypeOK
  <2>4. CASE setting.cascades
    <3>1. UNCHANGED db /\ pending' = [pending EXCEPT ![s] = [id |-> i, row |-> row]]
      BY <1>1, <2>4 DEF Write
    <3> QED
      BY <2>1, <2>2, <2>3, <2>4, <3>1 DEF OthersAlone, Uncommitted
  <2>5. CASE ~setting.cascades
    <3>1. UNCHANGED pending /\ db' = [db EXCEPT ![i] = row]
      BY <1>1, <2>5 DEF Write
    <3> QED
      BY <2>2, <2>3, <2>5, <3>1 DEF OthersAlone
  <2> QED
    BY <2>4, <2>5
<1>7. \A j \in Ids : Advances(j) /\ (j # i => db'[j] = db[j])
  <2>1. row.version \in Int /\ row # Unborn /\ db \in [Ids -> Row \cup {Gone}]
    BY DEF Row, Unborn, IInv, TypeOK
  <2> QED
    BY <1>6, <2>1 DEF Advances, Live
<1>8. ASSUME NEW t \in Sessions, Uncommitted(t)
      PROVE  pending[t].id \in Ids /\ pending[t].id # i /\ db'[pending[t].id] = db[pending[t].id]
  <2> PICK j : j = pending[t].id
    OBVIOUS
  <2>1. j \in Ids /\ j # i
    BY <1>8, NotLocked DEF IInv, PendingOK
  <2> QED
    BY <1>7, <2>1
<1>9. ~setting.cascades => db'[i] = row
  BY <1>6 DEF IInv, TypeOK
<1>10. Built(s, saved, i, row)
  BY <1>2, <1>3, <1>5 DEF Built
<1> QED
  BY <1>1, <1>2, <1>3, <1>5, <1>6, <1>7, <1>8, <1>9, <1>10

\* An INSERT or UPDATE has run.
LEMMA WrittenStep ==
    ASSUME IInv, NEW s \in Sessions, NEW i \in Ids, NEW row \in Row, row.version > 0,
           pc[s] \in {"idle", "update"}, UNCHANGED arg, Written(s, i, row), ~Locked(i),
           \/ db[i] = Unborn
           \/ Live(i) /\ row.version > db[i].version /\ db[i].edits \subseteq row.edits
    PROVE  IInv'
<1>1. /\ OthersAlone(s) /\ LocalTypes' /\ UNCHANGED <<setting, entityCache, queryCache, held, arg>>
      /\ obj' \in [Objects -> Entity] /\ db' \in [Ids -> Row \cup {Gone}]
      /\ pc'[s] = "saved" /\ ~Uncommitted(s) /\ todo'[s] = {}
      /\ \A j \in Ids : Advances(j) /\ (j # i => db'[j] = db[j])
      /\ pending' \in [Sessions -> [id : Ids \cup {NoId}, row : Row]]
      /\ \A t \in Sessions : Uncommitted(t) => db'[pending[t].id] = db[pending[t].id]
      /\ IF setting.cascades
         THEN UNCHANGED db /\ pending'[s] = [id |-> i, row |-> row] /\ Uncommitted(s)'
         ELSE UNCHANGED pending /\ db'[i] = row
  BY WrittenEffect
<1> PICK saved \in Objects : Built(s, saved, i, row)
  BY WrittenEffect
<1>2. /\ fetched'[s] = {saved} /\ saved \notin Referenced /\ obj'[saved] = Mapped(i, row)
      /\ \A o \in Objects \ {saved} : o \in Referenced' => obj'[o] = obj[o]
  BY DEF Built
<1>3. /\ AllReferenced /\ AllReferenced' /\ RootMeaning /\ RootMeaning'
  BY Reachable, RootsMean, PTL
<1>4. /\ obj'[saved].id = i /\ obj'[saved].version = row.version /\ obj'[saved].edits = row.edits
      /\ \A o \in Objects \ {saved} : o \in Referenced' => Kept(o)
  BY <1>2, AtHand DEF Mapped, Kept
<1>5. LocalsOK(s)'
  BY <1>1 DEF LocalsOK
<1>6. \A t \in Sessions : pending[t].id # i
  BY NotLocked
<1>7. TypeOK'
  <2>1. ASSUME NEW j \in Ids, entityCache'[j] # NoObject PROVE obj'[entityCache'[j]].id = j
    BY <1>1, <1>2, <1>3, <1>4, <2>1, AtHand DEF AllReferenced
  <2>2. ASSUME NEW t \in Sessions
        PROVE  IF setting.cascades /\ pc'[t] \in {"saved", "commit"}
               THEN pending'[t].id \in Ids
               ELSE pending'[t] = NotPending
    <3>1. CASE t = s
      BY <1>1, <3>1 DEF Uncommitted
    <3>2. CASE t # s
      BY <1>1, <3>2 DEF IInv, TypeOK, OthersAlone
    <3> QED
      BY <3>1, <3>2
  <2> QED
    BY <1>1, <1>4, <2>1, <2>2 DEF IInv, TypeOK, LocalTypes
<1>8. ASSUME NEW t \in Sessions \ {s}, Uncommitted(t), NEW o \in fetched[t] PROVE Kept(o)
  <2>1. o \in Objects /\ o # saved /\ o \in Referenced'
    <3>1. o \in Objects /\ o \in Referenced
      BY <1>3 DEF AllReferenced, IInv, TypeOK
    <3>2. fetched'[t] = fetched[t]
      BY <1>1 DEF OthersAlone
    <3> QED
      BY <1>1, <1>2, <1>3, <3>1, <3>2 DEF AllReferenced
  <2> QED
    BY <1>4, <2>1
<1>9. \A o \in Referenced : o \in Objects /\ o \in Referenced' => obj'[o].id = obj[o].id
  BY <1>1, <1>2, <1>4, AtHand
<1>10. ASSUME NEW o \in Roots' PROVE Settled(obj[o])' \/ (o \in Roots /\ Kept(o))
  <2>1. o # NoObject /\ o \in Objects /\ o \in Referenced'
    <3>1. (TypeOK => Roots \subseteq Objects)' /\ RootsInHand'
      BY RootsAreObjects, RootsReferenced, PTL
    <3> QED
      BY <1>3, <1>7, <3>1 DEF RootMeaning, Objects, RootsInHand
  <2>2. ASSUME NEW t \in Sessions, ~Uncommitted(t)', o \in fetched'[t]
        PROVE  o \in Roots \/ (o = saved /\ ~setting.cascades)
    <3>1. t # s => fetched'[t] = fetched[t] /\ ~Uncommitted(t)
      BY <1>1, <2>2 DEF OthersAlone, Uncommitted
    <3>2. t = s => o = saved /\ ~setting.cascades
      BY <1>1, <1>2, <2>2
    <3> QED
      BY <1>3, <2>1, <2>2, <3>1, <3>2 DEF RootMeaning
  <2>3. o \in Roots \/ (o = saved /\ ~setting.cascades)
    BY <1>1, <1>3, <2>1, <2>2 DEF RootMeaning
  <2>4. ASSUME ~setting.cascades PROVE Settled(obj[saved])'
    <3>1. db'[i] = row
      BY <1>1, <2>4 DEF IInv, TypeOK
    <3> QED
      BY <1>4, <3>1 DEF Settled, Live, Unborn, Row
  <2>5. o # saved => Kept(o)
    BY <1>4, <2>1
  <2>6. saved \notin Roots
    BY <1>1, <1>2, AtHand
  <2> QED
    BY <2>3, <2>4, <2>5, <2>6
<1>11. PendingOK(s)'
  <2>1. CASE ~setting.cascades
    BY <1>1, <2>1 DEF PendingOK, Uncommitted
  <2>2. CASE setting.cascades
    BY <1>1, <1>2, <1>4, <1>6, <2>2 DEF PendingOK, OthersAlone, Live
  <2> QED
    BY <2>1, <2>2
<1> QED
  BY <1>1, <1>5, <1>7, <1>8, <1>9, <1>10, <1>11, StepKeeps

\* The UPDATE of save.
LEMMA UpdateStep == ASSUME IInv, NEW s \in Sessions, Update(s) PROVE IInv'
<1> PICK i, v, e : i = sent[s].id /\ v = sent[s].version /\ e = sent[s].edits
  OBVIOUS
<1>1. /\ pc[s] = "update" /\ ~Locked(i) /\ Live(i) /\ db[i].version = v /\ UNCHANGED arg
      /\ Written(s, i, [version |-> v + 1, edits |-> e])
  BY DEF Update, Matches
<1>2. i \in Ids /\ v \in Nat /\ e \subseteq Writers /\ db[i].edits \subseteq e
  BY <1>1 DEF IInv, TypeOK, LocalsOK, Settled
<1>3. [version |-> v + 1, edits |-> e] \in Row
  BY <1>2 DEF Row
<1> QED
  BY <1>1, <1>2, <1>3, WrittenStep

\* The INSERT of save.
LEMMA InsertStep == ASSUME IInv, NEW s \in Sessions, Insert(s) PROVE IInv'
<1> PICK i \in Ids : /\ db[i] = Unborn /\ ~Locked(i) /\ UNCHANGED arg
                     /\ Written(s, i, [version |-> 1, edits |-> {}])
  BY DEF Insert
<1>1. pc[s] = "idle" /\ [version |-> 1, edits |-> {}] \in Row
  BY DEF Insert, Calls, Row
<1> QED
  BY <1>1, WrittenStep

\* A transaction ends, and with it the call of s.
LEMMA TransactionEnds ==
    ASSUME IInv, NEW s \in Sessions, Uncommitted(s), NEW r, Return(s, r), Heap(obj),
           pending' = [pending EXCEPT ![s] = NotPending], UNCHANGED <<entityCache, queryCache>>,
           db' \in [Ids -> Row \cup {Gone}], Advances(pending[s].id),
           \A j \in Ids : j # pending[s].id => db'[j] = db[j],
           \/ r = NoObject
           \/ r \in Roots
           \/ r \in fetched[s] /\ db'[pending[s].id] = pending[s].row
    PROVE  IInv'
<1>1. /\ AllReferenced /\ AllReferenced' /\ RootMeaning /\ RootMeaning' /\ RootsInHand'
      /\ Roots \subseteq Objects
  BY Reachable, RootsMean, RootsReferenced, RootsAreObjects, PTL DEF IInv
<1>2. r \in Objects \cup {NoObject} /\ TypeOK
  BY <1>1 DEF IInv, TypeOK
<1>3. /\ setting' = setting /\ obj' \in [Objects -> Entity]
      /\ \A o \in Objects : o \in Referenced' => obj'[o] = obj[o]
  BY AtHand, HeapStep
<1>4. \A t \in Sessions \ {s} : pending'[t] = pending[t]
  BY DEF IInv, TypeOK
<1>5. OthersAlone(s) /\ LocalsOK(s)' /\ ~Uncommitted(s)'
  <2>1. pending'[s] = NotPending
    BY DEF IInv, TypeOK
  <2>2. /\ pc'[s] = "idle" /\ todo'[s] = {}
        /\ \A t \in Sessions \ {s} :
              /\ pc'[t] = pc[t] /\ arg'[t] = arg[t] /\ wanted'[t] = wanted[t]
              /\ fetched'[t] = fetched[t] /\ todo'[t] = todo[t] /\ held'[t] = held[t]
              /\ sent'[t] = sent[t]
    BY <1>2, Returns
  <2> QED
    BY <1>4, <2>1, <2>2 DEF OthersAlone, LocalsOK, Uncommitted
<1>6. TypeOK'
  <2>1. ASSUME NEW j \in Ids, entityCache'[j] # NoObject PROVE obj'[entityCache'[j]].id = j
    BY <1>1, <1>3, <2>1, AtHand DEF AllReferenced
  <2>2. pending' \in [Sessions -> [id : Ids \cup {NoId}, row : Row]]
    BY DEF IInv, TypeOK, NotPending, Row, Unborn
  <2>3. ASSUME NEW t \in Sessions
        PROVE  IF setting.cascades /\ pc'[t] \in {"saved", "commit"}
               THEN pending'[t].id \in Ids
               ELSE pending'[t] = NotPending
    BY <1>2, <1>4, Returns DEF TypeOK
  <2> QED
    BY <1>2, <1>3, <2>1, <2>2, <2>3, Returns DEF TypeOK
<1>7. ASSUME NEW j \in Ids PROVE Advances(j)
  <2>1. CASE j = pending[s].id
    BY <2>1
  <2>2. CASE j # pending[s].id
    BY <2>2 DEF Advances
  <2> QED
    BY <2>1, <2>2
<1>8. ASSUME NEW t \in Sessions \ {s}, Uncommitted(t)
      PROVE  db'[pending[t].id] = db[pending[t].id] /\ \A o \in fetched[t] : Kept(o)
  <2>1. pending[t].id \in Ids /\ pending[t].id # pending[s].id
    BY <1>8 DEF IInv, PendingOK
  <2>2. ASSUME NEW o \in fetched[t] PROVE Kept(o)
    BY <1>1, <1>3, <1>5, <2>2 DEF AllReferenced, OthersAlone, IInv, TypeOK, Kept
  <2> QED
    BY <2>1, <2>2
<1>9. ASSUME NEW o \in Roots' PROVE Settled(obj[o])' \/ (o \in Roots /\ Kept(o))
  <2>1. o # NoObject /\ o \in Objects /\ o \in Referenced' /\ obj'[o] = obj[o] /\ Kept(o)
    <3>1. (TypeOK => Roots \subseteq Objects)'
      BY RootsAreObjects, PTL
    <3> QED
      BY <1>1, <1>3, <1>6, <3>1 DEF RootMeaning, Objects, RootsInHand, Kept
  <2>2. ASSUME NEW t \in Sessions, ~Uncommitted(t)', o \in fetched'[t] PROVE o \in Roots
    <3>1. t # s /\ fetched'[t] = fetched[t] /\ ~Uncommitted(t)
      BY <1>2, <1>4, <2>2, Returns DEF OthersAlone, Uncommitted, IInv
    <3> QED
      BY <1>1, <2>1, <2>2, <3>1 DEF RootMeaning
  <2>3. ASSUME NEW t \in Sessions, o = held'[t] \/ o = arg'[t] PROVE o \in Roots \/ o = r
    <3>1. t # s => held'[t] = held[t] /\ arg'[t] = arg[t]
      BY <1>5 DEF OthersAlone
    <3>2. held'[s] = r /\ arg'[s] = NoObject
      BY <1>2, Returns DEF IInv
    <3> QED
      BY <1>1, <2>1, <2>3, <3>1, <3>2 DEF RootMeaning
  <2>4. o \in Roots \/ o = r
    BY <1>1, <2>1, <2>2, <2>3 DEF RootMeaning
  <2>5. ASSUME r \in fetched[s], db'[pending[s].id] = pending[s].row, o = r PROVE Settled(obj[o])'
    <3>1. /\ obj[o].id = pending[s].id /\ obj[o].version = pending[s].row.version
          /\ pending[s].row.edits \subseteq obj[o].edits /\ pending[s].id \in Ids
          /\ pending[s].row.version > 0 /\ pending[s].row.version \in Int
      BY <2>5 DEF IInv, PendingOK, TypeOK, Row
    <3> QED
      BY <2>1, <2>5, <3>1 DEF Settled, Live, Unborn
  <2> QED
    BY <2>1, <2>4, <2>5
<1>10. \A o \in Referenced : o \in Objects /\ o \in Referenced' => obj'[o].id = obj[o].id
  BY <1>3
<1>11. PendingOK(s)'
  BY <1>5 DEF PendingOK, Uncommitted
<1> QED
  BY <1>5, <1>6, <1>7, <1>8, <1>9, <1>10, <1>11, StepKeeps

\* The transaction of save is committed.
LEMMA CommitStep == ASSUME IInv, NEW s \in Sessions, Commit(s) PROVE IInv'
<1> PICK r \in fetched[s] \cup {held[s]} : Return(s, r)
  BY DEF Commit
<1> PICK i, row : i = pending[s].id /\ row = pending[s].row
  OBVIOUS
<1>1. /\ pc[s] = "commit" /\ db' = [db EXCEPT ![i] = row] /\ Heap(obj)
      /\ pending' = [pending EXCEPT ![s] = NotPending] /\ UNCHANGED <<entityCache, queryCache>>
  BY DEF Commit
<1>2. CASE Uncommitted(s)
  <2>1. /\ i \in Ids /\ row \in Row /\ row.version > 0 /\ row.version \in Int
        /\ db[i] = Unborn \/ (Live(i) /\ row.version > db[i].version)
        /\ db \in [Ids -> Row \cup {Gone}]
    BY <1>2 DEF IInv, PendingOK, TypeOK, Row
  <2>2. /\ db' \in [Ids -> Row \cup {Gone}] /\ db'[i] = row
        /\ \A j \in Ids : j # i => db'[j] = db[j]
    BY <1>1, <2>1
  <2>3. Advances(i)
    BY <2>1, <2>2 DEF Advances, Live, Unborn
  <2> QED
    <3>1. db'[pending[s].id] = pending[s].row /\ Advances(pending[s].id)
      BY <2>2, <2>3
    <3>2. r = NoObject \/ r \in Roots \/ r \in fetched[s]
      BY AtHand
    <3>3. \A j \in Ids : j # pending[s].id => db'[j] = db[j]
      BY <2>2
    <3> QED
      BY <1>1, <1>2, <2>2, <3>1, <3>2, <3>3, TransactionEnds
<1>3. CASE ~Uncommitted(s)
  <2>1. pending[s] = NotPending /\ i \notin Ids
    BY <1>3, Types DEF Uncommitted, NotPending, IInv
  <2>2. UNCHANGED <<db, pending>>
    BY <1>1, <2>1 DEF IInv, TypeOK
  <2> QED
    BY <1>1, <1>3, <2>2, AtHand, CalmReturn
<1> QED
  BY <1>2, <1>3

\* The transaction of save is rolled back.
LEMMA RollBackStep ==
    ASSUME IInv, NEW s \in Sessions, pc[s] \in {"saved", "commit"}, RollBack(s)
    PROVE  IInv'
<1> PICK i : i = pending[s].id
  OBVIOUS
<1>1. /\ db' = [j \in Ids |-> IF i = j /\ db[j] = Unborn THEN Gone ELSE db[j]] /\ Heap(obj)
      /\ pending' = [pending EXCEPT ![s] = NotPending] /\ UNCHANGED <<entityCache, queryCache>>
      /\ Return(s, held[s])
  BY DEF RollBack
<1>2. CASE Uncommitted(s)
  <2>1. i \in Ids /\ db' \in [Ids -> Row \cup {Gone}] /\ Advances(i)
    BY <1>1, <1>2 DEF IInv, PendingOK, TypeOK, Advances
  <2> QED
    BY <1>1, <1>2, <2>1, AtHand, TransactionEnds
<1>3. CASE ~Uncommitted(s)
  <2>1. pending[s] = NotPending /\ i \notin Ids
    BY <1>3, Types DEF Uncommitted, NotPending, IInv
  <2>2. UNCHANGED <<db, pending>>
    BY <1>1, <2>1 DEF IInv, TypeOK
  <2> QED
    BY <1>1, <1>3, <2>2, AtHand, CalmReturn
<1> QED
  BY <1>2, <1>3

\* A row nobody has locked changes, and no instance does.
LEMMA RowChange ==
    ASSUME IInv, NEW s, NEW i \in Ids, ~Locked(i), OthersAlone(s), LocalTypes',
           UNCHANGED <<setting, obj, entityCache, queryCache, arg, fetched, todo, held, sent, pending>>,
           db' \in [Ids -> Row \cup {Gone}], Advances(i), \A j \in Ids : j # i => db'[j] = db[j],
           s \in Sessions => LocalsOK(s)' /\ ~Uncommitted(s) /\ pc'[s] \notin {"saved", "commit"}
    PROVE  IInv'
<1>1. RootMeaning /\ RootMeaning'
  BY RootsMean, PTL
<1>2. Roots' = Roots
  BY <1>1 DEF RootMeaning, Uncommitted
<1>3. ASSUME NEW o \in Objects PROVE Kept(o)
  BY DEF Kept
<1>4. TypeOK'
  <2>1. ASSUME NEW t \in Sessions
        PROVE  IF setting.cascades /\ pc'[t] \in {"saved", "commit"}
               THEN pending[t].id \in Ids
               ELSE pending[t] = NotPending
    BY DEF IInv, TypeOK, Uncommitted, OthersAlone
  <2> QED
    BY <2>1 DEF IInv, TypeOK, LocalTypes
<1>5. ASSUME NEW j \in Ids PROVE Advances(j)
  <2>1. CASE j = i
    BY <2>1
  <2>2. CASE j # i
    BY <2>2 DEF Advances
  <2> QED
    BY <2>1, <2>2
<1>6. ASSUME NEW t \in Sessions, Uncommitted(t)
      PROVE  db'[pending[t].id] = db[pending[t].id] /\ \A o \in fetched[t] : Kept(o)
  BY <1>3, <1>6, NotLocked DEF IInv, PendingOK, TypeOK
<1>7. \A o \in Roots : Kept(o)
  BY <1>3, RootsAreObjects DEF IInv
<1>8. s \in Sessions => PendingOK(s)'
  BY DEF PendingOK, Uncommitted
<1> QED
  BY <1>2, <1>4, <1>5, <1>6, <1>7, <1>8, StepKeeps

\* The DELETE of delete.
LEMMA DeleteRowStep == ASSUME IInv, NEW s \in Sessions, DeleteRow(s) PROVE IInv'
<1> PICK i : i = sent[s].id
  OBVIOUS
<1>1. pc[s] = "delete" /\ ~Locked(i) /\ i \in Ids
  BY DEF DeleteRow, IInv, LocalsOK, Settled
<1>2. CASE /\ db' = [db EXCEPT ![i] = Gone] /\ pc' = [pc EXCEPT ![s] = "deleted"]
           /\ UNCHANGED <<setting, obj, entityCache, queryCache, arg, wanted, fetched, todo,
                          held, sent, pending>>
  <2>1. /\ OthersAlone(s) /\ LocalTypes' /\ pc'[s] = "deleted" /\ ~Uncommitted(s)
    BY <1>1, <1>2, AtHand DEF IInv, TypeOK, LocalTypes, OthersAlone, Steps
  <2>2. LocalsOK(s)'
    BY <1>1, <1>2, <2>1 DEF LocalsOK, IInv
  <2>3. /\ db' \in [Ids -> Row \cup {Gone}] /\ Advances(i) /\ \A j \in Ids : j # i => db'[j] = db[j]
    BY <1>1, <1>2 DEF IInv, TypeOK, Advances, Gone, Unborn, Live
  <2> QED
    BY <1>1, <1>2, <2>1, <2>2, <2>3, RowChange
<1>3. CASE Return(s, held[s]) /\ Heap(obj) /\ UNCHANGED <<db, entityCache, queryCache, pending>>
  BY <1>1, <1>3, NothingDoneStep
<1> QED
  BY <1>2, <1>3 DEF DeleteRow

\* The DELETE of deleteById.
LEMMA DeleteByIdStep == ASSUME IInv, NEW s \in Sessions, NEW i \in Ids, DeleteById(s, i) PROVE IInv'
<1>1. /\ pc[s] = "idle" /\ ~Locked(i) /\ db' = [db EXCEPT ![i] = Gone]
      /\ wanted' = [wanted EXCEPT ![s] = i] /\ pc' = [pc EXCEPT ![s] = "removed"]
      /\ UNCHANGED <<setting, obj, entityCache, queryCache, arg, fetched, todo, held, sent, pending>>
  BY DEF DeleteById, Calls
<1>2. /\ OthersAlone(s) /\ LocalTypes' /\ pc'[s] = "removed" /\ wanted'[s] = i /\ ~Uncommitted(s)
  BY <1>1, AtHand DEF IInv, TypeOK, LocalTypes, OthersAlone, Steps
<1>3. LocalsOK(s)'
  BY <1>1, <1>2 DEF LocalsOK, IInv
<1>4. /\ db' \in [Ids -> Row \cup {Gone}] /\ Advances(i) /\ \A j \in Ids : j # i => db'[j] = db[j]
  BY <1>1 DEF IInv, TypeOK, Advances, Gone, Unborn, Live
<1> QED
  BY <1>1, <1>2, <1>3, <1>4, RowChange

\* Another process writes the row.
LEMMA ExternalStep == ASSUME IInv, NEW i \in Ids, ExternalWrite(i) PROVE IInv'
<1>1. /\ Live(i) /\ ~Locked(i)
      /\ \/ db' = [db EXCEPT ![i] = [version |-> db[i].version + 1, edits |-> db[i].edits \cup {Outside}]]
         \/ db' = [db EXCEPT ![i] = Gone]
      /\ UNCHANGED <<setting, obj, entityCache, queryCache, pc, arg, wanted, fetched, todo,
                     held, sent, pending>>
  BY DEF ExternalWrite
<1>2. /\ db[i] \in Row /\ db[i].version > 0
      /\ [version |-> db[i].version + 1, edits |-> db[i].edits \cup {Outside}] \in Row
  BY <1>1, Types DEF IInv, Row, Writers, Live
<1>3. /\ db' \in [Ids -> Row \cup {Gone}] /\ \A j \in Ids : j # i => db'[j] = db[j]
  BY ZenonT(60), <1>1, <1>2 DEF IInv, TypeOK
<1>4. \/ db'[i] = [version |-> db[i].version + 1, edits |-> db[i].edits \cup {Outside}]
      \/ db'[i] = Gone
  BY <1>1 DEF IInv, TypeOK
<1>5. Advances(i)
  BY <1>1, <1>2, <1>4 DEF Advances, Gone, Unborn, Live, Row
<1>6. OthersAlone(Outside) /\ LocalTypes' /\ Outside \notin Sessions
  BY <1>1, RepositoryAssumption DEF IInv, TypeOK, LocalTypes, OthersAlone
<1> QED
  BY <1>1, <1>3, <1>5, <1>6, RowChange

-----------------------------------------------------------------------------
\* Nothing is loaded, cached or in the table at first.
LEMMA InitIInv == Init => IInv
<1> SUFFICES ASSUME Init PROVE IInv
  OBVIOUS
<1>1. /\ Unborn \in Row /\ Unused \in Entity /\ NotPending \in [id : Ids \cup {NoId}, row : Row]
      /\ NothingSent \in [id : Ids \cup {NoId}, version : Nat, edits : SUBSET Writers]
  BY DEF Unborn, Row, Unused, Entity, NotPending, NothingSent
<1>2. TypeOK
  BY <1>1 DEF Init, TypeOK, NoResult, Steps
<1>3. Roots = {}
  BY RootsMean DEF RootMeaning, Init, NoResult
<1>4. ASSUME NEW s \in Sessions PROVE LocalsOK(s) /\ PendingOK(s)
  BY DEF Init, LocalsOK, PendingOK, Uncommitted
<1> QED
  BY <1>2, <1>3, <1>4 DEF IInv, RootsSettled

\* A step that changes nothing.
LEMMA StutterStep == ASSUME IInv, UNCHANGED vars PROVE IInv'
<1>1. UNCHANGED <<setting, db, obj, entityCache, queryCache, pc, arg, wanted, fetched, todo, held,
                  sent, pending>>
  BY DEF vars
<1>2. OthersAlone(Outside) /\ LocalTypes' /\ Outside \notin Sessions
  BY <1>1, RepositoryAssumption DEF IInv, TypeOK, LocalTypes, OthersAlone
<1>3. obj' \in [Objects -> Entity] /\ \A o \in Objects : Kept(o)
  BY <1>1, AtHand DEF Kept
<1> QED
  BY <1>1, <1>2, <1>3, AtHand, CalmMove

\* Every step keeps the invariant.
LEMMA NextIInv == IInv /\ [Next]_vars => IInv'
<1> SUFFICES ASSUME IInv, [Next]_vars PROVE IInv'
  OBVIOUS
<1>1. ASSUME NEW s \in Sessions, NEW i \in Ids, FindHit(s, i) \/ FindMiss(s, i) \/ DeleteById(s, i)
      PROVE  IInv'
  BY <1>1, FindHitStep, FindMissStep, DeleteByIdStep
<1>2. ASSUME NEW s \in Sessions,
             \/ FindRead(s) \/ FindPost(s) \/ FindAllHit(s) \/ FindAllMiss(s) \/ FindAllRead(s)
             \/ FindAllPost(s) \/ FindAllPut(s)
      PROVE  IInv'
  BY <1>2, FindReadStep, FindPostStep, FindAllHitStep, FindAllMissStep, FindAllReadStep,
     FindAllPostStep, FindAllPutStep
<1>3. ASSUME NEW s \in Sessions,
             Edit(s) \/ Save(s) \/ Update(s) \/ UpdateRefused(s) \/ Insert(s) \/ SavePost(s) \/ Commit(s)
      PROVE  IInv'
  BY <1>3, EditStep, SaveStep, UpdateStep, UpdateRefusedStep, InsertStep, SavePostStep, CommitStep
<1>4. ASSUME NEW s \in Sessions, SaveFails(s) \/ SaveThrows(s) PROVE IInv'
  BY <1>4, RollBackStep DEF SaveFails, SaveThrows
<1>5. ASSUME NEW s \in Sessions,
             Delete(s) \/ DeleteRow(s) \/ DeletePost(s) \/ DeleteThrows(s) \/ DeleteByIdPost(s)
      PROVE  IInv'
  BY <1>5, DeleteStep, DeleteRowStep, DeletePostStep, NothingDoneStep, DeleteByIdPostStep DEF DeleteThrows
<1>6. ASSUME NEW s \in Sessions, RefreshCall(s) \/ RefreshRead(s) \/ RefreshCopy(s) \/ RefreshPost(s)
      PROVE  IInv'
  BY <1>6, RefreshCallStep, RefreshReadStep, RefreshCopyStep, RefreshPostStep
<1> QED
  BY <1>1, <1>2, <1>3, <1>4, <1>5, <1>6, ExpireStep, ExternalStep, StutterStep DEF Next

\* The invariant holds in every reachable state.
THEOREM Invariance == Spec => []IInv
BY InitIInv, NextIInv, PTL DEF Spec

\* Every variable of the repository stays in its domain, an instance is cached
\* under its own id, and a transaction is open exactly while its save runs.
THEOREM TypeCorrect == Spec => []TypeOK
BY Invariance, PTL DEF IInv

\* A step that writes a live row keeps its edits: what an UPDATE sends was
\* copied from an instance that had them, or its WHERE clause does not match.
LEMMA EditsStay ==
    ASSUME IInv, [Next]_vars
    PROVE  \A i \in Ids : Live(i) /\ Live(i)' => db[i].edits \subseteq db'[i].edits
<1>1. ASSUME NEW s \in Sessions, NEW j, NEW row, Write(s, j, row), Live(j) => db[j].edits \subseteq row.edits
      PROVE  \A i \in Ids : Live(i) /\ Live(i)' => db[i].edits \subseteq db'[i].edits
  <2>1. UNCHANGED db \/ db' = [db EXCEPT ![j] = row]
    BY <1>1 DEF Write
  <2> QED
    BY <1>1, <2>1 DEF IInv, TypeOK
<1>2. ASSUME NEW s \in Sessions, Update(s)
      PROVE  \A i \in Ids : Live(i) /\ Live(i)' => db[i].edits \subseteq db'[i].edits
  <2> PICK i, v, e : i = sent[s].id /\ v = sent[s].version /\ e = sent[s].edits
    OBVIOUS
  <2>1. Write(s, i, [version |-> v + 1, edits |-> e]) /\ db[i].edits \subseteq e
    BY <1>2 DEF Update, Matches, Written, IInv, LocalsOK, Settled
  <2> QED
    BY <1>1, <2>1
<1>3. ASSUME NEW s \in Sessions, Insert(s)
      PROVE  \A i \in Ids : Live(i) /\ Live(i)' => db[i].edits \subseteq db'[i].edits
  <2> PICK j \in Ids : db[j] = Unborn /\ Write(s, j, [version |-> 1, edits |-> {}])
    BY <1>3 DEF Insert, Written
  <2> QED
    BY <1>1 DEF Live, Unborn
<1>4. ASSUME NEW s \in Sessions, Commit(s)
      PROVE  \A i \in Ids : Live(i) /\ Live(i)' => db[i].edits \subseteq db'[i].edits
  <2>1. db' = [db EXCEPT ![pending[s].id] = pending[s].row]
    BY <1>4 DEF Commit
  <2>2. CASE Uncommitted(s)
    BY <2>1, <2>2 DEF IInv, PendingOK, TypeOK, Live, Unborn
  <2>3. CASE ~Uncommitted(s)
    BY <2>1, <2>3, Types DEF Uncommitted, NotPending, IInv, TypeOK
  <2> QED
    BY <2>2, <2>3
<1>5. ASSUME NEW s \in Sessions, SaveFails(s) \/ SaveThrows(s)
      PROVE  \A i \in Ids : Live(i) /\ Live(i)' => db[i].edits \subseteq db'[i].edits
  BY <1>5 DEF SaveFails, SaveThrows, RollBack, Live, Unborn
<1>6. ASSUME NEW s \in Sessions, DeleteRow(s)
      PROVE  \A i \in Ids : Live(i) /\ Live(i)' => db[i].edits \subseteq db'[i].edits
  <2>1. UNCHANGED db \/ db' = [db EXCEPT ![sent[s].id] = Gone]
    BY <1>6 DEF DeleteRow
  <2> QED
    BY <2>1 DEF Live, Gone, IInv, TypeOK
<1>7. ASSUME NEW s \in Sessions, NEW j \in Ids, DeleteById(s, j)
      PROVE  \A i \in Ids : Live(i) /\ Live(i)' => db[i].edits \subseteq db'[i].edits
  BY <1>7 DEF DeleteById, Live, Gone, IInv, TypeOK
<1>8. ASSUME NEW j \in Ids, ExternalWrite(j)
      PROVE  \A i \in Ids : Live(i) /\ Live(i)' => db[i].edits \subseteq db'[i].edits
  BY <1>8 DEF ExternalWrite, Live, Gone, IInv, TypeOK
<1>9. ASSUME UNCHANGED db
      PROVE  \A i \in Ids : Live(i) /\ Live(i)' => db[i].edits \subseteq db'[i].edits
  BY <1>9
<1>10. \/ UNCHANGED db
       \/ \E j \in Ids : ExternalWrite(j)
       \/ \E s \in Sessions : \/ Update(s) \/ Insert(s) \/ Commit(s) \/ SaveFails(s) \/ SaveThrows(s)
                              \/ DeleteRow(s)
                              \/ \E j \in Ids : DeleteById(s, j)
  BY ZenonT(60) DEF Next, vars, Expire, FindHit, FindMiss, FindRead, FindPost, FindAllHit, FindAllMiss,
         FindAllRead, FindAllPost, FindAllPut, Edit, Save, Pass, UpdateRefused, SavePost, Delete,
         DeletePost, DeleteThrows, DeleteByIdPost, RefreshCall, RefreshRead, RefreshCopy, RefreshPost
<1> QED
  BY <1>2, <1>3, <1>4, <1>5, <1>6, <1>7, <1>8, <1>9, <1>10

\* @Version, for any callers, another process, caches that expire, callbacks
\* that throw, with and without transactions: no row ever loses an edit.
THEOREM NoEditLost == Spec => NoLostUpdate
<1>1. IInv /\ [Next]_vars => [\A i \in Ids : Live(i) /\ Live(i)' => db[i].edits \subseteq db'[i].edits]_vars
  BY EditsStay
<1> QED
  BY <1>1, Invariance, PTL DEF Spec, NoLostUpdate

-----------------------------------------------------------------------------
(* Calls one at a time *)

\* Nothing is kept of an instance that is not referenced.
Collected == \A o \in Objects : o \notin Referenced => obj[o] = Unused

\* Between two calls a caller has no locals.
Rests(s) == pc[s] = "idle" => arg[s] = NoObject /\ fetched[s] = {}

OneCall == \A s, t \in Sessions : pc[s] # "idle" /\ pc[t] # "idle" => s = t

\* The snapshot of an instance e of the current version is the row's data.
Clean(e) == e.id # NoId /\ e.tracked /\ Matches(e) => e.snapshot = db[e.id].edits

\* An instance of the current version has the row's data.
Like(o) == Matches(obj[o]) => obj[o].edits = db[obj[o].id].edits

\* What the instances a call is about to snapshot hold, at each await.
Loaded(s) ==
    /\ pc[s] \in {"findLoaded", "findAllLoaded"} => \A o \in todo[s] : Like(o)
    /\ pc[s] = "refreshLoaded" => \A o \in fetched[s] : Like(o)
    /\ pc[s] = "refreshCopied" => Like(arg[s])
    /\ pc[s] \in {"refresh", "refreshLoaded", "refreshCopied"} => ~obj[arg[s]].tracked
    /\ pc[s] \in {"delete", "deleted"} => obj[arg[s]].id = sent[s].id
    /\ pc[s] = "saved" => \A o, p \in fetched[s] : o = p
    /\ pc[s] = "saved" => \A o \in fetched[s] :
           IF Uncommitted(s) THEN obj[o].edits = pending[s].row.edits ELSE Like(o)
    /\ pc[s] = "commit" => \A o \in fetched[s] : obj[o].snapshot = pending[s].row.edits

CleanCalls == OneCall /\ (\A o \in Objects : Clean(obj[o])) /\ (\A s \in Sessions : Loaded(s))

\* o is what is loaded from its row now.
Fresh(o) == obj[o].tracked /\ Matches(obj[o])

\* s has written row i and has not told the caches.
Untold(s, i) ==
    \/ pc[s] = "saved" /\ ~Uncommitted(s) /\ \E o \in fetched[s] : obj[o].id = i
    \/ pc[s] = "deleted" /\ i = obj[arg[s]].id
    \/ pc[s] = "removed" /\ i = wanted[s]

Changed(i) == \E s \in Sessions : Untold(s, i)

CachesFresh ==
    /\ \A i \in Ids : entityCache[i] # NoObject => Fresh(entityCache[i]) \/ Changed(i)
    /\ \A o \in queryCache.results : Fresh(o) \/ Changed(obj[o].id)
    /\ queryCache.cached =>
           \A i \in Ids : Live(i) => (\E o \in queryCache.results : obj[o].id = i) \/ Changed(i)
    /\ ~queryCache.cached => queryCache.results = {}

\* A row that is being refreshed, or is about to be committed, is not cached.
NotCached(i) == entityCache[i] = NoObject /\ ~queryCache.cached

\* What a call is about to put in a cache is what the table says.
CallFresh(s) ==
    /\ pc[s] \in {"findLoaded", "findAllLoaded"} =>
           \A o \in fetched[s] : Matches(obj[o]) /\ (o \in todo[s] \/ obj[o].tracked)
    /\ pc[s] = "findAllLoaded" => \A i \in Ids : Live(i) => \E o \in fetched[s] : obj[o].id = i
    /\ pc[s] = "refreshLoaded" => \A o \in fetched[s] : Matches(obj[o])
    /\ pc[s] = "refreshCopied" => Matches(obj[arg[s]])
    /\ pc[s] \in {"refresh", "refreshLoaded", "refreshCopied"} => NotCached(obj[arg[s]].id)
    /\ pc[s] = "commit" /\ Uncommitted(s) => NotCached(pending[s].id)

CoherentCalls == CachesFresh /\ \A s \in Sessions : CallFresh(s)

SInv ==
    /\ IInv
    /\ Collected
    /\ \A s \in Sessions : Rests(s)
    /\ setting.maxCalls = 1 => CleanCalls
    /\ Undisturbed => CoherentCalls

\* Instance f is another state of the copy that e is: only edits were made.
SameCopy(e, f) == /\ f.id = e.id /\ f.version = e.version
                  /\ f.tracked = e.tracked /\ f.snapshot = e.snapshot

Same(o) == SameCopy(obj[o], obj'[o])

\* After the garbage collection only referenced instances are left.
LEMMA HeapCollects == ASSUME NEW h, Heap(h) PROVE Collected'
BY DEF Heap, Collected

\* An instance that is in use is a root, or was built in an open transaction.
LEMMA InUse ==
    ASSUME SInv, NEW o \in Objects, obj[o].id # NoId
    PROVE  \/ o \in Roots /\ Settled(obj[o])
           \/ \E t \in Sessions : Uncommitted(t) /\ o \in fetched[t]
<1>1. o \in Referenced
  BY DEF SInv, Collected, Unused
<1>2. NoObject \notin Objects
  BY Types DEF SInv, IInv
<1>3. CASE o \in UNION {fetched[t] : t \in Sessions}
  <2> PICK t \in Sessions : o \in fetched[t]
    BY <1>3
  <2>1. CASE Uncommitted(t)
    BY <2>1
  <2>2. CASE ~Uncommitted(t)
    BY <2>2, AtHand DEF SInv, IInv, RootsSettled
  <2> QED
    BY <2>1, <2>2
<1>4. CASE o \in {held[t] : t \in Sessions} \cup {arg[t] : t \in Sessions}
                 \cup {entityCache[i] : i \in Ids} \cup queryCache.results
  BY <1>2, <1>4, AtHand DEF SInv, IInv, RootsSettled
<1> QED
  BY <1>1, <1>3, <1>4, Zenon DEF Referenced

\* With calls one at a time everybody but the caller rests.
LEMMA Alone ==
    ASSUME SInv, setting.maxCalls = 1, NEW s \in Sessions, Calls(s) \/ pc[s] # "idle"
    PROVE  \A t \in Sessions \ {s} : pc[t] = "idle"
<1>1. CASE pc[s] # "idle"
  BY <1>1 DEF SInv, CleanCalls, OneCall
<1>2. CASE Calls(s)
  <2> DEFINE busy == {t \in Sessions : pc[t] # "idle"}
  <2> SUFFICES ASSUME NEW t \in busy PROVE FALSE
    OBVIOUS
  <2>1. busy = {t}
    BY DEF SInv, CleanCalls, OneCall
  <2>2. Cardinality(busy) = 1
    BY <2>1, FS_Singleton
  <2>3. Cardinality(busy) < setting.maxCalls
    BY <1>2 DEF Calls
  <2> QED
    BY <2>2, <2>3
<1> QED
  BY <1>1, <1>2

\* A copy stays clean when its row does not change, or leaves it behind.
LEMMA CopyStaysClean ==
    ASSUME TypeOK, TypeOK', NEW e, NEW f, e.version \in Int, SameCopy(e, f), Clean(e), Advances(e.id),
           \/ Settled(e)
           \/ db'[e.id] = db[e.id]
           \/ ~(db'[e.id].version > 0)
    PROVE  Clean(f)'
<1>1. CASE db'[e.id] = db[e.id] \/ ~Live(e.id)'
  BY <1>1 DEF Clean, SameCopy, Matches, Live
<1>2. CASE Settled(e) /\ db'[e.id] # db[e.id] /\ Live(e.id)'
  <2>1. e.id \in Ids /\ db[e.id].version \in Int
    BY <1>2, Types DEF Settled
  <2>2. db'[e.id].version \in Int
    <3>1. db'[e.id] \in Row \cup {Gone}
      BY <2>1 DEF TypeOK
    <3> QED
      BY <3>1 DEF Row, Gone
  <2>3. Live(e.id) /\ db[e.id].version < db'[e.id].version /\ e.version <= db[e.id].version
    BY <1>2 DEF Settled, Advances
  <2> QED
    BY <2>1, <2>2, <2>3 DEF Clean, SameCopy, Matches
<1> QED
  BY <1>1, <1>2 DEF Live

\* What is left to show of a step of s.
LEMMA CallStep ==
    ASSUME SInv, IInv', NEW s \in Sessions, OthersAlone(s), UNCHANGED setting, Collected', Rests(s)',
           Calls(s) \/ pc[s] # "idle",
           \A i \in Ids : Advances(i),
           \A t \in Sessions : Uncommitted(t) =>
               \/ db'[pending[t].id] = db[pending[t].id]
               \/ ~(db'[pending[t].id].version > 0)
               \/ t = s /\ (setting.maxCalls = 1 => \A o \in fetched[s] : Clean(obj[o])'),
           setting.maxCalls = 1 =>
               /\ \A o \in Objects : o \in Referenced' => Same(o) \/ Clean(obj[o])'
               /\ Loaded(s)',
           Undisturbed => CachesFresh' /\ CallFresh(s)'
    PROVE  SInv'
<1>1. ASSUME NEW t \in Sessions PROVE Rests(t)'
  BY DEF OthersAlone, SInv, Rests
<1>2. ASSUME setting.maxCalls = 1, NEW t \in Sessions \ {s} PROVE pc'[t] = "idle"
  BY <1>2, Alone DEF OthersAlone
<1>3. ASSUME setting.maxCalls = 1 PROVE CleanCalls'
  <2>1. OneCall'
    BY <1>2, <1>3 DEF OneCall
  <2>2. ASSUME NEW t \in Sessions PROVE Loaded(t)'
    BY <1>2, <1>3 DEF Loaded
  <2>3. ASSUME NEW o \in Objects PROVE Clean(obj[o])'
    <3>1. CASE obj'[o].id = NoId
      BY <3>1 DEF Clean
    <3>2. CASE Same(o) /\ obj'[o].id # NoId
      <4> PICK e, f : e = obj[o] /\ f = obj'[o]
        OBVIOUS
      <4>1. SameCopy(e, f) /\ e.version \in Int /\ e.id # NoId
        BY <3>2, Types DEF Same, SameCopy, SInv, IInv, Entity
      <4>2. Clean(e)
        BY <1>3 DEF SInv, CleanCalls, Clean
      <4>3. CASE o \in Roots /\ Settled(obj[o])
        <5>1. Settled(e) /\ Advances(e.id)
          BY <4>3 DEF Settled
        <5> QED
          BY <4>1, <4>2, <5>1, CopyStaysClean DEF SInv, IInv, Clean
      <4>4. ASSUME NEW t \in Sessions, Uncommitted(t), o \in fetched[t]
            PROVE  Clean(obj[o])'
        <5>1. e.id = pending[t].id /\ e.id \in Ids
          BY <4>4 DEF SInv, IInv, PendingOK
        <5>2. CASE db'[pending[t].id] = db[pending[t].id]
          BY <4>1, <4>2, <5>1, <5>2, CopyStaysClean DEF SInv, IInv, Clean
        <5>4. CASE ~(db'[pending[t].id].version > 0)
          BY <4>1, <4>2, <5>1, <5>4, CopyStaysClean DEF SInv, IInv, Clean
        <5>3. CASE t = s /\ (setting.maxCalls = 1 => \A p \in fetched[s] : Clean(obj[p])')
          BY <1>3, <4>4, <5>3
        <5> QED
          BY <4>4, <5>2, <5>3, <5>4
      <4> QED
        BY <4>1, <4>3, <4>4, InUse
    <3>3. CASE o \notin Referenced'
      BY <3>3 DEF Collected, Unused, Clean
    <3> QED
      BY <1>3, <3>1, <3>2, <3>3
  <2> QED
    BY <2>1, <2>2, <2>3 DEF CleanCalls
<1>4. ASSUME Undisturbed PROVE CoherentCalls'
  <2>1. ASSUME NEW t \in Sessions PROVE CallFresh(t)'
    BY <1>2, <1>4 DEF CallFresh, Undisturbed
  <2> QED
    BY <1>4, <2>1 DEF CoherentCalls
<1>5. setting'.maxCalls = setting.maxCalls /\ (Undisturbed' <=> Undisturbed)
  BY DEF Undisturbed
<1> QED
  BY <1>1, <1>3, <1>4, <1>5 DEF SInv

\* Only the caller may have written a row the caches have not been told of.
LEMMA Quiet ==
    ASSUME SInv, setting.maxCalls = 1, NEW s \in Sessions, Calls(s) \/ pc[s] # "idle", NEW i, Changed(i)
    PROVE  Untold(s, i)
BY Alone DEF Changed, Untold

\* An instance stays as fresh as it was when neither it nor its row changes.
LEMMA StaysFresh ==
    ASSUME NEW o, Same(o), Fresh(o), db'[obj[o].id] = db[obj[o].id]
    PROVE  Fresh(o)'
<1> PICK e, f : e = obj[o] /\ f = obj'[o]
  OBVIOUS
<1> QED
  BY DEF Same, SameCopy, Fresh, Matches, Live

\* Caches that only lose what they held, and lose what is no longer true.
LEMMA CachesForget ==
    ASSUME SInv, Undisturbed,
           \A i \in Ids : entityCache'[i] = entityCache[i] \/ entityCache'[i] = NoObject,
           queryCache' = queryCache \/ queryCache' = NoResult,
           \A i \in Ids : db'[i] = db[i] \/ (~Live(i) /\ ~(db'[i].version > 0)),
           \A i \in Ids : Changed(i) => entityCache'[i] = NoObject /\ queryCache' = NoResult,
           \A i \in Ids : entityCache'[i] # NoObject => Same(entityCache'[i]),
           \A o \in queryCache'.results : Same(o)
    PROVE  CachesFresh'
<1>1. CachesFresh
  BY DEF SInv, CoherentCalls
<1>2. ASSUME NEW o \in Roots, Same(o), Fresh(o) PROVE Fresh(o)'
  <2>1. obj[o].id \in Ids
    BY DEF SInv, IInv, RootsSettled, Settled
  <2>2. db'[obj[o].id] = db[obj[o].id]
    BY <1>2, <2>1 DEF Fresh, Matches
  <2> QED
    BY <1>2, <2>2, StaysFresh
<1>3. ASSUME NEW i \in Ids, entityCache'[i] # NoObject PROVE Fresh(entityCache[i])'
  <2> PICK o : o = entityCache'[i]
    OBVIOUS
  <2>1. o \in Roots /\ Same(o) /\ Fresh(o)
    <3>1. o = entityCache[i] /\ o # NoObject /\ Same(o)
      BY <1>3
    <3>2. Fresh(entityCache[i]) \/ Changed(i)
      BY <1>1, <3>1 DEF CachesFresh
    <3>3. ~Changed(i)
      BY <1>3
    <3> QED
      BY <3>1, <3>2, <3>3, AtHand DEF SInv, Fresh
  <2>2. Fresh(o)'
    BY <1>2, <2>1
  <2> QED
    BY <2>2 DEF Fresh
<1>4. CASE queryCache' = NoResult
  BY <1>3, <1>4 DEF CachesFresh, NoResult
<1>5. CASE queryCache' = queryCache /\ queryCache # NoResult
  <2>1. ASSUME NEW i \in Ids PROVE ~Changed(i)
    BY <1>5
  <2>2. ASSUME NEW o \in queryCache.results PROVE Fresh(o)' /\ obj'[o].id = obj[o].id
    <3>1. o \in Roots /\ Same(o) /\ obj[o].id \in Ids
      BY <1>5, AtHand DEF SInv, IInv, RootsSettled, Settled
    <3>2. Fresh(o)
      <4> PICK i : i = obj[o].id
        OBVIOUS
      <4>1. Fresh(o) \/ Changed(obj[o].id)
        BY <1>1 DEF CachesFresh
      <4>2. ~Changed(obj[o].id)
        BY <2>1, <3>1
      <4> QED
        BY <4>1, <4>2
    <3> QED
      BY <1>2, <3>1, <3>2 DEF Same, SameCopy
  <2>3. ASSUME queryCache.cached, NEW i \in Ids, Live(i)'
        PROVE  \E o \in queryCache.results : obj'[o].id = i
    <3>1. Live(i) /\ ~Changed(i)
      BY <2>1, <2>3 DEF Live
    <3> QED
      BY <1>1, <2>2, <2>3, <3>1 DEF CachesFresh
  <2> QED
    BY <1>1, <1>3, <1>5, <2>2, <2>3 DEF CachesFresh
<1> QED
  BY <1>4, <1>5

\* A row changes, and the caches are still to be told.
LEMMA CachesUntold ==
    ASSUME SInv, Undisturbed, NEW i \in Ids, \A j \in Ids : ~Changed(j), Changed(i)',
           UNCHANGED <<entityCache, queryCache>>,
           \A j \in Ids : j # i => db'[j] = db[j],
           \A j \in Ids : entityCache[j] # NoObject => Same(entityCache[j]),
           \A o \in queryCache.results : Same(o)
    PROVE  CachesFresh'
<1>1. CachesFresh
  BY DEF SInv, CoherentCalls
<1>2. ASSUME NEW o \in Roots, Same(o), Fresh(o), obj[o].id # i PROVE Fresh(o)'
  <2>1. obj[o].id \in Ids
    BY DEF SInv, IInv, RootsSettled, Settled
  <2>2. db'[obj[o].id] = db[obj[o].id]
    BY <1>2, <2>1
  <2> QED
    BY <1>2, <2>2, StaysFresh
<1>3. ASSUME NEW j \in Ids, entityCache[j] # NoObject, j # i PROVE Fresh(entityCache[j])'
  <2> PICK o : o = entityCache[j]
    OBVIOUS
  <2>1. o \in Roots /\ Same(o) /\ obj[o].id # i
    BY <1>3, AtHand DEF SInv
  <2>2. Fresh(o)
    BY <1>1, <1>3 DEF CachesFresh, Fresh
  <2>3. Fresh(o)'
    BY <1>2, <2>1, <2>2
  <2> QED
    BY <2>3 DEF Fresh
<1>4. ASSUME NEW j \in Ids, entityCache[j] # NoObject PROVE Fresh(entityCache[j])' \/ Changed(j)'
  <2>1. CASE j = i
    BY <2>1
  <2>2. CASE j # i
    BY <1>3, <1>4, <2>2
  <2> QED
    BY <2>1, <2>2
<1>5. ASSUME NEW o \in queryCache.results PROVE Fresh(o)' \/ Changed(obj[o].id)'
  <2>1. o \in Roots /\ Same(o) /\ obj'[o].id = obj[o].id /\ obj[o].id \in Ids
    BY AtHand DEF SInv, IInv, RootsSettled, Settled, Same, SameCopy
  <2>2. CASE obj[o].id = i
    <3> PICK j : j = obj'[o].id
      OBVIOUS
    <3>1. j = i
      BY <2>1, <2>2
    <3>2. Changed(j)'
      BY <3>1
    <3> QED
      BY <3>2 DEF Changed, Untold
  <2>3. CASE obj[o].id # i
    <3>1. Fresh(o) \/ Changed(obj[o].id)
      BY <1>1 DEF CachesFresh
    <3>2. ~Changed(obj[o].id)
      BY <2>1
    <3> QED
      BY <1>2, <2>1, <2>3, <3>1, <3>2
  <2> QED
    BY <2>2, <2>3
<1>6. ASSUME queryCache.cached, NEW j \in Ids, Live(j)'
      PROVE  (\E o \in queryCache.results : obj'[o].id = j) \/ Changed(j)'
  <2>1. CASE j = i
    BY <2>1
  <2>2. CASE j # i
    <3>1. Live(j) /\ ~Changed(j)
      BY <1>6, <2>2 DEF Live
    <3>2. PICK o \in queryCache.results : obj[o].id = j
      BY <1>1, <1>6, <3>1 DEF CachesFresh
    <3>3. obj'[o].id = j
      BY <3>2, AtHand DEF SInv, Same, SameCopy
    <3> QED
      BY <3>3
  <2> QED
    BY <2>1, <2>2
<1> QED
  BY <1>1, <1>4, <1>5, <1>6 DEF CachesFresh

\* A call that returns without changing a row.
LEMMA CallReturn ==
    ASSUME SInv, IInv', NEW s \in Sessions, Calls(s) \/ pc[s] # "idle",
           NEW r \in Objects \cup {NoObject}, Return(s, r),
           NEW h \in [Objects -> Entity], Heap(h), UNCHANGED <<db, pending>>,
           \A o \in Objects : SameCopy(obj[o], h[o]) \/ (setting.maxCalls = 1 => Clean(h[o])),
           Undisturbed => CachesFresh'
    PROVE  SInv'
<1>1. /\ OthersAlone(s) /\ pc'[s] = "idle" /\ arg'[s] = NoObject /\ fetched'[s] = {}
      /\ setting' = setting /\ \A o \in Objects : o \in Referenced' => obj'[o] = h[o]
  BY Returns, HeapStep DEF SInv, IInv
<1>2. Collected' /\ Rests(s)' /\ Loaded(s)' /\ CallFresh(s)'
  BY <1>1, HeapCollects DEF Rests, Loaded, CallFresh
<1>3. ASSUME setting.maxCalls = 1, NEW o \in Objects, o \in Referenced'
      PROVE  Same(o) \/ Clean(obj[o])'
  <2>1. CASE SameCopy(obj[o], h[o])
    BY <1>1, <1>3, <2>1 DEF Same
  <2>2. CASE Clean(h[o])
    BY <1>1, <1>3, <2>2 DEF Clean, Matches, Live
  <2> QED
    BY <1>3, <2>1, <2>2
<1>4. \A i \in Ids : Advances(i)
  BY DEF Advances
<1> QED
  BY <1>1, <1>2, <1>3, <1>4, CallStep

\* The same of a call that has put nothing in a cache.
LEMMA CallForgets ==
    ASSUME SInv, IInv', NEW s \in Sessions, Calls(s) \/ pc[s] # "idle",
           NEW r \in Objects \cup {NoObject}, Return(s, r),
           NEW h \in [Objects -> Entity], Heap(h), UNCHANGED <<db, pending>>,
           \A o \in Objects : SameCopy(obj[o], h[o]) \/ (setting.maxCalls = 1 => Clean(h[o])),
           Undisturbed =>
               /\ \A i \in Ids : entityCache'[i] = entityCache[i] \/ entityCache'[i] = NoObject
               /\ queryCache' = queryCache \/ queryCache' = NoResult
               /\ \A i \in Ids : Untold(s, i) => entityCache'[i] = NoObject /\ queryCache' = NoResult
               /\ \A i \in Ids : entityCache'[i] # NoObject =>
                      SameCopy(obj[entityCache'[i]], h[entityCache'[i]])
               /\ \A o \in queryCache'.results : SameCopy(obj[o], h[o])
    PROVE  SInv'
<1>1. \A o \in Objects : o \in Referenced' => obj'[o] = h[o]
  BY HeapStep
<1>2. ASSUME Undisturbed PROVE CachesFresh'
  <2>1. \A i \in Ids : Changed(i) => Untold(s, i)
    BY <1>2, Quiet DEF Undisturbed
  <2>2. AllReferenced'
    BY Reachable, PTL
  <2>3. /\ \A i \in Ids : entityCache'[i] # NoObject => entityCache'[i] \in Objects
        /\ \A o \in queryCache'.results : o \in Objects
    BY DEF IInv, TypeOK
  <2>4. \A i \in Ids : entityCache'[i] # NoObject => Same(entityCache'[i])
    BY <1>1, <1>2, <2>2, <2>3 DEF AllReferenced, Same
  <2>5. \A o \in queryCache'.results : Same(o)
    BY <1>1, <1>2, <2>2, <2>3 DEF AllReferenced, Same
  <2> QED
    BY <1>2, <2>1, <2>4, <2>5, CachesForget
<1> QED
  BY <1>2, CallReturn

\* A step that changes no instance.
LEMMA NothingMoves ==
    ASSUME IInv
    PROVE  obj \in [Objects -> Entity] /\ \A o : SameCopy(obj[o], obj[o])
BY AtHand DEF SameCopy

\* findById that finds its entity cached.
LEMMA FindHitKeeps == ASSUME SInv, IInv', NEW s \in Sessions, NEW i \in Ids, FindHit(s, i) PROVE SInv'
<1>1. /\ pc[s] = "idle" /\ Calls(s) /\ Return(s, entityCache[i]) /\ Heap(obj)
      /\ UNCHANGED <<db, entityCache, queryCache, pending>>
      /\ entityCache[i] \in Objects \cup {NoObject}
  BY AtHand DEF FindHit, Calls, SInv
<1>2. \A j : ~Untold(s, j)
  BY <1>1 DEF Untold
<1> QED
  BY <1>1, <1>2, NothingMoves, CallForgets DEF SInv

\* A call that ends without an answer and changes nothing.
LEMMA NothingDoneKeeps ==
    ASSUME SInv, IInv', NEW s \in Sessions, pc[s] # "idle", Undisturbed => \A i : ~Untold(s, i),
           NEW r \in {NoObject, held[s]}, Return(s, r), Heap(obj),
           UNCHANGED <<db, entityCache, queryCache, pending>>
    PROVE  SInv'
<1>1. r \in Objects \cup {NoObject}
  BY DEF SInv, IInv, TypeOK
<1> QED
  BY <1>1, NothingMoves, CallForgets DEF SInv

\* An UPDATE that matched no row.
LEMMA UpdateRefusedKeeps == ASSUME SInv, IInv', NEW s \in Sessions, UpdateRefused(s) PROVE SInv'
<1> DEFINE h == [obj EXCEPT ![arg[s]].refused = setting.external]
<1>1. /\ pc[s] = "update" /\ Evict(sent[s].id) /\ UNCHANGED <<db, queryCache, pending>>
      /\ Return(s, held[s]) /\ Heap(h)
  BY DEF UpdateRefused
<1>2. arg[s] \in Objects /\ setting.external \in BOOLEAN /\ held[s] \in Objects \cup {NoObject}
  BY <1>1, AtHand, RepositoryAssumption DEF SInv, IInv, LocalsOK, TypeOK
<1>3. h \in [Objects -> Entity] /\ \A p \in Objects : SameCopy(obj[p], h[p])
  BY <1>2, AtHand DEF SInv, Entity, SameCopy
<1>4. \A j : ~Untold(s, j)
  BY <1>1 DEF Untold
<1>5. /\ \A j \in Ids : entityCache'[j] = entityCache[j] \/ entityCache'[j] = NoObject
      /\ \A j \in Ids : entityCache'[j] # NoObject => entityCache'[j] \in Objects
      /\ queryCache'.results \subseteq Objects
  BY <1>1, Evicted, AtHand DEF SInv
<1> HIDE DEF h
<1> QED
  BY <1>1, <1>2, <1>3, <1>4, <1>5, CallForgets

\* delete tells the caches.
LEMMA DeletePostKeeps == ASSUME SInv, IInv', NEW s \in Sessions, DeletePost(s) PROVE SInv'
<1> PICK o : o = arg[s]
  OBVIOUS
<1> DEFINE h == [obj EXCEPT ![o] = [obj[o] EXCEPT !.tracked = FALSE, !.snapshot = {}]]
<1>1. /\ pc[s] = "deleted" /\ Evict(obj[o].id) /\ Invalidate /\ UNCHANGED <<db, pending>>
      /\ Return(s, held[s]) /\ Heap([obj EXCEPT ![o].tracked = FALSE, ![o].snapshot = {}])
  BY DEF DeletePost
<1>2. o \in Objects /\ obj[o] \in Entity /\ held[s] \in Objects \cup {NoObject}
  BY <1>1, AtHand DEF SInv, IInv, LocalsOK, TypeOK
<1>3. [obj EXCEPT ![o].tracked = FALSE, ![o].snapshot = {}] = h
  BY <1>2, AtHand DEF SInv
<1>4. /\ h \in [Objects -> Entity] /\ Heap(h)
      /\ \A p \in Objects : IF p = o THEN ~h[p].tracked ELSE h[p] = obj[p]
  <2>1. h \in [Objects -> Entity]
    BY <1>2, AtHand DEF SInv, Entity
  <2> QED
    BY <1>1, <1>2, <1>3, <2>1, AtHand DEF SInv, Entity
<1>5. ASSUME NEW p \in Objects PROVE SameCopy(obj[p], h[p]) \/ Clean(h[p])
  BY <1>4 DEF SameCopy, Clean
<1>6. \A j : Untold(s, j) => j = obj[o].id
  BY <1>1 DEF Untold
<1>7. /\ \A j \in Ids : entityCache'[j] = IF j = obj[o].id THEN NoObject ELSE entityCache[j]
      /\ \A j \in Ids : entityCache'[j] # NoObject =>
             entityCache'[j] \in Objects /\ obj[entityCache'[j]].id = j
      /\ queryCache' = NoResult /\ queryCache'.results = {}
  BY <1>1, Evicted, AtHand DEF SInv, Invalidate, NoResult
<1> HIDE DEF h
<1>8. ASSUME NEW j \in Ids, entityCache'[j] # NoObject
      PROVE  SameCopy(obj[entityCache'[j]], h[entityCache'[j]])
  <2> PICK p : p = entityCache'[j]
    OBVIOUS
  <2>1. p \in Objects /\ p # o
    BY <1>7, <1>8
  <2> QED
    BY <1>4, <2>1 DEF SameCopy
<1> QED
  BY <1>1, <1>2, <1>4, <1>5, <1>6, <1>7, <1>8, CallForgets

\* deleteById tells the caches.
LEMMA DeleteByIdPostKeeps == ASSUME SInv, IInv', NEW s \in Sessions, DeleteByIdPost(s) PROVE SInv'
<1>1. /\ pc[s] = "removed" /\ Evict(wanted[s]) /\ Invalidate /\ UNCHANGED <<db, pending>>
      /\ Return(s, held[s]) /\ Heap(obj) /\ held[s] \in Objects \cup {NoObject}
  BY DEF DeleteByIdPost, SInv, IInv, TypeOK
<1>2. \A j : Untold(s, j) => j = wanted[s]
  BY <1>1 DEF Untold
<1>3. /\ \A j \in Ids : entityCache'[j] = IF j = wanted[s] THEN NoObject ELSE entityCache[j]
      /\ queryCache' = NoResult /\ queryCache'.results = {}
  BY <1>1, Evicted DEF SInv, Invalidate, NoResult
<1> QED
  BY <1>1, <1>2, <1>3, NothingMoves, CallForgets DEF SInv

\* The snapshot of an instance that has the row's data.
LEMMA SnapshotTaken ==
    ASSUME SInv, NEW o \in Objects
    PROVE  LET h == [obj EXCEPT ![o] = Snapshotted(obj[o])]
           IN  /\ h \in [Objects -> Entity]
               /\ h[o].id = obj[o].id /\ h[o].version = obj[o].version /\ h[o].tracked
               /\ h[o].edits = obj[o].edits /\ h[o].snapshot = obj[o].edits
               /\ \A p \in Objects \ {o} : h[p] = obj[p] /\ SameCopy(obj[p], h[p])
               /\ \A p \in Objects : Fresh(p) => h[p].tracked /\ Matches(h[p])
               /\ Matches(obj[o]) => Matches(h[o])
               /\ Like(o) => Clean(h[o])
<1> DEFINE h == [obj EXCEPT ![o] = Snapshotted(obj[o])]
<1>1. obj[o] \in Entity /\ obj \in [Objects -> Entity]
  BY AtHand DEF SInv
<1>2. /\ h \in [Objects -> Entity]
      /\ h[o].id = obj[o].id /\ h[o].version = obj[o].version /\ h[o].tracked
      /\ h[o].edits = obj[o].edits /\ h[o].snapshot = obj[o].edits
      /\ \A p \in Objects \ {o} : h[p] = obj[p]
  BY <1>1 DEF Snapshotted, Entity
<1> HIDE DEF h
<1>3. \A p \in Objects \ {o} : SameCopy(obj[p], h[p])
  BY <1>2 DEF SameCopy
<1>4. Matches(obj[o]) <=> Matches(h[o])
  BY <1>2 DEF Matches, Live
<1>5. \A p \in Objects : Fresh(p) => h[p].tracked /\ Matches(h[p])
  BY <1>2, <1>4 DEF Fresh
<1>6. Like(o) => Clean(h[o])
  BY <1>2, <1>4 DEF Like, Clean
<1> QED
  BY <1>2, <1>3, <1>4, <1>5, <1>6 DEF h

\* With no row left to tell of the caches are fresh.
LEMMA AllFresh ==
    ASSUME SInv, Undisturbed, NEW s \in Sessions, Calls(s) \/ pc[s] # "idle", \A i : ~Untold(s, i)
    PROVE  /\ \A i \in Ids : entityCache[i] # NoObject => Fresh(entityCache[i])
           /\ \A o \in queryCache.results : Fresh(o)
           /\ queryCache.cached => \A i \in Ids : Live(i) => \E o \in queryCache.results : obj[o].id = i
           /\ ~queryCache.cached => queryCache.results = {}
<1>1. \A i : ~Changed(i)
  BY Quiet DEF Undisturbed
<1> QED
  BY <1>1 DEF SInv, CoherentCalls, CachesFresh

\* Caches that hold what is fresh.
LEMMA CachesFilled ==
    ASSUME IInv', UNCHANGED db, NEW h, \A o \in Objects : o \in Referenced' => obj'[o] = h[o],
           \A i \in Ids : entityCache'[i] # NoObject =>
               h[entityCache'[i]].tracked /\ Matches(h[entityCache'[i]]),
           \A o \in queryCache'.results : h[o].tracked /\ Matches(h[o]),
           queryCache'.cached => \A i \in Ids : Live(i) => \E o \in queryCache'.results : h[o].id = i,
           ~queryCache'.cached => queryCache'.results = {}
    PROVE  CachesFresh'
<1>1. AllReferenced'
  BY Reachable, PTL
<1>2. /\ \A i \in Ids : entityCache'[i] # NoObject => entityCache'[i] \in Objects
      /\ \A o \in queryCache'.results : o \in Objects
  BY DEF IInv, TypeOK
<1>3. /\ \A i \in Ids : entityCache'[i] # NoObject => obj'[entityCache'[i]] = h[entityCache'[i]]
      /\ \A o \in queryCache'.results : obj'[o] = h[o]
  BY <1>1, <1>2 DEF AllReferenced
<1>4. ASSUME NEW i \in Ids, entityCache'[i] # NoObject PROVE Fresh(entityCache[i])'
  BY <1>3, <1>4 DEF Fresh, Matches, Live
<1>5. ASSUME NEW o \in queryCache'.results PROVE Fresh(o)'
  BY <1>3, <1>5 DEF Fresh, Matches, Live
<1>6. ASSUME queryCache'.cached, NEW i \in Ids, Live(i)'
      PROVE  \E o \in queryCache'.results : obj'[o].id = i
  BY <1>3, <1>6 DEF Live
<1> QED
  BY <1>4, <1>5, <1>6 DEF CachesFresh

\* An instance of a row as it is is put in the entity cache.
LEMMA PutFresh ==
    ASSUME SInv, IInv', Undisturbed, NEW s \in Sessions, pc[s] # "idle", \A i : ~Untold(s, i),
           NEW o \in Objects, Matches(obj[o]), UNCHANGED <<db, queryCache>>,
           entityCache' = [entityCache EXCEPT ![obj[o].id] = o],
           Heap([obj EXCEPT ![o] = Snapshotted(obj[o])])
    PROVE  CachesFresh'
<1> DEFINE h == [obj EXCEPT ![o] = Snapshotted(obj[o])]
<1>1. /\ h \in [Objects -> Entity] /\ h[o].tracked /\ Matches(h[o])
      /\ \A p \in Objects : Fresh(p) => h[p].tracked /\ Matches(h[p])
      /\ \A p \in Objects : h[p].id = obj[p].id
  BY SnapshotTaken
<1>2. Heap(h)
  OBVIOUS
<1> HIDE DEF h
<1>3. /\ \A i \in Ids : entityCache[i] # NoObject => entityCache[i] \in Objects /\ Fresh(entityCache[i])
      /\ \A p \in queryCache.results : p \in Objects /\ Fresh(p)
      /\ queryCache.cached => \A i \in Ids : Live(i) => \E p \in queryCache.results : obj[p].id = i
      /\ ~queryCache.cached => queryCache.results = {}
  BY AllFresh, AtHand DEF SInv
<1>4. \A i \in Ids : entityCache'[i] = entityCache[i] \/ entityCache'[i] = o
  BY AtHand DEF SInv
<1>5. \A p \in Objects : p \in Referenced' => obj'[p] = h[p]
  BY <1>1, <1>2, HeapStep
<1> QED
  BY <1>1, <1>3, <1>4, <1>5, CachesFilled

\* findById caches what it found.
LEMMA FindPostKeeps == ASSUME SInv, IInv', NEW s \in Sessions, FindPost(s) PROVE SInv'
<1> PICK o \in todo[s] : Return(s, o) /\ PostLoad(o)
  BY DEF FindPost
<1>1. pc[s] = "findLoaded" /\ UNCHANGED <<db, queryCache, pending>> /\ o \in fetched[s]
  BY DEF FindPost, SInv, IInv, LocalsOK
<1>2. o \in Objects
  BY <1>1 DEF SInv, IInv, TypeOK
<1> DEFINE h == [obj EXCEPT ![o] = Snapshotted(obj[o])]
<1>3. Heap(h) /\ entityCache' = [entityCache EXCEPT ![obj[o].id] = o]
  BY DEF PostLoad
<1>4. ASSUME Undisturbed PROVE CachesFresh'
  <2>1. Matches(obj[o]) /\ \A i : ~Untold(s, i)
    BY <1>1, <1>4 DEF SInv, CoherentCalls, CallFresh, Untold
  <2> QED
    BY <1>1, <1>2, <1>3, <1>4, <2>1, PutFresh
<1>5. /\ h \in [Objects -> Entity]
      /\ Like(o) => Clean(h[o])
      /\ \A p \in Objects \ {o} : SameCopy(obj[p], h[p])
  BY <1>2, SnapshotTaken
<1> HIDE DEF h
<1>6. setting.maxCalls = 1 => Clean(h[o])
  BY <1>1, <1>5 DEF SInv, CleanCalls, Loaded
<1> QED
  BY <1>1, <1>2, <1>3, <1>4, <1>5, <1>6, CallReturn

\* refresh caches its entity.
LEMMA RefreshPostKeeps == ASSUME SInv, IInv', NEW s \in Sessions, RefreshPost(s) PROVE SInv'
<1> PICK o : o = arg[s]
  OBVIOUS
<1>1. /\ pc[s] = "refreshCopied" /\ UNCHANGED <<db, queryCache, pending>> /\ Return(s, o)
      /\ entityCache' = [entityCache EXCEPT ![obj[o].id] = o]
  BY DEF RefreshPost
<1>2. o \in Objects
  BY <1>1, AtHand DEF SInv, IInv, LocalsOK
<1> DEFINE h == [obj EXCEPT ![o] = Snapshotted(obj[o])]
<1>3. Heap(h)
  BY DEF RefreshPost
<1>4. ASSUME Undisturbed PROVE CachesFresh'
  <2>1. Matches(obj[o]) /\ \A i : ~Untold(s, i)
    BY <1>1, <1>4 DEF SInv, CoherentCalls, CallFresh, Untold
  <2> QED
    BY <1>1, <1>2, <1>3, <1>4, <2>1, PutFresh
<1>5. /\ h \in [Objects -> Entity]
      /\ Like(o) => Clean(h[o])
      /\ \A p \in Objects \ {o} : SameCopy(obj[p], h[p])
  BY <1>2, SnapshotTaken
<1> HIDE DEF h
<1>6. setting.maxCalls = 1 => Clean(h[o])
  <2>1. setting.maxCalls = 1 => Like(arg[s])
    BY <1>1 DEF SInv, CleanCalls, Loaded
  <2>2. Like(arg[s]) => Like(o)
    BY DEF Like
  <2> QED
    BY <1>5, <2>1, <2>2
<1> QED
  BY <1>1, <1>2, <1>3, <1>4, <1>5, <1>6, CallReturn

\* findAll with a cached result.
LEMMA FindAllHitKeeps == ASSUME SInv, IInv', NEW s \in Sessions, FindAllHit(s) PROVE SInv'
<1> PICK o \in OneOf(queryCache.results) : Return(s, o)
  BY DEF FindAllHit
<1>1. /\ pc[s] = "idle" /\ Calls(s) /\ Heap(obj) /\ UNCHANGED <<db, queryCache, pending>>
      /\ entityCache' = RePut(entityCache, queryCache.results)
  BY DEF FindAllHit, Calls
<1>2. o \in Objects \cup {NoObject}
  BY AtHand DEF SInv, OneOf
<1>3. \A j \in Ids : entityCache'[j] = entityCache[j] \/ entityCache'[j] \in queryCache.results
  BY <1>1 DEF RePut
<1>4. ASSUME Undisturbed PROVE CachesFresh'
  <2>1. \A i : ~Untold(s, i)
    BY <1>1 DEF Untold
  <2>2. /\ \A i \in Ids : entityCache[i] # NoObject => Fresh(entityCache[i])
        /\ \A p \in queryCache.results : Fresh(p)
        /\ queryCache.cached => \A i \in Ids : Live(i) => \E p \in queryCache.results : obj[p].id = i
        /\ ~queryCache.cached => queryCache.results = {}
    BY <1>1, <1>4, <2>1, AllFresh
  <2>3. \A p \in Objects : p \in Referenced' => obj'[p] = obj[p]
    BY <1>1, HeapStep, NothingMoves DEF SInv
  <2> QED
    BY <1>1, <1>3, <2>2, <2>3, CachesFilled DEF Fresh
<1> QED
  BY <1>1, <1>2, <1>4, NothingMoves, CallReturn DEF SInv

\* findAll caches its result.
LEMMA FindAllPutKeeps == ASSUME SInv, IInv', NEW s \in Sessions, FindAllPut(s) PROVE SInv'
<1> PICK o \in OneOf(fetched[s]) : Return(s, o)
  BY DEF FindAllPut
<1>1. /\ pc[s] = "findAllLoaded" /\ todo[s] = {} /\ Heap(obj) /\ UNCHANGED <<db, entityCache, pending>>
      /\ queryCache' = [cached |-> TRUE, results |-> fetched[s]]
  BY DEF FindAllPut
<1>2. o \in Objects \cup {NoObject}
  BY DEF SInv, IInv, TypeOK, OneOf
<1>3. ASSUME Undisturbed PROVE CachesFresh'
  <2>1. \A i : ~Untold(s, i)
    BY <1>1 DEF Untold
  <2>2. \A i \in Ids : entityCache[i] # NoObject => Fresh(entityCache[i])
    BY <1>1, <1>3, <2>1, AllFresh
  <2>3. /\ \A p \in fetched[s] : Matches(obj[p]) /\ obj[p].tracked
        /\ \A i \in Ids : Live(i) => \E p \in fetched[s] : obj[p].id = i
    BY <1>1, <1>3 DEF SInv, CoherentCalls, CallFresh
  <2>4. \A p \in Objects : p \in Referenced' => obj'[p] = obj[p]
    BY <1>1, HeapStep, NothingMoves DEF SInv
  <2> QED
    BY <1>1, <2>2, <2>3, <2>4, CachesFilled DEF Fresh
<1> QED
  BY <1>1, <1>2, <1>3, NothingMoves, CallReturn DEF SInv

\* A call that goes on without changing a row or filling a cache.
LEMMA CallMoves ==
    ASSUME SInv, IInv', NEW s \in Sessions, Calls(s) \/ pc[s] # "idle", OthersAlone(s),
           UNCHANGED <<setting, db, pending>>, Collected', Rests(s)',
           setting.maxCalls = 1 =>
               /\ \A o \in Objects : o \in Referenced' => Same(o) \/ Clean(obj[o])'
               /\ Loaded(s)',
           Undisturbed =>
               /\ \A i \in Ids : entityCache'[i] = entityCache[i] \/ entityCache'[i] = NoObject
               /\ queryCache' = queryCache \/ queryCache' = NoResult
               /\ \A i \in Ids : Untold(s, i) => entityCache'[i] = NoObject /\ queryCache' = NoResult
               /\ \A i \in Ids : entityCache'[i] # NoObject => Same(entityCache'[i])
               /\ \A o \in queryCache'.results : Same(o)
               /\ CallFresh(s)'
    PROVE  SInv'
<1>1. ASSUME Undisturbed PROVE CachesFresh'
  <2>1. \A i \in Ids : Changed(i) => Untold(s, i)
    BY <1>1, Quiet DEF Undisturbed
  <2> QED
    BY <1>1, <2>1, CachesForget
<1>2. \A i \in Ids : Advances(i)
  BY DEF Advances
<1> QED
  BY <1>1, <1>2, CallStep

\* What a collection that changes no instance leaves as it was.
LEMMA HeapKeeps ==
    ASSUME SInv, IInv', Heap(obj)
    PROVE  /\ setting' = setting /\ Collected'
           /\ \A o \in Objects : o \in Referenced' => Same(o)
           /\ \A i \in Ids : entityCache'[i] # NoObject => Same(entityCache'[i])
           /\ \A o \in queryCache'.results : Same(o)
<1>1. setting' = setting /\ Collected' /\ \A o \in Objects : o \in Referenced' => Same(o)
  BY HeapCollects, HeapStep, NothingMoves DEF SInv, Same
<1>2. AllReferenced'
  BY Reachable, PTL
<1>3. /\ \A i \in Ids : entityCache'[i] # NoObject => entityCache'[i] \in Objects
      /\ \A o \in queryCache'.results : o \in Objects
  BY DEF IInv, TypeOK
<1> QED
  BY <1>1, <1>2, <1>3 DEF AllReferenced

\* findById that has to ask the database.
LEMMA FindMissKeeps == ASSUME SInv, IInv', NEW s \in Sessions, NEW i \in Ids, FindMiss(s, i) PROVE SInv'
<1>1. /\ pc[s] = "idle" /\ Calls(s) /\ Heap(obj) /\ pc' = [pc EXCEPT ![s] = "find"]
      /\ wanted' = [wanted EXCEPT ![s] = i] /\ held' = [held EXCEPT ![s] = NoObject]
      /\ UNCHANGED <<db, entityCache, queryCache, arg, fetched, todo, sent, pending>>
  BY DEF FindMiss, Calls
<1>2. OthersAlone(s) /\ pc'[s] = "find"
  BY <1>1 DEF SInv, IInv, TypeOK, OthersAlone
<1>3. Rests(s)' /\ Loaded(s)' /\ CallFresh(s)' /\ \A j : ~Untold(s, j)
  BY <1>1, <1>2 DEF Rests, Loaded, CallFresh, Untold
<1> QED
  BY <1>1, <1>2, <1>3, HeapKeeps, CallMoves

\* findAll that has to ask the database.
LEMMA FindAllMissKeeps == ASSUME SInv, IInv', NEW s \in Sessions, FindAllMiss(s) PROVE SInv'
<1>1. /\ pc[s] = "idle" /\ Calls(s) /\ Heap(obj) /\ pc' = [pc EXCEPT ![s] = "findAll"]
      /\ held' = [held EXCEPT ![s] = NoObject]
      /\ UNCHANGED <<db, entityCache, queryCache, arg, wanted, fetched, todo, sent, pending>>
  BY DEF FindAllMiss, Calls
<1>2. OthersAlone(s) /\ pc'[s] = "findAll"
  BY <1>1 DEF SInv, IInv, TypeOK, OthersAlone
<1>3. Rests(s)' /\ Loaded(s)' /\ CallFresh(s)' /\ \A j : ~Untold(s, j)
  BY <1>1, <1>2 DEF Rests, Loaded, CallFresh, Untold
<1> QED
  BY <1>1, <1>2, <1>3, HeapKeeps, CallMoves

\* A step that drops no reference and changes only instances in use.
LEMMA StillCollected ==
    ASSUME SInv, \A o \in Objects : o \in Referenced => o \in Referenced',
           \A o \in Objects : o \notin Referenced => obj'[o] = obj[o]
    PROVE  Collected'
BY DEF SInv, Collected

\* The caller changes a field of its entity.
LEMMA EditKeeps == ASSUME SInv, IInv', NEW s \in Sessions, Edit(s) PROVE SInv'
<1> PICK o : o = held[s]
  OBVIOUS
<1>1. /\ pc[s] = "idle" /\ Calls(s) /\ o # NoObject
      /\ obj' = [obj EXCEPT ![o].edits = @ \cup {s}]
      /\ UNCHANGED <<setting, db, entityCache, queryCache, pc, arg, wanted, fetched, todo, held,
                     sent, pending>>
  BY DEF Edit, Calls
<1>2. o \in Objects /\ o \in Referenced /\ obj[o] \in Entity
  BY <1>1, AtHand DEF SInv
<1>3. Referenced' = Referenced
  BY <1>1 DEF Referenced
<1>4. \A p \in Objects : Same(p) /\ (p # o => obj'[p] = obj[p])
  <2>1. obj' = [obj EXCEPT ![o] = [obj[o] EXCEPT !.edits = @ \cup {s}]]
    BY <1>1
  <2> QED
    BY <1>2, <2>1, AtHand DEF SInv, Same, SameCopy, Entity
<1>5. Collected'
  BY <1>2, <1>3, <1>4, StillCollected
<1>6. OthersAlone(s) /\ Rests(s)' /\ Loaded(s)' /\ CallFresh(s)' /\ \A j : ~Untold(s, j)
  BY <1>1 DEF SInv, OthersAlone, Rests, Loaded, CallFresh, Untold
<1>7. /\ \A i \in Ids : entityCache'[i] # NoObject => Same(entityCache'[i])
      /\ \A p \in queryCache'.results : Same(p)
  BY <1>1, <1>4, AtHand DEF SInv
<1> QED
  BY <1>1, <1>4, <1>5, <1>6, <1>7, CallMoves

\* A caller passes its entity on.
LEMMA PassCollects ==
    ASSUME SInv, NEW s \in Sessions, pc[s] = "idle", arg' = [arg EXCEPT ![s] = held[s]],
           UNCHANGED <<obj, entityCache, queryCache, fetched, held>>
    PROVE  Collected'
<1>1. arg[s] = NoObject /\ NoObject \notin Objects
  BY AtHand DEF SInv, Rests
<1>2. \A t \in Sessions : arg[t] # NoObject => arg'[t] = arg[t]
  BY <1>1 DEF SInv, IInv, TypeOK
<1>3. AllReferenced'
  BY Reachable, PTL
<1>4. ASSUME NEW o \in Objects, o \in Referenced PROVE o \in Referenced'
  <2>1. CASE o \in UNION {fetched[t] : t \in Sessions}
    BY <1>3, <2>1 DEF AllReferenced
  <2>2. CASE o \in {arg[t] : t \in Sessions}
    BY <1>1, <1>2, <1>3, <2>2 DEF AllReferenced
  <2>3. CASE o \in {held[t] : t \in Sessions} \cup {entityCache[i] : i \in Ids} \cup queryCache.results
    BY <1>3, <2>3 DEF AllReferenced
  <2> QED
    BY <1>4, <2>1, <2>2, <2>3, Zenon DEF Referenced
<1> QED
  BY <1>4, StillCollected

\* save and delete send their statement.
LEMMA SendKeeps ==
    ASSUME SInv, IInv', NEW s \in Sessions, NEW step \in {"update", "delete"}, Pass(s, step), Send(s)
    PROVE  SInv'
<1>1. /\ pc[s] = "idle" /\ Calls(s) /\ pc' = [pc EXCEPT ![s] = step]
      /\ arg' = [arg EXCEPT ![s] = held[s]]
      /\ sent' = [sent EXCEPT ![s] = [id |-> obj[held[s]].id, version |-> obj[held[s]].version,
                                      edits |-> obj[held[s]].edits]]
      /\ UNCHANGED <<setting, obj, db, entityCache, queryCache, wanted, fetched, todo, held, pending>>
  BY DEF Pass, Send, Calls
<1>2. /\ OthersAlone(s) /\ pc'[s] = step
      /\ obj'[arg'[s]].id = sent'[s].id
  BY <1>1 DEF SInv, IInv, TypeOK, OthersAlone
<1>3. Rests(s)' /\ Loaded(s)' /\ CallFresh(s)' /\ \A j : ~Untold(s, j)
  BY <1>1, <1>2 DEF Rests, Loaded, CallFresh, Untold
<1>4. Collected' /\ \A o : Same(o)
  BY <1>1, PassCollects, NothingMoves DEF SInv, Same
<1> QED
  BY <1>1, <1>2, <1>3, <1>4, CallMoves

\* save sends an UPDATE, delete a DELETE.
LEMMA SaveKeeps == ASSUME SInv, IInv', NEW s \in Sessions, Save(s) \/ Delete(s) PROVE SInv'
BY SendKeeps DEF Save, Delete

\* findAll caches one of its entities.
LEMMA FindAllPostKeeps == ASSUME SInv, IInv', NEW s \in Sessions, FindAllPost(s) PROVE SInv'
<1> PICK o \in todo[s] : todo' = [todo EXCEPT ![s] = @ \ {o}] /\ PostLoad(o)
  BY DEF FindAllPost
<1>1. /\ pc[s] = "findAllLoaded" /\ o \in fetched[s]
      /\ UNCHANGED <<db, queryCache, pc, arg, wanted, fetched, held, sent, pending>>
  BY DEF FindAllPost, SInv, IInv, LocalsOK
<1>2. o \in Objects
  BY <1>1 DEF SInv, IInv, TypeOK
<1> DEFINE h == [obj EXCEPT ![o] = Snapshotted(obj[o])]
<1>3. Heap(h) /\ entityCache' = [entityCache EXCEPT ![obj[o].id] = o]
  BY DEF PostLoad
<1>4. ASSUME Undisturbed PROVE CachesFresh'
  <2>1. Matches(obj[o]) /\ \A i : ~Untold(s, i)
    BY <1>1, <1>4 DEF SInv, CoherentCalls, CallFresh, Untold
  <2> QED
    BY <1>1, <1>2, <1>3, <1>4, <2>1, PutFresh
<1>5. /\ h \in [Objects -> Entity]
      /\ Like(o) => Clean(h[o])
      /\ \A p \in Objects \ {o} : SameCopy(obj[p], h[p]) /\ h[p] = obj[p]
      /\ h[o].tracked /\ h[o].id = obj[o].id /\ h[o].version = obj[o].version
  BY <1>2, SnapshotTaken
<1> HIDE DEF h
<1>6. /\ setting' = setting /\ Collected'
      /\ \A p \in Objects : p \in Referenced' => obj'[p] = h[p]
  BY <1>3, <1>5, HeapStep, HeapCollects
<1>7. \A p \in fetched[s] : p \in Referenced' /\ p \in Objects
  <2>1. AllReferenced'
    BY Reachable, PTL
  <2> QED
    BY <1>1, <2>1 DEF AllReferenced, SInv, IInv, TypeOK
<1>8. /\ OthersAlone(s) /\ pc'[s] = "findAllLoaded" /\ todo'[s] = todo[s] \ {o} /\ fetched'[s] = fetched[s]
      /\ todo[s] \subseteq fetched[s]
  BY <1>1 DEF SInv, IInv, TypeOK, OthersAlone, LocalsOK
<1>9. ASSUME setting.maxCalls = 1
      PROVE  /\ \A p \in Objects : p \in Referenced' => Same(p) \/ Clean(obj[p])'
             /\ Loaded(s)'
  <2>1. \A p \in todo[s] : Like(p)
    BY <1>1, <1>9 DEF SInv, CleanCalls, Loaded
  <2>2. ASSUME NEW p \in todo'[s] PROVE Like(p)'
    <3>1. obj'[p] = obj[p] /\ Like(p)
      BY <1>5, <1>6, <1>7, <1>8, <2>1
    <3> QED
      BY <1>1, <3>1 DEF Like, Matches, Live
  <2>3. ASSUME NEW p \in Objects, p \in Referenced' PROVE Same(p) \/ Clean(obj[p])'
    <3>1. CASE p = o
      <4>1. Clean(h[o]) /\ obj'[p] = h[o]
        BY <1>5, <1>6, <2>1, <2>3, <3>1
      <4> QED
        BY <1>1, <4>1 DEF Clean, Matches, Live
    <3>2. CASE p # o
      BY <1>5, <1>6, <2>3, <3>2 DEF Same
    <3> QED
      BY <3>1, <3>2
  <2> QED
    BY <1>8, <2>2, <2>3 DEF Loaded
<1>10. ASSUME Undisturbed PROVE CallFresh(s)'
  <2>1. /\ \A p \in fetched[s] : Matches(obj[p]) /\ (p \in todo[s] \/ obj[p].tracked)
        /\ \A i \in Ids : Live(i) => \E p \in fetched[s] : obj[p].id = i
    BY <1>1, <1>10 DEF SInv, CoherentCalls, CallFresh
  <2>2. \A p \in fetched[s] : obj'[p].id = obj[p].id /\ obj'[p].version = obj[p].version
    BY <1>2, <1>5, <1>6, <1>7
  <2>3. ASSUME NEW p \in fetched[s] PROVE Matches(obj[p])' /\ (p \in todo'[s] \/ obj'[p].tracked)
    <3>1. Matches(obj[p])'
      BY <1>1, <2>1, <2>2 DEF Matches, Live
    <3>2. CASE p = o
      BY <1>5, <1>6, <1>7, <3>1, <3>2
    <3>3. CASE p # o
      BY <1>5, <1>6, <1>7, <1>8, <2>1, <3>1, <3>3
    <3> QED
      BY <3>2, <3>3
  <2>4. ASSUME NEW i \in Ids, Live(i)' PROVE \E p \in fetched[s] : obj'[p].id = i
    <3>1. Live(i)
      BY <1>1, <2>4 DEF Live
    <3> QED
      BY <2>1, <2>2, <3>1
  <2> QED
    BY <1>8, <2>3, <2>4 DEF CallFresh
<1>11. Rests(s)' /\ \A i \in Ids : Advances(i)
  BY <1>1, <1>8 DEF Rests, Advances
<1> QED
  BY <1>1, <1>4, <1>6, <1>8, <1>9, <1>10, <1>11, CallStep

\* A call that has built instances from rows as they are.
LEMMA ReadKeeps ==
    ASSUME SInv, IInv', NEW s \in Sessions, pc[s] # "idle", \A i : ~Untold(s, i),
           NEW built \in SUBSET Objects, NEW rowOf \in [built -> Ids],
           \A o \in built : o \notin Referenced /\ Live(rowOf[o]),
           Heap([o \in Objects |-> IF o \in built THEN Mapped(rowOf[o], db[rowOf[o]]) ELSE obj[o]]),
           OthersAlone(s), pc'[s] # "idle", fetched'[s] = built,
           UNCHANGED <<db, entityCache, queryCache, pending>>,
           (/\ \A o \in built : obj'[o] = Mapped(rowOf[o], db[rowOf[o]])
            /\ \A o \in Objects : o \in Referenced' /\ o \notin built => obj'[o] = obj[o])
           => (/\ setting.maxCalls = 1 => Loaded(s)'
               /\ Undisturbed => CallFresh(s)')
    PROVE  SInv'
<1> DEFINE h == [o \in Objects |-> IF o \in built THEN Mapped(rowOf[o], db[rowOf[o]]) ELSE obj[o]]
<1>1. h \in [Objects -> Entity]
  BY MappedSettled, AtHand DEF SInv, IInv
<1>2. /\ setting' = setting /\ Collected'
      /\ \A o \in Objects : o \in Referenced' => obj'[o] = h[o]
  BY <1>1, HeapStep, HeapCollects
<1>3. AllReferenced' /\ AllReferenced
  BY Reachable, PTL
<1>4. \A o \in built : obj'[o] = Mapped(rowOf[o], db[rowOf[o]])
  BY <1>2, <1>3 DEF AllReferenced
<1>5. \A o \in Objects : o \in Referenced' /\ o \notin built => obj'[o] = obj[o]
  BY <1>2
<1>6. \A o \in built : ~obj'[o].tracked
  BY <1>4 DEF Mapped
<1>7. ASSUME NEW o \in Objects, o \in Referenced' PROVE Same(o) \/ Clean(obj[o])'
  BY <1>5, <1>6, <1>7 DEF Same, SameCopy, Clean
<1>8. \A o \in Objects : o \in Referenced /\ o \in Referenced' => Same(o)
  BY <1>5, NothingMoves DEF SInv, Same
<1>9. /\ \A i \in Ids : entityCache'[i] # NoObject => Same(entityCache'[i])
      /\ \A o \in queryCache'.results : Same(o)
  <2>1. /\ \A i \in Ids : entityCache[i] # NoObject => entityCache[i] \in Objects
        /\ \A o \in queryCache.results : o \in Objects
    BY AtHand DEF SInv
  <2> QED
    BY <1>3, <1>8, <2>1 DEF AllReferenced
<1>10. Rests(s)'
  BY DEF Rests
<1> QED
  BY <1>2, <1>4, <1>5, <1>7, <1>9, <1>10, CallMoves

\* What was just mapped from a row is like the row.
LEMMA MappedLike ==
    ASSUME UNCHANGED db, NEW o, NEW i, Live(i), obj'[o] = Mapped(i, db[i])
    PROVE  Like(o)' /\ Matches(obj[o])' /\ obj'[o].id = i
<1> PICK e : e = obj'[o]
  OBVIOUS
<1>1. e.id = i /\ e.version = db[i].version /\ e.edits = db[i].edits
  BY DEF Mapped
<1> QED
  BY <1>1 DEF Like, Matches, Live

\* findById builds an instance from the row.
LEMMA FindReadKeeps == ASSUME SInv, IInv', NEW s \in Sessions, FindRead(s) PROVE SInv'
<1>1. /\ pc[s] = "find" /\ UNCHANGED <<db, entityCache, queryCache, pending>>
      /\ \A i : ~Untold(s, i)
  BY DEF FindRead, Untold
<1>2. CASE Return(s, NoObject) /\ Heap(obj)
  BY <1>1, <1>2, NothingDoneKeeps
<1>3. ASSUME Live(wanted[s]), NEW o \in Allocate(1),
             fetched' = [fetched EXCEPT ![s] = {o}], todo' = [todo EXCEPT ![s] = {o}],
             pc' = [pc EXCEPT ![s] = "findLoaded"], UNCHANGED <<arg, wanted, held, sent>>,
             Heap([obj EXCEPT ![o] = Mapped(wanted[s], db[wanted[s]])])
      PROVE  SInv'
  <2>1. o \in Objects /\ o \notin Referenced /\ wanted[s] \in Ids
    BY <1>1, Allocated DEF SInv, IInv, LocalsOK
  <2> DEFINE rowOf == [p \in {o} |-> wanted[s]]
  <2>2. [obj EXCEPT ![o] = Mapped(wanted[s], db[wanted[s]])]
          = [p \in Objects |-> IF p \in {o} THEN Mapped(rowOf[p], db[rowOf[p]]) ELSE obj[p]]
    BY <2>1, AtHand DEF SInv
  <2>3. /\ OthersAlone(s) /\ pc'[s] = "findLoaded" /\ fetched'[s] = {o} /\ todo'[s] = {o}
    BY <1>1, <1>3, <2>1 DEF SInv, IInv, TypeOK, OthersAlone
  <2>4. ASSUME obj'[o] = Mapped(wanted[s], db[wanted[s]]) PROVE Loaded(s)' /\ CallFresh(s)'
    <3>1. Like(o)' /\ Matches(obj[o])'
      BY <1>1, <1>3, <2>4, MappedLike
    <3> QED
      BY <2>3, <3>1 DEF Loaded, CallFresh
  <2>5. rowOf \in [{o} -> Ids] /\ rowOf[o] = wanted[s] /\ \A p \in {o} : p \notin Referenced /\ Live(rowOf[p])
    BY <1>3, <2>1
  <2>6. Heap([p \in Objects |-> IF p \in {o} THEN Mapped(rowOf[p], db[rowOf[p]]) ELSE obj[p]])
    BY <1>3, <2>2
  <2> HIDE DEF rowOf
  <2> QED
    BY <1>1, <2>1, <2>3, <2>4, <2>5, <2>6, ReadKeeps
<1> QED
  BY <1>2, <1>3 DEF FindRead

\* findAll builds an instance from every row.
LEMMA FindAllReadKeeps == ASSUME SInv, IInv', NEW s \in Sessions, FindAllRead(s) PROVE SInv'
<1> PICK built : built = Allocate(Cardinality({i \in Ids : Live(i)}))
  OBVIOUS
<1> PICK rowOf \in RowsInOrder(built) :
        Heap([o \in Objects |-> IF o \in built THEN Mapped(rowOf[o], db[rowOf[o]]) ELSE obj[o]])
  BY DEF FindAllRead
<1>1. /\ pc[s] = "findAll" /\ fetched' = [fetched EXCEPT ![s] = built]
      /\ todo' = [todo EXCEPT ![s] = built] /\ pc' = [pc EXCEPT ![s] = "findAllLoaded"]
      /\ UNCHANGED <<db, entityCache, queryCache, arg, wanted, held, sent, pending>>
      /\ \A i : ~Untold(s, i)
  BY DEF FindAllRead, Untold
<1>2. built \in SUBSET Objects /\ \A o \in built : o \notin Referenced
  BY Allocated
<1>3. /\ rowOf \in [built -> Ids] /\ \A o \in built : Live(rowOf[o])
      /\ \A i \in Ids : Live(i) => \E o \in built : rowOf[o] = i
  BY DEF RowsInOrder
<1>4. OthersAlone(s) /\ pc'[s] = "findAllLoaded" /\ fetched'[s] = built /\ todo'[s] = built
  BY <1>1, <1>2 DEF SInv, IInv, TypeOK, OthersAlone
<1>5. ASSUME \A o \in built : obj'[o] = Mapped(rowOf[o], db[rowOf[o]])
      PROVE  Loaded(s)' /\ CallFresh(s)'
  <2>1. ASSUME NEW o \in built PROVE Like(o)' /\ Matches(obj[o])' /\ obj'[o].id = rowOf[o]
    <3> PICK i : i = rowOf[o]
      OBVIOUS
    <3>1. Live(i) /\ obj'[o] = Mapped(i, db[i])
      BY <1>3, <1>5
    <3> QED
      BY <1>1, <3>1, MappedLike
  <2>2. ASSUME NEW i \in Ids, Live(i)' PROVE \E o \in built : obj'[o].id = i
    <3>1. Live(i)
      BY <1>1, <2>2 DEF Live
    <3> QED
      BY <1>3, <2>1, <3>1
  <2> QED
    BY <1>4, <2>1, <2>2 DEF Loaded, CallFresh
<1> QED
  BY <1>1, <1>2, <1>3, <1>4, <1>5, ReadKeeps

\* refresh builds an instance from the row.
LEMMA RefreshReadKeeps == ASSUME SInv, IInv', NEW s \in Sessions, RefreshRead(s) PROVE SInv'
<1> PICK i : i = obj[arg[s]].id
  OBVIOUS
<1>1. /\ pc[s] = "refresh" /\ UNCHANGED <<db, entityCache, queryCache, pending>>
      /\ \A j : ~Untold(s, j)
  BY DEF RefreshRead, Untold
<1>2. CASE Return(s, held[s]) /\ Heap(obj)
  BY <1>1, <1>2, NothingDoneKeeps
<1>3. ASSUME Live(i), NEW o \in Allocate(1), fetched' = [fetched EXCEPT ![s] = {o}],
             pc' = [pc EXCEPT ![s] = "refreshLoaded"], UNCHANGED <<arg, wanted, todo, held, sent>>,
             Heap([obj EXCEPT ![o] = Mapped(i, db[i])])
      PROVE  SInv'
  <2>1. /\ o \in Objects /\ o \notin Referenced /\ i \in Ids /\ arg[s] \in Objects /\ arg[s] # o
    BY <1>1, Allocated, AtHand DEF SInv, IInv, LocalsOK, RootsSettled, Settled
  <2> DEFINE rowOf == [p \in {o} |-> i]
  <2>2. [obj EXCEPT ![o] = Mapped(i, db[i])]
          = [p \in Objects |-> IF p \in {o} THEN Mapped(rowOf[p], db[rowOf[p]]) ELSE obj[p]]
    BY <2>1, AtHand DEF SInv
  <2>3. /\ OthersAlone(s) /\ pc'[s] = "refreshLoaded" /\ fetched'[s] = {o} /\ arg'[s] = arg[s]
    BY <1>1, <1>3, <2>1 DEF SInv, IInv, TypeOK, OthersAlone
  <2>4. arg[s] \in Referenced'
    <3>1. AllReferenced'
      BY Reachable, PTL
    <3> QED
      BY <2>3, <3>1 DEF AllReferenced
  <2>5. ASSUME obj'[o] = Mapped(i, db[i]), obj'[arg[s]] = obj[arg[s]]
        PROVE  /\ setting.maxCalls = 1 => Loaded(s)'
               /\ Undisturbed => CallFresh(s)'
    <3>1. Like(o)' /\ Matches(obj[o])'
      BY <1>1, <1>3, <2>5, MappedLike
    <3>2. setting.maxCalls = 1 => ~obj'[arg'[s]].tracked
      BY <1>1, <2>3, <2>5 DEF SInv, CleanCalls, Loaded
    <3>3. Undisturbed => NotCached(i)
      BY <1>1 DEF SInv, CoherentCalls, CallFresh, NotCached
    <3>4. Undisturbed => entityCache'[obj'[arg'[s]].id] = NoObject /\ ~queryCache'.cached
      BY <1>1, <2>3, <2>5, <3>3 DEF NotCached
    <3> QED
      BY <2>3, <3>1, <3>2, <3>4 DEF Loaded, CallFresh, NotCached
  <2>6. rowOf \in [{o} -> Ids] /\ rowOf[o] = i /\ \A p \in {o} : p \notin Referenced /\ Live(rowOf[p])
    BY <1>3, <2>1
  <2>7. Heap([p \in Objects |-> IF p \in {o} THEN Mapped(rowOf[p], db[rowOf[p]]) ELSE obj[p]])
    BY <1>3, <2>2
  <2> HIDE DEF rowOf
  <2> QED
    BY <1>1, <2>1, <2>3, <2>4, <2>5, <2>6, <2>7, ReadKeeps
<1> QED
  BY <1>2, <1>3 DEF RefreshRead

\* refresh clears the caches and the snapshot first.
LEMMA RefreshCallKeeps == ASSUME SInv, IInv', NEW s \in Sessions, RefreshCall(s) PROVE SInv'
<1> PICK o : o = held[s]
  OBVIOUS
<1> DEFINE h == [obj EXCEPT ![o] = [obj[o] EXCEPT !.tracked = FALSE, !.snapshot = {}]]
<1>1. /\ pc[s] = "idle" /\ Calls(s) /\ o # NoObject /\ pc' = [pc EXCEPT ![s] = "refresh"]
      /\ arg' = [arg EXCEPT ![s] = o] /\ Evict(obj[o].id) /\ Invalidate
      /\ UNCHANGED <<db, wanted, fetched, todo, held, pending, sent>>
      /\ Heap([obj EXCEPT ![o].tracked = FALSE, ![o].snapshot = {}])
      /\ \A i : ~Untold(s, i)
  BY DEF RefreshCall, Pass, Calls, Untold
<1>2. o \in Objects /\ obj[o] \in Entity /\ obj[o].id \in Ids
  BY <1>1, AtHand DEF SInv, IInv, RootsSettled, Settled
<1>3. [obj EXCEPT ![o].tracked = FALSE, ![o].snapshot = {}] = h
  BY <1>2, AtHand DEF SInv
<1>4. /\ h \in [Objects -> Entity] /\ Heap(h)
      /\ \A p \in Objects : IF p = o THEN ~h[p].tracked /\ h[p].id = obj[p].id ELSE h[p] = obj[p]
  <2>1. h \in [Objects -> Entity]
    BY <1>2, AtHand DEF SInv, Entity
  <2> QED
    BY <1>1, <1>2, <1>3, <2>1, AtHand DEF SInv, Entity
<1> HIDE DEF h
<1>5. /\ setting' = setting /\ Collected' /\ AllReferenced'
      /\ \A p \in Objects : p \in Referenced' => obj'[p] = h[p]
  <2>1. AllReferenced'
    BY Reachable, PTL
  <2> QED
    BY <1>4, <2>1, HeapStep, HeapCollects
<1>6. OthersAlone(s) /\ pc'[s] = "refresh" /\ arg'[s] = o /\ Rests(s)'
  BY <1>1, <1>2 DEF SInv, IInv, TypeOK, OthersAlone, Rests
<1>7. o \in Referenced' /\ ~obj'[o].tracked /\ obj'[o].id = obj[o].id
  <2>1. o \in Referenced'
    BY <1>5, <1>6 DEF AllReferenced
  <2> QED
    BY <1>2, <1>4, <1>5, <2>1
<1>8. /\ \A j \in Ids : entityCache'[j] = IF j = obj[o].id THEN NoObject ELSE entityCache[j]
      /\ \A j \in Ids : entityCache'[j] # NoObject =>
             entityCache'[j] \in Objects /\ obj[entityCache'[j]].id = j
      /\ queryCache' = NoResult /\ queryCache'.results = {} /\ ~queryCache'.cached
  BY <1>1, Evicted, AtHand DEF SInv, Invalidate, NoResult
<1>9. Loaded(s)' /\ CallFresh(s)'
  BY <1>2, <1>6, <1>7, <1>8 DEF Loaded, CallFresh, NotCached
<1>10. \A p \in Objects : p \in Referenced' => Same(p) \/ Clean(obj[p])'
  BY <1>4, <1>5, <1>7 DEF Same, SameCopy, Clean
<1>11. ASSUME NEW j \in Ids, entityCache'[j] # NoObject PROVE Same(entityCache'[j])
  <2> PICK p : p = entityCache'[j]
    OBVIOUS
  <2>1. p \in Objects /\ p # o /\ p \in Referenced'
    BY <1>5, <1>8, <1>11 DEF AllReferenced
  <2> QED
    BY <1>4, <1>5, <2>1 DEF Same, SameCopy
<1> QED
  BY <1>1, <1>5, <1>6, <1>8, <1>9, <1>10, <1>11, CallMoves

\* refresh copies the row it has read into the entity.
LEMMA RefreshCopyKeeps == ASSUME SInv, IInv', NEW s \in Sessions, RefreshCopy(s) PROVE SInv'
<1> PICK a : a = arg[s]
  OBVIOUS
<1> PICK o \in fetched[s] :
        Heap([obj EXCEPT ![a].version = obj[o].version, ![a].edits = obj[o].edits, ![a].refused = FALSE])
  BY DEF RefreshCopy
<1> DEFINE h == [obj EXCEPT ![a] = [obj[a] EXCEPT !.version = obj[o].version, !.edits = obj[o].edits,
                                                  !.refused = FALSE]]
<1>1. /\ pc[s] = "refreshLoaded" /\ fetched' = [fetched EXCEPT ![s] = {}]
      /\ pc' = [pc EXCEPT ![s] = "refreshCopied"]
      /\ UNCHANGED <<db, entityCache, queryCache, arg, wanted, todo, held, sent, pending>>
      /\ \A i : ~Untold(s, i)
  BY DEF RefreshCopy, Untold
<1>2. /\ a \in Objects /\ obj[a] \in Entity /\ a \in Roots
      /\ o \in Objects /\ obj[o] \in Entity /\ obj[o].id = obj[a].id
  BY <1>1, AtHand DEF SInv, IInv, LocalsOK
<1>3. [obj EXCEPT ![a].version = obj[o].version, ![a].edits = obj[o].edits, ![a].refused = FALSE] = h
  BY <1>2, AtHand DEF SInv
<1>4. /\ h \in [Objects -> Entity] /\ Heap(h)
      /\ \A p \in Objects : IF p = a THEN /\ h[p].id = obj[o].id /\ h[p].version = obj[o].version
                                          /\ h[p].edits = obj[o].edits /\ h[p].tracked = obj[p].tracked
                            ELSE h[p] = obj[p]
  <2>1. h \in [Objects -> Entity]
    BY <1>2, AtHand DEF SInv, Entity
  <2> QED
    BY <1>2, <1>3, <2>1, AtHand DEF SInv, Entity
<1> HIDE DEF h
<1>5. /\ setting' = setting /\ Collected' /\ AllReferenced'
      /\ \A p \in Objects : p \in Referenced' => obj'[p] = h[p]
  <2>1. AllReferenced'
    BY Reachable, PTL
  <2> QED
    BY <1>4, <2>1, HeapStep, HeapCollects
<1>6. OthersAlone(s) /\ pc'[s] = "refreshCopied" /\ arg'[s] = a /\ Rests(s)'
  BY <1>1, <1>2 DEF SInv, IInv, TypeOK, OthersAlone, Rests
<1>7. /\ a \in Referenced' /\ obj'[a].id = obj[o].id /\ obj'[a].version = obj[o].version
      /\ obj'[a].edits = obj[o].edits /\ obj'[a].tracked = obj[a].tracked
  <2>1. a \in Referenced'
    BY <1>5, <1>6 DEF AllReferenced
  <2> QED
    BY <1>2, <1>4, <1>5, <2>1
<1>8. ASSUME setting.maxCalls = 1 PROVE Loaded(s)' /\ ~obj'[a].tracked
  <2>1. Like(o) /\ ~obj[a].tracked
    BY <1>1, <1>8 DEF SInv, CleanCalls, Loaded
  <2>2. Like(arg[s])'
    BY <1>1, <1>6, <1>7, <2>1 DEF Like, Matches, Live
  <2> QED
    BY <1>6, <1>7, <2>1, <2>2 DEF Loaded
<1>9. ASSUME Undisturbed PROVE CallFresh(s)' /\ entityCache[obj[a].id] = NoObject /\ ~queryCache.cached
  <2>1. Matches(obj[o]) /\ NotCached(obj[a].id)
    BY <1>1, <1>9 DEF SInv, CoherentCalls, CallFresh, NotCached
  <2>2. Matches(obj[arg[s]])'
    BY <1>1, <1>6, <1>7, <2>1 DEF Matches, Live
  <2>3. NotCached(obj[arg[s]].id)'
    BY <1>1, <1>2, <1>6, <1>7, <2>1 DEF NotCached
  <2> QED
    BY <1>6, <2>1, <2>2, <2>3 DEF CallFresh, NotCached
<1>10. \A p \in Objects : p \in Referenced' /\ p # a => Same(p)
  BY <1>4, <1>5 DEF Same, SameCopy
<1>11. ASSUME setting.maxCalls = 1, NEW p \in Objects, p \in Referenced' PROVE Same(p) \/ Clean(obj[p])'
  BY <1>8, <1>10, <1>11 DEF Clean
<1>12. ASSUME Undisturbed
       PROVE  /\ \A j \in Ids : entityCache'[j] # NoObject => Same(entityCache'[j])
              /\ \A p \in queryCache'.results : Same(p)
  <2>1. queryCache.results = {}
    BY <1>9, <1>12 DEF SInv, CoherentCalls, CachesFresh
  <2>2. ASSUME NEW j \in Ids, entityCache'[j] # NoObject PROVE Same(entityCache'[j])
    <3> PICK p : p = entityCache[j]
      OBVIOUS
    <3>1. p \in Objects /\ p \in Referenced' /\ obj[p].id = j
      BY <1>1, <1>5, <2>2, AtHand DEF AllReferenced, SInv
    <3>2. p # a
      BY <1>1, <1>9, <1>12, <2>2, <3>1
    <3> QED
      BY <1>1, <1>10, <3>1, <3>2
  <2> QED
    BY <1>1, <2>1, <2>2
<1> QED
  BY <1>1, <1>5, <1>6, <1>8, <1>9, <1>11, <1>12, CallMoves

\* An INSERT or UPDATE has run: the caches know nothing of it yet.
LEMMA WrittenKeeps ==
    ASSUME SInv, IInv', NEW s \in Sessions, NEW i \in Ids, NEW row \in Row, row.version > 0,
           pc[s] \in {"idle", "update"}, Calls(s) \/ pc[s] # "idle",
           UNCHANGED arg, Written(s, i, row), ~Locked(i),
           db[i] = Unborn \/ (Live(i) /\ row.version > db[i].version)
    PROVE  SInv'
<1>1. /\ OthersAlone(s) /\ UNCHANGED <<setting, entityCache, queryCache>>
      /\ pc'[s] = "saved" /\ ~Uncommitted(s) /\ \A j : ~Untold(s, j)
      /\ \A j \in Ids : Advances(j) /\ (j # i => db'[j] = db[j])
      /\ \A t \in Sessions : Uncommitted(t) => db'[pending[t].id] = db[pending[t].id]
      /\ IF setting.cascades
         THEN UNCHANGED db /\ pending'[s] = [id |-> i, row |-> row] /\ Uncommitted(s)'
         ELSE UNCHANGED pending /\ db'[i] = row
  BY WrittenEffect DEF SInv, Untold
<1> PICK saved \in Objects : Built(s, saved, i, row)
  BY WrittenEffect DEF SInv
<1>9. /\ fetched'[s] = {saved} /\ saved \notin Referenced /\ obj'[saved] = Mapped(i, row)
      /\ \A o \in Objects \ {saved} : o \in Referenced' => obj'[o] = obj[o]
  BY DEF Built
<1>2. /\ obj'[saved].id = i /\ obj'[saved].version = row.version
      /\ obj'[saved].edits = row.edits /\ ~obj'[saved].tracked
  BY <1>9 DEF Mapped
<1>3. Collected'
  BY HeapCollects DEF Written
<1>4. \A o \in Objects : o \in Referenced' => Same(o) \/ Clean(obj[o])'
  BY <1>2, <1>9, NothingMoves DEF SInv, Same, SameCopy, Clean
<1>5. /\ saved \in Referenced'
      /\ \A j \in Ids : entityCache[j] # NoObject => Same(entityCache[j])
      /\ \A o \in queryCache.results : Same(o)
  <2>1. AllReferenced' /\ AllReferenced
    BY Reachable, PTL
  <2>2. ASSUME NEW o \in Roots, o \in Referenced' PROVE Same(o)
    <3>1. o \in Objects /\ o # saved
      BY <1>9, AtHand DEF SInv
    <3> QED
      BY <1>9, <2>2, <3>1, NothingMoves DEF SInv, Same
  <2>3. /\ \A j \in Ids : entityCache[j] \in Referenced'
        /\ \A o \in queryCache.results : o \in Referenced'
        /\ saved \in Referenced'
    BY <1>1, <1>9, <2>1 DEF AllReferenced
  <2> QED
    BY <2>2, <2>3, AtHand DEF SInv
<1>6. Loaded(s)'
  <2>1. CASE setting.cascades
    <3>1. obj'[saved].edits = pending'[s].row.edits /\ Uncommitted(s)'
      BY <1>1, <1>2, <2>1
    <3> QED
      BY <1>1, <1>9, <3>1 DEF Loaded
  <2>2. CASE ~setting.cascades
    <3>1. Like(saved)'
      BY <1>1, <1>2, <2>2 DEF Like
    <3>2. ~Uncommitted(s)'
      BY <1>1, <2>2 DEF Uncommitted
    <3> QED
      BY <1>1, <1>9, <3>1, <3>2 DEF Loaded
  <2> QED
    BY <2>1, <2>2
<1>7. CallFresh(s)' /\ Rests(s)'
  BY <1>1 DEF CallFresh, Rests
<1>8. ASSUME Undisturbed PROVE CachesFresh'
  <2>1. \A j : ~Changed(j)
    BY <1>1, <1>8, Quiet DEF Undisturbed
  <2>2. CASE setting.cascades
    BY <1>1, <1>5, <1>8, <2>1, <2>2, CachesForget
  <2>3. CASE ~setting.cascades
    <3>1. ~Uncommitted(s)'
      BY <1>1, <2>3 DEF Uncommitted
    <3>2. Untold(s, i)'
      BY <1>1, <1>2, <1>9, <3>1 DEF Untold
    <3>3. Changed(i)'
      BY <3>2 DEF Changed
    <3> QED
      BY <1>1, <1>5, <1>8, <2>1, <3>3, CachesUntold
  <2> QED
    BY <2>2, <2>3
<1> QED
  BY <1>1, <1>3, <1>4, <1>6, <1>7, <1>8, CallStep

\* The UPDATE of save.
LEMMA UpdateKeeps == ASSUME SInv, IInv', NEW s \in Sessions, Update(s) PROVE SInv'
<1> PICK i, v, e : i = sent[s].id /\ v = sent[s].version /\ e = sent[s].edits
  OBVIOUS
<1>1. /\ pc[s] = "update" /\ ~Locked(i) /\ Live(i) /\ db[i].version = v /\ UNCHANGED arg
      /\ Written(s, i, [version |-> v + 1, edits |-> e])
  BY DEF Update, Matches
<1>2. i \in Ids /\ v \in Nat /\ e \subseteq Writers
  BY <1>1 DEF SInv, IInv, TypeOK, LocalsOK, Settled
<1>3. [version |-> v + 1, edits |-> e] \in Row
  BY <1>2 DEF Row
<1> QED
  BY <1>1, <1>2, <1>3, WrittenKeeps

\* The INSERT of save.
LEMMA InsertKeeps == ASSUME SInv, IInv', NEW s \in Sessions, Insert(s) PROVE SInv'
<1> PICK i \in Ids : /\ db[i] = Unborn /\ ~Locked(i) /\ UNCHANGED arg
                     /\ Written(s, i, [version |-> 1, edits |-> {}])
  BY DEF Insert
<1>1. pc[s] = "idle" /\ Calls(s) /\ [version |-> 1, edits |-> {}] \in Row
  BY DEF Insert, Calls, Row
<1> QED
  BY <1>1, WrittenKeeps

\* save takes the snapshot and tells the caches.
LEMMA SavePostKeeps == ASSUME SInv, IInv', NEW s \in Sessions, SavePost(s) PROVE SInv'
<1> PICK saved \in fetched[s] :
        /\ Evict(obj[saved].id)
        /\ IF setting.cascades
           THEN /\ pc' = [pc EXCEPT ![s] = "commit"]
                /\ UNCHANGED <<arg, wanted, fetched, todo, held, sent>>
           ELSE \E o \in {saved, held[s]} : Return(s, o)
        /\ Heap([obj EXCEPT ![saved] = Snapshotted(obj[saved])])
  BY DEF SavePost
<1> DEFINE h == [obj EXCEPT ![saved] = Snapshotted(obj[saved])]
<1>1. pc[s] = "saved" /\ Invalidate /\ UNCHANGED <<db, pending>> /\ Heap(h)
  BY DEF SavePost
<1>2. saved \in Objects /\ held[s] \in Objects \cup {NoObject}
  BY DEF SInv, IInv, TypeOK
<1>3. /\ h \in [Objects -> Entity]
      /\ h[saved].id = obj[saved].id /\ h[saved].version = obj[saved].version
      /\ h[saved].snapshot = obj[saved].edits
      /\ \A p \in Objects \ {saved} : SameCopy(obj[p], h[p])
      /\ Like(saved) => Clean(h[saved])
  BY <1>2, SnapshotTaken
<1> HIDE DEF h
<1>4. ASSUME setting.maxCalls = 1
      PROVE  /\ \A o \in fetched[s] : o = saved
             /\ IF Uncommitted(s) THEN obj[saved].edits = pending[s].row.edits ELSE Like(saved)
  BY <1>1, <1>4 DEF SInv, CleanCalls, Loaded
<1>5. /\ \A j \in Ids : entityCache'[j] = IF j = obj[saved].id THEN NoObject ELSE entityCache[j]
      /\ \A j \in Ids : entityCache'[j] # NoObject =>
             entityCache'[j] \in Objects /\ obj[entityCache'[j]].id = j
      /\ queryCache' = NoResult /\ queryCache'.results = {} /\ ~queryCache'.cached
  BY <1>1, Evicted, AtHand DEF SInv, Invalidate, NoResult
<1>6. ASSUME NEW j \in Ids, entityCache'[j] # NoObject
      PROVE  entityCache'[j] \in Objects /\ SameCopy(obj[entityCache'[j]], h[entityCache'[j]])
  <2> PICK p : p = entityCache'[j]
    OBVIOUS
  <2>1. p \in Objects /\ p # saved
    BY <1>5, <1>6
  <2> QED
    BY <1>3, <2>1
<1>7. ASSUME Undisturbed, NEW j \in Ids, Untold(s, j) PROVE ~Uncommitted(s) /\ j = obj[saved].id
  BY <1>1, <1>4, <1>7 DEF Untold, Undisturbed
<1>8. CASE ~setting.cascades
  <2>1. ~Uncommitted(s)
    BY <1>8, Types DEF SInv, IInv
  <2> PICK r \in {saved, held[s]} : Return(s, r)
    BY <1>8
  <2>2. r \in Objects \cup {NoObject}
    BY <1>2
  <2>3. ASSUME NEW p \in Objects PROVE SameCopy(obj[p], h[p]) \/ (setting.maxCalls = 1 => Clean(h[p]))
    BY <1>3, <1>4, <2>1
  <2> QED
    BY <1>1, <1>3, <1>5, <1>6, <1>7, <2>2, <2>3, CallForgets
<1>9. CASE setting.cascades
  <2> PICK i, row : i = pending[s].id /\ row = pending[s].row
    OBVIOUS
  <2>1. Uncommitted(s)
    BY <1>1, <1>9, Types DEF SInv, IInv, TypeOK, Uncommitted, NotPending
  <2>2. /\ pc' = [pc EXCEPT ![s] = "commit"]
        /\ UNCHANGED <<arg, wanted, fetched, todo, held, sent, pending>>
    BY <1>1, <1>9
  <2>3. OthersAlone(s) /\ pc'[s] = "commit" /\ Rests(s)'
    BY <1>1, <2>2 DEF SInv, IInv, TypeOK, OthersAlone, Rests
  <2>4. /\ setting' = setting /\ Collected' /\ AllReferenced'
        /\ \A p \in Objects : p \in Referenced' => obj'[p] = h[p]
    <3>1. AllReferenced'
      BY Reachable, PTL
    <3> QED
      BY <1>1, <1>3, <3>1, HeapStep, HeapCollects
  <2>5. obj'[saved] = h[saved]
    BY <1>2, <2>2, <2>4 DEF AllReferenced
  <2>6. /\ i \in Ids /\ obj[saved].id = i /\ obj[saved].version = row.version /\ row.version \in Int
        /\ db[i] = Unborn \/ row.version > db[i].version
        /\ db[i].version \in Int /\ row.version > 0
    <3>1. IInv /\ TypeOK /\ PendingOK(s)
      BY DEF SInv, IInv
    <3>2. /\ i \in Ids /\ row.version > 0
          /\ \/ db[i] = Unborn
             \/ row.version > db[i].version
          /\ obj[saved].id = i /\ obj[saved].version = row.version
      BY <2>1, <3>1 DEF PendingOK
    <3>3. row.version \in Int
      BY <3>1 DEF TypeOK, Row
    <3>4. db[i].version \in Int
      BY <3>1, <3>2, Types
    <3> QED
      BY <3>2, <3>3, <3>4
  <2>7. Clean(obj[saved])'
    BY <1>1, <1>3, <2>5, <2>6 DEF Clean, Matches, Live, Unborn
  <2>8. \A p \in Objects : p \in Referenced' => Same(p) \/ Clean(obj[p])'
    BY <1>3, <2>4, <2>7 DEF Same
  <2>9. setting.maxCalls = 1 => Loaded(s)'
    BY <1>1, <1>3, <1>4, <2>1, <2>2, <2>3, <2>5 DEF Loaded
  <2>10. CallFresh(s)'
    <3>1. NotCached(pending[s].id)'
      BY <1>1, <1>5, <2>6 DEF NotCached
    <3> QED
      BY <2>3, <3>1 DEF CallFresh
  <2>11. ASSUME NEW j \in Ids, entityCache'[j] # NoObject PROVE Same(entityCache'[j])
    <3>1. entityCache'[j] \in Referenced'
      BY <2>4 DEF AllReferenced
    <3> QED
      BY <1>6, <2>4, <2>11, <3>1 DEF Same
  <2> QED
    BY <1>1, <1>5, <1>7, <2>1, <2>3, <2>4, <2>8, <2>9, <2>10, <2>11, CallMoves
<1> QED
  BY <1>8, <1>9

\* The transaction of a save is committed: the row is what the snapshot says.
LEMMA CommitKeeps == ASSUME SInv, IInv', NEW s \in Sessions, Commit(s) PROVE SInv'
<1> PICK r \in fetched[s] \cup {held[s]} : Return(s, r)
  BY DEF Commit
<1> PICK i, row : i = pending[s].id /\ row = pending[s].row
  OBVIOUS
<1>1. /\ pc[s] = "commit" /\ db' = [db EXCEPT ![i] = row] /\ Heap(obj)
      /\ pending' = [pending EXCEPT ![s] = NotPending] /\ UNCHANGED <<entityCache, queryCache>>
      /\ \A j : ~Untold(s, j)
  BY DEF Commit, Untold
<1>2. r \in Objects \cup {NoObject}
  BY DEF SInv, IInv, TypeOK
<1>3. CASE ~Uncommitted(s)
  <2>1. pending[s] = NotPending /\ i \notin Ids
    BY <1>3, Types DEF Uncommitted, NotPending, SInv, IInv
  <2>2. UNCHANGED <<db, pending>>
    BY <1>1, <2>1 DEF SInv, IInv, TypeOK
  <2> QED
    BY <1>1, <1>2, <2>2, NothingMoves, CallForgets DEF SInv
<1>4. CASE Uncommitted(s)
  <2>1. /\ i \in Ids /\ row \in Row /\ row.version > 0 /\ row.version \in Int
        /\ db[i] = Unborn \/ (Live(i) /\ row.version > db[i].version)
        /\ \A o \in fetched[s] : obj[o].id = i /\ obj[o].version = row.version
        /\ \A t \in Sessions \ {s} : Uncommitted(t) => pending[t].id \in Ids /\ pending[t].id # i
    BY <1>4 DEF SInv, IInv, PendingOK, TypeOK, Row
  <2>2. db'[i] = row /\ \A j \in Ids : j # i => db'[j] = db[j]
    BY <1>1, <2>1 DEF SInv, IInv, TypeOK
  <2>3. ASSUME NEW j \in Ids PROVE Advances(j)
    <3>1. Advances(i)
      BY <2>1, <2>2 DEF Advances, Live, Unborn
    <3> QED
      BY <2>2, <3>1 DEF Advances
  <2>4. /\ OthersAlone(s) /\ pc'[s] = "idle" /\ arg'[s] = NoObject /\ fetched'[s] = {}
        /\ Rests(s)' /\ Loaded(s)' /\ CallFresh(s)'
    <3>1. \A t \in Sessions \ {s} : pending'[t] = pending[t]
      BY <1>1 DEF SInv, IInv, TypeOK
    <3> QED
      BY <1>2, <3>1, Returns DEF SInv, IInv, OthersAlone, Rests, Loaded, CallFresh
  <2>5. /\ setting' = setting /\ Collected'
        /\ \A o \in Objects : o \in Referenced' => Same(o)
        /\ \A j \in Ids : entityCache'[j] # NoObject => Same(entityCache'[j])
    BY <1>1, HeapKeeps
  <2>6. ASSUME setting.maxCalls = 1, NEW o \in fetched[s] PROVE Clean(obj[o])'
    <3>1. o \in Objects /\ obj[o].snapshot = row.edits
      BY <1>1, <2>6 DEF SInv, CleanCalls, Loaded, IInv, TypeOK
    <3>2. CASE o \in Referenced'
      BY <2>1, <2>2, <2>5, <2>6, <3>1, <3>2 DEF Clean, Same, SameCopy, Matches, Live
    <3>3. CASE o \notin Referenced'
      BY <2>5, <3>1, <3>3 DEF Collected, Clean, Unused
    <3> QED
      BY <3>2, <3>3
  <2>7. ASSUME NEW t \in Sessions \ {s}, Uncommitted(t) PROVE db'[pending[t].id] = db[pending[t].id]
    <3> PICK j : j = pending[t].id
      OBVIOUS
    <3>1. j \in Ids /\ j # i
      BY <2>1, <2>7
    <3> QED
      BY <2>2, <3>1
  <2>8. ASSUME Undisturbed PROVE CachesFresh'
    <3>1. /\ entityCache[i] = NoObject /\ ~queryCache.cached /\ queryCache.results = {}
          /\ \A j \in Ids : entityCache[j] # NoObject => Fresh(entityCache[j])
      BY <1>1, <1>4, <2>8, AllFresh DEF SInv, CoherentCalls, CallFresh, NotCached
    <3>2. ASSUME NEW j \in Ids, entityCache'[j] # NoObject PROVE Fresh(entityCache[j])'
      <4> PICK o : o = entityCache[j]
        OBVIOUS
      <4>1. Same(o) /\ Fresh(o) /\ obj[o].id = j /\ j # i
        BY <1>1, <2>5, <3>1, <3>2, AtHand DEF SInv, Fresh
      <4>2. Fresh(o)'
        BY <2>2, <4>1, StaysFresh
      <4> QED
        BY <1>1, <4>2 DEF Fresh
    <3> QED
      BY <1>1, <3>1, <3>2 DEF CachesFresh
  <2> QED
    BY <1>1, <2>3, <2>4, <2>5, <2>6, <2>7, <2>8, CallStep
<1> QED
  BY <1>3, <1>4

\* The transaction of a save is rolled back: the row is what it was.
LEMMA RollBackKeeps ==
    ASSUME SInv, IInv', NEW s \in Sessions, pc[s] \in {"saved", "commit"},
           Undisturbed => pc[s] = "commit", RollBack(s)
    PROVE  SInv'
<1> PICK i : i = pending[s].id
  OBVIOUS
<1>1. /\ db' = [j \in Ids |-> IF i = j /\ db[j] = Unborn THEN Gone ELSE db[j]] /\ Heap(obj)
      /\ pending' = [pending EXCEPT ![s] = NotPending] /\ UNCHANGED <<entityCache, queryCache>>
      /\ Return(s, held[s])
  BY DEF RollBack
<1>2. Undisturbed => \A j : ~Untold(s, j)
  BY DEF Untold
<1>3. CASE ~Uncommitted(s)
  <2>1. pending[s] = NotPending /\ i \notin Ids
    BY <1>3, Types DEF Uncommitted, NotPending, SInv, IInv
  <2>2. UNCHANGED <<db, pending>>
    BY <1>1, <2>1 DEF SInv, IInv, TypeOK
  <2> QED
    BY <1>1, <1>2, <2>2, NothingDoneKeeps
<1>4. CASE Uncommitted(s)
  <2>1. /\ \A j \in Ids : db'[j] = db[j] \/ (j = i /\ db[j] = Unborn /\ db'[j] = Gone)
        /\ \A j \in Ids : db'[j] = db[j] \/ (~Live(j) /\ ~(db'[j].version > 0))
        /\ \A j \in Ids : Advances(j)
    BY <1>1 DEF Live, Unborn, Gone, Advances
  <2>2. /\ OthersAlone(s) /\ pc'[s] = "idle" /\ arg'[s] = NoObject /\ fetched'[s] = {}
        /\ Rests(s)' /\ Loaded(s)' /\ CallFresh(s)'
    <3>1. held[s] \in Objects \cup {NoObject} /\ \A t \in Sessions \ {s} : pending'[t] = pending[t]
      BY <1>1 DEF SInv, IInv, TypeOK
    <3> QED
      BY <1>1, <3>1, Returns DEF SInv, IInv, OthersAlone, Rests, Loaded, CallFresh
  <2>3. /\ setting' = setting /\ Collected'
        /\ \A o \in Objects : o \in Referenced' => Same(o)
        /\ \A j \in Ids : entityCache'[j] # NoObject => Same(entityCache'[j])
        /\ \A o \in queryCache'.results : Same(o)
    BY <1>1, HeapKeeps
  <2>4. ASSUME NEW t \in Sessions, Uncommitted(t)
        PROVE  db'[pending[t].id] = db[pending[t].id] \/ ~(db'[pending[t].id].version > 0)
    <3> PICK j : j = pending[t].id
      OBVIOUS
    <3>1. j \in Ids
      BY <2>4 DEF SInv, IInv, PendingOK
    <3> QED
      BY <2>1, <3>1
  <2>5. ASSUME Undisturbed PROVE CachesFresh'
    <3>1. \A j : ~Changed(j)
      BY <1>2, <2>5, Quiet DEF Undisturbed
    <3> QED
      BY <1>1, <2>1, <2>3, <2>5, <3>1, CachesForget
  <2> QED
    BY <2>1, <2>2, <2>3, <2>4, <2>5, CallStep
<1> QED
  BY <1>3, <1>4

\* The commit fails, or a callback before it throws.
LEMMA SaveFailsKeeps == ASSUME SInv, IInv', NEW s \in Sessions, SaveFails(s) \/ SaveThrows(s) PROVE SInv'
BY RollBackKeeps DEF SaveFails, SaveThrows, Undisturbed

\* A row is deleted, and the caches are still to be told.
LEMMA RowGoneKeeps ==
    ASSUME SInv, IInv', NEW s \in Sessions, NEW i \in Ids, Calls(s) \/ pc[s] # "idle", ~Locked(i),
           db' = [db EXCEPT ![i] = Gone], OthersAlone(s), \A j : ~Untold(s, j),
           UNCHANGED <<setting, obj, entityCache, queryCache, arg, fetched, todo, held, sent, pending>>,
           pc'[s] # "idle", setting.maxCalls = 1 => Loaded(s)' /\ Untold(s, i)', CallFresh(s)'
    PROVE  SInv'
<1>1. db'[i] = Gone /\ \A j \in Ids : j # i => db'[j] = db[j]
  BY DEF SInv, IInv, TypeOK
<1>2. \A j \in Ids : Advances(j)
  BY <1>1 DEF Advances, Gone, Unborn, Live
<1>3. ASSUME NEW t \in Sessions, Uncommitted(t) PROVE db'[pending[t].id] = db[pending[t].id]
  <2> PICK j : j = pending[t].id
    OBVIOUS
  <2>1. j \in Ids /\ j # i
    BY <1>3, NotLocked DEF SInv, IInv, PendingOK
  <2> QED
    BY <1>1, <2>1
<1>4. Referenced' = Referenced
  BY DEF Referenced
<1>5. Collected' /\ \A o : Same(o)
  BY <1>4, StillCollected DEF Same, SameCopy
<1>6. Rests(s)'
  BY DEF Rests
<1>7. ASSUME Undisturbed PROVE CachesFresh'
  <2>1. \A j : ~Changed(j)
    BY <1>7, Quiet DEF Undisturbed
  <2>2. Untold(s, i)'
    BY <1>7 DEF Undisturbed
  <2>3. Changed(i)'
    BY <2>2 DEF Changed
  <2> QED
    BY <1>1, <1>5, <1>7, <2>1, <2>3, CachesUntold
<1> QED
  BY <1>2, <1>3, <1>5, <1>6, <1>7, CallStep

\* The DELETE of delete.
LEMMA DeleteRowKeeps == ASSUME SInv, IInv', NEW s \in Sessions, DeleteRow(s) PROVE SInv'
<1> PICK i : i = sent[s].id
  OBVIOUS
<1>1. pc[s] = "delete" /\ ~Locked(i) /\ i \in Ids /\ \A j : ~Untold(s, j)
  BY DEF DeleteRow, SInv, IInv, LocalsOK, Settled, Untold
<1>2. CASE /\ db' = [db EXCEPT ![i] = Gone] /\ pc' = [pc EXCEPT ![s] = "deleted"]
           /\ UNCHANGED <<setting, obj, entityCache, queryCache, arg, wanted, fetched, todo,
                          held, sent, pending>>
  <2>1. OthersAlone(s) /\ pc'[s] = "deleted"
    BY <1>2 DEF SInv, IInv, TypeOK, OthersAlone
  <2>2. setting.maxCalls = 1 => obj[arg[s]].id = i
    BY <1>1 DEF SInv, CleanCalls, Loaded
  <2>3. setting.maxCalls = 1 => Loaded(s)' /\ Untold(s, i)'
    BY <1>2, <2>1, <2>2 DEF Loaded, Untold
  <2>4. CallFresh(s)'
    BY <2>1 DEF CallFresh
  <2> QED
    BY <1>1, <1>2, <2>1, <2>3, <2>4, RowGoneKeeps
<1>3. CASE Return(s, held[s]) /\ Heap(obj) /\ UNCHANGED <<db, entityCache, queryCache, pending>>
  BY <1>1, <1>3, NothingDoneKeeps
<1> QED
  BY <1>2, <1>3 DEF DeleteRow

\* A PostRemove callback throws.
LEMMA DeleteThrowsKeeps == ASSUME SInv, IInv', NEW s \in Sessions, DeleteThrows(s) PROVE SInv'
BY NothingDoneKeeps DEF DeleteThrows, Undisturbed

\* The DELETE of deleteById.
LEMMA DeleteByIdKeeps ==
    ASSUME SInv, IInv', NEW s \in Sessions, NEW i \in Ids, DeleteById(s, i) PROVE SInv'
<1>1. /\ pc[s] = "idle" /\ Calls(s) /\ ~Locked(i) /\ db' = [db EXCEPT ![i] = Gone]
      /\ wanted' = [wanted EXCEPT ![s] = i] /\ pc' = [pc EXCEPT ![s] = "removed"]
      /\ UNCHANGED <<setting, obj, entityCache, queryCache, arg, fetched, todo, held, sent, pending>>
      /\ \A j : ~Untold(s, j)
  BY DEF DeleteById, Calls, Untold
<1>2. OthersAlone(s) /\ pc'[s] = "removed" /\ wanted'[s] = i
  BY <1>1 DEF SInv, IInv, TypeOK, OthersAlone
<1>3. Loaded(s)' /\ Untold(s, i)' /\ CallFresh(s)'
  BY <1>1, <1>2 DEF Loaded, Untold, CallFresh
<1> QED
  BY <1>1, <1>2, <1>3, RowGoneKeeps

\* An instance that is like its row stays so when the row advances.
LEMMA LikeStays ==
    ASSUME TypeOK, TypeOK', UNCHANGED obj, NEW o \in Objects, Settled(obj[o]), Advances(obj[o].id), Like(o)
    PROVE  Like(o)'
<1> PICK e : e = obj[o]
  OBVIOUS
<1>1. e.id \in Ids /\ db[e.id].version \in Int /\ e.version \in Int
  BY Types DEF Settled, Entity
<1>2. db'[e.id].version \in Int
  <2>1. db'[e.id] \in Row \cup {Gone}
    BY <1>1 DEF TypeOK
  <2> QED
    BY <2>1 DEF Row, Gone
<1>3. CASE db'[e.id] = db[e.id]
  BY <1>3 DEF Like, Matches, Live
<1>4. CASE Live(e.id)' /\ db'[e.id] # db[e.id]
  <2>1. Live(e.id) /\ db[e.id].version < db'[e.id].version /\ e.version <= db[e.id].version
    BY <1>4 DEF Settled, Advances
  <2> QED
    BY <1>1, <1>2, <2>1 DEF Like, Matches
<1>5. CASE ~Live(e.id)'
  BY <1>5 DEF Like, Matches, Live
<1> QED
  BY <1>3, <1>4, <1>5

\* Another process writes: what is clean is of another version now.
LEMMA ExternalKeeps == ASSUME SInv, IInv', NEW i \in Ids, ExternalWrite(i) PROVE SInv'
<1>1. /\ Live(i) /\ ~Locked(i)
      /\ \/ db' = [db EXCEPT ![i] = [version |-> db[i].version + 1, edits |-> db[i].edits \cup {Outside}]]
         \/ db' = [db EXCEPT ![i] = Gone]
      /\ UNCHANGED <<setting, obj, entityCache, queryCache, pc, arg, wanted, fetched, todo,
                     held, sent, pending>>
      /\ ~Undisturbed /\ ~Undisturbed'
  BY DEF ExternalWrite, Undisturbed
<1>2. /\ \A j \in Ids : j # i => db'[j] = db[j]
      /\ \/ db'[i] = [version |-> db[i].version + 1, edits |-> db[i].edits \cup {Outside}]
         \/ db'[i] = Gone
  BY <1>1 DEF SInv, IInv, TypeOK
<1>3. db[i].version \in Int
  BY Types DEF SInv, IInv
<1>4. \A j \in Ids : Advances(j)
  BY <1>1, <1>2, <1>3 DEF Advances, Gone, Unborn, Live
<1>5. Referenced' = Referenced
  BY <1>1 DEF Referenced
<1>6. Collected' /\ \A s \in Sessions : Rests(s)'
  BY <1>1, <1>5, StillCollected DEF SInv, Rests
<1>7. ASSUME setting.maxCalls = 1, NEW o \in Objects PROVE Clean(obj[o])'
  <2> PICK e : e = obj[o]
    OBVIOUS
  <2>1. CASE e.id = NoId
    BY <1>1, <2>1 DEF Clean
  <2>2. CASE e.id # NoId
    <3>1. e.version \in Int /\ SameCopy(e, e) /\ Clean(e)
      BY <1>7, Types DEF SInv, IInv, Entity, SameCopy, CleanCalls, Clean
    <3>2. CASE Settled(e)
      <4>1. Advances(e.id)
        BY <1>4, <3>2 DEF Settled
      <4>2. Clean(e)'
        BY <3>1, <3>2, <4>1, CopyStaysClean DEF SInv, IInv
      <4> QED
        BY <1>1, <4>2 DEF Clean
    <3>3. ASSUME NEW t \in Sessions, Uncommitted(t), o \in fetched[t] PROVE Clean(obj[o])'
      <4>1. e.id \in Ids /\ e.id # i
        BY <1>1, <3>3, NotLocked DEF SInv, IInv, PendingOK
      <4>2. db'[e.id] = db[e.id] /\ Advances(e.id)
        BY <1>2, <1>4, <4>1
      <4>3. Clean(e)'
        BY <3>1, <4>2, CopyStaysClean DEF SInv, IInv
      <4> QED
        BY <1>1, <4>3 DEF Clean
    <3> QED
      BY <2>2, <3>2, <3>3, InUse
  <2> QED
    BY <2>1, <2>2
<1>8. ASSUME setting.maxCalls = 1, NEW s \in Sessions PROVE Loaded(s)'
  <2>1. Loaded(s)
    BY <1>8 DEF SInv, CleanCalls
  <2>2. ASSUME NEW o \in Roots, Like(o) PROVE Like(o)'
    <3>1. o \in Objects /\ Settled(obj[o])
      BY AtHand DEF SInv, IInv, RootsSettled
    <3>2. Advances(obj[o].id)
      BY <1>4, <3>1 DEF Settled
    <3> QED
      BY <1>1, <2>2, <3>1, <3>2, LikeStays DEF SInv, IInv
  <2>3. /\ ~Uncommitted(s) => fetched[s] \subseteq Roots
        /\ Uncommitted(s) => pc[s] \in {"saved", "commit"}
        /\ todo[s] \subseteq fetched[s]
        /\ pc[s] = "refreshCopied" => arg[s] \in Roots
    BY AtHand DEF SInv, IInv, LocalsOK
  <2>4. pc[s] \in {"findLoaded", "findAllLoaded"} => \A o \in todo[s] : Like(o)'
    BY <2>1, <2>2, <2>3 DEF Loaded
  <2>5. pc[s] = "refreshLoaded" => \A o \in fetched[s] : Like(o)'
    BY <2>1, <2>2, <2>3 DEF Loaded
  <2>6. pc[s] = "refreshCopied" => Like(arg[s])'
    <3> PICK o : o = arg[s]
      OBVIOUS
    <3>1. pc[s] = "refreshCopied" => Like(o)'
      BY <2>1, <2>2, <2>3 DEF Loaded
    <3> QED
      BY <1>1, <3>1
  <2>7. pc[s] = "saved" /\ ~Uncommitted(s) => \A o \in fetched[s] : Like(o)'
    BY <2>1, <2>2, <2>3 DEF Loaded
  <2> QED
    BY <1>1, <2>1, <2>4, <2>5, <2>6, <2>7 DEF Loaded, Uncommitted
<1>9. ASSUME setting.maxCalls = 1 PROVE CleanCalls'
  BY <1>1, <1>7, <1>8, <1>9 DEF CleanCalls, OneCall, SInv
<1> QED
  BY <1>1, <1>6, <1>9 DEF SInv

\* A step that at most loses cached instances.
LEMMA ShrinkKeeps ==
    ASSUME SInv, IInv', Collected',
           UNCHANGED <<setting, db, pc, arg, wanted, fetched, todo, held, sent, pending>>,
           \A o \in Objects : o \in Referenced' => obj'[o] = obj[o],
           \A i \in Ids : entityCache'[i] = entityCache[i] \/ entityCache'[i] = NoObject,
           queryCache' = queryCache \/ queryCache' = NoResult
    PROVE  SInv'
<1>1. AllReferenced'
  BY Reachable, PTL
<1>2. ASSUME NEW s \in Sessions
      PROVE  /\ \A o \in fetched[s] : obj'[o] = obj[o]
             /\ \A o \in todo[s] : obj'[o] = obj[o]
             /\ arg[s] # NoObject => obj'[arg[s]] = obj[arg[s]]
  <2>1. /\ \A o \in fetched[s] : o \in Objects /\ o \in Referenced'
        /\ todo[s] \subseteq fetched[s]
        /\ arg[s] # NoObject => arg[s] \in Objects
        /\ arg[s] \in Referenced'
    BY <1>1 DEF AllReferenced, SInv, IInv, TypeOK, LocalsOK
  <2> QED
    BY <2>1
<1>3. /\ \A i \in Ids : entityCache'[i] # NoObject => obj'[entityCache'[i]] = obj[entityCache'[i]]
      /\ \A o \in queryCache'.results : obj'[o] = obj[o]
  <2>1. /\ \A i \in Ids : entityCache'[i] # NoObject => entityCache'[i] \in Objects
        /\ \A o \in queryCache'.results : o \in Objects
    BY DEF IInv, TypeOK
  <2> QED
    BY <1>1, <2>1 DEF AllReferenced
<1>4. \A o : (Like(o) /\ obj'[o] = obj[o] => Like(o)') /\ (Fresh(o) /\ obj'[o] = obj[o] => Fresh(o)')
  BY DEF Like, Fresh, Matches, Live
<1>5. ASSUME NEW s \in Sessions PROVE Rests(s)'
  BY DEF SInv, Rests
<1>6. ASSUME setting.maxCalls = 1, NEW s \in Sessions PROVE Loaded(s)'
  <2>1. Loaded(s) /\ LocalsOK(s)
    BY <1>6 DEF SInv, CleanCalls, IInv
  <2> PICK a : a = arg[s]
    OBVIOUS
  <2>2. pc[s] \in {"delete", "deleted", "refresh", "refreshLoaded", "refreshCopied"} => obj'[a] = obj[a]
    BY <1>2, <2>1 DEF LocalsOK
  <2>3. pc[s] = "refreshCopied" => Like(a)'
    BY <1>4, <2>1, <2>2 DEF Loaded
  <2>4. pc[s] \in {"findLoaded", "findAllLoaded"} => \A o \in todo[s] : Like(o)'
    BY <1>2, <1>4, <2>1 DEF Loaded
  <2>5. pc[s] = "refreshLoaded" => \A o \in fetched[s] : Like(o)'
    BY <1>2, <1>4, <2>1 DEF Loaded
  <2>6. pc[s] = "saved" /\ ~Uncommitted(s) => \A o \in fetched[s] : Like(o)'
    BY <1>2, <1>4, <2>1 DEF Loaded
  <2>7. pc[s] = "refreshCopied" => Like(arg[s])'
    BY <2>3
  <2> QED
    BY <1>2, <2>1, <2>2, <2>4, <2>5, <2>6, <2>7 DEF Loaded, Uncommitted
<1>7. ASSUME setting.maxCalls = 1 PROVE CleanCalls'
  <2>1. OneCall'
    BY <1>7 DEF SInv, CleanCalls, OneCall
  <2>2. ASSUME NEW o \in Objects PROVE Clean(obj[o])'
    <3>1. CASE o \in Referenced'
      BY <1>7, <3>1 DEF SInv, CleanCalls, Clean, Matches, Live
    <3>2. CASE o \notin Referenced'
      BY <3>2 DEF Collected, Clean, Unused
    <3> QED
      BY <3>1, <3>2
  <2> QED
    BY <1>6, <1>7, <2>1, <2>2 DEF CleanCalls
<1>8. ASSUME Undisturbed PROVE CachesFresh'
  <2>1. CachesFresh
    BY <1>8 DEF SInv, CoherentCalls
  <2>2. ASSUME NEW i \in Ids, Changed(i) PROVE Changed(i)'
    <3> PICK s \in Sessions : Untold(s, i)
      BY <2>2 DEF Changed
    <3>1. pc[s] = "deleted" => obj'[arg[s]].id = obj[arg[s]].id
      BY <1>2 DEF SInv, IInv, LocalsOK
    <3>2. Untold(s, i)'
      BY <1>2, <3>1 DEF Untold, Uncommitted
    <3> QED
      BY <3>2 DEF Changed
  <2>3. ASSUME NEW i \in Ids, entityCache'[i] # NoObject PROVE Fresh(entityCache[i])' \/ Changed(i)'
    <3> PICK o : o = entityCache'[i]
      OBVIOUS
    <3>1. obj'[o] = obj[o] /\ (Fresh(o) \/ Changed(i))
      <4>1. o = entityCache[i] /\ entityCache[i] # NoObject
        BY <2>3
      <4> QED
        BY <1>3, <2>1, <2>3, <4>1 DEF CachesFresh, Fresh
    <3>2. Fresh(o)' \/ Changed(i)'
      BY <1>4, <2>2, <3>1
    <3> QED
      BY <3>2 DEF Fresh
  <2>4. CASE queryCache' = NoResult
    BY <2>3, <2>4 DEF CachesFresh, NoResult
  <2>5. CASE queryCache' = queryCache
    <3>1. ASSUME NEW o \in queryCache.results PROVE Fresh(o)' \/ Changed(obj[o].id)'
      <4> PICK i : i = obj[o].id
        OBVIOUS
      <4>1. i \in Ids /\ obj'[o].id = i
        BY <1>3, <2>5, AtHand DEF SInv, IInv, RootsSettled, Settled
      <4>2. Fresh(o)' \/ Changed(i)'
        BY <1>3, <1>4, <2>1, <2>2, <2>5, <4>1 DEF CachesFresh
      <4> QED
        BY <4>1, <4>2 DEF Changed, Untold
    <3>2. ASSUME queryCache.cached, NEW i \in Ids, Live(i)'
          PROVE  (\E o \in queryCache.results : obj'[o].id = i) \/ Changed(i)'
      <4>1. Live(i)
        BY <3>2 DEF Live
      <4>2. (\E o \in queryCache.results : obj[o].id = i) \/ Changed(i)
        BY <2>1, <3>2, <4>1 DEF CachesFresh
      <4> QED
        BY <1>3, <2>2, <2>5, <4>2
    <3> QED
      BY <2>1, <2>3, <2>5, <3>1, <3>2 DEF CachesFresh
  <2> QED
    BY <2>4, <2>5
<1>9. ASSUME Undisturbed, NEW s \in Sessions PROVE CallFresh(s)'
  <2>1. CallFresh(s) /\ LocalsOK(s)
    BY <1>9 DEF SInv, CoherentCalls, IInv
  <2> PICK a, p : a = arg[s] /\ p = pending[s].id
    OBVIOUS
  <2>2. pc[s] \in {"refresh", "refreshLoaded", "refreshCopied"} => obj'[a] = obj[a] /\ obj[a].id \in Ids
    <3>1. pc[s] \in {"refresh", "refreshLoaded", "refreshCopied"} => a \in Roots
      BY <2>1, AtHand DEF SInv, LocalsOK
    <3> QED
      BY <1>2, <2>1, <3>1, AtHand DEF SInv, IInv, RootsSettled, Settled, LocalsOK
  <2>3. \A o \in fetched[s] : Matches(obj[o]) => Matches(obj[o])'
    BY <1>2 DEF Matches, Live
  <2>4. \A i \in Ids : NotCached(i) => NotCached(i)'
    BY DEF NotCached, NoResult
  <2>5. pc[s] \in {"findLoaded", "findAllLoaded"} =>
           \A o \in fetched[s] : Matches(obj[o])' /\ (o \in todo[s] \/ obj'[o].tracked)
    BY <1>2, <2>1, <2>3 DEF CallFresh
  <2>6. pc[s] = "findAllLoaded" => \A i \in Ids : Live(i)' => \E o \in fetched[s] : obj'[o].id = i
    BY <1>2, <2>1 DEF CallFresh, Live
  <2>7. pc[s] = "refreshLoaded" => \A o \in fetched[s] : Matches(obj[o])'
    BY <2>1, <2>3 DEF CallFresh
  <2>8. pc[s] = "refreshCopied" => Matches(obj[arg[s]])'
    BY <2>1, <2>2 DEF CallFresh, Matches, Live
  <2>9. pc[s] \in {"refresh", "refreshLoaded", "refreshCopied"} => NotCached(obj[arg[s]].id)'
    <3> PICK i : i = obj[a].id
      OBVIOUS
    <3>1. pc[s] \in {"refresh", "refreshLoaded", "refreshCopied"} => NotCached(i)' /\ obj'[arg'[s]].id = i
      BY <2>1, <2>2, <2>4 DEF CallFresh
    <3> QED
      BY <3>1 DEF NotCached
  <2>10. pc[s] = "commit" /\ Uncommitted(s) => NotCached(pending[s].id)'
    <3>1. Uncommitted(s) => p \in Ids
      BY DEF SInv, IInv, PendingOK
    <3>2. pc[s] = "commit" /\ Uncommitted(s) => NotCached(p)'
      BY <2>1, <2>4, <3>1 DEF CallFresh
    <3> QED
      BY <3>2 DEF NotCached
  <2> QED
    BY <2>5, <2>6, <2>7, <2>8, <2>9, <2>10 DEF CallFresh, Uncommitted
<1>10. Undisturbed' <=> Undisturbed
  BY DEF Undisturbed
<1> QED
  BY <1>5, <1>7, <1>8, <1>9, <1>10 DEF SInv, CoherentCalls

\* A cache entry expires or is pushed out.
LEMMA ExpireKeeps == ASSUME SInv, IInv', Expire PROVE SInv'
<1>1. /\ Heap(obj) /\ UNCHANGED <<db, pc, arg, wanted, fetched, todo, held, sent, pending>>
      /\ \/ Invalidate /\ UNCHANGED entityCache
         \/ \E i \in Ids : Evict(i) /\ UNCHANGED queryCache
  BY DEF Expire
<1>2. /\ setting' = setting /\ Collected'
      /\ \A o \in Objects : o \in Referenced' => obj'[o] = obj[o]
  BY <1>1, HeapStep, HeapCollects, AtHand DEF SInv
<1>3. /\ \A i \in Ids : entityCache'[i] = entityCache[i] \/ entityCache'[i] = NoObject
      /\ queryCache' = queryCache \/ queryCache' = NoResult
  BY <1>1, Evicted DEF SInv, Invalidate
<1> QED
  BY <1>1, <1>2, <1>3, ShrinkKeeps

\* A step that changes nothing.
LEMMA StutterKeeps == ASSUME SInv, IInv', UNCHANGED vars PROVE SInv'
<1>1. UNCHANGED <<setting, db, obj, entityCache, queryCache, pc, arg, wanted, fetched, todo, held,
                  sent, pending>>
  BY DEF vars
<1>2. Referenced' = Referenced
  BY <1>1 DEF Referenced
<1>3. Collected'
  BY <1>1, <1>2, StillCollected
<1> QED
  BY <1>1, <1>3, ShrinkKeeps

\* Nothing is loaded, cached or in the table at first.
LEMMA InitSInv == Init => SInv
<1> SUFFICES ASSUME Init PROVE SInv
  OBVIOUS
<1>1. /\ \A o \in Objects : obj[o] = Unused
      /\ \A s \in Sessions : pc[s] = "idle" /\ arg[s] = NoObject /\ fetched[s] = {}
      /\ \A i \in Ids : entityCache[i] = NoObject /\ db[i] = Unborn
      /\ queryCache = NoResult
  BY DEF Init
<1>2. Collected /\ \A s \in Sessions : Rests(s)
  BY <1>1 DEF Collected, Rests
<1>3. CleanCalls
  BY <1>1 DEF CleanCalls, OneCall, Clean, Loaded, Unused
<1>4. CoherentCalls
  BY <1>1 DEF CoherentCalls, CachesFresh, CallFresh, NoResult
<1> QED
  BY <1>2, <1>3, <1>4, InitIInv DEF SInv

\* Every step keeps the invariant.
LEMMA NextSInv == SInv /\ [Next]_vars => SInv'
<1> SUFFICES ASSUME SInv, [Next]_vars PROVE SInv'
  OBVIOUS
<1>0. IInv'
  BY NextIInv DEF SInv
<1>1. ASSUME NEW s \in Sessions, NEW i \in Ids, FindHit(s, i) \/ FindMiss(s, i) \/ DeleteById(s, i)
      PROVE  SInv'
  BY <1>0, <1>1, FindHitKeeps, FindMissKeeps, DeleteByIdKeeps
<1>2. ASSUME NEW s \in Sessions,
             \/ FindRead(s) \/ FindPost(s) \/ FindAllHit(s) \/ FindAllMiss(s) \/ FindAllRead(s)
             \/ FindAllPost(s) \/ FindAllPut(s)
      PROVE  SInv'
  BY <1>0, <1>2, FindReadKeeps, FindPostKeeps, FindAllHitKeeps, FindAllMissKeeps, FindAllReadKeeps,
     FindAllPostKeeps, FindAllPutKeeps
<1>3. ASSUME NEW s \in Sessions,
             \/ Edit(s) \/ Save(s) \/ Update(s) \/ UpdateRefused(s) \/ Insert(s) \/ SavePost(s) \/ Commit(s)
             \/ SaveFails(s) \/ SaveThrows(s)
      PROVE  SInv'
  BY <1>0, <1>3, EditKeeps, SaveKeeps, UpdateKeeps, UpdateRefusedKeeps, InsertKeeps, SavePostKeeps,
     CommitKeeps, SaveFailsKeeps
<1>4. ASSUME NEW s \in Sessions,
             Delete(s) \/ DeleteRow(s) \/ DeletePost(s) \/ DeleteThrows(s) \/ DeleteByIdPost(s)
      PROVE  SInv'
  BY <1>0, <1>4, SaveKeeps, DeleteRowKeeps, DeletePostKeeps, DeleteThrowsKeeps, DeleteByIdPostKeeps
<1>5. ASSUME NEW s \in Sessions, RefreshCall(s) \/ RefreshRead(s) \/ RefreshCopy(s) \/ RefreshPost(s)
      PROVE  SInv'
  BY <1>0, <1>5, RefreshCallKeeps, RefreshReadKeeps, RefreshCopyKeeps, RefreshPostKeeps
<1> QED
  BY <1>0, <1>1, <1>2, <1>3, <1>4, <1>5, ExpireKeeps, ExternalKeeps, StutterKeeps DEF Next

\* The invariant of calls one at a time holds in every reachable state.
THEOREM CallInvariance == Spec => []SInv
BY InitSInv, NextSInv, PTL DEF Spec

\* Dirty checking: with calls one at a time, and whatever another process does,
\* an instance the change tracker calls clean has the data of the row of its
\* version, so a save that skips the UPDATE loses nothing.
THEOREM CleanIsStored == Spec => []CleanMeansStored
<1>1. SInv => CleanMeansStored
  BY DEF SInv, CleanMeansStored, CleanCalls, Clean, Dirty
<1> QED
  BY <1>1, CallInvariance, PTL

\* Between two calls, with calls one at a time and no other writer, what the
\* entity cache and the query cache hold is what the table says.
THEOREM CachesStayCoherent == Spec => []CoherentCaches
<1>1. ASSUME SInv, Undisturbed, AllIdle
      PROVE  /\ \A i \in Ids : entityCache[i] # NoObject => Agrees(entityCache[i])
             /\ \A o \in queryCache.results : Agrees(o)
             /\ queryCache.cached =>
                    {i \in Ids : Live(i)} = {obj[o].id : o \in queryCache.results}
  <2>1. \A i : ~Changed(i)
    BY <1>1 DEF AllIdle, Changed, Untold
  <2>2. CachesFresh /\ \A o \in Objects : Clean(obj[o])
    BY <1>1 DEF SInv, CoherentCalls, CleanCalls, Undisturbed
  <2>3. ASSUME NEW o \in Roots, Fresh(o) PROVE Agrees(o) /\ obj[o].id \in Ids /\ Live(obj[o].id)
    <3>1. o \in Objects /\ obj[o].id \in Ids /\ NoId \notin Ids
      BY <1>1, AtHand, Types DEF SInv, IInv, RootsSettled, Settled
    <3>2. Clean(obj[o])
      BY <2>2, <3>1
    <3> QED
      BY <2>3, <3>1, <3>2 DEF Fresh, Agrees, Matches, Clean
  <2>4. /\ \A i \in Ids : entityCache[i] # NoObject => Fresh(entityCache[i])
        /\ \A o \in queryCache.results : Fresh(o)
    BY <2>1, <2>2 DEF CachesFresh
  <2>5. \A o \in queryCache.results : o \in Roots
    BY <1>1, AtHand DEF SInv
  <2>6. ASSUME queryCache.cached
        PROVE  {i \in Ids : Live(i)} = {obj[o].id : o \in queryCache.results}
    <3>1. \A i \in Ids : Live(i) => \E o \in queryCache.results : obj[o].id = i
      BY <2>1, <2>2, <2>6 DEF CachesFresh
    <3>2. \A o \in queryCache.results : obj[o].id \in Ids /\ Live(obj[o].id)
      BY <2>3, <2>4, <2>5
    <3> QED
      BY <3>1, <3>2
  <2> QED
    BY <1>1, <2>3, <2>4, <2>5, <2>6, AtHand DEF SInv
<1>2. SInv => CoherentCaches
  BY <1>1 DEF CoherentCaches, CachesCoherent, SInv, IInv
<1> QED
  BY <1>2, CallInvariance, PTL

-----------------------------------------------------------------------------
(***************************************************************************)
(* Bulk writes: what a transaction has written (Wrote), and that it is out *)
(* of the caches, or was read back beside it (OutOfCaches).                *)
(***************************************************************************)

BulkSpec == BulkInit /\ [][BulkNext]_bulkVars

BulkOps == {"none", "save", "upsert", "delete", "find", "count", "stream"}
Items == [id : Stored, version : Nat]

\* What a call has in hand.
Works == [op : BulkOps, todo : Seq(Items), news : Nat, mine : [RowIds -> Int], got : Nat]

NotTwice(list) == \A n, m \in 1..Len(list) : list[n].id = list[m].id => n = m

\* What the rows a transaction has written are, by what the call is.
Wrote(w) ==
    /\ w.op \notin {"save", "upsert", "delete"} => w.mine = NoChange
    /\ \A n \in 1..Len(w.todo) : w.op # "find" => w.mine[w.todo[n].id] = Unchanged
    /\ \A i \in RowIds : w.mine[i] \in -1..MaxRowVersion
    /\ w.op = "save" => \A i \in Stored : w.mine[i] # Unchanged => table[i] # NoVersion /\ w.mine[i] = table[i] + 1
    /\ w.op = "delete" => \A i \in RowIds : w.mine[i] \in {Unchanged, NoVersion}
    /\ \A i \in 1..MaxInserted : w.mine[100 + i] # Unchanged => i <= drawn

Reading(w) ==
    /\ w.op = "find" => Len(w.todo) > 0 /\ w.got \in 0..MaxRowVersion
    /\ NotTwice(w.todo)

BulkTyped ==
    /\ table \in [RowIds -> 0..MaxRowVersion] /\ drawn \in 0..MaxInserted
    /\ cachedRow \in [RowIds -> Nat] /\ counted \in Int
    /\ work \in [BulkCallers -> Works]
    /\ out \in Int /\ leaked \in Int
    /\ updates \in [RowIds -> Nat] /\ upserted \subseteq RowIds
    /\ raced \subseteq RowIds \cup {TheCount}

\* Whatever a transaction has written is out of the caches, unless it was read back.
OutOfCaches ==
    \A k \in BulkCallers : \A i \in RowIds : work[k].mine[i] # Unchanged =>
        /\ cachedRow[i] = NoVersion \/ i \in raced
        /\ counted = NotCounted \/ TheCount \in raced

Doing == \A k \in BulkCallers : Wrote(work[k]) /\ Reading(work[k])

BulkInv == /\ BulkTyped /\ Doing /\ OutOfCaches
           /\ NoSaveLost /\ RowsApart /\ BulkCachesCoherent /\ NoConnectionLost

LEMMA BulkIds == 0 \notin RowIds /\ Stored \subseteq RowIds /\ NewIds \cap Stored = {} /\ NewIds \subseteq RowIds
<1>1. MaxInserted \in Nat  BY BulkAssumption
<1>2. \A i \in NewIds : \E j \in 1..MaxInserted : i = 100 + j  BY DEF NewIds
<1>3. \A i \in NewIds : i > 100  BY <1>1, <1>2
<1>4. Stored \subseteq 1..100  BY BulkAssumption
<1>5. \A i \in Stored : i > 0 /\ i <= 100  BY <1>4
<1>6. NewIds \cap Stored = {}
  <2>1. ASSUME NEW i \in NewIds \cap Stored PROVE FALSE
    <3>1. i \in 1..100 /\ i > 100  BY <1>3, <1>4, <2>1
    <3>. QED  BY <3>1
  <2>. QED  BY <2>1
<1>7. \A i \in NewIds : i # 0
  <2>1. ASSUME NEW i \in NewIds, i = 0 PROVE FALSE
    <3>1. i > 100  BY <1>3
    <3>. QED  BY <2>1, <3>1
  <2>. QED  BY <2>1
<1>8. \A i \in Stored : i # 0
  <2>1. ASSUME NEW i \in Stored, i = 0 PROVE FALSE
    <3>1. i \in 1..100  BY <1>4
    <3>. QED  BY <2>1, <3>1
  <2>. QED  BY <2>1
<1>. QED  BY <1>6, <1>7, <1>8 DEF RowIds

LEMMA NoWorkIs ==
    /\ NoWork \in Works /\ NoWork.op = "none" /\ NoWork.mine = NoChange
    /\ Reading(NoWork) /\ Wrote(NoWork) /\ Wrote(NoWork)'
    /\ \A i \in RowIds : NoChange[i] = Unchanged
<1>1. NoWork = [op |-> "none", todo |-> <<>>, news |-> 0, mine |-> NoChange, got |-> 0]  BY DEF NoWork, NoVersion
<1>2. NoChange \in [RowIds -> Int] /\ \A i \in RowIds : NoChange[i] = -1  BY DEF NoChange, Unchanged
<1>3. NoWork \in Works
  <2>1. <<>> \in Seq(Items)  OBVIOUS
  <2>. QED  BY <1>1, <1>2, <2>1 DEF Works, BulkOps
<1>4. NoWork.op = "none" /\ NoWork.mine = NoChange /\ NoWork.todo = <<>>  BY <1>1
<1>5. 100 + 0 = 100 /\ MaxRowVersion \in Nat /\ MaxInserted \in Nat  BY BulkAssumption
<1>6. \A i \in 1..MaxInserted : 100 + i \in RowIds  BY DEF RowIds, NewIds
<1>7. Wrote(NoWork)  BY <1>2, <1>4, <1>5, <1>6 DEF Wrote, Unchanged
<1>8. Wrote(NoWork)'  BY <1>2, <1>4, <1>5, <1>6 DEF Wrote, Unchanged
<1>9. Reading(NoWork)  BY <1>4 DEF Reading, NotTwice
<1>. QED  BY <1>2, <1>3, <1>4, <1>7, <1>8, <1>9 DEF Unchanged

LEMMA BulkInitInv == BulkInit => BulkInv
<1>. SUFFICES ASSUME BulkInit PROVE BulkInv  OBVIOUS
<1>1. MaxRowVersion \in Nat /\ MaxRowVersion > 0 /\ MaxInserted \in Nat  BY BulkAssumption
<1>2. work = [k \in BulkCallers |-> NoWork]  BY DEF BulkInit
<1>3. BulkTyped  BY <1>1, <1>2, NoWorkIs DEF BulkTyped, BulkInit, NoVersion, NotCounted
<1>4. Doing  BY <1>2, NoWorkIs DEF Doing
<1>5. OutOfCaches  BY <1>2, NoWorkIs DEF OutOfCaches
<1>6. NoSaveLost  BY BulkIds DEF BulkInit, NoSaveLost
<1>7. RowsApart  BY <1>2, NoWorkIs DEF RowsApart
<1>8. BulkCachesCoherent  BY DEF BulkInit, BulkCachesCoherent
<1>9. NoConnectionLost
  <2>1. {k \in BulkCallers : work[k].op # "none"} = {}  BY <1>2, NoWorkIs
  <2>. QED  BY <2>1, FS_EmptySet DEF NoConnectionLost, BulkInit
<1>. QED  BY <1>3, <1>4, <1>5, <1>6, <1>7, <1>8, <1>9 DEF BulkInv

LEMMA RowsAreFinite ==
    /\ IsFiniteSet(Stored) /\ Cardinality(Stored) \in Nat
    /\ IsFiniteSet(RowIds) /\ RowsThere \in Nat
<1>1. IsFiniteSet(Stored)
  <2>0. PICK n \in Int : n = 100  OBVIOUS
  <2>1. IsFiniteSet(1..n)  BY FS_Interval
  <2>. QED  BY <2>0, <2>1, BulkAssumption, FS_Subset
<1>2. IsFiniteSet(NewIds)
  <2>1. IsFiniteSet(1..MaxInserted)  BY BulkAssumption, FS_Interval
  <2>2. IsFiniteSet(101..100 + MaxInserted)  BY BulkAssumption, FS_Interval
  <2>3. NewIds \subseteq 101..100 + MaxInserted  BY BulkAssumption DEF NewIds
  <2>. QED  BY <2>2, <2>3, FS_Subset
<1>3. IsFiniteSet(RowIds)  BY <1>1, <1>2, FS_Union DEF RowIds
<1>4. IsFiniteSet({i \in RowIds : table[i] # NoVersion})  BY <1>3, FS_Subset
<1>. QED  BY <1>1, <1>3, <1>4, FS_CardinalityType DEF RowsThere

\* The calls that have a connection.
Busy == {k \in BulkCallers : work[k].op # "none"}

LEMMA BusyIs == IsFiniteSet(Busy) /\ Cardinality(Busy) \in Nat /\ (NoConnectionLost <=> out = Cardinality(Busy) + leaked)
<1>1. IsFiniteSet(Busy)  BY BulkAssumption, FS_Subset DEF Busy
<1>. QED  BY <1>1, FS_CardinalityType DEF Busy, NoConnectionLost

\* k's work becomes w.
Becomes(k, w) == work' = [work EXCEPT ![k] = w]

LEMMA OthersStay ==
    ASSUME BulkTyped, NEW k \in BulkCallers, NEW w \in Works, Becomes(k, w)
    PROVE  /\ work' \in [BulkCallers -> Works] /\ work'[k] = w
           /\ \A j \in BulkCallers \ {k} : work'[j] = work[j]
<1>. QED  BY DEF BulkTyped, Becomes

\* The number of calls with a connection: one more, one less, or as it was.
LEMMA OneMore ==
    ASSUME BulkTyped, NoConnectionLost, NEW k \in BulkCallers, NEW w \in Works, Becomes(k, w),
           work[k].op = "none", w.op # "none", out' = out + 1, leaked' = leaked
    PROVE  NoConnectionLost' /\ out' \in Int /\ leaked' \in Int
<1>1. Busy' = Busy \cup {k} /\ k \notin Busy  BY OthersStay DEF Busy
<1>2. Cardinality(Busy') = Cardinality(Busy) + 1  BY <1>1, BusyIs, FS_AddElement
<1>3. NoConnectionLost' <=> out' = Cardinality(Busy') + leaked'  BY DEF Busy, NoConnectionLost
<1>. QED  BY <1>2, <1>3, BusyIs DEF BulkTyped

LEMMA OneLess ==
    ASSUME BulkTyped, NoConnectionLost, NEW k \in BulkCallers, NEW w \in Works, Becomes(k, w),
           work[k].op # "none", w.op = "none",
           \/ out' = out - 1 /\ leaked' = leaked
           \/ out' = out /\ leaked' = leaked + 1
    PROVE  NoConnectionLost' /\ out' \in Int /\ leaked' \in Int
<1>1. Busy' = Busy \ {k} /\ k \in Busy  BY OthersStay DEF Busy
<1>2. Cardinality(Busy') = Cardinality(Busy) - 1  BY <1>1, BusyIs, FS_RemoveElement
<1>3. NoConnectionLost' <=> out' = Cardinality(Busy') + leaked'  BY DEF Busy, NoConnectionLost
<1>. QED  BY <1>2, <1>3, BusyIs DEF BulkTyped

LEMMA AsMany ==
    ASSUME BulkTyped, NoConnectionLost, NEW k \in BulkCallers, NEW w \in Works, Becomes(k, w),
           work[k].op # "none", w.op # "none", out' = out, leaked' = leaked
    PROVE  NoConnectionLost' /\ out' \in Int /\ leaked' \in Int
<1>1. Busy' = Busy  BY OthersStay DEF Busy
<1>3. NoConnectionLost' <=> out' = Cardinality(Busy') + leaked'  BY DEF Busy, NoConnectionLost
<1>. QED  BY <1>1, <1>3, BusyIs DEF BulkTyped

\* What a transaction has written stays so while its rows do.
LEMMA WroteKept ==
    ASSUME NEW w, Wrote(w), drawn \in Nat, drawn' \in Nat, drawn' >= drawn,
           \A i \in RowIds : w.mine[i] # Unchanged => table'[i] = table[i]
    PROVE  Wrote(w)'
<1>1. \A i \in 1..MaxInserted : w.mine[100 + i] # Unchanged => i <= drawn'  BY DEF Wrote
<1>2. Stored \subseteq RowIds  BY BulkIds
<1>3. w.op = "save" => \A i \in Stored : w.mine[i] # Unchanged => table'[i] # NoVersion /\ w.mine[i] = table'[i] + 1
  BY <1>2 DEF Wrote
<1>. QED  BY <1>1, <1>3 DEF Wrote

LEMMA WorkGoesOn ==
    ASSUME BulkTyped, Doing, RowsApart, NEW k \in BulkCallers, NEW w \in Works, Becomes(k, w),
           Wrote(w)', Reading(w), drawn' \in Nat, drawn' >= drawn,
           \A j \in BulkCallers \ {k} : \A i \in RowIds :
               /\ Unchanged \in {w.mine[i], work[j].mine[i]}
               /\ work[j].mine[i] # Unchanged => table'[i] = table[i]
    PROVE  Doing' /\ RowsApart'
<1>1. work'[k] = w /\ \A j \in BulkCallers \ {k} : work'[j] = work[j]  BY OthersStay
<1>2. drawn \in Nat  BY BulkAssumption DEF BulkTyped
<1>3. ASSUME NEW j \in BulkCallers PROVE Wrote(work[j])' /\ Reading(work[j])'
  <2>1. CASE j = k
    <3>1. Reading(w)'  BY DEF Reading, NotTwice
    <3>2. w = work'[j]  BY <1>1, <2>1
    <3>. QED  BY <3>1, <3>2
  <2>2. CASE j # k
    <3>1. work'[j] = work[j] /\ Wrote(work[j]) /\ Reading(work[j])  BY <1>1, <2>2 DEF Doing
    <3>2. PICK v : v = work[j]  OBVIOUS
    <3>3. Wrote(v)'  BY <1>2, <2>2, <3>1, <3>2, WroteKept
    <3>4. Reading(v)'  BY <3>1, <3>2 DEF Reading, NotTwice
    <3>5. v = work'[j]  BY <3>1, <3>2
    <3>. QED  BY <3>3, <3>4, <3>5
  <2>. QED  BY <2>1, <2>2
<1>4. RowsApart'  BY <1>1 DEF RowsApart
<1>. QED  BY <1>3, <1>4 DEF Doing

\* The caches after an eviction of at least what has been written.
LEMMA AfterEviction ==
    ASSUME BulkTyped, OutOfCaches, BulkCachesCoherent, NEW k \in BulkCallers, NEW w \in Works, Becomes(k, w),
           NEW is \in SUBSET RowIds, EvictRows(is), table' = table,
           \A i \in RowIds \ is : w.mine[i] # Unchanged => work[k].mine[i] # Unchanged
    PROVE  /\ OutOfCaches' /\ BulkCachesCoherent'
           /\ cachedRow' \in [RowIds -> Nat] /\ counted' \in Int /\ raced' \subseteq RowIds \cup {TheCount}
<1>1. work'[k] = w /\ \A j \in BulkCallers \ {k} : work'[j] = work[j]  BY OthersStay
<1>2. /\ cachedRow' = [i \in RowIds |-> IF i \in is THEN NoVersion ELSE cachedRow[i]]
      /\ counted' = NotCounted /\ raced' = raced \ (is \cup {TheCount})
  BY DEF EvictRows
<1>3. \A i \in RowIds : i # TheCount  BY BulkIds DEF TheCount
<1>4. ASSUME NEW j \in BulkCallers, NEW i \in RowIds, work'[j].mine[i] # Unchanged
      PROVE  cachedRow'[i] = NoVersion \/ i \in raced'
  <2>1. CASE i \in is  BY <1>2, <2>1
  <2>2. CASE i \notin is
    <3>1. work[j].mine[i] # Unchanged  BY <1>1, <1>4, <2>2
    <3>2. cachedRow[i] = NoVersion \/ i \in raced  BY <3>1 DEF OutOfCaches
    <3>. QED  BY <1>2, <1>3, <2>2, <3>2
  <2>. QED  BY <2>1, <2>2
<1>5. OutOfCaches'  BY <1>2, <1>4 DEF OutOfCaches
<1>6. BulkCachesCoherent'
  <2>1. ASSUME NEW i \in RowIds \ raced' PROVE cachedRow'[i] \in {NoVersion, table'[i]}
    <3>1. CASE i \in is  BY <1>2, <3>1
    <3>2. CASE i \notin is
      <4>1. i \notin raced  BY <1>2, <1>3, <2>1, <3>2
      <4>. QED  BY <1>2, <3>2, <4>1 DEF BulkCachesCoherent
    <3>. QED  BY <3>1, <3>2
  <2>. QED  BY <1>2, <2>1 DEF BulkCachesCoherent
<1>7. cachedRow' \in [RowIds -> Nat]  BY <1>2 DEF BulkTyped, NoVersion
<1>. QED  BY <1>2, <1>5, <1>6, <1>7 DEF BulkTyped, NotCounted

LEMMA CachesLeft ==
    ASSUME BulkTyped, OutOfCaches, BulkCachesCoherent, NEW k \in BulkCallers, NEW w \in Works, Becomes(k, w),
           KeepCaches, table' = table,
           \A i \in RowIds : w.mine[i] # Unchanged => work[k].mine[i] # Unchanged
    PROVE  /\ OutOfCaches' /\ BulkCachesCoherent'
           /\ cachedRow' \in [RowIds -> Nat] /\ counted' \in Int /\ raced' \subseteq RowIds \cup {TheCount}
<1>1. work'[k] = w /\ \A j \in BulkCallers \ {k} : work'[j] = work[j]  BY OthersStay
<1>2. UNCHANGED <<cachedRow, counted, raced>>  BY DEF KeepCaches
<1>3. OutOfCaches'  BY <1>1, <1>2 DEF OutOfCaches
<1>4. BulkCachesCoherent'  BY <1>2 DEF BulkCachesCoherent, RowsThere
<1>. QED  BY <1>2, <1>3, <1>4 DEF BulkTyped

LEMMA HistoryKept ==
    ASSUME BulkTyped, NoSaveLost, table' = table, UNCHANGED <<updates, upserted>>
    PROVE  /\ NoSaveLost' /\ table' \in [RowIds -> 0..MaxRowVersion]
           /\ updates' \in [RowIds -> Nat] /\ upserted' \subseteq RowIds
<1>. QED  BY DEF BulkTyped, NoSaveLost

LEMMA FreshWork ==
    /\ NoWork \in Works /\ NoWork.mine = NoChange /\ NoWork.todo = <<>> /\ NoWork.news = 0
<1>1. NoWork = [op |-> "none", todo |-> <<>>, news |-> 0, mine |-> NoChange, got |-> NoVersion]  BY DEF NoWork
<1>. QED  BY <1>1, NoWorkIs

LEMMA NoneWrote ==
    ASSUME NEW w \in Works, w.mine = NoChange
    PROVE  Wrote(w) /\ Wrote(w)'
<1>1. \A i \in RowIds : w.mine[i] = Unchanged  BY NoWorkIs
<1>2. \A i \in RowIds : w.mine[i] = -1  BY <1>1 DEF Unchanged
<1>3. \A n \in 1..Len(w.todo) : w.todo[n].id \in RowIds
  <2>1. w.todo \in Seq(Items)  BY DEF Works
  <2>2. \A n \in 1..Len(w.todo) : w.todo[n] \in Items  BY <2>1
  <2>3. \A x \in Items : x.id \in Stored  BY DEF Items
  <2>. QED  BY <2>2, <2>3, BulkIds
<1>4. \A i \in 1..MaxInserted : 100 + i \in RowIds  BY DEF RowIds, NewIds
<1>5. Stored \subseteq RowIds  BY BulkIds
<1>6. -1 \in -1..MaxRowVersion  BY BulkAssumption
<1>7. Wrote(w)  BY <1>1, <1>2, <1>3, <1>4, <1>5, <1>6 DEF Wrote
<1>8. Wrote(w)'  BY <1>1, <1>2, <1>3, <1>4, <1>5, <1>6 DEF Wrote
<1>. QED  BY <1>7, <1>8

LEMMA CalledInv ==
    ASSUME BulkInv, NEW k \in BulkCallers, NEW w \in Works, w.op # "none", w.mine = NoChange, Reading(w),
           BulkCalled(k, w), UNCHANGED <<table, drawn>>, KeepCaches, KeepHistory
    PROVE  BulkInv'
<1>0. BulkTyped /\ Doing /\ OutOfCaches /\ NoSaveLost /\ RowsApart /\ BulkCachesCoherent /\ NoConnectionLost
  BY DEF BulkInv
<1>1. Becomes(k, w) /\ work[k].op = "none" /\ out' = out + 1  BY DEF BulkCalled, Becomes
<1>2. UNCHANGED <<updates, upserted, leaked>>  BY DEF KeepHistory
<1>3. \A i \in RowIds : w.mine[i] = Unchanged  BY NoWorkIs
<1>4. work' \in [BulkCallers -> Works]  BY <1>0, <1>1, OthersStay
<1>5. Doing' /\ RowsApart'
  <2>1. Wrote(w)'  BY NoneWrote
  <2>2. drawn' \in Nat /\ drawn' >= drawn  BY <1>0, BulkAssumption DEF BulkTyped
  <2>. QED  BY <1>0, <1>1, <1>3, <2>1, <2>2, WorkGoesOn
<1>6. /\ OutOfCaches' /\ BulkCachesCoherent'
      /\ cachedRow' \in [RowIds -> Nat] /\ counted' \in Int /\ raced' \subseteq RowIds \cup {TheCount}
  BY <1>0, <1>1, <1>3, CachesLeft
<1>7. NoConnectionLost' /\ out' \in Int /\ leaked' \in Int  BY <1>0, <1>1, <1>2, OneMore
<1>8. /\ NoSaveLost' /\ table' \in [RowIds -> 0..MaxRowVersion]
      /\ updates' \in [RowIds -> Nat] /\ upserted' \subseteq RowIds
  BY <1>0, <1>2, HistoryKept
<1>9. drawn' \in 0..MaxInserted  BY <1>0 DEF BulkTyped
<1>10. BulkTyped'  BY <1>4, <1>6, <1>7, <1>8, <1>9 DEF BulkTyped
<1>. QED  BY <1>5, <1>6, <1>7, <1>8, <1>10 DEF BulkInv

\* A call that gives up its connection, or loses it, having changed no table.
LEMMA EndedInv ==
    ASSUME BulkInv, NEW k \in BulkCallers, work[k].op # "none", Becomes(k, NoWork),
           \/ out' = out - 1 /\ leaked' = leaked
           \/ out' = out /\ leaked' = leaked + 1,
           UNCHANGED <<table, drawn, updates, upserted>>, KeepCaches
    PROVE  BulkInv'
<1>0. BulkTyped /\ Doing /\ OutOfCaches /\ NoSaveLost /\ RowsApart /\ BulkCachesCoherent /\ NoConnectionLost
  BY DEF BulkInv
<1>1. NoWork \in Works /\ NoWork.op = "none" /\ Wrote(NoWork)' /\ Reading(NoWork)  BY NoWorkIs
<1>3. \A i \in RowIds : NoWork.mine[i] = Unchanged  BY NoWorkIs
<1>4. work' \in [BulkCallers -> Works]  BY <1>0, <1>1, OthersStay
<1>5. Doing' /\ RowsApart'
  <2>2. drawn' \in Nat /\ drawn' >= drawn  BY <1>0, BulkAssumption DEF BulkTyped
  <2>. QED  BY <1>0, <1>1, <1>3, <2>2, WorkGoesOn
<1>6. /\ OutOfCaches' /\ BulkCachesCoherent'
      /\ cachedRow' \in [RowIds -> Nat] /\ counted' \in Int /\ raced' \subseteq RowIds \cup {TheCount}
  BY <1>0, <1>1, <1>3, CachesLeft
<1>7. NoConnectionLost' /\ out' \in Int /\ leaked' \in Int  BY <1>0, <1>1, OneLess
<1>8. /\ NoSaveLost' /\ table' \in [RowIds -> 0..MaxRowVersion]
      /\ updates' \in [RowIds -> Nat] /\ upserted' \subseteq RowIds
  BY <1>0, HistoryKept
<1>9. drawn' \in 0..MaxInserted  BY <1>0 DEF BulkTyped
<1>10. BulkTyped'  BY <1>4, <1>6, <1>7, <1>8, <1>9 DEF BulkTyped
<1>. QED  BY <1>5, <1>6, <1>7, <1>8, <1>10 DEF BulkInv

\* A statement of a transaction: the rows it writes leave the caches.
LEMMA StatementInv ==
    ASSUME BulkInv, NEW k \in BulkCallers, NEW w \in Works, Becomes(k, w), work[k].op # "none", w.op # "none",
           NEW is \in SUBSET RowIds, EvictRows(is), UNCHANGED <<table, out>>, KeepHistory,
           drawn' \in 0..MaxInserted, drawn' >= drawn, Wrote(w)', Reading(w),
           \A i \in RowIds \ is : w.mine[i] # Unchanged => work[k].mine[i] # Unchanged,
           \A j \in BulkCallers \ {k} : \A i \in RowIds : Unchanged \in {w.mine[i], work[j].mine[i]}
    PROVE  BulkInv'
<1>0. BulkTyped /\ Doing /\ OutOfCaches /\ NoSaveLost /\ RowsApart /\ BulkCachesCoherent /\ NoConnectionLost
  BY DEF BulkInv
<1>2. UNCHANGED <<updates, upserted, leaked>>  BY DEF KeepHistory
<1>4. work' \in [BulkCallers -> Works]  BY <1>0, OthersStay
<1>5. Doing' /\ RowsApart'
  <2>2. drawn' \in Nat  BY BulkAssumption
  <2>. QED  BY <1>0, <2>2, WorkGoesOn
<1>6. /\ OutOfCaches' /\ BulkCachesCoherent'
      /\ cachedRow' \in [RowIds -> Nat] /\ counted' \in Int /\ raced' \subseteq RowIds \cup {TheCount}
  BY <1>0, AfterEviction
<1>7. NoConnectionLost' /\ out' \in Int /\ leaked' \in Int  BY <1>0, <1>2, AsMany
<1>8. /\ NoSaveLost' /\ table' \in [RowIds -> 0..MaxRowVersion]
      /\ updates' \in [RowIds -> Nat] /\ upserted' \subseteq RowIds
  BY <1>0, <1>2, HistoryKept
<1>10. BulkTyped'  BY <1>4, <1>6, <1>7, <1>8 DEF BulkTyped
<1>. QED  BY <1>5, <1>6, <1>7, <1>8, <1>10 DEF BulkInv

LEMMA CountAllInv ==
    ASSUME BulkInv, NEW k \in BulkCallers, CountAll(k)
    PROVE  BulkInv'
<1>1. PICK w : w = [NoWork EXCEPT !.op = "count", !.got = RowsThere]  OBVIOUS
<1>2. BulkCalled(k, w) /\ UNCHANGED <<table, drawn>> /\ KeepCaches /\ KeepHistory
  BY <1>1 DEF CountAll
<1>3. w \in Works /\ w.op = "count" /\ w.mine = NoWork.mine /\ w.todo = NoWork.todo
  BY <1>1, FreshWork, RowsAreFinite DEF Works, BulkOps
<1>4. w.mine = NoChange /\ w.todo = <<>>  BY <1>3, FreshWork
<1>5. Reading(w)  BY <1>3, <1>4 DEF Reading, NotTwice
<1>. QED  BY <1>2, <1>3, <1>4, <1>5, CalledInv

LEMMA OpenStreamInv ==
    ASSUME BulkInv, NEW k \in BulkCallers, OpenStream(k)
    PROVE  BulkInv'
<1>1. PICK w : w = [NoWork EXCEPT !.op = "stream", !.got = RowsThere]  OBVIOUS
<1>2. BulkCalled(k, w) /\ UNCHANGED <<table, drawn>> /\ KeepCaches /\ KeepHistory
  BY <1>1 DEF OpenStream
<1>3. w \in Works /\ w.op = "stream" /\ w.mine = NoWork.mine /\ w.todo = NoWork.todo
  BY <1>1, FreshWork, RowsAreFinite DEF Works, BulkOps
<1>4. w.mine = NoChange /\ w.todo = <<>>  BY <1>3, FreshWork
<1>5. Reading(w)  BY <1>3, <1>4 DEF Reading, NotTwice
<1>. QED  BY <1>2, <1>3, <1>4, <1>5, CalledInv

LEMMA FindOneInv ==
    ASSUME BulkInv, NEW k \in BulkCallers, NEW i \in Stored, FindOne(k, i)
    PROVE  BulkInv'
<1>0. PICK x : x = [id |-> i, version |-> 0]  OBVIOUS
<1>1. PICK w : w = [NoWork EXCEPT !.op = "find", !.todo = <<x>>, !.got = table[i]]  OBVIOUS
<1>2. BulkCalled(k, w) /\ UNCHANGED <<table, drawn>> /\ KeepCaches /\ KeepHistory
  BY <1>0, <1>1 DEF FindOne
<1>3. x \in Items /\ <<x>> \in Seq(Items)
  <2>1. x \in Items  BY <1>0 DEF Items
  <2>. QED  BY <2>1
<1>4. table[i] \in 0..MaxRowVersion /\ table[i] \in Nat
  <2>1. table[i] \in 0..MaxRowVersion  BY BulkIds DEF BulkInv, BulkTyped
  <2>. QED  BY <2>1, BulkAssumption
<1>5. w \in Works /\ w.op = "find" /\ w.mine = NoWork.mine /\ w.todo = <<x>> /\ w.got = table[i]
  BY <1>1, <1>3, <1>4, FreshWork DEF Works, BulkOps
<1>6. w.mine = NoChange  BY <1>5, FreshWork
<1>7. Reading(w)
  <2>1. Len(<<x>>) = 1  OBVIOUS
  <2>2. NotTwice(w.todo)  BY <1>5, <2>1 DEF NotTwice
  <2>. QED  BY <1>4, <1>5, <2>1, <2>2 DEF Reading
<1>. QED  BY <1>2, <1>5, <1>6, <1>7, CalledInv

LEMMA CloseStreamInv ==
    ASSUME BulkInv, NEW k \in BulkCallers, CloseStream(k)
    PROVE  BulkInv'
<1>1. /\ Becomes(k, NoWork) /\ out' = out - 1 /\ work[k].op # "none"
      /\ UNCHANGED <<table, drawn, updates, upserted, leaked>> /\ KeepCaches
  BY DEF CloseStream, Ends, Becomes, KeepHistory
<1>. QED  BY <1>1, EndedInv

LEMMA AbandonStreamInv ==
    ASSUME BulkInv, NEW k \in BulkCallers, AbandonStream(k)
    PROVE  BulkInv'
<1>1. /\ Becomes(k, NoWork) /\ out' = out /\ leaked' = leaked + 1 /\ work[k].op # "none"
      /\ UNCHANGED <<table, drawn, updates, upserted>> /\ KeepCaches
  BY DEF AbandonStream, Becomes
<1>. QED  BY <1>1, EndedInv

LEMMA FailAllInv ==
    ASSUME BulkInv, NEW k \in BulkCallers, FailAll(k)
    PROVE  BulkInv'
<1>1. /\ Becomes(k, NoWork) /\ out' = out - 1 /\ work[k].op # "none"
      /\ UNCHANGED <<table, drawn, updates, upserted, leaked>> /\ KeepCaches
  BY DEF FailAll, Rollback, Ends, Becomes, KeepHistory
<1>. QED  BY <1>1, EndedInv

LEMMA NextOfStreamInv ==
    ASSUME BulkInv, NEW k \in BulkCallers, NextOfStream(k)
    PROVE  BulkInv'
<1>0. BulkTyped /\ Doing /\ OutOfCaches /\ NoSaveLost /\ RowsApart /\ BulkCachesCoherent /\ NoConnectionLost
  BY DEF BulkInv
<1>1. PICK v \in Works : v = work[k]  BY <1>0 DEF BulkTyped
<1>2. PICK w : w = [v EXCEPT !.got = @ - 1]  OBVIOUS
<1>3. /\ v.op = "stream" /\ v.got > 0 /\ Becomes(k, w) /\ UNCHANGED <<table, drawn, out>>
      /\ KeepCaches /\ KeepHistory
  BY <1>1, <1>2 DEF NextOfStream, Becomes
<1>4. w \in Works /\ w.op = "stream" /\ w.mine = v.mine /\ w.todo = v.todo
  <2>1. v.got \in Nat /\ v.got - 1 \in Nat  BY <1>3 DEF Works
  <2>. QED  BY <1>2, <1>3, <2>1 DEF Works, BulkOps
<1>5. v.mine = NoChange /\ Reading(v)  BY <1>0, <1>1, <1>3 DEF Doing, Wrote
<1>6. Reading(w) /\ Wrote(w)'  BY <1>4, <1>5, NoneWrote DEF Reading
<1>7. \A i \in RowIds : w.mine[i] = Unchanged  BY <1>4, <1>5, NoWorkIs
<1>8. work' \in [BulkCallers -> Works]  BY <1>0, <1>3, <1>4, OthersStay
<1>9. Doing' /\ RowsApart'
  <2>2. drawn' \in Nat /\ drawn' >= drawn  BY <1>0, <1>3, BulkAssumption DEF BulkTyped
  <2>. QED  BY <1>0, <1>3, <1>4, <1>6, <1>7, <2>2, WorkGoesOn
<1>10. /\ OutOfCaches' /\ BulkCachesCoherent'
       /\ cachedRow' \in [RowIds -> Nat] /\ counted' \in Int /\ raced' \subseteq RowIds \cup {TheCount}
  BY <1>0, <1>3, <1>4, <1>7, CachesLeft
<1>11. NoConnectionLost' /\ out' \in Int /\ leaked' \in Int
  BY <1>0, <1>1, <1>3, <1>4, AsMany DEF KeepHistory
<1>12. /\ NoSaveLost' /\ table' \in [RowIds -> 0..MaxRowVersion]
       /\ updates' \in [RowIds -> Nat] /\ upserted' \subseteq RowIds
  BY <1>0, <1>3, HistoryKept DEF KeepHistory
<1>13. drawn' \in 0..MaxInserted  BY <1>0, <1>3 DEF BulkTyped
<1>14. BulkTyped'  BY <1>8, <1>10, <1>11, <1>12, <1>13 DEF BulkTyped
<1>. QED  BY <1>9, <1>10, <1>11, <1>12, <1>14 DEF BulkInv

\* The list of a call: some ids, each with a version.
ListOf(ids, stale) ==
    [n \in DOMAIN ids |-> [id |-> ids[n], version |-> IF stale THEN 1 ELSE table[ids[n]]]]

AList(items) == items \in Seq(Items) /\ NotTwice(items)

LEMMA ListIs ==
    ASSUME BulkTyped, NEW ids \in SetToSeqs(Stored) \cup {<<>>}, NEW stale \in BOOLEAN
    PROVE  AList(ListOf(ids, stale))
<1>1. PICK n \in Nat : ids \in [1..n -> Stored] /\ \A i, j \in 1..n : i # j => ids[i] # ids[j]
  <2>1. CASE ids \in SetToSeqs(Stored)
    <3>1. PICK n \in Nat : n = Cardinality(Stored)  BY RowsAreFinite
    <3>. QED  BY <2>1, <3>1 DEF SetToSeqs
  <2>2. CASE ids = <<>>
    <3>1. ids \in [1..0 -> Stored] /\ 0 \in Nat  BY <2>2
    <3>. QED  BY <3>1
  <2>. QED  BY <2>1, <2>2
<1>2. \A i \in Stored : table[i] \in Nat
  <2>1. \A i \in Stored : table[i] \in 0..MaxRowVersion  BY BulkIds DEF BulkTyped
  <2>. QED  BY <2>1, BulkAssumption
<1>3. PICK l : l = ListOf(ids, stale)  OBVIOUS
<1>4. ASSUME NEW i \in 1..n PROVE l[i] \in Items /\ l[i].id = ids[i]
  <2>1. ids[i] \in Stored  BY <1>1
  <2>2. l[i] = [id |-> ids[i], version |-> IF stale THEN 1 ELSE table[ids[i]]]  BY <1>1, <1>3 DEF ListOf
  <2>3. (IF stale THEN 1 ELSE table[ids[i]]) \in Nat  BY <1>2, <2>1
  <2>. QED  BY <2>1, <2>2, <2>3 DEF Items
<1>5. l = [i \in 1..n |-> l[i]]  BY <1>1, <1>3 DEF ListOf
<1>6. l \in Seq(Items) /\ Len(l) = n
  <2>1. l \in [1..n -> Items]  BY <1>4, <1>5
  <2>. QED  BY <2>1
<1>7. NotTwice(l)  BY <1>1, <1>4, <1>6 DEF NotTwice
<1>. QED  BY <1>3, <1>6, <1>7 DEF AList

LEMMA WriteAllInv ==
    ASSUME BulkInv, NEW k \in BulkCallers, NEW op \in {"save", "upsert", "delete"},
           NEW items, AList(items), NEW news \in {0, 1}, WriteAll(k, op, items, news)
    PROVE  BulkInv'
<1>1. PICK w : w = [NoWork EXCEPT !.op = op, !.todo = items, !.news = news]  OBVIOUS
<1>2. BulkCalled(k, w) /\ UNCHANGED <<table, drawn>> /\ KeepCaches /\ KeepHistory
  BY <1>1 DEF WriteAll
<1>3. w \in Works /\ w.op = op /\ w.mine = NoWork.mine /\ w.todo = items
  <2>1. op \in BulkOps /\ news \in Nat /\ items \in Seq(Items)  BY DEF BulkOps, AList
  <2>2. NoWork \in Works  BY FreshWork
  <2>. QED  BY <1>1, <2>1, <2>2 DEF Works
<1>4. w.mine = NoChange /\ w.op # "none" /\ w.op # "find"  BY <1>3, FreshWork
<1>5. Reading(w)  BY <1>3, <1>4 DEF Reading, AList
<1>. QED  BY <1>2, <1>3, <1>4, <1>5, CalledInv

\* The rows of an INSERT are new to everybody.
LEMMA BulkInsertInv ==
    ASSUME BulkInv, NEW k \in BulkCallers, BulkInsert(k)
    PROVE  BulkInv'
<1>0. BulkTyped /\ Doing /\ RowsApart  BY DEF BulkInv
<1>1. PICK v \in Works : v = work[k]  BY <1>0 DEF BulkTyped
<1>2. PICK n \in Nat : n = v.news  BY DEF Works
<1>3. PICK ids : ids = {100 + i : i \in (drawn + 1)..(drawn + n)}  OBVIOUS
<1>4. PICK mine : mine = [i \in RowIds |-> IF i \in ids THEN 1 ELSE v.mine[i]]  OBVIOUS
<1>5. PICK w : w = [v EXCEPT !.news = 0, !.mine = mine]  OBVIOUS
<1>6. /\ v.op = "save" /\ n > 0 /\ drawn + n <= MaxInserted /\ drawn' = drawn + n
      /\ Becomes(k, w) /\ EvictRows(RowIds) /\ UNCHANGED <<table, out>> /\ KeepHistory
  BY <1>1, <1>2, <1>3, <1>4, <1>5 DEF BulkInsert, Becomes
<1>7. w \in Works /\ w.op = "save" /\ w.todo = v.todo /\ w.mine = mine
  <2>1. mine \in [RowIds -> Int]  BY <1>4 DEF Works
  <2>. QED  BY <1>5, <1>6, <2>1 DEF Works, BulkOps
<1>8. drawn \in Nat /\ MaxInserted \in Nat /\ MaxRowVersion \in Nat /\ MaxRowVersion > 0
  BY <1>0, BulkAssumption DEF BulkTyped
<1>9. drawn' \in 0..MaxInserted /\ drawn' >= drawn  BY <1>6, <1>8
<1>10. Wrote(v) /\ Reading(v)  BY <1>0, <1>1 DEF Doing
<1>11. /\ ids \subseteq NewIds /\ ids \cap Stored = {}
       /\ \A i \in 1..MaxInserted : 100 + i \in ids => i <= drawn'
       /\ \A i \in ids : \E j \in 1..MaxInserted : i = 100 + j /\ j > drawn
  <2>1. ASSUME NEW i \in ids PROVE \E j \in 1..MaxInserted : i = 100 + j /\ j > drawn
    <3>1. PICK j \in (drawn + 1)..(drawn + n) : i = 100 + j  BY <1>3
    <3>2. j \in 1..MaxInserted /\ j > drawn  BY <1>6, <1>8
    <3>. QED  BY <3>1, <3>2
  <2>2. ids \subseteq NewIds  BY <2>1 DEF NewIds
  <2>3. ids \cap Stored = {}  BY <2>2, BulkIds
  <2>4. ASSUME NEW i \in 1..MaxInserted, 100 + i \in ids PROVE i <= drawn'
    <3>1. PICK j \in (drawn + 1)..(drawn + n) : 100 + i = 100 + j  BY <1>3, <2>4
    <3>2. i = j  BY <1>8, <3>1
    <3>. QED  BY <1>6, <1>8, <3>2
  <2>. QED  BY <2>1, <2>2, <2>3, <2>4
<1>12. \A i \in RowIds : mine[i] = IF i \in ids THEN 1 ELSE v.mine[i]  BY <1>4
<1>13. Wrote(w)'
  <2>1. \A i \in 1..Len(w.todo) : mine[w.todo[i].id] = Unchanged
    <3>1. ASSUME NEW i \in 1..Len(w.todo) PROVE mine[w.todo[i].id] = Unchanged
      <4>1. w.todo \in Seq(Items)  BY <1>7 DEF Works
      <4>2. w.todo[i] \in Items  BY <4>1
      <4>3. w.todo[i].id \in Stored  BY <4>2 DEF Items
      <4>4. v.mine[w.todo[i].id] = Unchanged  BY <1>6, <1>7, <1>10 DEF Wrote
      <4>. QED  BY <1>11, <1>12, <4>3, <4>4, BulkIds
    <3>. QED  BY <3>1
  <2>2. \A i \in RowIds : mine[i] \in -1..MaxRowVersion  BY <1>8, <1>10, <1>12 DEF Wrote
  <2>3. \A i \in Stored : mine[i] # Unchanged => table'[i] # NoVersion /\ mine[i] = table'[i] + 1
    BY <1>6, <1>10, <1>11, <1>12, BulkIds DEF Wrote
  <2>4. ASSUME NEW i \in 1..MaxInserted, mine[100 + i] # Unchanged PROVE i <= drawn'
    <3>1. 100 + i \in RowIds  BY DEF RowIds, NewIds
    <3>2. CASE 100 + i \in ids  BY <1>11, <3>2
    <3>3. CASE 100 + i \notin ids
      <4>1. v.mine[100 + i] # Unchanged  BY <1>12, <2>4, <3>1, <3>3
      <4>2. i <= drawn  BY <1>10, <4>1 DEF Wrote
      <4>. QED  BY <1>8, <1>9, <4>2
    <3>. QED  BY <3>2, <3>3
  <2>. QED  BY <1>7, <2>1, <2>2, <2>3, <2>4 DEF Wrote
<1>14. Reading(w)  BY <1>7, <1>10 DEF Reading
<1>15. ASSUME NEW j \in BulkCallers \ {k}, NEW i \in RowIds PROVE Unchanged \in {w.mine[i], work[j].mine[i]}
  <2>1. CASE i \in ids
    <3>1. PICK m \in 1..MaxInserted : i = 100 + m /\ m > drawn  BY <1>11, <2>1
    <3>2. Wrote(work[j])  BY <1>0 DEF Doing
    <3>3. work[j].mine[100 + m] # Unchanged => m <= drawn  BY <3>2 DEF Wrote
    <3>4. ~(m <= drawn)  BY <1>8, <3>1
    <3>. QED  BY <3>1, <3>3, <3>4
  <2>2. CASE i \notin ids
    <3>1. w.mine[i] = work[k].mine[i]  BY <1>1, <1>7, <1>12, <2>2
    <3>. QED  BY <1>0, <3>1 DEF RowsApart
  <2>. QED  BY <2>1, <2>2
<1>16. \A i \in RowIds \ RowIds : FALSE  OBVIOUS
<1>17. RowIds \in SUBSET RowIds /\ work[k].op # "none" /\ w.op # "none"  BY <1>1, <1>6, <1>7
<1>. QED  BY <1>6, <1>7, <1>9, <1>13, <1>14, <1>15, <1>16, <1>17, StatementInv

LEMMA UpsertStatementInv ==
    ASSUME BulkInv, NEW k \in BulkCallers, UpsertStatement(k)
    PROVE  BulkInv'
<1>0. BulkTyped /\ Doing /\ RowsApart  BY DEF BulkInv
<1>1. PICK v \in Works : v = work[k]  BY <1>0 DEF BulkTyped
<1>3. PICK items : items = ToSet(v.todo)  OBVIOUS
<1>4. PICK mine : mine = [i \in RowIds |-> IF \E x \in items : x.id = i
                                           THEN (CHOOSE x \in items : x.id = i).version + 1 ELSE v.mine[i]]  OBVIOUS
<1>5. PICK w : w = [v EXCEPT !.todo = <<>>, !.mine = mine]  OBVIOUS
<1>6. /\ v.op = "upsert" /\ \A x \in items : ~LockedFor(k, x.id) /\ x.version < MaxRowVersion
      /\ Becomes(k, w) /\ EvictRows(RowIds) /\ UNCHANGED <<table, out, drawn>> /\ KeepHistory
  BY <1>1, <1>3, <1>4, <1>5 DEF UpsertStatement, Becomes
<1>7. items \subseteq Items
  <2>1. v.todo \in Seq(Items)  BY DEF Works
  <2>. QED  BY <1>3, <2>1 DEF ToSet
<1>8. /\ drawn \in Nat /\ MaxInserted \in Nat /\ MaxRowVersion \in Nat /\ MaxRowVersion > 0
      /\ drawn' \in 0..MaxInserted /\ drawn' >= drawn
  BY <1>0, <1>6, BulkAssumption DEF BulkTyped
<1>9. ASSUME NEW i \in RowIds, \E x \in items : x.id = i
      PROVE  mine[i] \in Nat /\ mine[i] <= MaxRowVersion /\ i \in Stored
  <2>1. PICK x : x = CHOOSE y \in items : y.id = i  OBVIOUS
  <2>2. x \in items /\ x.id = i  BY <1>9, <2>1
  <2>3. x.version \in Nat /\ x.version < MaxRowVersion /\ x.id \in Stored  BY <1>6, <1>7, <2>2 DEF Items
  <2>4. mine[i] = x.version + 1  BY <1>4, <1>9, <2>1
  <2>. QED  BY <1>8, <2>2, <2>3, <2>4
<1>10. \A i \in RowIds : ~(\E x \in items : x.id = i) => mine[i] = v.mine[i]  BY <1>4
<1>11. Wrote(v) /\ Reading(v)  BY <1>0, <1>1 DEF Doing
<1>12. w \in Works /\ w.op = "upsert" /\ w.todo = <<>> /\ w.mine = mine
  <2>0. \A i \in RowIds : v.mine[i] \in Int  BY DEF Works
  <2>1. \A i \in RowIds : mine[i] \in Int  BY <1>9, <1>10, <2>0
  <2>2. mine \in [RowIds -> Int]  BY <1>4, <2>1
  <2>3. <<>> \in Seq(Items)  OBVIOUS
  <2>. QED  BY <1>5, <1>6, <2>2, <2>3 DEF Works, BulkOps
<1>13. Wrote(w)'
  <2>1. \A i \in RowIds : mine[i] \in -1..MaxRowVersion  BY <1>8, <1>9, <1>10, <1>11 DEF Wrote
  <2>2. ASSUME NEW i \in 1..MaxInserted, mine[100 + i] # Unchanged PROVE i <= drawn'
    <3>1. 100 + i \in RowIds /\ 100 + i \in NewIds  BY DEF RowIds, NewIds
    <3>2. 100 + i \notin Stored  BY <3>1, BulkIds
    <3>3. mine[100 + i] = v.mine[100 + i]  BY <1>9, <1>10, <3>1, <3>2
    <3>. QED  BY <1>6, <1>11, <2>2, <3>3 DEF Wrote
  <2>3. Len(w.todo) = 0  BY <1>12
  <2>. QED  BY <1>12, <2>1, <2>2, <2>3 DEF Wrote
<1>14. Reading(w)
  <2>1. Len(w.todo) = 0  BY <1>12
  <2>. QED  BY <1>12, <2>1 DEF Reading, NotTwice
<1>15. ASSUME NEW j \in BulkCallers \ {k}, NEW i \in RowIds PROVE Unchanged \in {w.mine[i], work[j].mine[i]}
  <2>1. CASE \E x \in items : x.id = i
    <3>1. ~LockedFor(k, i)  BY <1>6, <2>1
    <3>. QED  BY <3>1 DEF LockedFor
  <2>2. CASE ~(\E x \in items : x.id = i)
    <3>1. w.mine[i] = work[k].mine[i]  BY <1>1, <1>10, <1>12, <2>2
    <3>. QED  BY <1>0, <3>1 DEF RowsApart
  <2>. QED  BY <2>1, <2>2
<1>16. \A i \in RowIds \ RowIds : FALSE  OBVIOUS
<1>17. RowIds \in SUBSET RowIds /\ work[k].op # "none" /\ w.op # "none"  BY <1>1, <1>6, <1>12
<1>. QED  BY <1>6, <1>8, <1>12, <1>13, <1>14, <1>15, <1>16, <1>17, StatementInv

LEMMA WriteNextInv ==
    ASSUME BulkInv, NEW k \in BulkCallers, WriteNext(k)
    PROVE  BulkInv'
<1>0. BulkTyped /\ Doing /\ RowsApart  BY DEF BulkInv
<1>1. PICK v \in Works : v = work[k]  BY <1>0 DEF BulkTyped
<1>2. v.todo \in Seq(Items) /\ v.todo # <<>> /\ v.op \in {"save", "delete"}  BY <1>1 DEF WriteNext, Works
<1>3. PICK x \in Items : x = Head(v.todo)  BY <1>2
<1>4. PICK i \in Stored : i = x.id  BY DEF Items
<1>5. i \in RowIds /\ x.version \in Nat /\ x.version < MaxRowVersion /\ ~LockedFor(k, i)
  <2>1. i \in RowIds  BY BulkIds
  <2>2. x.version \in Nat  BY DEF Items
  <2>3. ~LockedFor(k, i) /\ x.version < MaxRowVersion  BY <1>1, <1>3, <1>4 DEF WriteNext
  <2>. QED  BY <2>1, <2>2, <2>3
<1>6. Wrote(v) /\ Reading(v)  BY <1>0, <1>1 DEF Doing
<1>7. CASE Rollback(k) /\ KeepCaches
  <2>1. /\ Becomes(k, NoWork) /\ out' = out - 1 /\ work[k].op # "none"
        /\ UNCHANGED <<table, drawn, updates, upserted, leaked>> /\ KeepCaches
    BY <1>1, <1>2, <1>7 DEF Rollback, Ends, Becomes, KeepHistory
  <2>. QED  BY <2>1, EndedInv
<1>8. CASE ~(Rollback(k) /\ KeepCaches)
  <2>1. PICK new : new = IF v.op = "save" THEN x.version + 1 ELSE NoVersion  OBVIOUS
  <2>2. PICK mine : mine = [v.mine EXCEPT ![i] = new]  OBVIOUS
  <2>3. PICK w : w = [v EXCEPT !.todo = Tail(@), !.mine[i] = new]  OBVIOUS
  <2>4. /\ Seen(k, i) = x.version /\ x.version # NoVersion /\ Becomes(k, w) /\ EvictRows({i})
        /\ UNCHANGED <<table, out, drawn>> /\ KeepHistory
    BY <1>1, <1>3, <1>4, <1>8, <2>1, <2>3 DEF WriteNext, Becomes
  <2>5. new \in Int /\ new \in -1..MaxRowVersion
    <3>1. MaxRowVersion \in Nat  BY BulkAssumption
    <3>. QED  BY <1>5, <2>1, <3>1 DEF NoVersion
  <2>6. w \in Works /\ w.op = v.op /\ w.todo = Tail(v.todo) /\ w.mine = mine
    <3>1. Tail(v.todo) \in Seq(Items)  BY <1>2
    <3>2. v.mine \in [RowIds -> Int] /\ mine \in [RowIds -> Int]  BY <1>5, <2>2, <2>5 DEF Works
    <3>. QED  BY <2>2, <2>3, <3>1, <3>2 DEF Works
  <2>7. \A j \in RowIds : mine[j] = IF j = i THEN new ELSE v.mine[j]  BY <2>2 DEF Works
  <2>8. PICK n \in Nat : n = Len(v.todo) /\ n > 0  BY <1>2
  <2>9. Len(w.todo) = n - 1 /\ \A m \in 1..n - 1 : w.todo[m] = v.todo[m + 1]  BY <1>2, <2>6, <2>8
  <2>10. v.todo[1] = x  BY <1>2, <1>3
  <2>11. ASSUME NEW m \in 1..n - 1 PROVE w.todo[m].id # i /\ v.mine[w.todo[m].id] = Unchanged /\ w.todo[m].id \in RowIds
    <3>1. m + 1 \in 1..n /\ 1 \in 1..n /\ m + 1 # 1  BY <2>8
    <3>2. w.todo[m] = v.todo[m + 1]  BY <2>9
    <3>3. v.todo[m + 1].id # v.todo[1].id  BY <1>6, <2>8, <3>1 DEF Reading, NotTwice
    <3>4. v.mine[v.todo[m + 1].id] = Unchanged  BY <1>2, <1>6, <2>8, <3>1 DEF Wrote
    <3>5. v.todo[m + 1] \in Items  BY <1>2, <2>8, <3>1
    <3>6. v.todo[m + 1].id \in RowIds  BY <3>5, BulkIds DEF Items
    <3>. QED  BY <1>4, <2>10, <3>2, <3>3, <3>4, <3>6
  <2>12. v.mine[i] = Unchanged
    <3>1. 1 \in 1..Len(v.todo)  BY <2>8
    <3>. QED  BY <1>2, <1>4, <1>6, <2>10, <3>1 DEF Wrote
  <2>13. table[i] = x.version  BY <1>1, <2>4, <2>12 DEF Seen
  <2>14. Wrote(w)'
    <3>1. \A m \in 1..Len(w.todo) : mine[w.todo[m].id] = Unchanged  BY <2>7, <2>9, <2>11
    <3>2. \A j \in RowIds : mine[j] \in -1..MaxRowVersion  BY <1>6, <2>5, <2>7 DEF Wrote
    <3>3. w.op = "save" => \A j \in Stored : mine[j] # Unchanged => table'[j] # NoVersion /\ mine[j] = table'[j] + 1
      <4>1. ASSUME w.op = "save", NEW j \in Stored, mine[j] # Unchanged
            PROVE  table'[j] # NoVersion /\ mine[j] = table'[j] + 1
        <5>1. CASE j = i  BY <1>5, <2>1, <2>4, <2>6, <2>7, <2>13, <4>1, <5>1
        <5>2. CASE j # i
          <6>1. j \in RowIds  BY BulkIds
          <6>2. v.mine[j] # Unchanged /\ mine[j] = v.mine[j]  BY <2>7, <4>1, <5>2, <6>1
          <6>. QED  BY <1>6, <2>4, <2>6, <4>1, <6>2 DEF Wrote
        <5>. QED  BY <5>1, <5>2
      <4>. QED  BY <4>1
    <3>4. w.op = "delete" => \A j \in RowIds : mine[j] \in {Unchanged, NoVersion}
      BY <1>6, <2>1, <2>6, <2>7 DEF Wrote
    <3>5. \A j \in 1..MaxInserted : mine[100 + j] # Unchanged => j <= drawn'
      <4>1. ASSUME NEW j \in 1..MaxInserted PROVE mine[100 + j] = v.mine[100 + j]
        <5>1. 100 + j \in RowIds /\ 100 + j \in NewIds  BY DEF RowIds, NewIds
        <5>2. 100 + j # i  BY <5>1, BulkIds
        <5>. QED  BY <2>7, <5>1, <5>2
      <4>. QED  BY <1>6, <2>4, <4>1 DEF Wrote
    <3>. QED  BY <1>2, <2>6, <3>1, <3>2, <3>3, <3>4, <3>5 DEF Wrote
  <2>15. Reading(w)
    <3>1. ASSUME NEW a \in 1..Len(w.todo), NEW b \in 1..Len(w.todo), w.todo[a].id = w.todo[b].id PROVE a = b
      <4>1. a \in 1..n - 1 /\ b \in 1..n - 1  BY <2>9
      <4>2. a + 1 \in 1..n /\ b + 1 \in 1..n  BY <2>8, <4>1
      <4>3. v.todo[a + 1].id = v.todo[b + 1].id  BY <2>9, <3>1, <4>1
      <4>4. a + 1 = b + 1  BY <1>6, <2>8, <4>2, <4>3 DEF Reading, NotTwice
      <4>. QED  BY <4>1, <4>4
    <3>. QED  BY <1>2, <2>6, <3>1 DEF Reading, NotTwice
  <2>16. ASSUME NEW j \in BulkCallers \ {k}, NEW m \in RowIds PROVE Unchanged \in {w.mine[m], work[j].mine[m]}
    <3>1. CASE m = i  BY <1>5, <3>1 DEF LockedFor
    <3>2. CASE m # i
      <4>1. w.mine[m] = work[k].mine[m]  BY <1>1, <2>6, <2>7, <3>2
      <4>. QED  BY <1>0, <4>1 DEF RowsApart
    <3>. QED  BY <3>1, <3>2
  <2>17. {i} \in SUBSET RowIds /\ \A m \in RowIds \ {i} : w.mine[m] # Unchanged => work[k].mine[m] # Unchanged
    BY <1>1, <1>5, <2>6, <2>7
  <2>18. drawn' \in 0..MaxInserted /\ drawn' >= drawn /\ work[k].op # "none" /\ w.op # "none"
    BY <1>0, <1>1, <1>2, <2>4, <2>6, BulkAssumption DEF BulkTyped
  <2>. QED  BY <2>4, <2>6, <2>14, <2>15, <2>16, <2>17, <2>18, StatementInv
<1>. QED  BY <1>7, <1>8

LEMMA CommitAllInv ==
    ASSUME BulkInv, NEW k \in BulkCallers, CommitAll(k)
    PROVE  BulkInv'
<1>0. BulkTyped /\ Doing /\ OutOfCaches /\ NoSaveLost /\ RowsApart /\ BulkCachesCoherent /\ NoConnectionLost
  BY DEF BulkInv
<1>1. PICK v \in Works : v = work[k]  BY <1>0 DEF BulkTyped
<1>2. PICK changed \in SUBSET RowIds : changed = {i \in RowIds : v.mine[i] # Unchanged}  OBVIOUS
<1>3. /\ v.op \in {"save", "upsert", "delete"} /\ Becomes(k, NoWork) /\ out' = out - 1 /\ leaked' = leaked
      /\ table' = [i \in RowIds |-> Seen(k, i)]
      /\ updates' = [i \in RowIds |-> IF i \in changed \cap Stored /\ v.op = "save"
                                      THEN updates[i] + 1 ELSE updates[i]]
      /\ upserted' = IF v.op = "upsert" THEN upserted \cup changed ELSE upserted
      /\ UNCHANGED drawn /\ KeepCaches
  BY <1>1, <1>2 DEF CommitAll, Ends, Becomes
<1>4. Wrote(v)  BY <1>0, <1>1 DEF Doing
<1>5. \A i \in RowIds : table'[i] = IF i \in changed THEN v.mine[i] ELSE table[i]  BY <1>1, <1>2, <1>3 DEF Seen
<1>6. table' \in [RowIds -> 0..MaxRowVersion]
  <2>1. ASSUME NEW i \in RowIds PROVE table'[i] \in 0..MaxRowVersion
    <3>1. CASE i \in changed
      <4>1. v.mine[i] \in -1..MaxRowVersion /\ v.mine[i] # -1  BY <1>2, <1>4, <3>1 DEF Wrote, Unchanged
      <4>2. MaxRowVersion \in Nat  BY BulkAssumption
      <4>3. v.mine[i] \in 0..MaxRowVersion  BY <4>1, <4>2
      <4>. QED  BY <1>5, <3>1, <4>3
    <3>2. CASE i \notin changed  BY <1>0, <1>5, <3>2 DEF BulkTyped
    <3>. QED  BY <3>1, <3>2
  <2>2. table' = [i \in RowIds |-> table'[i]]  BY <1>3
  <2>. QED  BY <2>1, <2>2
<1>7. updates' \in [RowIds -> Nat] /\ upserted' \subseteq RowIds  BY <1>0, <1>3 DEF BulkTyped
<1>8. NoSaveLost'
  <2>1. ASSUME NEW i \in Stored \ upserted' PROVE table'[i] \in {NoVersion, 1 + updates'[i]}
    <3>0. i \in RowIds /\ i \notin upserted /\ table[i] \in {NoVersion, 1 + updates[i]}
          /\ updates[i] \in Nat
      <4>1. i \in RowIds  BY BulkIds
      <4>2. i \notin upserted  BY <1>3, <2>1
      <4>. QED  BY <1>0, <4>1, <4>2 DEF NoSaveLost, BulkTyped
    <3>1. CASE i \notin changed
      <4>1. table'[i] = table[i] /\ updates'[i] = updates[i]  BY <1>3, <1>5, <3>0, <3>1
      <4>. QED  BY <3>0, <4>1
    <3>2. CASE i \in changed /\ v.op = "save"
      <4>1. table[i] # NoVersion /\ v.mine[i] = table[i] + 1  BY <1>2, <1>4, <3>2 DEF Wrote
      <4>2. table'[i] = table[i] + 1 /\ updates'[i] = updates[i] + 1  BY <1>3, <1>5, <3>0, <3>2, <4>1
      <4>3. table[i] = 1 + updates[i]  BY <3>0, <4>1
      <4>. QED  BY <3>0, <4>2, <4>3
    <3>3. CASE i \in changed /\ v.op = "delete"
      <4>1. v.mine[i] = NoVersion  BY <1>2, <1>4, <3>0, <3>3 DEF Wrote
      <4>. QED  BY <1>5, <3>0, <3>3, <4>1
    <3>4. v.op # "upsert" \/ i \notin changed  BY <1>3, <2>1
    <3>. QED  BY <1>3, <3>1, <3>2, <3>3, <3>4
  <2>. QED  BY <2>1 DEF NoSaveLost
<1>9. /\ NoWork \in Works /\ NoWork.op = "none" /\ Wrote(NoWork)' /\ Reading(NoWork)
      /\ \A i \in RowIds : NoWork.mine[i] = Unchanged
  BY NoWorkIs
<1>10. work' \in [BulkCallers -> Works] /\ work'[k] = NoWork /\ \A j \in BulkCallers \ {k} : work'[j] = work[j]
  BY <1>0, <1>3, <1>9, OthersStay
<1>11. Doing' /\ RowsApart'
  <2>1. drawn' \in Nat /\ drawn' >= drawn  BY <1>0, <1>3, BulkAssumption DEF BulkTyped
  <2>2. ASSUME NEW j \in BulkCallers \ {k}, NEW i \in RowIds, work[j].mine[i] # Unchanged PROVE table'[i] = table[i]
    <3>1. work[k].mine[i] = Unchanged  BY <1>0, <2>2 DEF RowsApart
    <3>. QED  BY <1>1, <1>2, <1>5, <3>1
  <2>. QED  BY <1>0, <1>3, <1>9, <2>1, <2>2, WorkGoesOn
<1>12. UNCHANGED <<cachedRow, counted, raced>>  BY <1>3 DEF KeepCaches
<1>13. OutOfCaches'  BY <1>0, <1>9, <1>10, <1>12 DEF OutOfCaches
<1>14. BulkCachesCoherent'
  <2>1. ASSUME NEW i \in RowIds \ raced' PROVE cachedRow'[i] \in {NoVersion, table'[i]}
    <3>1. CASE i \in changed  BY <1>0, <1>1, <1>2, <1>12, <2>1, <3>1 DEF OutOfCaches
    <3>2. CASE i \notin changed  BY <1>0, <1>5, <1>12, <2>1, <3>2 DEF BulkCachesCoherent
    <3>. QED  BY <3>1, <3>2
  <2>2. counted' = NotCounted \/ counted' = RowsThere' \/ TheCount \in raced'
    <3>1. CASE changed = {}
      <4>1. {i \in RowIds : table'[i] # NoVersion} = {i \in RowIds : table[i] # NoVersion}  BY <1>5, <3>1
      <4>2. RowsThere' = RowsThere  BY <4>1 DEF RowsThere
      <4>. QED  BY <1>0, <1>12, <4>2 DEF BulkCachesCoherent
    <3>2. CASE changed # {}
      <4>1. PICK i \in RowIds : work[k].mine[i] # Unchanged  BY <1>1, <1>2, <3>2
      <4>. QED  BY <1>0, <1>12, <4>1 DEF OutOfCaches
    <3>. QED  BY <3>1, <3>2
  <2>. QED  BY <2>1, <2>2 DEF BulkCachesCoherent
<1>15. NoConnectionLost' /\ out' \in Int /\ leaked' \in Int
  <2>1. work[k].op # "none"  BY <1>1, <1>3
  <2>. QED  BY <1>0, <1>3, <1>9, <2>1, OneLess
<1>16. BulkTyped'
  <2>1. drawn' \in 0..MaxInserted  BY <1>0, <1>3 DEF BulkTyped
  <2>2. cachedRow' \in [RowIds -> Nat] /\ counted' \in Int /\ raced' \subseteq RowIds \cup {TheCount}
    BY <1>0, <1>12 DEF BulkTyped
  <2>. QED  BY <1>6, <1>7, <1>10, <1>15, <2>1, <2>2 DEF BulkTyped
<1>. QED  BY <1>8, <1>11, <1>13, <1>14, <1>15, <1>16 DEF BulkInv

LEMMA CacheInv ==
    ASSUME BulkInv, NEW k \in BulkCallers, Answered(k)
    PROVE  BulkInv'
<1>0. BulkTyped /\ Doing /\ OutOfCaches /\ NoSaveLost /\ RowsApart /\ BulkCachesCoherent /\ NoConnectionLost
  BY DEF BulkInv
<1>1. PICK v \in Works : v = work[k]  BY <1>0 DEF BulkTyped
<1>2. /\ v.op \in {"find", "count"} /\ Becomes(k, NoWork) /\ out' = out - 1
      /\ UNCHANGED <<table, drawn, updates, upserted, leaked>>
  BY <1>1 DEF Answered, Cache, Ends, Becomes, KeepHistory
<1>3. Wrote(v) /\ Reading(v)  BY <1>0, <1>1 DEF Doing
<1>4. \A i \in RowIds : v.mine[i] = Unchanged  BY <1>2, <1>3, NoWorkIs DEF Wrote
<1>5. /\ NoWork \in Works /\ NoWork.op = "none" /\ Wrote(NoWork)' /\ Reading(NoWork)
      /\ \A i \in RowIds : NoWork.mine[i] = Unchanged
  BY NoWorkIs
<1>6. work' \in [BulkCallers -> Works] /\ work'[k] = NoWork /\ \A j \in BulkCallers \ {k} : work'[j] = work[j]
  BY <1>0, <1>2, <1>5, OthersStay
<1>7. Doing' /\ RowsApart'
  <2>1. drawn' \in Nat /\ drawn' >= drawn  BY <1>0, <1>2, BulkAssumption DEF BulkTyped
  <2>. QED  BY <1>0, <1>2, <1>5, <2>1, WorkGoesOn
<1>8. NoConnectionLost' /\ out' \in Int /\ leaked' \in Int
  <2>1. work[k].op # "none"  BY <1>1, <1>2
  <2>. QED  BY <1>0, <1>2, <1>5, <2>1, OneLess
<1>9. /\ NoSaveLost' /\ table' \in [RowIds -> 0..MaxRowVersion]
      /\ updates' \in [RowIds -> Nat] /\ upserted' \subseteq RowIds /\ drawn' \in 0..MaxInserted
  BY <1>0, <1>2, HistoryKept DEF BulkTyped
<1>10. \A j \in BulkCallers : \A i \in RowIds : work'[j].mine[i] # Unchanged => work[j].mine[i] # Unchanged /\ InTransaction(i)
  BY <1>5, <1>6 DEF InTransaction
<1>11. RowsThere' = RowsThere  BY <1>2 DEF RowsThere
<1>12. /\ OutOfCaches' /\ BulkCachesCoherent'
       /\ cachedRow' \in [RowIds -> Nat] /\ counted' \in Int /\ raced' \subseteq RowIds \cup {TheCount}
  <2>1. CASE v.op = "find"
    <3>1. PICK i \in Stored : i = v.todo[1].id
      <4>1. v.todo \in Seq(Items) /\ Len(v.todo) > 0  BY <1>3, <2>1 DEF Works, Reading
      <4>2. v.todo[1] \in Items  BY <4>1
      <4>. QED  BY <4>2 DEF Items
    <3>2. i \in RowIds /\ i # TheCount  BY BulkIds DEF TheCount
    <3>3. v.got \in Nat  BY DEF Works
    <3>4. /\ cachedRow' = [cachedRow EXCEPT ![i] = v.got] /\ counted' = counted
          /\ raced' = IF table[i] # v.got \/ InTransaction(i) THEN raced \cup {i} ELSE raced \ {i}
      BY <1>1, <2>1, <3>1 DEF Answered, Cache
    <3>5. cachedRow'[i] = v.got /\ \A m \in RowIds \ {i} : cachedRow'[m] = cachedRow[m] /\ (m \in raced' <=> m \in raced)
      BY <1>0, <3>2, <3>4 DEF BulkTyped
    <3>6. TheCount \in raced' <=> TheCount \in raced  BY <3>2, <3>4
    <3>7. OutOfCaches'
      <4>1. ASSUME NEW j \in BulkCallers, NEW m \in RowIds, work'[j].mine[m] # Unchanged
            PROVE  (cachedRow'[m] = NoVersion \/ m \in raced') /\ (counted' = NotCounted \/ TheCount \in raced')
        <5>1. work[j].mine[m] # Unchanged /\ InTransaction(m)  BY <1>10, <4>1
        <5>2. counted' = NotCounted \/ TheCount \in raced'  BY <1>0, <3>4, <3>6, <5>1 DEF OutOfCaches
        <5>3. CASE m = i  BY <3>4, <5>1, <5>2, <5>3
        <5>4. CASE m # i  BY <1>0, <3>5, <5>1, <5>2, <5>4 DEF OutOfCaches
        <5>. QED  BY <5>3, <5>4
      <4>. QED  BY <4>1 DEF OutOfCaches
    <3>8. BulkCachesCoherent'
      <4>1. ASSUME NEW m \in RowIds \ raced' PROVE cachedRow'[m] \in {NoVersion, table'[m]}
        <5>1. CASE m = i  BY <1>2, <3>4, <3>5, <4>1, <5>1
        <5>2. CASE m # i  BY <1>0, <1>2, <3>5, <4>1, <5>2 DEF BulkCachesCoherent
        <5>. QED  BY <5>1, <5>2
      <4>. QED  BY <1>0, <1>11, <3>4, <3>6, <4>1 DEF BulkCachesCoherent
    <3>. QED  BY <1>0, <3>2, <3>3, <3>4, <3>7, <3>8 DEF BulkTyped
  <2>2. CASE v.op = "count"
    <3>1. /\ counted' = v.got /\ cachedRow' = cachedRow
          /\ raced' = IF RowsThere # v.got \/ \E i \in RowIds : InTransaction(i)
                      THEN raced \cup {TheCount} ELSE raced \ {TheCount}
      BY <1>1, <2>2 DEF Answered, Cache
    <3>2. v.got \in Nat  BY DEF Works
    <3>3. \A m \in RowIds : m \in raced' <=> m \in raced  BY <3>1, BulkIds DEF TheCount
    <3>4. OutOfCaches'
      <4>1. ASSUME NEW j \in BulkCallers, NEW m \in RowIds, work'[j].mine[m] # Unchanged
            PROVE  (cachedRow'[m] = NoVersion \/ m \in raced') /\ (counted' = NotCounted \/ TheCount \in raced')
        <5>1. work[j].mine[m] # Unchanged /\ InTransaction(m)  BY <1>10, <4>1
        <5>2. TheCount \in raced'  BY <3>1, <5>1
        <5>3. cachedRow[m] = NoVersion \/ m \in raced  BY <1>0, <5>1 DEF OutOfCaches
        <5>. QED  BY <3>1, <3>3, <5>2, <5>3
      <4>. QED  BY <4>1 DEF OutOfCaches
    <3>5. BulkCachesCoherent'
      <4>1. \A m \in RowIds \ raced' : cachedRow'[m] \in {NoVersion, table'[m]}
        BY <1>0, <1>2, <3>1, <3>3 DEF BulkCachesCoherent
      <4>2. counted' = RowsThere' \/ TheCount \in raced'  BY <1>11, <3>1
      <4>. QED  BY <4>1, <4>2 DEF BulkCachesCoherent
    <3>. QED  BY <1>0, <3>1, <3>2, <3>4, <3>5 DEF BulkTyped
  <2>. QED  BY <1>2, <2>1, <2>2
<1>13. BulkTyped'  BY <1>6, <1>8, <1>9, <1>12 DEF BulkTyped
<1>. QED  BY <1>7, <1>8, <1>9, <1>12, <1>13 DEF BulkInv

LEMMA BulkNextInv == BulkInv /\ [BulkNext]_bulkVars => BulkInv'
<1>. SUFFICES ASSUME BulkInv, [BulkNext]_bulkVars PROVE BulkInv'  OBVIOUS
<1>1. CASE UNCHANGED bulkVars
  <2>1. UNCHANGED <<table, drawn, cachedRow, counted, work, out, updates, upserted, raced, leaked>>
    BY <1>1 DEF bulkVars
  <2>2. BulkTyped'  BY <2>1 DEF BulkInv, BulkTyped
  <2>3. Doing'  BY <2>1 DEF BulkInv, Doing, Wrote, Reading, NotTwice
  <2>4. OutOfCaches'  BY <2>1 DEF BulkInv, OutOfCaches
  <2>5. NoSaveLost' /\ RowsApart'  BY <2>1 DEF BulkInv, NoSaveLost, RowsApart
  <2>6. BulkCachesCoherent' /\ NoConnectionLost'
    BY <2>1 DEF BulkInv, BulkCachesCoherent, NoConnectionLost, RowsThere
  <2>. QED  BY <2>2, <2>3, <2>4, <2>5, <2>6 DEF BulkInv
<1>2. ASSUME NEW k \in BulkCallers,
             \/ BulkInsert(k) \/ WriteNext(k) \/ UpsertStatement(k) \/ CommitAll(k) \/ FailAll(k)
             \/ CountAll(k) \/ Answered(k) \/ OpenStream(k) \/ NextOfStream(k) \/ CloseStream(k)
             \/ AbandonStream(k)
             \/ \E i \in Stored : FindOne(k, i)
      PROVE  BulkInv'
  <2>1. BulkInsert(k) \/ WriteNext(k) \/ UpsertStatement(k) \/ CommitAll(k) => BulkInv'
    BY BulkInsertInv, WriteNextInv, UpsertStatementInv, CommitAllInv
  <2>2. FailAll(k) \/ CountAll(k) \/ Answered(k) => BulkInv'  BY FailAllInv, CountAllInv, CacheInv
  <2>3. OpenStream(k) \/ NextOfStream(k) \/ CloseStream(k) \/ AbandonStream(k) => BulkInv'
    BY OpenStreamInv, NextOfStreamInv, CloseStreamInv, AbandonStreamInv
  <2>4. (\E i \in Stored : FindOne(k, i)) => BulkInv'  BY FindOneInv
  <2>. QED  BY <1>2, <2>1, <2>2, <2>3, <2>4
<1>3. ASSUME NEW k \in BulkCallers, NEW op \in {"save", "upsert", "delete"},
             NEW ids \in SetToSeqs(Stored) \cup {<<>>}, NEW stale \in BOOLEAN,
             NEW news \in (IF op = "save" THEN {0, 1} ELSE {0}),
             WriteAll(k, op, ListOf(ids, stale), news)
      PROVE  BulkInv'
  <2>1. AList(ListOf(ids, stale))  BY ListIs DEF BulkInv
  <2>2. news \in {0, 1}  OBVIOUS
  <2>. QED  BY <1>3, <2>1, <2>2, WriteAllInv
<1>. QED  BY <1>1, <1>2, <1>3 DEF BulkNext, ListOf

\* For any callers, rows and lists: saves of a list are lost no more than single ones, two
\* transactions never write the same row, the caches say what is committed except for
\* entries read beside a transaction, and a connection is with a call or went with a stream.
THEOREM BulkWritesHold == BulkSpec => []BulkHolds
<1>1. ASSUME BulkInv PROVE BulkHolds
  <2>1. BulkTypeOK
    <3>1. \A k \in BulkCallers : work[k].mine \in [RowIds -> -1..MaxRowVersion]
      <4>1. ASSUME NEW k \in BulkCallers PROVE work[k].mine \in [RowIds -> -1..MaxRowVersion]
        <5>1. work[k] \in Works /\ Wrote(work[k])  BY <1>1 DEF BulkInv, BulkTyped, Doing
        <5>2. work[k].mine \in [RowIds -> Int] /\ \A i \in RowIds : work[k].mine[i] \in -1..MaxRowVersion
          BY <5>1 DEF Works, Wrote
        <5>. QED  BY <5>2
      <4>. QED  BY <4>1
    <3>. QED  BY <1>1, <3>1 DEF BulkInv, BulkTyped, BulkTypeOK
  <2>. QED  BY <1>1, <2>1 DEF BulkInv, BulkHolds
<1>. QED  BY <1>1, BulkInitInv, BulkNextInv, PTL DEF BulkSpec

-----------------------------------------------------------------------------
(***************************************************************************)
(* Filters: an answer is what the statement of its filters and its tenant  *)
(* gives, or a row that findById has found in the cache.                   *)
(***************************************************************************)

FiltersSpec == FiltersInit /\ [][FiltersNext]_filterVars

Named == registrations \in Seq(DOMAIN Hides) /\ IsInjective(registrations)

\* What a statement with the options of a read answers; a findById its row only.
Answers(l) == IF l.op = "find" THEN Visible(l.active, l.tenant) \cap {l.id}
              ELSE Visible(l.active, l.tenant)

OfTenant(t, r) == r \in Rows /\ (filtered.tenanted => RowTenant[r] = t)

\* An answer is what the statement gives, or the one row that findById has found in the cache.
Looked(l) ==
    /\ l = [op |-> l.op, id |-> l.id, active |-> l.active, tenant |-> l.tenant, rows |-> l.rows,
            cached |-> l.cached]
    /\ l.op \in {"none", "find", "list", "answered"}
    /\ l.op = "list" => l.id = 0
    /\ l.op = "find" => l.id \in Rows
    /\ l.op # "answered" => l.rows = {} /\ ~l.cached
    /\ l.op = "answered" /\ l.cached => \E r \in Rows : l.id = r /\ l.rows = {r} /\ OfTenant(l.tenant, r)
    /\ l.op = "answered" /\ ~l.cached =>
           IF l.id = 0 THEN l.rows = Visible(l.active, l.tenant)
           ELSE l.rows = Visible(l.active, l.tenant) \cap {l.id}

Looks == lookup = [k \in FilterCallers |-> lookup[k]] /\ \A k \in FilterCallers : Looked(lookup[k])

CachedTrue ==
    /\ \A e \in byId : \E t, r : e = Key(t, r) /\ OfTenant(t, r)
    /\ \A e \in lists : e.rows = Visible(e.active, e.tenant)

FiltersInv == filtered \in FilterKinds /\ Named /\ Looks /\ CachedTrue

LEMMA FiltersInitInv == FiltersInit => FiltersInv
<1>. SUFFICES ASSUME FiltersInit PROVE FiltersInv  OBVIOUS
<1>1. PICK e \in FilterKinds : FiltersStart(e)  BY DEF FiltersInit
<1>2. Named  BY <1>1, FiltersAssumption DEF Named, FiltersStart
<1>3. Looks
  <2>1. lookup = [k \in FilterCallers |-> NoLookup]  BY <1>1 DEF FiltersStart
  <2>2. Looked(NoLookup)  BY DEF Looked, NoLookup
  <2>. QED  BY <2>1, <2>2 DEF Looks
<1>4. CachedTrue  BY <1>1 DEF CachedTrue, FiltersStart
<1>. QED  BY <1>1, <1>2, <1>3, <1>4 DEF FiltersInv, FiltersStart

\* A lookup that becomes another one.
LEMMA LooksOn ==
    ASSUME Looks, NEW k \in FilterCallers, NEW l, Looked(l)', filtered' = filtered,
           lookup' = [lookup EXCEPT ![k] = l]
    PROVE  Looks'
<1>1. \A j \in FilterCallers : Looked(lookup[j])'
  <2>. TAKE j \in FilterCallers
  <2>1. CASE j = k  BY <2>1 DEF Looks
  <2>2. CASE j # k
    <3>1. lookup'[j] = lookup[j] /\ Looked(lookup[j])  BY <2>2 DEF Looks
    <3>. QED  BY <3>1 DEF Looked, OfTenant, Visible
  <2>. QED  BY <2>1, <2>2
<1>2. lookup' = [j \in FilterCallers |-> lookup'[j]]  BY DEF Looks
<1>. QED  BY <1>1, <1>2 DEF Looks

LEMMA LooksKept ==
    ASSUME Looks, UNCHANGED <<filtered, lookup>>
    PROVE  Looks'
<1>. QED  BY DEF Looks, Looked, OfTenant, Visible

LEMMA CachedKept ==
    ASSUME CachedTrue, UNCHANGED <<filtered, byId, lists>>
    PROVE  CachedTrue'
<1>. QED  BY DEF CachedTrue, OfTenant, Visible

LEMMA VisibleOf ==
    ASSUME NEW active, NEW t, NEW r \in Visible(active, t)
    PROVE  OfTenant(t, r)
<1>. QED  BY DEF Visible, OfTenant

LEMMA RegisterInv ==
    ASSUME FiltersInv, NEW f \in DOMAIN Hides, RegisterFilter(f)
    PROVE  FiltersInv'
<1>1. Named'
  <2>1. /\ registrations \in Seq(DOMAIN Hides) /\ IsInjective(registrations)
        /\ registrations' = Append(registrations, f) /\ f \notin {registrations[i] : i \in DOMAIN registrations}
    BY DEF FiltersInv, Named, RegisterFilter, ToSet
  <2>2. PICK n \in Nat : n = Len(registrations)  BY <2>1
  <2>3. /\ registrations' \in Seq(DOMAIN Hides) /\ Len(registrations') = n + 1
        /\ \A i \in 1..n : registrations'[i] = registrations[i]
        /\ registrations'[n + 1] = f
    BY <2>1, <2>2, AppendProperties
  <2>4. ASSUME NEW i \in 1..n + 1, NEW j \in 1..n + 1, registrations'[i] = registrations'[j] PROVE i = j
    <3>1. \A a \in 1..n : registrations[a] # f  BY <2>1, <2>2
    <3>2. \A a, b \in 1..n : registrations[a] = registrations[b] => a = b  BY <2>1, <2>2 DEF IsInjective
    <3>. QED  BY <2>2, <2>3, <2>4, <3>1, <3>2
  <2>5. DOMAIN registrations' = 1..n + 1  BY <2>3
  <2>. QED  BY <2>3, <2>4, <2>5 DEF Named, IsInjective
<1>2. UNCHANGED <<filtered, byId, lists, lookup>>  BY DEF RegisterFilter
<1>. QED  BY <1>1, <1>2, LooksKept, CachedKept DEF FiltersInv

Without(s, r, n, k) ==
    Len(s) = n - 1 /\ \A i \in 1..n - 1 : s[i] = IF i < k THEN r[i] ELSE r[i + 1]

LEMMA RemovedAt ==
    ASSUME NEW T, NEW r \in Seq(T), NEW n \in Nat, n = Len(r), NEW k \in 1..n
    PROVE  RemoveAt(r, k) \in Seq(T) /\ Without(RemoveAt(r, k), r, n, k)
<1>0. k \in Nat /\ k >= 1 /\ k <= n  OBVIOUS
<1>1. PICK a \in Nat : a = k - 1  BY <1>0
<1>2. PICK b \in Nat : b = n - k
  <2>1. n - k \in Nat  BY <1>0
  <2>. QED  BY <2>1
<1>3. a + b = n - 1  BY <1>1, <1>2
<1>4. PICK s : s = SubSeq(r, 1, k - 1)  OBVIOUS
<1>5. PICK t : t = SubSeq(r, k + 1, n)  OBVIOUS
<1>6. s \in Seq(T) /\ Len(s) = a /\ \A i \in 1..a : s[i] = r[i]  BY <1>1, <1>4
<1>7. t \in Seq(T) /\ Len(t) = b /\ \A i \in 1..b : t[i] = r[k + i]  BY <1>2, <1>5
<1>8. RemoveAt(r, k) = s \o t  BY <1>4, <1>5 DEF RemoveAt
<1>9. /\ s \o t \in Seq(T) /\ Len(s \o t) = a + b
      /\ \A i \in 1..a + b : (s \o t)[i] = IF i <= a THEN s[i] ELSE t[i - a]
  <2>1. s \in Seq(T) /\ t \in Seq(T) /\ Len(s) = a /\ Len(t) = b  BY <1>6, <1>7
  <2>2. /\ s \o t \in Seq(T) /\ Len(s \o t) = Len(s) + Len(t)
        /\ \A i \in 1..Len(s) + Len(t) : (s \o t)[i] = IF i <= Len(s) THEN s[i] ELSE t[i - Len(s)]
    BY <2>1, ConcatProperties
  <2>. QED  BY <2>1, <2>2
<1>10. ASSUME NEW i \in 1..n - 1 PROVE (s \o t)[i] = IF i < k THEN r[i] ELSE r[i + 1]
  <2>1. (s \o t)[i] = IF i <= a THEN s[i] ELSE t[i - a]  BY <1>3, <1>9
  <2>2. CASE i <= a
    <3>1. i < k /\ i \in 1..a  BY <1>1, <2>2
    <3>. QED  BY <1>6, <2>1, <2>2, <3>1
  <2>3. CASE ~(i <= a)
    <3>1. ~(i < k) /\ i - a \in 1..b /\ k + (i - a) = i + 1  BY <1>1, <1>2, <2>3
    <3>. QED  BY <1>7, <2>1, <2>3, <3>1
  <2>. QED  BY <2>2, <2>3
<1>. QED  BY <1>3, <1>8, <1>9, <1>10 DEF Without

LEMMA UnregisterInv ==
    ASSUME FiltersInv, NEW f \in DOMAIN Hides, UnregisterFilter(f)
    PROVE  FiltersInv'
<1>1. Named'
  <2>0. registrations \in Seq(DOMAIN Hides) /\ IsInjective(registrations)  BY DEF FiltersInv, Named
  <2>1. PICK k \in DOMAIN registrations : registrations' = RemoveAt(registrations, k)
    BY DEF UnregisterFilter
  <2>2. PICK n \in Nat : n = Len(registrations) /\ k \in 1..n  BY <2>0
  <2>8. /\ registrations' \in Seq(DOMAIN Hides) /\ Len(registrations') = n - 1
        /\ \A i \in 1..n - 1 : registrations'[i] = IF i < k THEN registrations[i] ELSE registrations[i + 1]
    <3>1. PICK r \in Seq(DOMAIN Hides) : r = registrations /\ n = Len(r)  BY <2>0, <2>2
    <3>2. RemoveAt(r, k) \in Seq(DOMAIN Hides) /\ Without(RemoveAt(r, k), r, n, k)
      BY <2>2, <3>1, RemovedAt, Zenon
    <3>3. registrations' = RemoveAt(r, k)  BY <2>1, <3>1
    <3>. QED  BY <3>1, <3>2, <3>3 DEF Without
  <2>9. ASSUME NEW i \in 1..n - 1, NEW j \in 1..n - 1, registrations'[i] = registrations'[j] PROVE i = j
    <3>1. \A a, b \in 1..n : registrations[a] = registrations[b] => a = b  BY <2>0, <2>2 DEF IsInjective
    <3>. QED  BY <2>2, <2>8, <2>9, <3>1
  <2>10. DOMAIN registrations' = 1..n - 1  BY <2>8
  <2>. QED  BY <2>8, <2>9, <2>10 DEF Named, IsInjective
<1>2. UNCHANGED <<filtered, byId, lists, lookup>>  BY DEF UnregisterFilter
<1>. QED  BY <1>1, <1>2, LooksKept, CachedKept DEF FiltersInv

LEMMA FindByIdInv ==
    ASSUME FiltersInv, NEW k \in FilterCallers, NEW r \in Rows, NEW o, NEW t, FindById(k, r, o, t)
    PROVE  FiltersInv'
<1>1. PICK l : l = Read("find", r, o, t)  OBVIOUS
<1>2. UNCHANGED <<filtered, registrations, heldFilters, byId, lists>>  BY DEF FindById
<1>3. l.op = "find" /\ l.id = r /\ l.rows = {} /\ l.tenant = t /\ ~l.cached
      /\ l = [op |-> l.op, id |-> l.id, active |-> l.active, tenant |-> l.tenant, rows |-> l.rows,
            cached |-> l.cached]
  BY <1>1 DEF Read
<1>4. ASSUME NEW m, Looked(m)', lookup' = [lookup EXCEPT ![k] = m] PROVE FiltersInv'
  <2>1. Looks'  BY <1>2, <1>4, LooksOn DEF FiltersInv
  <2>2. CachedTrue'  BY <1>2, CachedKept DEF FiltersInv
  <2>. QED  BY <1>2, <2>1, <2>2 DEF FiltersInv, Named
<1>5. CASE Key(t, r) \in byId /\ lookup' = [lookup EXCEPT ![k] = [l EXCEPT !.op = "answered", !.rows = {r}, !.cached = TRUE]]
  <2>1. PICK m : m = [l EXCEPT !.op = "answered", !.rows = {r}, !.cached = TRUE]  OBVIOUS
  <2>2. m.op = "answered" /\ m.id = r /\ m.rows = {r} /\ m.tenant = t /\ m.cached
        /\ m = [op |-> m.op, id |-> m.id, active |-> m.active, tenant |-> m.tenant, rows |-> m.rows, cached |-> m.cached]
    BY <1>1, <2>1 DEF Read
  <2>3. OfTenant(t, r)
    <3>1. PICK u, q : Key(t, r) = Key(u, q) /\ OfTenant(u, q)  BY <1>5 DEF FiltersInv, CachedTrue
    <3>. QED  BY <3>1 DEF Key
  <2>4. Looked(m)'  BY <1>2, <2>2, <2>3 DEF Looked, OfTenant
  <2>. QED  BY <1>4, <1>5, <2>1, <2>4
<1>6. CASE lookup' = [lookup EXCEPT ![k] = l]
  <2>1. Looked(l)'  BY <1>3 DEF Looked
  <2>. QED  BY <1>4, <1>6, <2>1
<1>. QED  BY <1>1, <1>3, <1>5, <1>6 DEF FindById

LEMMA FindAllInv ==
    ASSUME FiltersInv, NEW k \in FilterCallers, NEW o, NEW t, FindAll(k, o, t)
    PROVE  FiltersInv'
<1>1. PICK l : l = Read("list", 0, o, t)  OBVIOUS
<1>2. UNCHANGED <<filtered, registrations, heldFilters, lists>>  BY DEF FindAll
<1>3. l.op = "list" /\ l.id = 0 /\ l.rows = {} /\ l.tenant = t /\ ~l.cached
      /\ l = [op |-> l.op, id |-> l.id, active |-> l.active, tenant |-> l.tenant, rows |-> l.rows,
            cached |-> l.cached]
  BY <1>1 DEF Read
<1>5. CASE \E e \in lists : /\ e.active = l.active /\ e.tenant = l.tenant
                            /\ lookup' = [lookup EXCEPT ![k] = [l EXCEPT !.op = "answered", !.rows = e.rows]]
                            /\ byId' = byId \cup {Key(t, r) : r \in e.rows}
  <2>0. PICK e \in lists : /\ e.active = l.active /\ e.tenant = l.tenant
                           /\ lookup' = [lookup EXCEPT ![k] = [l EXCEPT !.op = "answered", !.rows = e.rows]]
                           /\ byId' = byId \cup {Key(t, r) : r \in e.rows}
    BY <1>5
  <2>1. PICK m : m = [l EXCEPT !.op = "answered", !.rows = e.rows]  OBVIOUS
  <2>2. /\ m.op = "answered" /\ m.id = 0 /\ m.rows = e.rows /\ m.tenant = t /\ ~m.cached
        /\ m.active = l.active
        /\ m = [op |-> m.op, id |-> m.id, active |-> m.active, tenant |-> m.tenant, rows |-> m.rows, cached |-> m.cached]
    BY <1>1, <2>1 DEF Read
  <2>3. e.rows = Visible(l.active, t)  BY <1>3, <2>0 DEF FiltersInv, CachedTrue
  <2>4. Looked(m)'  BY <1>2, <2>2, <2>3 DEF Looked, Visible
  <2>5. Looks'  BY <1>2, <2>0, <2>1, <2>4, LooksOn DEF FiltersInv
  <2>6. CachedTrue'
    <3>1. \A q \in e.rows : OfTenant(t, q)  BY <2>3, VisibleOf
    <3>. QED  BY <1>2, <2>0, <3>1 DEF FiltersInv, CachedTrue, OfTenant, Visible
  <2>. QED  BY <1>2, <2>5, <2>6 DEF FiltersInv, Named
<1>6. CASE lookup' = [lookup EXCEPT ![k] = l] /\ UNCHANGED byId
  <2>1. Looked(l)'  BY <1>3 DEF Looked
  <2>2. Looks'  BY <1>2, <1>6, <2>1, LooksOn DEF FiltersInv
  <2>3. CachedTrue'  BY <1>2, <1>6, CachedKept DEF FiltersInv
  <2>. QED  BY <1>2, <2>2, <2>3 DEF FiltersInv, Named
<1>. QED  BY <1>1, <1>5, <1>6 DEF FindAll

LEMMA FindProjectionsInv ==
    ASSUME FiltersInv, NEW k \in FilterCallers, NEW o, FindProjections(k, o)
    PROVE  FiltersInv'
<1>1. PICK l : l = Read("list", 0, o, NoTenant)  OBVIOUS
<1>2. UNCHANGED <<filtered, registrations, heldFilters, byId, lists>>  BY DEF FindProjections
<1>3. PICK m : m = [l EXCEPT !.op = "answered", !.rows = Visible(l.active, l.tenant)]  OBVIOUS
<1>4. /\ m.op = "answered" /\ m.id = 0 /\ m.rows = Visible(m.active, m.tenant) /\ ~m.cached
      /\ m = [op |-> m.op, id |-> m.id, active |-> m.active, tenant |-> m.tenant, rows |-> m.rows, cached |-> m.cached]
  BY <1>1, <1>3 DEF Read
<1>5. Looked(m)'  BY <1>2, <1>4 DEF Looked, Visible
<1>6. lookup' = [lookup EXCEPT ![k] = m]  BY <1>1, <1>3 DEF FindProjections
<1>7. Looks'  BY <1>2, <1>5, <1>6, LooksOn DEF FiltersInv
<1>8. CachedTrue'  BY <1>2, CachedKept DEF FiltersInv
<1>. QED  BY <1>2, <1>7, <1>8 DEF FiltersInv, Named

LEMMA ReadRowsInv ==
    ASSUME FiltersInv, NEW k \in FilterCallers, ReadRows(k)
    PROVE  FiltersInv'
<1>1. PICK l : l = lookup[k]  OBVIOUS
<1>2. PICK rows : rows = Answers(l)  OBVIOUS
<1>3. PICK m : m = [l EXCEPT !.op = "answered", !.rows = rows]  OBVIOUS
<1>4. /\ l.op \in {"find", "list"} /\ lookup' = [lookup EXCEPT ![k] = m]
      /\ byId' = byId \cup {Key(l.tenant, r) : r \in rows}
      /\ lists' = IF l.op = "find" THEN lists
                  ELSE lists \cup {[active |-> l.active, tenant |-> l.tenant, rows |-> rows]}
      /\ UNCHANGED <<filtered, registrations, heldFilters>>
  BY <1>1, <1>2, <1>3 DEF ReadRows, Answers
<1>5. Looked(l)  BY <1>1 DEF FiltersInv, Looks
<1>6. /\ m = [op |-> m.op, id |-> m.id, active |-> m.active, tenant |-> m.tenant, rows |-> m.rows, cached |-> m.cached]
      /\ m.op = "answered" /\ m.id = l.id /\ m.active = l.active /\ m.tenant = l.tenant
      /\ m.rows = rows /\ m.cached = l.cached
  <2>1. l = [op |-> l.op, id |-> l.id, active |-> l.active, tenant |-> l.tenant, rows |-> l.rows, cached |-> l.cached]
    BY <1>5 DEF Looked
  <2>2. m = [op |-> "answered", id |-> l.id, active |-> l.active, tenant |-> l.tenant, rows |-> rows, cached |-> l.cached]
    BY <1>3, <2>1
  <2>. QED  BY <2>2
<1>7. rows = IF l.id = 0 THEN Visible(l.active, l.tenant) ELSE Visible(l.active, l.tenant) \cap {l.id}
  BY <1>2, <1>4, <1>5, FiltersAssumption DEF Answers, Looked
<1>8. \A r \in rows : OfTenant(l.tenant, r)
  <2>1. \A r \in rows : r \in Visible(l.active, l.tenant)  BY <1>7
  <2>. QED  BY <2>1, VisibleOf
<1>9. Looked(m)'
  <2>1. ~m.cached  BY <1>4, <1>5, <1>6 DEF Looked
  <2>2. m.rows = IF m.id = 0 THEN Visible(m.active, m.tenant) ELSE Visible(m.active, m.tenant) \cap {m.id}
    BY <1>6, <1>7
  <2>3. \A s, t : Visible(s, t)' = Visible(s, t)  BY <1>4 DEF Visible
  <2>. QED  BY <1>6, <2>1, <2>2, <2>3 DEF Looked
<1>10. Looks'  BY <1>4, <1>9, LooksOn DEF FiltersInv
<1>11. CachedTrue'
  <2>1. \A s, t : Visible(s, t)' = Visible(s, t)  BY <1>4 DEF Visible
  <2>2. \A t, r : OfTenant(t, r)' <=> OfTenant(t, r)  BY <1>4 DEF OfTenant
  <2>3. \A e \in byId' : \E t, r : e = Key(t, r) /\ OfTenant(t, r)  BY <1>4, <1>8 DEF FiltersInv, CachedTrue
  <2>4. ASSUME NEW e \in lists' PROVE e.rows = Visible(e.active, e.tenant)
    <3>1. CASE e \in lists  BY <3>1 DEF FiltersInv, CachedTrue
    <3>2. CASE e \notin lists
      <4>1. l.op = "list" /\ e = [active |-> l.active, tenant |-> l.tenant, rows |-> rows]  BY <1>4, <2>4, <3>2
      <4>2. rows = Visible(l.active, l.tenant)  BY <1>2, <4>1 DEF Answers
      <4>. QED  BY <4>1, <4>2
    <3>. QED  BY <3>1, <3>2
  <2>. QED  BY <2>1, <2>2, <2>3, <2>4 DEF CachedTrue
<1>. QED  BY <1>4, <1>10, <1>11 DEF FiltersInv, Named

LEMMA ForgetInv ==
    ASSUME FiltersInv, NEW k \in FilterCallers, Forget(k)
    PROVE  FiltersInv'
<1>1. lookup' = [lookup EXCEPT ![k] = NoLookup] /\ UNCHANGED <<filtered, registrations, byId, lists>>
  BY DEF Forget
<1>2. Looked(NoLookup)'  BY DEF Looked, NoLookup
<1>3. Looks'  BY <1>1, <1>2, LooksOn DEF FiltersInv
<1>4. CachedTrue'  BY <1>1, CachedKept DEF FiltersInv
<1>. QED  BY <1>1, <1>3, <1>4 DEF FiltersInv, Named

LEMMA FiltersNextInv == FiltersInv /\ [FiltersNext]_filterVars => FiltersInv'
<1>. SUFFICES ASSUME FiltersInv, [FiltersNext]_filterVars PROVE FiltersInv'  OBVIOUS
<1>1. CASE CreateRepository
  <2>1. UNCHANGED <<filtered, registrations, byId, lists, lookup>>  BY <1>1 DEF CreateRepository
  <2>. QED  BY <2>1, LooksKept, CachedKept DEF FiltersInv, Named
<1>2. CASE UNCHANGED filterVars
  <2>1. UNCHANGED <<filtered, registrations, byId, lists, lookup>>  BY <1>2 DEF filterVars
  <2>. QED  BY <2>1, LooksKept, CachedKept DEF FiltersInv, Named
<1>3. ASSUME NEW f \in DOMAIN Hides, RegisterFilter(f) \/ UnregisterFilter(f) PROVE FiltersInv'
  BY <1>3, RegisterInv, UnregisterInv
<1>4. ASSUME NEW k \in FilterCallers, ReadRows(k) \/ Forget(k) PROVE FiltersInv'
  BY <1>4, ReadRowsInv, ForgetInv
<1>5. ASSUME NEW k \in FilterCallers, NEW o \in FilterOptions,
             \/ FindProjections(k, o)
             \/ \E t \in Tenants : FindAll(k, o, t) \/ \E r \in Rows : FindById(k, r, o, t)
      PROVE  FiltersInv'
  BY <1>5, FindProjectionsInv, FindAllInv, FindByIdInv
<1>. QED  BY <1>1, <1>2, <1>3, <1>4, <1>5 DEF FiltersNext

LEMMA AnswersAre ==
    ASSUME FiltersInv, NEW k \in FilterCallers, lookup[k].op = "answered"
    PROVE  /\ lookup[k].cached => lookup[k].id # 0
           /\ ~lookup[k].cached => lookup[k].rows \subseteq Visible(lookup[k].active, lookup[k].tenant)
           /\ lookup[k].id = 0 => lookup[k].rows = Visible(lookup[k].active, lookup[k].tenant)
           /\ \A r \in lookup[k].rows : OfTenant(lookup[k].tenant, r)
<1>1. Looked(lookup[k])  BY DEF FiltersInv, Looks
<1>2. lookup[k].cached => \E r \in Rows : /\ lookup[k].id = r /\ lookup[k].rows = {r}
                                          /\ OfTenant(lookup[k].tenant, r)
  BY <1>1 DEF Looked
<1>3. ~lookup[k].cached =>
          IF lookup[k].id = 0 THEN lookup[k].rows = Visible(lookup[k].active, lookup[k].tenant)
          ELSE lookup[k].rows = Visible(lookup[k].active, lookup[k].tenant) \cap {lookup[k].id}
  BY <1>1 DEF Looked
<1>4. lookup[k].cached => lookup[k].id # 0  BY <1>2, FiltersAssumption
<1>5. ~lookup[k].cached => lookup[k].rows \subseteq Visible(lookup[k].active, lookup[k].tenant)  BY <1>3
<1>6. \A r \in lookup[k].rows : OfTenant(lookup[k].tenant, r)  BY <1>2, <1>5, VisibleOf
<1>. QED  BY <1>3, <1>4, <1>5, <1>6

\* For any filters, rows, tenants and readers: no read answers a row of another tenant; a
\* filter of the context hides its rows, except from a findById that the entity cache
\* answers; nothing else is hidden; and with fewer filters no fewer rows are read.
THEOREM FiltersAlwaysHold == FiltersSpec => []FiltersHold
<1>1. ASSUME FiltersInv PROVE FiltersHold
  <2>1. FiltersTypeOK
    <3>1. \A e \in lists : e.rows \subseteq Rows  BY <1>1 DEF FiltersInv, CachedTrue, Visible
    <3>. QED  BY <1>1, <3>1 DEF FiltersInv, Named, FiltersTypeOK
  <2>2. TenantsApart
    <3>1. ASSUME NEW k \in FilterCallers, NEW r \in lookup[k].rows, filtered.tenanted
          PROVE  RowTenant[r] = lookup[k].tenant
      <4>1. lookup[k].op = "answered"  BY <1>1, <3>1 DEF FiltersInv, Looks, Looked
      <4>2. OfTenant(lookup[k].tenant, r)  BY <1>1, <4>1, AnswersAre
      <4>. QED  BY <3>1, <4>2 DEF OfTenant
    <3>. QED  BY <3>1 DEF TenantsApart
  <2>3. FilteredUnlessCached
    <3>1. ASSUME NEW k \in FilterCallers, lookup[k].op = "answered",
                 NEW left, left = UNION {Hides[f] : f \in lookup[k].active}
          PROVE  /\ lookup[k].rows \cap left # {} => lookup[k].cached
                 /\ lookup[k].id = 0 => \A r \in Rows \ left : ~filtered.tenanted => r \in lookup[k].rows
      <4>1. Visible(lookup[k].active, lookup[k].tenant) \cap left = {}  BY <3>1 DEF Visible
      <4>2. \A r \in Rows \ left : ~filtered.tenanted => r \in Visible(lookup[k].active, lookup[k].tenant)
        BY <3>1 DEF Visible
      <4>. QED  BY <1>1, <3>1, <4>1, <4>2, AnswersAre
    <3>. QED  BY <3>1 DEF FilteredUnlessCached
  <2>4. FewerFiltersMoreRows
    <3>1. ASSUME NEW k \in FilterCallers, NEW j \in FilterCallers,
                 lookup[k].op = "answered", lookup[j].op = "answered", lookup[k].id = 0, lookup[j].id = 0,
                 lookup[k].active \subseteq lookup[j].active, lookup[k].tenant = lookup[j].tenant
          PROVE  lookup[j].rows \subseteq lookup[k].rows
      <4>1. /\ lookup[k].rows = Visible(lookup[k].active, lookup[k].tenant)
            /\ lookup[j].rows = Visible(lookup[j].active, lookup[j].tenant)
        BY <1>1, <3>1, AnswersAre
      <4>. QED  BY <3>1, <4>1 DEF Visible
    <3>. QED  BY <3>1 DEF FewerFiltersMoreRows
  <2>. QED  BY <2>1, <2>2, <2>3, <2>4 DEF FiltersHold
<1>. QED  BY <1>1, FiltersInitInv, FiltersNextInv, PTL DEF FiltersSpec
=============================================================================
