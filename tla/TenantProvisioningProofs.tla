---------------------- MODULE TenantProvisioningProofs ----------------------
(***************************************************************************)
(* For every number of tenants, admins, calls and faults: the limit on     *)
(* tenants is overshot by races alone, and a call that returns has made    *)
(* its schema and all the tables.  The first invariant counts the schemas  *)
(* together with those on their way: when an admin passes the count there  *)
(* are fewer than MaxTenants schemas beside its own, so that all the       *)
(* admins' targets together add at most one each.  The second says what a  *)
(* call has still to create.                                               *)
(*                                                                         *)
(* For every number of owners, keys and classes: the doubly linked lists   *)
(* of the four caches are LRU caches, and Map, list and index agree.  The  *)
(* invariant: the links of each list lead along one sequence of keys,      *)
(* forwards and backwards, every key of the Map once.  Each operation on   *)
(* the links is then one on that sequence.                                 *)
(***************************************************************************)
EXTENDS TenantProvisioning, LinkedCaches, FiniteSetTheorems, WellFoundedInduction, TLAPS

\* Admins that have passed the count and not yet made their schema.
Admitted == {a \in Admins : step[a] \in {"unlock", "schema"}}

Targets(A) == {target[a] : a \in A}

\* The schemas there are or may be without another count.
Prospective == schemas \cup Targets(Admitted)

IInv == /\ TypeOK
        /\ Cardinality(Prospective) <= MaxTenants + Cardinality(Admins) - 1

USE ProvisioningAssumption

LEMMA ProspectiveIsFinite ==
    ASSUME TypeOK
    PROVE  /\ Prospective \subseteq Schemas
           /\ IsFiniteSet(Prospective)
           /\ Cardinality(Prospective) \in Nat
<1>1. Prospective \subseteq Schemas  BY DEF TypeOK, Prospective, Targets, Admitted
<1>. QED  BY <1>1, FS_Subset, FS_CardinalityType

\* A set that is no larger than the prospective schemas keeps the bound.
LEMMA Shrinks ==
    ASSUME IInv, Prospective' \subseteq Prospective, TypeOK'
    PROVE  IInv'
<1>1. Cardinality(Prospective') <= Cardinality(Prospective)
  BY ProspectiveIsFinite, FS_Subset DEF IInv
<1>2. Cardinality(Prospective') \in Nat
  BY ProspectiveIsFinite, FS_CardinalityType, FS_Subset DEF IInv
<1>3. Cardinality(Admins) \in Nat  BY FS_CardinalityType
<1>. QED  BY <1>1, <1>2, <1>3, ProspectiveIsFinite DEF IInv

\* There are no more targets than admins.
LEMMA TargetsOfAdmins ==
    ASSUME TypeOK
    PROVE  /\ IsFiniteSet(Targets(Admins))
           /\ Cardinality(Targets(Admins)) <= Cardinality(Admins)
           /\ Cardinality(Targets(Admins)) \in Nat
<1>1. target \in Surjection(Admins, Targets(Admins))
  BY DEF TypeOK, Targets, Surjection
<1>. QED  BY <1>1, FS_Surjection, FS_CardinalityType

\* An admin that passes the count.
LEMMA CountKeepsBound ==
    ASSUME TypeOK, NEW a \in Admins, Count(a)
    PROVE  Cardinality(Prospective') <= MaxTenants + Cardinality(Admins) - 1
           \/ Prospective' \subseteq Prospective
<1>1. CASE MayProvision(a)
  <2>. DEFINE others == schemas \ {target[a]}
  <2>1. Prospective' \subseteq others \cup Targets(Admins)
    BY DEF TypeOK, Count, Goto, Prospective, Targets, Admitted, Steps
  <2>2. IsFiniteSet(others) /\ Cardinality(others) \in Nat
    BY FS_Subset, FS_CardinalityType DEF TypeOK
  <2>3. Cardinality(others) < MaxTenants  BY <1>1 DEF MayProvision
  <2>4. /\ IsFiniteSet(others \cup Targets(Admins))
        /\ Cardinality(others \cup Targets(Admins)) \in Nat
        /\ Cardinality(others \cup Targets(Admins))
              <= Cardinality(others) + Cardinality(Targets(Admins))
    <3>1. /\ IsFiniteSet(others \cap Targets(Admins))
          /\ Cardinality(others \cap Targets(Admins)) \in Nat
      BY <2>2, FS_Intersection, FS_CardinalityType
    <3>2. /\ IsFiniteSet(others \cup Targets(Admins))
          /\ Cardinality(others \cup Targets(Admins))
                = Cardinality(others) + Cardinality(Targets(Admins))
                  - Cardinality(others \cap Targets(Admins))
      BY <2>2, TargetsOfAdmins, FS_Union
    <3>3. Cardinality(others \cup Targets(Admins)) \in Nat
      BY <3>2, FS_CardinalityType
    <3>. HIDE DEF others
    <3>. QED  BY <2>2, <3>1, <3>2, <3>3, TargetsOfAdmins
  <2>5. /\ Cardinality(Prospective') <= Cardinality(others \cup Targets(Admins))
        /\ Cardinality(Prospective') \in Nat
    BY <2>1, <2>4, FS_Subset, FS_CardinalityType
  <2>6. Cardinality(Admins) \in Nat  BY FS_CardinalityType
  <2>. HIDE DEF others
  <2>. QED  BY <2>2, <2>3, <2>4, <2>5, <2>6, TargetsOfAdmins
<1>2. CASE ~MayProvision(a)
  <2>1. Prospective' \subseteq Prospective
    BY <1>2 DEF TypeOK, Count, Goto, Prospective, Targets, Admitted, Steps
  <2>. QED  BY <2>1
<1>. QED  BY <1>1, <1>2

LEMMA NextTypeOK == TypeOK /\ [Next]_vars => TypeOK'
<1>. SUFFICES ASSUME TypeOK, [Next]_vars PROVE TypeOK'  OBVIOUS
<1>. USE DEF TypeOK, Steps, Goto
<1>1. CASE UNCHANGED vars  BY <1>1 DEF vars
<1>2. ASSUME NEW a \in Admins, ProvisionTenant(a) \/ DeprovisionTenant(a)
      PROVE  TypeOK'
  <2>. PICK s \in Schemas : target' = [target EXCEPT ![a] = s]
    BY <1>2 DEF ProvisionTenant, DeprovisionTenant, Call
  <2>1. /\ missing' \in [Admins -> SUBSET Tables]
        /\ calm' \in [Admins -> BOOLEAN]
    BY ZenonT(60), <1>2 DEF ProvisionTenant, DeprovisionTenant
  <2>2. /\ step[a] = "idle" /\ calls' = calls + 1
        /\ step' = [step EXCEPT ![a] = "lock"] \/ step' = [step EXCEPT ![a] = "drop"]
        /\ UNCHANGED <<schemas, tables, lock, faults>>
    BY <1>2 DEF ProvisionTenant, DeprovisionTenant, Call
  <2>3. step' \in [Admins -> Steps] /\ target' \in [Admins -> Schemas]  BY <2>2
  <2>4. \A b \in Admins : lock' = b <=> step'[b] \in {"count", "unlock", "refuse"}
    BY <2>2
  <2>. QED  BY <2>1, <2>2, <2>3, <2>4
<1>3. ASSUME NEW a \in Admins, Lock(a)
      PROVE  TypeOK'
  <2>1. /\ lock' = a /\ lock = Nobody /\ step[a] = "lock"
        /\ step' = [step EXCEPT ![a] = "count"]
        /\ UNCHANGED <<schemas, tables, target, missing, calm, calls, faults>>
    BY <1>3 DEF Lock
  <2>2. \A b \in Admins : step[b] \notin {"count", "unlock", "refuse"}  BY <2>1
  <2>. QED  BY <2>1, <2>2
<1>4. ASSUME NEW a \in Admins, Count(a)
      PROVE  TypeOK'
  BY <1>4 DEF Count, Fault
<1>5. ASSUME NEW a \in Admins, Unlock(a)
      PROVE  TypeOK'
  BY <1>5 DEF Unlock
<1>6. ASSUME NEW a \in Admins, CreateTenantSchema(a)
      PROVE  TypeOK'
  BY <1>6 DEF CreateTenantSchema
<1>7. ASSUME NEW a \in Admins, CreateTable(a)
      PROVE  TypeOK'
  BY <1>7 DEF CreateTable
<1>8. ASSUME NEW a \in Admins, DropTenantSchema(a)
      PROVE  TypeOK'
  BY <1>8 DEF DropTenantSchema
<1>9. ASSUME NEW a \in Admins, NoSchema(a) \/ Return(a)
      PROVE  TypeOK'
  BY <1>9 DEF NoSchema, Return, End
<1>10. ASSUME NEW a \in Admins, Break(a)
       PROVE  TypeOK'
  BY <1>10 DEF Break, End, Fault
<1>. QED  BY <1>1, <1>2, <1>3, <1>4, <1>5, <1>6, <1>7, <1>8, <1>9, <1>10 DEF Next, Progress

LEMMA InitIInv == Init => IInv
<1>. SUFFICES ASSUME Init PROVE IInv  OBVIOUS
<1>1. TypeOK  BY DEF Init, TypeOK, Steps
<1>2. Prospective = {}  BY DEF Init, Prospective, Targets, Admitted
<1>3. Cardinality(Prospective) = 0  BY <1>2, FS_EmptySet
<1>4. Cardinality(Admins) \in Nat /\ Cardinality(Admins) # 0
  BY FS_CardinalityType, FS_EmptySet
<1>. QED  BY <1>1, <1>3, <1>4 DEF IInv

LEMMA NextIInv == IInv /\ [Next]_vars => IInv'
<1>. SUFFICES ASSUME IInv, [Next]_vars PROVE IInv'  OBVIOUS
<1>0. TypeOK /\ TypeOK'  BY NextTypeOK DEF IInv
<1>. USE DEF Prospective, Targets, Admitted, Goto, End
<1>1. CASE UNCHANGED vars
  <2>1. Prospective' \subseteq Prospective  BY <1>1 DEF vars
  <2>. QED  BY <1>0, <2>1, Shrinks
<1>2. ASSUME NEW a \in Admins, ProvisionTenant(a) \/ DeprovisionTenant(a)
      PROVE  IInv'
  <2>1. Prospective' \subseteq Prospective
    BY <1>0, <1>2 DEF TypeOK, ProvisionTenant, DeprovisionTenant, Call
  <2>. QED  BY <1>0, <2>1, Shrinks
<1>3. ASSUME NEW a \in Admins, Count(a)
      PROVE  IInv'
  BY <1>0, <1>3, CountKeepsBound, Shrinks DEF IInv
<1>4. ASSUME NEW a \in Admins, Lock(a) \/ Unlock(a)
      PROVE  IInv'
  <2>1. Prospective' \subseteq Prospective
    BY <1>0, <1>4 DEF TypeOK, Lock, Unlock
  <2>. QED  BY <1>0, <2>1, Shrinks
<1>5. ASSUME NEW a \in Admins, CreateTenantSchema(a) \/ CreateTable(a) \/ DropTenantSchema(a)
      PROVE  IInv'
  <2>1. Prospective' \subseteq Prospective
    BY <1>0, <1>5 DEF TypeOK, CreateTenantSchema, CreateTable, DropTenantSchema
  <2>. QED  BY <1>0, <2>1, Shrinks
<1>6. ASSUME NEW a \in Admins, NoSchema(a) \/ Return(a) \/ Break(a)
      PROVE  IInv'
  <2>1. Prospective' \subseteq Prospective
    BY <1>0, <1>6 DEF TypeOK, NoSchema, Return, Break
  <2>. QED  BY <1>0, <2>1, Shrinks
<1>. QED  BY <1>1, <1>2, <1>3, <1>4, <1>5, <1>6 DEF Next, Progress

LEMMA IInvBounds == IInv => LimitHoldsUpToRaces
<1>. SUFFICES ASSUME IInv PROVE LimitHoldsUpToRaces  OBVIOUS
<1>1. schemas \subseteq Prospective  BY DEF Prospective
<1>2. Cardinality(schemas) <= Cardinality(Prospective)
  BY <1>1, ProspectiveIsFinite, FS_Subset DEF IInv
<1>3. Cardinality(schemas) \in Nat /\ Cardinality(Admins) \in Nat
  BY <1>1, ProspectiveIsFinite, FS_Subset, FS_CardinalityType DEF IInv
<1>. QED  BY <1>2, <1>3, ProspectiveIsFinite DEF IInv, LimitHoldsUpToRaces

\* provisionTenant never leaves more schemas than maxTenants and one for every
\* admin but the first, for all numbers of both.
THEOREM LimitHoldsUpToRacesAlways == Spec => []LimitHoldsUpToRaces
BY InitIInv, NextIInv, IInvBounds, PTL DEF Spec

-----------------------------------------------------------------------------
(* TypeOK and completeness *)

\* What a call has still to do is what is missing from its schema, as long as
\* the schema was not dropped under it: tables only go when a schema does.
Pending(a) ==
    /\ step[a] \in {"lock", "count", "unlock", "schema"} => missing[a] = Tables
    /\ step[a] = "tables" /\ calm[a] =>
          target[a] \in schemas /\ missing[a] \cup tables[target[a]] = Tables
    /\ step[a] = "done" /\ calm[a] =>
          target[a] \in schemas /\ tables[target[a]] = Tables

CInv == TypeOK /\ \A a \in Admins : Pending(a)

LEMMA InitCInv == Init => CInv
BY DEF Init, CInv, TypeOK, Pending, Steps

\* Another admin's step leaves what b has to do as it was, if it neither drops
\* a schema nor removes a table.
LEMMA OthersKeepPending ==
    ASSUME TypeOK, TypeOK', NEW b \in Admins, Pending(b),
           step'[b] = step[b], target'[b] = target[b], missing'[b] = missing[b],
           calm'[b] => calm[b],
           schemas \subseteq schemas',
           \A s \in Schemas : tables[s] \subseteq tables'[s]
    PROVE  Pending(b)'
<1>. DEFINE s == target[b]
<1>1. s \in Schemas /\ target'[b] = s  BY DEF TypeOK
<1>2. tables'[s] \subseteq Tables /\ missing[b] \subseteq Tables  BY <1>1 DEF TypeOK
<1>3. tables[s] \subseteq tables'[s]  BY <1>1
<1>4. s \in schemas => s \in schemas'  OBVIOUS
<1>5. missing[b] \cup tables[s] = Tables => missing[b] \cup tables'[s] = Tables  BY <1>2, <1>3
<1>6. tables[s] = Tables => tables'[s] = Tables  BY <1>2, <1>3
<1>7. /\ step[b] \in {"lock", "count", "unlock", "schema"} => missing[b] = Tables
      /\ step[b] = "tables" /\ calm[b] => s \in schemas /\ missing[b] \cup tables[s] = Tables
      /\ step[b] = "done" /\ calm[b] => s \in schemas /\ tables[s] = Tables
  BY DEF Pending
<1>. HIDE DEF s
<1>8. /\ step'[b] \in {"lock", "count", "unlock", "schema"} => missing'[b] = Tables
      /\ step'[b] = "tables" /\ calm'[b] => s \in schemas' /\ missing'[b] \cup tables'[s] = Tables
      /\ step'[b] = "done" /\ calm'[b] => s \in schemas' /\ tables'[s] = Tables
  BY <1>4, <1>5, <1>6, <1>7
<1>. QED  BY <1>1, <1>8 DEF Pending

LEMMA NextCInv == CInv /\ [Next]_vars => CInv'
<1>. SUFFICES ASSUME CInv, [Next]_vars PROVE CInv'  OBVIOUS
<1>0. TypeOK /\ TypeOK'  BY NextTypeOK DEF CInv
<1>1. CASE UNCHANGED vars  BY <1>0, <1>1 DEF vars, CInv, Pending
<1>2. ASSUME NEW a \in Admins, ProvisionTenant(a) \/ DeprovisionTenant(a)
      PROVE  CInv'
  <2>. SUFFICES ASSUME NEW b \in Admins PROVE Pending(b)'  BY <1>0 DEF CInv
  <2>1. CASE b = a
    BY <1>0, <1>2, <2>1
    DEF CInv, TypeOK, Pending, ProvisionTenant, DeprovisionTenant, Call, Goto
  <2>2. CASE b # a
    <3>. Pending(b)  BY DEF CInv
    <3>. QED  BY <1>0, <1>2, <2>2, OthersKeepPending
              DEF TypeOK, ProvisionTenant, DeprovisionTenant, Call, Goto
  <2>. QED  BY <2>1, <2>2
<1>3. ASSUME NEW a \in Admins, Lock(a) \/ Count(a)
      PROVE  CInv'
  <2>. SUFFICES ASSUME NEW b \in Admins PROVE Pending(b)'  BY <1>0 DEF CInv
  <2>1. CASE b = a
    BY <1>0, <1>3, <2>1 DEF CInv, TypeOK, Pending, Lock, Count, Goto
  <2>2. CASE b # a
    <3>. Pending(b)  BY DEF CInv
    <3>. QED  BY <1>0, <1>3, <2>2, OthersKeepPending DEF TypeOK, Lock, Count, Goto
  <2>. QED  BY <2>1, <2>2
<1>4. ASSUME NEW a \in Admins, Unlock(a) \/ CreateTenantSchema(a)
      PROVE  CInv'
  <2>. SUFFICES ASSUME NEW b \in Admins PROVE Pending(b)'  BY <1>0 DEF CInv
  <2>1. CASE b = a /\ Unlock(a)
    <3>1. CASE step[a] = "unlock"
      <4>1. step'[a] = "schema" /\ missing'[a] = missing[a]
        BY <1>0, <2>1, <3>1 DEF TypeOK, Unlock, Goto
      <4>2. missing[a] = Tables  BY <3>1 DEF CInv, Pending
      <4>. QED  BY <2>1, <4>1, <4>2 DEF Pending
    <3>2. CASE step[a] = "refuse"
      <4>1. step'[a] = "idle"  BY <1>0, <2>1, <3>2 DEF TypeOK, Unlock, Goto
      <4>. QED  BY <2>1, <4>1 DEF Pending
    <3>. QED  BY <2>1, <3>1, <3>2 DEF Unlock
  <2>3. CASE b = a /\ CreateTenantSchema(a)
    <3>1. /\ step'[a] = "tables" /\ target[a] \in schemas' /\ target'[a] = target[a]
          /\ missing'[a] = missing[a] /\ tables' = tables /\ calm'[a] = calm[a]
      BY <1>0, <2>3 DEF TypeOK, CreateTenantSchema, Goto
    <3>2. missing[a] = Tables
      BY <2>3 DEF CInv, Pending, CreateTenantSchema
    <3>3. tables[target[a]] \subseteq Tables  BY <1>0 DEF TypeOK
    <3>. QED  BY <2>3, <3>1, <3>2, <3>3 DEF Pending
  <2>2. CASE b # a
    <3>. Pending(b)  BY DEF CInv
    <3>. QED  BY <1>0, <1>4, <2>2, OthersKeepPending
              DEF TypeOK, Unlock, CreateTenantSchema, Goto
  <2>. QED  BY <1>4, <2>1, <2>2, <2>3
<1>5. ASSUME NEW a \in Admins, CreateTable(a)
      PROVE  CInv'
  <2>. SUFFICES ASSUME NEW b \in Admins PROVE Pending(b)'  BY <1>0 DEF CInv
  <2>. PICK t \in missing[a] :
          /\ tables' = [tables EXCEPT ![target[a]] = @ \cup {t}]
          /\ missing' = [missing EXCEPT ![a] = @ \ {t}]
          /\ Goto(a, IF missing[a] = {t} THEN "done" ELSE "tables")
    BY <1>5 DEF CreateTable
  <2>0. /\ step[a] = "tables"
        /\ UNCHANGED <<schemas, target, calm>>
    BY <1>5 DEF CreateTable
  <2>1. CASE b = a
    BY <1>0, <2>0, <2>1 DEF CInv, TypeOK, Pending, Goto
  <2>2. CASE b # a
    <3>1. Pending(b)  BY DEF CInv
    <3>2. \A s \in Schemas : tables[s] \subseteq tables'[s]  BY <1>0 DEF TypeOK
    <3>3. step'[b] = step[b] /\ missing'[b] = missing[b]
      BY <1>0, <2>2 DEF TypeOK, Goto
    <3>. QED  BY <1>0, <2>0, <3>1, <3>2, <3>3, OthersKeepPending
  <2>. QED  BY <2>1, <2>2
<1>6. ASSUME NEW a \in Admins, DropTenantSchema(a)
      PROVE  CInv'
  <2>. SUFFICES ASSUME NEW b \in Admins PROVE Pending(b)'  BY <1>0 DEF CInv
  <2>1. CASE b = a
    BY <1>0, <1>6, <2>1 DEF CInv, TypeOK, Pending, DropTenantSchema, Goto
  <2>2. CASE b # a
    BY <1>0, <1>6, <2>2 DEF CInv, TypeOK, Pending, DropTenantSchema, Goto
  <2>. QED  BY <2>1, <2>2
<1>7. ASSUME NEW a \in Admins, NoSchema(a) \/ Return(a) \/ Break(a)
      PROVE  CInv'
  <2>. SUFFICES ASSUME NEW b \in Admins PROVE Pending(b)'  BY <1>0 DEF CInv
  <2>1. CASE b = a
    BY <1>0, <1>7, <2>1 DEF CInv, TypeOK, Pending, NoSchema, Return, Break, End, Goto
  <2>2. CASE b # a
    <3>. Pending(b)  BY DEF CInv
    <3>. QED  BY <1>0, <1>7, <2>2, OthersKeepPending
              DEF TypeOK, NoSchema, Return, Break, End, Goto
  <2>. QED  BY <2>1, <2>2
<1>. QED  BY <1>1, <1>2, <1>3, <1>4, <1>5, <1>6, <1>7 DEF Next, Progress

LEMMA CInvariance == Spec => []CInv
BY InitCInv, NextCInv, PTL DEF Spec

LEMMA CInvImplies == CInv => TypeOK /\ ProvisionedIsComplete
BY DEF CInv, Pending, ProvisionedIsComplete

\* The variables keep their types, and the advisory lock is held exactly by the
\* admin that is between taking it and the finally block.
THEOREM TypeCorrect == Spec => []TypeOK
BY CInvariance, CInvImplies, PTL

\* provisionTenant that returns has left the schema and all its tables, for
\* every number of admins that provision, give up or drop meanwhile, unless one
\* dropped this very schema.
THEOREM ProvisionedIsCompleteAlways == Spec => []ProvisionedIsComplete
BY CInvariance, CInvImplies, PTL


-----------------------------------------------------------------------------
(* The linked lists of the caches *)

HIDE ProvisioningAssumption

MaybeKey == CacheKeys \cup {NoKey}

LinkedLists == [keys : SUBSET CacheKeys, head : MaybeKey, tail : MaybeKey,
                prev : [CacheKeys -> MaybeKey], next : [CacheKeys -> MaybeKey]]

\* The element of s at i, if there is one.
Stop(s, i) == IF i \in 1..Len(s) THEN s[i] ELSE NoKey

OnlyOnce(s) == \A i, j \in 1..Len(s) : s[i] = s[j] => i = j

\* The links of l lead along s and back.
Leads(l, s) ==
    /\ l \in LinkedLists /\ s \in Seq(CacheKeys) /\ OnlyOnce(s)
    /\ l.head = Stop(s, 1) /\ l.tail = Stop(s, Len(s))
    /\ \A i \in 1..Len(s) : l.next[s[i]] = Stop(s, i + 1) /\ l.prev[s[i]] = Stop(s, i - 1)

Holds(l, s) == Leads(l, s) /\ l.keys = ToSet(s)

LEMMA NoKeyIsNone == NoKey \notin CacheKeys
BY CachesAssumption

LEMMA SetIs == ASSUME NEW S, NEW s \in Seq(S) PROVE ToSet(s) = {s[i] : i \in 1..Len(s)}
BY DEF ToSet

LEMMA FieldsOf ==
    ASSUME NEW l \in LinkedLists
    PROVE  /\ l.keys \in SUBSET CacheKeys /\ l.head \in MaybeKey /\ l.tail \in MaybeKey
           /\ l.prev \in [CacheKeys -> MaybeKey] /\ l.next \in [CacheKeys -> MaybeKey]
BY DEF LinkedLists

LEMMA AddFields ==
    ASSUME NEW l \in LinkedLists, NEW k \in CacheKeys
    PROVE  /\ AddToHead(l, k) \in LinkedLists
           /\ AddToHead(l, k).keys = l.keys /\ AddToHead(l, k).head = k
           /\ AddToHead(l, k).tail = IF l.tail = NoKey THEN k ELSE l.tail
           /\ \A j \in CacheKeys :
                  /\ AddToHead(l, k).next[j] = IF j = k THEN l.head ELSE l.next[j]
                  /\ AddToHead(l, k).prev[j] = IF j = l.head THEN k
                                              ELSE IF j = k THEN NoKey ELSE l.prev[j]
<1>1. PICK ks \in SUBSET CacheKeys, h \in MaybeKey, t \in MaybeKey,
           p \in [CacheKeys -> MaybeKey], n \in [CacheKeys -> MaybeKey] :
          l = [keys |-> ks, head |-> h, tail |-> t, prev |-> p, next |-> n]
  BY DEF LinkedLists
<1>. DEFINE p1 == IF h = NoKey THEN [p EXCEPT ![k] = NoKey] ELSE [p EXCEPT ![k] = NoKey, ![h] = k]
            n1 == [n EXCEPT ![k] = h]
            t1 == IF t = NoKey THEN k ELSE t
<1>2. AddToHead(l, k) = [l EXCEPT !.prev = p1, !.next[k] = h, !.head = k, !.tail = t1]
  BY <1>1 DEF AddToHead
<1>3. AddToHead(l, k) = [keys |-> ks, head |-> k, tail |-> t1, prev |-> p1, next |-> n1]
  BY <1>1, <1>2
<1>4. p1 \in [CacheKeys -> MaybeKey]
      /\ \A j \in CacheKeys : p1[j] = IF j = h THEN k ELSE IF j = k THEN NoKey ELSE p[j]
  BY NoKeyIsNone DEF MaybeKey
<1>5. n1 \in [CacheKeys -> MaybeKey] /\ \A j \in CacheKeys : n1[j] = IF j = k THEN h ELSE n[j]
  BY DEF MaybeKey
<1>6. t1 \in MaybeKey /\ k \in MaybeKey  BY DEF MaybeKey
<1>. HIDE DEF p1, n1, t1
<1>7. AddToHead(l, k) \in LinkedLists  BY <1>3, <1>4, <1>5, <1>6 DEF LinkedLists
<1>8. t1 = IF t = NoKey THEN k ELSE t  BY DEF t1
<1>. QED  BY <1>1, <1>3, <1>4, <1>5, <1>7, <1>8

\* r is l where k's neighbours are linked to each other.
Unlinked(l, k, r) ==
    /\ r \in LinkedLists /\ r.keys = l.keys
    /\ r.head = IF l.prev[k] = NoKey THEN l.next[k] ELSE l.head
    /\ r.tail = IF l.next[k] = NoKey THEN l.prev[k] ELSE l.tail
    /\ \A j \in CacheKeys :
           /\ r.next[j] = IF j = k THEN NoKey ELSE IF j = l.prev[k] THEN l.next[k] ELSE l.next[j]
           /\ r.prev[j] = IF j = k THEN NoKey ELSE IF j = l.next[k] THEN l.prev[k] ELSE l.prev[j]

LEMMA RemoveFields ==
    ASSUME NEW l \in LinkedLists, NEW k \in CacheKeys
    PROVE  Unlinked(l, k, RemoveNode(l, k))
<1>1. PICK ks \in SUBSET CacheKeys, h \in MaybeKey, t \in MaybeKey,
           p \in [CacheKeys -> MaybeKey], n \in [CacheKeys -> MaybeKey] :
          l = [keys |-> ks, head |-> h, tail |-> t, prev |-> p, next |-> n]
  BY DEF LinkedLists
<1>. DEFINE p1 == [j \in CacheKeys |-> IF j = k THEN NoKey ELSE IF j = n[k] THEN p[k] ELSE p[j]]
            n1 == [j \in CacheKeys |-> IF j = k THEN NoKey ELSE IF j = p[k] THEN n[k] ELSE n[j]]
            h1 == IF p[k] = NoKey THEN n[k] ELSE h
            t1 == IF n[k] = NoKey THEN p[k] ELSE t
<1>2. RemoveNode(l, k) = [l EXCEPT !.head = h1, !.tail = t1, !.next = n1, !.prev = p1]
  BY <1>1 DEF RemoveNode
<1>3. RemoveNode(l, k) = [keys |-> ks, head |-> h1, tail |-> t1, prev |-> p1, next |-> n1]
  BY <1>1, <1>2
<1>4. p1 \in [CacheKeys -> MaybeKey] /\ n1 \in [CacheKeys -> MaybeKey]
      /\ h1 \in MaybeKey /\ t1 \in MaybeKey
  BY DEF MaybeKey
<1>5. \A j \in CacheKeys :
          /\ p1[j] = IF j = k THEN NoKey ELSE IF j = n[k] THEN p[k] ELSE p[j]
          /\ n1[j] = IF j = k THEN NoKey ELSE IF j = p[k] THEN n[k] ELSE n[j]
  OBVIOUS
<1>6. h1 = (IF p[k] = NoKey THEN n[k] ELSE h) /\ t1 = (IF n[k] = NoKey THEN p[k] ELSE t)
  OBVIOUS
<1>. HIDE DEF p1, n1, h1, t1
<1>7. RemoveNode(l, k) \in LinkedLists  BY <1>3, <1>4 DEF LinkedLists
<1>. QED  BY <1>1, <1>3, <1>5, <1>6, <1>7 DEF Unlinked

-----------------------------------------------------------------------------
(* Sequences *)

LEMMA PushedIs ==
    ASSUME NEW s \in Seq(CacheKeys), NEW k \in CacheKeys
    PROVE  /\ <<k>> \o s \in Seq(CacheKeys) /\ Len(<<k>> \o s) = Len(s) + 1
           /\ (<<k>> \o s)[1] = k
           /\ \A i \in 1..Len(s) : (<<k>> \o s)[i + 1] = s[i]
           /\ \A i \in 2..(Len(s) + 1) : (<<k>> \o s)[i] = s[i - 1]
OBVIOUS

LEMMA RemovedIs ==
    ASSUME NEW s \in Seq(CacheKeys), NEW i \in 1..Len(s)
    PROVE  /\ RemoveAt(s, i) \in Seq(CacheKeys) /\ Len(RemoveAt(s, i)) = Len(s) - 1
           /\ \A j \in 1..(Len(s) - 1) : RemoveAt(s, i)[j] = IF j < i THEN s[j] ELSE s[j + 1]
<1>1. SubSeq(s, 1, i - 1) \in Seq(CacheKeys) /\ Len(SubSeq(s, 1, i - 1)) = i - 1
      /\ \A j \in 1..(i - 1) : SubSeq(s, 1, i - 1)[j] = s[j]
  OBVIOUS
<1>2. SubSeq(s, i + 1, Len(s)) \in Seq(CacheKeys) /\ Len(SubSeq(s, i + 1, Len(s))) = Len(s) - i
      /\ \A j \in 1..(Len(s) - i) : SubSeq(s, i + 1, Len(s))[j] = s[i + j]
  OBVIOUS
<1>3. PICK a, b : a = SubSeq(s, 1, i - 1) /\ b = SubSeq(s, i + 1, Len(s))  OBVIOUS
<1>4. RemoveAt(s, i) = a \o b  BY <1>3 DEF RemoveAt
<1>5. a \o b \in Seq(CacheKeys) /\ Len(a \o b) = Len(a) + Len(b)
      /\ \A j \in 1..(Len(a) + Len(b)) : (a \o b)[j] = IF j <= Len(a) THEN a[j] ELSE b[j - Len(a)]
  <2>1. a \in Seq(CacheKeys) /\ b \in Seq(CacheKeys)  BY <1>1, <1>2, <1>3
  <2>. QED  BY ONLY <2>1
<1>6. Len(a) = i - 1 /\ Len(b) = Len(s) - i  BY <1>1, <1>2, <1>3
<1>7. ASSUME NEW j \in 1..(Len(s) - 1) PROVE (a \o b)[j] = IF j < i THEN s[j] ELSE s[j + 1]
  <2>1. CASE j < i
    <3>1. j \in 1..(i - 1) /\ j <= Len(a) /\ j \in 1..(Len(a) + Len(b))  BY <1>6, <2>1
    <3>. QED  BY <1>1, <1>3, <1>5, <2>1, <3>1
  <2>2. CASE ~(j < i)
    <3>1. /\ j - Len(a) \in 1..(Len(s) - i) /\ ~(j <= Len(a)) /\ j \in 1..(Len(a) + Len(b))
          /\ i + (j - Len(a)) = j + 1
      BY <1>6, <2>2
    <3>. QED  BY <1>2, <1>3, <1>5, <2>2, <3>1
  <2>. QED  BY <2>1, <2>2
<1>8. Len(a \o b) = Len(s) - 1  BY <1>5, <1>6
<1>. QED  BY <1>4, <1>5, <1>7, <1>8

LEMMA RemovedOnce ==
    ASSUME NEW s \in Seq(CacheKeys), OnlyOnce(s), NEW i \in 1..Len(s)
    PROVE  OnlyOnce(RemoveAt(s, i)) /\ ToSet(RemoveAt(s, i)) = ToSet(s) \ {s[i]}
<1>1. PICK r : r = RemoveAt(s, i)  OBVIOUS
<1>2. /\ r \in Seq(CacheKeys) /\ Len(r) = Len(s) - 1
      /\ \A j \in 1..(Len(s) - 1) : r[j] = IF j < i THEN s[j] ELSE s[j + 1]
  BY <1>1, RemovedIs
<1>3. OnlyOnce(r)
  <2>. SUFFICES ASSUME NEW j \in 1..(Len(s) - 1), NEW k \in 1..(Len(s) - 1), r[j] = r[k] PROVE j = k
    BY <1>2 DEF OnlyOnce
  <2>1. PICK m \in 1..Len(s) : r[j] = s[m] /\ m = IF j < i THEN j ELSE j + 1  BY <1>2
  <2>2. PICK n \in 1..Len(s) : r[k] = s[n] /\ n = IF k < i THEN k ELSE k + 1  BY <1>2
  <2>3. m = n  BY <2>1, <2>2 DEF OnlyOnce
  <2>. QED  BY <2>1, <2>2, <2>3
<1>4. ToSet(r) = {r[j] : j \in 1..(Len(s) - 1)} /\ ToSet(s) = {s[j] : j \in 1..Len(s)}
  BY <1>2, SetIs
<1>5. ASSUME NEW j \in 1..(Len(s) - 1) PROVE r[j] \in ToSet(s) \ {s[i]}
  BY <1>2, <1>4 DEF OnlyOnce
<1>6. ASSUME NEW j \in 1..Len(s), s[j] # s[i] PROVE s[j] \in ToSet(r)
  <2>1. CASE j < i
    <3>1. j \in 1..(Len(s) - 1) /\ r[j] = s[j]  BY <1>2, <2>1
    <3>. QED  BY <1>4, <3>1
  <2>2. CASE j > i
    <3>1. j - 1 \in 1..(Len(s) - 1) /\ r[j - 1] = s[j]  BY <1>2, <2>2
    <3>. QED  BY <1>4, <3>1
  <2>. QED  BY <1>6, <2>1, <2>2
<1>7. ToSet(r) \subseteq ToSet(s) \ {s[i]}  BY <1>4, <1>5
<1>8. ToSet(s) \ {s[i]} \subseteq ToSet(r)  BY <1>4, <1>6
<1>9. ToSet(r) = ToSet(s) \ {s[i]}  BY ONLY <1>7, <1>8
<1>. QED  BY <1>1, <1>3, <1>9

LEMMA PushedOnce ==
    ASSUME NEW s \in Seq(CacheKeys), OnlyOnce(s), NEW k \in CacheKeys, k \notin ToSet(s)
    PROVE  OnlyOnce(<<k>> \o s) /\ ToSet(<<k>> \o s) = ToSet(s) \cup {k}
<1>1. PICK r : r = <<k>> \o s  OBVIOUS
<1>2. /\ r \in Seq(CacheKeys) /\ Len(r) = Len(s) + 1 /\ r[1] = k
      /\ \A i \in 1..Len(s) : r[i + 1] = s[i]
      /\ \A i \in 2..(Len(s) + 1) : r[i] = s[i - 1]
  BY <1>1, PushedIs
<1>3. ToSet(r) = {r[j] : j \in 1..(Len(s) + 1)} /\ ToSet(s) = {s[j] : j \in 1..Len(s)}
  BY <1>2, SetIs
<1>4. OnlyOnce(r)
  <2>. SUFFICES ASSUME NEW i \in 1..(Len(s) + 1), NEW j \in 1..(Len(s) + 1), r[i] = r[j] PROVE i = j
    BY <1>2 DEF OnlyOnce
  <2>1. ASSUME NEW m \in 2..(Len(s) + 1) PROVE m - 1 \in 1..Len(s) /\ r[m] = s[m - 1] /\ r[m] # k
    <3>1. m - 1 \in 1..Len(s)  OBVIOUS
    <3>2. r[m] = s[m - 1]  BY <1>2
    <3>3. s[m - 1] \in ToSet(s)  BY <1>3, <3>1
    <3>. QED  BY <3>1, <3>2, <3>3
  <2>2. i = 1 \/ i \in 2..(Len(s) + 1)  OBVIOUS
  <2>3. j = 1 \/ j \in 2..(Len(s) + 1)  OBVIOUS
  <2>4. ASSUME i \in 2..(Len(s) + 1), j \in 2..(Len(s) + 1) PROVE i = j
    <3>1. i - 1 = j - 1  BY <2>1, <2>4 DEF OnlyOnce
    <3>. QED  BY <3>1
  <2>. QED  BY <1>2, <2>1, <2>2, <2>3, <2>4
<1>5. \A j \in 1..Len(s) : j + 1 \in 1..(Len(s) + 1) /\ s[j] = r[j + 1]  BY <1>2
<1>6. \A j \in 1..(Len(s) + 1) : r[j] = k \/ r[j] \in ToSet(s)
  <2>. SUFFICES ASSUME NEW j \in 1..(Len(s) + 1), j # 1 PROVE r[j] \in ToSet(s)
    BY <1>2
  <2>1. j - 1 \in 1..Len(s) /\ r[j] = s[j - 1]  BY <1>2
  <2>. QED  BY <1>3, <2>1
<1>7. ToSet(r) = ToSet(s) \cup {k}
  <2>1. k \in ToSet(r)  BY <1>2, <1>3
  <2>. QED  BY <1>3, <1>5, <1>6, <2>1
<1>. QED  BY <1>1, <1>4, <1>7

-----------------------------------------------------------------------------
(* What the operations do to a list *)

LEMMA AddLeads ==
    ASSUME NEW l, NEW s, Leads(l, s), NEW k \in CacheKeys, k \notin ToSet(s)
    PROVE  Leads(AddToHead(l, k), <<k>> \o s)
<1>1. l \in LinkedLists /\ s \in Seq(CacheKeys) /\ OnlyOnce(s)  BY DEF Leads
<1>2. PICK r, t : r = AddToHead(l, k) /\ t = <<k>> \o s  OBVIOUS
<1>3. /\ r \in LinkedLists /\ r.head = k /\ r.tail = IF l.tail = NoKey THEN k ELSE l.tail
      /\ \A j \in CacheKeys : /\ r.next[j] = IF j = k THEN l.head ELSE l.next[j]
                             /\ r.prev[j] = IF j = l.head THEN k ELSE IF j = k THEN NoKey ELSE l.prev[j]
  BY <1>1, <1>2, AddFields
<1>4. /\ t \in Seq(CacheKeys) /\ Len(t) = Len(s) + 1 /\ t[1] = k
      /\ \A i \in 2..(Len(s) + 1) : t[i] = s[i - 1]
  BY <1>1, <1>2, PushedIs
<1>5. OnlyOnce(t)  BY <1>1, <1>2, PushedOnce
<1>6. \A i \in 1..Len(s) : s[i] \in CacheKeys /\ s[i] # k /\ s[i] # NoKey
  BY <1>1, NoKeyIsNone, SetIs
<1>7. l.head = Stop(s, 1) /\ l.tail = Stop(s, Len(s))
      /\ \A i \in 1..Len(s) : l.next[s[i]] = Stop(s, i + 1) /\ l.prev[s[i]] = Stop(s, i - 1)
  BY DEF Leads
<1>8. Len(s) \in Nat  BY <1>1
<1>9. k # NoKey /\ l.head # k  BY <1>6, <1>7, NoKeyIsNone, <1>8 DEF Stop
<1>10. r.head = Stop(t, 1)  BY <1>3, <1>4, <1>8 DEF Stop
<1>11. r.tail = Stop(t, Len(t))
  <2>1. CASE Len(s) = 0  BY <1>3, <1>4, <1>7, <2>1 DEF Stop
  <2>2. CASE Len(s) # 0
    <3>1. Len(s) \in 1..Len(s) /\ Len(s) + 1 \in 2..(Len(s) + 1)  BY <1>8, <2>2
    <3>2. r.tail = s[Len(s)]  BY <1>3, <1>6, <1>7, <3>1 DEF Stop
    <3>3. t[Len(s) + 1] = s[Len(s)]  BY <1>4, <1>8, <3>1
    <3>4. Len(s) + 1 \in 1..Len(t)  BY <1>4, <1>8
    <3>. QED  BY <1>4, <3>2, <3>3, <3>4 DEF Stop
  <2>. QED  BY <2>1, <2>2
<1>12. r.next[t[1]] = Stop(t, 2) /\ r.prev[t[1]] = Stop(t, 0)
  <2>1. r.next[k] = l.head /\ r.prev[k] = NoKey  BY <1>3, <1>9
  <2>2. Stop(t, 0) = NoKey  BY DEF Stop
  <2>3. Stop(t, 2) = Stop(s, 1)
    <3>1. CASE Len(s) = 0  BY <1>4, <3>1 DEF Stop
    <3>2. CASE Len(s) # 0
      <4>1. 2 \in 1..Len(t) /\ 2 \in 2..(Len(s) + 1) /\ 1 \in 1..Len(s)  BY <1>4, <1>8, <3>2
      <4>2. t[2] = s[1]  BY <1>4, <4>1
      <4>. QED  BY <4>1, <4>2 DEF Stop
    <3>. QED  BY <3>1, <3>2
  <2>. QED  BY <1>4, <1>7, <2>1, <2>2, <2>3
<1>13. ASSUME NEW i \in 1..Len(t), i # 1
       PROVE  r.next[t[i]] = Stop(t, i + 1) /\ r.prev[t[i]] = Stop(t, i - 1)
  <2>1. i - 1 \in 1..Len(s) /\ t[i] = s[i - 1]  BY <1>4, <1>8, <1>13
  <2>2. PICK m \in 1..Len(s) : m = i - 1  BY <2>1
  <2>3. t[i] = s[m] /\ i = m + 1 /\ i + 1 = m + 2 /\ i - 1 = m  BY <2>1, <2>2
  <2>4. r.next[s[m]] = Stop(s, m + 1)  BY <1>3, <1>6, <1>7
  <2>5. Stop(s, m + 1) = Stop(t, m + 2)
    <3>1. CASE m = Len(s)  BY <1>4, <1>8, <3>1 DEF Stop
    <3>2. CASE m # Len(s)
      <4>1. m + 1 \in 1..Len(s) /\ m + 2 \in 2..(Len(s) + 1) /\ m + 2 \in 1..Len(t) /\ (m + 2) - 1 = m + 1
        BY <1>4, <1>8, <3>2
      <4>2. t[m + 2] = s[m + 1]  BY <1>4, <4>1
      <4>. QED  BY <4>1, <4>2 DEF Stop
    <3>. QED  BY <3>1, <3>2
  <2>6. r.prev[s[m]] = Stop(t, m)
    <3>1. CASE m = 1
      <4>1. s[m] = l.head  BY <1>7, <3>1, <2>2 DEF Stop
      <4>2. r.prev[s[m]] = k  BY <1>3, <1>6, <4>1
      <4>3. Stop(t, 1) = k  BY <1>4, <1>8 DEF Stop
      <4>. QED  BY <3>1, <4>2, <4>3
    <3>2. CASE m # 1
      <4>1. m - 1 \in 1..Len(s) /\ m \in 2..(Len(s) + 1) /\ m \in 1..Len(t) /\ 1 \in 1..Len(s)
        BY <1>4, <1>8, <3>2
      <4>2. s[m] # l.head  BY <1>1, <1>7, <3>2, <4>1 DEF Stop, OnlyOnce
      <4>3. r.prev[s[m]] = l.prev[s[m]]  BY <1>3, <1>6, <4>2
      <4>4. l.prev[s[m]] = s[m - 1]  BY <1>7, <4>1 DEF Stop
      <4>5. t[m] = s[m - 1]  BY <1>4, <4>1
      <4>. QED  BY <4>1, <4>3, <4>4, <4>5 DEF Stop
    <3>. QED  BY <3>1, <3>2
  <2>. QED  BY <2>3, <2>4, <2>5, <2>6
<1>14. \A i \in 1..Len(t) : r.next[t[i]] = Stop(t, i + 1) /\ r.prev[t[i]] = Stop(t, i - 1)
  <2>1. 1 + 1 = 2 /\ 1 - 1 = 0  OBVIOUS
  <2>. QED  BY <1>12, <1>13, <2>1
<1>15. Leads(r, t)  BY <1>3, <1>4, <1>5, <1>10, <1>11, <1>14 DEF Leads
<1>. QED  BY <1>2, <1>15

LEMMA RemoveLeads ==
    ASSUME NEW l, NEW s, Leads(l, s), NEW i \in 1..Len(s)
    PROVE  Leads(RemoveNode(l, s[i]), RemoveAt(s, i))
<1>1. l \in LinkedLists /\ s \in Seq(CacheKeys) /\ OnlyOnce(s) /\ Len(s) \in Nat  BY DEF Leads
<1>2. PICK k \in CacheKeys : k = s[i]  BY <1>1
<1>3. PICK r, t : r = RemoveNode(l, k) /\ t = RemoveAt(s, i)  OBVIOUS
<1>4. /\ r \in LinkedLists
      /\ r.head = IF l.prev[k] = NoKey THEN l.next[k] ELSE l.head
      /\ r.tail = IF l.next[k] = NoKey THEN l.prev[k] ELSE l.tail
      /\ \A j \in CacheKeys :
             /\ r.next[j] = IF j = k THEN NoKey ELSE IF j = l.prev[k] THEN l.next[k] ELSE l.next[j]
             /\ r.prev[j] = IF j = k THEN NoKey ELSE IF j = l.next[k] THEN l.prev[k] ELSE l.prev[j]
  <2>1. Unlinked(l, k, r)  BY <1>1, <1>3, RemoveFields
  <2>. QED  BY <2>1 DEF Unlinked
<1>5. /\ t \in Seq(CacheKeys) /\ Len(t) = Len(s) - 1 /\ Len(t) \in Nat
      /\ \A j \in 1..(Len(s) - 1) : t[j] = IF j < i THEN s[j] ELSE s[j + 1]
  <2>1. /\ RemoveAt(s, i) \in Seq(CacheKeys) /\ Len(RemoveAt(s, i)) = Len(s) - 1
        /\ \A j \in 1..(Len(s) - 1) : RemoveAt(s, i)[j] = IF j < i THEN s[j] ELSE s[j + 1]
    BY <1>1, RemovedIs
  <2>2. i \in 1..Len(s)  OBVIOUS
  <2>. QED  BY ONLY <1>1, <1>3, <2>1, <2>2
<1>6. OnlyOnce(t)  BY <1>1, <1>3, RemovedOnce
<1>7. \A j \in 1..Len(s) : s[j] \in CacheKeys /\ s[j] # NoKey /\ (j # i => s[j] # k)
  BY <1>1, <1>2, NoKeyIsNone DEF OnlyOnce
<1>8. l.head = Stop(s, 1) /\ l.tail = Stop(s, Len(s))
      /\ \A j \in 1..Len(s) : l.next[s[j]] = Stop(s, j + 1) /\ l.prev[s[j]] = Stop(s, j - 1)
  BY DEF Leads
<1>9. l.next[k] = Stop(s, i + 1) /\ l.prev[k] = Stop(s, i - 1)  BY <1>2, <1>8
<1>10. \A j \in Int : Stop(t, j) = IF j < i THEN Stop(s, j) ELSE Stop(s, j + 1)
  <2>. SUFFICES ASSUME NEW j \in Int PROVE Stop(t, j) = IF j < i THEN Stop(s, j) ELSE Stop(s, j + 1)
    OBVIOUS
  <2>1. CASE j \in 1..(Len(s) - 1)
    <3>1. j \in 1..Len(t) /\ j \in 1..Len(s) /\ j + 1 \in 1..Len(s)  BY <1>1, <1>5, <2>1
    <3>. QED  BY <1>5, <2>1, <3>1 DEF Stop
  <2>2. CASE j < 1
    <3>1. j \notin 1..Len(t) /\ j \notin 1..Len(s) /\ j < i  BY <2>2
    <3>. QED  BY <3>1 DEF Stop
  <2>3. CASE j > Len(s) - 1
    <3>1. j \notin 1..Len(t) /\ j + 1 \notin 1..Len(s) /\ ~(j < i)  BY <1>1, <1>5, <2>3
    <3>. QED  BY <3>1 DEF Stop
  <2>. QED  BY <1>1, <2>1, <2>2, <2>3
<1>11. \A j \in Int : j \in 1..Len(s) => Stop(s, j) = s[j] /\ Stop(s, j) # NoKey /\ Stop(s, j) \in CacheKeys
  BY <1>7 DEF Stop
<1>12. \A j \in Int : j \notin 1..Len(s) => Stop(s, j) = NoKey  BY DEF Stop
<1>13. r.head = Stop(t, 1)
  <2>1. CASE i = 1
    <3>1. l.prev[k] = NoKey  BY <1>9, <1>12, <2>1
    <3>. QED  BY SMTT(30), <1>4, <1>9, <1>10, <2>1, <3>1
  <2>2. CASE i # 1
    <3>1. i - 1 \in 1..Len(s) /\ 1 < i  BY <1>1, <2>2
    <3>2. l.prev[k] # NoKey  BY <1>9, <1>11, <3>1
    <3>. QED  BY <1>4, <1>8, <1>10, <3>1, <3>2
  <2>. QED  BY <2>1, <2>2
<1>14. r.tail = Stop(t, Len(t))
  <2>1. CASE i = Len(s)
    <3>1. i + 1 \notin 1..Len(s) /\ Len(t) = i - 1 /\ i - 1 < i /\ i - 1 \in Int  BY <1>1, <1>5, <2>1
    <3>2. l.next[k] = NoKey  BY <1>9, <1>12, <3>1
    <3>. QED  BY <1>4, <1>9, <1>10, <3>1, <3>2
  <2>2. CASE i # Len(s)
    <3>1. i + 1 \in 1..Len(s) /\ ~(Len(t) < i) /\ Len(t) + 1 = Len(s) /\ Len(t) \in Int  BY <1>1, <1>5, <2>2
    <3>2. l.next[k] # NoKey  BY <1>9, <1>11, <3>1
    <3>3. r.tail = Stop(s, Len(s))  BY <1>4, <1>8, <3>2
    <3>4. Stop(t, Len(t)) = Stop(s, Len(t) + 1)  BY <1>10, <3>1
    <3>. QED  BY <3>1, <3>3, <3>4
  <2>. QED  BY <2>1, <2>2
<1>15. ASSUME NEW m \in 1..Len(s), m # i
       PROVE  /\ r.next[s[m]] = IF m = i - 1 THEN Stop(s, i + 1) ELSE Stop(s, m + 1)
              /\ r.prev[s[m]] = IF m = i + 1 THEN Stop(s, i - 1) ELSE Stop(s, m - 1)
  <2>1. s[m] \in CacheKeys /\ s[m] # k /\ s[m] # NoKey  BY <1>7, <1>15
  <2>2. s[m] = l.prev[k] <=> m = i - 1
    <3>1. CASE i - 1 \in 1..Len(s)
      <4>1. l.prev[k] = s[i - 1]  BY <1>9, <1>11, <3>1
      <4>. QED  BY <1>1, <3>1, <4>1 DEF OnlyOnce
    <3>2. CASE i - 1 \notin 1..Len(s)
      <4>1. l.prev[k] = NoKey  BY <1>9, <1>12, <3>2
      <4>. QED  BY <2>1, <3>2, <4>1
    <3>. QED  BY <3>1, <3>2
  <2>3. s[m] = l.next[k] <=> m = i + 1
    <3>1. CASE i + 1 \in 1..Len(s)
      <4>1. l.next[k] = s[i + 1]  BY <1>9, <1>11, <3>1
      <4>. QED  BY <1>1, <3>1, <4>1 DEF OnlyOnce
    <3>2. CASE i + 1 \notin 1..Len(s)
      <4>1. l.next[k] = NoKey  BY <1>9, <1>12, <3>2
      <4>. QED  BY <2>1, <3>2, <4>1
    <3>. QED  BY <3>1, <3>2
  <2>4. r.next[s[m]] = IF s[m] = l.prev[k] THEN l.next[k] ELSE l.next[s[m]]  BY <1>4, <2>1
  <2>5. r.prev[s[m]] = IF s[m] = l.next[k] THEN l.prev[k] ELSE l.prev[s[m]]  BY <1>4, <2>1
  <2>. QED  BY <1>8, <1>9, <2>2, <2>3, <2>4, <2>5
<1>16. ASSUME NEW j \in 1..Len(t)
       PROVE  r.next[t[j]] = Stop(t, j + 1) /\ r.prev[t[j]] = Stop(t, j - 1)
  <2>1. j \in 1..(Len(s) - 1) /\ j \in Int /\ j + 1 \in Int /\ j - 1 \in Int  BY <1>1, <1>5
  <2>2. CASE j < i
    <3>1. t[j] = s[j] /\ j \in 1..Len(s) /\ j # i /\ j # i + 1  BY SMTT(30), <1>1, <1>5, <2>1, <2>2
    <3>2. Stop(t, j - 1) = Stop(s, j - 1)  BY <1>10, <2>1, <2>2
    <3>3. Stop(t, j + 1) = IF j = i - 1 THEN Stop(s, i + 1) ELSE Stop(s, j + 1)
      <4>1. CASE j = i - 1  BY <1>10, <2>1, <4>1
      <4>2. CASE j # i - 1
        <5>1. j + 1 < i  BY <2>2, <4>2
        <5>. QED  BY <1>10, <2>1, <4>2, <5>1
      <4>. QED  BY <4>1, <4>2
    <3>. QED  BY <1>15, <3>1, <3>2, <3>3
  <2>3. CASE ~(j < i)
    <3>1. PICK m \in 1..Len(s) : m = j + 1  BY <1>1, <2>1
    <3>2. t[j] = s[m] /\ m # i /\ m # i - 1  BY <1>5, <2>1, <2>3, <3>1
    <3>3. Stop(t, j + 1) = Stop(s, m + 1)
      <4>1. ~(j + 1 < i) /\ (j + 1) + 1 = m + 1  BY <2>3, <3>1
      <4>. QED  BY <1>10, <2>1, <4>1
    <3>4. Stop(t, j - 1) = IF m = i + 1 THEN Stop(s, i - 1) ELSE Stop(s, m - 1)
      <4>1. CASE m = i + 1
        <5>1. j - 1 = i - 1 /\ i - 1 < i  BY <3>1, <4>1
        <5>. QED  BY <1>10, <2>1, <4>1, <5>1
      <4>2. CASE m # i + 1
        <5>1. ~(j - 1 < i) /\ (j - 1) + 1 = m - 1  BY <2>3, <3>1, <4>2
        <5>. QED  BY <1>10, <2>1, <4>2, <5>1
      <4>. QED  BY <4>1, <4>2
    <3>. QED  BY <1>15, <3>2, <3>3, <3>4
  <2>. QED  BY <2>2, <2>3
<1>17. Leads(r, t)  BY <1>4, <1>5, <1>6, <1>13, <1>14, <1>16 DEF Leads
<1>. QED  BY <1>2, <1>3, <1>17

LEMMA LeadsInside ==
    ASSUME NEW l, NEW s, Leads(l, s)
    PROVE  /\ l \in LinkedLists /\ s \in Seq(CacheKeys) /\ OnlyOnce(s) /\ Len(s) \in Nat
           /\ ToSet(s) = {s[i] : i \in 1..Len(s)} /\ ToSet(s) \subseteq CacheKeys
           /\ l.head = Stop(s, 1) /\ l.tail = Stop(s, Len(s))
<1>1. s \in Seq(CacheKeys)  BY DEF Leads
<1>. QED  BY SMTT(30), <1>1, SetIs DEF Leads

\* Another set of keys leaves the links.
LEMMA KeysLead ==
    ASSUME NEW l, NEW s, Leads(l, s), NEW K \in SUBSET CacheKeys
    PROVE  Holds([l EXCEPT !.keys = K], s) <=> K = ToSet(s)
<1>1. PICK r : r = [l EXCEPT !.keys = K]  OBVIOUS
<1>2. /\ r \in LinkedLists /\ r.keys = K /\ r.head = l.head /\ r.tail = l.tail
      /\ r.next = l.next /\ r.prev = l.prev
  <2>1. PICK ks \in SUBSET CacheKeys, h \in MaybeKey, t \in MaybeKey,
             p \in [CacheKeys -> MaybeKey], n \in [CacheKeys -> MaybeKey] :
            l = [keys |-> ks, head |-> h, tail |-> t, prev |-> p, next |-> n]
    BY DEF LinkedLists, Leads
  <2>2. r = [keys |-> K, head |-> h, tail |-> t, prev |-> p, next |-> n]  BY <1>1, <2>1
  <2>. QED  BY <2>1, <2>2 DEF LinkedLists
<1>3. Leads(r, s)  BY <1>2 DEF Leads
<1>. QED  BY <1>1, <1>2, <1>3 DEF Holds

LEMMA MovedUpIs ==
    ASSUME NEW s \in Seq(CacheKeys), OnlyOnce(s), NEW i \in 1..Len(s)
    PROVE  LruCache!MovedUp(s, s[i]) = <<s[i]>> \o RemoveAt(s, i)
<1>1. {j \in 1..Len(s) : s[j] = s[i]} = {i}  BY DEF OnlyOnce
<1>2. LruCache!SelectInSeq(s, LAMBDA v : v = s[i]) = i  BY <1>1 DEF LruCache!SelectInSeq, LruCache!Min
<1>. QED  BY <1>2 DEF LruCache!MovedUp, LruCache!RemoveFirst, LruCache!RemoveAt, RemoveAt

LEMMA PushedHolds ==
    ASSUME NEW l, NEW s, Holds(l, s), NEW k \in CacheKeys, k \notin ToSet(s)
    PROVE  Holds(AddToHead([l EXCEPT !.keys = @ \cup {k}], k), <<k>> \o s)
<1>1. /\ l \in LinkedLists /\ s \in Seq(CacheKeys) /\ OnlyOnce(s)
      /\ l.keys = ToSet(s) /\ l.keys \in SUBSET CacheKeys
  BY LeadsInside DEF Holds
<1>2. PICK m : m = [l EXCEPT !.keys = l.keys \cup {k}]  OBVIOUS
<1>3. /\ m \in LinkedLists /\ m.keys = l.keys \cup {k} /\ m.head = l.head /\ m.tail = l.tail
      /\ m.next = l.next /\ m.prev = l.prev
  <2>1. PICK ks \in SUBSET CacheKeys, h \in MaybeKey, t \in MaybeKey,
             p \in [CacheKeys -> MaybeKey], n \in [CacheKeys -> MaybeKey] :
            l = [keys |-> ks, head |-> h, tail |-> t, prev |-> p, next |-> n]
    BY <1>1 DEF LinkedLists
  <2>2. m = [keys |-> ks \cup {k}, head |-> h, tail |-> t, prev |-> p, next |-> n]  BY <1>2, <2>1
  <2>. QED  BY <2>1, <2>2 DEF LinkedLists
<1>4. Leads(m, s)  BY <1>3 DEF Holds, Leads
<1>5. Leads(AddToHead(m, k), <<k>> \o s)  BY <1>4, AddLeads
<1>6. AddToHead(m, k).keys = l.keys \cup {k}  BY <1>3, AddFields
<1>7. ToSet(<<k>> \o s) = ToSet(s) \cup {k}  BY <1>1, PushedOnce
<1>. QED  BY <1>1, <1>2, <1>5, <1>6, <1>7 DEF Holds

LEMMA RemovedHolds ==
    ASSUME NEW l, NEW s, Holds(l, s), NEW i \in 1..Len(s)
    PROVE  Holds([RemoveNode(l, s[i]) EXCEPT !.keys = @ \ {s[i]}], RemoveAt(s, i))
<1>1. /\ l \in LinkedLists /\ s \in Seq(CacheKeys) /\ OnlyOnce(s)
      /\ l.keys = ToSet(s) /\ l.keys \in SUBSET CacheKeys
  BY LeadsInside DEF Holds
<1>2. PICK m, t : m = RemoveNode(l, s[i]) /\ t = RemoveAt(s, i)  OBVIOUS
<1>3. Leads(m, t)  BY <1>2, RemoveLeads DEF Holds
<1>4. m.keys = l.keys
  <2>1. s[i] \in CacheKeys  BY <1>1
  <2>2. Unlinked(l, s[i], m)  BY <1>1, <1>2, <2>1, RemoveFields
  <2>. QED  BY <2>2 DEF Unlinked
<1>5. ToSet(t) = ToSet(s) \ {s[i]}  BY <1>1, <1>2, RemovedOnce
<1>6. m.keys \ {s[i]} \in SUBSET CacheKeys  BY <1>1, <1>4
<1>7. Holds([m EXCEPT !.keys = m.keys \ {s[i]}], t)  BY <1>1, <1>3, <1>4, <1>5, <1>6, KeysLead
<1>. QED  BY <1>2, <1>7

LEMMA MovedHolds ==
    ASSUME NEW l, NEW s, Holds(l, s), NEW i \in 1..Len(s)
    PROVE  Holds(MoveToHead(l, s[i]), <<s[i]>> \o RemoveAt(s, i))
<1>1. /\ l \in LinkedLists /\ s \in Seq(CacheKeys) /\ OnlyOnce(s) /\ Len(s) \in Nat
      /\ l.keys = ToSet(s) /\ l.keys \in SUBSET CacheKeys /\ l.head = Stop(s, 1)
  BY LeadsInside DEF Holds
<1>2. PICK k \in CacheKeys : k = s[i]  BY <1>1
<1>3. PICK t : t = RemoveAt(s, i)  OBVIOUS
<1>4. /\ t \in Seq(CacheKeys) /\ OnlyOnce(t) /\ ToSet(t) = ToSet(s) \ {k}
      /\ Len(t) = Len(s) - 1
      /\ \A j \in 1..(Len(s) - 1) : t[j] = IF j < i THEN s[j] ELSE s[j + 1]
  <2>1. /\ t \in Seq(CacheKeys) /\ Len(t) = Len(s) - 1
        /\ \A j \in 1..(Len(s) - 1) : t[j] = IF j < i THEN s[j] ELSE s[j + 1]
    BY <1>1, <1>3, RemovedIs
  <2>. QED  BY <1>1, <1>2, <1>3, <2>1, RemovedOnce
<1>5. k \in ToSet(s)  BY <1>1, <1>2, SetIs
<1>6. CASE l.head = k
  <2>1. 1 \in 1..Len(s)  BY <1>1
  <2>2. i = 1  BY <1>1, <1>2, <1>6, <2>1 DEF Stop, OnlyOnce
  <2>3. PICK r : r = <<k>> \o t  OBVIOUS
  <2>4. r \in Seq(CacheKeys) /\ Len(r) = Len(t) + 1 /\ r[1] = k
        /\ \A j \in 2..(Len(t) + 1) : r[j] = t[j - 1]
    BY <1>4, <2>3, PushedIs
  <2>5. r = s
    <3>1. Len(r) = Len(s)  BY <1>1, <1>4, <2>4
    <3>2. ASSUME NEW j \in 1..Len(s) PROVE r[j] = s[j]
      <4>1. CASE j = 1  BY <1>2, <2>2, <2>4, <4>1
      <4>2. CASE j # 1
        <5>1. j \in 2..(Len(t) + 1) /\ j - 1 \in 1..(Len(s) - 1) /\ ~(j - 1 < i) /\ (j - 1) + 1 = j
          BY <1>1, <1>4, <2>2, <4>2
        <5>2. r[j] = t[j - 1]  BY <2>4, <5>1
        <5>3. t[j - 1] = s[(j - 1) + 1]  BY <1>4, <5>1
        <5>. QED  BY <5>1, <5>2, <5>3
      <4>. QED  BY <4>1, <4>2
    <3>. QED  BY <1>1, <2>4, <3>1, <3>2
  <2>6. MoveToHead(l, k) = l  BY <1>6 DEF MoveToHead
  <2>. QED  BY <1>2, <1>3, <2>3, <2>5, <2>6
<1>7. CASE l.head # k
  <2>1. PICK m : m = RemoveNode(l, k)  OBVIOUS
  <2>2. Leads(m, t)  BY <1>2, <1>3, <2>1, RemoveLeads DEF Holds
  <2>3. m \in LinkedLists /\ m.keys = l.keys
    <3>1. Unlinked(l, k, m)  BY <1>1, <2>1, RemoveFields
    <3>. QED  BY <3>1 DEF Unlinked
  <2>4. Leads(AddToHead(m, k), <<k>> \o t)  BY <1>4, <2>2, AddLeads
  <2>5. AddToHead(m, k).keys = m.keys  BY <2>3, AddFields
  <2>6. ToSet(<<k>> \o t) = ToSet(s)
    <3>1. ToSet(<<k>> \o t) = ToSet(t) \cup {k}  BY <1>4, PushedOnce
    <3>. QED  BY <1>4, <1>5, <3>1
  <2>7. MoveToHead(l, k) = AddToHead(m, k)  BY <1>7, <2>1 DEF MoveToHead
  <2>. QED  BY <1>1, <1>2, <1>3, <2>3, <2>4, <2>5, <2>6, <2>7 DEF Holds
<1>. QED  BY <1>6, <1>7

LEMMA FrontIs ==
    ASSUME NEW s \in Seq(CacheKeys), Len(s) # 0
    PROVE  RemoveAt(s, Len(s)) = Front(s) /\ Len(s) \in 1..Len(s)
<1>1. Len(s) \in Nat /\ Len(s) \in 1..Len(s)  OBVIOUS
<1>2. PICK t : t = RemoveAt(s, Len(s))  OBVIOUS
<1>3. PICK f : f = Front(s)  OBVIOUS
<1>4. f \in Seq(CacheKeys) /\ Len(f) = Len(s) - 1 /\ \A j \in 1..(Len(s) - 1) : f[j] = s[j]
  <2>1. f = SubSeq(s, 1, Len(s) - 1)  BY <1>3 DEF Front
  <2>2. Len(s) - 1 \in Nat /\ Len(s) - 1 <= Len(s)  BY <1>1
  <2>3. /\ SubSeq(s, 1, Len(s) - 1) \in Seq(CacheKeys) /\ Len(SubSeq(s, 1, Len(s) - 1)) = Len(s) - 1
        /\ \A j \in 1..(Len(s) - 1) : SubSeq(s, 1, Len(s) - 1)[j] = s[j]
    BY SMTT(30), <2>2
  <2>. QED  BY <2>1, <2>3
<1>5. /\ t \in Seq(CacheKeys) /\ Len(t) = Len(s) - 1
      /\ \A j \in 1..(Len(s) - 1) : t[j] = IF j < Len(s) THEN s[j] ELSE s[j + 1]
  BY <1>1, <1>2, RemovedIs
<1>6. \A j \in 1..(Len(s) - 1) : t[j] = f[j]  BY <1>1, <1>4, <1>5
<1>7. t = f  BY <1>1, <1>4, <1>5, <1>6
<1>. QED  BY <1>1, <1>2, <1>3, <1>7

LEMMA EvictedHolds ==
    ASSUME NEW l, NEW s, Holds(l, s), s # <<>>
    PROVE  Holds(EvictTail(l), Front(s))
<1>1. /\ l \in LinkedLists /\ s \in Seq(CacheKeys) /\ Len(s) \in Nat /\ l.tail = Stop(s, Len(s))
  BY LeadsInside DEF Holds
<1>2. Len(s) # 0  BY <1>1
<1>3. RemoveAt(s, Len(s)) = Front(s) /\ Len(s) \in 1..Len(s)  BY <1>1, <1>2, FrontIs
<1>4. l.tail = s[Len(s)] /\ l.tail # NoKey  BY <1>1, <1>3, NoKeyIsNone DEF Stop
<1>5. Holds([RemoveNode(l, s[Len(s)]) EXCEPT !.keys = @ \ {s[Len(s)]}], RemoveAt(s, Len(s)))
  BY <1>3, RemovedHolds
<1>6. EvictTail(l) = [RemoveNode(l, s[Len(s)]) EXCEPT !.keys = @ \ {s[Len(s)]}]
  BY <1>4 DEF EvictTail
<1>. QED  BY <1>3, <1>5, <1>6

LEMMA KeyIsAt ==
    ASSUME NEW l, NEW s, Holds(l, s), NEW k \in l.keys
    PROVE  \E i \in 1..Len(s) : s[i] = k
BY LeadsInside DEF Holds

LEMMA SizeIs ==
    ASSUME NEW l, NEW s, Holds(l, s)
    PROVE  IsFiniteSet(l.keys) /\ Cardinality(l.keys) = Len(s) /\ Len(s) <= Cardinality(CacheKeys)
<1>1. /\ s \in Seq(CacheKeys) /\ Len(s) \in Nat /\ OnlyOnce(s) /\ l.keys = {s[i] : i \in 1..Len(s)}
      /\ l.keys \subseteq CacheKeys
  BY LeadsInside DEF Holds
<1>. DEFINE f == [i \in 1..Len(s) |-> s[i]]
<1>2. f \in Bijection(1..Len(s), l.keys)
  BY <1>1 DEF Bijection, Injection, Surjection, IsInjective, OnlyOnce
<1>3. ExistsBijection(1..Len(s), l.keys)  BY <1>2 DEF ExistsBijection
<1>4. IsFiniteSet(1..Len(s)) /\ Cardinality(1..Len(s)) = Len(s)  BY SMTT(30), <1>1, FS_Interval
<1>5. IsFiniteSet(l.keys) /\ Cardinality(l.keys) = Len(s)  BY <1>3, <1>4, FS_Bijection
<1>6. Cardinality(l.keys) <= Cardinality(CacheKeys)  BY <1>1, FS_Subset, CachesAssumption
<1>. QED  BY <1>5, <1>6

LEMMA EmptyHolds == Holds(EmptyList, <<>>)
<1>1. EmptyList \in LinkedLists  BY DEF EmptyList, LinkedLists, MaybeKey
<1>2. <<>> \in Seq(CacheKeys) /\ Len(<<>>) = 0  OBVIOUS
<1>3. ToSet(<<>>) = {}  BY DEF ToSet
<1>. QED  BY <1>1, <1>2, <1>3 DEF EmptyList, Holds, Leads, OnlyOnce, Stop

LEMMA InOrderItself ==
    ASSUME NEW s \in Seq(CacheKeys) PROVE LruCache!InOrderOf(s, s)
BY DEF LruCache!InOrderOf, LruCache!ToSet

LEMMA InOrderEmpty ==
    ASSUME NEW s \in Seq(CacheKeys) PROVE LruCache!InOrderOf(<<>>, s)
BY DEF LruCache!InOrderOf, LruCache!ToSet

LEMMA InOrderTrans ==
    ASSUME NEW a \in Seq(CacheKeys), NEW b \in Seq(CacheKeys), NEW c \in Seq(CacheKeys),
           LruCache!InOrderOf(a, b), LruCache!InOrderOf(b, c)
    PROVE  LruCache!InOrderOf(a, c)
<1>. SUFFICES ASSUME NEW i \in DOMAIN a, NEW j \in DOMAIN a, i < j
              PROVE  \E m, n \in DOMAIN c : m < n /\ c[m] = a[i] /\ c[n] = a[j]
  BY DEF LruCache!InOrderOf
<1>1. PICK m \in DOMAIN b, n \in DOMAIN b : m < n /\ b[m] = a[i] /\ b[n] = a[j]
  BY DEF LruCache!InOrderOf
<1>2. PICK x \in DOMAIN c, y \in DOMAIN c : x < y /\ c[x] = b[m] /\ c[y] = b[n]
  BY <1>1 DEF LruCache!InOrderOf
<1>. QED  BY <1>1, <1>2

LEMMA InOrderRemoved ==
    ASSUME NEW s \in Seq(CacheKeys), NEW i \in 1..Len(s)
    PROVE  LruCache!InOrderOf(RemoveAt(s, i), s)
<1>1. PICK t : t = RemoveAt(s, i)  OBVIOUS
<1>2. /\ t \in Seq(CacheKeys) /\ Len(t) = Len(s) - 1
      /\ \A j \in 1..(Len(s) - 1) : t[j] = IF j < i THEN s[j] ELSE s[j + 1]
  BY <1>1, RemovedIs
<1>3. DOMAIN t = 1..(Len(s) - 1) /\ DOMAIN s = 1..Len(s) /\ Len(s) \in Nat  BY <1>2
<1>4. \A j \in DOMAIN t : \E m \in DOMAIN s : t[j] = s[m] /\ m = IF j < i THEN j ELSE j + 1
  BY <1>2, <1>3
<1>5. {t[j] : j \in DOMAIN t} \subseteq {s[j] : j \in DOMAIN s}  BY <1>4
<1>6. ASSUME NEW j \in DOMAIN t, NEW k \in DOMAIN t, j < k
      PROVE  \E m, n \in DOMAIN s : m < n /\ s[m] = t[j] /\ s[n] = t[k]
  <2>1. PICK m \in DOMAIN s : t[j] = s[m] /\ m = IF j < i THEN j ELSE j + 1  BY <1>4
  <2>2. PICK n \in DOMAIN s : t[k] = s[n] /\ n = IF k < i THEN k ELSE k + 1  BY <1>4
  <2>3. m < n  BY <1>3, <1>6, <2>1, <2>2
  <2>. QED  BY <2>1, <2>2, <2>3
<1>7. LruCache!InOrderOf(t, s)  BY <1>5, <1>6 DEF LruCache!InOrderOf, LruCache!ToSet
<1>. QED  BY <1>1, <1>7

LEMMA KeysKept ==
    ASSUME NEW l \in LinkedLists, NEW k \in CacheKeys
    PROVE  MoveToHead(l, k).keys = l.keys /\ RemoveNode(l, k) \in LinkedLists /\ RemoveNode(l, k).keys = l.keys
<1>1. PICK r : r = RemoveNode(l, k)  OBVIOUS
<1>2. r \in LinkedLists /\ r.keys = l.keys
  <2>1. Unlinked(l, k, r)  BY <1>1, RemoveFields
  <2>. QED  BY <2>1 DEF Unlinked
<1>3. AddToHead(r, k).keys = r.keys  BY <1>2, AddFields
<1>. QED  BY <1>1, <1>2, <1>3 DEF MoveToHead

LEMMA DropKeys ==
    ASSUME NEW l \in LinkedLists, NEW k \in CacheKeys
    PROVE  DropEntry(l, k).keys = l.keys \ {k}
<1>1. PICK r : r = RemoveNode(l, k)  OBVIOUS
<1>2. r \in LinkedLists /\ r.keys = l.keys  BY <1>1, KeysKept
<1>3. [r EXCEPT !.keys = @ \ {k}].keys = r.keys \ {k}  BY <1>2 DEF LinkedLists
<1>. QED  BY <1>1, <1>2, <1>3 DEF DropEntry

LEMMA DropHolds ==
    ASSUME NEW l, NEW s, Holds(l, s), NEW k
    PROVE  \E t \in Seq(CacheKeys) : Holds(DropEntry(l, k), t) /\ LruCache!InOrderOf(t, s)
<1>1. s \in Seq(CacheKeys)  BY DEF Holds, Leads
<1>2. CASE k \notin l.keys  BY <1>1, <1>2, InOrderItself DEF DropEntry
<1>3. CASE k \in l.keys
  <2>1. PICK i \in 1..Len(s) : s[i] = k  BY <1>3, KeyIsAt
  <2>2. Holds([RemoveNode(l, s[i]) EXCEPT !.keys = @ \ {s[i]}], RemoveAt(s, i))
    BY RemovedHolds
  <2>3. Holds(DropEntry(l, k), RemoveAt(s, i))  BY <1>3, <2>1, <2>2 DEF DropEntry
  <2>4. LruCache!InOrderOf(RemoveAt(s, i), s)  BY <1>1, InOrderRemoved
  <2>5. RemoveAt(s, i) \in Seq(CacheKeys)  BY <1>1, RemovedIs
  <2>. QED  BY <2>3, <2>4, <2>5
<1>. QED  BY <1>2, <1>3

LEMMA FewFirst ==
    ASSUME NEW s \in Seq(CacheKeys)
    PROVE  /\ Len(s) <= Capacity => LruCache!FirstKeys(s, Capacity) = s
           /\ Len(s) = Capacity + 1 => LruCache!FirstKeys(s, Capacity) = Front(s)
<1>1. Capacity \in Nat /\ Len(s) \in Nat  BY CachesAssumption
<1>2. ASSUME Len(s) <= Capacity PROVE LruCache!FirstKeys(s, Capacity) = s
  <2>1. LruCache!FirstKeys(s, Capacity) = SubSeq(s, 1, Len(s))  BY <1>1, <1>2 DEF LruCache!FirstKeys
  <2>. QED  BY <2>1
<1>3. ASSUME Len(s) = Capacity + 1 PROVE LruCache!FirstKeys(s, Capacity) = Front(s)
  <2>1. ~(Len(s) < Capacity) /\ Len(s) - 1 = Capacity  BY <1>1, <1>3
  <2>. QED  BY <2>1 DEF LruCache!FirstKeys, Front
<1>. QED  BY <1>2, <1>3

\* put: the entry is the head, and the tail goes if there are too many.
LEMMA PutHolds ==
    ASSUME NEW l, NEW s, Holds(l, s), Len(s) <= Capacity, NEW k \in CacheKeys
    PROVE  /\ Holds(PutEntry(l, k), LruCache!FirstKeys(LruCache!MovedUp(s, k), Capacity))
           /\ LruCache!FirstKeys(LruCache!MovedUp(s, k), Capacity) \in Seq(CacheKeys)
           /\ Len(LruCache!FirstKeys(LruCache!MovedUp(s, k), Capacity)) <= Capacity
           /\ k \in l.keys =>
                 /\ PutEntry(l, k) = MoveToHead(l, k)
                 /\ LruCache!FirstKeys(LruCache!MovedUp(s, k), Capacity) = LruCache!MovedUp(s, k)
           /\ k \in PutEntry(l, k).keys /\ PutEntry(l, k).keys \subseteq l.keys \cup {k}
<1>1. s \in Seq(CacheKeys) /\ OnlyOnce(s) /\ Len(s) \in Nat /\ l.keys = ToSet(s)
      /\ l.keys = {s[i] : i \in 1..Len(s)}
  BY LeadsInside DEF Holds
<1>2. Capacity \in Nat /\ Capacity >= 1  BY CachesAssumption
<1>3. PICK m, f : m = LruCache!MovedUp(s, k) /\ f = LruCache!FirstKeys(m, Capacity)  OBVIOUS
<1>4. CASE k \in l.keys
  <2>1. PICK i \in 1..Len(s) : s[i] = k  BY <1>4, KeyIsAt
  <2>2. m = <<k>> \o RemoveAt(s, i)  BY <1>1, <1>3, <2>1, MovedUpIs
  <2>3. m \in Seq(CacheKeys) /\ Len(m) = Len(s)
    <3>1. PICK t : t = RemoveAt(s, i)  OBVIOUS
    <3>2. t \in Seq(CacheKeys) /\ Len(t) = Len(s) - 1  BY <1>1, <3>1, RemovedIs
    <3>. QED  BY <1>1, <2>2, <3>1, <3>2, PushedIs
  <2>4. f = m  BY <1>3, <2>3, FewFirst
  <2>5. Holds(MoveToHead(l, k), m)  BY <2>1, <2>2, MovedHolds
  <2>6. PutEntry(l, k) = MoveToHead(l, k)  BY <1>4 DEF PutEntry
  <2>7. MoveToHead(l, k).keys = l.keys
    <3>1. PICK t : t = RemoveAt(s, i)  OBVIOUS
    <3>2. t \in Seq(CacheKeys) /\ OnlyOnce(t) /\ ToSet(t) = ToSet(s) \ {k}
      BY <1>1, <2>1, <3>1, RemovedIs, RemovedOnce
    <3>3. ToSet(m) = ToSet(t) \cup {k}  BY <2>2, <3>1, <3>2, PushedOnce
    <3>. QED  BY <1>1, <1>4, <2>5, <3>2, <3>3 DEF Holds
  <2>. QED  BY <1>3, <1>4, <2>3, <2>4, <2>5, <2>6, <2>7
<1>5. CASE k \notin l.keys
  <2>1. m = <<k>> \o s  
    <3>1. ~ \E i \in 1..Len(s) : s[i] = k  BY <1>1, <1>5
    <3>. QED  BY <1>3, <3>1 DEF LruCache!MovedUp, LruCache!RemoveFirst
  <2>2. m \in Seq(CacheKeys) /\ Len(m) = Len(s) + 1  BY <1>1, <2>1, PushedIs
  <2>3. PICK new : new = AddToHead([l EXCEPT !.keys = @ \cup {k}], k)  OBVIOUS
  <2>4. Holds(new, m)  BY <1>1, <1>5, <2>1, <2>3, PushedHolds
  <2>5. Cardinality(new.keys) = Len(s) + 1  BY <2>2, <2>4, SizeIs
  <2>6. PutEntry(l, k) = IF Cardinality(new.keys) > Capacity THEN EvictTail(new) ELSE new
    BY <1>5, <2>3 DEF PutEntry
  <2>7. new.keys = l.keys \cup {k}
    <3>1. ToSet(m) = ToSet(s) \cup {k}  BY <1>1, <1>5, <2>1, PushedOnce
    <3>. QED  BY <1>1, <2>4, <3>1 DEF Holds
  <2>8. CASE Len(s) < Capacity
    <3>1. f = m  BY <1>1, <1>2, <1>3, <2>2, <2>8, FewFirst
    <3>2. PutEntry(l, k) = new  BY <1>1, <1>2, <2>5, <2>6, <2>8
    <3>. QED  BY <1>1, <1>2, <1>3, <1>5, <2>2, <2>4, <2>7, <2>8, <3>1, <3>2
  <2>9. CASE Len(s) = Capacity
    <3>1. f = Front(m)  BY <1>3, <2>2, <2>9, FewFirst
    <3>2. PutEntry(l, k) = EvictTail(new)  BY <1>2, <2>5, <2>6, <2>9
    <3>3. m # <<>> /\ Len(m) # 0  BY <1>1, <2>2
    <3>4. Holds(EvictTail(new), f)  BY <2>4, <3>1, <3>3, EvictedHolds
    <3>5. f \in Seq(CacheKeys) /\ Len(f) = Len(m) - 1 /\ OnlyOnce(m)
          /\ f = RemoveAt(m, Len(m)) /\ Len(m) \in 1..Len(m)
      BY <2>2, <2>4, <3>1, <3>3, FrontIs, RemovedIs DEF Holds, Leads
    <3>6. ToSet(f) = ToSet(m) \ {m[Len(m)]}  BY <2>2, <3>5, RemovedOnce
    <3>7. m[Len(m)] # k
      <4>1. m[1] = k  BY <1>1, <2>1, PushedIs
      <4>2. 1 \in 1..Len(m) /\ Len(m) # 1  BY <1>2, <2>2, <2>9
      <4>. QED  BY <3>5, <4>1, <4>2 DEF OnlyOnce
    <3>8. k \in ToSet(f) /\ ToSet(f) \subseteq l.keys \cup {k}
      BY <2>4, <2>7, <3>6, <3>7 DEF Holds
    <3>9. Len(f) <= Capacity  BY <1>2, <2>2, <2>9, <3>5
    <3>. QED  BY <1>3, <1>5, <3>2, <3>4, <3>5, <3>8, <3>9 DEF Holds
  <2>. QED  BY <1>1, <1>2, <2>8, <2>9
<1>. QED  BY <1>4, <1>5

LEMMA LeastNumber ==
    ASSUME NEW P \in SUBSET Nat, P # {}
    PROVE  \E m \in P : \A i \in P : m <= i
<1>. DEFINE Below == {p \in Nat \X Nat : p[1] < p[2]}
<1>1. IsWellFoundedOn(Below, Nat)  BY NatLessThanWellFounded DEF OpToRel
<1>. HIDE DEF Below
<1>2. PICK m \in P : \A i \in P : <<i, m>> \notin Below  BY <1>1, WFMin
<1>3. ASSUME NEW i \in P PROVE m <= i
  <2>1. <<i, m>> \notin Below /\ i \in Nat /\ m \in Nat  BY <1>2
  <2>. QED  BY <2>1 DEF Below
<1>. QED  BY <1>3

LEMMA VisitedAre ==
    ASSUME NEW l, NEW s, Holds(l, s)
    PROVE  Visited(l) = [n \in 1..Cardinality(CacheKeys) |-> Stop(s, n)]
<1>1. /\ s \in Seq(CacheKeys) /\ Len(s) \in Nat /\ l.head = Stop(s, 1)
      /\ \A i \in 1..Len(s) : s[i] \in CacheKeys /\ s[i] # NoKey /\ l.next[s[i]] = Stop(s, i + 1)
  BY NoKeyIsNone, LeadsInside DEF Holds, Leads
<1>2. PICK N \in Nat : N = Cardinality(CacheKeys)  BY CachesAssumption, FS_CardinalityType
<1>. DEFINE Step(g) == [n \in 1..N |-> IF n = 1 THEN l.head
                                       ELSE IF g[n - 1] = NoKey THEN NoKey ELSE l.next[g[n - 1]]]
            f == [n \in 1..N |-> Stop(s, n)]
            at == CHOOSE g : g = Step(g)
<1>3. Visited(l) = at  BY <1>2 DEF Visited
<1>4. ASSUME NEW n \in 1..N, n # 1
      PROVE  Stop(s, n) = IF Stop(s, n - 1) = NoKey THEN NoKey ELSE l.next[Stop(s, n - 1)]
  <2>1. n - 1 \in Nat /\ n - 1 >= 1 /\ (n - 1) + 1 = n  BY <1>4
  <2>2. CASE n - 1 \in 1..Len(s)  BY <1>1, <2>1, <2>2 DEF Stop
  <2>3. CASE n - 1 \notin 1..Len(s)
    <3>1. n \notin 1..Len(s)  BY <1>1, <2>1, <2>3
    <3>. QED  BY <2>3, <3>1 DEF Stop
  <2>. QED  BY <2>2, <2>3
<1>5. f = Step(f)
  <2>1. \A n \in 1..N : n # 1 => n - 1 \in 1..N  BY <1>2
  <2>. QED  BY <1>1, <1>4, <2>1
<1>6. at = Step(at)  BY <1>5
<1>. HIDE DEF at
<1>7. ASSUME NEW n \in 1..N, at[n] # f[n] PROVE FALSE
  <2>. DEFINE Bad == {m \in 1..N : at[m] # f[m]}
  <2>1. PICK m \in Bad : \A i \in Bad : m <= i
    <3>1. Bad \in SUBSET Nat /\ Bad # {}  BY <1>2, <1>7
    <3>. QED  BY <3>1, LeastNumber
  <2>2. m # 1  BY <1>1, <1>6
  <2>3. m - 1 \in 1..N /\ m - 1 \notin Bad  BY <1>2, <2>1, <2>2
  <2>4. at[m - 1] = Stop(s, m - 1)  BY <2>3
  <2>5. at[m] = IF at[m - 1] = NoKey THEN NoKey ELSE l.next[at[m - 1]]  BY <1>6, <2>2
  <2>. QED  BY <1>4, <2>1, <2>2, <2>4, <2>5
<1>8. at = f
  <2>1. at = [n \in 1..N |-> at[n]]  BY <1>6
  <2>. QED  BY <1>7, <2>1
<1>. QED  BY <1>2, <1>3, <1>8

LEMMA WalkIs ==
    ASSUME NEW l, NEW s, Holds(l, s)
    PROVE  Walk(l) = s
<1>1. /\ s \in Seq(CacheKeys) /\ Len(s) \in Nat
      /\ \A i \in 1..Len(s) : s[i] \in CacheKeys /\ s[i] # NoKey
  BY NoKeyIsNone DEF Holds, Leads
<1>2. PICK N \in Nat : N = Cardinality(CacheKeys)  BY CachesAssumption, FS_CardinalityType
<1>3. PICK f : f = [n \in 1..N |-> Stop(s, n)]  OBVIOUS
<1>4. Visited(l) = f  BY <1>2, <1>3, VisitedAre
<1>5. Len(s) <= N  BY <1>2, SizeIs
<1>6. {n \in 1..N : f[n] # NoKey} = 1..Len(s)
  <2>1. \A n \in 1..N : f[n] = IF n \in 1..Len(s) THEN s[n] ELSE NoKey  BY <1>3 DEF Stop
  <2>2. \A n \in 1..Len(s) : n \in 1..N  BY <1>1, <1>2, <1>5
  <2>. QED  BY <1>1, <2>1, <2>2
<1>7. Cardinality(1..Len(s)) = Len(s)  BY <1>1, FS_Interval
<1>8. Walk(l) = SubSeq(f, 1, Len(s))  BY <1>2, <1>4, <1>6, <1>7 DEF Walk
<1>9. f \in Seq(MaybeKey) /\ Len(f) = N
  <2>1. f \in [1..N -> MaybeKey]  BY <1>1, <1>3 DEF Stop, MaybeKey
  <2>. QED  BY <2>1
<1>10. /\ SubSeq(f, 1, Len(s)) \in Seq(MaybeKey) /\ Len(SubSeq(f, 1, Len(s))) = Len(s)
       /\ \A i \in 1..Len(s) : SubSeq(f, 1, Len(s))[i] = f[i]
  BY <1>1, <1>5, <1>9
<1>11. \A i \in 1..Len(s) : f[i] = s[i]  BY <1>1, <1>3, <1>5 DEF Stop
<1>12. s \in Seq(MaybeKey)  BY <1>1 DEF MaybeKey
<1>13. PICK w : w = SubSeq(f, 1, Len(s))  OBVIOUS
<1>14. w = s  BY <1>10, <1>11, <1>12, <1>13
<1>. QED  BY <1>8, <1>13, <1>14

LEMMA DroppedHolds ==
    ASSUME NEW l, NEW s, Holds(l, s), NEW ks \in Seq(CacheKeys)
    PROVE  /\ \E t \in Seq(CacheKeys) : Holds(Dropped(l, ks), t) /\ LruCache!InOrderOf(t, s)
           /\ Dropped(l, ks).keys = l.keys \ ToSet(ks)
<1>1. PICK N \in Nat : N = Len(ks)  OBVIOUS
<1>. DEFINE After(n, g) == g = [m \in 0..n |-> IF m = 0 THEN l ELSE DropEntry(g[m - 1], ks[m])]
            Left(g, n) == /\ \E t \in Seq(CacheKeys) : Holds(g[n], t) /\ LruCache!InOrderOf(t, s)
                          /\ g[n].keys = l.keys \ {ks[i] : i \in 1..n}
<1>2. s \in Seq(CacheKeys)  BY DEF Holds, Leads
<1>3. \A n \in 0..N : \E g : After(n, g) /\ Left(g, n)
  <2>. DEFINE Bad == {n \in 0..N : ~ \E g : After(n, g) /\ Left(g, n)}
  <2>. SUFFICES ASSUME Bad # {} PROVE FALSE  OBVIOUS
  <2>1. PICK n \in Bad : \A i \in Bad : n <= i
    <3>1. Bad \in SUBSET Nat  BY <1>1
    <3>. QED  BY <3>1, LeastNumber
  <2>2. CASE n = 0
    <3>1. PICK g : g = [m \in 0..0 |-> l]  OBVIOUS
    <3>2. After(0, g)  BY <3>1
    <3>3. Left(g, 0)  BY <1>2, <3>1, InOrderItself
    <3>. QED  BY <2>1, <2>2, <3>2, <3>3
  <2>3. CASE n # 0
    <3>0. n \in 0..N  BY <2>1
    <3>1. n - 1 \in 0..N /\ ~(n <= n - 1)  BY <1>1, <2>3, <3>0
    <3>2. PICK g : After(n - 1, g) /\ Left(g, n - 1)
      <4>1. n - 1 \notin Bad
        <5>. HIDE DEF Bad
        <5>. QED  BY <2>1, <3>1
      <4>. QED  BY <3>1, <4>1
    <3>3. PICK h : h = [m \in 0..n |-> IF m = n THEN DropEntry(g[n - 1], ks[n]) ELSE g[m]]  OBVIOUS
    <3>4. After(n, h)
      <4>1. ASSUME NEW m \in 0..n
            PROVE  h[m] = IF m = 0 THEN l ELSE DropEntry(h[m - 1], ks[m])
        <5>1. CASE m = n
          <6>1. n - 1 \in 0..n /\ n - 1 # n  BY <1>1, <2>3
          <6>. QED  BY <2>3, <3>3, <5>1, <6>1
        <5>2. CASE m # n
          <6>1. m \in 0..(n - 1) /\ (m # 0 => m - 1 \in 0..n /\ m - 1 # n)  BY <1>1, <5>2
          <6>2. g[m] = IF m = 0 THEN l ELSE DropEntry(g[m - 1], ks[m])  BY <3>2, <6>1
          <6>. QED  BY <3>3, <5>2, <6>1, <6>2
        <5>. QED  BY <5>1, <5>2
      <4>2. h = [m \in 0..n |-> h[m]]  BY <3>3
      <4>. QED  BY <4>1, <4>2
    <3>5. Left(h, n)
      <4>1. PICK t \in Seq(CacheKeys) : Holds(g[n - 1], t) /\ LruCache!InOrderOf(t, s)  BY <3>2
      <4>2. PICK u \in Seq(CacheKeys) : Holds(DropEntry(g[n - 1], ks[n]), u) /\ LruCache!InOrderOf(u, t)
        BY <4>1, DropHolds
      <4>3. LruCache!InOrderOf(u, s)  BY <1>2, <4>1, <4>2, InOrderTrans
      <4>4. h[n] = DropEntry(g[n - 1], ks[n])  BY <1>1, <3>3
      <4>5. h[n].keys = g[n - 1].keys \ {ks[n]}
        <5>1. g[n - 1] \in LinkedLists /\ ks[n] \in CacheKeys  BY <1>1, <2>3, <3>0, <4>1 DEF Holds, Leads
        <5>. QED  BY <4>4, <5>1, DropKeys
      <4>6. {ks[i] : i \in 1..n} = {ks[i] : i \in 1..(n - 1)} \cup {ks[n]}
        <5>1. \A i \in 1..n : i \in 1..(n - 1) \/ i = n  BY <1>1, <3>0
        <5>2. \A i \in 1..(n - 1) : i \in 1..n  BY <1>1, <3>0
        <5>3. n \in 1..n  BY <1>1, <2>3, <3>0
        <5>. QED  BY <5>1, <5>2, <5>3
      <4>7. g[n - 1].keys = l.keys \ {ks[i] : i \in 1..(n - 1)}  BY <3>2
      <4>. QED  BY <4>2, <4>3, <4>4, <4>5, <4>6, <4>7
    <3>. QED  BY <2>1, <3>4, <3>5
  <2>. QED  BY <2>2, <2>3
<1>4. PICK g : After(N, g) /\ Left(g, N)
  <2>1. N \in 0..N  OBVIOUS
  <2>. QED  BY <1>3, <2>1, Zenon
<1>5. DEFINE at == CHOOSE a : After(N, a)
<1>6. After(N, at)  BY <1>4
<1>7. Dropped(l, ks) = at[N]  BY <1>1 DEF Dropped
<1>. HIDE DEF at
<1>8. ASSUME NEW n \in 0..N, at[n] # g[n] PROVE FALSE
  <2>. DEFINE Bad == {m \in 0..N : at[m] # g[m]}
  <2>1. PICK m \in Bad : \A i \in Bad : m <= i
    <3>1. Bad \in SUBSET Nat /\ Bad # {}  BY <1>1, <1>8
    <3>. QED  BY <3>1, LeastNumber
  <2>2. m # 0  BY <1>1, <1>4, <1>6
  <2>3. m - 1 \in 0..N /\ m - 1 \notin Bad  BY <1>1, <2>1, <2>2
  <2>4. at[m] = DropEntry(at[m - 1], ks[m]) /\ g[m] = DropEntry(g[m - 1], ks[m])
    BY <1>4, <1>6, <2>2
  <2>. QED  BY <2>1, <2>3, <2>4
<1>9. at[N] = g[N]  BY <1>1, <1>8
<1>10. ToSet(ks) = {ks[i] : i \in 1..N}  BY <1>1, SetIs
<1>. QED  BY <1>4, <1>7, <1>9, <1>10

LEMMA AllInSeqs ==
    ASSUME NEW S, IsFiniteSet(S), NEW ks \in SetToSeqs(S)
    PROVE  ks \in Seq(S) /\ ToSet(ks) = S
<1>1. PICK n \in Nat : n = Cardinality(S)  BY FS_CardinalityType
<1>2. ks \in [1..n -> S] /\ \A i, j \in 1..n : i # j => ks[i] # ks[j]  BY <1>1 DEF SetToSeqs
<1>3. ks \in Injection(1..n, S)  BY <1>2 DEF Injection, IsInjective
<1>4. Cardinality(1..n) = n  BY FS_Interval
<1>5. ks \in Surjection(1..n, S)  BY <1>1, <1>3, <1>4, FS_Injection
<1>6. \A x \in S : \E i \in 1..n : ks[i] = x  BY <1>5 DEF Surjection
<1>. QED  BY <1>2, <1>6 DEF ToSet

-----------------------------------------------------------------------------
(* The caches *)

OrdersOf(F) == [o \in CacheOwners |-> Walk(F[o])]

\* Each list is in the order of its links, and not too long.
InLine(F) ==
    /\ F \in [CacheOwners -> LinkedLists]
    /\ \A o \in CacheOwners : Holds(F[o], Walk(F[o])) /\ Len(Walk(F[o])) <= Capacity

\* The index has what the list has, under its class.
Filed ==
    /\ classOf \in [CacheKeys -> Classes] /\ entityIndex \in [Classes -> SUBSET CacheKeys]
    /\ kind = "query" => \A c \in Classes : entityIndex[c] = {k \in Results.keys : classOf[k] = c}

CachesInv == InLine(lists) /\ Filed

LEMMA OwnersAndClasses == FirstOwner \in CacheOwners /\ FirstClass \in Classes
BY CachesAssumption DEF FirstOwner, FirstClass

LEMMA LineOf ==
    ASSUME NEW F, InLine(F), NEW o \in CacheOwners
    PROVE  /\ F[o] \in LinkedLists /\ Holds(F[o], OrdersOf(F)[o]) /\ Len(OrdersOf(F)[o]) <= Capacity
           /\ OrdersOf(F)[o] \in Seq(CacheKeys) /\ F[o].keys = ToSet(OrdersOf(F)[o])
           /\ F[o].keys \subseteq CacheKeys
           /\ Cardinality(F[o].keys) = Len(OrdersOf(F)[o])
<1>1. F[o] \in LinkedLists /\ Holds(F[o], Walk(F[o])) /\ Len(Walk(F[o])) <= Capacity  BY DEF InLine
<1>2. OrdersOf(F)[o] = Walk(F[o])  BY DEF OrdersOf
<1>3. Walk(F[o]) \in Seq(CacheKeys) /\ F[o].keys = ToSet(Walk(F[o])) /\ F[o].keys \subseteq CacheKeys
  BY <1>1, LeadsInside DEF Holds
<1>4. Cardinality(F[o].keys) = Len(Walk(F[o]))  BY <1>1, SizeIs
<1>. QED  BY <1>1, <1>2, <1>3, <1>4

LEMMA ChangedInLine ==
    ASSUME NEW F, InLine(F), NEW o \in CacheOwners, NEW l, NEW t, Holds(l, t), Len(t) <= Capacity
    PROVE  /\ InLine([F EXCEPT ![o] = l])
           /\ OrdersOf([F EXCEPT ![o] = l]) = [q \in CacheOwners |-> IF q = o THEN t ELSE OrdersOf(F)[q]]
<1>1. PICK G : G = [F EXCEPT ![o] = l]  OBVIOUS
<1>2. F \in [CacheOwners -> LinkedLists]  BY DEF InLine
<1>3. l \in LinkedLists /\ Walk(l) = t  BY WalkIs DEF Holds, Leads
<1>4. G \in [CacheOwners -> LinkedLists] /\ G[o] = l /\ \A q \in CacheOwners : q # o => G[q] = F[q]
  BY <1>1, <1>2, <1>3
<1>5. InLine(G)  BY <1>3, <1>4 DEF InLine
<1>6. OrdersOf(G) = [q \in CacheOwners |-> IF q = o THEN t ELSE OrdersOf(F)[q]]
  BY <1>3, <1>4 DEF OrdersOf
<1>. QED  BY <1>1, <1>5, <1>6

\* A list that is the beginning of nothing, as after clear().
LEMMA ShorterInLine ==
    ASSUME NEW F, InLine(F), NEW G \in [CacheOwners -> LinkedLists],
           \A o \in CacheOwners : \E t \in Seq(CacheKeys) : Holds(G[o], t) /\ LruCache!InOrderOf(t, OrdersOf(F)[o])
    PROVE  /\ InLine(G) /\ OrdersOf(G) \in [CacheOwners -> Seq(CacheKeys)]
           /\ \A o \in CacheOwners : LruCache!InOrderOf(OrdersOf(G)[o], OrdersOf(F)[o])
<1>1. ASSUME NEW o \in CacheOwners
      PROVE  /\ Holds(G[o], Walk(G[o])) /\ Len(Walk(G[o])) <= Capacity /\ Walk(G[o]) \in Seq(CacheKeys)
             /\ LruCache!InOrderOf(Walk(G[o]), OrdersOf(F)[o])
  <2>1. PICK t \in Seq(CacheKeys) : Holds(G[o], t) /\ LruCache!InOrderOf(t, OrdersOf(F)[o])  OBVIOUS
  <2>2. Walk(G[o]) = t  BY <2>1, WalkIs
  <2>3. IsFiniteSet(G[o].keys) /\ Cardinality(G[o].keys) = Len(t)  BY <2>1, SizeIs
  <2>4. /\ Holds(F[o], OrdersOf(F)[o]) /\ Len(OrdersOf(F)[o]) <= Capacity
        /\ OrdersOf(F)[o] \in Seq(CacheKeys) /\ F[o].keys = ToSet(OrdersOf(F)[o])
        /\ Cardinality(F[o].keys) = Len(OrdersOf(F)[o])
    BY LineOf
  <2>5. ToSet(t) \subseteq ToSet(OrdersOf(F)[o])
    BY <2>1 DEF LruCache!InOrderOf, LruCache!ToSet, ToSet
  <2>6. G[o].keys \subseteq F[o].keys  BY <2>1, <2>4, <2>5 DEF Holds
  <2>7. IsFiniteSet(F[o].keys)  BY <2>4, SizeIs
  <2>8. Cardinality(G[o].keys) <= Cardinality(F[o].keys)  BY <2>6, <2>7, FS_Subset
  <2>9. Len(t) <= Len(OrdersOf(F)[o])  BY <2>3, <2>4, <2>8
  <2>10. Len(t) <= Capacity
    <3>1. Len(t) \in Nat /\ Len(OrdersOf(F)[o]) \in Nat /\ Capacity \in Nat
      BY <2>4, CachesAssumption
    <3>. QED  BY <2>4, <2>9, <3>1
  <2>. QED  BY <2>1, <2>2, <2>10
<1>2. InLine(G)  BY <1>1 DEF InLine
<1>. QED  BY <1>1, <1>2 DEF OrdersOf

LEMMA UseInLine ==
    ASSUME NEW F, InLine(F), NEW o \in CacheOwners, NEW k \in F[o].keys
    PROVE  /\ InLine([F EXCEPT ![o] = MoveToHead(@, k)])
           /\ k \in ToSet(OrdersOf(F)[o])
           /\ OrdersOf([F EXCEPT ![o] = MoveToHead(@, k)]) = LruCache!AfterUse(OrdersOf(F), o, k)
<1>1. PICK s : s = OrdersOf(F)[o]  OBVIOUS
<1>2. Holds(F[o], s) /\ Len(s) <= Capacity /\ s \in Seq(CacheKeys) /\ F[o].keys = ToSet(s) /\ OnlyOnce(s)
  BY <1>1, LineOf DEF Holds, Leads
<1>3. PICK i \in 1..Len(s) : s[i] = k  BY <1>2, KeyIsAt
<1>4. PICK t : t = LruCache!MovedUp(s, k)  OBVIOUS
<1>5. t = <<s[i]>> \o RemoveAt(s, i)  BY <1>2, <1>3, <1>4, MovedUpIs
<1>6. Holds(MoveToHead(F[o], k), t)  BY <1>2, <1>3, <1>5, MovedHolds
<1>7. Len(t) = Len(s)
  <2>1. PICK r : r = RemoveAt(s, i)  OBVIOUS
  <2>2. r \in Seq(CacheKeys) /\ Len(r) = Len(s) - 1  BY <1>2, <2>1, RemovedIs
  <2>3. s[i] \in CacheKeys  BY <1>2
  <2>4. Len(<<s[i]>> \o r) = Len(r) + 1  BY <2>2, <2>3, PushedIs
  <2>5. Len(s) \in Nat  BY <1>2
  <2>. QED  BY <1>5, <2>1, <2>2, <2>4, <2>5
<1>8. PICK l : l = MoveToHead(F[o], k)  OBVIOUS
<1>9. /\ InLine([F EXCEPT ![o] = l])
      /\ OrdersOf([F EXCEPT ![o] = l]) = [q \in CacheOwners |-> IF q = o THEN t ELSE OrdersOf(F)[q]]
  BY <1>2, <1>6, <1>7, <1>8, ChangedInLine
<1>10. LruCache!AfterUse(OrdersOf(F), o, k) = [q \in CacheOwners |-> IF q = o THEN t ELSE OrdersOf(F)[q]]
  BY <1>1, <1>4 DEF LruCache!AfterUse
<1>. QED  BY <1>2, <1>1, <1>8, <1>9, <1>10

LEMMA PutInLine ==
    ASSUME NEW F, InLine(F), NEW o \in CacheOwners, NEW k \in CacheKeys
    PROVE  /\ InLine([F EXCEPT ![o] = PutEntry(@, k)])
           /\ OrdersOf([F EXCEPT ![o] = PutEntry(@, k)]) = LruCache!AfterPut(OrdersOf(F), o, k)
           /\ k \in PutEntry(F[o], k).keys /\ PutEntry(F[o], k).keys \subseteq F[o].keys \cup {k}
           /\ k \in F[o].keys => PutEntry(F[o], k) = MoveToHead(F[o], k)
<1>1. PICK s : s = OrdersOf(F)[o]  OBVIOUS
<1>2. Holds(F[o], s) /\ Len(s) <= Capacity  BY <1>1, LineOf
<1>3. PICK t : t = LruCache!FirstKeys(LruCache!MovedUp(s, k), Capacity)  OBVIOUS
<1>4. PICK l : l = PutEntry(F[o], k)  OBVIOUS
<1>5. /\ Holds(l, t) /\ Len(t) <= Capacity /\ (k \in F[o].keys => l = MoveToHead(F[o], k))
      /\ k \in l.keys /\ l.keys \subseteq F[o].keys \cup {k}
  BY <1>2, <1>3, <1>4, PutHolds
<1>6. /\ InLine([F EXCEPT ![o] = l])
      /\ OrdersOf([F EXCEPT ![o] = l]) = [q \in CacheOwners |-> IF q = o THEN t ELSE OrdersOf(F)[q]]
  BY <1>5, ChangedInLine
<1>7. LruCache!AfterPut(OrdersOf(F), o, k) = [q \in CacheOwners |-> IF q = o THEN t ELSE OrdersOf(F)[q]]
  BY <1>1, <1>3 DEF LruCache!AfterPut
<1>. QED  BY <1>4, <1>5, <1>6, <1>7

LEMMA EvictInLine ==
    ASSUME NEW F, InLine(F), NEW o \in CacheOwners
    PROVE  /\ InLine([F EXCEPT ![o] = EvictTail(@)])
           /\ OrdersOf([F EXCEPT ![o] = EvictTail(@)]) = LruCache!AfterEviction(OrdersOf(F), o)
<1>1. PICK s : s = OrdersOf(F)[o]  OBVIOUS
<1>2. Holds(F[o], s) /\ Len(s) <= Capacity /\ s \in Seq(CacheKeys) /\ Len(s) \in Nat  BY <1>1, LineOf
<1>3. Holds(EvictTail(F[o]), Front(s)) /\ Len(Front(s)) <= Capacity
  <2>1. CASE s = <<>>
    <3>1. F[o].tail = NoKey  BY <1>2, <2>1 DEF Holds, Leads, Stop
    <3>2. EvictTail(F[o]) = F[o]  BY <3>1 DEF EvictTail
    <3>3. Front(s) = s  BY <2>1 DEF Front
    <3>. QED  BY <1>2, <3>2, <3>3
  <2>2. CASE s # <<>>
    <3>1. Holds(EvictTail(F[o]), Front(s))  BY <1>2, <2>2, EvictedHolds
    <3>2. Len(s) # 0  BY <1>2, <2>2
    <3>3. Front(s) = RemoveAt(s, Len(s)) /\ Len(s) \in 1..Len(s)  BY <1>2, <3>2, FrontIs
    <3>4. Len(RemoveAt(s, Len(s))) = Len(s) - 1  BY <1>2, <3>3, RemovedIs
    <3>5. Capacity \in Nat  BY CachesAssumption
    <3>. QED  BY <1>2, <3>1, <3>3, <3>4, <3>5
  <2>. QED  BY <2>1, <2>2
<1>4. PICK l, t : l = EvictTail(F[o]) /\ t = Front(s)  OBVIOUS
<1>5. /\ InLine([F EXCEPT ![o] = l])
      /\ OrdersOf([F EXCEPT ![o] = l]) = [q \in CacheOwners |-> IF q = o THEN t ELSE OrdersOf(F)[q]]
  BY <1>3, <1>4, ChangedInLine
<1>6. LruCache!AfterEviction(OrdersOf(F), o) = [q \in CacheOwners |-> IF q = o THEN t ELSE OrdersOf(F)[q]]
  BY <1>1, <1>4 DEF LruCache!AfterEviction, LruCache!Front, Front
<1>. QED  BY <1>4, <1>5, <1>6

LEMMA SameSize == ASSUME NEW S PROVE LruCache!Cardinality(S) = Cardinality(S)
BY DEF LruCache!Cardinality, Cardinality

\* All lists together are not longer than each may be.
LEMMA TotalBounded ==
    ASSUME NEW F, InLine(F)
    PROVE  LruCache!TotalOf(OrdersOf(F)) <= Capacity * Cardinality(CacheOwners)
<1>. DEFINE G == OrdersOf(F)
            All == UNION {{o} \X LruCache!ToSet(G[o]) : o \in CacheOwners}
            Place(p) == CHOOSE i \in 1..Capacity : i \in 1..Len(G[p[1]]) /\ G[p[1]][i] = p[2]
            f == [p \in All |-> <<p[1], Place(p)>>]
<1>1. \A o \in CacheOwners : G[o] \in Seq(CacheKeys) /\ Len(G[o]) <= Capacity  BY LineOf
<1>2. Capacity \in Nat /\ IsFiniteSet(CacheOwners) /\ IsFiniteSet(1..Capacity)
      /\ Cardinality(1..Capacity) = Capacity /\ Cardinality(CacheOwners) \in Nat
  <2>1. Capacity \in Nat /\ IsFiniteSet(CacheOwners)  BY CachesAssumption
  <2>2. IsFiniteSet(1..Capacity) /\ Cardinality(1..Capacity) = Capacity
    <3>1. /\ IsFiniteSet(1..Capacity)
          /\ Cardinality(1..Capacity) = IF 1 > Capacity THEN 0 ELSE Capacity - 1 + 1
      BY <2>1, FS_Interval
    <3>. QED  BY <2>1, <3>1
  <2>3. Cardinality(CacheOwners) \in Nat  BY <2>1, FS_CardinalityType
  <2>. QED  BY <2>1, <2>2, <2>3
<1>. HIDE DEF G
<1>3. ASSUME NEW p \in All
      PROVE  /\ p[1] \in CacheOwners /\ p = <<p[1], p[2]>> /\ Place(p) \in 1..Capacity
             /\ G[p[1]][Place(p)] = p[2]
  <2>1. PICK o \in CacheOwners : p \in {o} \X LruCache!ToSet(G[o])  OBVIOUS
  <2>2. p[1] = o /\ p[2] \in LruCache!ToSet(G[o]) /\ p = <<p[1], p[2]>>  BY <2>1
  <2>3. PICK i \in 1..Len(G[o]) : G[o][i] = p[2]  BY <1>1, <2>2 DEF LruCache!ToSet
  <2>4. i \in 1..Capacity  BY <1>1, <1>2
  <2>. QED  BY <2>2, <2>3, <2>4
<1>. HIDE DEF Place, All
<1>4. f \in Injection(All, CacheOwners \X (1..Capacity))
  <2>1. f \in [All -> CacheOwners \X (1..Capacity)]  BY <1>3
  <2>2. ASSUME NEW p \in All, NEW q \in All, f[p] = f[q] PROVE p = q
    <3>1. p[1] = q[1] /\ Place(p) = Place(q)  BY <2>2
    <3>2. p[2] = q[2]  BY <1>3, <3>1
    <3>. QED  BY <1>3, <3>1, <3>2
  <2>3. \A p, q \in DOMAIN f : f[p] = f[q] => p = q  BY <2>2
  <2>. QED  BY <2>1, <2>3 DEF Injection, IsInjective
<1>5. IsFiniteSet(CacheOwners \X (1..Capacity))
      /\ Cardinality(CacheOwners \X (1..Capacity)) = Cardinality(CacheOwners) * Capacity
  BY <1>2, FS_Product
<1>6. Cardinality(All) <= Cardinality(CacheOwners \X (1..Capacity))  BY <1>4, <1>5, FS_Injection
<1>7. Cardinality(CacheOwners) * Capacity = Capacity * Cardinality(CacheOwners)  BY <1>2
<1>8. LruCache!TotalOf(G) = Cardinality(All)  BY SameSize DEF LruCache!TotalOf, All
<1>. QED  BY <1>5, <1>6, <1>7, <1>8 DEF G

LEMMA CountIsTotal ==
    ASSUME NEW F, InLine(F) PROVE EntityCount(F) = LruCache!TotalOf(OrdersOf(F))
<1>1. \A o \in CacheOwners : F[o].keys = LruCache!ToSet(OrdersOf(F)[o])
  BY LineOf DEF LruCache!ToSet, ToSet
<1>2. {{o} \X F[o].keys : o \in CacheOwners} = {{o} \X LruCache!ToSet(OrdersOf(F)[o]) : o \in CacheOwners}
  BY <1>1
<1>. QED  BY <1>2, SameSize DEF EntityCount, LruCache!TotalOf

-----------------------------------------------------------------------------
(* The operations *)

LEMMA TotalKept == kind' = kind => CacheTotal' = CacheTotal
BY DEF CacheTotal

LEMMA SmallTrims ==
    ASSUME NEW F, InLine(F), kind # "entity"
    PROVE  OrdersOf(F) \in LruCache!Trimmed(OrdersOf(F))
<1>1. LruCache!TotalOf(OrdersOf(F)) <= CacheTotal  BY TotalBounded DEF CacheTotal
<1>. QED  BY <1>1 DEF LruCache!Trimmed

LEMMA UseStep ==
    ASSUME InLine(lists), NEW o \in CacheOwners, NEW k \in lists[o].keys,
           Asked("get", {o}, {k}),
           lists' = [lists EXCEPT ![o] = MoveToHead(@, k)], UNCHANGED <<kind, stored>>
    PROVE  InLine(lists') /\ LruCache!AbsNext /\ lists'[o].keys = lists[o].keys
<1>1. k \in CacheKeys /\ lists[o] \in LinkedLists  BY LineOf
<1>2. /\ InLine(lists') /\ k \in ToSet(OrdersOf(lists)[o])
      /\ OrdersOf(lists') = LruCache!AfterUse(OrdersOf(lists), o, k)
  BY UseInLine
<1>3. LruCache!AbsGet(o, k)
  BY <1>2, TotalKept DEF LruCache!AbsGet, OrdersOf, LruCache!ToSet, ToSet, Asked, LruCache!Asked
<1>4. lists'[o] = MoveToHead(lists[o], k)  BY DEF InLine
<1>. QED  BY <1>1, <1>2, <1>3, <1>4, KeysKept DEF LruCache!AbsNext

LEMMA PutStep ==
    ASSUME InLine(lists), kind # "entity", NEW o \in CacheOwners, NEW k \in CacheKeys, NEW v \in CacheValues,
           Asked("put", {o}, {k}),
           lists' = [lists EXCEPT ![o] = PutEntry(@, k)], stored' = [stored EXCEPT ![o][k] = v], kind' = kind
    PROVE  InLine(lists') /\ LruCache!AbsNext
<1>1. InLine(lists') /\ OrdersOf(lists') = LruCache!AfterPut(OrdersOf(lists), o, k)  BY PutInLine
<1>2. OrdersOf(lists') \in LruCache!Trimmed(LruCache!AfterPut(OrdersOf(lists), o, k))  BY <1>1, SmallTrims
<1>3. LruCache!AbsPut(o, k, v)
  BY <1>2, TotalKept DEF LruCache!AbsPut, OrdersOf, Asked, LruCache!Asked
<1>. QED  BY <1>1, <1>3 DEF LruCache!AbsNext

\* The lists of O have lost the keys K, and the others nothing.
Shortened(O, K) ==
    /\ lists' \in [CacheOwners -> LinkedLists]
    /\ \A o \in CacheOwners : \E t \in Seq(CacheKeys) :
           Holds(lists'[o], t) /\ LruCache!InOrderOf(t, OrdersOf(lists)[o])
    /\ \A o \in O : lists'[o].keys = lists[o].keys \ K
    /\ \A o \in CacheOwners \ O : lists'[o] = lists[o]

LEMMA RemoveStep ==
    ASSUME InLine(lists), UNCHANGED <<kind, stored>>,
           NEW O \in SUBSET CacheOwners, NEW K \in SUBSET CacheKeys, Asked("remove", O, K),
           Shortened(O, K)
    PROVE  InLine(lists') /\ LruCache!AbsNext
<1>s. /\ lists' \in [CacheOwners -> LinkedLists]
      /\ \A o \in O : lists'[o].keys = lists[o].keys \ K
      /\ \A o \in CacheOwners \ O : lists'[o] = lists[o]
  BY DEF Shortened
<1>1. /\ InLine(lists') /\ OrdersOf(lists') \in [CacheOwners -> Seq(CacheKeys)]
      /\ \A o \in CacheOwners : LruCache!InOrderOf(OrdersOf(lists')[o], OrdersOf(lists)[o])
  BY <1>s, ShorterInLine DEF Shortened
<1>2. ASSUME NEW o \in O
      PROVE  LruCache!ToSet(OrdersOf(lists')[o]) = LruCache!ToSet(OrdersOf(lists)[o]) \ K
  <2>1. lists'[o].keys = ToSet(OrdersOf(lists')[o])  BY <1>1, LineOf
  <2>2. lists[o].keys = ToSet(OrdersOf(lists)[o])  BY LineOf
  <2>3. ToSet(OrdersOf(lists')[o]) = ToSet(OrdersOf(lists)[o]) \ K  BY <1>s, <2>1, <2>2
  <2>. QED  BY <2>3 DEF ToSet, LruCache!ToSet
<1>3. ASSUME NEW o \in CacheOwners \ O PROVE OrdersOf(lists')[o] = OrdersOf(lists)[o]
  BY <1>s DEF OrdersOf
<1>4. LruCache!AbsRemove(O, K)
  BY <1>1, <1>2, <1>3, TotalKept DEF LruCache!AbsRemove, OrdersOf, Asked, LruCache!Asked
<1>. QED  BY <1>1, <1>4 DEF LruCache!AbsNext

\* One list that is shortened.
LEMMA RemoveOneStep ==
    ASSUME InLine(lists), NEW o \in CacheOwners, NEW l, NEW t \in Seq(CacheKeys), Holds(l, t),
           LruCache!InOrderOf(t, OrdersOf(lists)[o]),
           NEW K \in SUBSET CacheKeys, l.keys = lists[o].keys \ K, Asked("remove", {o}, K),
           lists' = [lists EXCEPT ![o] = l], UNCHANGED <<kind, stored>>
    PROVE  InLine(lists') /\ LruCache!AbsNext
<1>1. lists \in [CacheOwners -> LinkedLists] /\ l \in LinkedLists  BY DEF InLine, Holds, Leads
<1>2. lists' \in [CacheOwners -> LinkedLists] /\ lists'[o] = l
      /\ \A q \in CacheOwners : q # o => lists'[q] = lists[q]
  BY <1>1
<1>3. ASSUME NEW q \in CacheOwners
      PROVE  \E u \in Seq(CacheKeys) : Holds(lists'[q], u) /\ LruCache!InOrderOf(u, OrdersOf(lists)[q])
  <2>1. CASE q = o  BY <1>2, <2>1
  <2>2. CASE q # o
    <3>1. Holds(lists[q], OrdersOf(lists)[q]) /\ OrdersOf(lists)[q] \in Seq(CacheKeys)  BY LineOf
    <3>2. LruCache!InOrderOf(OrdersOf(lists)[q], OrdersOf(lists)[q])  BY <3>1, InOrderItself
    <3>. QED  BY <1>2, <2>2, <3>1, <3>2
  <2>. QED  BY <2>1, <2>2
<1>4. PICK O \in SUBSET CacheOwners : O = {o}  OBVIOUS
<1>5. \A q \in O : lists'[q].keys = lists[q].keys \ K  BY <1>2, <1>4
<1>6. \A q \in CacheOwners \ O : lists'[q] = lists[q]  BY <1>2, <1>4
<1>7. Asked("remove", O, K)  BY <1>4
<1>8. Shortened(O, K)  BY <1>2, <1>3, <1>5, <1>6 DEF Shortened
<1>. QED  BY <1>7, <1>8, RemoveStep

LEMMA DropStep ==
    ASSUME InLine(lists), NEW o \in CacheOwners, NEW k \in CacheKeys, Asked("remove", {o}, {k}),
           lists' = [lists EXCEPT ![o] = DropEntry(@, k)], UNCHANGED <<kind, stored>>
    PROVE  InLine(lists') /\ LruCache!AbsNext /\ lists'[o].keys = lists[o].keys \ {k}
<1>1. Holds(lists[o], OrdersOf(lists)[o]) /\ lists[o] \in LinkedLists  BY LineOf
<1>2. PICK l : l = DropEntry(lists[o], k)  OBVIOUS
<1>3. PICK t \in Seq(CacheKeys) : Holds(l, t) /\ LruCache!InOrderOf(t, OrdersOf(lists)[o])
  BY <1>1, <1>2, DropHolds
<1>4. lists' = [lists EXCEPT ![o] = l]  BY <1>2
<1>5. l.keys = lists[o].keys \ {k} /\ {k} \in SUBSET CacheKeys  BY <1>1, <1>2, DropKeys
<1>6. InLine(lists') /\ LruCache!AbsNext  BY <1>3, <1>4, <1>5, RemoveOneStep
<1>7. lists'[o] = l  BY <1>4 DEF InLine
<1>. QED  BY <1>5, <1>6, <1>7

LEMMA ClearStep ==
    ASSUME InLine(lists), NEW o \in CacheOwners, Asked("remove", {o}, CacheKeys),
           lists' = [lists EXCEPT ![o] = EmptyList], UNCHANGED <<kind, stored>>
    PROVE  InLine(lists') /\ LruCache!AbsNext /\ lists'[o].keys = {}
<1>1. OrdersOf(lists)[o] \in Seq(CacheKeys) /\ lists[o].keys \subseteq CacheKeys  BY LineOf
<1>2. LruCache!InOrderOf(<<>>, OrdersOf(lists)[o])  BY <1>1, InOrderEmpty
<1>3. <<>> \in Seq(CacheKeys)  OBVIOUS
<1>4. EmptyList.keys = lists[o].keys \ CacheKeys /\ EmptyList.keys = {}  BY <1>1 DEF EmptyList
<1>5. InLine(lists') /\ LruCache!AbsNext  BY <1>2, <1>3, <1>4, EmptyHolds, RemoveOneStep
<1>6. lists'[o] = EmptyList  BY DEF InLine
<1>. QED  BY <1>4, <1>5, <1>6

LEMMA ClearAllStep ==
    ASSUME InLine(lists), Asked("remove", CacheOwners, CacheKeys),
           lists' = [o \in CacheOwners |-> EmptyList], UNCHANGED <<kind, stored>>
    PROVE  InLine(lists') /\ LruCache!AbsNext
<1>1. lists' \in [CacheOwners -> LinkedLists] /\ \A o \in CacheOwners : lists'[o] = EmptyList
  BY EmptyHolds DEF Holds, Leads
<1>2. ASSUME NEW o \in CacheOwners
      PROVE  \E t \in Seq(CacheKeys) : Holds(lists'[o], t) /\ LruCache!InOrderOf(t, OrdersOf(lists)[o])
  <2>1. OrdersOf(lists)[o] \in Seq(CacheKeys)  BY LineOf
  <2>2. LruCache!InOrderOf(<<>>, OrdersOf(lists)[o])  BY <2>1, InOrderEmpty
  <2>3. <<>> \in Seq(CacheKeys)  OBVIOUS
  <2>. QED  BY <1>1, <2>2, <2>3, EmptyHolds
<1>3. ASSUME NEW o \in CacheOwners PROVE lists'[o].keys = lists[o].keys \ CacheKeys
  <2>1. lists[o].keys \subseteq CacheKeys  BY LineOf
  <2>. QED  BY <1>1, <2>1 DEF EmptyList
<1>4. Shortened(CacheOwners, CacheKeys)  BY <1>1, <1>2, <1>3 DEF Shortened
<1>. QED  BY <1>4, RemoveStep

LEMMA EntityPutStep ==
    ASSUME InLine(lists), NEW o \in CacheOwners, NEW k \in CacheKeys, NEW v \in CacheValues, EntityPut(o, k, v)
    PROVE  InLine(lists') /\ LruCache!AbsNext
<1>1. PICK F : F = [lists EXCEPT ![o] = PutEntry(@, k)]  OBVIOUS
<1>2. InLine(F) /\ OrdersOf(F) = LruCache!AfterPut(OrdersOf(lists), o, k)  BY <1>1, PutInLine
<1>3. /\ kind = "entity" /\ kind' = kind /\ stored' = [stored EXCEPT ![o][k] = v] /\ EnforceGlobalLimit(F)
      /\ Asked("put", {o}, {k})
  BY <1>1 DEF EntityPut
<1>4. EntityCount(F) = LruCache!TotalOf(OrdersOf(F)) /\ CacheTotal = MaxTotalSize
  BY <1>2, <1>3, CountIsTotal DEF CacheTotal
<1>5. InLine(lists') /\ OrdersOf(lists') \in LruCache!Trimmed(OrdersOf(F))
  <2>1. CASE EntityCount(F) <= MaxTotalSize
    <3>1. lists' = F  BY <1>3, <2>1 DEF EnforceGlobalLimit
    <3>. QED  BY <1>2, <1>4, <2>1, <3>1 DEF LruCache!Trimmed
  <2>2. CASE ~(EntityCount(F) <= MaxTotalSize)
    <3>1. PICK p \in Largest(F) : lists' = [F EXCEPT ![p] = EvictTail(@)]
      BY <1>3, <2>2 DEF EnforceGlobalLimit
    <3>2. p \in CacheOwners /\ \A q \in CacheOwners : Cardinality(F[q].keys) <= Cardinality(F[p].keys)
      BY <3>1 DEF Largest
    <3>3. \A q \in CacheOwners : Cardinality(F[q].keys) = Len(OrdersOf(F)[q])  BY <1>2, LineOf
    <3>4. \A q \in CacheOwners : Len(OrdersOf(F)[q]) <= Len(OrdersOf(F)[p])  BY <3>2, <3>3
    <3>5. InLine(lists') /\ OrdersOf(lists') = LruCache!AfterEviction(OrdersOf(F), p)
      BY <1>2, <3>1, <3>2, EvictInLine
    <3>. QED  BY <1>4, <2>2, <3>2, <3>4, <3>5 DEF LruCache!Trimmed
  <2>. QED  BY <2>1, <2>2
<1>6. LruCache!AbsPut(o, k, v)
  BY <1>2, <1>3, <1>5, TotalKept DEF LruCache!AbsPut, OrdersOf, Asked, LruCache!Asked
<1>. QED  BY <1>5, <1>6 DEF LruCache!AbsNext

\* Whoever is not the query cache leaves its index alone.
LEMMA FiledElsewhere ==
    ASSUME Filed, kind # "query", UNCHANGED <<kind, classOf, entityIndex>>
    PROVE  Filed'
BY DEF Filed

LEMMA Refiled ==
    ASSUME kind' = "query", NEW K \in SUBSET CacheKeys, lists'[FirstOwner].keys = K,
           NEW ofClass \in [CacheKeys -> Classes], NEW left, Remain(ofClass, left),
           entityIndex' \in [Classes -> SUBSET CacheKeys],
           \A c \in Classes : entityIndex'[c] = {k \in K : ofClass[k] = c}
    PROVE  Filed'
<1>1. classOf' = [k \in CacheKeys |-> IF k \in K THEN ofClass[k] ELSE FirstClass]
  BY DEF Remain
<1>2. classOf' \in [CacheKeys -> Classes]  BY <1>1, OwnersAndClasses
<1>3. Results'.keys = K  BY DEF Results
<1>4. ASSUME NEW c \in Classes PROVE entityIndex'[c] = {k \in Results'.keys : classOf'[k] = c}
  BY <1>1, <1>3
<1>. QED  BY <1>2, <1>4 DEF Filed

LEMMA StatementPutStep ==
    ASSUME CachesInv, NEW k \in CacheKeys, NEW v \in CacheValues, StatementPut(k, v)
    PROVE  CachesInv' /\ LruCache!AbsNext
<1>1. /\ InLine(lists) /\ Filed /\ kind # "query" /\ kind # "entity" /\ FirstOwner \in CacheOwners
      /\ UNCHANGED <<kind, classOf, entityIndex>>
  BY OwnersAndClasses DEF CachesInv, StatementPut
<1>2. Filed'  BY <1>1, FiledElsewhere
<1>3. /\ lists' = [lists EXCEPT ![FirstOwner] = PutEntry(@, k)] /\ kind' = kind
      /\ stored' = [stored EXCEPT ![FirstOwner][k] = v] /\ Asked("put", {FirstOwner}, {k})
  BY DEF StatementPut
<1>4. InLine(lists') /\ LruCache!AbsNext  BY <1>1, <1>3, PutStep
<1>. QED  BY <1>2, <1>4 DEF CachesInv

LEMMA StatementUseStep ==
    ASSUME CachesInv, NEW k \in CacheKeys, StatementGet(k) \/ StatementEvict(k)
    PROVE  CachesInv' /\ LruCache!AbsNext
<1>1. /\ InLine(lists) /\ Filed /\ kind # "query" /\ FirstOwner \in CacheOwners
      /\ UNCHANGED <<kind, stored, classOf, entityIndex>>
  BY OwnersAndClasses DEF CachesInv, StatementGet, StatementEvict
<1>2. Filed'  BY <1>1, FiledElsewhere
<1>3. CASE StatementGet(k)
  <2>1. /\ k \in lists[FirstOwner].keys /\ lists' = [lists EXCEPT ![FirstOwner] = MoveToHead(@, k)]
        /\ Asked("get", {FirstOwner}, {k})
    BY <1>3 DEF StatementGet
  <2>2. InLine(lists') /\ LruCache!AbsNext  BY <1>1, <2>1, UseStep
  <2>. QED  BY <1>2, <2>2 DEF CachesInv
<1>4. CASE StatementEvict(k)
  <2>1. lists' = [lists EXCEPT ![FirstOwner] = DropEntry(@, k)] /\ Asked("remove", {FirstOwner}, {k})
    BY <1>4 DEF StatementEvict
  <2>2. InLine(lists') /\ LruCache!AbsNext  BY <1>1, <2>1, DropStep
  <2>. QED  BY <1>2, <2>2 DEF CachesInv
<1>. QED  BY <1>3, <1>4

LEMMA StatementClearStep ==
    ASSUME CachesInv, StatementClear
    PROVE  CachesInv' /\ LruCache!AbsNext
<1>1. /\ InLine(lists) /\ Filed /\ kind # "query" /\ FirstOwner \in CacheOwners
      /\ UNCHANGED <<kind, stored, classOf, entityIndex>>
      /\ lists' = [lists EXCEPT ![FirstOwner] = EmptyList] /\ Asked("remove", {FirstOwner}, CacheKeys)
  BY OwnersAndClasses DEF CachesInv, StatementClear
<1>2. Filed'  BY <1>1, FiledElsewhere
<1>3. InLine(lists') /\ LruCache!AbsNext  BY <1>1, ClearStep
<1>. QED  BY <1>2, <1>3 DEF CachesInv

LEMMA PoolAcquireStep ==
    ASSUME CachesInv, NEW o \in CacheOwners, NEW k \in CacheKeys, NEW v \in CacheValues,
           PoolAcquire(o, k, v)
    PROVE  CachesInv' /\ LruCache!AbsNext
<1>1. /\ InLine(lists) /\ Filed /\ kind # "query" /\ kind # "entity"
      /\ UNCHANGED <<kind, classOf, entityIndex>>
  BY DEF CachesInv, PoolAcquire
<1>2. Filed'  BY <1>1, FiledElsewhere
<1>3. /\ lists' = [lists EXCEPT ![o] = PutEntry(@, k)] /\ kind' = kind
      /\ stored' = IF k \in lists[o].keys THEN stored ELSE [stored EXCEPT ![o][k] = v]
      /\ Asked(IF k \in lists[o].keys THEN "get" ELSE "put", {o}, {k})
  BY DEF PoolAcquire
<1>4. CASE k \in lists[o].keys
  <2>1. PutEntry(lists[o], k) = MoveToHead(lists[o], k)  BY <1>4 DEF PutEntry
  <2>2. /\ lists' = [lists EXCEPT ![o] = MoveToHead(@, k)] /\ stored' = stored
        /\ Asked("get", {o}, {k})
    BY <1>3, <1>4, <2>1
  <2>3. InLine(lists') /\ LruCache!AbsNext  BY <1>1, <1>4, <2>2, UseStep
  <2>. QED  BY <1>2, <2>3 DEF CachesInv
<1>5. CASE k \notin lists[o].keys
  <2>1. stored' = [stored EXCEPT ![o][k] = v] /\ Asked("put", {o}, {k})  BY <1>3, <1>5
  <2>2. InLine(lists') /\ LruCache!AbsNext  BY <1>1, <1>3, <2>1, PutStep
  <2>. QED  BY <1>2, <2>2 DEF CachesInv
<1>. QED  BY <1>4, <1>5

LEMMA PoolClearStep ==
    ASSUME CachesInv, NEW o \in CacheOwners, PoolClearConnection(o)
    PROVE  CachesInv' /\ LruCache!AbsNext
<1>1. /\ InLine(lists) /\ Filed /\ kind # "query"
      /\ UNCHANGED <<kind, stored, classOf, entityIndex>>
      /\ lists' = [lists EXCEPT ![o] = EmptyList] /\ Asked("remove", {o}, CacheKeys)
  BY DEF CachesInv, PoolClearConnection
<1>2. Filed'  BY <1>1, FiledElsewhere
<1>3. InLine(lists') /\ LruCache!AbsNext  BY <1>1, ClearStep
<1>. QED  BY <1>2, <1>3 DEF CachesInv

LEMMA EntityPutKeeps ==
    ASSUME CachesInv, NEW o \in CacheOwners, NEW k \in CacheKeys, NEW v \in CacheValues,
           EntityPut(o, k, v)
    PROVE  CachesInv' /\ LruCache!AbsNext
<1>1. /\ InLine(lists) /\ Filed /\ kind # "query" /\ UNCHANGED <<kind, classOf, entityIndex>>
  BY DEF CachesInv, EntityPut
<1>2. Filed'  BY <1>1, FiledElsewhere
<1>3. InLine(lists') /\ LruCache!AbsNext  BY <1>1, EntityPutStep
<1>. QED  BY <1>2, <1>3 DEF CachesInv

LEMMA EntityUseStep ==
    ASSUME CachesInv, NEW o \in CacheOwners, NEW k \in CacheKeys, EntityGet(o, k) \/ EntityEvict(o, k)
    PROVE  CachesInv' /\ LruCache!AbsNext
<1>1. /\ InLine(lists) /\ Filed /\ kind # "query"
      /\ UNCHANGED <<kind, stored, classOf, entityIndex>>
  BY DEF CachesInv, EntityGet, EntityEvict
<1>2. Filed'  BY <1>1, FiledElsewhere
<1>3. CASE EntityGet(o, k)
  <2>1. /\ k \in lists[o].keys /\ lists' = [lists EXCEPT ![o] = MoveToHead(@, k)]
        /\ Asked("get", {o}, {k})
    BY <1>3 DEF EntityGet
  <2>2. InLine(lists') /\ LruCache!AbsNext  BY <1>1, <2>1, UseStep
  <2>. QED  BY <1>2, <2>2 DEF CachesInv
<1>4. CASE EntityEvict(o, k)
  <2>1. lists' = [lists EXCEPT ![o] = DropEntry(@, k)] /\ Asked("remove", {o}, {k})
    BY <1>4 DEF EntityEvict
  <2>2. InLine(lists') /\ LruCache!AbsNext  BY <1>1, <2>1, DropStep
  <2>. QED  BY <1>2, <2>2 DEF CachesInv
<1>. QED  BY <1>3, <1>4

LEMMA EntityClearStep ==
    ASSUME CachesInv, EntityEvictAll
    PROVE  CachesInv' /\ LruCache!AbsNext
<1>1. /\ InLine(lists) /\ Filed /\ kind # "query"
      /\ UNCHANGED <<kind, stored, classOf, entityIndex>>
  BY DEF CachesInv, EntityEvictAll
<1>2. Filed'  BY <1>1, FiledElsewhere
<1>3. CASE /\ Asked("remove", CacheOwners, CacheKeys)
           /\ lists' = [p \in CacheOwners |-> EmptyList]
  <2>1. InLine(lists') /\ LruCache!AbsNext  BY <1>1, <1>3, ClearAllStep
  <2>. QED  BY <1>2, <2>1 DEF CachesInv
<1>4. ASSUME NEW p \in CacheOwners, Asked("remove", {p}, CacheKeys), lists' = [lists EXCEPT ![p] = EmptyList]
      PROVE  CachesInv' /\ LruCache!AbsNext
  <2>1. InLine(lists') /\ LruCache!AbsNext  BY <1>1, <1>4, ClearStep
  <2>. QED  BY <1>2, <2>1 DEF CachesInv
<1>. QED  BY <1>3, <1>4 DEF EntityEvictAll

\* What the index and the classes are in the query cache, and the one list.
LEMMA FiledFacts ==
    ASSUME CachesInv, kind = "query"
    PROVE  /\ InLine(lists) /\ FirstOwner \in CacheOwners /\ Results = lists[FirstOwner]
           /\ Results.keys \in SUBSET CacheKeys /\ Results \in LinkedLists
           /\ classOf \in [CacheKeys -> Classes] /\ entityIndex \in [Classes -> SUBSET CacheKeys]
           /\ \A c \in Classes : entityIndex[c] = {k \in Results.keys : classOf[k] = c}
<1>1. InLine(lists) /\ FirstOwner \in CacheOwners /\ Results = lists[FirstOwner]
  BY OwnersAndClasses DEF CachesInv, Results
<1>2. Results.keys \in SUBSET CacheKeys /\ Results \in LinkedLists  BY <1>1, LineOf
<1>. QED  BY <1>1, <1>2 DEF CachesInv, Filed

LEMMA QueryGetStep ==
    ASSUME CachesInv, NEW k \in CacheKeys, QueryGet(k)
    PROVE  CachesInv' /\ LruCache!AbsNext
<1>1. /\ kind = "query" /\ kind' = kind /\ stored' = stored /\ k \in Results.keys
      /\ Remain(classOf, timeLeft)
  BY DEF QueryGet
<1>2. /\ InLine(lists) /\ FirstOwner \in CacheOwners /\ Results = lists[FirstOwner]
      /\ Results.keys \in SUBSET CacheKeys
      /\ classOf \in [CacheKeys -> Classes] /\ entityIndex \in [Classes -> SUBSET CacheKeys]
      /\ \A c \in Classes : entityIndex[c] = {j \in Results.keys : classOf[j] = c}
  BY <1>1, FiledFacts
<1>3. CASE timeLeft[k] < 0
  <2>1. /\ lists' = [lists EXCEPT ![FirstOwner] = DropEntry(@, k)] /\ entityIndex' = Unindexed({k})
        /\ Asked("remove", {FirstOwner}, {k})
    BY <1>3 DEF QueryGet
  <2>2. /\ InLine(lists') /\ LruCache!AbsNext
        /\ lists'[FirstOwner].keys = lists[FirstOwner].keys \ {k}
    BY <1>1, <1>2, <2>1, DropStep
  <2>3. PICK K : K = Results.keys \ {k}  OBVIOUS
  <2>4. /\ K \in SUBSET CacheKeys /\ entityIndex' \in [Classes -> SUBSET CacheKeys]
        /\ \A c \in Classes : entityIndex'[c] = {j \in K : classOf[j] = c}
    BY <1>2, <2>1, <2>3 DEF Unindexed
  <2>5. lists'[FirstOwner].keys = K /\ kind' = "query"  BY <1>1, <1>2, <2>2, <2>3
  <2>6. Filed'  BY <1>1, <1>2, <2>4, <2>5, Refiled
  <2>. QED  BY <2>2, <2>6 DEF CachesInv
<1>4. CASE ~(timeLeft[k] < 0)
  <2>1. /\ lists' = [lists EXCEPT ![FirstOwner] = MoveToHead(@, k)] /\ entityIndex' = entityIndex
        /\ Asked("get", {FirstOwner}, {k})
    BY <1>4 DEF QueryGet
  <2>2. /\ InLine(lists') /\ LruCache!AbsNext
        /\ lists'[FirstOwner].keys = lists[FirstOwner].keys
    BY <1>1, <1>2, <2>1, UseStep
  <2>3. PICK K : K = Results.keys  OBVIOUS
  <2>4. /\ K \in SUBSET CacheKeys /\ entityIndex' \in [Classes -> SUBSET CacheKeys]
        /\ \A c \in Classes : entityIndex'[c] = {j \in K : classOf[j] = c}
    BY <1>2, <2>1, <2>3
  <2>5. lists'[FirstOwner].keys = K /\ kind' = "query"  BY <1>1, <1>2, <2>2, <2>3
  <2>6. Filed'  BY <1>1, <1>2, <2>4, <2>5, Refiled
  <2>. QED  BY <2>2, <2>6 DEF CachesInv
<1>. QED  BY <1>3, <1>4

LEMMA QueryPutStep ==
    ASSUME CachesInv, NEW k \in CacheKeys, NEW v \in CacheValues, NEW c \in Classes, QueryPut(k, v, c)
    PROVE  CachesInv' /\ LruCache!AbsNext
<1>1. PICK new : new = PutEntry(Results, k)  OBVIOUS
<1>2. /\ kind = "query" /\ kind' = kind /\ kind # "entity" /\ lists' = [lists EXCEPT ![FirstOwner] = new]
      /\ entityIndex' = Indexed((Results.keys \ new.keys) \cup {k}, k, c)
      /\ stored' = [stored EXCEPT ![FirstOwner][k] = v] /\ Asked("put", {FirstOwner}, {k})
      /\ \E left : Remain([classOf EXCEPT ![k] = c], left)
  BY <1>1 DEF QueryPut
<1>3. /\ InLine(lists) /\ FirstOwner \in CacheOwners /\ Results = lists[FirstOwner]
      /\ Results.keys \in SUBSET CacheKeys
      /\ classOf \in [CacheKeys -> Classes] /\ entityIndex \in [Classes -> SUBSET CacheKeys]
      /\ \A d \in Classes : entityIndex[d] = {j \in Results.keys : classOf[j] = d}
  BY <1>2, FiledFacts
<1>4. lists' = [lists EXCEPT ![FirstOwner] = PutEntry(@, k)]  BY <1>1, <1>2, <1>3
<1>5. InLine(lists') /\ LruCache!AbsNext  BY <1>2, <1>3, <1>4, PutStep
<1>6. k \in new.keys /\ new.keys \subseteq Results.keys \cup {k}  BY <1>1, <1>3, PutInLine
<1>7. lists'[FirstOwner] = new  BY <1>2, <1>3 DEF InLine
<1>8. PICK ofClass : ofClass = [classOf EXCEPT ![k] = c]  OBVIOUS
<1>9. ofClass \in [CacheKeys -> Classes] /\ ofClass[k] = c
      /\ \A j \in CacheKeys : j # k => ofClass[j] = classOf[j]
  BY <1>3, <1>8
<1>10. PICK K \in SUBSET CacheKeys : K = new.keys  BY <1>3, <1>6
<1>11. entityIndex' \in [Classes -> SUBSET CacheKeys]
       /\ \A d \in Classes : entityIndex'[d] = (entityIndex[d] \ ((Results.keys \ K) \cup {k}))
                                                 \cup (IF d = c THEN {k} ELSE {})
  <2>1. PICK S : S = (Results.keys \ K) \cup {k}  OBVIOUS
  <2>2. entityIndex' = [[d \in Classes |-> entityIndex[d] \ S] EXCEPT ![c] = @ \cup {k}]
    BY <1>2, <1>10, <2>1 DEF Indexed, Unindexed
  <2>3. [d \in Classes |-> entityIndex[d] \ S] \in [Classes -> SUBSET CacheKeys]  BY <1>3
  <2>. QED  BY <2>1, <2>2, <2>3
<1>12. ASSUME NEW d \in Classes PROVE entityIndex'[d] = {j \in K : ofClass[j] = d}
  <2>1. CASE d = c  BY <1>3, <1>6, <1>9, <1>10, <1>11, <2>1
  <2>2. CASE d # c  BY <1>3, <1>6, <1>9, <1>10, <1>11, <2>2
  <2>. QED  BY <2>1, <2>2
<1>13. PICK left : Remain(ofClass, left)  BY <1>2, <1>8
<1>14. kind' = "query" /\ lists'[FirstOwner].keys = K  BY <1>2, <1>7, <1>10
<1>15. Filed'  BY <1>9, <1>11, <1>12, <1>13, <1>14, Refiled
<1>. QED  BY <1>5, <1>15 DEF CachesInv

LEMMA QueryInvalidateStep ==
    ASSUME CachesInv, NEW c \in Classes, QueryInvalidate(c)
    PROVE  CachesInv' /\ LruCache!AbsNext
<1>1. /\ kind = "query" /\ kind' = kind /\ stored' = stored /\ Remain(classOf, timeLeft)
      /\ entityIndex' = [entityIndex EXCEPT ![c] = {}] /\ Asked("remove", {FirstOwner}, entityIndex[c])
  BY DEF QueryInvalidate
<1>2. PICK ks \in SetToSeqs(entityIndex[c]) : lists' = [lists EXCEPT ![FirstOwner] = Dropped(@, ks)]
  BY DEF QueryInvalidate
<1>3. /\ InLine(lists) /\ FirstOwner \in CacheOwners /\ Results = lists[FirstOwner]
      /\ Results.keys \in SUBSET CacheKeys
      /\ classOf \in [CacheKeys -> Classes] /\ entityIndex \in [Classes -> SUBSET CacheKeys]
      /\ \A d \in Classes : entityIndex[d] = {j \in Results.keys : classOf[j] = d}
  BY <1>1, FiledFacts
<1>4. ks \in Seq(CacheKeys) /\ ToSet(ks) = entityIndex[c]
  <2>1. entityIndex[c] \subseteq CacheKeys /\ IsFiniteSet(entityIndex[c])
    BY <1>3, FS_Subset, CachesAssumption
  <2>2. ks \in Seq(entityIndex[c]) /\ ToSet(ks) = entityIndex[c]  BY <2>1, AllInSeqs
  <2>. QED  BY <2>1, <2>2
<1>5. PICK l : l = Dropped(lists[FirstOwner], ks)  OBVIOUS
<1>6. Holds(lists[FirstOwner], OrdersOf(lists)[FirstOwner])  BY <1>3, LineOf
<1>7. /\ \E t \in Seq(CacheKeys) : Holds(l, t) /\ LruCache!InOrderOf(t, OrdersOf(lists)[FirstOwner])
      /\ l.keys = lists[FirstOwner].keys \ ToSet(ks)
  BY <1>4, <1>5, <1>6, DroppedHolds
<1>8. lists' = [lists EXCEPT ![FirstOwner] = l]  BY <1>2, <1>5
<1>9. InLine(lists') /\ LruCache!AbsNext
  <2>1. entityIndex[c] \in SUBSET CacheKeys /\ l.keys = lists[FirstOwner].keys \ entityIndex[c]
    BY <1>3, <1>4, <1>7
  <2>. QED  BY <1>1, <1>3, <1>7, <1>8, <2>1, RemoveOneStep
<1>10. lists'[FirstOwner] = l  BY <1>3, <1>8 DEF InLine
<1>11. PICK K \in SUBSET CacheKeys : K = Results.keys \ entityIndex[c]  BY <1>3
<1>12. /\ entityIndex' \in [Classes -> SUBSET CacheKeys]
       /\ \A d \in Classes : entityIndex'[d] = IF d = c THEN {} ELSE entityIndex[d]
  BY <1>1, <1>3
<1>13. \A d \in Classes : entityIndex'[d] = {j \in K : classOf[j] = d}  BY <1>3, <1>11, <1>12
<1>14. kind' = "query" /\ lists'[FirstOwner].keys = K  BY <1>1, <1>3, <1>4, <1>7, <1>10, <1>11
<1>15. Filed'  BY <1>1, <1>3, <1>12, <1>13, <1>14, Refiled
<1>. QED  BY <1>9, <1>15 DEF CachesInv

LEMMA QueryClearStep ==
    ASSUME CachesInv, QueryClear
    PROVE  CachesInv' /\ LruCache!AbsNext
<1>1. /\ kind = "query" /\ kind' = kind /\ stored' = stored /\ Remain(classOf, timeLeft)
      /\ entityIndex' = [c \in Classes |-> {}] /\ lists' = [lists EXCEPT ![FirstOwner] = EmptyList]
      /\ Asked("remove", {FirstOwner}, CacheKeys)
  BY DEF QueryClear
<1>2. InLine(lists) /\ FirstOwner \in CacheOwners /\ classOf \in [CacheKeys -> Classes]  BY <1>1, FiledFacts
<1>3. InLine(lists') /\ LruCache!AbsNext /\ lists'[FirstOwner].keys = {}  BY <1>1, <1>2, ClearStep
<1>4. PICK K \in SUBSET CacheKeys : K = {}  OBVIOUS
<1>5. /\ entityIndex' \in [Classes -> SUBSET CacheKeys]
      /\ \A c \in Classes : entityIndex'[c] = {k \in K : classOf[k] = c}
  BY <1>1, <1>4
<1>6. kind' = "query" /\ lists'[FirstOwner].keys = K  BY <1>1, <1>3, <1>4
<1>7. Filed'  BY <1>1, <1>2, <1>5, <1>6, Refiled
<1>. QED  BY <1>3, <1>7 DEF CachesInv

LEMMA NothingStep ==
    ASSUME CachesInv, UNCHANGED <<kind, lists, stored, classOf, entityIndex, asked>>
    PROVE  /\ CachesInv'
           /\ UNCHANGED <<OrdersOf(lists), stored, CacheTotal, asked>>
BY TotalKept DEF CachesInv, Filed, Results, OrdersOf

LEMMA InitCaches == CachesInit => CachesInv /\ LruCache!AbsInit
<1>. SUFFICES ASSUME CachesInit PROVE CachesInv /\ LruCache!AbsInit  OBVIOUS
<1>1. PICK c \in CacheKinds : CachesStart(c)  BY DEF CachesInit
<1>2. /\ lists = [o \in CacheOwners |-> EmptyList]
      /\ stored = [o \in CacheOwners |-> [k \in CacheKeys |-> CHOOSE v \in CacheValues : TRUE]]
      /\ classOf = [k \in CacheKeys |-> FirstClass] /\ entityIndex = [c2 \in Classes |-> {}]
      /\ asked = [op |-> "none", owners |-> {}, keys |-> {}]
  BY <1>1 DEF CachesStart
<1>3. Walk(EmptyList) = <<>>  BY EmptyHolds, WalkIs
<1>4. InLine(lists)
  <2>1. EmptyList \in LinkedLists  BY EmptyHolds DEF Holds, Leads
  <2>2. Len(<<>>) <= Capacity  BY CachesAssumption
  <2>. QED  BY <1>2, <1>3, <2>1, <2>2, EmptyHolds DEF InLine
<1>5. Filed
  <2>1. Results.keys = {}  BY <1>2, OwnersAndClasses DEF Results, EmptyList
  <2>. QED  BY <1>2, <2>1, OwnersAndClasses DEF Filed
<1>6. CacheTotal \in Nat
  <2>1. Cardinality(CacheOwners) \in Nat /\ Capacity \in Nat /\ MaxTotalSize \in Nat
    BY CachesAssumption, FS_CardinalityType
  <2>2. Capacity * Cardinality(CacheOwners) \in Nat  BY <2>1
  <2>. QED  BY <2>1, <2>2 DEF CacheTotal
<1>7. [o \in CacheOwners |-> Walk(lists[o])] = [o \in CacheOwners |-> <<>>]  BY <1>2, <1>3
<1>8. LruCache!AbsInit  BY <1>2, <1>6, <1>7 DEF LruCache!AbsInit, LruCache!NoContent
<1>. QED  BY <1>4, <1>5, <1>8 DEF CachesInv

\* Every step of the caches keeps the invariant and is a step of the promise.
LEMMA NextCaches ==
    CachesInv /\ [CachesNext]_cacheVars =>
        CachesInv' /\ (LruCache!AbsNext \/ UNCHANGED <<OrdersOf(lists), stored, CacheTotal, asked>>)
<1>. DEFINE Goal == CachesInv' /\ (LruCache!AbsNext \/ UNCHANGED <<OrdersOf(lists), stored, CacheTotal, asked>>)
<1>. SUFFICES ASSUME CachesInv, [CachesNext]_cacheVars PROVE Goal  OBVIOUS
<1>1. UNCHANGED cacheVars => Goal  BY NothingStep DEF cacheVars
<1>2. CacheTick => Goal  BY NothingStep DEF CacheTick
<1>3. \A k \in CacheKeys : StatementGet(k) \/ StatementEvict(k) => Goal  BY StatementUseStep
<1>4. \A k \in CacheKeys, v \in CacheValues : StatementPut(k, v) => Goal  BY StatementPutStep
<1>5. StatementClear => Goal  BY StatementClearStep
<1>6. \A o \in CacheOwners, k \in CacheKeys, v \in CacheValues : PoolAcquire(o, k, v) => Goal
  BY PoolAcquireStep
<1>7. \A o \in CacheOwners : PoolClearConnection(o) => Goal  BY PoolClearStep
<1>8. \A o \in CacheOwners, k \in CacheKeys, v \in CacheValues : EntityPut(o, k, v) => Goal
  BY EntityPutKeeps
<1>9. \A o \in CacheOwners, k \in CacheKeys : EntityGet(o, k) \/ EntityEvict(o, k) => Goal
  BY EntityUseStep
<1>10. EntityEvictAll => Goal  BY EntityClearStep
<1>11. \A k \in CacheKeys : QueryGet(k) => Goal  BY QueryGetStep
<1>12. \A k \in CacheKeys, v \in CacheValues, c \in Classes : QueryPut(k, v, c) => Goal
  BY QueryPutStep
<1>13. \A c \in Classes : QueryInvalidate(c) => Goal  BY QueryInvalidateStep
<1>14. QueryClear => Goal  BY QueryClearStep
<1>. HIDE DEF Goal
<1>15. CachesNext => Goal
  BY <1>2, <1>3, <1>4, <1>5, <1>6, <1>7, <1>8, <1>9, <1>10, <1>11, <1>12, <1>13, <1>14, Zenon DEF CachesNext
<1>. QED  BY <1>1, <1>15

\* CachesInv holds in every reachable state of the caches.
THEOREM CachesInvariant == CachesSpec => []CachesInv
<1>1. CachesInit => CachesInv  BY InitCaches
<1>2. CachesInv /\ [CachesNext]_cacheVars => CachesInv'  BY NextCaches
<1>. QED  BY <1>1, <1>2, PTL DEF CachesSpec

LEMMA InvAgrees == CachesInv => MapListAndIndexAgree
<1>. SUFFICES ASSUME CachesInv PROVE MapListAndIndexAgree  OBVIOUS
<1>1. ASSUME NEW o \in CacheOwners PROVE lists[o].keys = ToSet(Walk(lists[o]))
  BY DEF CachesInv, InLine, Holds
<1>2. kind = "query" => \A c \in Classes : entityIndex[c] = {k \in Results.keys : classOf[k] = c}
  BY DEF CachesInv, Filed
<1>. QED  BY <1>1, <1>2 DEF MapListAndIndexAgree

\* The Map and the list of every cache have the same entries, whatever was got, put,
\* evicted, invalidated or expired in between, and no result of a query leaves or
\* misses the index of its class.
THEOREM CachesAreLinkedRight == CachesSpec => []MapListAndIndexAgree
<1>1. CachesSpec => []CachesInv  BY CachesInvariant
<1>. QED  BY <1>1, InvAgrees, PTL

\* The doubly linked lists are caches that evict the least recently used entry: every
\* get and every put makes its key the most recent one of the list, the entry that makes
\* room is the last, and a removal takes the keys it names, the others keep their order.
THEOREM CachesRefineLru == CachesSpec => CachesAreLru
<1>1. CachesInit => CachesInv /\ LruCache!AbsInit  BY InitCaches
<1>2. CachesInv /\ [CachesNext]_cacheVars =>
         CachesInv' /\ [LruCache!AbsNext]_<<[o \in CacheOwners |-> Walk(lists[o])], stored, CacheTotal, asked>>
  BY NextCaches DEF OrdersOf
<1>. QED  BY <1>1, <1>2, PTL DEF CachesSpec, CachesAreLru, LruCache!AbsSpec
=============================================================================
