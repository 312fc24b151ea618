-------------------------- MODULE ProjectionProofs --------------------------
(***************************************************************************)
(* What holds of Projection for any number of appends and calls, any size  *)
(* of the batch and either kind of driver.                                 *)
(*                                                                         *)
(* Between two batches lastSequence is a watermark: every event of the     *)
(* call below it has been handled (Complete).  Within a batch an event     *)
(* that is neither handled nor in the batch lies above the batch, and the  *)
(* batch was full.  A driver that returns strings never moves the          *)
(* watermark; then there is only one batch (Reached), so that nothing is   *)
(* handled twice.                                                          *)
(*                                                                         *)
(* And what holds of Snapshots: what a rehydrator has got is always a      *)
(* prefix of the stream (Prefix), and so is the row of the aggregate.      *)
(*                                                                         *)
(* And of Relations: a load by id that has been asked has seen its row as  *)
(* it is (UpToDate) and waits in one place only (OnePlaceEach), and what a *)
(* relation has read of some chunks has all that was always so of them     *)
(* (ChunksRead).                                                           *)
(***************************************************************************)
EXTENDS MCProjection, FiniteSetTheorems, SequenceTheorems, TLAPS

IsAscending(s) == \A i, j \in 1..Len(s) : i < j => s[i] < s[j]

\* What a driver that returns strings has done, and what one that returns numbers has.
Reached ==
    /\ \A p \in ToSet(processed) : p > since
    /\ IF numeric THEN \A p \in ToSet(processed) : p <= lastSequence
       ELSE /\ lastSequence = since
            /\ pc \in {"load", "handle"} => prevSequence = since
            /\ pc = "load" => processed = <<>>

\* A batch is of events not handled yet, in order, and moves the watermark.
InBatch ==
    /\ IsAscending(events)
    /\ \A e \in ToSet(events) :
          /\ e > prevSequence /\ e > since
          /\ \A p \in ToSet(processed) : p < e
    /\ pc # "handle" => events = <<>>
    /\ pc = "handle" /\ numeric /\ events = <<>> => lastSequence > prevSequence

\* Where the events are that a call has yet to handle.
Complete ==
    numeric => \A n \in atCall \ ToSet(processed) :
        n > since =>
            /\ pc # "returned"
            /\ pc = "load" => n > lastSequence
            /\ pc = "handle" /\ n \notin ToSet(events) =>
                  /\ fetched = BatchSize
                  /\ n > lastSequence
                  /\ \A e \in ToSet(events) : n > e

IInv ==
    /\ TypeOK /\ numeric \in BOOLEAN
    /\ lastSequence \in Nat /\ prevSequence \in Nat /\ since \in Nat
    /\ processed \in Seq(visible) /\ IsAscending(processed)
    /\ Reached /\ InBatch /\ Complete

-----------------------------------------------------------------------------
(* Sequences of numbers in order *)

LEMMA WiderSeq ==
    ASSUME NEW A, NEW B, A \subseteq B, NEW s \in Seq(A)
    PROVE  s \in Seq(B)
<1>1. Len(s) \in Nat /\ s \in [1..Len(s) -> A]
  OBVIOUS
<1>2. s \in [1..Len(s) -> B]
  BY <1>1
<1> QED
  BY <1>1, <1>2

LEMMA NoneYet == ToSet(<<>>) = {} /\ IsAscending(<<>>) /\ Len(<<>>) = 0
  BY DEF ToSet, IsAscending

\* ORDER BY: a finite set of numbers can be put in order, and Ascending does.  The
\* place of x is the number of those up to x.
LEMMA AscendingOrders ==
    ASSUME NEW S \in SUBSET Nat, IsFiniteSet(S)
    PROVE  /\ Cardinality(S) \in Nat
           /\ Ascending(S) \in [1..Cardinality(S) -> S]
           /\ Ascending(S) \in Seq(S) /\ Len(Ascending(S)) = Cardinality(S)
           /\ IsAscending(Ascending(S))
           /\ ToSet(Ascending(S)) = S
<1> DEFINE N == Cardinality(S)
           UpTo(x) == {y \in S : y <= x}
           place == [x \in S |-> Cardinality(UpTo(x))]
<1>1. N \in Nat
  BY FS_CardinalityType
<1>2. ASSUME NEW x \in S
      PROVE  IsFiniteSet(UpTo(x)) /\ Cardinality(UpTo(x)) \in 1..N
  <2>1. {x} \in SUBSET UpTo(x) /\ UpTo(x) \in SUBSET S
    OBVIOUS
  <2>2. IsFiniteSet(UpTo(x)) /\ Cardinality(UpTo(x)) <= N
    BY <2>1, FS_Subset
  <2>3. Cardinality({x}) = 1 /\ Cardinality({x}) <= Cardinality(UpTo(x))
    BY <2>1, <2>2, FS_Subset, FS_Singleton
  <2>4. Cardinality(UpTo(x)) \in Nat
    BY <2>2, FS_CardinalityType
  <2> QED
    BY <2>2, <2>3, <2>4, <1>1
<1>3. ASSUME NEW x \in S, NEW z \in S, x < z
      PROVE  Cardinality(UpTo(x)) < Cardinality(UpTo(z))
  <2>1. UpTo(x) \in SUBSET UpTo(z)
    <3>1. ASSUME NEW y \in S, y <= x PROVE y <= z
      <4>1. x \in Nat /\ y \in Nat /\ z \in Nat
        OBVIOUS
      <4> QED
        BY <4>1, <3>1, <1>3
    <3> QED
      BY <3>1
  <2>2. z \in UpTo(z) /\ z \notin UpTo(x)
    BY <1>3
  <2>3. Cardinality(UpTo(x)) <= Cardinality(UpTo(z))
    BY <2>1, <1>2, FS_Subset
  <2>4. Cardinality(UpTo(x)) # Cardinality(UpTo(z))
    BY <2>1, <2>2, <1>2, FS_Subset
  <2>5. Cardinality(UpTo(x)) \in 1..N /\ Cardinality(UpTo(z)) \in 1..N
    BY <1>2
  <2> HIDE DEF UpTo
  <2> QED
    BY <2>3, <2>4, <2>5, <1>1
<1> HIDE DEF UpTo
<1>4. place \in [S -> 1..N]
  BY <1>2
<1>5. ASSUME NEW x \in S, NEW z \in S, place[x] = place[z] PROVE x = z
  <2>1. Cardinality(UpTo(x)) = Cardinality(UpTo(z)) /\ Cardinality(UpTo(x)) \in 1..N
    BY <1>5, <1>2
  <2>2. ~(x < z) /\ ~(z < x)
    <3>1. ASSUME Cardinality(UpTo(x)) < Cardinality(UpTo(z))
                 \/ Cardinality(UpTo(z)) < Cardinality(UpTo(x))
          PROVE  FALSE
      BY <3>1, <2>1, <1>1
    <3> QED
      BY <3>1, <1>3
  <2>3. x \in Nat /\ z \in Nat
    OBVIOUS
  <2> QED
    BY <2>2, <2>3
<1>6. place \in Surjection(S, 1..N)
  <2>1. place \in Injection(S, 1..N)
    BY <1>4, <1>5 DEF Injection, IsInjective
  <2>2. IsFiniteSet(1..N) /\ Cardinality(1..N) = N
    BY <1>1, FS_Interval
  <2> QED
    BY <2>1, <2>2, FS_Injection
<1> DEFINE order == [i \in 1..N |-> CHOOSE x \in S : place[x] = i]
<1>7. \A i \in 1..N : order[i] \in S /\ place[order[i]] = i
  <2>1. \A i \in 1..N : \E x \in S : place[x] = i
    BY <1>6 DEF Surjection
  <2> HIDE DEF place
  <2> QED
    BY <2>1
<1>8. \A i, j \in 1..N : i < j => order[i] < order[j]
  <2> SUFFICES ASSUME NEW i \in 1..N, NEW j \in 1..N, i < j PROVE order[i] < order[j]
    OBVIOUS
  <2>1. PICK x \in S, z \in S : x = order[i] /\ z = order[j]
    BY <1>7
  <2>2. place[x] = i /\ place[z] = j
    BY <2>1, <1>7
  <2> HIDE DEF order
  <2>3. Cardinality(UpTo(x)) = i /\ Cardinality(UpTo(z)) = j
    BY <2>2
  <2>4. ~(z < x)
    BY <2>3, <1>3
  <2>5. x # z
    BY <2>3
  <2> QED
    BY <2>1, <2>4, <2>5
<1>9. order \in [1..N -> S]
  BY <1>7
<1> HIDE DEF order, place
<1>10. /\ Ascending(S) \in [1..N -> S]
       /\ \A i, j \in 1..N : i < j => Ascending(S)[i] < Ascending(S)[j]
  <2>1. \E f \in [1..N -> S] : \A i, j \in DOMAIN f : i < j => f[i] < f[j]
    BY <1>8, <1>9
  <2>2. /\ Ascending(S) \in [1..N -> S]
        /\ \A i, j \in DOMAIN Ascending(S) : i < j => Ascending(S)[i] < Ascending(S)[j]
    BY <2>1 DEF Ascending
  <2> QED
    BY <2>2
<1> DEFINE f == Ascending(S)
<1>11. f \in [1..N -> S] /\ \A i, j \in 1..N : i < j => f[i] < f[j]
  BY <1>10
<1> HIDE DEF f
<1>12. f \in Seq(S) /\ Len(f) = N
  BY <1>1, <1>11
<1>13. f \in Injection(1..N, S)
  <2>1. ASSUME NEW i \in 1..N, NEW j \in 1..N, f[i] = f[j] PROVE i = j
    <3>1. f[i] \in Nat /\ f[j] \in Nat
      BY <1>11
    <3>2. ~(i < j) /\ ~(j < i)
      BY <3>1, <2>1, <1>11
    <3> QED
      BY <3>2
  <2> QED
    BY <2>1, <1>11 DEF Injection, IsInjective
<1>14. f \in Surjection(1..N, S)
  <2>1. Cardinality(1..N) = Cardinality(S)
    BY <1>1, FS_Interval
  <2> QED
    BY <2>1, <1>13, FS_Injection
<1>15. ToSet(f) = S
  BY <1>11, <1>14 DEF ToSet, Surjection
<1> QED
  BY <1>1, <1>10, <1>11, <1>12, <1>15 DEF IsAscending, f

LEMMA Counting ==
    ASSUME NEW n \in Nat
    PROVE  IsFiniteSet(1..n) /\ Cardinality(1..n) = n
<1>1. 1 \in Int /\ n \in Int /\ (IF 1 > n THEN 0 ELSE n - 1 + 1) = n
  OBVIOUS
<1> QED
  BY <1>1, FS_Interval

\* A sequence of different numbers up to m is no longer than m.
LEMMA FitsIn ==
    ASSUME NEW m \in Nat, NEW s \in Seq(1..m), IsAscending(s)
    PROVE  Len(s) <= m
<1>1. Len(s) \in Nat /\ s \in [1..Len(s) -> 1..m]
  OBVIOUS
<1>2. ASSUME NEW i \in 1..Len(s), NEW j \in 1..Len(s), s[i] = s[j] PROVE i = j
  <2>1. s[i] \in Nat /\ s[j] \in Nat
    BY <1>1
  <2>2. ~(i < j) /\ ~(j < i)
    BY <2>1, <1>2 DEF IsAscending
  <2> QED
    BY <1>1, <2>2
<1>3. s \in Injection(1..Len(s), 1..m)
  BY <1>1, <1>2 DEF Injection, IsInjective
<1>4. IsFiniteSet(1..m) /\ Cardinality(1..m) = m /\ Cardinality(1..Len(s)) = Len(s)
  BY <1>1, Counting
<1> QED
  BY <1>3, <1>4, FS_Injection

\* The checkpoint that processNewEvents starts from.
LEMMA HighestIsThere ==
    ASSUME NEW S \in SUBSET Nat, IsFiniteSet(S)
    PROVE  Highest(S) \in S \cup {0} /\ \A n \in S : n <= Highest(S)
<1>1. \E m \in S \cup {0} : \A n \in S : n <= m
  <2>1. CASE S = {}
    BY <2>1
  <2>2. CASE S # {}
    <3> DEFINE f == Ascending(S)
               N == Cardinality(S)
    <3>1. /\ N \in Nat /\ f \in [1..N -> S] /\ Len(f) = N /\ IsAscending(f)
          /\ ToSet(f) = S
      BY AscendingOrders
    <3> HIDE DEF f, N
    <3>2. \A n \in S : \E i \in 1..N : n = f[i]
      BY <3>1 DEF ToSet
    <3>3. N \in 1..N /\ f[N] \in S
      <4>1. PICK i \in 1..N : TRUE
        BY <3>2, <2>2
      <4>2. N \in 1..N
        BY <4>1, <3>1
      <4> QED
        BY <4>2, <3>1
    <3>4. ASSUME NEW i \in 1..N PROVE f[i] <= f[N]
      <4>1. f[i] \in Nat /\ f[N] \in Nat
        BY <3>1, <3>3
      <4>2. CASE i = N
        BY <4>1, <4>2
      <4>3. CASE i < N
        BY <4>1, <4>3, <3>1, <3>3 DEF IsAscending
      <4> QED
        BY <4>2, <4>3, <3>1
    <3>5. \A n \in S : n <= f[N]
      BY <3>2, <3>4
    <3> QED
      BY <3>3, <3>5
  <2> QED
    BY <2>1, <2>2
<1> QED
  BY <1>1 DEF Highest

\* The first of the events in order, and the rest.
LEMMA FirstAndRest ==
    ASSUME NEW S \in SUBSET Nat, NEW s \in Seq(S), s # <<>>, IsAscending(s)
    PROVE  /\ Head(s) \in S /\ Tail(s) \in Seq(S) /\ Len(Tail(s)) <= Len(s)
           /\ IsAscending(Tail(s))
           /\ ToSet(s) = {Head(s)} \cup ToSet(Tail(s))
           /\ \A e \in ToSet(Tail(s)) : Head(s) < e
<1>1. /\ Len(s) \in Nat \ {0} /\ DOMAIN s = 1..Len(s) /\ Head(s) = s[1] /\ Head(s) \in S
      /\ Tail(s) \in Seq(S) /\ Len(Tail(s)) = Len(s) - 1
      /\ DOMAIN Tail(s) = 1..(Len(s) - 1)
      /\ \A i \in 1..(Len(s) - 1) : Tail(s)[i] = s[i + 1]
  OBVIOUS
<1>2. ToSet(s) = {s[i] : i \in 1..Len(s)}
  BY <1>1 DEF ToSet
<1>3. ToSet(Tail(s)) = {s[i + 1] : i \in 1..(Len(s) - 1)}
  BY <1>1 DEF ToSet
<1>4. ToSet(s) = {s[1]} \cup {s[i + 1] : i \in 1..(Len(s) - 1)}
  <2>1. \A i \in 1..Len(s) : i = 1 \/ (i - 1 \in 1..(Len(s) - 1) /\ i = (i - 1) + 1)
    BY <1>1
  <2>2. \A i \in 1..(Len(s) - 1) : i + 1 \in 1..Len(s)
    BY <1>1
  <2>3. 1 \in 1..Len(s)
    BY <1>1
  <2> QED
    BY <2>1, <2>2, <2>3, <1>2
<1>5. IsAscending(Tail(s))
  BY <1>1 DEF IsAscending
<1>6. \A i \in 1..(Len(s) - 1) : s[1] < s[i + 1]
  BY <1>1 DEF IsAscending
<1> QED
  BY <1>1, <1>3, <1>4, <1>5, <1>6

\* One more at the end.
LEMMA OneMore ==
    ASSUME NEW S \in SUBSET Nat, NEW s \in Seq(S), IsAscending(s), NEW n \in S,
           \A e \in ToSet(s) : e < n
    PROVE  /\ Append(s, n) \in Seq(S) /\ Len(Append(s, n)) = Len(s) + 1
           /\ IsAscending(Append(s, n))
           /\ ToSet(Append(s, n)) = ToSet(s) \cup {n}
<1>1. /\ Len(s) \in Nat /\ DOMAIN s = 1..Len(s)
      /\ Append(s, n) \in Seq(S) /\ Len(Append(s, n)) = Len(s) + 1
      /\ DOMAIN Append(s, n) = 1..(Len(s) + 1)
      /\ \A i \in 1..Len(s) : Append(s, n)[i] = s[i]
      /\ Append(s, n)[Len(s) + 1] = n
  OBVIOUS
<1>2. ToSet(Append(s, n)) = {Append(s, n)[i] : i \in 1..(Len(s) + 1)}
  BY <1>1 DEF ToSet
<1>3. ToSet(s) = {s[i] : i \in 1..Len(s)}
  BY <1>1 DEF ToSet
<1>4. 1..(Len(s) + 1) = 1..Len(s) \cup {Len(s) + 1}
  BY <1>1
<1>5. ToSet(Append(s, n)) = ToSet(s) \cup {n}
  BY <1>1, <1>2, <1>3, <1>4
<1>6. IsAscending(Append(s, n))
  <2> SUFFICES ASSUME NEW i \in 1..(Len(s) + 1), NEW j \in 1..(Len(s) + 1), i < j
               PROVE  Append(s, n)[i] < Append(s, n)[j]
    BY <1>1 DEF IsAscending
  <2>1. i \in 1..Len(s)
    BY <1>1
  <2>2. CASE j \in 1..Len(s)
    BY <2>1, <2>2, <1>1 DEF IsAscending
  <2>3. CASE j = Len(s) + 1
    BY <2>1, <2>3, <1>1, <1>3
  <2> QED
    BY <2>2, <2>3, <1>4
<1> QED
  BY <1>1, <1>5, <1>6

\* What loadAllEvents returns: events after `from` in order, no more than `limit`,
\* and if any are left out it is full and they are above it.
LEMMA LoadedEvents ==
    ASSUME NEW m \in Nat, visible \subseteq 1..m, NEW from \in Nat, NEW limit \in Nat \ {0}
    PROVE  LET batch == LoadAllEvents(from, limit)
           IN  /\ batch \in Seq(visible) /\ Len(batch) \in 0..limit
               /\ IsAscending(batch)
               /\ \A e \in ToSet(batch) : e > from
               /\ \A n \in visible \ ToSet(batch) :
                     n > from => Len(batch) = limit /\ \A e \in ToSet(batch) : n > e
<1> DEFINE S == {n \in visible : n > from}
           f == Ascending(S)
           N == Len(f)
           k == IF N < limit THEN N ELSE limit
           batch == SubSeq(f, 1, k)
<1>1. S \in SUBSET (1..m) /\ S \in SUBSET Nat /\ S \subseteq visible /\ \A n \in S : n > from
  <2>1. S \subseteq visible /\ \A n \in S : n > from
    OBVIOUS
  <2> HIDE DEF S
  <2>2. 1..m \subseteq Nat
    OBVIOUS
  <2> QED
    BY <2>1, <2>2
<1>2. IsFiniteSet(S)
  BY <1>1, Counting, FS_Subset
<1>o. \A n \in visible : n > from => n \in S
  OBVIOUS
<1> HIDE DEF S
<1>3. /\ f \in Seq(S) /\ N \in Nat /\ f \in [1..N -> S]
      /\ IsAscending(f) /\ ToSet(f) = S
  BY <1>1, <1>2, AscendingOrders
<1> HIDE DEF f
<1>4. k \in Nat /\ k <= N /\ k <= limit /\ (k < N => k = limit)
  <2>1. N \in Nat /\ limit \in Nat
    BY <1>3
  <2>2. CASE N < limit
    BY <2>1, <2>2
  <2>3. CASE ~(N < limit)
    BY <2>1, <2>3
  <2> QED
    BY <2>2, <2>3
<1> HIDE DEF k
<1>5. /\ batch \in Seq(S) /\ Len(batch) = k
      /\ \A i \in 1..k : batch[i] = f[i]
  <2>1. 1 \in Int /\ k \in Int /\ \A i \in 1..k : f[i] \in S
    BY <1>3, <1>4
  <2>2. /\ SubSeq(f, 1, k) \in Seq(S)
        /\ Len(SubSeq(f, 1, k)) = IF 1 <= k THEN k - 1 + 1 ELSE 0
        /\ \A i \in 1..(k - 1 + 1) : SubSeq(f, 1, k)[i] = f[1 + i - 1]
    BY <2>1, SubSeqProperties
  <2> QED
    BY <2>2, <1>4
<1> HIDE DEF batch
<1>6. DOMAIN batch = 1..k
  BY <1>5
<1>7. ToSet(batch) = {f[i] : i \in 1..k}
  BY <1>5, <1>6 DEF ToSet
<1>8. ToSet(f) = {f[i] : i \in 1..N}
  BY <1>3 DEF ToSet
<1>9. IsAscending(batch)
  BY <1>3, <1>4, <1>5 DEF IsAscending
<1>10. ToSet(batch) \subseteq S
  BY <1>3, <1>4, <1>7, <1>8
<1>11. ASSUME NEW n \in visible \ ToSet(batch), n > from
       PROVE  k = limit /\ \A e \in ToSet(batch) : n > e
  <2>1. PICK i \in 1..N : n = f[i]
    BY <1>11, <1>o, <1>3, <1>8
  <2>2. i > k
    BY <2>1, <1>11, <1>4, <1>7
  <2>3. \A j \in 1..k : f[j] < f[i]
    BY <2>1, <2>2, <1>3, <1>4 DEF IsAscending
  <2>4. k < N
    BY <2>1, <2>2, <1>3, <1>4
  <2>5. \A j \in 1..k : f[j] \in Nat /\ f[i] \in Nat
    <3>1. \A j \in 1..N : f[j] \in Nat
      BY <1>1, <1>3
    <3>2. \A j \in 1..k : j \in 1..N
      BY <1>3, <1>4
    <3> QED
      BY <2>1, <3>1, <3>2
  <2> QED
    BY <2>1, <2>3, <2>4, <2>5, <1>4, <1>7
<1>12. batch \in Seq(visible)
  BY <1>1, <1>5, WiderSeq
<1>13. LoadAllEvents(from, limit) = batch
  BY DEF LoadAllEvents, batch, k, f, S
<1>14. Len(batch) \in 0..limit
  BY <1>4, <1>5
<1>15. \A e \in ToSet(batch) : e > from
  BY <1>10, <1>1
<1> QED
  BY <1>5, <1>9, <1>11, <1>12, <1>13, <1>14, <1>15

-----------------------------------------------------------------------------
(* The actions *)

LEMMA Bounds ==
    ASSUME IInv
    PROVE  /\ drawn \in Nat /\ drawn <= MaxSequence
           /\ visible \subseteq 1..drawn /\ visible \in SUBSET Nat
           /\ handled \in SUBSET Nat /\ IsFiniteSet(handled)
           /\ ToSet(processed) \subseteq visible /\ ToSet(events) \subseteq visible
<1>1. drawn \in Nat /\ drawn <= MaxSequence /\ visible \subseteq 1..drawn
  BY ProjectionAssumption DEF IInv, TypeOK
<1>2. visible \in SUBSET Nat
  BY <1>1
<1>3. handled \in SUBSET (1..drawn)
  BY <1>1 DEF IInv, TypeOK
<1>4. IsFiniteSet(handled)
  BY <1>1, <1>3, Counting, FS_Subset
<1>5. ToSet(processed) \subseteq visible /\ ToSet(events) \subseteq visible
  BY DEF IInv, TypeOK, ToSet
<1> QED
  BY <1>1, <1>2, <1>3, <1>4, <1>5

LEMMA InsertInv == ASSUME IInv, Insert PROVE IInv'
<1>1. /\ drawn \in Nat /\ drawn' \in 0..MaxSequence
      /\ 1..drawn \subseteq 1..drawn'
  BY Bounds, ProjectionAssumption DEF Insert
<1>2. TypeOK'
  BY <1>1 DEF IInv, TypeOK, Insert
<1> QED
  BY <1>2 DEF IInv, Insert, Reached, InBatch, Complete

LEMMA EndTransactionInv == ASSUME IInv, EndTransaction PROVE IInv'
<1>1. PICK n \in 1..drawn :
          \/ visible' = visible \cup {n} /\ UNCHANGED wasted
          \/ wasted' = wasted \cup {n} /\ UNCHANGED visible
  BY DEF EndTransaction
<1>2. visible \subseteq visible' /\ visible' \subseteq 1..drawn /\ wasted' \subseteq 1..drawn
  BY <1>1 DEF IInv, TypeOK
<1>3. events \in Seq(visible') /\ processed \in Seq(visible')
  BY <1>2, WiderSeq DEF IInv, TypeOK
<1>4. UNCHANGED <<numeric, drawn, pc, lastSequence, prevSequence, fetched, events,
                  since, atCall, processed, handled, runs>>
  BY DEF EndTransaction
<1>5. TypeOK'
  BY <1>2, <1>3, <1>4 DEF IInv, TypeOK
<1> QED
  BY <1>3, <1>4, <1>5 DEF IInv, Reached, InBatch, Complete

LEMMA CallInv == ASSUME IInv, Call PROVE IInv'
<1>1. PICK from \in {0, Highest(handled)} :
          since' = from /\ lastSequence' = from /\ prevSequence' = from
  BY DEF Call
<1>2. from \in Nat
  BY <1>1, Bounds, HighestIsThere
<1>3. /\ pc' = "load" /\ atCall' = visible /\ processed' = <<>> /\ events' = <<>> /\ fetched' = 0
      /\ runs' = runs + 1 /\ runs < MaxRuns
      /\ UNCHANGED <<table, handled>>
  BY DEF Call
<1>4. <<>> \in Seq(visible) /\ Len(<<>>) = 0 /\ ToSet(<<>>) = {} /\ IsAscending(<<>>)
  BY NoneYet
<1>5. runs' \in 0..MaxRuns
  BY <1>3, ProjectionAssumption DEF IInv, TypeOK
<1>6. fetched' \in 0..BatchSize
  BY <1>3, ProjectionAssumption
<1>7. TypeOK'
  <2>1. Len(events)' <= fetched'
    BY <1>3, <1>4
  <2> QED
    BY <2>1, <1>1, <1>3, <1>4, <1>5, <1>6 DEF IInv, TypeOK, table
<1>8. Reached' /\ InBatch' /\ Complete'
  BY <1>1, <1>3, <1>4 DEF Reached, InBatch, Complete
<1> QED
  BY <1>1, <1>2, <1>3, <1>4, <1>7, <1>8 DEF IInv, table

LEMMA LoadBatchInv == ASSUME IInv, LoadBatch PROVE IInv'
<1> DEFINE batch == LoadAllEvents(lastSequence, BatchSize)
<1>1. /\ pc = "load" /\ events' = batch /\ fetched' = Len(batch)
      /\ pc' = IF batch = <<>> THEN "returned" ELSE "handle"
      /\ prevSequence' = lastSequence
      /\ UNCHANGED <<table, lastSequence, since, atCall, processed, handled, runs>>
  BY DEF LoadBatch
<1>2. /\ batch \in Seq(visible) /\ Len(batch) \in 0..BatchSize
      /\ IsAscending(batch)
      /\ \A e \in ToSet(batch) : e > lastSequence
      /\ \A n \in visible \ ToSet(batch) :
            n > lastSequence => Len(batch) = BatchSize /\ \A e \in ToSet(batch) : n > e
  <2>1. lastSequence \in Nat /\ drawn \in Nat /\ visible \subseteq 1..drawn
    BY Bounds DEF IInv
  <2> QED
    BY <2>1, ProjectionAssumption, LoadedEvents
<1> HIDE DEF batch
<1>3. /\ numeric' = numeric /\ visible' = visible /\ drawn' = drawn /\ wasted' = wasted
  BY <1>1 DEF table
<1>4. Len(batch) \in Nat /\ batch # <<>> => Len(batch) # 0
  BY <1>2
<1>5. TypeOK'
  BY <1>1, <1>2, <1>3 DEF IInv, TypeOK
<1>6. /\ \A p \in ToSet(processed) : p <= lastSequence /\ p \in Nat
      /\ lastSequence >= since /\ lastSequence \in Nat /\ since \in Nat
      /\ ToSet(batch) \subseteq Nat
  <2>1. /\ ToSet(processed) \subseteq Nat /\ ToSet(batch) \subseteq Nat
        /\ lastSequence \in Nat /\ since \in Nat
    BY <1>2, Bounds DEF IInv, ToSet
  <2>2. \A p \in ToSet(processed) : p <= lastSequence
    BY <1>1, NoneYet DEF IInv, Reached
  <2>3. lastSequence >= since
    <3>1. lastSequence = since \/ lastSequence \in ToSet(processed)
      BY DEF IInv, TypeOK
    <3>2. lastSequence \in ToSet(processed) => lastSequence > since
      BY DEF IInv, Reached
    <3> QED
      BY <3>1, <3>2, <2>1
  <2> QED
    BY <2>1, <2>2, <2>3
<1>7. Reached'
  BY <1>1, <1>3 DEF IInv, Reached
<1>8. InBatch'
  <2>1. ASSUME NEW e \in ToSet(batch)
        PROVE  e > lastSequence /\ e > since /\ \A p \in ToSet(processed) : p < e
    BY <2>1, <1>2, <1>6
  <2> QED
    BY <2>1, <1>1, <1>2 DEF InBatch
<1>9. Complete'
  <2> SUFFICES ASSUME numeric, NEW n \in atCall \ ToSet(processed), n > since
               PROVE  /\ pc' # "returned"
                      /\ pc' = "load" => n > lastSequence
                      /\ pc' = "handle" /\ n \notin ToSet(batch) =>
                            /\ Len(batch) = BatchSize
                            /\ n > lastSequence
                            /\ \A e \in ToSet(batch) : n > e
    BY <1>1, <1>3 DEF Complete
  <2>1. n > lastSequence /\ n \in visible
    BY <1>1 DEF IInv, Complete, TypeOK
  <2>2. n \notin ToSet(batch) => Len(batch) = BatchSize /\ \A e \in ToSet(batch) : n > e
    BY <2>1, <1>2
  <2>3. batch # <<>>
    BY <2>2, NoneYet, ProjectionAssumption
  <2> QED
    BY <2>1, <2>2, <2>3, <1>1
<1> QED
  BY <1>1, <1>3, <1>5, <1>7, <1>8, <1>9 DEF IInv

\* The handler has e: e is done, and the others of the batch are above it.
LEMMA HandleInv == ASSUME IInv, Handle PROVE IInv'
<1> DEFINE others == Tail(events)
           done == Append(processed, Head(events))
<1>1. /\ pc = "handle" /\ events # <<>> /\ events' = others
      /\ processed' = IF Len(processed) < MaxSequence THEN done ELSE processed
      /\ handled' = handled \cup {Head(events)}
      /\ lastSequence' = IF numeric THEN Head(events) ELSE lastSequence
      /\ UNCHANGED <<table, pc, prevSequence, fetched, since, atCall, runs>>
  BY DEF Handle, Advance
<1>2. /\ numeric' = numeric /\ visible' = visible /\ drawn' = drawn /\ wasted' = wasted
      /\ pc' = pc /\ prevSequence' = prevSequence /\ fetched' = fetched /\ since' = since
      /\ atCall' = atCall /\ runs' = runs
  BY <1>1 DEF table
<1>b. /\ drawn \in Nat /\ drawn <= MaxSequence
      /\ visible \subseteq 1..drawn /\ visible \in SUBSET Nat
      /\ ToSet(processed) \subseteq visible /\ ToSet(events) \subseteq visible
      /\ MaxSequence \in Nat
  BY Bounds, ProjectionAssumption
<1>t. /\ events \in Seq(visible) /\ IsAscending(events)
      /\ processed \in Seq(visible) /\ IsAscending(processed)
      /\ lastSequence \in Nat /\ since \in Nat /\ prevSequence \in Nat
  BY DEF IInv, TypeOK, InBatch
<1>3. PICK e \in visible : e = Head(events)
  BY <1>b, <1>t, <1>1, FirstAndRest
<1>4. /\ others \in Seq(visible) /\ Len(others) <= Len(events) /\ IsAscending(others)
      /\ ToSet(events) = {e} \cup ToSet(others)
      /\ \A x \in ToSet(others) : e < x
  BY <1>b, <1>t, <1>1, <1>3, FirstAndRest
<1>5. /\ e > prevSequence /\ e > since
      /\ \A p \in ToSet(processed) : p < e
      /\ \A x \in ToSet(others) :
            /\ x > prevSequence /\ x > since
            /\ \A p \in ToSet(processed) : p < x
  BY <1>4 DEF IInv, InBatch
<1>6. /\ done \in Seq(visible) /\ Len(done) = Len(processed) + 1
      /\ IsAscending(done) /\ ToSet(done) = ToSet(processed) \cup {e}
  BY <1>b, <1>t, <1>3, <1>5, OneMore
<1>7. Len(processed) < MaxSequence
  <2>1. done \in Seq(1..drawn)
    BY <1>6, <1>b, WiderSeq
  <2> HIDE DEF done
  <2>2. Len(done) <= drawn
    BY <2>1, <1>6, <1>b, FitsIn
  <2>3. Len(processed) \in Nat
    BY <1>t
  <2> QED
    BY <2>2, <2>3, <1>6, <1>b
<1>8. processed' = done /\ lastSequence' = (IF numeric THEN e ELSE lastSequence)
  BY <1>1, <1>3, <1>7
<1> HIDE DEF done, others
<1>n. e \in Nat /\ Len(events) \in Nat /\ Len(others) \in Nat
  BY <1>3, <1>4, <1>b, <1>t
<1>9. TypeOK'
  <2>1. Len(others) <= fetched
    BY <1>4, <1>n DEF IInv, TypeOK
  <2>2. handled' \subseteq visible
    BY <1>1, <1>3 DEF IInv, TypeOK
  <2>3. lastSequence' \in {since} \cup ToSet(done)
    BY <1>6, <1>8 DEF IInv, TypeOK
  <2> QED
    BY <2>1, <2>2, <2>3, <1>1, <1>2, <1>4, <1>8 DEF IInv, TypeOK
<1>10. Reached'
  <2>1. \A p \in ToSet(done) : p > since
    BY <1>5, <1>6 DEF IInv, Reached
  <2>2. CASE numeric
    <3>1. \A p \in ToSet(done) : p <= e
      <4>1. \A p \in ToSet(processed) : p \in Nat /\ p < e
        BY <1>5, <1>b
      <4>2. \A p \in ToSet(processed) : p <= e
        BY <4>1, <1>n
      <4>3. e <= e
        BY <1>n
      <4> QED
        BY <4>2, <4>3, <1>6
    <3> QED
      BY <2>1, <2>2, <3>1, <1>2, <1>8 DEF Reached
  <2>3. CASE ~numeric
    BY <2>1, <2>3, <1>1, <1>2, <1>8 DEF IInv, Reached
  <2> QED
    BY <2>2, <2>3
<1>11. InBatch'
  <2>1. \A x \in ToSet(others) :
            x > prevSequence /\ x > since /\ \A p \in ToSet(done) : p < x
    BY <1>4, <1>5, <1>6
  <2> QED
    BY <2>1, <1>1, <1>2, <1>4, <1>5, <1>8 DEF InBatch
<1>12. Complete'
  <2> SUFFICES ASSUME numeric, NEW n \in atCall \ ToSet(done), n > since,
                      n \notin ToSet(others)
               PROVE  fetched = BatchSize /\ n > e /\ \A x \in ToSet(others) : n > x
    BY <1>1, <1>2, <1>8 DEF Complete
  <2>1. n \notin ToSet(processed) /\ n \notin ToSet(events)
    BY <1>4, <1>6
  <2>2. fetched = BatchSize /\ \A x \in ToSet(events) : n > x
    BY <2>1, <1>1 DEF IInv, Complete
  <2> QED
    BY <2>2, <1>4
<1> QED
  BY <1>1, <1>2, <1>6, <1>8, <1>9, <1>10, <1>11, <1>12, <1>n, <1>t DEF IInv

LEMMA HandlerThrowsInv == ASSUME IInv, HandlerThrows PROVE IInv'
<1>1. /\ pc' = "threw" /\ events' = <<>>
      /\ UNCHANGED <<table, lastSequence, prevSequence, fetched, since,
                     atCall, processed, handled, runs>>
  BY DEF HandlerThrows
<1>2. <<>> \in Seq(visible) /\ Len(<<>>) = 0 /\ ToSet(<<>>) = {} /\ IsAscending(<<>>)
  BY NoneYet
<1>3. TypeOK'
  <2>1. Len(events)' <= fetched'
    BY <1>1, <1>2 DEF IInv, TypeOK
  <2> QED
    BY <2>1, <1>1, <1>2 DEF IInv, TypeOK, table
<1>4. Reached' /\ InBatch' /\ Complete'
  BY <1>1, <1>2 DEF IInv, table, Reached, InBatch, Complete
<1> QED
  BY <1>1, <1>3, <1>4 DEF IInv, table

\* With numbers the watermark has moved past the batch, so the loop stops only at one
\* that was not full.
LEMMA BatchDoneInv == ASSUME IInv, BatchDone PROVE IInv'
<1>1. /\ pc = "handle" /\ events = <<>> /\ ToSet(events) = {}
      /\ pc' = IF Stops THEN "returned" ELSE "load"
      /\ UNCHANGED <<table, lastSequence, prevSequence, fetched, events, since,
                     atCall, processed, handled, runs>>
  BY NoneYet DEF BatchDone
<1>2. numeric' = numeric /\ visible' = visible /\ drawn' = drawn /\ wasted' = wasted
  BY <1>1 DEF table
<1>3. TypeOK'
  BY <1>1, <1>2 DEF IInv, TypeOK
<1>4. ~numeric => Stops
  BY <1>1, ProjectionAssumption DEF IInv, TypeOK, Reached, Stops
<1>5. numeric /\ Stops => fetched < BatchSize
  BY <1>1 DEF IInv, InBatch, Stops
<1>6. Reached'
  BY <1>1, <1>2, <1>4 DEF IInv, Reached
<1>7. InBatch'
  BY <1>1, <1>2 DEF IInv, InBatch
<1>8. Complete'
  BY <1>1, <1>2, <1>5, ProjectionAssumption DEF IInv, TypeOK, Complete
<1> QED
  BY <1>1, <1>2, <1>3, <1>6, <1>7, <1>8 DEF IInv

-----------------------------------------------------------------------------
(* The theorems *)

LEMMA InitIInv == Init => IInv
<1> SUFFICES ASSUME Init PROVE IInv
  OBVIOUS
<1>1. events \in Seq(visible) /\ processed \in Seq(visible)
  BY DEF Init
<1>2. /\ Len(events) = 0 /\ ToSet(events) = {} /\ IsAscending(events)
      /\ ToSet(processed) = {} /\ IsAscending(processed)
  BY NoneYet DEF Init
<1>3. TypeOK
  BY <1>1, <1>2, ProjectionAssumption DEF Init, TypeOK
<1> QED
  BY <1>1, <1>2, <1>3, ProjectionAssumption DEF Init, IInv, Reached, InBatch, Complete

LEMMA NextIInv == IInv /\ [Next]_vars => IInv'
<1>1. ASSUME IInv, UNCHANGED vars PROVE IInv'
  BY <1>1 DEF vars, IInv, TypeOK, Reached, InBatch, Complete
<1> QED
  BY <1>1, InsertInv, EndTransactionInv, CallInv, LoadBatchInv, HandleInv, HandlerThrowsInv,
     BatchDoneInv DEF Next

\* What a call has handled and where the rest is, whatever commits between its
\* batches and in whatever order: the inductive invariant.
THEOREM Invariance == Spec => []IInv
  BY InitIInv, NextIInv, PTL DEF Spec

\* The variables keep their types, and the loop's position is its start or an
\* event it has handled.
THEOREM TypeCorrect == Spec => []TypeOK
<1>1. IInv => TypeOK
  BY DEF IInv
<1> QED
  BY <1>1, Invariance, PTL

\* A call hands every event to its handler at most once and in order; and if the
\* driver returns numbers, one that returns has handled every event after its start
\* that was in the store when it was made.
THEOREM EveryEventIsHandledOnce == Spec => []EveryEventOnce
<1>1. IInv => OncePerCall
  <2>1. IInv => DOMAIN processed = 1..Len(processed)
    BY DEF IInv
  <2> QED
    BY <2>1 DEF IInv, IsAscending, OncePerCall
<1>2. IInv => CompleteAtReturn
  BY DEF IInv, Complete, CompleteAtReturn
<1>3. IInv => EveryEventOnce
  BY <1>1, <1>2 DEF IInv, EveryEventOnce
<1> QED
  BY <1>3, Invariance, PTL
-----------------------------------------------------------------------------
(* Aggregates from their snapshots *)

SnapshotsSpec == SnapshotsInit /\ [][SnapshotsNext]_snapshotVars

SnapshotRows == [version : Nat, state : Seq(Nat)]

Holders == [step : {"none", "snapshot", "loaded", "over"}, state : Seq(Nat), covers : Nat,
            version : Nat, since : Nat, refused : BOOLEAN]

\* What a rehydrator has got covers a prefix of the stream, and its version is that
\* of the last event, if it has loaded one.
Prefix(x) ==
    /\ x.state = FirstEvents(x.covers)
    /\ x.covers <= length /\ x.since <= length
    /\ x.version \in {0, x.covers}
    /\ x.refused => x.step = "over" /\ (x.covers < length \/ x.version = 0)
    /\ x.step \in {"loaded", "over"} => x.covers >= x.since

SInv ==
    /\ length \in Nat /\ rehydrations \in Nat
    /\ \A row \in snapshot : row \in SnapshotRows /\ row.version <= length
                                                  /\ row.state = FirstEvents(row.version)
    /\ holder \in [Rehydrators -> Holders]
    /\ \A h \in Rehydrators : Prefix(holder[h])

LEMMA FirstEventsAre ==
    ASSUME NEW n \in Nat
    PROVE  /\ FirstEvents(n) \in Seq(Nat) /\ Len(FirstEvents(n)) = n
           /\ \A i \in 1..n : FirstEvents(n)[i] = i
BY DEF FirstEvents

LEMMA NoEvents == FirstEvents(0) = <<>>
<1>1. FirstEvents(0) \in Seq(Nat) /\ Len(FirstEvents(0)) = 0  BY FirstEventsAre
<1>. QED  BY <1>1, EmptySeq

LEMMA Counted ==
    ASSUME NEW n \in Nat, NEW l \in Nat, n <= l
    PROVE  [i \in 1..n |-> i] \o [i \in 1..(l - n) |-> n + i] = [i \in 1..l |-> i]
OBVIOUS

\* The events from the one behind a prefix complete the stream.
LEMMA EventsComplete ==
    ASSUME NEW n \in Nat, length \in Nat, n <= length
    PROVE  /\ EventsFrom(n + 1) \in Seq(Nat) /\ Len(EventsFrom(n + 1)) = length - n
           /\ FirstEvents(n) \o EventsFrom(n + 1) = FirstEvents(length)
           /\ EventsFrom(n + 1) # <<>> => Last(EventsFrom(n + 1)) = length
<1>1. length + 1 - (n + 1) = length - n /\ length - n \in Nat  OBVIOUS
<1>2. EventsFrom(n + 1) = [i \in 1..(length - n) |-> n + i]
  <2>1. \A i \in 1..(length - n) : n + 1 + i - 1 = n + i  OBVIOUS
  <2>. QED  BY <1>1, <2>1 DEF EventsFrom
<1>3. FirstEvents(n) \o EventsFrom(n + 1) = FirstEvents(length)
  BY <1>2, Counted DEF FirstEvents
<1>. DEFINE tail == EventsFrom(n + 1)
<1>4. /\ tail \in Seq(Nat) /\ Len(tail) = length - n
      /\ \A i \in 1..(length - n) : tail[i] = n + i
  BY <1>1, <1>2
<1>. HIDE DEF tail
<1>5. tail # <<>> => Last(tail) = length
  <2>1. Len(tail) = 0 => tail = <<>>  BY <1>4, EmptySeq
  <2>2. tail # <<>> => length - n \in 1..(length - n)  BY <1>1, <1>4, <2>1
  <2>3. tail # <<>> => tail[length - n] = n + (length - n)  BY <1>4, <2>2
  <2>. QED  BY <1>4, <2>3 DEF Last
<1>. QED  BY <1>3, <1>4, <1>5 DEF tail

\* What h has after it has loaded the snapshot, and then the history.
LEMMA CoversChanged ==
    ASSUME NEW x \in Holders, NEW c \in Nat
    PROVE  LET y == [x EXCEPT !.covers = c] IN
           /\ y \in Holders /\ y.step = x.step /\ y.state = x.state /\ y.covers = c
           /\ y.version = x.version /\ y.since = x.since /\ y.refused = x.refused
BY DEF Holders

LEMMA HistoryLoaded ==
    ASSUME NEW x \in Holders, NEW s \in Seq(Nat), NEW c \in Nat, NEW v \in Nat
    PROVE  LET y == [x EXCEPT !.step = "loaded", !.state = s, !.covers = c, !.version = v] IN
           /\ y \in Holders /\ y.step = "loaded" /\ y.state = s /\ y.covers = c
           /\ y.version = v /\ y.since = x.since /\ y.refused = x.refused
BY DEF Holders

\* A step that changes at most what h has, and the row, keeps the invariant.
LEMMA HolderKeeps ==
    ASSUME SInv, NEW h \in Rehydrators, NEW x \in Holders, Prefix(x),
           holder' = [holder EXCEPT ![h] = x], rehydrations' \in Nat,
           UNCHANGED <<length, snapshot>>
    PROVE  SInv'
<1>1. holder' \in [Rehydrators -> Holders]  BY DEF SInv
<1>2. ASSUME NEW g \in Rehydrators PROVE Prefix(holder[g])'
  <2>1. holder'[g] = IF g = h THEN x ELSE holder[g]  BY DEF SInv
  <2>. QED  BY <2>1 DEF SInv, Prefix
<1>. QED  BY <1>1, <1>2 DEF SInv

\* A longer stream keeps it too.
LEMMA LongerKeeps ==
    ASSUME SInv, length' = length + 1, UNCHANGED <<snapshot, rehydrations>>,
           \/ UNCHANGED holder
           \/ \E h \in Rehydrators : holder' = [holder EXCEPT ![h] = Nothing]
    PROVE  SInv'
<1>1. length' \in Nat /\ length <= length'  BY DEF SInv
<1>2. Nothing \in Holders /\ Nothing.covers = 0 /\ Nothing.since = 0 /\ Nothing.version = 0
      /\ Nothing.state = FirstEvents(0) /\ ~Nothing.refused /\ Nothing.step = "none"
  BY NoEvents DEF Nothing, Holding, Holders
<1>3. holder' \in [Rehydrators -> Holders]  BY <1>2 DEF SInv
<1>4. ASSUME NEW g \in Rehydrators PROVE Prefix(holder[g])'
  <2>1. holder'[g] = Nothing \/ holder'[g] = holder[g]  BY DEF SInv
  <2>2. CASE holder'[g] = Nothing
    <3>. HIDE DEF Nothing
    <3>. QED  BY <1>1, <1>2, <2>2 DEF Prefix
  <2>3. CASE holder'[g] = holder[g]
    <3>1. holder[g] \in Holders /\ Prefix(holder[g])  BY DEF SInv
    <3>2. holder[g].covers \in Nat /\ holder[g].since \in Nat  BY <3>1 DEF Holders
    <3>. QED  BY <1>1, <2>3, <3>1, <3>2 DEF Prefix, SInv
  <2>. QED  BY <2>1, <2>2, <2>3
<1>5. \A row \in snapshot' : row \in SnapshotRows /\ row.version <= length'
                                                  /\ row.state = FirstEvents(row.version)
  BY <1>1 DEF SInv, SnapshotRows
<1>. QED  BY <1>1, <1>3, <1>4, <1>5 DEF SInv

LEMMA InitSInv == SnapshotsInit => SInv
<1>. SUFFICES ASSUME NEW n \in 0..1, SnapshotsStart(n) PROVE SInv  BY DEF SnapshotsInit
<1>1. Nothing \in Holders /\ Nothing.covers = 0 /\ Nothing.since = 0 /\ Nothing.version = 0
      /\ Nothing.state = FirstEvents(0) /\ ~Nothing.refused /\ Nothing.step = "none"
  BY NoEvents DEF Nothing, Holding, Holders
<1>. HIDE DEF Nothing
<1>. QED  BY <1>1 DEF SnapshotsStart, SInv, Prefix

LEMMA LoadSnapshotKeeps ==
    ASSUME SInv, NEW h \in Rehydrators, LoadSnapshot(h)
    PROVE  SInv'
<1>1. rehydrations' \in Nat /\ UNCHANGED <<length, snapshot>> /\ length \in Nat
  BY DEF LoadSnapshot, SInv
<1>2. CASE holder' = [holder EXCEPT ![h] = Holding("snapshot", <<>>, length)]
  <2>. DEFINE x == Holding("snapshot", <<>>, length)
  <2>1. x \in Holders /\ x.covers = 0 /\ x.since = length /\ x.version = 0 /\ ~x.refused
        /\ x.state = FirstEvents(0) /\ x.step = "snapshot"
    BY <1>1, NoEvents DEF Holding, Holders
  <2>. HIDE DEF x
  <2>2. Prefix(x)  BY <1>1, <2>1 DEF Prefix
  <2>3. holder' = [holder EXCEPT ![h] = x]  BY <1>2 DEF x
  <2>. QED  BY <1>1, <2>1, <2>2, <2>3, HolderKeeps
<1>3. ASSUME NEW row \in snapshot,
             holder' = [holder EXCEPT ![h] = [Holding("snapshot", row.state, length)
                                                 EXCEPT !.covers = row.version]]
      PROVE  SInv'
  <2>. DEFINE z == Holding("snapshot", row.state, length)
              x == [z EXCEPT !.covers = row.version]
  <2>1. row.version \in Nat /\ row.state \in Seq(Nat) /\ row.version <= length
        /\ row.state = FirstEvents(row.version)
    BY DEF SInv, SnapshotRows
  <2>2. z \in Holders /\ z.state = row.state /\ z.since = length /\ z.version = 0 /\ ~z.refused
        /\ z.step = "snapshot"
    BY <1>1, <2>1 DEF Holding, Holders
  <2>3. holder' = [holder EXCEPT ![h] = x]  BY <1>3
  <2>. HIDE DEF z
  <2>4. /\ x \in Holders /\ x.step = z.step /\ x.state = z.state /\ x.covers = row.version
        /\ x.version = z.version /\ x.since = z.since /\ x.refused = z.refused
    BY <2>1, <2>2, CoversChanged
  <2>. HIDE DEF x
  <2>5. Prefix(x)  BY <1>1, <2>1, <2>2, <2>4 DEF Prefix
  <2>. QED  BY <1>1, <2>3, <2>4, <2>5, HolderKeeps
<1>. QED  BY <1>2, <1>3 DEF LoadSnapshot

LEMMA LoadHistoryKeeps ==
    ASSUME SInv, NEW h \in Rehydrators, LoadHistory(h)
    PROVE  SInv'
<1>. DEFINE x == holder[h]
            tail == EventsFrom(x.covers + 1)
            s == x.state \o tail
            c == x.covers + Len(tail)
            v == IF tail = <<>> THEN 0 ELSE Last(tail)
            y == [x EXCEPT !.step = "loaded", !.state = s, !.covers = c, !.version = v]
<1>1. x \in Holders /\ Prefix(x) /\ x.step = "snapshot" /\ length \in Nat /\ rehydrations \in Nat
  BY DEF LoadHistory, SInv
<1>2. /\ x.covers \in Nat /\ x.since \in Nat /\ x.refused \in BOOLEAN /\ x.covers <= length
      /\ x.state = FirstEvents(x.covers) /\ x.since <= length /\ ~x.refused
  BY <1>1 DEF Holders, Prefix
<1>3. /\ tail \in Seq(Nat) /\ Len(tail) = length - x.covers
      /\ s = FirstEvents(length)
      /\ tail # <<>> => Last(tail) = length
  BY <1>1, <1>2, EventsComplete
<1>4. FirstEvents(length) \in Seq(Nat)  BY <1>1, FirstEventsAre
<1>5. /\ holder \in [Rehydrators -> Holders]
      /\ holder' = [holder EXCEPT ![h].step = "loaded", ![h].state = s, ![h].covers = c,
                                  ![h].version = v]
  BY DEF LoadHistory, SInv
<1>6. rehydrations' \in Nat /\ UNCHANGED <<length, snapshot>>  BY <1>1 DEF LoadHistory
<1>. HIDE DEF tail
<1>7. s \in Seq(Nat) /\ c = length /\ v \in {0, length}
  <2>1. s \in Seq(Nat)  BY <1>3, <1>4
  <2>2. c = length  BY <1>1, <1>2, <1>3
  <2>3. v \in {0, length}
    <3>. HIDE DEF s, c
    <3>. QED  BY <1>3
  <2>. QED  BY <2>1, <2>2, <2>3
<1>. HIDE DEF s, c, v
<1>8. holder' = [holder EXCEPT ![h] = y]  BY <1>5
<1>. HIDE DEF x
<1>9. c \in Nat /\ v \in Nat  BY <1>1, <1>7
<1>10. /\ y \in Holders /\ y.step = "loaded" /\ y.state = s /\ y.covers = c
       /\ y.version = v /\ y.since = x.since /\ y.refused = x.refused
  BY <1>1, <1>7, <1>9 DEF Holders
<1>. HIDE DEF y
<1>11. Prefix(y)  BY <1>1, <1>2, <1>3, <1>7, <1>10 DEF Prefix
<1>. QED  BY <1>6, <1>8, <1>10, <1>11, HolderKeeps

LEMMA AppendKeeps ==
    ASSUME SInv, NEW h \in Rehydrators, AppendFrom(h)
    PROVE  SInv'
<1>. DEFINE x == holder[h]
            y == [step |-> "over", state |-> x.state, covers |-> x.covers, version |-> x.version,
                  since |-> x.since, refused |-> TRUE]
<1>1. /\ x \in Holders /\ Prefix(x) /\ x.step = "loaded" /\ UNCHANGED <<snapshot, rehydrations>>
      /\ rehydrations \in Nat /\ length \in Nat
  BY DEF AppendFrom, SInv
<1>2. CASE x.version = length
  BY <1>1, <1>2, LongerKeeps DEF AppendFrom
<1>3. CASE x.version # length
  <2>1. x = [step |-> x.step, state |-> x.state, covers |-> x.covers, version |-> x.version,
             since |-> x.since, refused |-> x.refused]
        /\ x.covers \in Nat
    BY <1>1 DEF Holders
  <2>2. length' = length /\ holder' = [holder EXCEPT ![h] = y]
    BY <1>1, <1>3, <2>1 DEF AppendFrom, SInv
  <2>3. y \in Holders  BY <1>1 DEF Holders
  <2>4. Prefix(y)  BY <1>1, <1>3, <2>1 DEF Prefix
  <2>. HIDE DEF x, y
  <2>. QED  BY <1>1, <2>2, <2>3, <2>4, HolderKeeps
<1>. QED  BY <1>2, <1>3

LEMMA LetGoKeeps ==
    ASSUME SInv, NEW h \in Rehydrators, LetGo(h)
    PROVE  SInv'
<1>1. Nothing \in Holders /\ Nothing.covers = 0 /\ Nothing.since = 0 /\ Nothing.version = 0
      /\ Nothing.state = FirstEvents(0) /\ ~Nothing.refused /\ Nothing.step = "none"
  BY NoEvents DEF Nothing, Holding, Holders
<1>2. /\ holder' = [holder EXCEPT ![h] = Nothing] /\ UNCHANGED <<length, snapshot>>
      /\ rehydrations' \in Nat /\ length \in Nat
  BY DEF LetGo, SInv
<1>. HIDE DEF Nothing
<1>3. Prefix(Nothing)  BY <1>1, <1>2 DEF Prefix
<1>. QED  BY <1>1, <1>2, <1>3, HolderKeeps

LEMMA NextSInv == SInv /\ [SnapshotsNext]_snapshotVars => SInv'
<1>. SUFFICES ASSUME SInv, [SnapshotsNext]_snapshotVars PROVE SInv'  OBVIOUS
<1>1. CASE UNCHANGED snapshotVars  BY <1>1 DEF snapshotVars, SInv, Prefix
<1>2. CASE DeleteSnapshot  BY <1>2 DEF DeleteSnapshot, SInv, Prefix
<1>3. CASE StoreEvent  BY <1>3, LongerKeeps DEF StoreEvent
<1>4. ASSUME NEW h \in Rehydrators, SaveSnapshot(h) PROVE SInv'
  <2>1. /\ holder[h] \in Holders /\ Prefix(holder[h])
        /\ snapshot' = {[version |-> holder[h].covers, state |-> holder[h].state]}
        /\ UNCHANGED <<length, holder, rehydrations>>
    BY <1>4 DEF SaveSnapshot, SInv
  <2>2. holder[h].covers \in Nat /\ holder[h].state \in Seq(Nat)
    BY <2>1 DEF Holders
  <2>3. \A row \in snapshot' : row \in SnapshotRows /\ row.version <= length'
                                                    /\ row.state = FirstEvents(row.version)
    BY <2>1, <2>2 DEF Prefix, SnapshotRows
  <2>. QED  BY <2>1, <2>3 DEF SInv, Prefix
<1>5. ASSUME NEW h \in Rehydrators,
             LoadSnapshot(h) \/ LoadHistory(h) \/ AppendFrom(h) \/ LetGo(h)
      PROVE  SInv'
  BY <1>5, LoadSnapshotKeeps, LoadHistoryKeeps, AppendKeeps, LetGoKeeps
<1>. QED  BY <1>1, <1>2, <1>3, <1>4, <1>5 DEF SnapshotsNext

LEMMA SInvHolds == SInv => SnapshotsHold
BY DEF SInv, SnapshotsHold, Prefix

\* An aggregate that comes from a snapshot has applied a prefix of the stream, every
\* event once, for any number of others that append, save and delete beside it.
THEOREM AggregatesFromSnapshots == SnapshotsSpec => []SnapshotsHold
<1>1. SnapshotsSpec => []SInv
  BY InitSInv, NextSInv, PTL DEF SnapshotsSpec
<1>. QED  BY <1>1, SInvHolds, PTL
-----------------------------------------------------------------------------
(* Relations beside writers, and loads by id in batches *)

NoneTwice(s) == \A i, j \in 1..Len(s) : s[i] = s[j] => i = j

\* s is cut into two, which have nothing in common if nothing is in it twice.
InTwo(S, s, a, b) ==
    /\ a \in Seq(S) /\ b \in Seq(S) /\ Len(b) = Len(s) - Len(a)
    /\ ToSet(s) = ToSet(a) \cup ToSet(b)
    /\ NoneTwice(s) => NoneTwice(a) /\ NoneTwice(b) /\ ToSet(a) \cap ToSet(b) = {}

LEMMA CutInTwo ==
    ASSUME NEW S, NEW s \in Seq(S), NEW k \in 0..Len(s)
    PROVE  InTwo(S, s, SubSeq(s, 1, k), SubSeq(s, k + 1, Len(s)))
<1>. PICK a, b : a = SubSeq(s, 1, k) /\ b = SubSeq(s, k + 1, Len(s))  OBVIOUS
<1>1. Len(s) \in Nat /\ k \in Nat /\ k <= Len(s) /\ \A i \in 1..Len(s) : s[i] \in S  OBVIOUS
<1>2. a \in Seq(S) /\ Len(a) = k /\ \A i \in 1..k : a[i] = s[i]
  <2>1. \A i \in 1..k : s[i] \in S  BY <1>1
  <2>. QED  BY <1>1, <2>1, SubSeqProperties
<1>3. b \in Seq(S) /\ Len(b) = Len(s) - k /\ \A i \in 1..(Len(s) - k) : b[i] = s[k + i]
  <2>1. Len(b) = Len(s) - k /\ b \in Seq(S)  BY <1>1, SubSeqProperties
  <2>2. \A i \in 1..(Len(s) - k) : b[i] = s[k + 1 + i - 1]  BY <1>1, SubSeqProperties
  <2>3. \A i \in 1..(Len(s) - k) : k + 1 + i - 1 = k + i  BY <1>1
  <2>. QED  BY <2>1, <2>2, <2>3
<1>4. /\ ToSet(s) = {s[i] : i \in 1..Len(s)} /\ ToSet(a) = {a[i] : i \in 1..k}
      /\ ToSet(b) = {b[i] : i \in 1..(Len(s) - k)}
  <2>1. DOMAIN s = 1..Len(s) /\ DOMAIN a = 1..Len(a) /\ DOMAIN b = 1..Len(b)  BY <1>2, <1>3
  <2>. QED  BY <1>2, <1>3, <2>1 DEF ToSet
<1>5. ToSet(s) = ToSet(a) \cup ToSet(b)
  <2>1. ASSUME NEW i \in 1..Len(s) PROVE s[i] \in ToSet(a) \cup ToSet(b)
    <3>1. CASE i \in 1..k  BY <1>2, <1>4, <3>1
    <3>2. CASE i \notin 1..k
      <4>1. i - k \in 1..(Len(s) - k) /\ k + (i - k) = i  BY <1>1, <3>2
      <4>2. b[i - k] = s[i]  BY <1>3, <4>1
      <4>. QED  BY <1>4, <4>1, <4>2
    <3>. QED  BY <3>1, <3>2
  <2>2. \A i \in 1..k : i \in 1..Len(s)  BY <1>1
  <2>3. \A i \in 1..(Len(s) - k) : k + i \in 1..Len(s)  BY <1>1
  <2>4. ToSet(a) \subseteq ToSet(s)  BY <1>2, <1>4, <2>2
  <2>5. ToSet(b) \subseteq ToSet(s)  BY <1>3, <1>4, <2>3
  <2>6. ToSet(s) \subseteq ToSet(a) \cup ToSet(b)  BY <1>4, <2>1
  <2>. QED  BY ONLY <2>4, <2>5, <2>6
<1>6. ASSUME NoneTwice(s) PROVE NoneTwice(a) /\ NoneTwice(b) /\ ToSet(a) \cap ToSet(b) = {}
  <2>1. \A i \in 1..k : i \in 1..Len(s)  BY <1>1
  <2>2. \A i \in 1..(Len(s) - k) : k + i \in 1..Len(s)  BY <1>1
  <2>3. NoneTwice(a)  BY <1>2, <1>6, <2>1 DEF NoneTwice
  <2>4. NoneTwice(b)
    <3>. SUFFICES ASSUME NEW i \in 1..Len(b), NEW j \in 1..Len(b), b[i] = b[j] PROVE i = j
      BY DEF NoneTwice
    <3>1. k + i = k + j  BY <1>3, <1>6, <2>2 DEF NoneTwice
    <3>. QED  BY <1>1, <1>3, <3>1
  <2>5. ASSUME NEW i \in 1..k, NEW j \in 1..(Len(s) - k), a[i] = b[j] PROVE FALSE
    <3>2. s[i] = s[k + j] /\ i \in 1..Len(s) /\ k + j \in 1..Len(s)
      BY <1>2, <1>3, <2>1, <2>2, <2>5
    <3>. PICK m : m = k + j  OBVIOUS
    <3>1. i = m  BY <1>6, <3>2 DEF NoneTwice
    <3>. QED  BY <1>1, <3>1
  <2>6. ASSUME NEW x, x \in ToSet(a), x \in ToSet(b) PROVE FALSE
    <3>1. PICK i \in 1..k : x = a[i]  BY <1>4, <2>6
    <3>2. PICK j \in 1..(Len(s) - k) : x = b[j]  BY <1>4, <2>6
    <3>. QED  BY <2>5, <3>1, <3>2
  <2>. QED  BY <2>3, <2>4, <2>6
<1>. QED  BY <1>2, <1>3, <1>5, <1>6 DEF InTwo

BatcherSpec == BatcherInit /\ [][BatcherNext]_batcherVars

Outcomes == [state : {"new", "asked", "answered", "rejected", "forgotten"}, row : Nat]

BatcherTyped ==
    /\ stock \in [RowIds -> Nat] /\ writes \in Nat
    /\ waiting \in Seq(Loads)
    /\ DOMAIN wanted = Loads /\ wanted = [l \in Loads |-> wanted[l]]
    /\ outcome \in [Loads -> Outcomes] /\ seen \in [Loads -> SUBSET Nat]

\* A load that is asked has seen its row as it is.
UpToDate ==
    \A l \in Loads : outcome[l].state = "asked" => wanted[l] \in RowIds /\ stock[wanted[l]] \in seen[l]

\* What a batch has read was so.
ReadRight(b) ==
    b.rows # NotRead => \A l \in ToSet(Chunk(b)) : Found(b, l) \in seen[l]

\* A load waits at one place until it is settled.
OnePlaceEach ==
    /\ NoneTwice(waiting) /\ \A l \in ToSet(waiting) : outcome[l].state = "asked"
    /\ \A b \in batches :
           /\ b.left \in Seq(Loads) /\ b.left # <<>> /\ NoneTwice(b.left)
           /\ \A l \in ToSet(b.left) : outcome[l].state = "asked" /\ l \notin ToSet(waiting)
           /\ ReadRight(b)
           /\ b = [left |-> b.left, rows |-> b.rows]
    /\ \A b, e \in batches : b # e => ToSet(b.left) \cap ToSet(e.left) = {}

BInv == BatcherTyped /\ UpToDate /\ OnePlaceEach /\ LoadsAnswerTheirRow

\* The chunk of a batch and the rest of it.
LEMMA ChunkAndRest ==
    ASSUME NEW b, b.left \in Seq(Loads), b.left # <<>>, NoneTwice(b.left)
    PROVE  /\ Rest(b) \in Seq(Loads) /\ NoneTwice(Rest(b))
           /\ ToSet(b.left) = ToSet(Chunk(b)) \cup ToSet(Rest(b))
           /\ ToSet(Chunk(b)) \cap ToSet(Rest(b)) = {}
<1>. PICK k : k = Least(MaxBatchSize, Len(b.left))  OBVIOUS
<1>1. k \in 0..Len(b.left)  BY BatcherAssumption DEF Least
<1>2. Chunk(b) = SubSeq(b.left, 1, k) /\ Rest(b) = SubSeq(b.left, k + 1, Len(b.left))
  BY DEF Chunk, Rest
<1>3. b.left \in Seq(Loads) /\ NoneTwice(b.left)  OBVIOUS
<1>4. /\ Rest(b) \in Seq(Loads)
      /\ ToSet(b.left) = ToSet(Chunk(b)) \cup ToSet(Rest(b))
      /\ NoneTwice(b.left) => /\ NoneTwice(Chunk(b)) /\ NoneTwice(Rest(b))
                             /\ ToSet(Chunk(b)) \cap ToSet(Rest(b)) = {}
  <2>. PICK c, d, s : c = Chunk(b) /\ d = Rest(b) /\ s = b.left  OBVIOUS
  <2>1. s \in Seq(Loads) /\ k \in 0..Len(s)  BY <1>1, <1>3
  <2>2. c = SubSeq(s, 1, k) /\ d = SubSeq(s, k + 1, Len(s))  BY <1>2
  <2>3. InTwo(Loads, s, SubSeq(s, 1, k), SubSeq(s, k + 1, Len(s)))  BY ONLY <2>1, CutInTwo, Zenon
  <2>4. InTwo(Loads, s, c, d)  BY ONLY <2>2, <2>3, Zenon
  <2>. QED  BY <2>4 DEF InTwo
<1>. QED  BY <1>4

LEMMA InSet == \A S : \A s \in Seq(S) : \A x \in ToSet(s) : x \in S
BY DEF ToSet

LEMMA OneMoreWaits ==
    ASSUME NEW s \in Seq(Loads), NoneTwice(s), NEW l \in Loads, l \notin ToSet(s)
    PROVE  /\ Append(s, l) \in Seq(Loads) /\ NoneTwice(Append(s, l))
           /\ ToSet(Append(s, l)) = ToSet(s) \cup {l}
<1>1. /\ Append(s, l) \in Seq(Loads) /\ Len(s) \in Nat /\ Len(Append(s, l)) = Len(s) + 1
      /\ Append(s, l)[Len(s) + 1] = l /\ \A i \in 1..Len(s) : Append(s, l)[i] = s[i]
  OBVIOUS
<1>2. ToSet(Append(s, l)) = {Append(s, l)[i] : i \in 1..(Len(s) + 1)} /\ ToSet(s) = {s[i] : i \in 1..Len(s)}
  BY <1>1 DEF ToSet
<1>3. 1..(Len(s) + 1) = 1..Len(s) \cup {Len(s) + 1}  BY <1>1
<1>4. \A i \in 1..Len(s) : s[i] # l  BY <1>2
<1>5. NoneTwice(Append(s, l))
  <2>. SUFFICES ASSUME NEW i \in 1..(Len(s) + 1), NEW j \in 1..(Len(s) + 1),
                       Append(s, l)[i] = Append(s, l)[j]
                PROVE  i = j
    BY <1>1 DEF NoneTwice
  <2>1. (i \in 1..Len(s) \/ i = Len(s) + 1) /\ (j \in 1..Len(s) \/ j = Len(s) + 1)  BY <1>3
  <2>2. CASE i \in 1..Len(s) /\ j \in 1..Len(s)  BY <1>1, <2>2 DEF NoneTwice
  <2>3. CASE i \in 1..Len(s) /\ j = Len(s) + 1  BY <1>1, <1>4, <2>3
  <2>4. CASE i = Len(s) + 1 /\ j \in 1..Len(s)  BY <1>1, <1>4, <2>4
  <2>. QED  BY <2>1, <2>2, <2>3, <2>4
<1>6. ToSet(Append(s, l)) = ToSet(s) \cup {l}  BY <1>1, <1>2, <1>3
<1>. QED  BY <1>1, <1>5, <1>6

LEMMA InitBInv == BatcherInit => BInv
<1>. SUFFICES ASSUME BatcherStart PROVE BInv  BY DEF BatcherInit
<1>1. BatcherTyped  BY DEF BatcherStart, BatcherTyped, Outcomes, New
<1>2. \A l \in Loads : outcome[l].state = "new"  BY DEF BatcherStart, New
<1>3. UpToDate /\ LoadsAnswerTheirRow  BY <1>2 DEF UpToDate, LoadsAnswerTheirRow
<1>4. waiting = <<>> /\ batches = {}  BY DEF BatcherStart
<1>5. OnePlaceEach  BY <1>4 DEF OnePlaceEach, NoneTwice, ToSet
<1>. QED  BY <1>1, <1>3, <1>5 DEF BInv

LEMMA LoadKeeps == ASSUME BInv, NEW l \in Loads, NEW i \in RowIds, Load(l, i) PROVE BInv'
<1>1. /\ waiting' = Append(waiting, l) /\ wanted' = [wanted EXCEPT ![l] = i]
      /\ outcome' = [outcome EXCEPT ![l].state = "asked"] /\ seen' = [seen EXCEPT ![l] = {stock[i]}]
      /\ UNCHANGED <<stock, batches, writes>> /\ outcome[l] = New
  BY DEF Load
<1>2. BatcherTyped  BY DEF BInv
<1>3. l \notin ToSet(waiting) /\ \A b \in batches : l \notin ToSet(b.left)
  BY <1>1 DEF BInv, OnePlaceEach, New
<1>. PICK o : o = [outcome[l] EXCEPT !.state = "asked"]  OBVIOUS
<1>4. o \in Outcomes /\ o.state = "asked"  BY <1>2 DEF BatcherTyped, Outcomes
<1>5. outcome' = [outcome EXCEPT ![l] = o]  BY <1>1
<1>6. \A m \in Loads : /\ wanted'[m] = IF m = l THEN i ELSE wanted[m]
                       /\ outcome'[m] = IF m = l THEN o ELSE outcome[m]
                       /\ seen'[m] = IF m = l THEN {stock[i]} ELSE seen[m]
  BY <1>1, <1>2, <1>5 DEF BatcherTyped
<1>7. /\ waiting' \in Seq(Loads) /\ NoneTwice(waiting')
      /\ ToSet(waiting') = ToSet(waiting) \cup {l}
  <2>1. waiting \in Seq(Loads) /\ NoneTwice(waiting)  BY DEF BInv, BatcherTyped, OnePlaceEach
  <2>2. /\ Append(waiting, l) \in Seq(Loads) /\ NoneTwice(Append(waiting, l))
        /\ ToSet(Append(waiting, l)) = ToSet(waiting) \cup {l}
    BY <1>3, <2>1, OneMoreWaits
  <2>3. waiting' = Append(waiting, l)  BY <1>1
  <2>. QED  BY ONLY <2>2, <2>3, Zenon
<1>8. BatcherTyped'
  <2>1. outcome' \in [Loads -> Outcomes]  BY <1>2, <1>4, <1>5 DEF BatcherTyped
  <2>2. stock[i] \in Nat  BY <1>2 DEF BatcherTyped
  <2>3. seen' \in [Loads -> SUBSET Nat]  BY <1>1, <1>2, <2>2 DEF BatcherTyped
  <2>4. DOMAIN wanted' = Loads /\ wanted' = [m \in Loads |-> wanted'[m]]
    BY <1>1, <1>2 DEF BatcherTyped
  <2>. QED  BY <1>1, <1>2, <1>7, <2>1, <2>3, <2>4 DEF BatcherTyped
<1>9. UpToDate'  BY <1>1, <1>6 DEF BInv, UpToDate
<1>10. LoadsAnswerTheirRow'  BY <1>4, <1>6 DEF BInv, LoadsAnswerTheirRow
<1>11. \A b \in batches : ToSet(b.left) \subseteq Loads /\ ToSet(Chunk(b)) \subseteq ToSet(b.left)
  BY InSet, ChunkAndRest DEF BInv, OnePlaceEach
<1>12. ToSet(waiting) \subseteq Loads  BY <1>2, InSet DEF BatcherTyped
<1>13. ASSUME NEW b \in batches PROVE ReadRight(b)'
  <2>1. \A m \in ToSet(Chunk(b)) : m \in Loads /\ m # l  BY <1>3, <1>11
  <2>2. \A m \in ToSet(Chunk(b)) : Found(b, m)' = Found(b, m) /\ seen'[m] = seen[m]
    BY <1>6, <2>1 DEF Found
  <2>3. ReadRight(b) /\ Chunk(b)' = Chunk(b)  BY DEF BInv, OnePlaceEach, Chunk
  <2>. QED  BY <2>2, <2>3 DEF ReadRight
<1>14. ASSUME NEW b \in batches, NEW m \in ToSet(b.left)
       PROVE  outcome'[m].state = "asked" /\ m \notin ToSet(waiting')
  BY <1>3, <1>6, <1>7, <1>11 DEF BInv, OnePlaceEach
<1>15. \A m \in ToSet(waiting') : outcome'[m].state = "asked"
  BY <1>4, <1>6, <1>7, <1>12 DEF BInv, OnePlaceEach
<1>16. OnePlaceEach'  BY <1>1, <1>7, <1>13, <1>14, <1>15 DEF BInv, OnePlaceEach
<1>. QED  BY <1>8, <1>9, <1>10, <1>16 DEF BInv

LEMMA ExecuteKeeps == ASSUME BInv, ExecuteBatch PROVE BInv'
<1>1. /\ waiting' = <<>> /\ batches' = batches \cup Taken
      /\ UNCHANGED <<stock, writes, wanted, outcome, seen>>
  BY DEF ExecuteBatch
<1>2. BatcherTyped' /\ UpToDate' /\ LoadsAnswerTheirRow'
  BY <1>1 DEF BInv, BatcherTyped, UpToDate, LoadsAnswerTheirRow
<1>3. NoneTwice(waiting') /\ ToSet(waiting') = {}  BY <1>1 DEF NoneTwice, ToSet
<1>4. ASSUME NEW b \in batches
      PROVE  /\ b.left \in Seq(Loads) /\ b.left # <<>> /\ NoneTwice(b.left)
             /\ \A l \in ToSet(b.left) : outcome'[l].state = "asked" /\ l \notin ToSet(waiting')
             /\ ReadRight(b)' /\ b = [left |-> b.left, rows |-> b.rows]
             /\ ToSet(b.left) \cap ToSet(waiting) = {}
  <2>1. ReadRight(b)  BY DEF BInv, OnePlaceEach
  <2>2. ReadRight(b)'  BY <1>1, <2>1 DEF ReadRight, Chunk, Found
  <2>. QED  BY <1>1, <1>3, <2>2 DEF BInv, OnePlaceEach
<1>5. ASSUME NEW b \in Taken
      PROVE  /\ b.left \in Seq(Loads) /\ b.left # <<>> /\ NoneTwice(b.left)
             /\ \A l \in ToSet(b.left) : outcome'[l].state = "asked" /\ l \notin ToSet(waiting')
             /\ ReadRight(b)' /\ b = [left |-> b.left, rows |-> b.rows] /\ b.left = waiting
  <2>1. waiting # <<>> /\ b = [left |-> waiting, rows |-> NotRead]  BY DEF Taken
  <2>2. ReadRight(b)'  BY <2>1 DEF ReadRight
  <2>3. waiting \in Seq(Loads) /\ NoneTwice(waiting) /\ \A l \in ToSet(waiting) : outcome[l].state = "asked"
    BY DEF BInv, BatcherTyped, OnePlaceEach
  <2>4. b.left = waiting /\ b.rows = NotRead  BY <2>1
  <2>5. \A l \in ToSet(b.left) : outcome'[l].state = "asked" /\ l \notin ToSet(waiting')
    BY <1>1, <1>3, <2>3, <2>4
  <2>. QED  BY <2>1, <2>2, <2>3, <2>4, <2>5
<1>6. ASSUME NEW b \in batches', NEW e \in batches', b # e
      PROVE  ToSet(b.left) \cap ToSet(e.left) = {}
  <2>1. CASE b \in batches /\ e \in batches  BY <1>6, <2>1 DEF BInv, OnePlaceEach
  <2>2. CASE b \in batches /\ e \in Taken
    <3>1. ToSet(b.left) \cap ToSet(waiting) = {} /\ e.left = waiting  BY <1>4, <1>5, <2>2
    <3>. QED  BY <3>1
  <2>3. CASE b \in Taken /\ e \in batches
    <3>1. ToSet(e.left) \cap ToSet(waiting) = {} /\ b.left = waiting  BY <1>4, <1>5, <2>3
    <3>. QED  BY <3>1
  <2>4. CASE b \in Taken /\ e \in Taken  BY <1>6, <2>4 DEF Taken
  <2>. QED  BY <1>1, <2>1, <2>2, <2>3, <2>4
<1>7. OnePlaceEach'
  <2>1. \A b \in batches' : b \in batches \/ b \in Taken  BY <1>1
  <2>. QED  BY <1>3, <1>4, <1>5, <1>6, <2>1 DEF OnePlaceEach
<1>. QED  BY <1>2, <1>7 DEF BInv

\* One batch is replaced by a part of it, or dropped.
LEMMA BatchReplaced ==
    ASSUME BInv, NEW b \in batches, NEW new,
           batches' = (batches \ {b}) \cup new, UNCHANGED waiting,
           \A e \in new : /\ e.left \in Seq(Loads) /\ e.left # <<>> /\ NoneTwice(e.left)
                          /\ \A l \in ToSet(e.left) : l \in ToSet(b.left) /\ outcome'[l].state = "asked"
                          /\ ReadRight(e)' /\ e = [left |-> e.left, rows |-> e.rows],
           \A e, d \in new : e = d,
           \A e \in batches \ {b} : ReadRight(e)',
           \A l \in Loads : l \notin ToSet(b.left) => outcome'[l].state = outcome[l].state
    PROVE  OnePlaceEach'
<1>1. \A e \in batches : /\ e.left \in Seq(Loads) /\ e.left # <<>> /\ NoneTwice(e.left)
                         /\ \A l \in ToSet(e.left) : outcome[l].state = "asked" /\ l \notin ToSet(waiting)
                         /\ e = [left |-> e.left, rows |-> e.rows]
  BY DEF BInv, OnePlaceEach
<1>2. \A e, d \in batches : e # d => ToSet(e.left) \cap ToSet(d.left) = {}
  BY DEF BInv, OnePlaceEach
<1>3. \A e \in batches : ToSet(e.left) \subseteq Loads  BY <1>1, InSet
<1>4. ToSet(waiting) \subseteq Loads  BY InSet DEF BInv, BatcherTyped
<1>5. \A l \in ToSet(waiting) : outcome'[l].state = "asked"
  BY <1>1, <1>4 DEF BInv, OnePlaceEach
<1>6. ASSUME NEW e \in batches \ {b}, NEW l \in ToSet(e.left)
      PROVE  outcome'[l].state = "asked" /\ l \notin ToSet(waiting)
  <2>1. l \notin ToSet(b.left)  BY <1>2
  <2>. QED  BY <1>1, <1>3, <2>1
<1>7. ASSUME NEW e \in batches', NEW d \in batches', e # d
      PROVE  ToSet(e.left) \cap ToSet(d.left) = {}
  <2>1. CASE e \in batches \ {b} /\ d \in batches \ {b}  BY <1>2, <1>7, <2>1
  <2>2. CASE e \in batches \ {b} /\ d \in new
    <3>1. ToSet(e.left) \cap ToSet(b.left) = {}  BY <1>2, <2>2
    <3>. QED  BY <2>2, <3>1
  <2>3. CASE e \in new /\ d \in batches \ {b}
    <3>1. ToSet(d.left) \cap ToSet(b.left) = {}  BY <1>2, <2>3
    <3>. QED  BY <2>3, <3>1
  <2>4. CASE e \in new /\ d \in new  BY <1>7, <2>4
  <2>. QED  BY <2>1, <2>2, <2>3, <2>4
<1>8. ASSUME NEW e \in batches'
      PROVE  /\ e.left \in Seq(Loads) /\ e.left # <<>> /\ NoneTwice(e.left)
             /\ \A l \in ToSet(e.left) : outcome'[l].state = "asked" /\ l \notin ToSet(waiting)
             /\ ReadRight(e)' /\ e = [left |-> e.left, rows |-> e.rows]
  <2>1. CASE e \in batches \ {b}  BY <1>1, <1>6, <2>1
  <2>2. CASE e \in new  BY <1>1, <2>2
  <2>. QED  BY <2>1, <2>2
<1>9. NoneTwice(waiting') /\ ToSet(waiting') = ToSet(waiting)  BY DEF BInv, OnePlaceEach
<1>. QED  BY <1>5, <1>7, <1>8, <1>9 DEF OnePlaceEach

LEMMA ReadChunkKeeps == ASSUME BInv, NEW b \in batches, ReadChunk(b) PROVE BInv'
<1>. PICK there : there = {i \in ChunkIds(b) : stock[i] > 0}  OBVIOUS
<1>. PICK rs : rs = [i \in there |-> stock[i]]  OBVIOUS
<1>. PICK n : n = [b EXCEPT !.rows = <<rs>>]  OBVIOUS
<1>1. /\ batches' = (batches \ {b}) \cup {n} /\ b.rows = NotRead
      /\ UNCHANGED <<stock, writes, waiting, wanted, outcome, seen>>
  BY DEF ReadChunk
<1>2. BatcherTyped' /\ UpToDate' /\ LoadsAnswerTheirRow'
  BY <1>1 DEF BInv, BatcherTyped, UpToDate, LoadsAnswerTheirRow
<1>3. /\ b.left \in Seq(Loads) /\ b.left # <<>> /\ NoneTwice(b.left)
      /\ \A l \in ToSet(b.left) : l \in Loads /\ outcome[l].state = "asked"
      /\ b = [left |-> b.left, rows |-> b.rows]
  BY InSet DEF BInv, OnePlaceEach
<1>4. n = [left |-> b.left, rows |-> <<rs>>]  BY <1>3
<1>5. n.left = b.left /\ n.rows = <<rs>> /\ n = [left |-> n.left, rows |-> n.rows] /\ Head(n.rows) = rs
  <2>1. Head(<<rs>>) = rs /\ rs \in {rs}  OBVIOUS
  <2>. PICK one : one = <<rs>>  OBVIOUS
  <2>2. n = [left |-> b.left, rows |-> one]  BY <1>4
  <2>3. n.left = b.left /\ n.rows = one /\ n = [left |-> n.left, rows |-> n.rows]  BY ONLY <2>2
  <2>. QED  BY <2>1, <2>3
<1>6. ToSet(Chunk(b)) \subseteq ToSet(b.left)  BY <1>3, ChunkAndRest
<1>7. Chunk(n) = Chunk(b)  BY <1>5 DEF Chunk
<1>8. DOMAIN rs = there /\ \A i \in there : rs[i] = stock[i]  OBVIOUS
<1>9. ASSUME NEW l \in ToSet(Chunk(b)) PROVE Found(n, l) \in seen[l]
  <2>1. l \in Loads /\ outcome[l].state = "asked"  BY <1>3, <1>6
  <2>2. wanted[l] \in RowIds /\ stock[wanted[l]] \in seen[l] /\ stock[wanted[l]] \in Nat
    BY <2>1 DEF BInv, UpToDate, BatcherTyped
  <2>3. wanted[l] \in ChunkIds(b)  BY DEF ChunkIds
  <2>4. CASE stock[wanted[l]] > 0  BY <1>5, <1>8, <2>2, <2>3, <2>4 DEF Found
  <2>5. CASE ~(stock[wanted[l]] > 0)
    <3>1. stock[wanted[l]] = 0 /\ wanted[l] \notin there  BY <2>2, <2>5
    <3>. QED  BY <1>5, <1>8, <2>2, <3>1 DEF Found
  <2>. QED  BY <2>4, <2>5
<1>10. ReadRight(n)'
  <2>1. \A l \in ToSet(Chunk(n)) : Found(n, l) \in seen[l]  BY <1>7, <1>9
  <2>2. \A l : Found(n, l)' = Found(n, l)  BY <1>1 DEF Found
  <2>. QED  BY <1>1, <2>1, <2>2 DEF ReadRight, Chunk
<1>11. \A e \in batches \ {b} : ReadRight(e)'
  <2>. SUFFICES ASSUME NEW e \in batches \ {b} PROVE ReadRight(e)'  OBVIOUS
  <2>1. ReadRight(e)  BY DEF BInv, OnePlaceEach
  <2>. QED  BY <1>1, <2>1 DEF ReadRight, Chunk, Found
<1>12. OnePlaceEach'
  <2>. DEFINE new == {n}
  <2>1. \A e \in new : /\ e.left \in Seq(Loads) /\ e.left # <<>> /\ NoneTwice(e.left)
                       /\ \A l \in ToSet(e.left) : l \in ToSet(b.left) /\ outcome'[l].state = "asked"
                       /\ ReadRight(e)' /\ e = [left |-> e.left, rows |-> e.rows]
    BY <1>1, <1>3, <1>5, <1>10
  <2>2. batches' = (batches \ {b}) \cup new /\ \A e, d \in new : e = d  BY <1>1
  <2>. HIDE DEF new
  <2>. QED  BY <1>1, <1>11, <2>1, <2>2, BatchReplaced
<1>. QED  BY <1>2, <1>12 DEF BInv

\* A chunk is settled, and what is left of its batch is next.
LEMMA ChunkSettled ==
    ASSUME BInv, NEW b \in batches, batches' = After(b),
           UNCHANGED <<stock, writes, waiting, wanted, seen>>,
           outcome' \in [Loads -> Outcomes],
           \A l \in Loads : l \notin ToSet(Chunk(b)) => outcome'[l] = outcome[l],
           \A l \in ToSet(Chunk(b)) : outcome'[l].state # "asked",
           \A l \in ToSet(Chunk(b)) : outcome'[l].state = "answered" => outcome'[l].row \in seen[l]
    PROVE  BInv'
<1>1. /\ b.left \in Seq(Loads) /\ b.left # <<>> /\ NoneTwice(b.left)
      /\ \A l \in ToSet(b.left) : l \in Loads /\ outcome[l].state = "asked"
  BY InSet DEF BInv, OnePlaceEach
<1>2. /\ Rest(b) \in Seq(Loads) /\ NoneTwice(Rest(b))
      /\ ToSet(b.left) = ToSet(Chunk(b)) \cup ToSet(Rest(b))
      /\ ToSet(Chunk(b)) \cap ToSet(Rest(b)) = {}
  BY <1>1, ChunkAndRest
<1>3. BatcherTyped'  BY DEF BInv, BatcherTyped
<1>4. UpToDate'
  <2>. SUFFICES ASSUME NEW l \in Loads, outcome'[l].state = "asked"
                PROVE  wanted[l] \in RowIds /\ stock[wanted[l]] \in seen[l]
    BY DEF UpToDate
  <2>1. outcome'[l] = outcome[l]  OBVIOUS
  <2>. QED  BY <2>1 DEF BInv, UpToDate
<1>5. LoadsAnswerTheirRow'
  <2>. SUFFICES ASSUME NEW l \in Loads, outcome'[l].state = "answered" PROVE outcome'[l].row \in seen[l]
    BY DEF LoadsAnswerTheirRow
  <2>1. CASE l \in ToSet(Chunk(b))  BY <2>1
  <2>2. CASE l \notin ToSet(Chunk(b))  BY <2>2 DEF BInv, LoadsAnswerTheirRow
  <2>. QED  BY <2>1, <2>2
<1>6. OnePlaceEach'
  <2>. DEFINE new == IF Rest(b) = <<>> THEN {} ELSE {[left |-> Rest(b), rows |-> NotRead]}
  <2>1. batches' = (batches \ {b}) \cup new /\ \A e, d \in new : e = d  BY DEF After
  <2>2. ASSUME NEW e \in new
        PROVE  /\ e.left \in Seq(Loads) /\ e.left # <<>> /\ NoneTwice(e.left)
               /\ \A l \in ToSet(e.left) : l \in ToSet(b.left) /\ outcome'[l].state = "asked"
               /\ ReadRight(e)' /\ e = [left |-> e.left, rows |-> e.rows]
    <3>1. Rest(b) # <<>> /\ e = [left |-> Rest(b), rows |-> NotRead]  OBVIOUS
    <3>2. e.left = Rest(b) /\ e.rows = NotRead  BY <3>1
    <3>3. ReadRight(e)'  BY <3>2 DEF ReadRight
    <3>4. \A l \in ToSet(Rest(b)) : l \in ToSet(b.left) /\ outcome'[l].state = "asked"
      <4>. SUFFICES ASSUME NEW l \in ToSet(Rest(b)) PROVE l \in ToSet(b.left) /\ outcome'[l].state = "asked"
        OBVIOUS
      <4>1. l \in ToSet(b.left) /\ l \notin ToSet(Chunk(b)) /\ l \in Loads  BY <1>1, <1>2
      <4>. QED  BY <1>1, <4>1
    <3>. QED  BY <1>2, <3>1, <3>2, <3>3, <3>4
  <2>3. \A e \in batches \ {b} : ReadRight(e)'
    <3>. SUFFICES ASSUME NEW e \in batches \ {b} PROVE ReadRight(e)'  OBVIOUS
    <3>1. ReadRight(e)  BY DEF BInv, OnePlaceEach
    <3>. QED  BY <3>1 DEF ReadRight, Chunk, Found
  <2>4. \A l \in Loads : l \notin ToSet(b.left) => outcome'[l].state = outcome[l].state  BY <1>2
  <2>. HIDE DEF new
  <2>. QED  BY <2>1, <2>2, <2>3, <2>4, BatchReplaced
<1>. QED  BY <1>3, <1>4, <1>5, <1>6 DEF BInv

LEMMA AnswerKeeps == ASSUME BInv, NEW b \in batches, AnswerChunk(b) PROVE BInv'
<1>1. /\ outcome' = [l \in Loads |-> IF l \in ToSet(Chunk(b))
                                     THEN [state |-> "answered", row |-> Found(b, l)] ELSE outcome[l]]
      /\ batches' = After(b) /\ UNCHANGED <<stock, writes, waiting, wanted, seen>> /\ ReadRight(b)
      /\ b.rows # NotRead
  BY DEF AnswerChunk, BInv, OnePlaceEach
<1>2. ToSet(Chunk(b)) \subseteq Loads
  <2>1. b.left \in Seq(Loads) /\ b.left # <<>> /\ NoneTwice(b.left) /\ ToSet(b.left) \subseteq Loads
    BY InSet DEF BInv, OnePlaceEach
  <2>. QED  BY <2>1, ChunkAndRest
<1>3. ASSUME NEW l \in ToSet(Chunk(b))
      PROVE  /\ outcome'[l] = [state |-> "answered", row |-> Found(b, l)]
             /\ Found(b, l) \in seen[l] /\ Found(b, l) \in Nat
             /\ outcome'[l] \in Outcomes
  <2>1. l \in Loads /\ Found(b, l) \in seen[l]  BY <1>1, <1>2 DEF ReadRight
  <2>2. Found(b, l) \in Nat  BY <2>1 DEF BInv, BatcherTyped
  <2>. QED  BY <1>1, <2>1, <2>2 DEF Outcomes
<1>4. \A l \in Loads : l \notin ToSet(Chunk(b)) => outcome'[l] = outcome[l] /\ outcome[l] \in Outcomes
  BY <1>1 DEF BInv, BatcherTyped
<1>5. DOMAIN outcome' = Loads /\ outcome' = [l \in Loads |-> outcome'[l]]  BY <1>1
<1>6. \A l \in Loads : outcome'[l] \in Outcomes  BY <1>3, <1>4
<1>7. outcome' \in [Loads -> Outcomes]  BY <1>5, <1>6
<1>8. \A l \in ToSet(Chunk(b)) : outcome'[l].state # "asked" /\ outcome'[l].row \in seen[l]
  <2>. SUFFICES ASSUME NEW l \in ToSet(Chunk(b))
                PROVE  outcome'[l].state # "asked" /\ outcome'[l].row \in seen[l]
    OBVIOUS
  <2>1. outcome'[l] = [state |-> "answered", row |-> Found(b, l)] /\ Found(b, l) \in seen[l]  BY <1>3
  <2>. QED  BY <2>1
<1>. QED  BY <1>1, <1>4, <1>7, <1>8, ChunkSettled

LEMMA RejectKeeps == ASSUME BInv, NEW b \in batches, RejectChunk(b) PROVE BInv'
<1>1. /\ outcome' = [l \in Loads |-> IF l \in ToSet(Chunk(b))
                                     THEN [outcome[l] EXCEPT !.state = "rejected"] ELSE outcome[l]]
      /\ batches' = After(b) /\ UNCHANGED <<stock, writes, waiting, wanted, seen>>
  BY DEF RejectChunk
<1>2. ToSet(Chunk(b)) \subseteq Loads
  <2>1. b.left \in Seq(Loads) /\ b.left # <<>> /\ NoneTwice(b.left) /\ ToSet(b.left) \subseteq Loads
    BY InSet DEF BInv, OnePlaceEach
  <2>. QED  BY <2>1, ChunkAndRest
<1>3. ASSUME NEW l \in ToSet(Chunk(b)) PROVE outcome'[l].state = "rejected" /\ outcome'[l] \in Outcomes
  <2>1. outcome[l] \in Outcomes /\ outcome'[l] = [outcome[l] EXCEPT !.state = "rejected"]
    BY <1>1, <1>2 DEF BInv, BatcherTyped
  <2>. QED  BY <2>1 DEF Outcomes
<1>4. \A l \in Loads : l \notin ToSet(Chunk(b)) => outcome'[l] = outcome[l] /\ outcome[l] \in Outcomes
  BY <1>1 DEF BInv, BatcherTyped
<1>5. DOMAIN outcome' = Loads /\ outcome' = [l \in Loads |-> outcome'[l]]  BY <1>1
<1>6. \A l \in Loads : outcome'[l] \in Outcomes  BY <1>3, <1>4
<1>7. outcome' \in [Loads -> Outcomes]  BY <1>5, <1>6
<1>8. \A l \in ToSet(Chunk(b)) : outcome'[l].state = "rejected"  BY <1>3
<1>. QED  BY <1>1, <1>4, <1>7, <1>8, ChunkSettled

LEMMA ClearKeeps == ASSUME BInv, Clear PROVE BInv'
<1>1. /\ outcome' = [l \in Loads |-> IF l \in ToSet(waiting)
                                     THEN [outcome[l] EXCEPT !.state = "forgotten"] ELSE outcome[l]]
      /\ waiting' = <<>> /\ UNCHANGED <<stock, writes, batches, wanted, seen>>
  BY DEF Clear
<1>2. ToSet(waiting) \subseteq Loads  BY InSet DEF BInv, BatcherTyped
<1>3. ASSUME NEW l \in ToSet(waiting) PROVE outcome'[l].state = "forgotten" /\ outcome'[l] \in Outcomes
  <2>1. outcome[l] \in Outcomes /\ outcome'[l] = [outcome[l] EXCEPT !.state = "forgotten"]
    BY <1>1, <1>2 DEF BInv, BatcherTyped
  <2>. QED  BY <2>1 DEF Outcomes
<1>4. \A l \in Loads : l \notin ToSet(waiting) => outcome'[l] = outcome[l] /\ outcome[l] \in Outcomes
  BY <1>1 DEF BInv, BatcherTyped
<1>5. DOMAIN outcome' = Loads /\ outcome' = [l \in Loads |-> outcome'[l]]  BY <1>1
<1>6. \A l \in Loads : outcome'[l] \in Outcomes  BY <1>3, <1>4
<1>7. outcome' \in [Loads -> Outcomes]  BY <1>5, <1>6
<1>8. BatcherTyped'
  <2>1. waiting' \in Seq(Loads)  BY <1>1
  <2>. QED  BY <1>1, <1>7, <2>1 DEF BInv, BatcherTyped
<1>9. \A l \in Loads : outcome'[l].state \in {"asked", "answered"} => outcome'[l] = outcome[l]
  BY <1>3, <1>4
<1>10. UpToDate' /\ LoadsAnswerTheirRow'
  BY <1>1, <1>9 DEF BInv, UpToDate, LoadsAnswerTheirRow
<1>11. NoneTwice(waiting') /\ ToSet(waiting') = {}  BY <1>1 DEF NoneTwice, ToSet
<1>12. ASSUME NEW b \in batches
       PROVE  /\ b.left \in Seq(Loads) /\ b.left # <<>> /\ NoneTwice(b.left)
              /\ \A l \in ToSet(b.left) : outcome'[l].state = "asked" /\ l \notin ToSet(waiting')
              /\ ReadRight(b)' /\ b = [left |-> b.left, rows |-> b.rows]
  <2>1. /\ ReadRight(b) /\ b.left \in Seq(Loads)
        /\ \A l \in ToSet(b.left) : outcome[l].state = "asked" /\ l \notin ToSet(waiting)
    BY DEF BInv, OnePlaceEach
  <2>2. ReadRight(b)'  BY <1>1, <2>1 DEF ReadRight, Chunk, Found
  <2>3. \A l \in ToSet(b.left) : l \in Loads  BY <2>1, InSet
  <2>4. \A l \in ToSet(b.left) : outcome'[l].state = "asked"  BY <1>4, <2>1, <2>3
  <2>. QED  BY <1>11, <2>2, <2>4 DEF BInv, OnePlaceEach
<1>13. OnePlaceEach'  BY <1>1, <1>11, <1>12 DEF BInv, OnePlaceEach
<1>. QED  BY <1>8, <1>10, <1>13 DEF BInv

LEMMA WriteRowKeeps == ASSUME BInv, NEW i \in RowIds, WriteRow(i) PROVE BInv'
<1>1. PICK v \in {0, writes + 2} :
          /\ stock' = [stock EXCEPT ![i] = v]
          /\ seen' = [l \in Loads |-> IF wanted[l] = i /\ outcome[l].state = "asked"
                                      THEN seen[l] \cup {v} ELSE seen[l]]
  BY DEF WriteRow
<1>2. UNCHANGED <<waiting, batches, wanted, outcome>> /\ writes' = writes + 1  BY DEF WriteRow
<1>3. BatcherTyped  BY DEF BInv
<1>4. v \in Nat /\ writes' \in Nat  BY <1>2, <1>3 DEF BatcherTyped
<1>5. \A l \in Loads : seen[l] \subseteq seen'[l] /\ seen'[l] \in SUBSET Nat
  BY <1>1, <1>3, <1>4 DEF BatcherTyped
<1>6. BatcherTyped'
  <2>1. stock' \in [RowIds -> Nat]  BY <1>1, <1>3, <1>4 DEF BatcherTyped
  <2>2. seen' \in [Loads -> SUBSET Nat]  BY <1>1, <1>5
  <2>. QED  BY <1>2, <1>3, <1>4, <2>1, <2>2 DEF BatcherTyped
<1>7. UpToDate'
  <2>. SUFFICES ASSUME NEW l \in Loads, outcome[l].state = "asked"
                PROVE  wanted[l] \in RowIds /\ stock'[wanted[l]] \in seen'[l]
    BY <1>2 DEF UpToDate
  <2>1. wanted[l] \in RowIds /\ stock[wanted[l]] \in seen[l]  BY DEF BInv, UpToDate
  <2>2. CASE wanted[l] = i  BY <1>1, <1>3, <2>2 DEF BatcherTyped
  <2>3. CASE wanted[l] # i  BY <1>1, <1>3, <1>5, <2>1, <2>3 DEF BatcherTyped
  <2>. QED  BY <2>1, <2>2, <2>3
<1>8. LoadsAnswerTheirRow'  BY <1>2, <1>5 DEF BInv, LoadsAnswerTheirRow
<1>9. ASSUME NEW b \in batches PROVE ReadRight(b)'
  <2>1. ReadRight(b) /\ b.left \in Seq(Loads) /\ b.left # <<>> /\ NoneTwice(b.left)
    BY DEF BInv, OnePlaceEach
  <2>2. ToSet(Chunk(b)) \subseteq Loads  BY <2>1, InSet, ChunkAndRest
  <2>3. Chunk(b)' = Chunk(b) /\ \A l : Found(b, l)' = Found(b, l)  BY <1>2 DEF Chunk, Found
  <2>. QED  BY <1>5, <2>1, <2>2, <2>3 DEF ReadRight
<1>10. OnePlaceEach'  BY <1>2, <1>9 DEF BInv, OnePlaceEach
<1>. QED  BY <1>6, <1>7, <1>8, <1>10 DEF BInv

LEMMA NextBInv == BInv /\ [BatcherNext]_batcherVars => BInv'
<1>. SUFFICES ASSUME BInv, [BatcherNext]_batcherVars PROVE BInv'  OBVIOUS
<1>1. CASE UNCHANGED batcherVars
  <2>1. UNCHANGED <<stock, waiting, batches, wanted, outcome, seen, writes>>  BY <1>1 DEF batcherVars
  <2>2. BatcherTyped' /\ UpToDate' /\ LoadsAnswerTheirRow'
    BY <2>1 DEF BInv, BatcherTyped, UpToDate, LoadsAnswerTheirRow
  <2>3. \A b \in batches : ReadRight(b)' <=> ReadRight(b)  BY <2>1 DEF ReadRight, Chunk, Found
  <2>4. OnePlaceEach'  BY <2>1, <2>3 DEF BInv, OnePlaceEach
  <2>. QED  BY <2>2, <2>4 DEF BInv
<1>2. ASSUME NEW l \in Loads, NEW i \in RowIds, Load(l, i) PROVE BInv'  BY <1>2, LoadKeeps
<1>3. CASE ExecuteBatch  BY <1>3, ExecuteKeeps
<1>4. CASE Clear  BY <1>4, ClearKeeps
<1>5. ASSUME NEW b \in batches, ReadChunk(b) \/ AnswerChunk(b) \/ RejectChunk(b) PROVE BInv'
  BY <1>5, ReadChunkKeeps, AnswerKeeps, RejectKeeps
<1>6. ASSUME NEW i \in RowIds, WriteRow(i) PROVE BInv'  BY <1>6, WriteRowKeeps
<1>. QED  BY <1>1, <1>2, <1>3, <1>4, <1>5, <1>6 DEF BatcherNext

\* Whatever is written meanwhile, whatever the chunks, failures and calls of clear, a load
\* answers its row as it was at some moment since it was asked for (QueryBatcher).
THEOREM BatchedLoadsAreTrue == BatcherSpec => []LoadsAnswerTheirRow
<1>1. BatcherSpec => []BInv  BY InitBInv, NextBInv, PTL DEF BatcherSpec
<1>2. BInv => LoadsAnswerTheirRow  BY DEF BInv
<1>. QED  BY <1>1, <1>2, PTL

-----------------------------------------------------------------------------
(* Relations of an entity, beside writers of both sides *)

RelationsSpec == RelationsInit /\ [][RelationsNext]_relationVars

Pairs == (Parents \cup {Nil}) \X Children

LoadStates == [phase : {"new", "reading", "done", "failed"}, left : Seq(Parents) \cup Children,
               fk : Parents \cup {Nil}, got : SUBSET Pairs]

ReaderStates == [state : {"no", "awaits", "done", "failed"}, got : SUBSET Pairs]

\* A key refers to a row that is there.
RelationsTyped ==
    /\ what \in RelationLoads
    /\ key \in [Children -> Parents \cup {Nil}] /\ alive \subseteq Parents
    /\ \A c \in Children : key[c] \in alive \cup {Nil}
    /\ load \in LoadStates /\ reader \in [Readers -> ReaderStates]

\* What is true while the load reads was true at some moment, and what was always true is true.
HistoryOfLoad ==
    /\ load.phase = "new" => load.got = {} /\ load.fk = Nil /\ load.left = what.of
    /\ load.phase = "reading" => Owned(key) \subseteq everTrue /\ alwaysTrue \subseteq Owned(key)

\* The parents whose chunks have been read have what was always theirs.
ChunksRead ==
    what.kind = "collection" =>
        /\ load.left \in Seq(Parents)
        /\ load.phase = "done" => load.left = <<>>
        /\ load.phase \in {"reading", "done"} =>
               /\ load.got \subseteq everTrue
               /\ \A o \in alwaysTrue : o[1] \in ToSet(what.of) => o \in load.got \/ o[1] \in ToSet(load.left)

\* The key that has been read was the key.
KeyRead ==
    what.kind # "collection" =>
        /\ load.phase = "reading" => load.got = {}
        /\ load.phase = "reading" /\ load.fk # Nil => <<load.fk, what.of>> \in everTrue

\* A reader that has an answer has the one of the load, which stays.
Answered ==
    \A r \in Readers :
        reader[r].state \in {"done", "failed"} => load.phase \in {"done", "failed"} /\ reader[r] = Got

LInv == RelationsTyped /\ HistoryOfLoad /\ ChunksRead /\ KeyRead /\ Answered /\ SingleIsTrue

LEMMA InitLInv == RelationsInit => LInv
<1>. SUFFICES ASSUME NEW x \in RelationLoads, RelationsStart(x) PROVE LInv  BY DEF RelationsInit
<1>1. (CHOOSE p \in Parents : TRUE) \in Parents  BY RelationsAssumption
<1>2. load = [phase |-> "new", left |-> x.of, fk |-> Nil, got |-> {}] /\ what = x
  BY DEF RelationsStart
<1>3. load \in LoadStates /\ load.phase = "new" /\ load.got = {} /\ load.fk = Nil /\ load.left = what.of
  <2>1. x.of \in Seq(Parents) \cup Children  BY RelationsAssumption
  <2>. QED  BY <1>2, <2>1 DEF LoadStates
<1>4. \A r \in Readers : reader[r] = [state |-> "no", got |-> {}]  BY DEF RelationsStart
<1>5. reader \in [Readers -> ReaderStates]  BY DEF RelationsStart, ReaderStates
<1>6. RelationsTyped
  <2>1. key \in [Children -> Parents] /\ alive = Parents  BY <1>1 DEF RelationsStart
  <2>. QED  BY <1>2, <1>3, <1>5, <2>1 DEF RelationsTyped
<1>7. HistoryOfLoad /\ KeyRead /\ SingleIsTrue  BY <1>3 DEF HistoryOfLoad, KeyRead, SingleIsTrue
<1>8. ChunksRead  BY <1>2, <1>3, RelationsAssumption DEF ChunksRead
<1>9. Answered  BY <1>4 DEF Answered
<1>. QED  BY <1>6, <1>7, <1>8, <1>9 DEF LInv

\* The load, or a reader, moves on, and the rows stay.
LEMMA OwnedIs == LInv => Owned(key) \subseteq Pairs
BY DEF LInv, RelationsTyped, Owned, Pairs

LEMMA BeginsLoad ==
    ASSUME LInv, load.phase = "new", Begin, UNCHANGED <<what, key, alive>>,
           reader' \in [Readers -> ReaderStates],
           \A r \in Readers : reader'[r].state \in {"done", "failed"} => reader'[r] = reader[r]
    PROVE  LInv'
<1>1. /\ load \in LoadStates /\ load' = [load EXCEPT !.phase = "reading"]
      /\ everTrue' = Owned(key) /\ alwaysTrue' = Owned(key)
  BY DEF Begin, LInv, RelationsTyped
<1>2. /\ load' \in LoadStates /\ load'.phase = "reading" /\ load'.left = load.left /\ load'.fk = load.fk
      /\ load'.got = load.got
  BY <1>1 DEF LoadStates
<1>3. load.got = {} /\ load.fk = Nil /\ load.left = what.of  BY DEF LInv, HistoryOfLoad
<1>4. RelationsTyped'  BY <1>2 DEF LInv, RelationsTyped
<1>5. HistoryOfLoad'  BY <1>1, <1>2 DEF HistoryOfLoad, Owned
<1>6. ChunksRead'  BY <1>1, <1>2, <1>3 DEF LInv, ChunksRead
<1>7. KeyRead' /\ SingleIsTrue'  BY <1>2, <1>3 DEF KeyRead, SingleIsTrue
<1>8. Answered'  BY <1>2 DEF LInv, Answered
<1>. QED  BY <1>4, <1>5, <1>6, <1>7, <1>8 DEF LInv

LEMMA AwaitKeeps == ASSUME LInv, NEW r \in Readers, Await(r) PROVE LInv'
<1>1. /\ reader' = [reader EXCEPT ![r].state = "awaits"] /\ UNCHANGED <<what, key, alive>>
      /\ reader \in [Readers -> ReaderStates]
  BY DEF Await, LInv, RelationsTyped
<1>. PICK x : x = [reader[r] EXCEPT !.state = "awaits"]  OBVIOUS
<1>2. x \in ReaderStates /\ x.state = "awaits"  BY <1>1 DEF ReaderStates
<1>3. reader' = [reader EXCEPT ![r] = x]  BY <1>1
<1>4. reader' \in [Readers -> ReaderStates]
      /\ \A q \in Readers : reader'[q] = IF q = r THEN x ELSE reader[q]
  BY <1>1, <1>2, <1>3
<1>5. \A q \in Readers : reader'[q].state \in {"done", "failed"} => reader'[q] = reader[q]
  BY <1>2, <1>4
<1>6. CASE load.phase = "new"
  <2>1. Begin  BY <1>6 DEF Await
  <2>. QED  BY <1>1, <1>4, <1>5, <1>6, <2>1, BeginsLoad
<1>7. CASE load.phase # "new"
  <2>1. UNCHANGED <<load, everTrue, alwaysTrue>>  BY <1>7 DEF Await
  <2>2. RelationsTyped' /\ HistoryOfLoad' /\ ChunksRead' /\ KeyRead' /\ SingleIsTrue'
    BY <1>1, <1>4, <2>1 DEF LInv, RelationsTyped, HistoryOfLoad, ChunksRead, KeyRead, SingleIsTrue, Owned
  <2>3. Answered'  BY <1>5, <2>1 DEF LInv, Answered, Got
  <2>. QED  BY <2>2, <2>3 DEF LInv
<1>. QED  BY <1>6, <1>7

\* A step of a load that reads.
LEMMA ReadsOn ==
    ASSUME LInv, load.phase = "reading", UNCHANGED <<what, key, alive, reader, everTrue, alwaysTrue>>,
           load' \in LoadStates, load'.phase \in {"reading", "done", "failed"},
           ChunksRead', KeyRead', SingleIsTrue'
    PROVE  LInv'
<1>1. RelationsTyped'  BY DEF LInv, RelationsTyped
<1>2. HistoryOfLoad'  BY DEF LInv, HistoryOfLoad, Owned
<1>3. \A r \in Readers : reader[r].state \notin {"done", "failed"}  BY DEF LInv, Answered
<1>4. Answered'  BY <1>3 DEF Answered
<1>. QED  BY <1>1, <1>2, <1>4 DEF LInv

LEMMA ReadCollectionKeeps == ASSUME LInv, ReadCollection PROVE LInv'
<1>. PICK g : g = load.got \cup {o \in Owned(key) : o[1] \in ToSet(Batch)}  OBVIOUS
<1>. PICK a, c : a = Batch /\ c = AfterBatch  OBVIOUS
<1>. PICK p : p = IF c = <<>> THEN "done" ELSE load.phase  OBVIOUS
<1>1. /\ load' = [load EXCEPT !.left = c, !.got = g, !.phase = p]
      /\ UNCHANGED <<what, key, alive, reader, everTrue, alwaysTrue>>
      /\ load.phase = "reading" /\ what.kind = "collection" /\ load \in LoadStates
  BY DEF ReadCollection, Reading, LInv, RelationsTyped
<1>2. /\ load.left \in Seq(Parents) /\ load.got \subseteq everTrue
      /\ \A o \in alwaysTrue : o[1] \in ToSet(what.of) => o \in load.got \/ o[1] \in ToSet(load.left)
      /\ Owned(key) \subseteq everTrue /\ alwaysTrue \subseteq Owned(key)
  BY <1>1 DEF LInv, ChunksRead, HistoryOfLoad
<1>3. c \in Seq(Parents) /\ ToSet(load.left) = ToSet(a) \cup ToSet(c)
  <2>. PICK s, k : s = load.left /\ k = Shorter(RelationBatch, Len(load.left))  OBVIOUS
  <2>1. s \in Seq(Parents) /\ k \in 0..Len(s)  BY <1>2, RelationsAssumption DEF Shorter
  <2>2. InTwo(Parents, s, SubSeq(s, 1, k), SubSeq(s, k + 1, Len(s)))  BY ONLY <2>1, CutInTwo, Zenon
  <2>3. a = SubSeq(s, 1, k)  BY DEF Batch
  <2>4. Len(a) = k  BY <2>1, <2>3, SubSeqProperties
  <2>5. c = SubSeq(s, k + 1, Len(s))  BY <2>4 DEF AfterBatch
  <2>6. InTwo(Parents, s, a, c)  BY ONLY <2>2, <2>3, <2>5, Zenon
  <2>. QED  BY <2>6 DEF InTwo
<1>4. g \subseteq Pairs /\ g \subseteq everTrue
  <2>1. load.got \subseteq Pairs  BY <1>1 DEF LoadStates
  <2>. QED  BY <1>2, <2>1, OwnedIs
<1>5. /\ load' \in LoadStates /\ load'.left = c /\ load'.got = g /\ load'.phase = p
      /\ p \in {"reading", "done"} /\ (p = "done" => c = <<>>)
  <2>1. p \in {"reading", "done"} /\ (p = "done" => c = <<>>)  BY <1>1
  <2>. QED  BY <1>1, <1>3, <1>4, <2>1 DEF LoadStates
<1>6. ChunksRead'
  <2>1. ASSUME NEW o \in alwaysTrue, o[1] \in ToSet(what.of) PROVE o \in g \/ o[1] \in ToSet(c)
    BY <1>2, <1>3, <2>1
  <2>. QED  BY <1>1, <1>3, <1>4, <1>5, <2>1 DEF ChunksRead
<1>7. KeyRead' /\ SingleIsTrue'  BY <1>1 DEF KeyRead, SingleIsTrue
<1>. QED  BY <1>1, <1>5, <1>6, <1>7, ReadsOn

LEMMA ReadSingleKeeps == ASSUME LInv, ReadKey \/ ReadTarget \/ ReadJoined PROVE LInv'
<1>1. /\ load.phase = "reading" /\ what.kind # "collection" /\ load \in LoadStates
      /\ UNCHANGED <<what, key, alive, reader, everTrue, alwaysTrue>>
  BY DEF ReadKey, ReadTarget, ReadJoined, Reading, LInv, RelationsTyped
<1>2. what.of \in Children /\ key[what.of] \in Parents \cup {Nil}
  BY <1>1, RelationsAssumption DEF LInv, RelationsTyped
<1>3. <<key[what.of], what.of>> \in everTrue
  <2>1. <<key[what.of], what.of>> \in Owned(key)  BY <1>2 DEF Owned
  <2>. QED  BY <1>1, <2>1 DEF LInv, HistoryOfLoad
<1>4. load.got = {} /\ (load.fk # Nil => <<load.fk, what.of>> \in everTrue)
  BY <1>1 DEF LInv, KeyRead
<1>5. ChunksRead'  BY <1>1 DEF ChunksRead
<1>6. CASE ReadKey
  <2>1. CASE key[what.of] = Nil
    <3>1. load' = [load EXCEPT !.phase = "done"]  BY <1>6, <2>1 DEF ReadKey
    <3>2. load' \in LoadStates /\ load'.phase = "done" /\ load'.got = load.got /\ load'.fk = load.fk
      BY <1>1, <3>1 DEF LoadStates
    <3>3. KeyRead' /\ SingleIsTrue'  BY <1>1, <1>3, <1>4, <2>1, <3>2 DEF KeyRead, SingleIsTrue
    <3>. QED  BY <1>1, <1>5, <3>2, <3>3, ReadsOn
  <2>2. CASE key[what.of] # Nil
    <3>1. load' = [load EXCEPT !.fk = key[what.of]]  BY <1>6, <2>2 DEF ReadKey
    <3>2. load' \in LoadStates /\ load'.phase = "reading" /\ load'.got = load.got
          /\ load'.fk = key[what.of]
      BY <1>1, <1>2, <3>1 DEF LoadStates
    <3>3. KeyRead' /\ SingleIsTrue'  BY <1>1, <1>3, <1>4, <3>2 DEF KeyRead, SingleIsTrue
    <3>. QED  BY <1>1, <1>5, <3>2, <3>3, ReadsOn
  <2>. QED  BY <2>1, <2>2
<1>7. CASE ReadTarget
  <2>. PICK g : g = IF load.fk \in alive THEN {<<load.fk, what.of>>} ELSE {}  OBVIOUS
  <2>1. load' = [load EXCEPT !.phase = "done", !.got = g] /\ load.fk # Nil /\ what.kind = "single"
    BY <1>7 DEF ReadTarget, Reading
  <2>2. load.fk \in Parents  BY <1>1, <2>1 DEF LoadStates
  <2>3. g \subseteq Pairs  BY <1>2, <2>2 DEF Pairs
  <2>4. load' \in LoadStates /\ load'.phase = "done" /\ load'.got = g /\ load'.fk = load.fk
    BY <1>1, <2>1, <2>3 DEF LoadStates
  <2>5. KeyRead' /\ SingleIsTrue'  BY <1>1, <1>4, <2>1, <2>2, <2>4 DEF KeyRead, SingleIsTrue
  <2>. QED  BY <1>1, <1>5, <2>4, <2>5, ReadsOn
<1>8. CASE ReadJoined
  <2>. PICK g : g = IF key[what.of] = Nil THEN {} ELSE {<<key[what.of], what.of>>}  OBVIOUS
  <2>1. load' = [load EXCEPT !.phase = "done", !.got = g]  BY <1>8 DEF ReadJoined
  <2>2. g \subseteq Pairs  BY <1>2 DEF Pairs
  <2>3. load' \in LoadStates /\ load'.phase = "done" /\ load'.got = g
    BY <1>1, <2>1, <2>2 DEF LoadStates
  <2>4. KeyRead' /\ SingleIsTrue'  BY <1>1, <1>3, <2>3 DEF KeyRead, SingleIsTrue
  <2>. QED  BY <1>1, <1>5, <2>3, <2>4, ReadsOn
<1>. QED  BY <1>6, <1>7, <1>8

LEMMA LoadFailsKeeps == ASSUME LInv, LoadFails PROVE LInv'
<1>1. /\ load.phase = "reading" /\ load \in LoadStates /\ load' = [load EXCEPT !.phase = "failed"]
      /\ UNCHANGED <<what, key, alive, reader, everTrue, alwaysTrue>>
  BY DEF LoadFails, LInv, RelationsTyped
<1>2. load' \in LoadStates /\ load'.phase = "failed" /\ load'.left = load.left  BY <1>1 DEF LoadStates
<1>3. ChunksRead' /\ KeyRead' /\ SingleIsTrue'
  BY <1>1, <1>2 DEF LInv, ChunksRead, KeyRead, SingleIsTrue
<1>. QED  BY <1>1, <1>2, <1>3, ReadsOn

LEMMA AnswerReaderKeeps == ASSUME LInv, NEW r \in Readers, Answer(r) PROVE LInv'
<1>1. /\ reader' = [reader EXCEPT ![r] = Got] /\ load.phase \in {"done", "failed"}
      /\ UNCHANGED <<what, key, alive, load, everTrue, alwaysTrue>>
  BY DEF Answer
<1>2. load \in LoadStates /\ reader \in [Readers -> ReaderStates]  BY DEF LInv, RelationsTyped
<1>3. Got \in ReaderStates  BY <1>1, <1>2 DEF Got, ReaderStates, LoadStates
<1>4. reader' \in [Readers -> ReaderStates]
      /\ \A q \in Readers : reader'[q] = IF q = r THEN Got ELSE reader[q]
  BY <1>1, <1>2, <1>3
<1>5. RelationsTyped' /\ HistoryOfLoad' /\ ChunksRead' /\ KeyRead' /\ SingleIsTrue'
  BY <1>1, <1>4 DEF LInv, RelationsTyped, HistoryOfLoad, ChunksRead, KeyRead, SingleIsTrue, Owned
<1>6. Got' = Got  BY <1>1 DEF Got
<1>7. Answered'  BY <1>1, <1>4, <1>6 DEF LInv, Answered
<1>. QED  BY <1>5, <1>7 DEF LInv

\* Others change a key, or remove a row nobody refers to.
LEMMA RowsChange ==
    ASSUME LInv, NEW k \in [Children -> Parents \cup {Nil}], key' = k, Changed(k),
           alive' \subseteq alive, \A c \in Children : k[c] \in alive' \cup {Nil}
    PROVE  LInv'
<1>1. /\ everTrue' = IF load.phase = "reading" THEN everTrue \cup Owned(k) ELSE everTrue
      /\ alwaysTrue' = IF load.phase = "reading" THEN alwaysTrue \cap Owned(k) ELSE alwaysTrue
      /\ UNCHANGED <<what, load, reader>>
  BY DEF Changed
<1>2. everTrue \subseteq everTrue' /\ alwaysTrue' \subseteq alwaysTrue  BY <1>1
<1>3. RelationsTyped'  BY <1>1 DEF LInv, RelationsTyped
<1>4. Owned(key)' = Owned(k)  BY DEF Owned
<1>5. HistoryOfLoad'  BY <1>1, <1>4 DEF LInv, HistoryOfLoad
<1>6. ChunksRead' /\ KeyRead'  BY <1>1, <1>2 DEF LInv, ChunksRead, KeyRead
<1>7. SingleIsTrue'  BY <1>1, <1>2 DEF LInv, SingleIsTrue
<1>8. Answered'  BY <1>1 DEF LInv, Answered, Got
<1>. QED  BY <1>3, <1>5, <1>6, <1>7, <1>8 DEF LInv

LEMMA NextLInv == LInv /\ [RelationsNext]_relationVars => LInv'
<1>. SUFFICES ASSUME LInv, [RelationsNext]_relationVars PROVE LInv'  OBVIOUS
<1>. USE DEF LInv
<1>1. CASE UNCHANGED relationVars
  BY <1>1 DEF relationVars, RelationsTyped, HistoryOfLoad, ChunksRead, KeyRead, SingleIsTrue, Owned,
              Answered, Got
<1>2. CASE LoadEagerly
  <2>1. load.phase = "new" /\ Begin /\ UNCHANGED <<what, key, alive, reader>>  BY <1>2 DEF LoadEagerly
  <2>2. reader' \in [Readers -> ReaderStates]  BY <2>1 DEF RelationsTyped
  <2>. QED  BY <2>1, <2>2, BeginsLoad
<1>3. CASE ReadCollection  BY <1>3, ReadCollectionKeeps
<1>4. CASE ReadKey \/ ReadTarget \/ ReadJoined  BY <1>4, ReadSingleKeeps
<1>5. CASE LoadFails  BY <1>5, LoadFailsKeeps
<1>6. ASSUME NEW r \in Readers, Await(r) \/ Answer(r) PROVE LInv'
  BY <1>6, AwaitKeeps, AnswerReaderKeeps
<1>7. ASSUME NEW c \in Children, NEW p \in Parents \cup {Nil}, Move(c, p) PROVE LInv'
  <2>. PICK k : k = [key EXCEPT ![c] = p]  OBVIOUS
  <2>1. key' = k /\ Changed(k) /\ UNCHANGED alive /\ p \in alive \cup {Nil}  BY <1>7 DEF Move
  <2>2. key \in [Children -> Parents \cup {Nil}] /\ \A d \in Children : key[d] \in alive \cup {Nil}
    BY DEF RelationsTyped
  <2>3. k \in [Children -> Parents \cup {Nil}] /\ \A d \in Children : k[d] \in alive' \cup {Nil}
    BY <2>1, <2>2
  <2>. QED  BY <2>1, <2>3, RowsChange
<1>8. ASSUME NEW p \in Parents, RemoveParent(p) PROVE LInv'
  <2>. PICK k : k = key  OBVIOUS
  <2>1. key' = k /\ Changed(k) /\ alive' = alive \ {p} /\ \A c \in Children : key[c] # p
    BY <1>8 DEF RemoveParent
  <2>2. k \in [Children -> Parents \cup {Nil}] /\ \A d \in Children : key[d] \in alive \cup {Nil}
    BY DEF RelationsTyped
  <2>3. \A d \in Children : k[d] \in alive' \cup {Nil}  BY <2>1, <2>2
  <2>. QED  BY <2>1, <2>2, <2>3, RowsChange
<1>. QED  BY <1>1, <1>2, <1>3, <1>4, <1>5, <1>6, <1>7, <1>8 DEF RelationsNext

LEMMA LInvHolds == LInv => RelationsAreTrue
<1>. SUFFICES ASSUME LInv PROVE RelationsAreTrue  OBVIOUS
<1>1. CollectionIsTrue
  <2>1. ToSet(<<>>) = {}  BY DEF ToSet
  <2>. QED  BY <2>1 DEF LInv, ChunksRead, CollectionIsTrue
<1>2. ReadersAgree
  <2>. SUFFICES ASSUME NEW r \in Readers, NEW q \in Readers,
                       {reader[r].state, reader[q].state} \cap {"no", "awaits"} = {}
                PROVE  reader[r] = reader[q]
    BY DEF ReadersAgree
  <2>1. reader[r].state \in {"done", "failed"} /\ reader[q].state \in {"done", "failed"}
    BY DEF LInv, RelationsTyped, ReaderStates
  <2>. QED  BY <2>1 DEF LInv, Answered
<1>. QED  BY <1>1, <1>2 DEF LInv, RelationsAreTrue

\* Whatever others move and remove meanwhile, a relation loads what was true at some
\* moment of the load, nothing that was true throughout is missing from a collection, and
\* all readers of a proxy get one answer.
THEOREM RelationsLoadWhatIsTrue == RelationsSpec => []RelationsAreTrue
<1>1. RelationsSpec => []LInv  BY InitLInv, NextLInv, PTL DEF RelationsSpec
<1>. QED  BY <1>1, LInvHolds, PTL

\* For any rows, loads, relations and streams, what a load answers was so while it was
\* awaited: of the row it asked for, of the entities it related, and of the whole stream.
THEOREM LoadsAreAlwaysTrue == BatcherSpec /\ RelationsSpec /\ SnapshotsSpec => []LoadsAreTrue
<1>1. LoadsAnswerTheirRow /\ RelationsAreTrue /\ SnapshotsHold => LoadsAreTrue
  BY DEF LoadsAreTrue
<1>. QED  BY <1>1, BatchedLoadsAreTrue, RelationsLoadWhatIsTrue, AggregatesFromSnapshots, PTL
=============================================================================
