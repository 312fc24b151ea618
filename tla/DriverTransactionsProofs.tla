---------------------- MODULE DriverTransactionsProofs ----------------------
(***************************************************************************)
(* Transactions of the adapters are atomic, for every number of callers,   *)
(* sessions, writes and savepoints, and whatever fails.  What commit() will *)
(* store is in the session's log, which holds the caller's own writes and  *)
(* savepoints and, where a handle is shared, writes of others in between;  *)
(* so the invariant says that the log carries what the caller has counted, *)
(* that a session with a transaction open belongs to the one caller that   *)
(* opened it, and that no log holds writes of a transaction that ended.    *)
(*                                                                         *)
(* And what holds of Statements, for every adapter and text: a statement   *)
(* that is used again holds values of its user only where its user has     *)
(* not set them, and what is collected for a driver is what it will bind.  *)
(* A cursor's rows are those it has fetched, in the buffer or in a read,   *)
(* and it has fetched all of them when it is exhausted.                    *)
(***************************************************************************)
EXTENDS DriverTransactions, Statements, FiniteSetTheorems, WellFoundedInduction, TLAPS

TransactionsSpec == TransactionsInit /\ [][TransactionsNext]_transactionVars

Ids == TxCallers \X Nat
Entries == [kind : {"mark"}, at : Savepoints] \cup [kind : {"write"}, at : Ids]
Outcomes == {"none", "open", "committed", "rolledBack", "refused", "unknown", "dropped"}
ServerStates == [open : BOOLEAN, aborted : BOOLEAN, by : TxCallers \cup {NoSession}, log : Seq(Entries)]

TransactionsTypeOK ==
    /\ driver \in TxAdapters
    /\ clientOpen \in BOOLEAN /\ joined \in BOOLEAN
    /\ conn \in [TxCallers -> BOOLEAN]
    /\ sess \in [TxCallers -> TxSessions \cup {NoSession}]
    /\ server \in [TxSessions -> ServerStates]
    /\ tx \in [TxCallers -> Outcomes]
    /\ failed \in [TxCallers -> BOOLEAN]
    /\ kept \in [TxCallers -> Seq(Entries)]
    /\ written \in [TxCallers -> SUBSET Ids]
    /\ alone \in [TxCallers -> SUBSET Ids]
    /\ durable \subseteq Ids
    /\ writes \in [TxCallers -> Nat]
    /\ begins \in [TxCallers -> Nat]
    /\ txFaults \in Nat

\* Callers of Bun have got into each other's transaction: nothing is promised.
Joint == driver = "bunpg" /\ joined

\* Which session a connection has.
Seats ==
    /\ \A o \in TxCallers : tx[o] = "open" => conn[o]
    /\ driver \in Pooled \cup OneHandle => \A o \in TxCallers : conn[o] => sess[o] # NoSession
    /\ driver \in OneHandle => \A o \in TxCallers : sess[o] \in {Handle, NoSession}
    /\ driver \notin OneHandle =>
          \A o, p \in TxCallers : sess[o] = sess[p] /\ sess[o] # NoSession => o = p
    /\ driver = "libsql" => \A o \in TxCallers : tx[o] = "open" <=> sess[o] # NoSession
    /\ driver = "d1" => \A o \in TxCallers : sess[o] = NoSession

\* The writes there have been.
Issued == {w \in Ids : w[2] <= writes[w[1]]}

Numbers ==
    /\ \A o \in TxCallers : \A w \in written[o] : w \in Issued /\ w[1] = o
    /\ durable \subseteq Issued
    /\ \A s \in TxSessions : WritesOf(server[s].log) \subseteq Issued

\* log holds the entries of own in their order, and between them only writes
\* that are not mine.
Placed(log, own, mine, f) ==
    /\ f \in [1..Len(own) -> 1..Len(log)]
    /\ \A i \in 1..Len(own) : own[i] = log[f[i]]
    /\ \A i, j \in 1..Len(own) : i < j => f[i] < f[j]
    /\ \A j \in 1..Len(log) : \/ \E i \in 1..Len(own) : f[i] = j
                              \/ log[j].kind = "write" /\ log[j].at \notin mine

Carries(log, own, mine) ==
    /\ WritesOf(own) \subseteq mine
    /\ \E f \in [1..Len(own) -> 1..Len(log)] : Placed(log, own, mine, f)

\* The session s as the callers know it: an open transaction is aborted, or its
\* caller has it open; without a transaction the log is empty; a log has no
\* writes of a transaction that is not open in it.
Holds(s, o) == tx[o] = "open" /\ sess[o] = s

Known(s) ==
    /\ ~server[s].open => server[s].log = <<>> /\ ~server[s].aborted
    /\ server[s].open /\ ~server[s].aborted =>
          \E o \in TxCallers : server[s].by = o /\ Holds(s, o)
    /\ \A o \in TxCallers : Holds(s, o) \/ WritesOf(server[s].log) \cap written[o] = {}

\* The transaction that o has open.
Running(o) ==
    tx[o] = "open" =>
        /\ sess[o] \in TxSessions
        /\ server[sess[o]].open /\ server[sess[o]].by = o
        /\ server[sess[o]].aborted => failed[o] /\ driver \in PgFamily
        /\ Carries(server[sess[o]].log, kept[o], written[o])
        /\ Stored(o) = {}

\* What is left of a transaction that has ended.
Over(o) ==
    LET all == WritesOf(kept[o])
    IN /\ tx[o] = "committed" => Stored(o) = all
       /\ tx[o] \in {"rolledBack", "dropped"} => Stored(o) = {}
       /\ tx[o] = "unknown" => Stored(o) \in {{}, all}
       /\ tx[o] # "refused"

\* D1 stores every write by itself.
ByItself ==
    /\ server = [s \in TxSessions |-> Idle]
    /\ \A o \in TxCallers : /\ WritesOf(kept[o]) = written[o] /\ written[o] \subseteq durable
                            /\ tx[o] \in {"none", "open", "committed", "refused"}

Separate == /\ \A s \in TxSessions : Known(s)
            /\ \A o \in TxCallers : Running(o) /\ Over(o)

IInv == /\ TransactionsTypeOK
        /\ Seats
        /\ Numbers
        /\ driver = "d1" => ByItself
        /\ ~Joint /\ driver # "d1" => Separate
        /\ LoneWritesAreStored

USE TransactionsAssumption

-----------------------------------------------------------------------------
(* Logs *)

LEMMA WritesAre ==
    ASSUME NEW log \in Seq(Entries)
    PROVE  \A x : x \in WritesOf(log) <=>
                    \E i \in 1..Len(log) : log[i].kind = "write" /\ log[i].at = x
BY DEF WritesOf, ToSet

LEMMA LatestIsLast ==
    ASSUME NEW n \in Nat, NEW S \in SUBSET (1..n), S # {}
    PROVE  Latest(S) \in S /\ \A j \in S : j <= Latest(S)
<1>. DEFINE R == {ss \in Nat \X Nat : ss[1] < ss[2]}
            T == {k \in Nat : \E i \in S : k = n - i}
<1>1. IsWellFoundedOn(R, Nat)  BY NatLessThanWellFounded DEF OpToRel
<1>2. T \subseteq Nat  OBVIOUS
<1>3. \A i \in S : n - i \in T
  <2>. TAKE i \in S
  <2>1. n - i \in Nat  OBVIOUS
  <2>. QED  BY <2>1
<1>4. T # {}  BY <1>3
<1>. HIDE DEF R
<1>5. \E x \in T : \A y \in T : ~(<<y, x>> \in R)
  <2>. HIDE DEF T
  <2>. QED  BY <1>1, <1>2, <1>4, WFMin
<1>6. PICK x \in T : \A y \in T : ~(<<y, x>> \in R)  BY <1>5
<1>7. \A y \in T : x <= y
  <2>. TAKE y \in T
  <2>1. ~(<<y, x>> \in R) /\ x \in Nat /\ y \in Nat  BY <1>6
  <2>. QED  BY <2>1 DEF R
<1>8. PICK i \in S : x = n - i  OBVIOUS
<1>9. \A j \in S : j <= i
  <2>. TAKE j \in S
  <2>1. n - i <= n - j  BY <1>3, <1>7, <1>8
  <2>. QED  BY <2>1
<1>. HIDE DEF T
<1>. QED  BY <1>9 DEF Latest

\* A name that is in the log has a latest savepoint, and the log is cut there.
LEMMA CutIsPrefix ==
    ASSUME NEW log \in Seq(Entries), NEW name, Positions(log, name) # {}
    PROVE  /\ Latest(Positions(log, name)) \in 1..Len(log)
           /\ Latest(Positions(log, name)) \in Positions(log, name)
           /\ \A j \in Positions(log, name) : j <= Latest(Positions(log, name))
           /\ CutTo(log, name) \in Seq(Entries)
           /\ Len(CutTo(log, name)) = Latest(Positions(log, name))
           /\ \A i \in 1..Latest(Positions(log, name)) : CutTo(log, name)[i] = log[i]
           /\ WritesOf(CutTo(log, name)) \subseteq WritesOf(log)
<1>. DEFINE P == Positions(log, name)
            c == Latest(P)
<1>0. Len(log) \in Nat  OBVIOUS
<1>1. P \subseteq 1..Len(log) /\ P # {}  BY DEF Positions, MarksOf
<1>2. c \in P /\ \A j \in P : j <= c
  <2>. HIDE DEF P
  <2>. QED  BY <1>0, <1>1, LatestIsLast
<1>3. c \in 1..Len(log)  BY <1>1, <1>2
<1>. HIDE DEF c
<1>4. /\ SubSeq(log, 1, c) \in Seq(Entries)
      /\ Len(SubSeq(log, 1, c)) = c
      /\ \A i \in 1..c : SubSeq(log, 1, c)[i] = log[i]
  BY <1>3
<1>. DEFINE L == SubSeq(log, 1, c)
<1>5. WritesOf(L) \subseteq WritesOf(log)
  <2>1. \A x : x \in WritesOf(log) <=>
                  \E i \in 1..Len(log) : log[i].kind = "write" /\ log[i].at = x
    BY WritesAre
  <2>2. L \in Seq(Entries) /\ Len(L) = c /\ \A i \in 1..c : L[i] = log[i]  BY <1>4
  <2>. HIDE DEF L, P
  <2>3. \A x : x \in WritesOf(L) <=> \E i \in 1..c : L[i].kind = "write" /\ L[i].at = x
    BY <2>2, WritesAre
  <2>4. 1..c \subseteq 1..Len(log)  BY <1>3
  <2>. QED  BY <2>1, <2>2, <2>3, <2>4
<1>. QED  BY <1>2, <1>3, <1>4, <1>5 DEF CutTo, c

LEMMA CarriesNothing ==
    ASSUME NEW mine
    PROVE  Carries(<<>>, <<>>, mine) /\ WritesOf(<<>>) = {}
<1>1. WritesOf(<<>>) = {}  BY DEF WritesOf, ToSet
<1>2. Placed(<<>>, <<>>, mine, [i \in 1..0 |-> 0])  BY DEF Placed
<1>3. [i \in 1..0 |-> 0] \in [1..Len(<<>>) -> 1..Len(<<>>)]  OBVIOUS
<1>. QED  BY <1>1, <1>2, <1>3 DEF Carries

\* What of the log is mine is what I have counted.
LEMMA MineInTheLog ==
    ASSUME NEW log \in Seq(Entries), NEW own \in Seq(Entries), NEW mine,
           Carries(log, own, mine)
    PROVE  WritesOf(log) \cap mine = WritesOf(own)
<1>. PICK f \in [1..Len(own) -> 1..Len(log)] : Placed(log, own, mine, f)  BY DEF Carries
<1>1. ASSUME NEW x \in WritesOf(log), x \in mine PROVE x \in WritesOf(own)
  <2>. PICK j \in 1..Len(log) : log[j].kind = "write" /\ log[j].at = x  BY <1>1, WritesAre
  <2>. PICK i \in 1..Len(own) : f[i] = j  BY <1>1 DEF Placed
  <2>. QED  BY SMTT(30), WritesAre DEF Placed
<1>2. ASSUME NEW x \in WritesOf(own) PROVE x \in WritesOf(log) /\ x \in mine
  <2>1. x \in mine  BY DEF Carries
  <2>. PICK i \in 1..Len(own) : own[i].kind = "write" /\ own[i].at = x  BY WritesAre
  <2>2. f[i] \in 1..Len(log) /\ log[f[i]] = own[i]  BY DEF Placed
  <2>. QED  BY <2>1, <2>2, WritesAre
<1>. QED  BY <1>1, <1>2

LEMMA WritesOfAppended ==
    ASSUME NEW log \in Seq(Entries), NEW e \in Entries
    PROVE  /\ Append(log, e) \in Seq(Entries)
           /\ e.kind = "write" => WritesOf(Append(log, e)) = WritesOf(log) \cup {e.at}
           /\ e.kind = "mark" => WritesOf(Append(log, e)) = WritesOf(log)
<1>. DEFINE L == Append(log, e)
            n == Len(log)
<1>0. n \in Nat  OBVIOUS
<1>1. /\ L \in Seq(Entries)
      /\ Len(L) = n + 1
      /\ \A i \in 1..n : L[i] = log[i]
      /\ L[n + 1] = e
  OBVIOUS
<1>2. \A x : x \in WritesOf(log) <=> \E i \in 1..n : log[i].kind = "write" /\ log[i].at = x
  BY WritesAre
<1>. HIDE DEF L, n
<1>3. \A x : x \in WritesOf(L) <=> \E i \in 1..(n + 1) : L[i].kind = "write" /\ L[i].at = x
  BY <1>1, WritesAre
<1>4. 1..(n + 1) = 1..n \cup {n + 1}  BY <1>0
<1>5. \A x : x \in WritesOf(L) <=> x \in WritesOf(log) \/ (e.kind = "write" /\ e.at = x)
  BY <1>1, <1>2, <1>3, <1>4
<1>6. e.kind = "write" => WritesOf(L) = WritesOf(log) \cup {e.at}  BY <1>5
<1>7. e.kind = "mark" => WritesOf(L) = WritesOf(log)  BY <1>5
<1>. QED  BY <1>1, <1>6, <1>7 DEF L

\* The caller adds an entry of its own.
LEMMA CarriesOwn ==
    ASSUME NEW log \in Seq(Entries), NEW own \in Seq(Entries), NEW mine, NEW e \in Entries, NEW more,
           Carries(log, own, mine),
           \/ e.kind = "write" /\ more = mine \cup {e.at} /\ e.at \notin WritesOf(log)
           \/ e.kind = "mark" /\ more = mine
    PROVE  Carries(Append(log, e), Append(own, e), more)
<1>. PICK f \in [1..Len(own) -> 1..Len(log)] : Placed(log, own, mine, f)  BY DEF Carries
<1>. DEFINE m == Len(own)
            n == Len(log)
            L == Append(log, e)
            O == Append(own, e)
            g == [i \in 1..(m + 1) |-> IF i = m + 1 THEN n + 1 ELSE f[i]]
<1>0. m \in Nat /\ n \in Nat  OBVIOUS
<1>1. /\ Len(L) = n + 1 /\ L[n + 1] = e /\ \A i \in 1..n : L[i] = log[i]
      /\ Len(O) = m + 1 /\ O[m + 1] = e /\ \A i \in 1..m : O[i] = own[i]
  OBVIOUS
<1>2. /\ \A i \in 1..m : f[i] \in 1..n /\ own[i] = log[f[i]]
      /\ \A i, j \in 1..m : i < j => f[i] < f[j]
      /\ \A j \in 1..n : (\E i \in 1..m : f[i] = j) \/ (log[j].kind = "write" /\ log[j].at \notin mine)
  BY DEF Placed
<1>3. WritesOf(O) \subseteq more  BY WritesOfAppended DEF Carries
<1>4. \A j \in 1..n : log[j].kind = "write" => log[j].at \in WritesOf(log)  BY WritesAre
<1>. HIDE DEF L, O, m, n
<1>5. g \in [1..(m + 1) -> 1..(n + 1)]  BY <1>0, <1>2
<1>6. \A i \in 1..m : g[i] = f[i]  BY <1>0
<1>7. g[m + 1] = n + 1  BY <1>0
<1>. HIDE DEF g
<1>8. \A i \in 1..(m + 1) : i \in 1..m \/ i = m + 1  BY <1>0
<1>9. \A j \in 1..(n + 1) : j \in 1..n \/ j = n + 1  BY <1>0
<1>10. \A i \in 1..(m + 1) : O[i] = L[g[i]]
  <2>. TAKE i \in 1..(m + 1)
  <2>1. CASE i \in 1..m  BY <2>1, <1>1, <1>2, <1>6
  <2>2. CASE i = m + 1  BY <2>2, <1>1, <1>7
  <2>. QED  BY <1>8, <2>1, <2>2
<1>11. \A i, j \in 1..(m + 1) : i < j => g[i] < g[j]
  <2>. TAKE i, j \in 1..(m + 1)
  <2>. HAVE i < j
  <2>1. i \in 1..m  BY <1>0
  <2>2. CASE j \in 1..m  BY <2>1, <2>2, <1>2, <1>6
  <2>3. CASE j = m + 1
    <3>1. f[i] \in 1..n  BY <2>1, <1>2
    <3>. QED  BY <1>0, <2>1, <2>3, <3>1, <1>6, <1>7
  <2>. QED  BY <1>8, <2>2, <2>3
<1>12. \A j \in 1..(n + 1) : (\E i \in 1..(m + 1) : g[i] = j) \/ (L[j].kind = "write" /\ L[j].at \notin more)
  <2>. TAKE j \in 1..(n + 1)
  <2>1. CASE j = n + 1
    <3>1. m + 1 \in 1..(m + 1)  BY <1>0
    <3>. QED  BY <3>1, <2>1, <1>7
  <2>2. CASE j \in 1..n /\ \E i \in 1..m : f[i] = j
    <3>. PICK i \in 1..m : f[i] = j  BY <2>2
    <3>1. i \in 1..(m + 1)  BY <1>0
    <3>. QED  BY <3>1, <1>6
  <2>3. CASE j \in 1..n /\ log[j].kind = "write" /\ log[j].at \notin mine
    <3>1. log[j].at \notin more  BY <2>3, <1>4
    <3>. QED  BY <2>3, <3>1, <1>1
  <2>. QED  BY <2>1, <2>2, <2>3, <1>2, <1>9
<1>13. Placed(L, O, more, g)  BY <1>1, <1>5, <1>10, <1>11, <1>12 DEF Placed
<1>. QED  BY <1>1, <1>3, <1>5, <1>13 DEF Carries, L, O

\* Somebody else's write comes in between.
LEMMA CarriesOther ==
    ASSUME NEW log \in Seq(Entries), NEW own \in Seq(Entries), NEW mine, NEW e \in Entries,
           Carries(log, own, mine), e.kind = "write", e.at \notin mine
    PROVE  Carries(Append(log, e), own, mine)
<1>. PICK f \in [1..Len(own) -> 1..Len(log)] : Placed(log, own, mine, f)  BY DEF Carries
<1>1. /\ Len(Append(log, e)) = Len(log) + 1 /\ Append(log, e)[Len(log) + 1] = e
      /\ \A i \in 1..Len(log) : Append(log, e)[i] = log[i]
  OBVIOUS
<1>2. f \in [1..Len(own) -> 1..(Len(log) + 1)]  OBVIOUS
<1>3. \A j \in 1..(Len(log) + 1) : j \in 1..Len(log) \/ j = Len(log) + 1  OBVIOUS
<1>4. Placed(Append(log, e), own, mine, f)
  <2>1. \A i \in 1..Len(own) : own[i] = Append(log, e)[f[i]]  BY <1>1 DEF Placed
  <2>2. \A j \in 1..(Len(log) + 1) : \/ \E i \in 1..Len(own) : f[i] = j
                                     \/ Append(log, e)[j].kind = "write" /\ Append(log, e)[j].at \notin mine
    BY <1>1, <1>3 DEF Placed
  <2>. QED  BY <1>1, <1>2, <2>1, <2>2 DEF Placed
<1>. QED  BY <1>1, <1>2, <1>4 DEF Carries

\* ROLLBACK TO SAVEPOINT cuts both at the same entry.
LEMMA CarriesCut ==
    ASSUME NEW log \in Seq(Entries), NEW own \in Seq(Entries), NEW mine, NEW name,
           Carries(log, own, mine),
           Positions(log, name) # {}, Positions(own, name) # {}
    PROVE  Carries(CutTo(log, name), CutTo(own, name), mine)
<1>. PICK f \in [1..Len(own) -> 1..Len(log)] : Placed(log, own, mine, f)  BY DEF Carries
<1>. DEFINE c == Latest(Positions(own, name))
            d == Latest(Positions(log, name))
            L == CutTo(log, name)
            O == CutTo(own, name)
            g == [i \in 1..c |-> f[i]]
<1>1. /\ c \in 1..Len(own) /\ c \in Positions(own, name)
      /\ \A j \in Positions(own, name) : j <= c
      /\ Len(O) = c /\ \A i \in 1..c : O[i] = own[i]
      /\ WritesOf(O) \subseteq WritesOf(own)
  BY CutIsPrefix
<1>2. /\ d \in 1..Len(log) /\ d \in Positions(log, name)
      /\ \A j \in Positions(log, name) : j <= d
      /\ Len(L) = d /\ \A i \in 1..d : L[i] = log[i]
  BY CutIsPrefix
<1>3. /\ \A i \in 1..Len(own) : f[i] \in 1..Len(log) /\ own[i] = log[f[i]]
      /\ \A i, j \in 1..Len(own) : i < j => f[i] < f[j]
      /\ \A j \in 1..Len(log) : (\E i \in 1..Len(own) : f[i] = j)
                                \/ (log[j].kind = "write" /\ log[j].at \notin mine)
  BY DEF Placed
<1>4. \A i \in 1..Len(own) : f[i] \in Positions(log, name) <=> i \in Positions(own, name)
  BY <1>3 DEF Positions, MarksOf
<1>5. f[c] = d
  <2>1. log[d].kind # "write"  BY <1>2 DEF Positions, MarksOf
  <2>. PICK i \in 1..Len(own) : f[i] = d  BY <1>2, <1>3, <2>1
  <2>2. i \in Positions(own, name)  BY <1>2, <1>4
  <2>3. i <= c  BY <1>1, <2>2
  <2>4. f[c] <= d  BY <1>1, <1>2, <1>4
  <2>5. i < c => d < f[c]  BY <1>1, <1>3
  <2>6. f[c] \in Nat /\ d \in Nat /\ i \in Nat /\ c \in Nat  BY <1>1, <1>2, <1>3
  <2>. QED  BY <2>3, <2>4, <2>5, <2>6
<1>. HIDE DEF c, d, L, O
<1>6. \A i \in 1..c : i \in 1..Len(own)  BY <1>1
<1>7. \A i \in 1..c : f[i] \in 1..d
  <2>. TAKE i \in 1..c
  <2>1. i < c => f[i] < d  BY <1>1, <1>3, <1>5, <1>6
  <2>2. f[i] \in 1..Len(log)  BY <1>3, <1>6
  <2>. QED  BY <1>1, <1>2, <1>5, <2>1, <2>2
<1>8. g \in [1..c -> 1..d]  BY <1>7
<1>9. \A i \in 1..c : g[i] = f[i]  OBVIOUS
<1>. HIDE DEF g
<1>10. \A i \in 1..c : O[i] = L[g[i]]  BY SMTT(30), <1>1, <1>2, <1>3, <1>6, <1>7, <1>9
<1>11. \A i, j \in 1..c : i < j => g[i] < g[j]  BY <1>3, <1>6, <1>9
<1>12. \A j \in 1..d : (\E i \in 1..c : g[i] = j) \/ (L[j].kind = "write" /\ L[j].at \notin mine)
  <2>. TAKE j \in 1..d
  <2>0. j \in 1..Len(log)  BY <1>2
  <2>1. CASE \E i \in 1..Len(own) : f[i] = j
    <3>. PICK i \in 1..Len(own) : f[i] = j  BY <2>1
    <3>1. c < i => d < j  BY <1>1, <1>3, <1>5
    <3>2. i \in 1..c  BY <1>1, <1>2, <3>1
    <3>. QED  BY <3>2, <1>9
  <2>2. CASE log[j].kind = "write" /\ log[j].at \notin mine  BY <2>2, <1>2
  <2>. QED  BY <2>0, <2>1, <2>2, <1>3
<1>13. Placed(L, O, mine, g)  BY <1>1, <1>2, <1>8, <1>10, <1>11, <1>12 DEF Placed
<1>14. WritesOf(O) \subseteq mine  BY <1>1 DEF Carries
<1>. QED  BY <1>1, <1>2, <1>8, <1>13, <1>14 DEF Carries, L, O

-----------------------------------------------------------------------------
(* What a step leaves alone *)

\* Writes that become durable and are not of o's transaction do not matter to it.
LEMMA RunningFrame ==
    ASSUME NEW o \in TxCallers, Running(o), driver' = driver,
           tx'[o] = tx[o], failed'[o] = failed[o], kept'[o] = kept[o], written'[o] = written[o],
           tx[o] = "open" => sess'[o] = sess[o] /\ server'[sess[o]] = server[sess[o]],
           durable \subseteq durable', durable' \cap written[o] \subseteq durable
    PROVE  Running(o)'
<1>1. Stored(o)' = Stored(o)  BY DEF Stored
<1>. QED  BY <1>1 DEF Running

LEMMA OverFrame ==
    ASSUME NEW o \in TxCallers, Over(o),
           tx'[o] = tx[o], kept'[o] = kept[o], written'[o] = written[o],
           durable \subseteq durable', durable' \cap written[o] \subseteq durable
    PROVE  Over(o)'
<1>1. Stored(o)' = Stored(o)  BY DEF Stored
<1>. QED  BY <1>1 DEF Over

\* A caller that holds s still does; one that begins has written nothing yet.
LEMMA KnownFrame ==
    ASSUME NEW s \in TxSessions, Known(s), server'[s] = server[s],
           \A o \in TxCallers : Holds(s, o) => Holds(s, o)',
           \A o \in TxCallers : written'[o] \subseteq written[o]
    PROVE  Known(s)'
BY DEF Known

LEMMA NumbersFrame ==
    ASSUME TransactionsTypeOK, Numbers, writes' = writes,
           \A o \in TxCallers : written'[o] \subseteq written[o],
           durable' \subseteq Issued,
           \A s \in TxSessions : WritesOf(server'[s].log) \subseteq Issued
    PROVE  Numbers'
<1>1. Issued' = Issued  BY DEF Issued
<1>. QED  BY <1>1 DEF Numbers

LEMMA LoneFrame ==
    ASSUME LoneWritesAreStored, driver' = driver, alone' = alone, durable \subseteq durable'
    PROVE  LoneWritesAreStored'
BY DEF LoneWritesAreStored

\* A caller holds one session, and a session has one holder.
LEMMA OneHolder ==
    ASSUME Separate, NEW s \in TxSessions, NEW o \in TxCallers, NEW p \in TxCallers,
           Holds(s, o), Holds(s, p)
    PROVE  o = p
BY DEF Separate, Running, Holds

LEMMA InitIInv == TransactionsInit => IInv
<1>. SUFFICES ASSUME NEW a \in TxAdapters, TransactionsStart(a) PROVE IInv
  BY DEF TransactionsInit
<1>. USE DEF TransactionsStart
<1>1. <<>> \in Seq(Entries) /\ WritesOf(<<>>) = {}  BY DEF WritesOf, ToSet
<1>2. Idle \in ServerStates /\ Idle.log = <<>> /\ ~Idle.open /\ ~Idle.aborted
  BY <1>1 DEF Idle, ServerStates
<1>3. TransactionsTypeOK  BY <1>1, <1>2 DEF TransactionsTypeOK, Outcomes
<1>4. Seats  BY DEF Seats
<1>5. Numbers  BY <1>1, <1>2 DEF Numbers
<1>6. ByItself  BY <1>1 DEF ByItself
<1>7. \A s \in TxSessions : Known(s)  BY <1>1, <1>2 DEF Known
<1>8. \A o \in TxCallers : Running(o) /\ Over(o)  BY DEF Running, Over
<1>9. LoneWritesAreStored  BY DEF LoneWritesAreStored
<1>. QED  BY <1>3, <1>4, <1>5, <1>6, <1>7, <1>8, <1>9 DEF IInv, Separate

-----------------------------------------------------------------------------
(* Connections *)

\* A caller without a transaction gets or gives back a session.
LEMMA ReseatKeeps ==
    ASSUME IInv, NEW o \in TxCallers, tx[o] # "open", Seats',
           conn' \in [TxCallers -> BOOLEAN],
           sess' \in [TxCallers -> TxSessions \cup {NoSession}],
           \A p \in TxCallers : p # o => sess'[p] = sess[p],
           UNCHANGED <<driver, clientOpen, server, tx, failed, kept, written, alone, durable, joined,
                       writes, begins, txFaults>>
    PROVE  IInv'
<1>1. TransactionsTypeOK'  BY DEF IInv, TransactionsTypeOK
<1>2. Numbers'  BY DEF IInv, Numbers, Issued
<1>3. ByItself' <=> ByItself  BY DEF ByItself
<1>4. LoneWritesAreStored'  BY DEF IInv, LoneWritesAreStored
<1>5. ASSUME Separate PROVE Separate'
  <2>1. ASSUME NEW p \in TxCallers PROVE Running(p)' /\ Over(p)'
    <3>1. tx[p] = "open" => sess'[p] = sess[p]  OBVIOUS
    <3>2. Running(p) /\ Over(p)  BY <1>5 DEF Separate
    <3>. QED  BY <3>1, <3>2, RunningFrame, OverFrame
  <2>2. ASSUME NEW s \in TxSessions PROVE Known(s)'
    <3>1. Known(s)  BY <1>5 DEF Separate
    <3>2. \A p \in TxCallers : Holds(s, p) => Holds(s, p)'  BY DEF Holds
    <3>. QED  BY <3>1, <3>2, KnownFrame
  <2>. QED  BY <2>1, <2>2 DEF Separate
<1>6. Joint' <=> Joint  BY DEF Joint
<1>. QED  BY <1>1, <1>2, <1>3, <1>4, <1>5, <1>6 DEF IInv

LEMMA GetKeeps ==
    ASSUME IInv, NEW o \in TxCallers, GetTxConnection(o)
    PROVE  IInv'
<1>. USE DEF IInv, TransactionsTypeOK, Seats
<1>1. ~conn[o] /\ tx[o] # "open" /\ conn' = [conn EXCEPT ![o] = TRUE]
  BY DEF GetTxConnection
<1>2. /\ sess' \in [TxCallers -> TxSessions \cup {NoSession}]
      /\ \A p \in TxCallers : p # o => sess'[p] = sess[p]
  BY ZenonT(60) DEF GetTxConnection
<1>3. conn' \in [TxCallers -> BOOLEAN]  BY <1>1
<1>4. UNCHANGED <<driver, clientOpen, server, tx, failed, kept, written, alone, durable, joined,
                  writes, begins, txFaults>>
  BY DEF GetTxConnection
<1>5. Seats'
  <2>1. CASE driver \in Pooled
    <3>. PICK s \in TxSessions : Unused(s) /\ sess' = [sess EXCEPT ![o] = s]
      BY <2>1 DEF GetTxConnection, Pooled, OneHandle
    <3>1. driver \notin OneHandle /\ driver # "libsql" /\ driver # "d1"
      BY <2>1 DEF Pooled, OneHandle
    <3>2. \A p \in TxCallers : sess[p] # s  BY DEF Unused
    <3>. QED  BY <1>1, <1>4, <2>1, <3>1, <3>2
  <2>2. CASE driver \in OneHandle
    <3>1. sess' = [sess EXCEPT ![o] = Handle] /\ driver # "libsql" /\ driver # "d1"
      BY <2>2 DEF GetTxConnection, Pooled, OneHandle
    <3>2. Handle # NoSession  OBVIOUS
    <3>. QED  BY <1>1, <1>4, <2>2, <3>1, <3>2
  <2>3. CASE driver \in {"libsql", "d1"}
    <3>1. sess' = sess /\ driver \notin Pooled \cup OneHandle
      BY <2>3 DEF GetTxConnection, Pooled, OneHandle
    <3>. QED  BY <1>1, <1>4, <2>3, <3>1
  <2>. QED  BY <2>1, <2>2, <2>3 DEF GetTxConnection
<1>. QED  BY <1>1, <1>2, <1>3, <1>4, <1>5, ReseatKeeps

LEMMA CloseKeeps ==
    ASSUME IInv, NEW o \in TxCallers, CloseTxConnection(o)
    PROVE  IInv'
<1>. USE DEF IInv, TransactionsTypeOK, Seats
<1>1. /\ conn[o] /\ tx[o] # "open" /\ driver # "libsql"
      /\ conn' = [conn EXCEPT ![o] = FALSE] /\ sess' = [sess EXCEPT ![o] = NoSession]
      /\ UNCHANGED <<driver, clientOpen, server, tx, failed, kept, written, alone, durable, joined,
                     writes, begins, txFaults>>
  BY DEF CloseTxConnection
<1>2. Seats'  BY <1>1
<1>. QED  BY <1>1, <1>2, ReseatKeeps

-----------------------------------------------------------------------------
(* The end of a transaction *)

LEMMA SeatOfOpen ==
    ASSUME IInv, NEW o \in TxCallers, tx[o] = "open", driver # "d1"
    PROVE  sess[o] \in TxSessions
<1>1. driver \in Pooled \cup OneHandle \/ driver = "libsql"
  BY DEF IInv, TransactionsTypeOK, Pooled, OneHandle
<1>. QED  BY <1>1 DEF IInv, TransactionsTypeOK, Seats

LEMMA LogsAre ==
    ASSUME IInv, NEW s \in TxSessions
    PROVE  /\ server[s] \in ServerStates /\ server[s].log \in Seq(Entries)
           /\ WritesOf(server[s].log) \subseteq Issued /\ Issued \subseteq Ids
BY DEF IInv, TransactionsTypeOK, ServerStates, Numbers, Issued

\* The session of o is idle again, and either all of its log is stored or nothing.
LEMMA EndKeeps ==
    ASSUME IInv, NEW o \in TxCallers, tx[o] = "open", driver # "d1",
           NEW outcome \in {"committed", "rolledBack", "unknown", "dropped"},
           NEW D \in {{}, WritesOf(server[sess[o]].log)},
           outcome = "committed" /\ ~Joint => D = WritesOf(server[sess[o]].log),
           outcome \in {"rolledBack", "dropped"} => D = {},
           server' = [server EXCEPT ![sess[o]] = Idle],
           durable' = durable \cup D,
           tx' = [tx EXCEPT ![o] = outcome],
           sess' = IF driver = "libsql" THEN [sess EXCEPT ![o] = NoSession] ELSE sess,
           conn' \in [TxCallers -> BOOLEAN], txFaults' \in Nat, Seats',
           UNCHANGED <<driver, clientOpen, failed, kept, written, alone, joined, writes, begins>>
    PROVE  IInv'
<1>. DEFINE s == sess[o]
<1>0. s \in TxSessions  BY SeatOfOpen
<1>1. /\ server[s].log \in Seq(Entries) /\ WritesOf(server[s].log) \subseteq Issued
      /\ D \subseteq Issued /\ Issued \subseteq Ids
  BY <1>0, LogsAre
<1>2. Idle \in ServerStates /\ Idle.log = <<>> /\ ~Idle.open /\ ~Idle.aborted /\ WritesOf(<<>>) = {}
  BY DEF Idle, ServerStates, WritesOf, ToSet
<1>3. TransactionsTypeOK'
  <2>. USE DEF IInv, TransactionsTypeOK
  <2>1. server' \in [TxSessions -> ServerStates]  BY <1>0, <1>2
  <2>2. tx' \in [TxCallers -> Outcomes]  BY DEF Outcomes
  <2>3. sess' \in [TxCallers -> TxSessions \cup {NoSession}]  OBVIOUS
  <2>4. durable' \subseteq Ids  BY <1>1
  <2>. QED  BY <2>1, <2>2, <2>3, <2>4
<1>4. Numbers'
  <2>1. durable' \subseteq Issued  BY <1>1 DEF IInv, Numbers
  <2>2. \A t \in TxSessions : WritesOf(server'[t].log) \subseteq Issued
    BY <1>0, <1>2 DEF IInv, TransactionsTypeOK, Numbers
  <2>. QED  BY <2>1, <2>2, NumbersFrame DEF IInv
<1>5. LoneWritesAreStored'  BY LoneFrame DEF IInv
<1>6. ASSUME ~Joint, Separate PROVE Separate'
  <2>0. /\ server[s].open /\ server[s].by = o /\ Stored(o) = {} /\ Holds(s, o)
        /\ WritesOf(server[s].log) \cap written[o] = WritesOf(kept[o])
    <3>1. Running(o) /\ kept[o] \in Seq(Entries)  BY <1>6 DEF Separate, IInv, TransactionsTypeOK
    <3>. QED  BY <1>1, <3>1, MineInTheLog DEF Running, Holds
  <2>1. \A p \in TxCallers : Holds(s, p) => p = o  BY <1>0, <1>6, <2>0, OneHolder
  <2>2. ASSUME NEW p \in TxCallers, p # o PROVE Running(p)' /\ Over(p)'
    <3>1. Running(p) /\ Over(p)  BY <1>6 DEF Separate
    <3>2. Known(s)  BY <1>0, <1>6 DEF Separate
    <3>3. D \cap written[p] = {}  BY <2>1, <2>2, <3>2 DEF Known
    <3>4. sess'[p] = sess[p] /\ tx'[p] = tx[p]
      BY <2>2 DEF IInv, TransactionsTypeOK
    <3>5. tx[p] = "open" => sess[p] # s  BY <2>1, <2>2 DEF Holds
    <3>6. server'[sess[p]] = server[sess[p]] \/ tx[p] # "open"
      BY <3>1, <3>5 DEF Running, IInv, TransactionsTypeOK
    <3>7. durable \subseteq durable' /\ durable' \cap written[p] \subseteq durable  BY <3>3
    <3>. QED  BY <3>1, <3>4, <3>6, <3>7, RunningFrame, OverFrame
  <2>3. Running(o)' /\ Over(o)'
    <3>1. tx'[o] = outcome  BY DEF IInv, TransactionsTypeOK
    <3>2. Stored(o)' = D \cap written[o]  BY <2>0 DEF Stored
    <3>3. D = {} => Stored(o)' = {}  BY <3>2
    <3>4. D = WritesOf(server[s].log) => Stored(o)' = WritesOf(kept[o])  BY <2>0, <3>2
    <3>. QED  BY <1>6, <3>1, <3>3, <3>4 DEF Running, Over
  <2>4. ASSUME NEW t \in TxSessions PROVE Known(t)'
    <3>1. CASE t = s
      <4>1. server'[t] = Idle  BY <1>0, <3>1 DEF IInv, TransactionsTypeOK
      <4>. QED  BY <1>2, <4>1 DEF Known
    <3>2. CASE t # s
      <4>1. server'[t] = server[t] /\ Known(t)  BY <1>6, <3>2 DEF Separate, IInv, TransactionsTypeOK
      <4>2. ASSUME NEW p \in TxCallers, Holds(t, p) PROVE Holds(t, p)'
        <5>1. p # o  BY <3>2, <4>2 DEF Holds
        <5>. QED  BY <5>1, <4>2 DEF Holds, IInv, TransactionsTypeOK
      <4>. QED  BY <4>1, <4>2, KnownFrame
    <3>. QED  BY <3>1, <3>2
  <2>. QED  BY <2>2, <2>3, <2>4 DEF Separate
<1>7. Joint' <=> Joint  BY DEF Joint
<1>. QED  BY <1>3, <1>4, <1>5, <1>6, <1>7 DEF IInv

\* Where the session of libSQL goes, when the transaction ends.
LEMMA EndedSeats ==
    ASSUME IInv, NEW o \in TxCallers, NEW outcome, outcome # "open", driver' = driver,
           tx[o] = "open",
           tx' = [tx EXCEPT ![o] = outcome],
           sess' = IF driver = "libsql" THEN [sess EXCEPT ![o] = NoSession] ELSE sess,
           \/ conn' = conn
           \/ driver = "libsql" /\ conn' = [conn EXCEPT ![o] = FALSE]
    PROVE  Seats'
<1>1. driver = "libsql" => driver \notin Pooled \cup OneHandle  BY DEF Pooled, OneHandle
<1>. QED  BY <1>1 DEF IInv, TransactionsTypeOK, Seats

LEMMA EndOfStores ==
    ASSUME NEW s, NEW committed \in BOOLEAN, EndOf(s, committed)
    PROVE  \E D \in {{}, WritesOf(server[s].log)} :
              /\ durable' = durable \cup D
              /\ committed /\ ~server[s].aborted => D = WritesOf(server[s].log)
              /\ ~committed => D = {}
BY DEF EndOf

\* Of a transaction in which no statement has failed, none has been aborted.
LEMMA HealthyIsNotAborted ==
    ASSUME IInv, NEW o \in TxCallers, tx[o] = "open", ~failed[o], driver # "d1", ~Joint
    PROVE  ~server[sess[o]].aborted
BY DEF IInv, Separate, Running

LEMMA CommitKeeps ==
    ASSUME IInv, NEW o \in TxCallers, CommitTx(o), driver # "d1"
    PROVE  IInv'
<1>1. /\ tx[o] = "open" /\ ~failed[o] /\ EndOf(sess[o], TRUE) /\ Ended(o, "committed")
      /\ UNCHANGED <<joined, txFaults>>
  BY DEF CommitTx
<1>2. PICK D \in {{}, WritesOf(server[sess[o]].log)} :
          /\ durable' = durable \cup D
          /\ ~server[sess[o]].aborted => D = WritesOf(server[sess[o]].log)
  BY <1>1, EndOfStores
<1>3. ~Joint => D = WritesOf(server[sess[o]].log)  BY <1>1, <1>2, HealthyIsNotAborted
<1>4. /\ tx' = [tx EXCEPT ![o] = "committed"] /\ server' = [server EXCEPT ![sess[o]] = Idle]
      /\ sess' = IF driver = "libsql" THEN [sess EXCEPT ![o] = NoSession] ELSE sess
      /\ UNCHANGED <<driver, clientOpen, conn, failed, kept, written, alone, writes, begins>>
  BY <1>1 DEF Ended, EndOf
<1>5. Seats'  BY <1>1, <1>4, EndedSeats
<1>6. conn' \in [TxCallers -> BOOLEAN] /\ txFaults' \in Nat
  BY <1>1, <1>4 DEF IInv, TransactionsTypeOK
<1>. QED  BY <1>1, <1>2, <1>3, <1>4, <1>5, <1>6, EndKeeps

LEMMA CommitLostKeeps ==
    ASSUME IInv, NEW o \in TxCallers, CommitLost(o)
    PROVE  IInv'
<1>1. /\ tx[o] = "open" /\ driver # "d1" /\ Ended(o, "unknown")
      /\ txFaults' = txFaults + 1 /\ UNCHANGED joined
  BY DEF CommitLost, Pooled
<1>2. PICK committed \in BOOLEAN : EndOf(sess[o], committed)  BY DEF CommitLost
<1>3. PICK D \in {{}, WritesOf(server[sess[o]].log)} : durable' = durable \cup D
  BY <1>2, EndOfStores
<1>4. /\ tx' = [tx EXCEPT ![o] = "unknown"] /\ server' = [server EXCEPT ![sess[o]] = Idle]
      /\ sess' = IF driver = "libsql" THEN [sess EXCEPT ![o] = NoSession] ELSE sess
      /\ UNCHANGED <<driver, clientOpen, conn, failed, kept, written, alone, writes, begins>>
  BY <1>1, <1>2 DEF Ended, EndOf
<1>5. Seats'  BY <1>1, <1>4, EndedSeats
<1>6. conn' \in [TxCallers -> BOOLEAN] /\ txFaults' \in Nat
  BY <1>1, <1>4 DEF IInv, TransactionsTypeOK
<1>. QED  BY <1>1, <1>3, <1>4, <1>5, <1>6, EndKeeps

LEMMA RollbackKeeps ==
    ASSUME IInv, NEW o \in TxCallers, RollbackTx(o), driver # "d1"
    PROVE  IInv'
<1>1. /\ tx[o] = "open" /\ EndOf(sess[o], FALSE) /\ Ended(o, "rolledBack")
      /\ UNCHANGED <<joined, txFaults>>
  BY DEF RollbackTx
<1>2. durable' = durable \cup {}  BY <1>1 DEF EndOf
<1>4. /\ tx' = [tx EXCEPT ![o] = "rolledBack"] /\ server' = [server EXCEPT ![sess[o]] = Idle]
      /\ sess' = IF driver = "libsql" THEN [sess EXCEPT ![o] = NoSession] ELSE sess
      /\ UNCHANGED <<driver, clientOpen, conn, failed, kept, written, alone, writes, begins>>
  BY <1>1 DEF Ended, EndOf
<1>5. Seats'  BY <1>1, <1>4, EndedSeats
<1>6. conn' \in [TxCallers -> BOOLEAN] /\ txFaults' \in Nat
  BY <1>1, <1>4 DEF IInv, TransactionsTypeOK
<1>7. {} \in {{}, WritesOf(server[sess[o]].log)}  OBVIOUS
<1>. QED  BY <1>1, <1>2, <1>4, <1>5, <1>6, <1>7, EndKeeps

LEMMA LibSqlCloseKeeps ==
    ASSUME IInv, NEW o \in TxCallers, LibSqlClose(o)
    PROVE  IInv'
<1>. USE DEF IInv, TransactionsTypeOK
<1>0. /\ driver = "libsql" /\ conn[o]
      /\ conn' = [conn EXCEPT ![o] = FALSE] /\ sess' = [sess EXCEPT ![o] = NoSession]
      /\ server' = [s \in TxSessions |-> IF s = sess[o] THEN Idle ELSE server[s]]
      /\ UNCHANGED <<driver, clientOpen, failed, kept, written, alone, durable, joined, writes,
                     begins, txFaults>>
  BY DEF LibSqlClose
<1>1. CASE tx[o] = "open"
  <2>1. tx' = [tx EXCEPT ![o] = "dropped"]  BY <1>1 DEF LibSqlClose
  <2>2. server' = [server EXCEPT ![sess[o]] = Idle]  BY <1>0
  <2>3. Seats'  BY <1>0, <1>1, <2>1, EndedSeats
  <2>4. {} \in {{}, WritesOf(server[sess[o]].log)} /\ durable' = durable \cup {}  BY <1>0
  <2>5. conn' \in [TxCallers -> BOOLEAN] /\ txFaults' \in Nat  BY <1>0
  <2>. QED  BY <1>0, <1>1, <2>1, <2>2, <2>3, <2>4, <2>5, EndKeeps
<1>2. CASE tx[o] # "open"
  <2>1. tx' = tx  BY <1>2 DEF LibSqlClose
  <2>2. sess[o] = NoSession  BY <1>0, <1>2 DEF Seats
  <2>3. server' = server  BY <1>0, <2>2
  <2>4. driver \notin Pooled \cup OneHandle  BY <1>0 DEF Pooled, OneHandle
  <2>5. Seats'  BY <1>0, <1>2, <2>1, <2>4 DEF Seats
  <2>6. conn' \in [TxCallers -> BOOLEAN] /\ sess' \in [TxCallers -> TxSessions \cup {NoSession}]
    BY <1>0
  <2>. QED  BY <1>0, <1>2, <2>1, <2>3, <2>5, <2>6, ReseatKeeps
<1>. QED  BY <1>1, <1>2

\* The client that all connections of Bun share is closed.
LEMMA BunPgCloseKeeps ==
    ASSUME IInv, NEW o \in TxCallers, BunPgClose(o)
    PROVE  IInv'
<1>. USE DEF IInv, TransactionsTypeOK
<1>0. /\ driver = "bunpg" /\ driver \in OneHandle /\ clientOpen' = FALSE
      /\ conn' = [conn EXCEPT ![o] = FALSE] /\ sess' = [sess EXCEPT ![o] = NoSession]
      /\ server' = [server EXCEPT ![Handle] = Idle]
      /\ tx' = [p \in TxCallers |-> IF tx[p] = "open" THEN "dropped" ELSE tx[p]]
      /\ UNCHANGED <<driver, failed, kept, written, alone, durable, joined, writes, begins, txFaults>>
  BY DEF BunPgClose, OneHandle
<1>2. Idle \in ServerStates /\ Idle.log = <<>> /\ ~Idle.open /\ ~Idle.aborted /\ WritesOf(<<>>) = {}
  BY DEF Idle, ServerStates, WritesOf, ToSet
<1>3. TransactionsTypeOK'
  <2>1. server' \in [TxSessions -> ServerStates]  BY <1>0, <1>2
  <2>2. tx' \in [TxCallers -> Outcomes]  BY <1>0 DEF Outcomes
  <2>3. sess' \in [TxCallers -> TxSessions \cup {NoSession}] /\ conn' \in [TxCallers -> BOOLEAN]
    BY <1>0
  <2>. QED  BY <1>0, <2>1, <2>2, <2>3
<1>4. Seats'
  <2>1. \A p \in TxCallers : tx'[p] # "open"  BY <1>0
  <2>2. driver # "libsql" /\ driver # "d1"  BY <1>0
  <2>. QED  BY <1>0, <2>1, <2>2 DEF Seats
<1>5. Numbers'
  <2>1. \A t \in TxSessions : WritesOf(server'[t].log) \subseteq Issued
    BY <1>0, <1>2 DEF Numbers
  <2>. QED  BY <1>0, <2>1, NumbersFrame DEF Numbers
<1>6. LoneWritesAreStored'  BY <1>0, LoneFrame
<1>7. ASSUME Separate PROVE Separate'
  <2>1. ASSUME NEW p \in TxCallers PROVE Running(p)' /\ Over(p)'
    <3>1. Running(p) /\ Over(p)  BY <1>7 DEF Separate
    <3>2. Stored(p)' = Stored(p)  BY <1>0 DEF Stored
    <3>3. CASE tx[p] = "open"
      <4>1. tx'[p] = "dropped"  BY <1>0, <3>3
      <4>. QED  BY <3>1, <3>2, <3>3, <4>1 DEF Running, Over
    <3>4. CASE tx[p] # "open"
      <4>1. tx'[p] = tx[p]  BY <1>0, <3>4
      <4>. QED  BY <1>0, <3>1, <3>2, <3>4, <4>1 DEF Running, Over
    <3>. QED  BY <3>3, <3>4
  <2>2. ASSUME NEW t \in TxSessions PROVE Known(t)'
    <3>1. CASE t = Handle
      <4>1. server'[t] = Idle  BY <1>0, <3>1
      <4>. QED  BY <1>2, <4>1 DEF Known
    <3>2. CASE t # Handle
      <4>1. server'[t] = server[t] /\ Known(t)  BY <1>0, <1>7, <3>2 DEF Separate
      <4>2. \A p \in TxCallers : ~Holds(t, p)  BY <1>0, <3>2 DEF Holds, Seats
      <4>. QED  BY <1>0, <4>1, <4>2, KnownFrame
    <3>. QED  BY <3>1, <3>2
  <2>. QED  BY <2>1, <2>2 DEF Separate
<1>8. Joint' <=> Joint  BY <1>0 DEF Joint
<1>9. driver # "d1"  BY <1>0
<1>. QED  BY <1>0, <1>3, <1>4, <1>5, <1>6, <1>7, <1>8, <1>9

-----------------------------------------------------------------------------
(* The beginning of a transaction *)

StartedAborted(o) == [Idle EXCEPT !.open = TRUE, !.aborted = TRUE, !.by = o]

LEMMA StartedIs ==
    ASSUME NEW o \in TxCallers
    PROVE  /\ Started(o) \in ServerStates
           /\ Started(o).open /\ ~Started(o).aborted /\ Started(o).by = o /\ Started(o).log = <<>>
           /\ StartedAborted(o) \in ServerStates
           /\ StartedAborted(o).open /\ StartedAborted(o).aborted /\ StartedAborted(o).log = <<>>
<1>1. /\ Idle \in ServerStates /\ ~Idle.open /\ ~Idle.aborted /\ Idle.log = <<>>
      /\ Idle = [open |-> Idle.open, aborted |-> Idle.aborted, by |-> Idle.by, log |-> Idle.log]
  BY DEF Idle, ServerStates
<1>2. /\ Started(o) \in ServerStates
      /\ Started(o).open /\ ~Started(o).aborted /\ Started(o).by = o /\ Started(o).log = <<>>
  BY <1>1 DEF Started, ServerStates
<1>3. /\ StartedAborted(o) \in ServerStates
      /\ StartedAborted(o).open /\ StartedAborted(o).aborted /\ StartedAborted(o).log = <<>>
  BY <1>1 DEF StartedAborted, ServerStates
<1>. QED  BY <1>2, <1>3

LEMMA StartKeeps ==
    ASSUME IInv, NEW o \in TxCallers, tx[o] # "open", driver # "d1",
           NEW s \in TxSessions, NEW st \in ServerStates,
           ~Joint' => ~server[s].open /\ st = Started(o),
           st = Started(o) \/ st = server[s],
           server' = [server EXCEPT ![s] = st],
           sess' = [sess EXCEPT ![o] = s],
           joined' \in BOOLEAN, joined => joined',
           tx' = [tx EXCEPT ![o] = "open"],
           failed' = [failed EXCEPT ![o] = FALSE],
           kept' = [kept EXCEPT ![o] = <<>>],
           written' = [written EXCEPT ![o] = {}],
           begins' \in [TxCallers -> Nat], Seats',
           UNCHANGED <<driver, clientOpen, conn, alone, durable, writes, txFaults>>
    PROVE  IInv'
<1>. USE DEF IInv, TransactionsTypeOK
<1>1. WritesOf(<<>>) = {} /\ <<>> \in Seq(Entries)  BY DEF WritesOf, ToSet
<1>2. TransactionsTypeOK'
  <2>1. tx' \in [TxCallers -> Outcomes]  BY DEF Outcomes
  <2>2. kept' \in [TxCallers -> Seq(Entries)]  BY <1>1
  <2>3. server' \in [TxSessions -> ServerStates]  OBVIOUS
  <2>4. failed' \in [TxCallers -> BOOLEAN] /\ written' \in [TxCallers -> SUBSET Ids]
        /\ sess' \in [TxCallers -> TxSessions \cup {NoSession}]
    OBVIOUS
  <2>. QED  BY <2>1, <2>2, <2>3, <2>4
<1>3. Numbers'
  <2>1. \A t \in TxSessions : WritesOf(server'[t].log) \subseteq Issued
    BY <1>1, StartedIs DEF Numbers
  <2>. QED  BY <2>1, NumbersFrame DEF Numbers
<1>4. LoneWritesAreStored'  BY LoneFrame
<1>5. ASSUME ~Joint', Separate PROVE Separate'
  <2>0. ~server[s].open /\ server' = [server EXCEPT ![s] = Started(o)]  BY <1>5
  <2>1. ASSUME NEW p \in TxCallers, p # o PROVE Running(p)' /\ Over(p)'
    <3>1. Running(p) /\ Over(p)  BY <1>5 DEF Separate
    <3>2. tx[p] = "open" => sess[p] # s  BY <2>0, <3>1 DEF Running
    <3>3. tx[p] = "open" => sess'[p] = sess[p] /\ server'[sess[p]] = server[sess[p]]
      BY <2>1, <3>1, <3>2 DEF Running
    <3>4. tx'[p] = tx[p] /\ failed'[p] = failed[p] /\ kept'[p] = kept[p] /\ written'[p] = written[p]
      BY <2>1
    <3>. QED  BY <3>1, <3>3, <3>4, RunningFrame, OverFrame
  <2>2. Running(o)' /\ Over(o)'
    <3>1. /\ sess'[o] = s /\ server'[s] = Started(o) /\ tx'[o] = "open"
          /\ kept'[o] = <<>> /\ written'[o] = {}
      BY <2>0
    <3>2. Stored(o)' = {}  BY <3>1 DEF Stored
    <3>3. Running(o)'  BY <3>1, <3>2, StartedIs, CarriesNothing DEF Running
    <3>4. Over(o)'  BY <3>1 DEF Over
    <3>. QED  BY <3>3, <3>4
  <2>3. ASSUME NEW t \in TxSessions PROVE Known(t)'
    <3>1. CASE t = s
      <4>1. server'[t] = Started(o) /\ Holds(t, o)'  BY <2>0, <3>1 DEF Holds
      <4>. QED  BY <1>1, <4>1, StartedIs DEF Known
    <3>2. CASE t # s
      <4>1. server'[t] = server[t] /\ Known(t)  BY <1>5, <2>0, <3>2 DEF Separate
      <4>2. ASSUME NEW p \in TxCallers, Holds(t, p) PROVE Holds(t, p)'
        <5>1. p # o  BY <4>2 DEF Holds
        <5>. QED  BY <4>2, <5>1 DEF Holds
      <4>3. \A p \in TxCallers : written'[p] \subseteq written[p]  OBVIOUS
      <4>. QED  BY <4>1, <4>2, <4>3, KnownFrame
    <3>. QED  BY <3>1, <3>2
  <2>. QED  BY <2>1, <2>2, <2>3 DEF Separate
<1>6. ~Joint' => ~Joint  BY DEF Joint
<1>. QED  BY <1>2, <1>3, <1>4, <1>5, <1>6

\* An open session that does not refuse has its holder.
LEMMA OpenIsHeld ==
    ASSUME IInv, ~Joint, driver # "d1", NEW s \in TxSessions,
           server[s].open, ~server[s].aborted
    PROVE  \E p \in TxCallers : server[s].by = p /\ Holds(s, p)
BY DEF IInv, Separate, Known

\* Where a connection has its own session, nobody else's transaction is in it.
LEMMA OwnSessionIsFree ==
    ASSUME IInv, driver \in Pooled, NEW o \in TxCallers, conn[o], tx[o] # "open",
           ~Refuses(sess[o])
    PROVE  ~server[sess[o]].open /\ sess[o] \in TxSessions
<1>1. driver \notin OneHandle /\ driver # "bunpg" /\ driver # "d1"  BY DEF Pooled, OneHandle
<1>2. sess[o] \in TxSessions /\ sess[o] # NoSession  BY DEF IInv, TransactionsTypeOK, Seats
<1>3. ~Joint  BY <1>1 DEF Joint
<1>4. ~server[sess[o]].aborted  BY <1>2 DEF Refuses
<1>5. ASSUME server[sess[o]].open PROVE FALSE
  <2>. PICK p \in TxCallers : Holds(sess[o], p)  BY <1>1, <1>2, <1>3, <1>4, <1>5, OpenIsHeld
  <2>1. p = o  BY <1>1, <1>2 DEF Holds, IInv, Seats
  <2>. QED  BY <2>1 DEF Holds
<1>. QED  BY <1>2, <1>5

LEMMA BeginKeeps ==
    ASSUME IInv, NEW o \in TxCallers, Begin(o), driver # "d1"
    PROVE  IInv'
<1>. USE DEF IInv, TransactionsTypeOK
<1>0. /\ conn[o] /\ tx[o] # "open" /\ ~Refuses(sess[o])
      /\ begins' = [begins EXCEPT ![o] = @ + 1]
      /\ tx' = [tx EXCEPT ![o] = "open"]
      /\ failed' = [failed EXCEPT ![o] = FALSE]
      /\ kept' = [kept EXCEPT ![o] = <<>>]
      /\ written' = [written EXCEPT ![o] = {}]
      /\ UNCHANGED <<driver, clientOpen, conn, alone, writes, txFaults>>
      /\ BeginPg(o) \/ BeginMysql(o) \/ BeginSqlite(o) \/ BeginLibSql(o)
  BY DEF Begin, BeginD1
<1>1. begins' \in [TxCallers -> Nat]  BY <1>0
<1>2. ASSUME NEW s \in TxSessions, NEW st \in ServerStates, Opened(o, s, st)
      PROVE  /\ server' = [server EXCEPT ![s] = st] /\ sess' = [sess EXCEPT ![o] = s]
             /\ joined' \in BOOLEAN /\ (joined => joined')
             /\ driver = "bunpg" /\ ~joined' => ~Joins(o, s)
  BY <1>2 DEF Opened
<1>3. ASSUME NEW s \in TxSessions, sess' = [sess EXCEPT ![o] = s],
             driver # "libsql" => s = sess[o],
             driver \notin OneHandle => \A p \in TxCallers : p # o => sess[p] # s
      PROVE  Seats'
  <2>1. driver = "libsql" => driver \notin Pooled \cup OneHandle  BY DEF Pooled, OneHandle
  <2>2. s # NoSession  OBVIOUS
  <2>. QED  BY <1>0, <1>3, <2>1, <2>2 DEF Seats
<1>4. driver \in OneHandle => sess[o] = Handle  BY <1>0 DEF Seats
<1>5. driver \in Pooled => /\ ~server[sess[o]].open /\ sess[o] \in TxSessions
                           /\ driver \notin OneHandle /\ driver # "libsql" /\ driver # "bunpg"
                           /\ \A p \in TxCallers : p # o => sess[p] # sess[o]
  <2>. SUFFICES ASSUME driver \in Pooled
                PROVE  /\ ~server[sess[o]].open /\ sess[o] \in TxSessions
                       /\ driver \notin OneHandle /\ driver # "libsql" /\ driver # "bunpg"
                       /\ \A p \in TxCallers : p # o => sess[p] # sess[o]
    OBVIOUS
  <2>1. driver \notin OneHandle /\ driver # "libsql" /\ driver # "bunpg"
    BY DEF Pooled, OneHandle
  <2>2. ~server[sess[o]].open /\ sess[o] \in TxSessions  BY <1>0, OwnSessionIsFree
  <2>. QED  BY <2>1, <2>2 DEF Seats
<1>6. Handle \in TxSessions /\ Handle # NoSession  OBVIOUS
<1>7. Started(o) \in ServerStates  BY StartedIs
<1>8. CASE BeginPg(o)
  <2>. DEFINE s == sess[o]
              st == IF server[s].open THEN server[s] ELSE Started(o)
  <2>1. driver \in PgFamily /\ Opened(o, s, st) /\ durable' = durable  BY <1>8 DEF BeginPg
  <2>2. s \in TxSessions /\ st \in ServerStates
    BY <1>4, <1>5, <1>6, <1>7, <2>1 DEF PgFamily, Pooled, OneHandle
  <2>3. ~Joint' => ~server[s].open
    <3>1. CASE driver \in Pooled  BY <1>5, <3>1
    <3>2. CASE driver \notin Pooled
      <4>. SUFFICES ASSUME ~Joint', server[s].open PROVE FALSE  OBVIOUS
      <4>1. driver = "bunpg" /\ ~joined' /\ ~joined
        BY <1>0, <1>2, <2>1, <2>2, <3>2 DEF PgFamily, Pooled, Joint
      <4>2. ~Joins(o, s)  BY <1>2, <2>1, <2>2, <4>1
      <4>3. server[s].by = o  BY <2>2, <4>2 DEF Joins
      <4>4. ~server[s].aborted  BY <1>0, <2>2 DEF Refuses
      <4>5. \E p \in TxCallers : server[s].by = p /\ Holds(s, p)
        BY <2>2, <4>1, <4>4, OpenIsHeld DEF Joint
      <4>. QED  BY <1>0, <4>3, <4>5 DEF Holds
    <3>. QED  BY <3>1, <3>2
  <2>4. driver # "libsql" /\ driver # "d1"  BY <2>1 DEF PgFamily
  <2>5. Seats'
    <3>1. driver \notin OneHandle => driver \in Pooled  BY <2>1 DEF PgFamily, Pooled, OneHandle
    <3>. QED  BY <1>2, <1>3, <1>5, <2>1, <2>2, <3>1
  <2>6. st = Started(o) \/ st = server[s]  OBVIOUS
  <2>7. ~Joint' => st = Started(o)  BY <2>3
  <2>8. /\ server' = [server EXCEPT ![s] = st] /\ sess' = [sess EXCEPT ![o] = s]
        /\ joined' \in BOOLEAN /\ (joined => joined')
    BY <1>2, <2>1, <2>2
  <2>. HIDE DEF s, st
  <2>. QED  BY <1>0, <1>1, <2>1, <2>2, <2>3, <2>4, <2>5, <2>6, <2>7, <2>8, StartKeeps
<1>9. CASE BeginMysql(o)
  <2>. DEFINE s == sess[o]
  <2>1. driver = "mysql" /\ driver \in Pooled /\ Opened(o, s, Started(o))
        /\ durable' = durable \cup WritesOf(server[s].log)
    BY <1>9 DEF BeginMysql, Pooled
  <2>2. s \in TxSessions /\ ~server[s].open  BY <1>5, <2>1
  <2>3. server[s].log = <<>>
    <3>1. Separate  BY <2>1 DEF Joint
    <3>. QED  BY <2>2, <3>1 DEF Separate, Known
  <2>4. durable' = durable  BY <2>1, <2>3 DEF WritesOf, ToSet
  <2>5. /\ server' = [server EXCEPT ![s] = Started(o)] /\ sess' = [sess EXCEPT ![o] = s]
        /\ joined' \in BOOLEAN /\ (joined => joined')
    BY <1>2, <1>7, <2>1, <2>2
  <2>6. Seats'  BY <1>3, <1>5, <2>1, <2>2, <2>5
  <2>. HIDE DEF s
  <2>. QED  BY <1>0, <1>1, <1>7, <2>1, <2>2, <2>4, <2>5, <2>6, StartKeeps
<1>10. CASE BeginSqlite(o)
  <2>1. driver \in OneHandle /\ driver # "libsql" /\ ~server[Handle].open
        /\ Opened(o, Handle, Started(o)) /\ durable' = durable
    BY <1>10 DEF BeginSqlite, OneHandle
  <2>2. /\ server' = [server EXCEPT ![Handle] = Started(o)] /\ sess' = [sess EXCEPT ![o] = Handle]
        /\ joined' \in BOOLEAN /\ (joined => joined')
    BY <1>2, <1>6, <1>7, <2>1
  <2>3. Seats'  BY <1>3, <1>4, <1>6, <2>1, <2>2
  <2>. QED  BY <1>0, <1>1, <1>6, <1>7, <2>1, <2>2, <2>3, StartKeeps
<1>11. CASE BeginLibSql(o)
  <2>. PICK s \in TxSessions : Unused(s) /\ ~server[s].open /\ Opened(o, s, Started(o))
    BY <1>11 DEF BeginLibSql
  <2>1. driver = "libsql" /\ durable' = durable  BY <1>11 DEF BeginLibSql
  <2>2. /\ server' = [server EXCEPT ![s] = Started(o)] /\ sess' = [sess EXCEPT ![o] = s]
        /\ joined' \in BOOLEAN /\ (joined => joined')
    BY <1>2, <1>7
  <2>3. \A p \in TxCallers : sess[p] # s  BY DEF Unused
  <2>4. Seats'  BY <1>3, <2>1, <2>2, <2>3
  <2>. QED  BY <1>0, <1>1, <1>7, <2>1, <2>2, <2>4, StartKeeps
<1>. QED  BY <1>0, <1>8, <1>9, <1>10, <1>11

\* BEGIN was executed and the isolation level refused: the session stays in an
\* aborted transaction that no caller has.
LEMMA BeginRefusedKeeps ==
    ASSUME IInv, NEW o \in TxCallers, BeginRefused(o)
    PROVE  IInv'
<1>. USE DEF IInv, TransactionsTypeOK
<1>. DEFINE s == sess[o]
            st == StartedAborted(o)
<1>0. /\ driver = "pg" /\ driver \in Pooled /\ driver \notin OneHandle
      /\ conn[o] /\ tx[o] # "open" /\ ~Refuses(s)
      /\ server' = [server EXCEPT ![s] = st] /\ txFaults' = txFaults + 1
      /\ UNCHANGED <<driver, clientOpen, conn, sess, tx, failed, kept, written, alone, durable,
                     joined, writes, begins>>
  BY DEF BeginRefused, StartedAborted, Pooled, OneHandle
<1>1. s \in TxSessions /\ ~server[s].open  BY <1>0, OwnSessionIsFree
<1>2. st \in ServerStates /\ st.open /\ st.aborted /\ st.log = <<>> /\ WritesOf(<<>>) = {}
  BY StartedIs DEF WritesOf, ToSet
<1>. HIDE DEF st
<1>3. TransactionsTypeOK'  BY <1>0, <1>1, <1>2
<1>4. Seats'  BY <1>0 DEF Seats
<1>5. Numbers'
  <2>1. \A t \in TxSessions : WritesOf(server'[t].log) \subseteq Issued
    BY <1>0, <1>1, <1>2 DEF Numbers
  <2>. QED  BY <1>0, <2>1, NumbersFrame DEF Numbers
<1>6. LoneWritesAreStored'  BY <1>0, LoneFrame
<1>7. Separate  BY <1>0 DEF Joint
<1>8. Separate'
  <2>1. ASSUME NEW p \in TxCallers PROVE Running(p)' /\ Over(p)'
    <3>1. Running(p) /\ Over(p)  BY <1>7 DEF Separate
    <3>2. tx[p] = "open" => sess[p] # s  BY <1>1, <3>1 DEF Running
    <3>3. tx[p] = "open" => server'[sess[p]] = server[sess[p]]
      BY <1>0, <3>1, <3>2 DEF Running
    <3>. QED  BY <1>0, <3>1, <3>3, RunningFrame, OverFrame
  <2>2. ASSUME NEW t \in TxSessions PROVE Known(t)'
    <3>1. CASE t = s
      <4>1. server'[t] = st  BY <1>0, <1>1, <3>1
      <4>. QED  BY <1>2, <4>1 DEF Known
    <3>2. CASE t # s
      <4>1. server'[t] = server[t] /\ Known(t)  BY <1>0, <1>7, <3>2 DEF Separate
      <4>2. \A p \in TxCallers : Holds(t, p) => Holds(t, p)'  BY <1>0 DEF Holds
      <4>. QED  BY <1>0, <4>1, <4>2, KnownFrame
    <3>. QED  BY <3>1, <3>2
  <2>. QED  BY <2>1, <2>2 DEF Separate
<1>9. driver # "d1"  BY <1>0
<1>. QED  BY <1>0, <1>3, <1>4, <1>5, <1>6, <1>8, <1>9

-----------------------------------------------------------------------------
(* Within a transaction *)

\* The session of o does more of its transaction; W is what o has written.
LEMMA OwnStep ==
    ASSUME IInv, Separate, NEW o \in TxCallers, tx[o] = "open",
           NEW st \in ServerStates, NEW W \in SUBSET Ids,
           server' = [server EXCEPT ![sess[o]] = st],
           st.open, st.by = server[sess[o]].by,
           st.aborted => failed'[o] /\ driver \in PgFamily,
           Carries(st.log, kept'[o], written'[o]),
           WritesOf(st.log) \subseteq WritesOf(server[sess[o]].log) \cup W,
           written'[o] = written[o] \cup W,
           \A w \in W : w \notin Issued /\ w[1] = o,
           \A p \in TxCallers : p # o =>
              failed'[p] = failed[p] /\ kept'[p] = kept[p] /\ written'[p] = written[p],
           UNCHANGED <<driver, sess, tx, durable>>
    PROVE  Separate'
<1>. USE DEF IInv, TransactionsTypeOK
<1>. DEFINE s == sess[o]
<1>1. /\ s \in TxSessions /\ server[s].open /\ server[s].by = o /\ Stored(o) = {} /\ Holds(s, o)
      /\ server'[s] = st
  BY DEF Separate, Running, Holds
<1>2. \A p \in TxCallers : Holds(s, p) => p = o  BY <1>1, OneHolder
<1>3. W \cap durable = {}  BY DEF Numbers
<1>4. ASSUME NEW p \in TxCallers, p # o PROVE Running(p)' /\ Over(p)'
  <2>1. Running(p) /\ Over(p)  BY DEF Separate
  <2>2. tx[p] = "open" => sess[p] # s  BY <1>2, <1>4 DEF Holds
  <2>3. tx[p] = "open" => server'[sess[p]] = server[sess[p]]  BY <2>1, <2>2 DEF Running
  <2>. QED  BY <1>4, <2>1, <2>3, RunningFrame, OverFrame
<1>5. Running(o)' /\ Over(o)'
  <2>1. Stored(o)' = {}  BY <1>1, <1>3 DEF Stored
  <2>. QED  BY <1>1, <2>1 DEF Running, Over
<1>6. ASSUME NEW t \in TxSessions PROVE Known(t)'
  <2>1. Known(t)  BY DEF Separate
  <2>2. \A p \in TxCallers : Holds(t, p)' <=> Holds(t, p)  BY DEF Holds
  <2>3. WritesOf(server[t].log) \cap W = {}  BY DEF Numbers
  <2>4. CASE t = s
    <3>1. \A p \in TxCallers : p # o => WritesOf(server[s].log) \cap written[p] = {}
      BY <1>2, <2>1, <2>4 DEF Known
    <3>2. \A p \in TxCallers : p # o => W \cap written[p] = {}  BY DEF Numbers
    <3>3. \A p \in TxCallers : Holds(t, p)' \/ WritesOf(st.log) \cap written'[p] = {}
      BY ZenonT(60), <1>1, <2>2, <2>4, <3>1, <3>2
    <3>. QED  BY <1>1, <2>2, <2>4, <3>3 DEF Known
  <2>5. CASE t # s
    <3>1. server'[t] = server[t]  BY <2>5
    <3>2. ~Holds(t, o)  BY <2>5 DEF Holds
    <3>3. WritesOf(server[t].log) \cap written'[o] = {}  BY <2>1, <2>3, <3>2 DEF Known
    <3>4. \A p \in TxCallers : Holds(t, p)' \/ WritesOf(server'[t].log) \cap written'[p] = {}
      BY <2>1, <2>2, <3>1, <3>3 DEF Known
    <3>. QED  BY <2>1, <2>2, <3>1, <3>4 DEF Known
  <2>. QED  BY <2>4, <2>5
<1>. QED  BY <1>4, <1>5, <1>6 DEF Separate

\* What the session's log and the count of o have in common.
LEMMA OwnLog ==
    ASSUME IInv, ~Joint, driver # "d1", NEW o \in TxCallers, tx[o] = "open"
    PROVE  /\ Separate
           /\ sess[o] \in TxSessions
           /\ server[sess[o]] \in ServerStates
           /\ server[sess[o]].log \in Seq(Entries) /\ kept[o] \in Seq(Entries)
           /\ Carries(server[sess[o]].log, kept[o], written[o])
           /\ server[sess[o]].open
           /\ server[sess[o]].aborted => failed[o] /\ driver \in PgFamily
<1>1. Separate  BY DEF IInv
<1>2. Running(o)  BY <1>1 DEF Separate
<1>3. sess[o] \in TxSessions  BY <1>2 DEF Running
<1>. QED  BY <1>1, <1>2, <1>3, LogsAre DEF Running, IInv, TransactionsTypeOK

LEMMA WriteFailsKeeps ==
    ASSUME IInv, NEW o \in TxCallers, WriteFails(o)
    PROVE  IInv'
<1>. USE DEF IInv, TransactionsTypeOK
<1>. DEFINE s == sess[o]
            st == [server[s] EXCEPT !.aborted = (driver \in PgFamily)]
<1>0. /\ tx[o] = "open" /\ s # NoSession /\ s \in TxSessions
      /\ server' = [server EXCEPT ![s] = st]
      /\ failed' = [failed EXCEPT ![o] = TRUE]
      /\ txFaults' = txFaults + 1
      /\ joined' = (joined \/ (driver = "bunpg" /\ Joins(o, s)))
      /\ UNCHANGED <<driver, clientOpen, conn, sess, tx, kept, written, alone, durable, writes, begins>>
  BY DEF WriteFails
<1>1. /\ st \in ServerStates /\ st.log = server[s].log /\ st.open = server[s].open
      /\ st.by = server[s].by /\ (st.aborted => driver \in PgFamily)
  <2>1. server[s] \in ServerStates  BY <1>0
  <2>2. ASSUME NEW b \in BOOLEAN
        PROVE  LET r == [server[s] EXCEPT !.aborted = b]
               IN /\ r \in ServerStates /\ r.log = server[s].log /\ r.open = server[s].open
                  /\ r.by = server[s].by /\ r.aborted = b
    BY <2>1 DEF ServerStates
  <2>3. (driver \in PgFamily) \in BOOLEAN  OBVIOUS
  <2>. QED  BY <2>2, <2>3
<1>. HIDE DEF st
<1>2. TransactionsTypeOK'  BY <1>0, <1>1
<1>3. Seats'  BY <1>0 DEF Seats
<1>4. Numbers'
  <2>1. \A t \in TxSessions : WritesOf(server'[t].log) \subseteq Issued  BY <1>0, <1>1 DEF Numbers
  <2>. QED  BY <1>0, <2>1, NumbersFrame DEF Numbers
<1>5. LoneWritesAreStored'  BY <1>0, LoneFrame
<1>6. driver # "d1"  BY <1>0 DEF Seats
<1>7. ASSUME ~Joint' PROVE Separate'
  <2>1. ~Joint  BY <1>0, <1>7 DEF Joint
  <2>2. /\ Separate /\ server[s].open /\ Carries(server[s].log, kept[o], written[o])
    BY <1>0, <1>6, <2>1, OwnLog
  <2>3. {} \in SUBSET Ids  OBVIOUS
  <2>4. failed'[o] /\ written'[o] = written[o] \cup {}  BY <1>0
  <2>5. WritesOf(st.log) \subseteq WritesOf(server[s].log) \cup {}  BY <1>1
  <2>6. Carries(st.log, kept'[o], written'[o])  BY <1>0, <1>1, <2>2
  <2>7. st.open /\ st.by = server[s].by /\ (st.aborted => driver \in PgFamily)  BY <1>1, <2>2
  <2>8. \A p \in TxCallers : p # o =>
           failed'[p] = failed[p] /\ kept'[p] = kept[p] /\ written'[p] = written[p]
    BY <1>0
  <2>9. \A w \in {} : w \notin Issued /\ w[1] = o  OBVIOUS
  <2>. HIDE DEF IInv, TransactionsTypeOK
  <2>. QED  BY <1>0, <1>1, <2>2, <2>3, <2>4, <2>5, <2>6, <2>7, <2>8, <2>9, OwnStep
<1>. QED  BY <1>0, <1>2, <1>3, <1>4, <1>5, <1>6, <1>7

LEMMA SetSavepointKeeps ==
    ASSUME IInv, NEW o \in TxCallers, NEW name \in Savepoints, SetSavepoint(o, name)
    PROVE  IInv'
<1>. USE DEF IInv, TransactionsTypeOK
<1>. DEFINE s == sess[o]
            e == Mark(name)
            st == [server[s] EXCEPT !.log = Append(@, e)]
<1>0. /\ tx[o] = "open" /\ driver # "d1"
      /\ server' = [server EXCEPT ![s] = st]
      /\ kept' = [kept EXCEPT ![o] = Append(@, e)]
      /\ UNCHANGED <<driver, clientOpen, conn, sess, tx, failed, written, alone, durable, joined,
                     writes, begins, txFaults>>
  BY DEF SetSavepoint
<1>1. s \in TxSessions  BY <1>0, SeatOfOpen
<1>2. e \in Entries /\ e.kind = "mark"  BY DEF Mark, Entries
<1>. HIDE DEF e
<1>3. /\ server[s] \in ServerStates /\ server[s].log \in Seq(Entries) /\ kept[o] \in Seq(Entries)
      /\ Append(server[s].log, e) \in Seq(Entries) /\ Append(kept[o], e) \in Seq(Entries)
      /\ WritesOf(Append(server[s].log, e)) = WritesOf(server[s].log)
  BY <1>1, <1>2, LogsAre, WritesOfAppended
<1>4. /\ st \in ServerStates /\ st.log = Append(server[s].log, e) /\ st.open = server[s].open
      /\ st.by = server[s].by /\ st.aborted = server[s].aborted
  BY <1>3 DEF ServerStates
<1>. HIDE DEF st
<1>5. TransactionsTypeOK'
  <2>1. kept' \in [TxCallers -> Seq(Entries)]  BY <1>0, <1>3
  <2>. QED  BY <1>0, <1>4, <2>1
<1>6. Seats'  BY <1>0 DEF Seats
<1>7. Numbers'
  <2>1. \A t \in TxSessions : WritesOf(server'[t].log) \subseteq Issued
    BY ZenonT(60), <1>0, <1>1, <1>3, <1>4 DEF Numbers
  <2>. QED  BY <1>0, <2>1, NumbersFrame DEF Numbers
<1>8. LoneWritesAreStored'  BY <1>0, LoneFrame
<1>9. ASSUME ~Joint' PROVE Separate'
  <2>1. ~Joint  BY <1>0, <1>9 DEF Joint
  <2>2. /\ Separate /\ server[s].open /\ Carries(server[s].log, kept[o], written[o])
        /\ server[s].aborted => failed[o] /\ driver \in PgFamily
    BY <1>0, <2>1, OwnLog
  <2>3. {} \in SUBSET Ids  OBVIOUS
  <2>4. written'[o] = written[o] \cup {} /\ kept'[o] = Append(kept[o], e)  BY <1>0
  <2>5. WritesOf(st.log) \subseteq WritesOf(server[s].log) \cup {}  BY <1>3, <1>4
  <2>6. Carries(Append(server[s].log, e), Append(kept[o], e), written[o])
    BY <1>2, <1>3, <2>2, CarriesOwn
  <2>7. Carries(st.log, kept'[o], written'[o])  BY <1>0, <1>4, <2>4, <2>6
  <2>8. st.open /\ st.by = server[s].by /\ (st.aborted => failed'[o] /\ driver \in PgFamily)
    BY <1>0, <1>4, <2>2
  <2>9. \A p \in TxCallers : p # o =>
           failed'[p] = failed[p] /\ kept'[p] = kept[p] /\ written'[p] = written[p]
    BY <1>0
  <2>10. \A w \in {} : w \notin Issued /\ w[1] = o  OBVIOUS
  <2>. HIDE DEF IInv, TransactionsTypeOK
  <2>. QED  BY <1>0, <1>4, <2>2, <2>3, <2>4, <2>5, <2>7, <2>8, <2>9, <2>10, OwnStep
<1>. QED  BY <1>0, <1>5, <1>6, <1>7, <1>8, <1>9

LEMMA RollbackToKeeps ==
    ASSUME IInv, NEW o \in TxCallers, NEW name \in Savepoints, RollbackTo(o, name)
    PROVE  IInv'
<1>. USE DEF IInv, TransactionsTypeOK
<1>. DEFINE s == sess[o]
            st == [server[s] EXCEPT !.log = CutTo(@, name), !.aborted = FALSE]
<1>0. /\ tx[o] = "open" /\ driver # "d1"
      /\ Positions(server[s].log, name) # {} /\ Positions(kept[o], name) # {}
      /\ kept' = [kept EXCEPT ![o] = CutTo(@, name)]
      /\ failed' = [failed EXCEPT ![o] = FALSE]
      /\ UNCHANGED <<driver, clientOpen, conn, sess, tx, written, alone, durable, joined, writes,
                     begins, txFaults>>
  BY DEF RollbackTo
<1>1. s \in TxSessions  BY <1>0, SeatOfOpen
<1>2. server' = [server EXCEPT ![s] = st]  BY <1>1 DEF RollbackTo
<1>3. /\ server[s] \in ServerStates /\ server[s].log \in Seq(Entries) /\ kept[o] \in Seq(Entries)
      /\ CutTo(server[s].log, name) \in Seq(Entries) /\ CutTo(kept[o], name) \in Seq(Entries)
      /\ WritesOf(CutTo(server[s].log, name)) \subseteq WritesOf(server[s].log)
  BY <1>0, <1>1, LogsAre, CutIsPrefix
<1>4. /\ st \in ServerStates /\ st.log = CutTo(server[s].log, name) /\ st.open = server[s].open
      /\ st.by = server[s].by /\ ~st.aborted
  BY <1>3 DEF ServerStates
<1>. HIDE DEF st
<1>5. TransactionsTypeOK'
  <2>1. kept' \in [TxCallers -> Seq(Entries)]  BY <1>0, <1>3
  <2>2. server' \in [TxSessions -> ServerStates]  BY <1>2, <1>4
  <2>3. failed' \in [TxCallers -> BOOLEAN]  BY <1>0
  <2>. QED  BY <1>0, <2>1, <2>2, <2>3
<1>6. Seats'  BY <1>0 DEF Seats
<1>7. Numbers'
  <2>1. \A t \in TxSessions : WritesOf(server'[t].log) \subseteq Issued
    BY <1>1, <1>2, <1>3, <1>4 DEF Numbers
  <2>. QED  BY <1>0, <2>1, NumbersFrame DEF Numbers
<1>8. LoneWritesAreStored'  BY <1>0, LoneFrame
<1>9. ASSUME ~Joint' PROVE Separate'
  <2>1. ~Joint  BY <1>0, <1>9 DEF Joint
  <2>2. /\ Separate /\ server[s].open /\ Carries(server[s].log, kept[o], written[o])
    BY <1>0, <2>1, OwnLog
  <2>3. {} \in SUBSET Ids  OBVIOUS
  <2>4. written'[o] = written[o] \cup {} /\ kept'[o] = CutTo(kept[o], name)  BY <1>0
  <2>5. WritesOf(st.log) \subseteq WritesOf(server[s].log) \cup {}  BY <1>3, <1>4
  <2>6. Carries(CutTo(server[s].log, name), CutTo(kept[o], name), written[o])
    BY <1>0, <1>3, <2>2, CarriesCut
  <2>7. Carries(st.log, kept'[o], written'[o])  BY <1>0, <1>4, <2>4, <2>6
  <2>8. st.open /\ st.by = server[s].by /\ (st.aborted => failed'[o] /\ driver \in PgFamily)
    BY <1>4, <2>2
  <2>9. \A p \in TxCallers : p # o =>
           failed'[p] = failed[p] /\ kept'[p] = kept[p] /\ written'[p] = written[p]
    BY <1>0
  <2>10. \A w \in {} : w \notin Issued /\ w[1] = o  OBVIOUS
  <2>. HIDE DEF IInv, TransactionsTypeOK
  <2>. QED  BY <1>0, <1>2, <1>4, <2>2, <2>3, <2>4, <2>5, <2>7, <2>8, <2>9, <2>10, OwnStep
<1>. QED  BY <1>0, <1>5, <1>6, <1>7, <1>8, <1>9

-----------------------------------------------------------------------------
(* Writes *)

\* The next write of o is a new one.
LEMMA NewWrite ==
    ASSUME IInv, NEW o \in TxCallers, writes' = [writes EXCEPT ![o] = @ + 1],
           NEW w, w = <<o, writes[o] + 1>>
    PROVE  /\ w \in Ids /\ w[1] = o /\ w \notin Issued
           /\ Issued \subseteq Issued' /\ w \in Issued'
           /\ \A p \in TxCallers : w \notin written[p]
           /\ w \notin durable
           /\ \A s \in TxSessions : w \notin WritesOf(server[s].log)
           /\ Entry(w) \in Entries /\ Entry(w).kind = "write" /\ Entry(w).at = w
<1>. USE DEF IInv, TransactionsTypeOK
<1>1. w \in Ids /\ w[1] = o /\ w[2] = writes[o] + 1  BY DEF Ids
<1>2. w \notin Issued  BY <1>1 DEF Issued
<1>3. writes'[o] = writes[o] + 1 /\ \A p \in TxCallers : writes[p] <= writes'[p]  OBVIOUS
<1>4. w \in Issued'  BY <1>1, <1>3 DEF Issued
<1>5. ASSUME NEW v \in Issued PROVE v \in Issued'
  <2>1. v \in Ids /\ v[1] \in TxCallers /\ v[2] \in Nat /\ v[2] <= writes[v[1]]  BY DEF Issued, Ids
  <2>2. writes[v[1]] \in Nat /\ writes'[v[1]] \in Nat  BY <2>1
  <2>3. v[2] <= writes'[v[1]]  BY <1>3, <2>1, <2>2
  <2>. QED  BY <2>1, <2>3 DEF Issued
<1>6. Entry(w) \in Entries /\ Entry(w).kind = "write" /\ Entry(w).at = w
  BY <1>1 DEF Entry, Entries
<1>. QED  BY <1>1, <1>2, <1>4, <1>5, <1>6 DEF Numbers

\* A session that somebody else's transaction is open in is shared.
LEMMA AloneInSession ==
    ASSUME IInv, ~Joint, driver # "d1", driver \notin OneHandle, NEW o \in TxCallers,
           sess[o] \in TxSessions, server[sess[o]].open, ~server[sess[o]].aborted
    PROVE  tx[o] = "open"
<1>. PICK p \in TxCallers : Holds(sess[o], p)  BY OpenIsHeld
<1>1. sess[p] = sess[o] /\ sess[o] # NoSession  BY DEF Holds
<1>2. p = o  BY <1>1 DEF IInv, Seats
<1>. QED  BY <1>2 DEF Holds

LEMMA WriteKeeps ==
    ASSUME IInv, NEW o \in TxCallers, NEW earlier \in BOOLEAN, Write(o, earlier)
    PROVE  IInv'
<1>. DEFINE s == Executor(o, earlier)
            w == <<o, writes[o] + 1>>
            e == Entry(w)
            mine == tx[o] = "open" /\ ~(driver = "libsql" /\ earlier)
            inLog == s # NoSession /\ server[s].open
<1>0. /\ ~Refuses(s)
      /\ writes' = [writes EXCEPT ![o] = @ + 1]
      /\ IF inLog
         THEN server' = [server EXCEPT ![s].log = Append(@, e)] /\ durable' = durable
         ELSE durable' = durable \cup {w} /\ server' = server
      /\ joined' = (joined \/ (driver = "bunpg" /\ Joins(o, s)))
      /\ IF mine
         THEN /\ kept' = [kept EXCEPT ![o] = Append(@, e)]
              /\ written' = [written EXCEPT ![o] = @ \cup {w}]
              /\ alone' = alone
         ELSE /\ alone' = [alone EXCEPT ![o] = @ \cup {w}]
              /\ kept' = kept /\ written' = written
      /\ UNCHANGED <<driver, clientOpen, conn, sess, tx, failed, begins, txFaults>>
  BY DEF Write
<1>1. /\ w \in Ids /\ w[1] = o /\ w \notin Issued
      /\ Issued \subseteq Issued' /\ w \in Issued'
      /\ \A p \in TxCallers : w \notin written[p]
      /\ w \notin durable
      /\ \A t \in TxSessions : w \notin WritesOf(server[t].log)
      /\ e \in Entries /\ e.kind = "write" /\ e.at = w
  BY ZenonT(60), <1>0, NewWrite
<1>2. /\ s # NoSession => s = sess[o] /\ s \in TxSessions
      /\ ~(driver = "libsql" /\ earlier) => s = sess[o]
  BY DEF Executor, IInv, TransactionsTypeOK
<1>3. inLog => /\ server[s] \in ServerStates /\ server[s].log \in Seq(Entries)
               /\ Append(server[s].log, e) \in Seq(Entries)
               /\ WritesOf(Append(server[s].log, e)) = WritesOf(server[s].log) \cup {w}
               /\ ~server[s].aborted
  <2>. SUFFICES ASSUME inLog
                PROVE  /\ server[s] \in ServerStates /\ server[s].log \in Seq(Entries)
                       /\ Append(server[s].log, e) \in Seq(Entries)
                       /\ WritesOf(Append(server[s].log, e)) = WritesOf(server[s].log) \cup {w}
                       /\ ~server[s].aborted
    OBVIOUS
  <2>1. s \in TxSessions  BY <1>2
  <2>2. ~server[s].aborted  BY <1>0 DEF Refuses
  <2>. HIDE DEF s, e, w, inLog
  <2>. QED  BY <1>1, <2>1, <2>2, LogsAre, WritesOfAppended
<1>. DEFINE st == [server[s] EXCEPT !.log = Append(@, e)]
<1>4. inLog => /\ server' = [server EXCEPT ![s] = st] /\ durable' = durable
               /\ st \in ServerStates /\ st.log = Append(server[s].log, e)
               /\ st.open /\ st.by = server[s].by /\ ~st.aborted
  <2>1. inLog => server' = [server EXCEPT ![s] = st] /\ durable' = durable
    BY <1>0, <1>2 DEF IInv, TransactionsTypeOK
  <2>. HIDE DEF e
  <2>2. inLog => /\ st \in ServerStates /\ st.log = Append(server[s].log, e)
                 /\ st.open /\ st.by = server[s].by /\ ~st.aborted
    BY <1>3 DEF ServerStates
  <2>. QED  BY <2>1, <2>2
<1>5. ~inLog => server' = server /\ durable' = durable \cup {w}  BY <1>0
<1>6. mine => /\ kept' = [kept EXCEPT ![o] = Append(@, e)]
              /\ written' = [written EXCEPT ![o] = @ \cup {w}] /\ alone' = alone
  BY <1>0
<1>7. ~mine => /\ alone' = [alone EXCEPT ![o] = @ \cup {w}]
               /\ kept' = kept /\ written' = written
  BY <1>0
<1>8. /\ mine => tx[o] = "open" /\ s = sess[o]
      /\ tx[o] = "open" /\ s # NoSession => mine
  BY <1>2 DEF Executor
<1>9. /\ ~Refuses(s) /\ writes' = [writes EXCEPT ![o] = @ + 1]
      /\ joined' = (joined \/ (driver = "bunpg" /\ Joins(o, s)))
      /\ UNCHANGED <<driver, clientOpen, conn, sess, tx, failed, begins, txFaults>>
  BY <1>0
<1>. HIDE DEF s, w, e, mine, inLog, st
<1>. USE DEF IInv, TransactionsTypeOK
<1>10. TransactionsTypeOK'
  <2>1. server' \in [TxSessions -> ServerStates] /\ durable' \subseteq Ids
    BY ZenonT(60), <1>1, <1>4, <1>5
  <2>2. kept' \in [TxCallers -> Seq(Entries)]
    <3>1. Append(kept[o], e) \in Seq(Entries)  BY <1>1
    <3>. QED  BY <1>6, <1>7, <3>1
  <2>3. written' \in [TxCallers -> SUBSET Ids] /\ alone' \in [TxCallers -> SUBSET Ids]
    <3>0. written[o] \in SUBSET Ids /\ alone[o] \in SUBSET Ids  OBVIOUS
    <3>1. written[o] \cup {w} \in SUBSET Ids /\ alone[o] \cup {w} \in SUBSET Ids
      <4>. HIDE DEF IInv, TransactionsTypeOK
      <4>. QED  BY <1>1, <3>0
    <3>2. written \in [TxCallers -> SUBSET Ids] /\ alone \in [TxCallers -> SUBSET Ids]  OBVIOUS
    <3>. HIDE DEF IInv, TransactionsTypeOK
    <3>3. mine => written' \in [TxCallers -> SUBSET Ids]
      <4>. DEFINE W == written[o] \cup {w}
      <4>1. W \in SUBSET Ids /\ (mine => written' = [written EXCEPT ![o] = W])  BY <1>6, <3>1
      <4>. HIDE DEF W
      <4>. QED  BY <3>2, <4>1
    <3>4. ~mine => alone' \in [TxCallers -> SUBSET Ids]
      <4>. DEFINE W == alone[o] \cup {w}
      <4>1. W \in SUBSET Ids /\ (~mine => alone' = [alone EXCEPT ![o] = W])  BY <1>7, <3>1
      <4>. HIDE DEF W
      <4>. QED  BY <3>2, <4>1
    <3>5. (mine => alone' = alone) /\ (~mine => written' = written)  BY <1>6, <1>7
    <3>. QED  BY <3>2, <3>3, <3>4, <3>5
  <2>4. writes' \in [TxCallers -> Nat] /\ joined' \in BOOLEAN  BY <1>9
  <2>. QED  BY <1>9, <2>1, <2>2, <2>3, <2>4
<1>11. Seats'  BY <1>9 DEF Seats
<1>12. Numbers'
  <2>1. ASSUME NEW p \in TxCallers, NEW v \in written'[p] PROVE v \in Issued' /\ v[1] = p
    <3>1. v \in written[p] \/ (v = w /\ p = o)  BY <1>6, <1>7
    <3>2. v \in written[p] => v \in Issued /\ v[1] = p  BY DEF Numbers
    <3>. QED  BY <1>1, <3>1, <3>2
  <2>2. durable' \subseteq Issued'
    <3>1. durable' \subseteq durable \cup {w}  BY <1>4, <1>5
    <3>2. durable \subseteq Issued  BY DEF Numbers
    <3>. QED  BY <1>1, <3>1, <3>2
  <2>3. ASSUME NEW t \in TxSessions PROVE WritesOf(server'[t].log) \subseteq Issued'
    <3>1. WritesOf(server[t].log) \subseteq Issued'  BY <1>1, LogsAre
    <3>2. CASE inLog /\ t = s
      <4>1. server'[t] = st /\ st.log = Append(server[s].log, e)  BY <1>4, <3>2
      <4>2. WritesOf(st.log) = WritesOf(server[t].log) \cup {w}  BY <1>3, <3>2, <4>1
      <4>. QED  BY <1>1, <3>1, <4>1, <4>2
    <3>3. CASE ~(inLog /\ t = s)
      <4>1. server'[t] = server[t]  BY <1>4, <1>5, <3>3
      <4>. QED  BY <3>1, <4>1
    <3>. QED  BY <3>2, <3>3
  <2>. QED  BY <2>1, <2>2, <2>3 DEF Numbers
<1>13. driver = "d1" => ~inLog
  BY <1>2 DEF Seats, inLog
<1>14. driver \notin OneHandle /\ ~mine => ~inLog
  <2>. SUFFICES ASSUME driver \notin OneHandle, ~mine, inLog PROVE FALSE  OBVIOUS
  <2>1. s \in TxSessions /\ s = sess[o] /\ s # NoSession /\ server[s].open  BY <1>2 DEF inLog
  <2>2. ~Joint /\ driver # "d1"  BY <1>13 DEF Joint, OneHandle
  <2>3. tx[o] = "open"  BY <1>3, <2>1, <2>2, AloneInSession
  <2>. QED  BY <1>8, <2>1, <2>3
<1>15. LoneWritesAreStored'
  <2>1. \A p \in TxCallers : p # o => alone'[p] = alone[p]  BY <1>6, <1>7
  <2>2. durable \subseteq durable'  BY <1>4, <1>5
  <2>3. driver \notin OneHandle => alone'[o] \subseteq alone[o] \cup durable'
    BY <1>5, <1>6, <1>7, <1>14
  <2>. QED  BY <1>9, <2>1, <2>2, <2>3 DEF LoneWritesAreStored
<1>16. ASSUME driver = "d1" PROVE ByItself'
  <2>1. ByItself /\ server' = server /\ durable' = durable \cup {w}  BY <1>5, <1>13, <1>16
  <2>2. WritesOf(kept'[o]) = written'[o] /\ written'[o] \subseteq durable'
    <3>1. CASE mine
      <4>1. WritesOf(Append(kept[o], e)) = WritesOf(kept[o]) \cup {w}
        BY <1>1, WritesOfAppended
      <4>2. kept'[o] = Append(kept[o], e) /\ written'[o] = written[o] \cup {w}  BY <1>6, <3>1
      <4>3. WritesOf(kept[o]) = written[o] /\ written[o] \subseteq durable  BY <2>1 DEF ByItself
      <4>4. WritesOf(kept'[o]) = written'[o]  BY <4>1, <4>2, <4>3
      <4>. QED  BY <2>1, <4>2, <4>3, <4>4
    <3>2. CASE ~mine  BY <1>7, <2>1, <3>2 DEF ByItself
    <3>. QED  BY <3>1, <3>2
  <2>3. \A p \in TxCallers : p # o => kept'[p] = kept[p] /\ written'[p] = written[p]
    BY <1>6, <1>7
  <2>. QED  BY <1>9, <2>1, <2>2, <2>3 DEF ByItself
<1>17. ASSUME driver # "d1", ~Joint' PROVE Separate'
  <2>0. ~Joint /\ Separate  BY <1>9, <1>17 DEF Joint
  <2>1. CASE mine
    <3>0. tx[o] = "open" /\ s = sess[o]  BY <1>8, <2>1
    <3>1. /\ Separate /\ s \in TxSessions /\ server[s].open /\ server[s].log \in Seq(Entries)
          /\ kept[o] \in Seq(Entries) /\ Carries(server[s].log, kept[o], written[o])
      BY <1>17, <2>0, <3>0, OwnLog
    <3>2. s # NoSession /\ inLog  BY <3>1 DEF inLog
    <3>3. {w} \in SUBSET Ids  BY <1>1
    <3>4. written'[o] = written[o] \cup {w} /\ kept'[o] = Append(kept[o], e)  BY <1>6, <2>1
    <3>5. WritesOf(st.log) \subseteq WritesOf(server[s].log) \cup {w}  BY <1>3, <1>4, <3>2
    <3>6. Carries(Append(server[s].log, e), Append(kept[o], e), written[o] \cup {w})
      BY <1>1, <3>1, CarriesOwn
    <3>7. Carries(st.log, kept'[o], written'[o])  BY <1>4, <3>2, <3>4, <3>6
    <3>8. /\ st \in ServerStates /\ st.open /\ st.by = server[s].by /\ ~st.aborted
          /\ server' = [server EXCEPT ![s] = st] /\ durable' = durable
      BY <1>4, <3>2
    <3>9. \A p \in TxCallers : p # o =>
             failed'[p] = failed[p] /\ kept'[p] = kept[p] /\ written'[p] = written[p]
      BY <1>6, <1>9, <2>1
    <3>10. \A v \in {w} : v \notin Issued /\ v[1] = o  BY <1>1
    <3>. HIDE DEF IInv, TransactionsTypeOK
    <3>. QED  BY ZenonT(60), <1>9, <3>0, <3>1, <3>3, <3>4, <3>5, <3>7, <3>8, <3>9, <3>10, OwnStep
  <2>2. CASE ~mine /\ inLog
    <3>0. /\ s \in TxSessions /\ s = sess[o] /\ kept' = kept /\ written' = written
          /\ server' = [server EXCEPT ![s] = st] /\ durable' = durable
          /\ server'[s] = st
      BY <1>2, <1>4, <1>7, <2>2 DEF inLog
    <3>1. ASSUME NEW p \in TxCallers PROVE Running(p)' /\ Over(p)'
      <4>1. Running(p) /\ Over(p)  BY <2>0 DEF Separate
      <4>2. Over(p)'  BY <1>9, <3>0, <4>1, OverFrame
      <4>3. CASE tx[p] = "open" /\ sess[p] = s
        <5>1. Carries(server[s].log, kept[p], written[p]) /\ kept[p] \in Seq(Entries)
          BY <4>1, <4>3 DEF Running
        <5>2. Carries(Append(server[s].log, e), kept[p], written[p])
          BY <1>1, <1>3, <2>2, <5>1, CarriesOther
        <5>3. Stored(p)' = Stored(p)  BY <3>0 DEF Stored
        <5>. QED  BY <1>4, <1>9, <2>2, <3>0, <4>1, <4>2, <4>3, <5>2, <5>3 DEF Running
      <4>4. CASE ~(tx[p] = "open" /\ sess[p] = s)
        <5>1. tx[p] = "open" => server'[sess[p]] = server[sess[p]]
          BY <3>0, <4>1, <4>4 DEF Running
        <5>. QED  BY <1>9, <3>0, <4>1, <4>2, <5>1, RunningFrame
      <4>. QED  BY <4>3, <4>4
    <3>2. ASSUME NEW t \in TxSessions PROVE Known(t)'
      <4>1. Known(t)  BY <2>0 DEF Separate
      <4>2. \A p \in TxCallers : Holds(t, p)' <=> Holds(t, p)  BY <1>9 DEF Holds
      <4>3. CASE t = s
        <5>1. \A p \in TxCallers : Holds(t, p)' \/ WritesOf(st.log) \cap written'[p] = {}
          <6>1. WritesOf(st.log) = WritesOf(server[s].log) \cup {w}  BY <1>3, <1>4, <2>2
          <6>2. \A p \in TxCallers : w \notin written[p]  BY <1>1
          <6>3. \A p \in TxCallers : Holds(t, p) \/ WritesOf(server[s].log) \cap written[p] = {}
            BY <4>1, <4>3 DEF Known
          <6>4. ASSUME NEW p \in TxCallers, ~Holds(t, p)' PROVE WritesOf(st.log) \cap written'[p] = {}
            <7>1. WritesOf(server[s].log) \cap written[p] = {}  BY <4>2, <6>3, <6>4
            <7>2. written'[p] = written[p]  BY <3>0
            <7>. QED  BY <6>1, <6>2, <7>1, <7>2
          <6>. QED  BY <6>4
        <5>2. \E p \in TxCallers : st.by = p /\ Holds(t, p)'
          BY <1>3, <1>4, <2>2, <4>1, <4>2, <4>3 DEF Known, inLog
        <5>. QED  BY <1>4, <2>2, <3>0, <4>3, <5>1, <5>2 DEF Known
      <4>4. CASE t # s
        <5>1. server'[t] = server[t]  BY <3>0, <4>4
        <5>. QED  BY <3>0, <4>1, <4>2, <5>1, KnownFrame
      <4>. QED  BY <4>3, <4>4
    <3>. QED  BY <3>1, <3>2 DEF Separate
  <2>3. CASE ~mine /\ ~inLog
    <3>0. /\ kept' = kept /\ written' = written /\ server' = server /\ durable' = durable \cup {w}
      BY <1>5, <1>7, <2>3
    <3>1. ASSUME NEW p \in TxCallers PROVE Running(p)' /\ Over(p)'
      <4>1. Running(p) /\ Over(p)  BY <2>0 DEF Separate
      <4>2. durable \subseteq durable' /\ durable' \cap written[p] \subseteq durable
        BY <1>1, <3>0
      <4>. QED  BY <1>9, <3>0, <4>1, <4>2, RunningFrame, OverFrame
    <3>2. ASSUME NEW t \in TxSessions PROVE Known(t)'
      <4>1. Known(t)  BY <2>0 DEF Separate
      <4>2. \A p \in TxCallers : Holds(t, p)' <=> Holds(t, p)  BY <1>9 DEF Holds
      <4>. QED  BY <3>0, <4>1, <4>2, KnownFrame
    <3>. QED  BY <3>1, <3>2 DEF Separate
  <2>. QED  BY <2>1, <2>2, <2>3
<1>. QED  BY <1>9, <1>10, <1>11, <1>12, <1>15, <1>16, <1>17

-----------------------------------------------------------------------------
(* D1 *)

LEMMA D1Keeps ==
    ASSUME IInv, NEW o \in TxCallers, driver = "d1", Begin(o) \/ CommitTx(o) \/ RollbackTx(o)
    PROVE  IInv'
<1>. USE DEF IInv, TransactionsTypeOK
<1>1. <<>> \in Seq(Entries) /\ WritesOf(<<>>) = {}  BY DEF WritesOf, ToSet
<1>2. driver \notin Pooled /\ driver \notin OneHandle /\ driver \notin PgFamily /\ conn[o]
  BY DEF Pooled, OneHandle, PgFamily, Begin, CommitTx, RollbackTx
<1>3. /\ UNCHANGED <<driver, clientOpen, conn, sess, server, alone, durable, joined, writes, txFaults>>
      /\ \/ /\ tx' = [tx EXCEPT ![o] = "open"]
            /\ begins' = [begins EXCEPT ![o] = @ + 1]
            /\ failed' = [failed EXCEPT ![o] = FALSE]
            /\ kept' = [kept EXCEPT ![o] = <<>>]
            /\ written' = [written EXCEPT ![o] = {}]
         \/ /\ tx' = [tx EXCEPT ![o] = "committed"] \/ tx' = [tx EXCEPT ![o] = "refused"]
            /\ UNCHANGED <<begins, failed, kept, written>>
  BY <1>2 DEF Begin, BeginPg, BeginMysql, BeginSqlite, BeginLibSql, BeginD1, CommitTx, RollbackTx,
              Ended, OneHandle
<1>4. TransactionsTypeOK'
  <2>1. tx' \in [TxCallers -> Outcomes]  BY <1>3 DEF Outcomes
  <2>2. kept' = [kept EXCEPT ![o] = <<>>] \/ kept' = kept  BY <1>3
  <2>3. written' = [written EXCEPT ![o] = {}] \/ written' = written  BY <1>3
  <2>4. failed' = [failed EXCEPT ![o] = FALSE] \/ failed' = failed  BY <1>3
  <2>5. begins' = [begins EXCEPT ![o] = @ + 1] \/ begins' = begins  BY <1>3
  <2>6. kept' \in [TxCallers -> Seq(Entries)] /\ written' \in [TxCallers -> SUBSET Ids]
    <3>1. {} \in SUBSET Ids  OBVIOUS
    <3>. QED  BY ZenonT(60), <1>1, <2>2, <2>3, <3>1
  <2>7. failed' \in [TxCallers -> BOOLEAN]
    <3>1. ASSUME NEW b \in BOOLEAN, failed' = [failed EXCEPT ![o] = b]
          PROVE  failed' \in [TxCallers -> BOOLEAN]
      BY <3>1
    <3>2. FALSE \in BOOLEAN  OBVIOUS
    <3>. QED  BY <2>4, <3>1, <3>2
  <2>8. begins' \in [TxCallers -> Nat]
    <3>1. begins \in [TxCallers -> Nat]  OBVIOUS
    <3>2. begins[o] + 1 \in Nat  BY <3>1
    <3>. HIDE DEF IInv, TransactionsTypeOK
    <3>. QED  BY <2>5, <3>1, <3>2
  <2>. QED  BY <1>3, <2>1, <2>6, <2>7, <2>8
<1>5. Seats'  BY <1>2, <1>3 DEF Seats
<1>6. Numbers'
  <2>1. \A p \in TxCallers : written'[p] \subseteq written[p]  BY <1>3
  <2>. QED  BY <1>3, <2>1, NumbersFrame DEF Numbers
<1>7. LoneWritesAreStored'  BY <1>3, LoneFrame
<1>8. ByItself'  BY ZenonT(60), <1>1, <1>3 DEF ByItself
<1>. QED  BY <1>3, <1>4, <1>5, <1>6, <1>7, <1>8

-----------------------------------------------------------------------------
(* The theorems *)

LEMMA NextIInv == IInv /\ [TransactionsNext]_transactionVars => IInv'
<1>. SUFFICES ASSUME IInv, [TransactionsNext]_transactionVars PROVE IInv'  OBVIOUS
<1>1. CASE UNCHANGED transactionVars
  <2>. USE <1>1 DEF transactionVars
  <2>1. TransactionsTypeOK'  BY DEF IInv, TransactionsTypeOK
  <2>2. Seats' /\ LoneWritesAreStored'  BY DEF IInv, Seats, LoneWritesAreStored
  <2>3. Numbers'  BY DEF IInv, Numbers, Issued
  <2>4. ByItself' = ByItself /\ Joint' = Joint  BY DEF ByItself, Joint
  <2>5. Separate => Separate'
    <3>1. \A o \in TxCallers : Running(o) /\ Over(o) => Running(o)' /\ Over(o)'
      BY DEF Running, Over, Stored
    <3>2. \A s \in TxSessions : Known(s) => Known(s)'  BY DEF Known, Holds
    <3>. QED  BY <3>1, <3>2 DEF Separate
  <2>. QED  BY <2>1, <2>2, <2>3, <2>4, <2>5 DEF IInv
<1>2. ASSUME NEW o \in TxCallers,
             \/ GetTxConnection(o) \/ CloseTxConnection(o) \/ LibSqlClose(o) \/ BunPgClose(o)
             \/ BeginRefused(o) \/ WriteFails(o) \/ CommitLost(o)
      PROVE  IInv'
  BY <1>2, GetKeeps, CloseKeeps, LibSqlCloseKeeps, BunPgCloseKeeps, BeginRefusedKeeps,
     WriteFailsKeeps, CommitLostKeeps
<1>3. ASSUME NEW o \in TxCallers, Begin(o) \/ CommitTx(o) \/ RollbackTx(o)
      PROVE  IInv'
  BY <1>3, D1Keeps, BeginKeeps, CommitKeeps, RollbackKeeps
<1>4. ASSUME NEW o \in TxCallers, NEW earlier \in BOOLEAN, Write(o, earlier)
      PROVE  IInv'
  BY <1>4, WriteKeeps
<1>5. ASSUME NEW o \in TxCallers, NEW name \in Savepoints, SetSavepoint(o, name) \/ RollbackTo(o, name)
      PROVE  IInv'
  BY <1>5, SetSavepointKeeps, RollbackToKeeps
<1>. QED  BY <1>1, <1>2, <1>3, <1>4, <1>5 DEF TransactionsNext

LEMMA IInvHolds == IInv => DriverTransactionsHold
<1>. SUFFICES ASSUME IInv PROVE DriverTransactionsHold  OBVIOUS
<1>1. ASSUME NEW o \in TxCallers, ~(driver = "bunpg" /\ joined)
      PROVE  LET all == WritesOf(kept[o])
             IN CASE tx[o] = "committed"  -> Stored(o) = all
                  [] tx[o] = "rolledBack" -> Stored(o) = {}
                  [] tx[o] = "unknown"    -> Stored(o) \in {{}, all}
                  [] tx[o] = "dropped"    -> Stored(o) = {}
                  [] tx[o] = "open"       -> driver = "d1" \/ Stored(o) = {}
                  [] OTHER                -> TRUE
  <2>1. CASE driver = "d1"
    <3>1. ByItself  BY <2>1 DEF IInv
    <3>2. tx[o] \in {"none", "open", "committed", "refused"}  BY <3>1 DEF ByItself
    <3>3. Stored(o) = WritesOf(kept[o])  BY <3>1 DEF ByItself, Stored
    <3>. QED  BY <2>1, <3>2, <3>3
  <2>2. CASE driver # "d1"
    <3>1. Running(o) /\ Over(o)  BY <1>1, <2>2 DEF IInv, Joint, Separate
    <3>2. tx[o] \in Outcomes  BY DEF IInv, TransactionsTypeOK
    <3>3. /\ tx[o] = "committed" => Stored(o) = WritesOf(kept[o])
          /\ tx[o] \in {"rolledBack", "dropped", "open"} => Stored(o) = {}
          /\ tx[o] = "unknown" => Stored(o) \in {{}, WritesOf(kept[o])}
      BY <3>1 DEF Running, Over
    <3>. QED  BY <3>2, <3>3 DEF Outcomes
  <2>. QED  BY <2>1, <2>2
<1>2. TransactionsAreAtomic  BY <1>1 DEF TransactionsAreAtomic
<1>. QED  BY <1>2 DEF IInv, DriverTransactionsHold

LEMMA IInvTypes == IInv => TransactionsTypeOK
BY DEF IInv

LEMMA Invariance == TransactionsSpec => []IInv
BY InitIInv, NextIInv, PTL DEF TransactionsSpec

\* The variables keep their types.
THEOREM TransactionsTypeCorrect == TransactionsSpec => []TransactionsTypeOK
BY Invariance, IInvTypes, PTL

\* With every adapter a transaction is all or nothing whatever the other
\* connections do and whatever fails, savepoints included, and what is written
\* outside of one is stored, for every number of callers, sessions, writes,
\* savepoints, transactions and faults.
THEOREM TransactionsHold == TransactionsSpec => []DriverTransactionsHold
BY Invariance, IInvHolds, PTL

-----------------------------------------------------------------------------
(* The numbers and positions of the parameters *)

\* A set of naturals has a least element.
LEMMA LeastOf ==
    ASSUME NEW T, T \subseteq Nat, T # {}
    PROVE  \E x \in T : \A y \in T : x <= y
<1>. DEFINE R == {ss \in Nat \X Nat : ss[1] < ss[2]}
<1>1. IsWellFoundedOn(R, Nat)  BY NatLessThanWellFounded DEF OpToRel
<1>. HIDE DEF R
<1>2. PICK x \in T : \A y \in T : ~(<<y, x>> \in R)  BY <1>1, WFMin
<1>3. \A y \in T : x <= y
  <2>. TAKE y \in T
  <2>1. ~(<<y, x>> \in R) /\ x \in Nat /\ y \in Nat  BY <1>2
  <2>. QED  BY <2>1 DEF R
<1>. QED  BY <1>3

\* The highest of some numbers up to N is one of them and no number of them is higher.
LEMMA HighestIs ==
    ASSUME NEW N \in Nat, NEW S, S \subseteq 1..N
    PROVE  /\ Highest(S) \in Nat
           /\ \A i \in S : i <= Highest(S)
<1>1. CASE S = {}  BY <1>1 DEF Highest
<1>2. CASE S # {}
  <2>. DEFINE T == {k \in Nat : \E i \in S : k = N - i}
  <2>1. \A i \in S : N - i \in T  OBVIOUS
  <2>2. T # {}  BY <1>2, <2>1
  <2>3. PICK x \in T : \A y \in T : x <= y  BY <2>2, LeastOf
  <2>4. PICK i \in S : x = N - i  BY <2>3
  <2>5. \A j \in S : j <= i
    <3>. TAKE j \in S
    <3>1. N - i <= N - j  BY <2>1, <2>3, <2>4
    <3>. QED  BY <3>1
  <2>6. \A j \in S : i >= j  BY <2>5
  <2>7. Max(S) \in S /\ \A j \in S : Max(S) >= j
    <3>. HIDE DEF T
    <3>. QED  BY <2>4, <2>6, Zenon DEF Max
  <2>8. Highest(S) = Max(S)  BY <1>2 DEF Highest
  <2>9. Max(S) \in Nat
    <3>1. Max(S) \in 1..N  BY <2>7, Zenon
    <3>. QED  BY <3>1
  <2>. QED  BY <2>7, <2>8, <2>9
<1>. QED  BY <1>1, <1>2

\* How many of the positions there are up to m.
UpTo(P, m) == Cardinality({i \in P : i <= m})

LEMMA UpToCounts ==
    ASSUME NEW N \in Nat, NEW P \in SUBSET (1..N)
    PROVE  /\ IsFiniteSet(P) /\ Cardinality(P) \in Nat
           /\ \A m \in Nat : UpTo(P, m) \in Nat /\ UpTo(P, m) <= Cardinality(P)
           /\ UpTo(P, 0) = 0
           /\ UpTo(P, N) = Cardinality(P)
           /\ \A m \in Nat : UpTo(P, m + 1) = IF m + 1 \in P THEN UpTo(P, m) + 1 ELSE UpTo(P, m)
           /\ \A m, k \in Nat : m <= k => UpTo(P, m) <= UpTo(P, k)
<1>1. IsFiniteSet(P)
  <2>1. IsFiniteSet(1..N)  BY FS_Interval
  <2>. QED  BY <2>1, FS_Subset
<1>2. \A m : IsFiniteSet({i \in P : i <= m})
  <2>. TAKE m
  <2>1. {i \in P : i <= m} \in SUBSET P  OBVIOUS
  <2>. QED  BY ONLY <1>1, <2>1, FS_Subset
<1>3. Cardinality(P) \in Nat /\ \A m : UpTo(P, m) \in Nat
  BY <1>1, <1>2, FS_CardinalityType DEF UpTo
<1>4. \A m \in Nat : UpTo(P, m) <= Cardinality(P)
  <2>. TAKE m \in Nat
  <2>1. {i \in P : i <= m} \in SUBSET P  OBVIOUS
  <2>2. Cardinality({i \in P : i <= m}) <= Cardinality(P)  BY ONLY <1>1, <2>1, FS_Subset
  <2>. QED  BY <2>2 DEF UpTo
<1>5. UpTo(P, 0) = 0
  <2>1. \A i \in P : ~(i <= 0)  OBVIOUS
  <2>2. {i \in P : i <= 0} = {}  BY <2>1, Zenon
  <2>. QED  BY <2>2, FS_EmptySet DEF UpTo
<1>6. UpTo(P, N) = Cardinality(P)
  <2>1. \A i \in P : i <= N  OBVIOUS
  <2>2. {i \in P : i <= N} = P  BY <2>1, Zenon
  <2>. QED  BY <2>2 DEF UpTo
<1>7. \A m \in Nat : UpTo(P, m + 1) = IF m + 1 \in P THEN UpTo(P, m) + 1 ELSE UpTo(P, m)
  <2>. TAKE m \in Nat
  <2>. DEFINE U == {i \in P : i <= m}
              V == {i \in P : i <= m + 1}
  <2>1. CASE m + 1 \in P
    <3>1. V = U \cup {m + 1}
      <4>1. \A i \in P : i <= m + 1 <=> i <= m \/ i = m + 1  OBVIOUS
      <4>. QED  BY <2>1, <4>1
    <3>2. m + 1 \notin U  OBVIOUS
    <3>3. IsFiniteSet(U)  BY <1>2
    <3>. HIDE DEF U, V
    <3>4. Cardinality(V) = Cardinality(U) + 1  BY ONLY <3>1, <3>2, <3>3, FS_AddElement
    <3>. USE DEF U, V
    <3>5. UpTo(P, m + 1) = UpTo(P, m) + 1  BY <3>4 DEF UpTo
    <3>. QED  BY <2>1, <3>5
  <2>2. CASE m + 1 \notin P
    <3>1. V = U
      <4>1. \A i \in P : i <= m + 1 <=> i <= m
        <5>. TAKE i \in P
        <5>1. i # m + 1  BY <2>2
        <5>. QED  BY <5>1
      <4>. QED  BY <4>1
    <3>2. UpTo(P, m + 1) = UpTo(P, m)  BY <3>1 DEF UpTo
    <3>. QED  BY <2>2, <3>2
  <2>. QED  BY <2>1, <2>2
<1>8. \A m, k \in Nat : m <= k => UpTo(P, m) <= UpTo(P, k)
  <2>. TAKE m, k \in Nat
  <2>. HAVE m <= k
  <2>0. \A i \in P : i <= m => i <= k  OBVIOUS
  <2>1. {i \in P : i <= m} \in SUBSET {i \in P : i <= k}  BY <2>0, Zenon
  <2>2. Cardinality({i \in P : i <= m}) <= Cardinality({i \in P : i <= k})
    BY ONLY <1>2, <2>1, FS_Subset
  <2>. QED  BY <2>2 DEF UpTo
<1>. QED  BY <1>1, <1>3, <1>4, <1>5, <1>6, <1>7, <1>8

\* Each position of P has its own rank, and each number up to Cardinality(P) is a rank.
LEMMA Ranks ==
    ASSUME NEW N \in Nat, NEW P \in SUBSET (1..N)
    PROVE  /\ \A j \in P : UpTo(P, j) \in 1..Cardinality(P)
           /\ \A i, j \in P : UpTo(P, i) = UpTo(P, j) => i = j
           /\ \A n \in 1..Cardinality(P) : \E j \in P : UpTo(P, j) = n
<1>1. /\ Cardinality(P) \in Nat
      /\ \A m \in Nat : UpTo(P, m) \in Nat /\ UpTo(P, m) <= Cardinality(P)
      /\ UpTo(P, 0) = 0
      /\ UpTo(P, N) = Cardinality(P)
      /\ \A m \in Nat : UpTo(P, m + 1) = IF m + 1 \in P THEN UpTo(P, m) + 1 ELSE UpTo(P, m)
      /\ \A m, k \in Nat : m <= k => UpTo(P, m) <= UpTo(P, k)
  BY UpToCounts
<1>2. \A j \in P : j \in Nat /\ j - 1 \in Nat /\ UpTo(P, j) = UpTo(P, j - 1) + 1
  <2>. TAKE j \in P
  <2>1. j \in Nat /\ j - 1 \in Nat /\ (j - 1) + 1 = j  OBVIOUS
  <2>2. UpTo(P, (j - 1) + 1) = UpTo(P, j - 1) + 1  BY <1>1, <2>1
  <2>. QED  BY <2>1, <2>2
<1>3. \A j \in P : UpTo(P, j) \in 1..Cardinality(P)
  <2>. TAKE j \in P
  <2>1. UpTo(P, j) = UpTo(P, j - 1) + 1 /\ UpTo(P, j - 1) \in Nat
        /\ UpTo(P, j) <= Cardinality(P)  BY <1>1, <1>2
  <2>. QED  BY <1>1, <2>1
<1>4. \A i, j \in P : i < j => UpTo(P, i) < UpTo(P, j)
  <2>. TAKE i, j \in P
  <2>. HAVE i < j
  <2>1. i \in Nat /\ j - 1 \in Nat /\ i <= j - 1  BY <1>2
  <2>2. UpTo(P, i) <= UpTo(P, j - 1)  BY <1>1, <2>1
  <2>3. UpTo(P, j) = UpTo(P, j - 1) + 1 /\ UpTo(P, i) \in Nat /\ UpTo(P, j - 1) \in Nat
    BY <1>1, <1>2
  <2>. QED  BY <2>2, <2>3
<1>5. \A i, j \in P : UpTo(P, i) = UpTo(P, j) => i = j
  <2>. TAKE i, j \in P
  <2>1. i \in Nat /\ j \in Nat /\ UpTo(P, i) \in Nat /\ UpTo(P, j) \in Nat  BY <1>1, <1>2
  <2>2. i < j => UpTo(P, i) < UpTo(P, j)  BY <1>4
  <2>3. j < i => UpTo(P, j) < UpTo(P, i)  BY <1>4
  <2>. QED  BY <2>1, <2>2, <2>3
<1>6. \A n \in 1..Cardinality(P) : \E j \in P : UpTo(P, j) = n
  <2>. TAKE n \in 1..Cardinality(P)
  <2>. DEFINE T == {m \in Nat : UpTo(P, m) >= n}
  <2>1. N \in T  BY <1>1
  <2>2. PICK m \in T : \A y \in T : m <= y
    <3>1. T \subseteq Nat /\ T # {}  BY <2>1
    <3>. HIDE DEF T
    <3>. QED  BY <3>1, LeastOf
  <2>3. m \in Nat /\ UpTo(P, m) >= n /\ UpTo(P, m) \in Nat  BY <1>1
  <2>4. m # 0  BY <1>1, <2>3
  <2>5. m - 1 \in Nat /\ (m - 1) + 1 = m  BY <2>3, <2>4
  <2>6. m - 1 \notin T  BY <2>2, <2>3
  <2>7. UpTo(P, m - 1) \in Nat /\ UpTo(P, m - 1) < n  BY <1>1, <2>5, <2>6
  <2>8. UpTo(P, (m - 1) + 1) = IF (m - 1) + 1 \in P THEN UpTo(P, m - 1) + 1 ELSE UpTo(P, m - 1)
    BY <1>1, <2>5
  <2>9. UpTo(P, m) = IF m \in P THEN UpTo(P, m - 1) + 1 ELSE UpTo(P, m - 1)
    BY <2>5, <2>8
  <2>10. m \in P /\ UpTo(P, m) = n
    <3>1. n \in Nat  BY <1>1
    <3>. QED  BY ONLY <2>3, <2>7, <2>9, <3>1
  <2>. QED  BY <2>10
<1>. QED  BY <1>3, <1>5, <1>6

\* A consists of the elements of a sequence at the positions of P, and is the sequence if
\* there are as many.
ElementsAt(A, seq, P) ==
    /\ Len(A) \in Nat /\ DOMAIN A = 1..Len(A)
    /\ \A n \in DOMAIN A : \E j \in P : A[n] = seq[j]
    /\ \A j \in P : \E n \in DOMAIN A : A[n] = seq[j]
    /\ Len(A) = Cardinality(P)

\* AtPositions(seq, P) has the elements of seq at the positions of P, each at its rank.
LEMMA AtPositionsAre ==
    ASSUME NEW N \in Nat, NEW P \in SUBSET (1..N), NEW seq
    PROVE  ElementsAt(AtPositions(seq, P), seq, P) /\ \A j \in P : AtPositions(seq, P)[UpTo(P, j)] = seq[j]
<1>1. Cardinality(P) \in Nat  BY UpToCounts
<1>2. /\ \A j \in P : UpTo(P, j) \in 1..Cardinality(P)
      /\ \A i, j \in P : UpTo(P, i) = UpTo(P, j) => i = j
      /\ \A n \in 1..Cardinality(P) : \E j \in P : UpTo(P, j) = n
  BY Ranks
<1>3. AtPositions(seq, P) = [n \in 1..Cardinality(P) |-> seq[CHOOSE j \in P : UpTo(P, j) = n]]
  BY DEF AtPositions, UpTo
<1>4. DOMAIN AtPositions(seq, P) = 1..Cardinality(P) /\ Len(AtPositions(seq, P)) = Cardinality(P)
  BY <1>1, <1>3
<1>5. \A j \in P : AtPositions(seq, P)[UpTo(P, j)] = seq[j]
  <2>. TAKE j \in P
  <2>. DEFINE c == CHOOSE i \in P : UpTo(P, i) = UpTo(P, j)
  <2>1. c \in P /\ UpTo(P, c) = UpTo(P, j)  OBVIOUS
  <2>2. c = j  BY <1>2, <2>1
  <2>3. AtPositions(seq, P)[UpTo(P, j)] = seq[c]
    <3>1. UpTo(P, j) \in 1..Cardinality(P)  BY <1>2
    <3>. QED  BY <1>3, <3>1
  <2>. QED  BY <2>2, <2>3
<1>6. \A n \in 1..Cardinality(P) : \E j \in P : AtPositions(seq, P)[n] = seq[j]
  BY <1>2, <1>5
<1>7. \A j \in P : \E n \in 1..Cardinality(P) : AtPositions(seq, P)[n] = seq[j]
  BY <1>2, <1>5
<1>. QED  BY <1>1, <1>4, <1>5, <1>6, <1>7 DEF ElementsAt

LEMMA FirstNumbers ==
    ASSUME NEW n \in Nat
    PROVE  IsFiniteSet(1..n) /\ Cardinality(1..n) = n
<1>1. 1 \in Int /\ n \in Int  OBVIOUS
<1>2. IsFiniteSet(1..n) /\ Cardinality(1..n) = IF 1 > n THEN 0 ELSE n - 1 + 1
  BY ONLY <1>1, FS_Interval
<1>3. (IF 1 > n THEN 0 ELSE n - 1 + 1) = n  OBVIOUS
<1>. QED  BY <1>2, <1>3

\* Where all positions are taken, it is the sequence.
LEMMA AtAllPositions ==
    ASSUME NEW S, NEW seq \in Seq(S), NEW P \in SUBSET (1..Len(seq)),
           Cardinality(P) = Len(seq)
    PROVE  P = 1..Len(seq) /\ AtPositions(seq, P) = seq
<1>. DEFINE N == Len(seq)
<1>0. N \in Nat  OBVIOUS
<1>1. P = 1..N
  <2>1. IsFiniteSet(1..N) /\ Cardinality(1..N) = N  BY <1>0, FirstNumbers
  <2>. QED  BY <2>1, FS_Subset
<1>2. \A j \in 1..N : UpTo(P, j) = j
  <2>. TAKE j \in 1..N
  <2>1. {i \in P : i <= j} = 1..j  BY <1>1
  <2>2. Cardinality(1..j) = j  BY FirstNumbers
  <2>. QED  BY <2>1, <2>2 DEF UpTo
<1>. DEFINE A == AtPositions(seq, P)
<1>3. DOMAIN A = 1..N /\ \A j \in 1..N : A[j] = seq[j]
  <2>1. DOMAIN A = 1..Cardinality(P) /\ \A j \in P : A[UpTo(P, j)] = seq[j]
    <3>1. ElementsAt(A, seq, P) /\ \A j \in P : A[UpTo(P, j)] = seq[j]
      <4>1. PICK M \in Nat : M = Len(seq)  BY <1>0
      <4>2. P \in SUBSET (1..M)  BY <4>1
      <4>. HIDE DEF N
      <4>3. ElementsAt(AtPositions(seq, P), seq, P)
            /\ \A j \in P : AtPositions(seq, P)[UpTo(P, j)] = seq[j]
        BY ONLY M \in Nat, <4>2, AtPositionsAre
      <4>. QED  BY <4>3
    <3>. QED  BY <3>1 DEF ElementsAt
  <2>. HIDE DEF A
  <2>. QED  BY <1>1, <1>2, <2>1
<1>4. A = [j \in 1..N |-> A[j]]
  <2>1. A = [j \in DOMAIN A |-> A[j]]
    BY DEF A, AtPositions
  <2>. HIDE DEF A
  <2>. QED  BY <1>3, <2>1
<1>5. seq = [j \in 1..N |-> seq[j]]  OBVIOUS
<1>. HIDE DEF A
<1>6. A = seq  BY <1>3, <1>4, <1>5
<1>. QED  BY <1>1, <1>6 DEF A

-----------------------------------------------------------------------------
(* What an execution binds *)

LEMMA AtSomePositions ==
    ASSUME NEW T, NEW seq \in Seq(T), NEW P \in SUBSET (1..Len(seq))
    PROVE  /\ ElementsAt(AtPositions(seq, P), seq, P)
           /\ Len(AtPositions(seq, P)) = Len(seq) => AtPositions(seq, P) = seq /\ P = 1..Len(seq)
<1>1. PICK N \in Nat : N = Len(seq)  OBVIOUS
<1>2. P \in SUBSET (1..N)  BY <1>1
<1>3. ElementsAt(AtPositions(seq, P), seq, P)  BY <1>2, AtPositionsAre
<1>4. Len(AtPositions(seq, P)) = Cardinality(P)  BY <1>3 DEF ElementsAt
<1>5. Len(AtPositions(seq, P)) = Len(seq) => AtPositions(seq, P) = seq /\ P = 1..Len(seq)
  BY <1>4, AtAllPositions
<1>. QED  BY <1>3, <1>5

\* The placeholders of a text are tokens of it, and all of them if there are as many.
LEMMA PlaceholdersAre ==
    ASSUME NEW T, NEW text \in Seq(T), \A i \in DOMAIN text : text[i].n \in Nat \ {0}
    PROVE  /\ Len(Placeholders(text)) \in Nat
           /\ DOMAIN Placeholders(text) = 1..Len(Placeholders(text))
           /\ \A j \in DOMAIN Placeholders(text) :
                  Placeholders(text)[j] \in ToSet(text) /\ Placeholders(text)[j].n \in Nat \ {0}
           /\ Len(Placeholders(text)) = Len(text) => Placeholders(text) = text
<1>1. DOMAIN text = 1..Len(text)  OBVIOUS
<1>2. PICK P \in SUBSET (1..Len(text)) : P = {j \in DOMAIN text : ~text[j].quoted}
  BY <1>1
<1>3. Placeholders(text) = AtPositions(text, P)  BY <1>2 DEF Placeholders
<1>4. PICK A : A = AtPositions(text, P)  OBVIOUS
<1>5. /\ Len(A) \in Nat /\ DOMAIN A = 1..Len(A)
      /\ \A n \in DOMAIN A : \E j \in P : A[n] = text[j]
      /\ Len(A) = Len(text) => A = text
  <2>1. ElementsAt(A, text, P) /\ (Len(A) = Len(text) => A = text)
    BY <1>4, AtSomePositions
  <2>. QED  BY <2>1 DEF ElementsAt
<1>6. \A j \in DOMAIN A : A[j] \in ToSet(text) /\ A[j].n \in Nat \ {0}
  <2>. TAKE j \in DOMAIN A
  <2>1. PICK i \in P : A[j] = text[i]  BY <1>5
  <2>2. text[i] \in ToSet(text) /\ text[i].n \in Nat \ {0}  BY <1>1 DEF ToSet
  <2>. QED  BY <2>1, <2>2
<1>. QED  BY <1>3, <1>4, <1>5, <1>6

\* Where the numbers of the placeholders are those of the values, $n takes the n-th.
LEMMA ByNumberBinds ==
    ASSUME NEW T, NEW text \in Seq(T), \A i \in DOMAIN text : text[i].n \in Nat \ {0},
           NEW M \in Nat, \A j \in DOMAIN Placeholders(text) : Placeholders(text)[j].n <= M,
           NEW args, ~ByNumber(text, args).refused
    PROVE  /\ ByNumber(text, args).bound =
                  [j \in DOMAIN Placeholders(text) |-> args[Placeholders(text)[j].n]]
           /\ \A j \in DOMAIN Placeholders(text) : Placeholders(text)[j].n \in 1..Len(args)
<1>. DEFINE A == Placeholders(text)
            S == {k.n : k \in ToSet(A)}
<1>1. \A j \in DOMAIN A : A[j].n \in Nat \ {0}  BY PlaceholdersAre
<1>2. Len(args) = Highest(S) /\ ByNumber(text, args) = Accepted([j \in DOMAIN A |-> args[A[j].n]])
  BY DEF ByNumber, Refused
<1>. HIDE DEF A
<1>3. S \subseteq 1..M
  <2>. SUFFICES ASSUME NEW k \in ToSet(A) PROVE k.n \in 1..M
    OBVIOUS
  <2>1. PICK j \in DOMAIN A : k = A[j]  BY DEF ToSet
  <2>. QED  BY <1>1, <2>1 DEF A
<1>4. \A j \in DOMAIN A : A[j].n \in S
  BY DEF ToSet
<1>. HIDE DEF S
<1>5. Highest(S) \in Nat /\ \A i \in S : i <= Highest(S)  BY <1>3, HighestIs
<1>6. \A j \in DOMAIN A : A[j].n \in 1..Len(args)
  BY <1>1, <1>2, <1>4, <1>5
<1>. QED  BY <1>2, <1>6 DEF A, Accepted

Settings(p) == DOMAIN p \subseteq 1..MaxIndex

LEMMA CollectIs ==
    ASSUME NEW p, Settings(p)
    PROVE  /\ Len(Collect(p)) = Highest(DOMAIN p)
           /\ Collect(p) = [i \in 1..Highest(DOMAIN p) |-> Value(p, i)]
           /\ DOMAIN Collect(p) = 1..Len(Collect(p)) /\ Len(Collect(p)) \in Nat
           /\ \A i \in 1..Len(Collect(p)) : Collect(p)[i] = Value(p, i)
<1>1. Highest(DOMAIN p) \in Nat  BY HighestIs, StatementsAssumption DEF Settings
<1>. QED  BY <1>1 DEF Collect

Meant(text, q) ==
    [j \in DOMAIN Placeholders(text) |-> Value(q, Placeholders(text)[j].n)]

Same(text, p, q) == \A k \in ToSet(text) : Value(p, k.n) = Value(q, k.n)

\* A prepared statement runs with what is asked for, if its parameters are that at the
\* numbers of the text.
LEMMA PreparedRuns ==
    ASSUME adapter \in Adapters, NEW text \in Texts, NEW p, NEW q, Settings(p), Same(text, p, q),
           adapter \in Numbered \/ InOrder(text),
           ~ExecuteText(text, p).refused
    PROVE  ExecuteText(text, p).bound = Meant(text, q)
<1>. DEFINE A == Placeholders(text)
            C == Collect(p)
<1>1. text \in Seq(Token) /\ MaxIndex \in Nat  BY StatementsAssumption
<1>2. \A i \in DOMAIN text : text[i].n \in 1..MaxIndex /\ text[i].n \in Nat \ {0}
  <2>. TAKE i \in DOMAIN text
  <2>1. text[i] \in Token  BY <1>1
  <2>2. text[i].n \in 1..MaxIndex  BY <2>1 DEF Token
  <2>. QED  BY <1>1, <2>2
<1>3. /\ Len(A) \in Nat /\ DOMAIN A = 1..Len(A)
      /\ \A j \in DOMAIN A : A[j] \in ToSet(text) /\ A[j].n \in Nat \ {0}
      /\ Len(A) = Len(text) => A = text
  BY <1>1, <1>2, PlaceholdersAre
<1>4. /\ DOMAIN C = 1..Len(C) /\ Len(C) \in Nat
      /\ \A i \in 1..Len(C) : C[i] = Value(p, i)
  BY CollectIs
<1>. HIDE DEF A, C
<1>5. \A j \in DOMAIN A : Value(p, A[j].n) = Value(q, A[j].n) /\ A[j].n <= MaxIndex
  <2>. TAKE j \in DOMAIN A
  <2>1. PICK i \in DOMAIN text : A[j] = text[i]  BY <1>3 DEF ToSet
  <2>. QED  BY <1>2, <1>3, <2>1, <1>1 DEF Same
<1>6. ASSUME ~ByNumber(text, C).refused
      PROVE  ByNumber(text, C).bound = Meant(text, q)
  <2>1. /\ ByNumber(text, C).bound = [j \in DOMAIN A |-> C[A[j].n]]
        /\ \A j \in DOMAIN A : A[j].n \in 1..Len(C)
    BY <1>1, <1>2, <1>5, <1>6, ByNumberBinds DEF A
  <2>2. \A j \in DOMAIN A : C[A[j].n] = Value(q, A[j].n)
    BY <1>4, <1>5, <2>1
  <2>. QED  BY <2>1, <2>2 DEF Meant, A
<1>7. ASSUME InOrder(text), ~ByPosition(Len(A), C).refused
      PROVE  ByPosition(Len(A), C).bound = Meant(text, q)
  <2>1. Len(C) = Len(A) /\ ByPosition(Len(A), C).bound = C
    BY <1>7 DEF ByPosition, Refused, Accepted
  <2>2. \A j \in DOMAIN A : A[j].n = j
    BY <1>7 DEF InOrder, A
  <2>3. \A j \in DOMAIN A : C[j] = Value(q, A[j].n)
    BY <1>3, <1>4, <1>5, <2>1, <2>2
  <2>4. C = [j \in DOMAIN A |-> C[j]]
    <3>1. C = [i \in 1..Highest(DOMAIN p) |-> Value(p, i)]  BY CollectIs DEF C
    <3>2. C = [j \in DOMAIN C |-> C[j]]  BY <3>1
    <3>3. DOMAIN C = DOMAIN A  BY <1>3, <1>4, <2>1
    <3>. QED  BY <3>2, <3>3
  <2>. QED  BY <2>1, <2>3, <2>4 DEF Meant, A
<1>. DEFINE I == [j \in DOMAIN text |-> text[j].n]
            B == ByPosition(Len(A), CollectIndexed(p, I))
<1>8. ASSUME ~B.refused PROVE B.bound = Meant(text, q)
  <2>1. Len(text) \in Nat /\ DOMAIN text = 1..Len(text)  BY <1>1
  <2>2. Len(I) = Len(text) /\ DOMAIN I = 1..Len(text)  BY <2>1
  <2>3. B = IF Len(CollectIndexed(p, I)) # Len(A) THEN Refused ELSE Accepted(CollectIndexed(p, I))
    BY DEF ByPosition
  <2>. HIDE DEF B
  <2>4. Len(CollectIndexed(p, I)) = Len(A) /\ B.bound = CollectIndexed(p, I)
    BY <1>8, <2>3 DEF Refused, Accepted
  <2>5. CASE I = <<>>
    <3>1. CollectIndexed(p, I) = C  BY <2>5 DEF CollectIndexed, C
    <3>2. Len(text) = 0 /\ DOMAIN text = {}
      <4>1. Len(I) = Len(text) /\ DOMAIN text = 1..Len(text)  BY <2>1, <2>2
      <4>. HIDE DEF I
      <4>2. Len(I) = 0  BY <2>5
      <4>3. Len(text) = 0  BY ONLY <4>1, <4>2
      <4>4. DOMAIN text = {}  BY ONLY <4>1, <4>3
      <4>. QED  BY <4>3, <4>4
    <3>3. DOMAIN A = {}  BY <1>3, <3>2 DEF ToSet
    <3>4. Len(A) = 0  BY <1>3, <3>3
    <3>5. DOMAIN C = {}  BY <1>4, <2>4, <3>1, <3>4
    <3>6. C = [j \in {} |-> C[j]]
      <4>1. C = [i \in 1..Highest(DOMAIN p) |-> Value(p, i)]  BY CollectIs DEF C
      <4>. QED  BY <3>5, <4>1
    <3>7. Meant(text, q) = [j \in {} |-> Value(q, A[j].n)]  BY <3>3 DEF Meant, A
    <3>. QED  BY <2>4, <3>1, <3>6, <3>7
  <2>6. CASE I # <<>>
    <3>1. CollectIndexed(p, I) = [j \in DOMAIN I |-> Value(p, I[j])]  BY <2>6 DEF CollectIndexed
    <3>2. Len(CollectIndexed(p, I)) = Len(text)  BY <2>1, <2>2, <3>1
    <3>3. A = text  BY <1>3, <2>4, <3>2
    <3>4. CollectIndexed(p, I) = [j \in DOMAIN A |-> Value(p, A[j].n)]
      <4>1. \A j \in DOMAIN text : I[j] = text[j].n  OBVIOUS
      <4>2. DOMAIN I = DOMAIN text  OBVIOUS
      <4>. HIDE DEF I
      <4>3. CollectIndexed(p, I) = [j \in DOMAIN text |-> Value(p, text[j].n)]
        BY <3>1, <4>1, <4>2
      <4>. QED  BY <3>3, <4>3
    <3>. QED  BY <1>5, <2>4, <3>4 DEF Meant, A
  <2>. QED  BY <2>5, <2>6
<1>. HIDE DEF B
<1>9. /\ adapter \in {"pg", "bunpg", "denopg"} => ExecuteText(text, p) = ByNumber(text, C)
      /\ adapter \in {"mysql", "sqlite", "bunsqlite"} => ExecuteText(text, p) = ByPosition(Len(A), C)
      /\ adapter \in {"libsql", "d1"} => ExecuteText(text, p) = B
  BY DEF ExecuteText, PgExecute, BunPgExecute, DenoPgExecute, MysqlExecute, SqliteExecute,
         BunSqliteExecute, LibSqlExecute, D1Execute, ConvertPositionalParams, ConvertWithIndices,
         A, B, C
<1>10. adapter \in {"pg", "bunpg", "denopg"} \cup {"libsql", "d1"} \cup {"mysql", "sqlite", "bunsqlite"}
  BY StatementsAssumption
<1>11. CASE adapter \in {"pg", "bunpg", "denopg"}  BY <1>6, <1>9, <1>11
<1>12. CASE adapter \in {"libsql", "d1"}  BY <1>8, <1>9, <1>12
<1>13. CASE adapter \in {"mysql", "sqlite", "bunsqlite"}
  <2>1. InOrder(text)  BY <1>13 DEF Numbered
  <2>. QED  BY <1>7, <1>9, <1>13, <2>1
<1>. QED  BY <1>10, <1>11, <1>12, <1>13

\* Every name has a first occurrence, at which it is first.
LEMMA FirstsAre ==
    ASSUME NEW T, NEW names \in Seq(T)
    PROVE  /\ Len(FirstOccurrences(names)) \in Nat
           /\ DOMAIN FirstOccurrences(names) = 1..Len(FirstOccurrences(names))
           /\ \A j \in DOMAIN names : \E i \in DOMAIN FirstOccurrences(names) :
                  FirstOccurrences(names)[i] = names[j]
           /\ Len(FirstOccurrences(names)) = Len(names) => FirstOccurrences(names) = names
<1>1. Len(names) \in Nat /\ DOMAIN names = 1..Len(names)  OBVIOUS
<1>2. PICK P \in SUBSET (1..Len(names)) :
          P = {j \in DOMAIN names : \A i \in 1..(j - 1) : names[i] # names[j]}
  BY <1>1
<1>3. FirstOccurrences(names) = AtPositions(names, P)  BY <1>2 DEF FirstOccurrences
<1>4. PICK A : A = AtPositions(names, P)  OBVIOUS
<1>5. ElementsAt(A, names, P) /\ (Len(A) = Len(names) => A = names)
  BY <1>4, AtSomePositions
<1>6. \A j \in DOMAIN names : \E i \in DOMAIN A : A[i] = names[j]
  <2>. TAKE j \in DOMAIN names
  <2>. DEFINE T1 == {i \in DOMAIN names : names[i] = names[j]}
  <2>1. PICK i \in T1 : \A k \in T1 : i <= k
    <3>1. T1 \subseteq Nat /\ T1 # {}  BY <1>1
    <3>. HIDE DEF T1
    <3>. QED  BY <3>1, LeastOf
  <2>2. i \in 1..Len(names) /\ names[i] = names[j]  BY <1>1, <2>1
  <2>3. \A k \in 1..(i - 1) : names[k] # names[i]
    <3>. TAKE k \in 1..(i - 1)
    <3>1. k \in DOMAIN names /\ ~(i <= k)  BY <1>1, <2>2
    <3>2. k \notin T1  BY <2>1, <3>1
    <3>. QED  BY <2>2, <3>1, <3>2
  <2>4. i \in P  BY <1>1, <1>2, <2>2, <2>3
  <2>. QED  BY <1>5, <2>2, <2>4 DEF ElementsAt
<1>7. Len(A) \in Nat /\ DOMAIN A = 1..Len(A)  BY <1>5 DEF ElementsAt
<1>. QED  BY <1>3, <1>4, <1>5, <1>6, <1>7

\* A named statement runs with the value of each name.
LEMMA NamedRuns ==
    ASSUME adapter \in {"pg", "mysql", "sqlite"}, NEW names \in NamedTexts, NEW p,
           ~ExecuteNamed(names, p).refused
    PROVE  ExecuteNamed(names, p).bound = [j \in DOMAIN names |-> Value(p, names[j])]
<1>1. names \in Seq(STRING)  BY StatementsAssumption
<1>2. Len(names) \in Nat /\ DOMAIN names = 1..Len(names)  BY <1>1
<1>3. PICK order : order = FirstOccurrences(names)  OBVIOUS
<1>4. /\ Len(order) \in Nat /\ DOMAIN order = 1..Len(order)
      /\ \A j \in DOMAIN names : \E i \in DOMAIN order : order[i] = names[j]
      /\ Len(order) = Len(names) => order = names
  BY <1>1, <1>3, FirstsAre
<1>5. PICK text : text = ParseNamedParams(names)  OBVIOUS
<1>6. PICK num : num = [j \in DOMAIN names |-> CHOOSE i \in DOMAIN order : order[i] = names[j]]
  OBVIOUS
<1>7. \A j \in DOMAIN names : num[j] \in DOMAIN order /\ order[num[j]] = names[j]
  BY <1>4, <1>6
<1>8. text = [j \in DOMAIN names |-> [n |-> num[j], quoted |-> FALSE]]
  BY <1>3, <1>5, <1>6 DEF ParseNamedParams
<1>9. /\ text \in Seq([n : Nat, quoted : BOOLEAN]) /\ Len(text) = Len(names)
      /\ \A j \in DOMAIN names : text[j].n = num[j] /\ text[j].quoted = FALSE
      /\ DOMAIN text = DOMAIN names
  <2>1. \A j \in DOMAIN names : num[j] \in Nat  BY <1>4, <1>7
  <2>2. \A j \in DOMAIN names : [n |-> num[j], quoted |-> FALSE] \in [n : Nat, quoted : BOOLEAN]
    BY <2>1
  <2>. QED  BY <1>2, <1>8, <2>2
<1>10. Placeholders(text) = text
  <2>1. {j \in DOMAIN text : ~text[j].quoted} = 1..Len(text)
    BY <1>2, <1>9
  <2>2. Placeholders(text) = AtPositions(text, 1..Len(text))  BY <2>1 DEF Placeholders
  <2>3. Cardinality(1..Len(text)) = Len(text)  BY <1>2, <1>9, FirstNumbers
  <2>. QED  BY <1>9, <2>2, <2>3, AtAllPositions
<1>11. PICK args : args = [i \in DOMAIN order |-> Value(p, order[i])]  OBVIOUS
<1>12. InParamOrder(names, p) = args  BY <1>3, <1>11 DEF InParamOrder, ParamOrder
<1>13. Len(args) = Len(order)  BY <1>4, <1>11
<1>14. ASSUME ~ByNumber(text, args).refused
       PROVE  ByNumber(text, args).bound = [j \in DOMAIN names |-> Value(p, names[j])]
  <2>1. \A j \in DOMAIN text : text[j].n \in Nat \ {0} /\ text[j].n <= Len(order)
    <3>. TAKE j \in DOMAIN text
    <3>1. num[j] \in 1..Len(order) /\ text[j].n = num[j]  BY <1>4, <1>7, <1>9
    <3>. QED  BY <1>4, <3>1
  <2>2. ByNumber(text, args).bound = [j \in DOMAIN text |-> args[text[j].n]]
    <3>1. PICK M \in Nat : M = Len(order)  BY <1>4
    <3>2. \A j \in DOMAIN Placeholders(text) : Placeholders(text)[j].n <= M
      BY <1>10, <2>1, <3>1
    <3>3. \A j \in DOMAIN text : text[j].n \in Nat \ {0}  BY <2>1
    <3>4. ByNumber(text, args).bound =
              [j \in DOMAIN Placeholders(text) |-> args[Placeholders(text)[j].n]]
      <4>1. PICK S : text \in Seq(S)  BY <1>9
      <4>. QED  BY ONLY <1>14, <3>2, <3>3, <4>1, M \in Nat, ByNumberBinds, ZenonT(40)
    <3>. QED  BY <1>10, <3>4
  <2>3. \A j \in DOMAIN names : args[text[j].n] = Value(p, names[j])
    BY <1>7, <1>9, <1>11
  <2>. QED  BY <1>9, <2>2, <2>3
<1>15. ASSUME ~ByPosition(Len(text), args).refused
       PROVE  ByPosition(Len(text), args).bound = [j \in DOMAIN names |-> Value(p, names[j])]
  <2>1. Len(args) = Len(text) /\ ByPosition(Len(text), args).bound = args
    BY <1>15 DEF ByPosition, Refused, Accepted
  <2>2. order = names  BY <1>4, <1>9, <1>13, <2>1
  <2>. QED  BY <1>11, <2>1, <2>2
<1>16. CASE adapter = "pg"
  BY <1>5, <1>12, <1>14, <1>16 DEF ExecuteNamed, PgNamed
<1>17. CASE adapter = "mysql"
  BY <1>5, <1>10, <1>12, <1>15, <1>17 DEF ExecuteNamed, MysqlNamed, ConvertPositionalParams
<1>18. CASE adapter = "sqlite"
  BY <1>5, <1>10, <1>12, <1>15, <1>18 DEF ExecuteNamed, SqliteNamed, ConvertPositionalParams
<1>. QED  BY <1>16, <1>17, <1>18

\* A batch whose rows are of one width stores them all, or those before the refused one.
LEMMA BatchRuns ==
    ASSUME adapter \in {"pg", "mysql", "sqlite"}, NEW T, NEW batch \in Seq(Seq(T)),
           batch # <<>>, \A k \in DOMAIN batch : Len(batch[k]) = Len(batch[1]),
           NEW insert \in BOOLEAN, NEW failing \in 0..Len(batch),
           NEW r, r = ExecuteRows(batch, insert, failing)
    PROVE  /\ IsPrefix(r.stored, batch)
           /\ r.accepted => r.stored = batch
           /\ ~r.accepted /\ (insert \/ adapter = "sqlite") => r.stored = <<>>
<1>1. IsPrefix(<<>>, batch) /\ IsPrefix(batch, batch)
  <2>1. Len(<<>>) = 0 /\ Len(batch) \in Nat  OBVIOUS
  <2>2. SubSeq(<<>>, 1, 0) = <<>> /\ SubSeq(batch, 1, 0) = <<>>  OBVIOUS
  <2>. QED  BY <2>1, <2>2 DEF IsPrefix
<1>2. ASSUME failing # 0 PROVE IsPrefix(SubSeq(batch, 1, failing - 1), batch)
  <2>1. failing - 1 \in 0..Len(batch)  BY <1>2
  <2>2. PICK k \in 0..Len(batch) : k = failing - 1  BY <2>1
  <2>3. Len(SubSeq(batch, 1, k)) = k /\ SubSeq(SubSeq(batch, 1, k), 1, k) = SubSeq(batch, 1, k)
    OBVIOUS
  <2>4. k <= Len(batch)  OBVIOUS
  <2>5. IsPrefix(SubSeq(batch, 1, k), batch)  BY <2>3, <2>4 DEF IsPrefix
  <2>. QED  BY <2>2, <2>5
<1>3. MultiRow(batch).stored = batch /\ MultiRow(batch).accepted
  <2>1. \A k \in DOMAIN batch :
            [c \in 1..Len(batch[1]) |-> Value(batch[k], c)] = batch[k]
    <3>. TAKE k \in DOMAIN batch
    <3>1. PICK row \in Seq(T) : row = batch[k]  OBVIOUS
    <3>2. DOMAIN row = 1..Len(row) /\ row = [c \in 1..Len(row) |-> row[c]]  OBVIOUS
    <3>3. row = [c \in 1..Len(row) |-> Value(row, c)]  BY <3>2 DEF Value
    <3>4. Len(row) = Len(batch[1])  BY <3>1
    <3>. QED  BY <3>1, <3>3, <3>4, Zenon
  <2>2. batch = [k \in DOMAIN batch |-> batch[k]]  OBVIOUS
  <2>3. MultiRow(batch).stored = [k \in DOMAIN batch |-> batch[k]]
    BY <2>1, Zenon DEF MultiRow
  <2>. QED  BY <2>2, <2>3 DEF MultiRow
<1>4. /\ AllOrNone(MultiRow(batch), 0) = MultiRow(batch)
      /\ failing # 0 => AllOrNone(MultiRow(batch), failing) = [accepted |-> FALSE, stored |-> <<>>]
  BY DEF AllOrNone
<1>5. OneByOne(batch, 0) = [accepted |-> TRUE, stored |-> batch]
      /\ (failing # 0 => OneByOne(batch, failing)
             = [accepted |-> FALSE, stored |-> SubSeq(batch, 1, failing - 1)])
  BY DEF OneByOne
<1>6. /\ failing = 0 => AllOrNone(OneByOne(batch, 0), failing) = [accepted |-> TRUE, stored |-> batch]
      /\ failing # 0 => AllOrNone(OneByOne(batch, 0), failing) = [accepted |-> FALSE, stored |-> <<>>]
  BY <1>5 DEF AllOrNone
<1>7. CASE adapter = "sqlite"
  <2>1. ExecuteRows(batch, insert, failing) = AllOrNone(OneByOne(batch, 0), failing)
    BY <1>7 DEF ExecuteRows, SqliteBatch
  <2>. QED  BY <1>1, <1>6, <2>1
<1>8. CASE adapter \in {"pg", "mysql"} /\ insert
  <2>1. ExecuteRows(batch, insert, failing) = AllOrNone(MultiRow(batch), failing)
    BY <1>8 DEF ExecuteRows, PgBatch, MysqlBatch
  <2>2. CASE failing = 0  BY <1>1, <1>3, <1>4, <2>1, <2>2
  <2>3. CASE failing # 0  BY <1>1, <1>4, <2>1, <2>3
  <2>. QED  BY <2>2, <2>3
<1>9. CASE adapter \in {"pg", "mysql"} /\ ~insert
  <2>1. ExecuteRows(batch, insert, failing) = OneByOne(batch, failing)
    BY <1>9 DEF ExecuteRows, PgBatch, MysqlBatch
  <2>2. CASE failing = 0  BY <1>1, <1>5, <1>9, <2>1, <2>2
  <2>3. CASE failing # 0
    <3>1. r = [accepted |-> FALSE, stored |-> SubSeq(batch, 1, failing - 1)]  BY <1>5, <2>1, <2>3
    <3>2. adapter # "sqlite"  BY <1>9
    <3>. QED  BY <1>2, <1>9, <2>3, <3>1, <3>2
  <2>. QED  BY <2>2, <2>3
<1>. QED  BY <1>7, <1>8, <1>9

-----------------------------------------------------------------------------
(* Parameters arrive where they are set *)

StatementsSpec == StatementsInit /\ [][StatementsNext]_statementVars

NamedAndBatch == {"pg", "mysql", "sqlite"}

AllSettings == UNION {[D -> ParamValues] : D \in SUBSET (1..MaxIndex)}

HandIs ==
    /\ adapter \in Adapters
    /\ hand.kind = "prepared" => hand.text \in Texts
    /\ hand.kind = "named" => hand.text \in NamedTexts /\ adapter \in NamedAndBatch /\ ~hand.pooled
    /\ hand.kind = "batch" => adapter \in NamedAndBatch /\ ~hand.pooled

\* The indexes of what is set, also in the statement objects in no caller's hand.
Indexed ==
    /\ hand.kind # "named" => params \in AllSettings
    /\ left \in [Texts -> [set : BOOLEAN, params : AllSettings]]
    /\ hand.kind = "batch" => rows \in Seq(Seq(ParamValues \cup {Null}))

\* The statement has what its caller has set, and what others have set only if it comes
\* from the pool.
Agrees ==
    /\ \A k \in DOMAIN asked : k \in DOMAIN params /\ params[k] = asked[k]
    /\ ~hand.pooled => params = asked
    /\ hand.kind = "batch" => rows = askedRows

SInv == HandIs /\ Indexed /\ Agrees /\ ParametersArriveWhereSet

LEMMA NoParamsIs ==
    NoParams \in AllSettings /\ DOMAIN NoParams = {}
<1>1. {} \in SUBSET (1..MaxIndex)  OBVIOUS
<1>2. NoParams \in [{} -> ParamValues]  BY DEF NoParams
<1>. QED  BY <1>1, <1>2 DEF AllSettings, NoParams

LEMMA SettingsOf ==
    ASSUME NEW p \in AllSettings
    PROVE  /\ Settings(p) /\ p = [k \in DOMAIN p |-> p[k]]
           /\ \A k \in DOMAIN p : p[k] \in ParamValues
<1>1. PICK D \in SUBSET (1..MaxIndex) : p \in [D -> ParamValues]  BY DEF AllSettings
<1>. QED  BY <1>1 DEF Settings

SetAt(p, i, v) == [j \in DOMAIN p \cup {i} |-> IF j = i THEN v ELSE p[j]]

LEMMA SettingOneMore ==
    ASSUME NEW p \in AllSettings, NEW i \in 1..MaxIndex, NEW v \in ParamValues
    PROVE  SetAt(p, i, v) \in AllSettings
<1>1. PICK D \in SUBSET (1..MaxIndex) : p \in [D -> ParamValues]  BY DEF AllSettings
<1>2. D \cup {i} \in SUBSET (1..MaxIndex) /\ DOMAIN p = D  BY <1>1
<1>3. SetAt(p, i, v) \in [D \cup {i} -> ParamValues]  BY <1>1, <1>2 DEF SetAt
<1>. QED  BY <1>2, <1>3 DEF AllSettings

LEMMA CollectedRow ==
    ASSUME NEW p \in AllSettings
    PROVE  Collect(p) \in Seq(ParamValues \cup {Null})
<1>1. Settings(p) /\ \A k \in DOMAIN p : p[k] \in ParamValues  BY SettingsOf
<1>2. /\ Collect(p) = [i \in 1..Highest(DOMAIN p) |-> Value(p, i)]
      /\ Len(Collect(p)) = Highest(DOMAIN p) /\ Len(Collect(p)) \in Nat
  BY <1>1, CollectIs
<1>3. \A i : Value(p, i) \in ParamValues \cup {Null}  BY <1>1 DEF Value
<1>4. PICK h \in Nat : h = Highest(DOMAIN p)  BY <1>2
<1>5. Collect(p) \in [1..h -> ParamValues \cup {Null}]  BY <1>2, <1>3, <1>4, Zenon
<1>. QED  BY <1>5

LEMMA StatementInit == StatementsInit => SInv
<1>. SUFFICES ASSUME NEW a \in Adapters, StatementsStart(a) PROVE SInv
  BY DEF StatementsInit
<1>1. adapter = a /\ hand = NoStatement /\ params = NoParams /\ asked = NoParams
      /\ left = [t \in Texts |-> Uncached] /\ ran = NothingRan
  BY DEF StatementsStart
<1>2. HandIs  BY <1>1 DEF HandIs, NoStatement
<1>3. Uncached \in [set : BOOLEAN, params : AllSettings]
  BY NoParamsIs DEF Uncached
<1>4. Indexed  BY <1>1, <1>3, NoParamsIs DEF Indexed, NoStatement
<1>5. Agrees  BY <1>1, NoParamsIs DEF Agrees, NoStatement
<1>6. ParametersArriveWhereSet
  BY <1>1 DEF ParametersArriveWhereSet, PreparedBindsItsOwn, NamedBindsItsOwn, BatchStoresItsRows,
              NothingRan
<1>. QED  BY <1>2, <1>4, <1>5, <1>6 DEF SInv

\* The properties are about what has run.
LEMMA NothingHasRun ==
    ran'.kind = "none" => ParametersArriveWhereSet'
BY DEF ParametersArriveWhereSet, PreparedBindsItsOwn, NamedBindsItsOwn, BatchStoresItsRows

\* A new statement, with nothing set or with what is left in the pool's object of its text.
LEMMA TakeKeeps ==
    ASSUME SInv, NEW kind, NEW text, NEW pooled, NEW p, Take(kind, text, pooled, p),
           kind = "prepared" => text \in Texts,
           kind = "named" => text \in NamedTexts /\ adapter \in NamedAndBatch /\ ~pooled,
           kind = "batch" => adapter \in NamedAndBatch /\ ~pooled,
           p \in AllSettings, ~pooled => p = NoParams,
           left' \in [Texts -> [set : BOOLEAN, params : AllSettings]]
    PROVE  SInv'
<1>1. /\ hand' = [kind |-> kind, text |-> text, pooled |-> pooled]
      /\ params' = p /\ asked' = NoParams /\ rows' = <<>> /\ askedRows' = <<>>
      /\ ran' = NothingRan /\ adapter' = adapter
  BY DEF Take
<1>2. adapter \in Adapters  BY DEF SInv, HandIs
<1>3. HandIs'  BY <1>1, <1>2 DEF HandIs
<1>4. Indexed'  BY <1>1 DEF Indexed
<1>5. Agrees'  BY <1>1, NoParamsIs DEF Agrees
<1>6. ParametersArriveWhereSet'  BY <1>1, NothingHasRun DEF NothingRan
<1>. QED  BY <1>3, <1>4, <1>5, <1>6 DEF SInv

LEMMA PrepareKeeps ==
    ASSUME SInv, NEW t \in Texts, Prepare(t)
    PROVE  SInv'
<1>1. left \in [Texts -> [set : BOOLEAN, params : AllSettings]]  BY DEF SInv, Indexed
<1>2. Take("prepared", t, FALSE, NoParams)  BY DEF Prepare
<1>3. left' \in [Texts -> [set : BOOLEAN, params : AllSettings]]
  <2>1. [set |-> TRUE, params |-> NoParams] \in [set : BOOLEAN, params : AllSettings]
    BY NoParamsIs
  <2>. QED  BY <1>1, <2>1 DEF Prepare
<1>. QED  BY <1>2, <1>3, NoParamsIs, TakeKeeps

LEMMA AcquireKeeps ==
    ASSUME SInv, NEW t \in Texts, Acquire(t)
    PROVE  SInv'
<1>1. left \in [Texts -> [set : BOOLEAN, params : AllSettings]]  BY DEF SInv, Indexed
<1>2. Take("prepared", t, TRUE, left[t].params) /\ left' = [left EXCEPT ![t].set = TRUE]
  BY DEF Acquire
<1>3. left[t].params \in AllSettings  BY <1>1
<1>4. left' \in [Texts -> [set : BOOLEAN, params : AllSettings]]  BY <1>1, <1>2
<1>. QED  BY <1>2, <1>3, <1>4, TakeKeeps

LEMMA PrepareNamedKeeps ==
    ASSUME SInv, NEW names \in NamedTexts, PrepareNamed(names)
    PROVE  SInv'
<1>1. /\ adapter \in NamedAndBatch /\ Take("named", names, FALSE, NoParams)
      /\ left' \in [Texts -> [set : BOOLEAN, params : AllSettings]]
  BY DEF PrepareNamed, NamedAndBatch, SInv, Indexed
<1>. QED  BY <1>1, NoParamsIs, TakeKeeps

LEMMA PrepareBatchKeeps ==
    ASSUME SInv, PrepareBatch
    PROVE  SInv'
<1>1. /\ adapter \in NamedAndBatch /\ Take("batch", <<>>, FALSE, NoParams)
      /\ left' \in [Texts -> [set : BOOLEAN, params : AllSettings]]
  BY DEF PrepareBatch, NamedAndBatch, SInv, Indexed
<1>. QED  BY <1>1, NoParamsIs, TakeKeeps

LEMMA SetParameterKeeps ==
    ASSUME SInv, NEW i, NEW v \in ParamValues, SetParameter(i, v)
    PROVE  SInv'
<1>1. /\ ran.kind = "none" /\ i \in KeyOf(hand.kind)
      /\ params' = SetAt(params, i, v) /\ asked' = SetAt(asked, i, v)
      /\ left' = IF hand.kind = "prepared" /\ left[hand.text].set
                 THEN [left EXCEPT ![hand.text].params = params'] ELSE left
      /\ adapter' = adapter /\ hand' = hand /\ rows' = rows /\ askedRows' = askedRows
      /\ ran' = ran
  BY DEF SetParameter, SetAt
<1>2. hand.kind # "named" => params' \in AllSettings
  <2>. HAVE hand.kind # "named"
  <2>1. i \in 1..MaxIndex /\ params \in AllSettings  BY <1>1 DEF KeyOf, SInv, Indexed
  <2>. QED  BY <1>1, <2>1, SettingOneMore
<1>3. left' \in [Texts -> [set : BOOLEAN, params : AllSettings]]
  <2>1. left \in [Texts -> [set : BOOLEAN, params : AllSettings]]  BY DEF SInv, Indexed
  <2>2. CASE hand.kind = "prepared" /\ left[hand.text].set
    <3>1. PICK q \in AllSettings : q = params'  BY <1>2, <2>2
    <3>2. left' = [left EXCEPT ![hand.text].params = q]  BY <1>1, <2>2, <3>1
    <3>3. hand.text \in Texts  BY <2>2 DEF SInv, HandIs
    <3>. QED  BY <2>1, <3>2, <3>3
  <2>3. CASE ~(hand.kind = "prepared" /\ left[hand.text].set)  BY <1>1, <2>1, <2>3
  <2>. QED  BY <2>2, <2>3
<1>4. HandIs'  BY <1>1 DEF SInv, HandIs
<1>5. Indexed'  BY <1>1, <1>2, <1>3 DEF SInv, Indexed
<1>6. Agrees'
  <2>1. /\ \A k \in DOMAIN asked : k \in DOMAIN params /\ params[k] = asked[k]
        /\ ~hand.pooled => params = asked
        /\ hand.kind = "batch" => rows = askedRows
    BY DEF SInv, Agrees
  <2>2. \A k \in DOMAIN SetAt(asked, i, v) :
            k \in DOMAIN SetAt(params, i, v) /\ SetAt(params, i, v)[k] = SetAt(asked, i, v)[k]
    BY <2>1 DEF SetAt
  <2>3. ~hand.pooled => SetAt(params, i, v) = SetAt(asked, i, v)  BY <2>1
  <2>. QED  BY <1>1, <2>1, <2>2, <2>3 DEF Agrees
<1>7. ParametersArriveWhereSet'  BY <1>1, NothingHasRun
<1>. QED  BY <1>4, <1>5, <1>6, <1>7 DEF SInv

LEMMA AddBatchKeeps ==
    ASSUME SInv, AddBatch
    PROVE  SInv'
<1>1. /\ hand.kind = "batch" /\ ran.kind = "none"
      /\ rows' = Append(rows, Collect(params)) /\ askedRows' = Append(askedRows, Collect(asked))
      /\ params' = NoParams /\ asked' = NoParams
      /\ adapter' = adapter /\ left' = left /\ hand' = hand /\ ran' = ran
  BY DEF AddBatch, AddRow
<1>2. /\ params = asked /\ rows = askedRows /\ params \in AllSettings
      /\ rows \in Seq(Seq(ParamValues \cup {Null}))
  BY <1>1 DEF SInv, HandIs, Indexed, Agrees
<1>3. HandIs'  BY <1>1 DEF SInv, HandIs
<1>4. Append(rows, Collect(params)) \in Seq(Seq(ParamValues \cup {Null}))
  <2>1. Collect(params) \in Seq(ParamValues \cup {Null})  BY <1>2, CollectedRow
  <2>. QED  BY <1>2, <2>1
<1>5. Indexed'
  <2>1. left \in [Texts -> [set : BOOLEAN, params : AllSettings]]  BY DEF SInv, Indexed
  <2>. QED  BY <1>1, <1>4, <2>1, NoParamsIs, Zenon DEF Indexed
<1>6. Agrees'
  <2>1. rows' = askedRows' /\ params' = asked' /\ DOMAIN asked' = {}
    BY <1>1, <1>2, NoParamsIs, Zenon
  <2>. QED  BY <2>1, Zenon DEF Agrees
<1>7. ParametersArriveWhereSet'  BY <1>1, NothingHasRun
<1>. QED  BY <1>3, <1>5, <1>6, <1>7 DEF SInv

LEMMA LetGoKeeps ==
    ASSUME SInv, LetGo
    PROVE  SInv'
<1>1. /\ hand' = NoStatement /\ params' = NoParams /\ asked' = NoParams
      /\ rows' = <<>> /\ askedRows' = <<>> /\ ran' = NothingRan
      /\ adapter' = adapter /\ left' = left
  BY DEF LetGo
<1>2. adapter \in Adapters /\ left \in [Texts -> [set : BOOLEAN, params : AllSettings]]
  BY DEF SInv, HandIs, Indexed
<1>3. HandIs'  BY <1>1, <1>2 DEF HandIs, NoStatement
<1>4. Indexed'  BY <1>1, <1>2, NoParamsIs DEF Indexed, NoStatement
<1>5. Agrees'  BY <1>1, NoParamsIs DEF Agrees, NoStatement
<1>6. ParametersArriveWhereSet'  BY <1>1, NothingHasRun DEF NothingRan
<1>. QED  BY <1>3, <1>4, <1>5, <1>6 DEF SInv

\* What an execution leaves alone.
LEMMA Executed ==
    ASSUME SInv, UNCHANGED <<adapter, left, hand, params, asked, rows, askedRows>>,
           ParametersArriveWhereSet'
    PROVE  SInv'
<1>1. HandIs'  BY DEF SInv, HandIs
<1>2. Indexed'  BY DEF SInv, Indexed
<1>3. Agrees'  BY DEF SInv, Agrees
<1>. QED  BY <1>1, <1>2, <1>3 DEF SInv

LEMMA ExecuteKeeps ==
    ASSUME SInv, Execute
    PROVE  SInv'
<1>1. /\ hand.kind \in {"prepared", "named"}
      /\ UNCHANGED <<adapter, left, hand, params, asked, rows, askedRows>>
  BY DEF Execute
<1>2. PICK r : r = IF hand.kind = "named" THEN ExecuteNamed(hand.text, params)
                   ELSE ExecuteText(hand.text, params)
  OBVIOUS
<1>3. /\ ran'.kind = hand.kind /\ ran'.text = hand.text /\ ran'.asked = asked
      /\ ran'.bound = r.bound /\ ran'.refused = r.refused
  BY <1>2 DEF Execute, NothingRan
<1>4. /\ \A k \in DOMAIN asked : k \in DOMAIN params /\ params[k] = asked[k]
      /\ ~hand.pooled => params = asked
  BY DEF SInv, Agrees
<1>5. PreparedBindsItsOwn'
  <2>. SUFFICES ASSUME ran'.kind = "prepared", ~ran'.refused,
                       adapter' \in Numbered \/ InOrder(ran'.text),
                       hand'.pooled => \A k \in ToSet(ran'.text) : k.n \in DOMAIN ran'.asked
                PROVE  ran'.bound = Meant(ran'.text, ran'.asked)
    BY DEF PreparedBindsItsOwn, Meant
  <2>1. hand.kind = "prepared" /\ hand.text \in Texts /\ adapter \in Adapters
        /\ params \in AllSettings
    BY <1>3 DEF SInv, HandIs, Indexed
  <2>2. r = ExecuteText(hand.text, params) /\ ~r.refused  BY <1>2, <1>3, <2>1
  <2>3. adapter \in Numbered \/ InOrder(hand.text)  BY <1>1, <1>3
  <2>4. Same(hand.text, params, asked)
    <3>1. CASE hand.pooled
      <4>1. \A k \in ToSet(hand.text) : k.n \in DOMAIN asked  BY <1>1, <1>3, <3>1
      <4>. QED  BY <1>4, <4>1 DEF Same, Value
    <3>2. CASE ~hand.pooled  BY <1>4, <3>2 DEF Same
    <3>. QED  BY <3>1, <3>2
  <2>5. r.bound = Meant(hand.text, asked)
    <3>1. Settings(params)  BY <2>1, SettingsOf
    <3>. QED  BY <2>1, <2>2, <2>3, <2>4, <3>1, PreparedRuns
  <2>. QED  BY <1>3, <2>5
<1>6. NamedBindsItsOwn'
  <2>. SUFFICES ASSUME ran'.kind = "named", ~ran'.refused
                PROVE  ran'.bound = [j \in DOMAIN ran'.text |-> Value(ran'.asked, ran'.text[j])]
    BY DEF NamedBindsItsOwn
  <2>1. /\ hand.kind = "named" /\ hand.text \in NamedTexts /\ adapter \in NamedAndBatch
        /\ ~hand.pooled
    BY <1>3 DEF SInv, HandIs
  <2>2. r = ExecuteNamed(hand.text, params) /\ ~r.refused  BY <1>2, <1>3, <2>1
  <2>3. r.bound = [j \in DOMAIN hand.text |-> Value(params, hand.text[j])]
    BY <2>1, <2>2, NamedRuns DEF NamedAndBatch
  <2>. QED  BY <1>3, <1>4, <2>1, <2>3
<1>7. BatchStoresItsRows'
  <2>1. ran'.kind # "batch"  BY <1>1, <1>3
  <2>. QED  BY <2>1 DEF BatchStoresItsRows
<1>8. ParametersArriveWhereSet'  BY <1>5, <1>6, <1>7 DEF ParametersArriveWhereSet
<1>. QED  BY <1>1, <1>8, Executed

LEMMA ExecuteBatchKeeps ==
    ASSUME SInv, ExecuteBatch
    PROVE  SInv'
<1>1. /\ hand.kind = "batch" /\ rows # <<>>
      /\ UNCHANGED <<adapter, left, hand, params, asked, rows, askedRows>>
  BY DEF ExecuteBatch
<1>2. PICK insert \in BOOLEAN, failing \in 0..Len(rows) :
          LET r == ExecuteRows(rows, insert, failing)
          IN ran' = [NothingRan EXCEPT !.kind = "batch", !.rows = askedRows, !.insert = insert,
                                       !.bound = r.stored, !.refused = ~r.accepted]
  BY DEF ExecuteBatch
<1>3. PICK r : r = ExecuteRows(rows, insert, failing)  OBVIOUS
<1>4. /\ ran'.kind = "batch" /\ ran'.rows = askedRows /\ ran'.insert = insert
      /\ ran'.bound = r.stored /\ ran'.refused = ~r.accepted
  BY <1>2, <1>3 DEF NothingRan
<1>5. /\ adapter \in {"pg", "mysql", "sqlite"} /\ rows = askedRows
      /\ rows \in Seq(Seq(ParamValues \cup {Null}))
  BY <1>1 DEF SInv, HandIs, Indexed, Agrees, NamedAndBatch
<1>6. BatchStoresItsRows'
  <2>. SUFFICES ASSUME \A k \in DOMAIN ran'.rows : Len(ran'.rows[k]) = Len(ran'.rows[1])
                PROVE  /\ IsPrefix(ran'.bound, ran'.rows)
                       /\ ~ran'.refused => ran'.bound = ran'.rows
                       /\ ran'.refused /\ (ran'.insert \/ adapter' = "sqlite") => ran'.bound = <<>>
    BY DEF BatchStoresItsRows
  <2>1. \A k \in DOMAIN rows : Len(rows[k]) = Len(rows[1])  BY <1>4, <1>5
  <2>2. /\ IsPrefix(r.stored, rows)
        /\ r.accepted => r.stored = rows
        /\ ~r.accepted /\ (insert \/ adapter = "sqlite") => r.stored = <<>>
    BY <1>1, <1>3, <1>5, <2>1, BatchRuns
  <2>3. adapter' = adapter  BY <1>1
  <2>4. ~ran'.refused => r.accepted  BY <1>4
  <2>5. ran'.refused => ~r.accepted  BY <1>4
  <2>. QED  BY <1>4, <1>5, <2>2, <2>3, <2>4, <2>5, Zenon
<1>7. PreparedBindsItsOwn' /\ NamedBindsItsOwn'
  BY <1>4 DEF PreparedBindsItsOwn, NamedBindsItsOwn
<1>8. ParametersArriveWhereSet'  BY <1>6, <1>7 DEF ParametersArriveWhereSet
<1>. QED  BY <1>1, <1>8, Executed

LEMMA StatementsKeep == SInv /\ [StatementsNext]_statementVars => SInv'
<1>. SUFFICES ASSUME SInv, [StatementsNext]_statementVars PROVE SInv'
  OBVIOUS
<1>1. CASE UNCHANGED statementVars
  <2>1. ParametersArriveWhereSet'
    BY <1>1 DEF SInv, statementVars, ParametersArriveWhereSet, PreparedBindsItsOwn,
                NamedBindsItsOwn, BatchStoresItsRows
  <2>. QED  BY <1>1, <2>1, Executed DEF statementVars
<1>2. CASE \E t \in Texts : Prepare(t) \/ Acquire(t)
  BY <1>2, PrepareKeeps, AcquireKeeps
<1>3. CASE \E names \in NamedTexts : PrepareNamed(names)
  BY <1>3, PrepareNamedKeeps
<1>4. CASE PrepareBatch  BY <1>4, PrepareBatchKeeps
<1>5. CASE \E i \in KeyOf(hand.kind), v \in ParamValues : SetParameter(i, v)
  BY <1>5, SetParameterKeeps
<1>6. CASE AddBatch  BY <1>6, AddBatchKeeps
<1>7. CASE Execute  BY <1>7, ExecuteKeeps
<1>8. CASE ExecuteBatch  BY <1>8, ExecuteBatchKeeps
<1>9. CASE LetGo  BY <1>9, LetGoKeeps
<1>. QED  BY <1>1, <1>2, <1>3, <1>4, <1>5, <1>6, <1>7, <1>8, <1>9 DEF StatementsNext

\* For any adapters, texts, values and statements: what runs are the values that this caller
\* has set, each at its own placeholder, by number, by position, by name and in a batch.
THEOREM ParametersArrive == StatementsSpec => []ParametersArriveWhereSet
<1>1. SInv => ParametersArriveWhereSet  BY DEF SInv
<1>. QED  BY <1>1, StatementInit, StatementsKeep, PTL DEF StatementsSpec

-----------------------------------------------------------------------------
(* Cursors *)

CursorsSpec == CursorsInit /\ [][CursorsNext]_cursorVars

CursorsTypeOK ==
    /\ cursorKind \in {"pg", "mysql", "sqlite"} /\ resultSize \in Nat
    /\ fetched \in 0..resultSize
    /\ buffer \in Seq(Nat) /\ bufferIndex \in Nat
    /\ exhausted \in BOOLEAN /\ paused \in BOOLEAN /\ grown \in BOOLEAN
    /\ cursorSize \in Nat \ {0}
    /\ reading \in [on : BOOLEAN, size : Nat, rows : Seq(Nat)]
    /\ delivered \in Seq(Nat)

\* The rows from the server on their way: what the consumer has, then what is left of the
\* buffer, or what the read that goes on has so far.
InBuffer == bufferIndex <= Len(buffer)

OnTheWay ==
    /\ \A i \in 1..Len(delivered) : delivered[i] = i
    /\ InBuffer =>
           /\ reading = NoRead
           /\ Len(delivered) + Len(buffer) - bufferIndex = fetched
           /\ \A i \in 1..Len(buffer) : buffer[i] = (Len(delivered) - bufferIndex) + i
    /\ ~InBuffer =>
           /\ Len(delivered) + Len(reading.rows) = fetched
           /\ \A i \in 1..Len(reading.rows) : reading.rows[i] = Len(delivered) + i
    /\ ~reading.on => reading.rows = <<>>
    /\ cursorKind = "sqlite" => ~reading.on /\ buffer = <<>>
    /\ cursorKind = "pg" => reading.rows = <<>>

\* A cursor that says there are no more rows has fetched them all, unless cursorSize grew
\* during a read.
Finished ==
    /\ exhausted => ~reading.on
    /\ exhausted /\ ~grown => fetched = resultSize
    /\ answer = "end" => exhausted /\ (~InBuffer \/ Len(buffer) = bufferIndex)
    /\ reading.on => reading.size >= 1
    /\ reading.on /\ cursorKind = "pg" /\ ~grown => cursorSize <= reading.size

CInv == CursorsTypeOK /\ OnTheWay /\ Finished

LEMMA CursorInvGives == CInv => CursorDeliversTheResult
<1> SUFFICES ASSUME CInv PROVE CursorDeliversTheResult
  OBVIOUS
<1>1. /\ delivered \in Seq(Nat) /\ buffer \in Seq(Nat) /\ reading.rows \in Seq(Nat)
      /\ fetched \in Nat /\ resultSize \in Nat /\ fetched <= resultSize /\ bufferIndex \in Nat
  BY DEF CInv, CursorsTypeOK
<1>2. Len(delivered) \in Nat /\ Len(buffer) \in Nat /\ Len(reading.rows) \in Nat
  BY <1>1
<1>3. delivered = [i \in 1..Len(delivered) |-> i]
  <2>1. \A i \in 1..Len(delivered) : delivered[i] = i
    BY DEF CInv, OnTheWay
  <2> QED
    BY <1>1, <2>1
<1>4. InBuffer => Len(delivered) + Len(buffer) - bufferIndex = fetched /\ bufferIndex <= Len(buffer)
  BY DEF CInv, OnTheWay, InBuffer
<1>5. ~InBuffer => Len(delivered) + Len(reading.rows) = fetched
  BY DEF CInv, OnTheWay
<1>6. Len(delivered) <= resultSize
  BY <1>1, <1>2, <1>4, <1>5
<1>7. ASSUME answer = "end", ~grown PROVE Len(delivered) = resultSize
  <2>1. exhausted /\ ~reading.on /\ reading.rows = <<>>
    BY <1>7 DEF CInv, Finished, OnTheWay
  <2>2. fetched = resultSize /\ (~InBuffer \/ Len(buffer) = bufferIndex)
    BY <1>7, <2>1 DEF CInv, Finished
  <2> QED
    BY <1>1, <1>2, <1>4, <1>5, <2>1, <2>2
<1> QED
  BY <1>3, <1>6, <1>7 DEF CursorDeliversTheResult

LEMMA CursorInit == CursorsInit => CInv
<1> SUFFICES ASSUME NEW k \in CursorKinds, NEW n \in 0..MaxResult, CursorsStart(k, n) PROVE CInv
  BY DEF CursorsInit
<1>1. CursorsTypeOK
  <2>1. /\ cursorKind = k /\ resultSize = n /\ fetched = 0 /\ buffer = <<>> /\ bufferIndex = 0
        /\ exhausted = FALSE /\ paused = FALSE /\ grown = FALSE /\ delivered = <<>>
        /\ reading = [on |-> FALSE, size |-> 0, rows |-> <<>>]
    BY DEF CursorsStart, NoRead
  <2>2. n \in Nat /\ k \in {"pg", "mysql", "sqlite"}
    BY CursorsAssumption
  <2>3. cursorSize \in Nat \ {0}
    BY CursorsAssumption DEF CursorsStart
  <2>4. reading \in [on : BOOLEAN, size : Nat, rows : Seq(Nat)] /\ buffer \in Seq(Nat) /\ delivered \in Seq(Nat)
    BY <2>1
  <2>5. fetched \in 0..resultSize /\ resultSize \in Nat /\ bufferIndex \in Nat
    BY <2>1, <2>2
  <2> QED
    BY <2>1, <2>2, <2>3, <2>4, <2>5 DEF CursorsTypeOK
<1>2. OnTheWay
  <2>1. /\ delivered = <<>> /\ buffer = <<>> /\ bufferIndex = 0 /\ fetched = 0
        /\ reading = NoRead /\ ~reading.on /\ reading.rows = <<>>
    BY DEF CursorsStart, NoRead
  <2>2. Len(delivered) = 0 /\ Len(buffer) = 0 /\ InBuffer
    BY <2>1 DEF InBuffer
  <2> QED
    BY <2>1, <2>2 DEF OnTheWay
<1>3. Finished
  BY DEF CursorsStart, Finished, NoRead
<1> QED
  BY <1>1, <1>2, <1>3 DEF CInv

\* What Append gives, in one fact.
LEMMA Appended ==
    ASSUME NEW S, NEW s \in Seq(S), NEW e \in S
    PROVE  /\ Append(s, e) \in Seq(S) /\ Len(Append(s, e)) = Len(s) + 1 /\ Len(s) \in Nat
           /\ \A i \in 1..Len(s) : Append(s, e)[i] = s[i]
           /\ Append(s, e)[Len(s) + 1] = e
OBVIOUS

\* What CInv says, in the pieces the steps need.
LEMMA CursorFacts ==
    CInv => /\ cursorKind \in {"pg", "mysql", "sqlite"}
            /\ resultSize \in Nat /\ fetched \in Nat /\ fetched <= resultSize
            /\ buffer \in Seq(Nat) /\ Len(buffer) \in Nat /\ bufferIndex \in Nat
            /\ delivered \in Seq(Nat) /\ Len(delivered) \in Nat
            /\ reading \in [on : BOOLEAN, size : Nat, rows : Seq(Nat)]
            /\ reading.rows \in Seq(Nat) /\ Len(reading.rows) \in Nat /\ reading.size \in Nat
            /\ cursorSize \in Nat /\ cursorSize >= 1
            /\ \A i \in 1..Len(delivered) : delivered[i] = i
            /\ InBuffer => Len(delivered) + Len(buffer) - bufferIndex = fetched
            /\ InBuffer => \A i \in 1..Len(buffer) : buffer[i] = (Len(delivered) - bufferIndex) + i
            /\ ~InBuffer => Len(delivered) + Len(reading.rows) = fetched
            /\ ~InBuffer => \A i \in 1..Len(reading.rows) : reading.rows[i] = Len(delivered) + i
BY DEF CInv, CursorsTypeOK, OnTheWay

LEMMA NextBufferedKeeps == CInv /\ NextBuffered => CInv'
<1> SUFFICES ASSUME CInv, NextBuffered PROVE CInv'
  OBVIOUS
<1>1. /\ ~reading.on /\ bufferIndex + 1 <= Len(buffer) /\ bufferIndex' = bufferIndex + 1
      /\ answer' = "row"
  BY DEF NextBuffered, CanCall, InRead, Deliver
<1>2. UNCHANGED <<cursorKind, resultSize, fetched, buffer, exhausted, paused, cursorSize, reading, grown>>
  BY DEF NextBuffered
<1>3. CursorsTypeOK /\ OnTheWay /\ Finished
  BY DEF CInv
<1>4. /\ Len(buffer) \in Nat /\ bufferIndex \in Nat /\ Len(delivered) \in Nat /\ fetched \in Nat
  BY CursorFacts
<1>5. InBuffer /\ InBuffer'
  BY <1>1, <1>2, <1>4 DEF InBuffer
<1>6. buffer[bufferIndex + 1] = Len(delivered) + 1 /\ buffer[bufferIndex + 1] \in Nat
  <2>1. \A i \in 1..Len(buffer) : buffer[i] = (Len(delivered) - bufferIndex) + i
    BY <1>5, CursorFacts
  <2> QED
    BY ONLY <1>1, <1>4, <2>1
<1>7. /\ delivered' \in Seq(Nat) /\ Len(delivered') = Len(delivered) + 1
      /\ \A i \in 1..Len(delivered) : delivered'[i] = delivered[i]
      /\ delivered'[Len(delivered) + 1] = buffer[bufferIndex + 1]
  <2>1. delivered' = Append(delivered, buffer[bufferIndex + 1])
    BY DEF NextBuffered, Deliver
  <2> QED
    BY <2>1, <1>6, CursorFacts, Appended
<1>8. CursorsTypeOK'
  <2>1. bufferIndex' \in Nat
    BY ONLY <1>1, <1>4
  <2> QED
    BY <1>2, <1>3, <1>7, <2>1 DEF CursorsTypeOK
<1>9. OnTheWay'
  <2>1. \A i \in 1..Len(delivered') : delivered'[i] = i
    <3>1. \A i \in 1..Len(delivered) : delivered[i] = i
      BY CursorFacts
    <3> QED
      BY ONLY <1>4, <1>6, <1>7, <3>1
  <2>2. Len(delivered') + Len(buffer') - bufferIndex' = fetched'
    <3>1. Len(delivered) + Len(buffer) - bufferIndex = fetched
      BY <1>5, CursorFacts
    <3>2. Len(buffer') = Len(buffer) /\ fetched' = fetched /\ Len(delivered') = Len(delivered) + 1
      BY <1>2, <1>7
    <3> QED
      BY ONLY <1>1, <1>4, <3>1, <3>2
  <2>3. \A i \in 1..Len(buffer') : buffer'[i] = (Len(delivered') - bufferIndex') + i
    <3>1. \A i \in 1..Len(buffer) : buffer[i] = (Len(delivered) - bufferIndex) + i
      BY <1>5, CursorFacts
    <3>2. Len(delivered') - bufferIndex' = Len(delivered) - bufferIndex
      BY ONLY <1>1, <1>4, <1>7
    <3> QED
      BY ONLY <1>2, <3>1, <3>2
  <2>4. reading' = NoRead
    BY <1>2, <1>3, <1>5 DEF OnTheWay
  <2>5. (~reading.on => reading.rows = <<>>)' /\ (cursorKind = "sqlite" => ~reading.on /\ buffer = <<>>)'
        /\ (cursorKind = "pg" => reading.rows = <<>>)'
    BY <1>2, <1>3 DEF OnTheWay
  <2> QED
    BY <1>5, <2>1, <2>2, <2>3, <2>4, <2>5 DEF OnTheWay
<1>10. Finished'
  BY <1>1, <1>2, <1>3 DEF Finished
<1> QED
  BY <1>8, <1>9, <1>10 DEF CInv


\* The buffer is used up: the index moves beyond it, and nothing else of a row.
LEMMA NextBeyondKeeps == CInv /\ NextBeyond => CInv'
<1> SUFFICES ASSUME CInv, NextBeyond PROVE CInv'
  OBVIOUS
<1>1. /\ ~reading.on /\ bufferIndex + 1 > Len(buffer) /\ bufferIndex' = bufferIndex + 1
      /\ cursorKind # "sqlite"
  BY DEF NextBeyond, CanCall, InRead
<1>2. UNCHANGED <<cursorKind, resultSize, fetched, buffer, exhausted, paused, cursorSize, grown, delivered>>
  BY DEF NextBeyond, Nothing
<1>3. CursorsTypeOK /\ OnTheWay /\ Finished
  BY DEF CInv
<1>4. /\ Len(buffer) \in Nat /\ bufferIndex \in Nat /\ Len(delivered) \in Nat /\ fetched \in Nat
      /\ cursorSize \in Nat /\ cursorSize >= 1
  BY CursorFacts
<1>5. ~InBuffer' /\ (InBuffer => bufferIndex = Len(buffer))
  BY <1>1, <1>2, <1>4 DEF InBuffer
<1>6. reading.rows = <<>> /\ Len(reading.rows) = 0
  BY <1>1, <1>3 DEF OnTheWay
<1>7. Len(delivered) = fetched
  BY <1>4, <1>5, <1>6, CursorFacts
<1>8. \/ reading' = reading /\ (exhausted \/ paused) /\ answer' = IF paused THEN "paused" ELSE "end"
      \/ reading' = [on |-> TRUE, size |-> cursorSize, rows |-> <<>>] /\ ~exhausted /\ answer' = answer
  BY DEF NextBeyond, Nothing
<1>9. reading'.rows = <<>> /\ Len(reading'.rows) = 0 /\ reading' \in [on : BOOLEAN, size : Nat, rows : Seq(Nat)]
  <2>1. reading \in [on : BOOLEAN, size : Nat, rows : Seq(Nat)]
    BY CursorFacts
  <2>2. CASE reading' = reading
    BY <1>6, <2>1, <2>2
  <2>3. CASE reading' = [on |-> TRUE, size |-> cursorSize, rows |-> <<>>]
    BY <1>4, <2>3
  <2> QED
    BY <1>8, <2>2, <2>3
<1>10. CursorsTypeOK'
  <2>1. bufferIndex' \in Nat
    BY ONLY <1>1, <1>4
  <2> QED
    BY <1>2, <1>3, <1>9, <2>1 DEF CursorsTypeOK
<1>11. OnTheWay'
  <2>1. Len(delivered') + Len(reading'.rows) = fetched'
    <3>1. Len(delivered') = Len(delivered) /\ fetched' = fetched
      BY <1>2
    <3> QED
      BY ONLY <1>4, <1>7, <1>9, <3>1
  <2>2. \A i \in 1..Len(reading'.rows) : reading'.rows[i] = Len(delivered') + i
    BY <1>9
  <2>3. \A i \in 1..Len(delivered') : delivered'[i] = i
    BY <1>2, CursorFacts
  <2> QED
    BY <1>1, <1>2, <1>5, <1>9, <2>1, <2>2, <2>3 DEF OnTheWay
<1>12. Finished'
  <2>1. CASE reading' = reading /\ (exhausted \/ paused) /\ answer' = IF paused THEN "paused" ELSE "end"
    <3>1. answer' = "end" => exhausted
      BY <1>3, <2>1 DEF CursorsTypeOK
    <3> QED
      BY <1>1, <1>2, <1>3, <1>5, <2>1, <3>1 DEF Finished
  <2>2. CASE reading' = [on |-> TRUE, size |-> cursorSize, rows |-> <<>>] /\ ~exhausted /\ answer' = answer
    <3>1. reading'.size = cursorSize /\ reading'.on
      BY <2>2
    <3> QED
      BY <1>2, <1>3, <1>4, <1>5, <2>2, <3>1 DEF Finished
  <2> QED
    BY <1>8, <2>1, <2>2
<1> QED
  BY <1>10, <1>11, <1>12 DEF CInv

\* What a read has brought is in the buffer, and its first row with the consumer.
LEMMA FilledKeeps ==
    ASSUME CInv, reading.on, cursorKind # "sqlite", NEW got \in Seq(Nat), NEW noMore \in BOOLEAN,
           Filled(got, noMore), UNCHANGED <<cursorKind, resultSize, paused, cursorSize, grown>>,
           fetched' = Len(delivered) + Len(got), fetched' <= resultSize,
           \A i \in 1..Len(got) : got[i] = Len(delivered) + i,
           ~grown /\ (noMore \/ got = <<>>) => fetched' = resultSize
    PROVE  CInv'
<1>1. CursorsTypeOK /\ OnTheWay /\ Finished
  BY DEF CInv
<1>2. reading' = NoRead /\ ~reading'.on /\ reading'.rows = <<>> /\ Len(reading'.rows) = 0
      /\ reading' \in [on : BOOLEAN, size : Nat, rows : Seq(Nat)]
  BY DEF Filled, NoRead
<1>3. /\ Len(delivered) \in Nat /\ Len(got) \in Nat /\ resultSize \in Nat /\ delivered \in Seq(Nat)
      /\ fetched' \in Nat
  BY CursorFacts
<1>4. fetched' \in 0..resultSize'
  <2>1. resultSize' = resultSize
    OBVIOUS
  <2> QED
    BY ONLY <1>3, <2>1, fetched' <= resultSize
<1>5. CASE got = <<>>
  <2>1. /\ exhausted' = TRUE /\ answer' = "end"
        /\ UNCHANGED <<delivered, buffer, bufferIndex>> /\ Len(got) = 0
    BY <1>5 DEF Filled, Nothing
  <2>2. ~InBuffer /\ ~InBuffer'
    BY <1>1, <2>1 DEF OnTheWay, NoRead, InBuffer
  <2>3. CursorsTypeOK'
    BY <1>1, <1>2, <1>4, <2>1 DEF CursorsTypeOK
  <2>4. OnTheWay'
    <3>1. Len(delivered') + Len(reading'.rows) = fetched'
      <4>1. Len(delivered') = Len(delivered)
        BY <2>1
      <4> QED
        BY ONLY <1>2, <1>3, <2>1, <4>1, fetched' = Len(delivered) + Len(got)
    <3>2. \A i \in 1..Len(reading'.rows) : reading'.rows[i] = Len(delivered') + i
      BY <1>2
    <3>3. \A i \in 1..Len(delivered') : delivered'[i] = i
      BY <2>1, CursorFacts
    <3> QED
      BY <1>2, <2>2, <3>1, <3>2, <3>3 DEF OnTheWay
  <2>5. Finished'
    BY <1>2, <1>5, <2>1, <2>2 DEF Finished
  <2> QED
    BY <2>3, <2>4, <2>5 DEF CInv
<1>6. CASE got # <<>>
  <2>1. /\ exhausted' = noMore /\ buffer' = got /\ bufferIndex' = 1 /\ answer' = "row"
    BY <1>6 DEF Filled, Deliver
  <2>2. Len(got) >= 1 /\ got[1] = Len(delivered) + 1 /\ got[1] \in Nat
    BY <1>3, <1>6
  <2>3. /\ delivered' \in Seq(Nat) /\ Len(delivered') = Len(delivered) + 1
        /\ \A i \in 1..Len(delivered) : delivered'[i] = delivered[i]
        /\ delivered'[Len(delivered) + 1] = got[1]
    <3>1. delivered' = Append(delivered, got[1])
      BY <1>6 DEF Filled, Deliver
    <3> QED
      BY <1>3, <2>2, <3>1, Appended
  <2>4. InBuffer' /\ Len(buffer') = Len(got)
    BY <1>3, <2>1, <2>2 DEF InBuffer
  <2>5. CursorsTypeOK'
    <3>1. 1 \in Nat
      OBVIOUS
    <3> QED
      BY <1>1, <1>2, <1>4, <2>1, <2>3, <3>1 DEF CursorsTypeOK
  <2>6. OnTheWay'
    <3>1. \A i \in 1..Len(delivered') : delivered'[i] = i
      <4>1. \A i \in 1..Len(delivered) : delivered[i] = i
        BY CursorFacts
      <4>2. \A i \in 1..Len(delivered') : i \in 1..Len(delivered) \/ i = Len(delivered) + 1
        BY ONLY <1>3, <2>3
      <4> QED
        BY ONLY <2>2, <2>3, <4>1, <4>2
    <3>2. Len(delivered') + Len(buffer') - bufferIndex' = fetched'
      BY ONLY <1>3, <2>1, <2>3, <2>4, fetched' = Len(delivered) + Len(got)
    <3>3. \A i \in 1..Len(buffer') : buffer'[i] = (Len(delivered') - bufferIndex') + i
      <4>1. Len(delivered') - bufferIndex' = Len(delivered)
        BY ONLY <1>3, <2>1, <2>3
      <4> QED
        BY ONLY <2>1, <4>1, \A i \in 1..Len(got) : got[i] = Len(delivered) + i
    <3> QED
      BY <1>2, <2>4, <3>1, <3>2, <3>3 DEF OnTheWay
  <2>7. Finished'
    BY <1>2, <2>1 DEF Finished
  <2> QED
    BY <2>5, <2>6, <2>7 DEF CInv
<1> QED
  BY <1>5, <1>6

LEMMA PgReadKeeps == CInv /\ PgRead => CInv'
<1> SUFFICES ASSUME CInv, PgRead PROVE CInv'
  OBVIOUS
<1> DEFINE got == RowsAfter(fetched, reading.size)
           many == Least(reading.size, resultSize - fetched)
<1>1. /\ reading.on /\ cursorKind = "pg" /\ fetched' = fetched + Len(got)
      /\ Filled(got, Len(got) < cursorSize)
      /\ UNCHANGED <<cursorKind, resultSize, paused, cursorSize, grown>>
  BY DEF PgRead, InRead
<1>2. CursorsTypeOK /\ OnTheWay /\ Finished
  BY DEF CInv
<1>3. /\ fetched \in Nat /\ resultSize \in Nat /\ fetched <= resultSize /\ reading.size \in Nat
      /\ Len(delivered) \in Nat /\ cursorSize \in Nat /\ cursorSize >= 1
  BY CursorFacts
<1>4. many \in Nat /\ many <= reading.size /\ fetched + many <= resultSize
      /\ (many < reading.size => fetched + many = resultSize)
  BY ONLY <1>3 DEF Least
<1>5. got = [i \in 1..many |-> fetched + i]
  BY DEF RowsAfter
<1> HIDE DEF got, many
<1>6. got \in Seq(Nat) /\ Len(got) = many
  BY ONLY <1>3, <1>4, <1>5
<1>7. ~InBuffer /\ reading.rows = <<>> /\ Len(reading.rows) = 0
  BY <1>1, <1>2 DEF OnTheWay, NoRead
<1>8. Len(delivered) = fetched
  BY <1>3, <1>7, CursorFacts
<1>9. \A i \in 1..Len(got) : got[i] = Len(delivered) + i
  BY ONLY <1>5, <1>6, <1>8
<1>10. ~grown /\ (Len(got) < cursorSize \/ got = <<>>) => fetched' = resultSize
  <2>1. ~grown => cursorSize <= reading.size
    BY <1>1, <1>2 DEF Finished
  <2>2. got = <<>> => Len(got) = 0
    OBVIOUS
  <2>3. fetched' = fetched + Len(got)
    BY <1>1
  <2> QED
    BY ONLY <1>3, <1>4, <1>6, <2>1, <2>2, <2>3
<1>11. fetched' = Len(delivered) + Len(got) /\ fetched' <= resultSize
  BY <1>1, <1>3, <1>4, <1>6, <1>8
<1>12. (Len(got) < cursorSize) \in BOOLEAN
  OBVIOUS
<1> QED
  BY <1>1, <1>6, <1>9, <1>10, <1>11, <1>12, FilledKeeps

LEMMA MysqlFilledKeeps == CInv /\ MysqlFilled => CInv'
<1> SUFFICES ASSUME CInv, MysqlFilled PROVE CInv'
  OBVIOUS
<1>1. /\ reading.on /\ cursorKind = "mysql" /\ fetched' = fetched
      /\ Filled(reading.rows, Len(reading.rows) < cursorSize)
      /\ UNCHANGED <<cursorKind, resultSize, paused, cursorSize, grown>>
      /\ Len(reading.rows) >= cursorSize \/ fetched = resultSize
  BY DEF MysqlFilled, InRead
<1>2. CursorsTypeOK /\ OnTheWay /\ Finished
  BY DEF CInv
<1>3. /\ fetched \in Nat /\ resultSize \in Nat /\ fetched <= resultSize /\ reading.rows \in Seq(Nat)
      /\ Len(reading.rows) \in Nat /\ cursorSize \in Nat /\ cursorSize >= 1
  BY CursorFacts
<1>4. ~InBuffer
  BY <1>1, <1>2 DEF OnTheWay, NoRead
<1>5. fetched' = Len(delivered) + Len(reading.rows) /\ fetched' <= resultSize
  BY <1>1, <1>3, <1>4, CursorFacts
<1>6. \A i \in 1..Len(reading.rows) : reading.rows[i] = Len(delivered) + i
  BY <1>4, CursorFacts
<1>7. ~grown /\ (Len(reading.rows) < cursorSize \/ reading.rows = <<>>) => fetched' = resultSize
  <2>1. reading.rows = <<>> => Len(reading.rows) = 0
    OBVIOUS
  <2> QED
    BY <1>1, <1>3, <2>1
<1>8. (Len(reading.rows) < cursorSize) \in BOOLEAN
  OBVIOUS
<1> QED
  BY <1>1, <1>3, <1>5, <1>6, <1>7, <1>8, FilledKeeps

LEMMA MysqlReadRowKeeps == CInv /\ MysqlReadRow => CInv'
<1> SUFFICES ASSUME CInv, MysqlReadRow PROVE CInv'
  OBVIOUS
<1>1. /\ reading.on /\ cursorKind = "mysql" /\ fetched < resultSize /\ fetched' = fetched + 1
      /\ reading' = [reading EXCEPT !.rows = Append(reading.rows, fetched + 1)]
      /\ UNCHANGED <<cursorKind, resultSize, buffer, bufferIndex, exhausted, paused, cursorSize,
                     delivered, answer, grown>>
  BY DEF MysqlReadRow, InRead
<1>2. CursorsTypeOK /\ OnTheWay /\ Finished
  BY DEF CInv
<1>3. /\ fetched \in Nat /\ resultSize \in Nat /\ fetched <= resultSize /\ reading.rows \in Seq(Nat)
      /\ Len(reading.rows) \in Nat /\ Len(delivered) \in Nat
      /\ reading \in [on : BOOLEAN, size : Nat, rows : Seq(Nat)]
  BY CursorFacts
<1>4. ~InBuffer /\ ~InBuffer'
  BY <1>1, <1>2 DEF OnTheWay, NoRead, InBuffer
<1>5. Len(delivered) + Len(reading.rows) = fetched
  BY <1>4, CursorFacts
<1>6. reading'.rows = Append(reading.rows, fetched + 1) /\ reading'.on /\ reading'.size = reading.size
      /\ reading'.on = reading.on
  BY <1>1, <1>3
<1>7. /\ reading'.rows \in Seq(Nat) /\ Len(reading'.rows) = Len(reading.rows) + 1
      /\ \A i \in 1..Len(reading.rows) : reading'.rows[i] = reading.rows[i]
      /\ reading'.rows[Len(reading.rows) + 1] = fetched + 1
  <2>1. fetched + 1 \in Nat
    BY <1>3
  <2> QED
    BY <1>3, <1>6, <2>1, Appended
<1>8. CursorsTypeOK'
  <2>1. fetched' \in 0..resultSize'
    <3>1. resultSize' = resultSize /\ fetched' = fetched + 1 /\ fetched < resultSize
      BY <1>1
    <3> QED
      BY ONLY <1>3, <3>1
  <2>2. reading' \in [on : BOOLEAN, size : Nat, rows : Seq(Nat)]
    <3>1. reading' = [on |-> reading.on, size |-> reading.size, rows |-> Append(reading.rows, fetched + 1)]
      BY <1>1, <1>3
    <3> QED
      BY <1>3, <1>6, <1>7, <3>1
  <2> QED
    BY <1>1, <1>2, <2>1, <2>2 DEF CursorsTypeOK
<1>9. OnTheWay'
  <2>1. Len(delivered') + Len(reading'.rows) = fetched'
    <3>1. Len(delivered') = Len(delivered) /\ fetched' = fetched + 1
      BY <1>1
    <3> QED
      BY ONLY <1>3, <1>5, <1>7, <3>1
  <2>2. \A i \in 1..Len(reading'.rows) : reading'.rows[i] = Len(delivered') + i
    <3>1. \A i \in 1..Len(reading.rows) : reading.rows[i] = Len(delivered) + i
      BY <1>4, CursorFacts
    <3>2. Len(delivered') = Len(delivered)
      BY <1>1
    <3>3. \A i \in 1..Len(reading'.rows) : i \in 1..Len(reading.rows) \/ i = Len(reading.rows) + 1
      BY ONLY <1>3, <1>7
    <3>4. fetched + 1 = Len(delivered) + (Len(reading.rows) + 1)
      BY ONLY <1>3, <1>5
    <3> QED
      BY ONLY <1>7, <3>1, <3>2, <3>3, <3>4
  <2>3. \A i \in 1..Len(delivered') : delivered'[i] = i
    BY <1>1, CursorFacts
  <2>4. cursorKind' # "sqlite" /\ cursorKind' # "pg"
    BY <1>1
  <2> QED
    BY <1>4, <1>6, <2>1, <2>2, <2>3, <2>4 DEF OnTheWay
<1>10. Finished'
  BY <1>1, <1>2, <1>4, <1>6 DEF Finished
<1> QED
  BY <1>8, <1>9, <1>10 DEF CInv

LEMMA SqliteNextKeeps == CInv /\ SqliteNext => CInv'
<1> SUFFICES ASSUME CInv, SqliteNext PROVE CInv'
  OBVIOUS
<1>1. /\ ~reading.on /\ cursorKind = "sqlite"
      /\ UNCHANGED <<cursorKind, resultSize, buffer, bufferIndex, paused, cursorSize, reading, grown>>
  BY DEF SqliteNext, CanCall, InRead
<1>2. \/ /\ UNCHANGED <<fetched, exhausted, delivered>> /\ (exhausted \/ paused)
         /\ answer' = (IF paused /\ ~exhausted THEN "paused" ELSE "end")
      \/ /\ fetched = resultSize /\ exhausted' = TRUE /\ answer' = "end" /\ UNCHANGED <<fetched, delivered>>
      \/ /\ fetched # resultSize /\ fetched' = fetched + 1 /\ answer' = "row" /\ UNCHANGED exhausted
         /\ ~exhausted /\ delivered' = Append(delivered, fetched + 1)
  BY DEF SqliteNext, Nothing, Deliver
<1>3. CursorsTypeOK /\ OnTheWay /\ Finished
  BY DEF CInv
<1>4. /\ fetched \in Nat /\ resultSize \in Nat /\ fetched <= resultSize /\ delivered \in Seq(Nat)
      /\ Len(delivered) \in Nat /\ bufferIndex \in Nat
  BY CursorFacts
<1>5. buffer = <<>> /\ Len(buffer) = 0 /\ reading.rows = <<>> /\ Len(reading.rows) = 0
  BY <1>1, <1>3 DEF OnTheWay
<1>6. Len(delivered) = fetched
  <2>1. CASE InBuffer
    <3>1. bufferIndex = 0
      BY <1>4, <1>5, <2>1 DEF InBuffer
    <3> QED
      BY <1>4, <1>5, <2>1, <3>1, CursorFacts
  <2>2. CASE ~InBuffer
    BY <1>4, <1>5, <2>2, CursorFacts
  <2> QED
    BY <2>1, <2>2
<1>7. /\ Len(delivered') = fetched' /\ delivered' \in Seq(Nat) /\ \A i \in 1..Len(delivered') : delivered'[i] = i
      /\ fetched' \in Nat /\ fetched' <= resultSize
  <2>1. CASE UNCHANGED <<fetched, delivered>>
    BY <1>4, <1>6, <2>1, CursorFacts
  <2>2. CASE fetched # resultSize /\ fetched' = fetched + 1 /\ delivered' = Append(delivered, fetched + 1)
    <3>1. fetched + 1 \in Nat /\ fetched + 1 <= resultSize
      BY <1>4, <2>2
    <3>2. /\ delivered' \in Seq(Nat) /\ Len(delivered') = Len(delivered) + 1
          /\ \A i \in 1..Len(delivered) : delivered'[i] = delivered[i]
          /\ delivered'[Len(delivered) + 1] = fetched + 1
      BY <1>4, <2>2, <3>1, Appended
    <3>3. \A i \in 1..Len(delivered) : delivered[i] = i
      BY CursorFacts
    <3>4. fetched' = fetched + 1
      BY <2>2
    <3> QED
      BY ONLY <1>4, <1>6, <3>1, <3>2, <3>3, <3>4
  <2> QED
    BY <1>2, <2>1, <2>2
<1>8. CursorsTypeOK'
  <2>1. fetched' \in 0..resultSize'
    <3>1. resultSize' = resultSize
      BY <1>1
    <3> QED
      BY ONLY <1>4, <1>7, <3>1
  <2>2. exhausted' \in BOOLEAN
    BY <1>2, <1>3 DEF CursorsTypeOK
  <2> QED
    BY <1>1, <1>3, <1>7, <2>1, <2>2 DEF CursorsTypeOK
<1>9. OnTheWay'
  <2>1. Len(delivered') + Len(reading'.rows) = fetched' /\ Len(reading'.rows) = 0
    <3>1. Len(reading'.rows) = 0
      BY <1>1, <1>5
    <3>2. Len(delivered') = fetched' /\ fetched' \in Nat
      BY <1>7
    <3>3. fetched' + 0 = fetched'
      <4>1. PICK n \in Nat : n = fetched'
        BY <3>2
      <4>2. n + 0 = n
        OBVIOUS
      <4> QED
        BY ONLY <4>1, <4>2, Zenon
    <3> QED
      BY ONLY <3>1, <3>2, <3>3, Zenon
  <2>2. InBuffer' => bufferIndex' = 0
    BY <1>1, <1>4, <1>5 DEF InBuffer
  <2>3. InBuffer' => Len(delivered') + Len(buffer') - bufferIndex' = fetched'
    <3> SUFFICES ASSUME InBuffer' PROVE Len(delivered') + Len(buffer') - bufferIndex' = fetched'
      OBVIOUS
    <3>0. bufferIndex' = 0
      BY <2>2
    <3>1. Len(buffer') = 0
      BY <1>1, <1>5
    <3>2. Len(delivered') = fetched' /\ fetched' \in Nat
      BY <1>7
    <3>3. fetched' + (0 - 0) = fetched'
      <4>1. PICK n \in Nat : n = fetched'
        BY <3>2
      <4>2. n + (0 - 0) = n
        OBVIOUS
      <4> QED
        BY ONLY <4>1, <4>2, Zenon
    <3> QED
      BY ONLY <3>0, <3>1, <3>2, <3>3, Zenon
  <2>4. InBuffer' => reading' = NoRead
    <3>1. InBuffer' => InBuffer
      BY <1>1 DEF InBuffer
    <3> QED
      BY <1>1, <1>3, <3>1 DEF OnTheWay
  <2>5. buffer' = <<>> /\ Len(buffer') = 0 /\ ~reading'.on /\ reading'.rows = <<>>
    BY <1>1, <1>5
  <2>6. \A i \in 1..Len(delivered') : delivered'[i] = i
    BY <1>7
  <2>7. \A i : i \notin 1..0
    OBVIOUS
  <2> QED
    BY ONLY <2>1, <2>3, <2>4, <2>5, <2>6, <2>7 DEF OnTheWay
<1>10. Finished'
  <2>1. /\ exhausted' /\ ~grown' => fetched' = resultSize'
        /\ answer' = "end" => exhausted'
    BY <1>1, <1>2, <1>3 DEF Finished, CursorsTypeOK
  <2>2. ~InBuffer' \/ Len(buffer') = bufferIndex'
    <3>1. Len(buffer') = 0
      BY <1>1, <1>5
    <3>2. InBuffer' => bufferIndex' = 0
      BY <1>1, <1>4, <1>5 DEF InBuffer
    <3> QED
      BY <3>1, <3>2
  <2>3. ~reading'.on
    BY <1>1
  <2> QED
    BY <2>1, <2>2, <2>3 DEF Finished
<1> QED
  BY <1>8, <1>9, <1>10 DEF CInv

LEMMA CursorSettingsKeep == CInv /\ (PauseOrResume \/ \E n \in CursorSizes : SetCursorSize(n)) => CInv'
<1> SUFFICES ASSUME CInv, PauseOrResume \/ \E n \in CursorSizes : SetCursorSize(n) PROVE CInv'
  OBVIOUS
<1>1. UNCHANGED <<cursorKind, resultSize, fetched, buffer, bufferIndex, exhausted, reading, delivered, answer>>
  BY DEF PauseOrResume, SetCursorSize
<1>2. CursorsTypeOK /\ OnTheWay /\ Finished
  BY DEF CInv
<1>3. /\ cursorSize' \in Nat \ {0} /\ paused' \in BOOLEAN /\ grown' \in BOOLEAN
      /\ grown => grown'
      /\ cursorSize' = cursorSize \/ (reading.on /\ cursorKind = "pg" /\ ~grown' => cursorSize' <= reading.size)
  <2>1. CASE PauseOrResume
    BY <1>2, <2>1 DEF PauseOrResume, CursorsTypeOK
  <2>2. CASE \E n \in CursorSizes : SetCursorSize(n)
    <3>1. PICK n \in CursorSizes : SetCursorSize(n)
      BY <2>2
    <3>2. n \in Nat \ {0}
      BY CursorsAssumption
    <3>3. cursorSize' = n /\ paused' = paused
          /\ grown' = (grown \/ (reading.on /\ cursorKind = "pg" /\ n > reading.size))
      BY <3>1 DEF SetCursorSize, InRead
    <3>4. grown \in BOOLEAN /\ paused \in BOOLEAN /\ reading.size \in Nat
      BY <1>2, CursorFacts DEF CursorsTypeOK
    <3>5. grown' \in BOOLEAN /\ (grown => grown')
      BY <3>3, <3>4
    <3>6. ASSUME reading.on, cursorKind = "pg", ~grown' PROVE n <= reading.size
      <4>1. ~(n > reading.size)
        BY <3>3, <3>6
      <4> QED
        BY <3>2, <3>4, <4>1
    <3> QED
      BY <3>2, <3>3, <3>4, <3>5, <3>6
  <2> QED
    BY <2>1, <2>2
<1>4. InBuffer' = InBuffer
  BY <1>1 DEF InBuffer
<1>5. CursorsTypeOK'
  BY <1>1, <1>2, <1>3 DEF CursorsTypeOK
<1>6. OnTheWay'
  BY <1>1, <1>2, <1>4 DEF OnTheWay
<1>7. Finished'
  BY <1>1, <1>2, <1>3, <1>4 DEF Finished
<1> QED
  BY <1>5, <1>6, <1>7 DEF CInv

LEMMA CursorStep == CInv /\ [CursorsNext]_cursorVars => CInv'
<1> SUFFICES ASSUME CInv, [CursorsNext]_cursorVars PROVE CInv'
  OBVIOUS
<1>1. CASE UNCHANGED cursorVars
  BY <1>1 DEF cursorVars, CInv, CursorsTypeOK, OnTheWay, Finished, InBuffer
<1>2. CASE CursorsNext
  BY <1>2, NextBufferedKeeps, NextBeyondKeeps, PgReadKeeps, MysqlReadRowKeeps, MysqlFilledKeeps,
     SqliteNextKeeps, CursorSettingsKeep DEF CursorsNext
<1> QED
  BY <1>1, <1>2

\* The rows of a result reach the consumer of a cursor in order and each once, and the end
\* is told after the last, whatever cursorSize, pause() and resume() did in between.
THEOREM CursorsDeliverTheResult == CursorsSpec => []CursorDeliversTheResult
<1>1. CursorsSpec => []CInv
  BY CursorInit, CursorStep, PTL DEF CursorsSpec
<1> QED
  BY <1>1, CursorInvGives, PTL

-----------------------------------------------------------------------------
\* For any adapters, texts, parameters, results and cursors: a value that a caller sets
\* reaches its own placeholder, and a cursor delivers the rows of its result, in order, each
\* once and all of them before it says that there are no more.
THEOREM ValuesAlwaysArrive == StatementsSpec /\ CursorsSpec => []ValuesArrive
<1>1. ParametersArriveWhereSet /\ CursorDeliversTheResult => ValuesArrive
  BY DEF ValuesArrive
<1>. QED  BY <1>1, ParametersArrive, CursorsDeliverTheResult, PTL
=============================================================================
