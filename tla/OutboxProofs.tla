---------------------------- MODULE OutboxProofs ----------------------------
(***************************************************************************)
(* Proofs about Outbox for any number of events, polls, batch and chunk    *)
(* sizes and faults.                                                       *)
(*                                                                         *)
(* NothingLost is not inductive: MarkPublished marks entries that its poll *)
(* delivered two steps before.  Position records what a poll knows at each *)
(* await, and RowFollowsEntity why what it fetched is committed.           *)
(*                                                                         *)
(* The second part is about Notifications, the other way from a change to  *)
(* those who wait for it: what was sent is before what waits, that before  *)
(* what has not been read (Changes, Delivered), each reader waits for its  *)
(* turn once (Readers), and Stage says what the source holds where.        *)
(*                                                                         *)
(* The third is about Pagination.  What a client was given by a walk by    *)
(* cursors, in the order of its walk, rises in the order of the query      *)
(* (CursorWalk): its cursor is the key of the last row, and whatever is    *)
(* not behind the cursor and has not been touched was given.  A page keeps *)
(* that since its condition means what ORDER BY means (KeysetBehindIs,     *)
(* RelayBehindIs), but for NULLs.  A walk by offsets that nobody disturbs  *)
(* gives the beginning of the one list that ORDER BY allows (OneList).     *)
(***************************************************************************)
EXTENDS Outbox, Notifications, Pagination, FiniteSetTheorems, SequenceTheorems, TLAPS

\* Rows a poll can have seen.
Written(e) == row[e] \in {"unpublished", "published", "deleted"}

RowFollowsEntity ==
    /\ \A e \in Events : entity[e] = "none" => row[e] = "none"
    /\ \A e \in Explicit : /\ Written(e) => entity[e] = "committed"
                           /\ row[e] = "uncommitted" => entity[e] = "open"
                           /\ row[e] # "told"

Position ==
    \A p \in Polls : /\ \A e \in batch[p] : Written(e)
                     /\ pc[p] = "mark" => batch[p] \subseteq delivered

IInv == TypeOK /\ RowFollowsEntity /\ Position /\ NothingLost /\ OnlyCommittedDelivered

\* A set of unpublished rows is what fetchUnpublished returns.
LEMMA FetchedAreUnpublished ==
    ASSUME NEW b \in OldestUnpublished
    PROVE  b \subseteq Events /\ \A e \in b : row[e] = "unpublished"
BY DEF OldestUnpublished, Unpublished

\* The initial states satisfy the invariant: nothing is written or fetched.
LEMMA InitInv == Init => IInv
<1> SUFFICES ASSUME Init PROVE IInv
    OBVIOUS
<1> USE DEF Init
<1>1. TypeOK
    BY DEF TypeOK
<1>2. RowFollowsEntity /\ Position
    BY DEF RowFollowsEntity, Position, Written, Explicit
<1>3. NothingLost /\ OnlyCommittedDelivered
    BY DEF NothingLost, OnlyCommittedDelivered
<1> QED
    BY <1>1, <1>2, <1>3 DEF IInv

\* Type correctness is preserved on its own, whoever writes the rows.
LEMMA TypeStep == TypeOK /\ [Next]_vars => TypeOK'
<1> SUFFICES ASSUME TypeOK, [Next]_vars PROVE TypeOK'
    OBVIOUS
<1> USE DEF TypeOK, publisher, Fault, Done, Stamp
<1>1. CASE \E e \in Events : Change(e) \/ Commit(e) \/ RollBack(e) \/ PluginWrites(e)
    BY <1>1 DEF Change, Commit, RollBack, PluginWrites
<1>2. ASSUME NEW p \in Polls, FetchUnpublished(p) PROVE TypeOK'
    BY <1>2, FetchedAreUnpublished DEF FetchUnpublished
<1>3. ASSUME NEW p \in Polls, Publish(p) PROVE TypeOK'
    <2>1. delivered' \subseteq Events
        BY <1>3 DEF Publish
    <2>2. UNCHANGED <<entity, row, createdAt, now, running>>
        BY <1>3 DEF Publish
    <2>3. CASE pc' = [pc EXCEPT ![p] = "mark"] /\ UNCHANGED <<batch, unmarked, faults>>
        <3>1. pc[p] = "publish"
            BY <1>3 DEF Publish
        <3>2. pc' \in [Polls -> {"idle", "publish", "mark"}]
            BY <2>3
        <3>3. \A q \in Polls : pc'[q] = "idle" => batch[q] = {}
            BY <2>3, <3>1
        <3> QED
            BY <2>1, <2>2, <2>3, <3>2, <3>3
    <2>4. CASE Done(p) /\ faults' = faults + 1
        <3>1. pc' \in [Polls -> {"idle", "publish", "mark"}]
            BY <2>4
        <3>2. batch' \in [Polls -> SUBSET Events] /\ unmarked' \in [Polls -> SUBSET Events]
            BY <2>4
        <3>3. \A q \in Polls : /\ unmarked'[q] \subseteq batch'[q]
                              /\ (pc'[q] = "idle" => batch'[q] = {})
            BY <2>4
        <3> QED
            BY <2>1, <2>2, <2>4, <3>1, <3>2, <3>3
    <2>5. \/ pc' = [pc EXCEPT ![p] = "mark"] /\ UNCHANGED <<batch, unmarked, faults>>
          \/ Done(p) /\ faults' = faults + 1
        BY <1>3 DEF Publish
    <2> QED
        BY <2>3, <2>4, <2>5
<1>4. ASSUME NEW p \in Polls, MarkPublished(p) PROVE TypeOK'
    <2>1. row' \in [Events -> {"none", "told", "uncommitted", "unpublished",
                              "published", "deleted"}]
        BY <1>4 DEF MarkPublished
    <2>2. UNCHANGED <<entity, createdAt, now, running, delivered>>
        BY <1>4 DEF MarkPublished
    <2>3. CASE Done(p) /\ faults' \in {faults, faults + 1}
        BY <2>1, <2>2, <2>3
    <2>4. CASE \E chunk \in SUBSET unmarked[p] :
                  /\ unmarked' = [unmarked EXCEPT ![p] = @ \ chunk]
                  /\ UNCHANGED <<pc, batch, faults>>
        BY <2>1, <2>2, <2>4
    <2> QED
        BY <1>4, <2>3, <2>4 DEF MarkPublished
<1>5. CASE Start \/ Stop \/ Cleanup \/ Crash
    <2>1. CASE Start
        BY <2>1 DEF Start
    <2>2. CASE Stop
        <3>1. faults' = faults + 1 /\ running' = FALSE
            BY <2>2 DEF Stop
        <3>2. UNCHANGED <<entity, row, createdAt, now, pc, batch, unmarked, delivered>>
            BY <2>2 DEF Stop
        <3>3. faults' \in Nat
            BY <3>1
        <3>4. running' \in BOOLEAN
            BY <3>1
        <3> QED
            BY <3>2, <3>3, <3>4
    <2>3. CASE Cleanup
        BY <2>3 DEF Cleanup
    <2>4. CASE Crash
        <3>1. pc' \in [Polls -> {"idle", "publish", "mark"}]
            BY <2>4 DEF Crash
        <3>2. batch' \in [Polls -> SUBSET Events] /\ unmarked' \in [Polls -> SUBSET Events]
            BY <2>4 DEF Crash
        <3>3. \A q \in Polls : unmarked'[q] = {} /\ batch'[q] = {}
            BY <2>4 DEF Crash
        <3>4. faults' = faults + 1 /\ running' = FALSE
            BY <2>4 DEF Crash
        <3>5. UNCHANGED <<entity, row, createdAt, now, delivered>>
            BY <2>4 DEF Crash
        <3>6. faults' \in Nat
            BY <3>4
        <3>7. running' \in BOOLEAN
            BY <3>4
        <3> QED
            BY <3>1, <3>2, <3>3, <3>5, <3>6, <3>7
    <2> QED
        BY <1>5, <2>1, <2>2, <2>3, <2>4
<1>6. CASE UNCHANGED vars
    BY <1>6 DEF vars
<1> QED
    BY <1>1, <1>2, <1>3, <1>4, <1>5, <1>6 DEF Next

\* Every step keeps the invariant.
LEMMA InvStep == IInv /\ [Next]_vars => IInv'
<1> SUFFICES ASSUME IInv, [Next]_vars PROVE IInv'
    OBVIOUS
<1> USE DEF IInv, TypeOK, RowFollowsEntity, Position, Written, NothingLost,
        OnlyCommittedDelivered, publisher, Fault, Done, Explicit
<1>0. TypeOK'
    BY TypeStep
<1>1. ASSUME NEW e \in Events, Change(e) \/ Commit(e) \/ RollBack(e) \/ PluginWrites(e)
      PROVE  IInv'
    <2>1. CASE Change(e)
        <3>1. RowFollowsEntity'
            BY <2>1 DEF Change
        <3>2. Position'
            BY <2>1 DEF Change
        <3>3. NothingLost' /\ OnlyCommittedDelivered'
            BY <2>1 DEF Change
        <3> QED
            BY <1>0, <3>1, <3>2, <3>3
    <2>2. CASE Commit(e)
        BY <1>0, <2>2 DEF Commit
    <2>3. CASE RollBack(e)
        BY <1>0, <2>3 DEF RollBack
    <2>4. CASE PluginWrites(e)
        <3>1. RowFollowsEntity'
            BY <2>4 DEF PluginWrites
        <3>2. Position'
            BY <2>4 DEF PluginWrites
        <3>3. NothingLost' /\ OnlyCommittedDelivered'
            BY <2>4 DEF PluginWrites
        <3> QED
            BY <1>0, <3>1, <3>2, <3>3
    <2> QED
        BY <1>1, <2>1, <2>2, <2>3, <2>4
<1>2. ASSUME NEW p \in Polls, FetchUnpublished(p) PROVE IInv'
    BY <1>0, <1>2, FetchedAreUnpublished DEF FetchUnpublished
<1>3. ASSUME NEW p \in Polls, Publish(p) PROVE IInv'
    BY <1>0, <1>3 DEF Publish
<1>4. ASSUME NEW p \in Polls, MarkPublished(p) PROVE IInv'
    BY <1>0, <1>4 DEF MarkPublished
<1>5. CASE Start \/ Stop \/ Cleanup \/ Crash
    BY <1>0, <1>5 DEF Start, Stop, Cleanup, Crash
<1>6. CASE UNCHANGED vars
    BY <1>6 DEF vars
<1> QED
    BY <1>1, <1>2, <1>3, <1>4, <1>5, <1>6 DEF Next

\* Every variable keeps its type in every behaviour (TypeOK).
THEOREM TypeCorrect == Spec => []TypeOK
<1>1. Init => TypeOK
    BY InitInv DEF IInv
<1> QED
    BY <1>1, TypeStep, PTL DEF Spec

\* The invariant holds in every behaviour.
LEMMA Invariance == Spec => []IInv
<1>1. IInv /\ [Next]_vars => IInv'
    BY InvStep
<1> QED
    BY InitInv, <1>1, PTL DEF Spec

\* A row no poll will fetch again has been delivered (NothingLost), however
\* many polls overlap and wherever the publisher fails or crashes.
THEOREM NoLoss == Spec => []NothingLost
<1>1. IInv => NothingLost
    BY DEF IInv
<1> QED
    BY <1>1, Invariance, PTL

\* Only events of committed changes are delivered (OnlyCommittedDelivered).
THEOREM NoPhantom == Spec => []OnlyCommittedDelivered
<1>1. IInv => OnlyCommittedDelivered
    BY DEF IInv
<1> QED
    BY <1>1, Invariance, PTL

\* A step of the outbox is a step of at-least-once delivery or leaves its
\* variables alone.
LEMMA StepRefines ==
    IInv /\ IInv' /\ [Next]_vars => [Delivery!Next]_(Delivery!vars)
<1> DEFINE committed == {e \in Explicit : entity[e] = "committed"}
<1> DEFINE received == delivered \cap Explicit
<1> SUFFICES ASSUME IInv, IInv', [Next]_vars
             PROVE  \/ \E e \in Explicit : /\ committed' = committed \cup {e}
                                           /\ received' = received
                    \/ /\ committed' = committed
                       /\ received \subseteq received'
                       /\ received' \subseteq committed
    BY DEF Delivery!Next, Delivery!Commit, Delivery!Deliver, Delivery!vars
<1> USE DEF IInv, TypeOK, publisher, Done, Explicit
<1>1. ASSUME NEW e \in Explicit, Commit(e)
      PROVE  committed' = committed \cup {e} /\ received' = received
    BY <1>1 DEF Commit
<1>2. ASSUME NEW e \in Events,
             \/ Change(e) \/ RollBack(e) \/ PluginWrites(e)
             \/ Commit(e) /\ e \in AutoOutbox
      PROVE  committed' = committed /\ received' = received
    BY <1>2 DEF Change, Commit, RollBack, PluginWrites
<1>3. ASSUME NEW p \in Polls, FetchUnpublished(p) \/ Publish(p) \/ MarkPublished(p)
      PROVE  committed' = committed /\ received \subseteq received'
    BY <1>3 DEF FetchUnpublished, Publish, MarkPublished
<1>4. CASE Start \/ Stop \/ Cleanup \/ Crash \/ UNCHANGED vars
    <2>1. committed' = committed /\ received' = received
        BY <1>4 DEF Start, Stop, Cleanup, Crash, vars
    <2> QED
        BY <2>1 DEF OnlyCommittedDelivered
<1>5. committed' = committed => received' \subseteq committed
    BY DEF OnlyCommittedDelivered
<1> QED
    BY <1>1, <1>2, <1>3, <1>4, <1>5 DEF Next

\* The safety half of ImplementsAtLeastOnce; its liveness half needs fairness
\* and is model-checked.
THEOREM SafetyRefinement == Spec => Delivery!Safety
<1>1. Init => Delivery!Init
    BY DEF Init, Delivery!Init, Explicit
<1>2. Spec => []IInv
    BY Invariance
<1> QED
    BY <1>1, <1>2, StepRefines, PTL DEF Spec, Delivery!Safety
-----------------------------------------------------------------------------
(* Change notification *)

NotificationsSpec == NotificationsInit /\ [][NotificationsNext]_notificationVars

Streams == [at : {"open", "ended", "closed"}, reads : BOOLEAN, sent : Seq(Nat)]

Rising(s) == \A i, j \in 1..Len(s) : i < j => s[i] < s[j]

\* Where the generator is, and what it holds there.
Stage ==
    /\ source \in {"listen", "poll"}
    /\ gen \in {"new", "connecting", "preparing", "running", "waiting", "ended"}
    /\ taken \in BOOLEAN /\ hears \in BOOLEAN /\ attached \in BOOLEAN /\ streamEnded \in BOOLEAN
    /\ sourceConn \in {"none", "held", "closed"} /\ sourceFaults \in Nat
    /\ hears => source = "listen" /\ gen \in {"preparing", "running"}
    /\ attached <=> (source = "listen" /\ gen = "running")
    /\ gen = "new" => ~taken /\ sourceConn = "none"
    /\ gen = "connecting" => sourceConn # "held" /\ (source = "listen" => sourceConn = "none")
    /\ gen = "waiting" => source = "poll" /\ sourceConn = "closed"
    /\ gen = "ended" => /\ sourceConn = "held" => source = "listen" /\ sourceFaults > 0
                        /\ taken => source = "listen" /\ sourceFaults > 0 /\ sourceConn = "none"
    /\ streamEnded <=> (gen = "ended")

\* Changes are heard in order: what was sent is before what waits, and that before
\* what has not been read.
Changes ==
    /\ notes \in Seq({"wanted", "other"})
    /\ unread \in Seq(Nat) /\ Rising(unread)
    /\ sourceQueue \in Seq(Nat) /\ Rising(sourceQueue)
    /\ heard \subseteq 1..Len(notes)
    /\ ToSet(sourceQueue) \subseteq heard
    /\ \A n \in ToSet(unread) : n \in 1..Len(notes) /\ \A h \in heard : h < n
    /\ gen # "running" => sourceQueue = <<>>
    /\ source = "listen" => unread = <<>>

\* What c has been sent came in order, and nobody else was sent it.
SentRight(c) ==
    /\ Rising(clients[c].sent)
    /\ \A n \in Sent(c) : /\ n \in heard /\ Passes(n)
                          /\ \A q \in ToSet(sourceQueue) : n < q
    /\ \A d \in 1..Len(clients) : c # d => Sent(c) \cap Sent(d) = {}

Delivered ==
    /\ \A c \in 1..Len(clients) : SentRight(c)
    /\ \A n \in heard : Passes(n) => \/ \E c \in 1..Len(clients) : n \in Sent(c)
                                     \/ n \in ToSet(sourceQueue) \cup lost
    /\ lost # {} => \/ streamEnded \/ streamAborted
                    \/ \E c \in 1..Len(clients) : clients[c].at = "closed"

\* Each reader waits once.
Readers ==
    /\ clients \in Seq(Streams)
    /\ asks \in Seq(Nat) /\ \A i \in 1..Len(asks) : asks[i] \in 0..Len(clients)
    /\ \A i, j \in 1..Len(asks) : asks[i] = asks[j] /\ asks[i] # ToReturn => i = j
    /\ \A c \in 1..Len(clients) :
           /\ clients[c].reads <=> (\E i \in 1..Len(asks) : asks[i] = c)
           /\ clients[c].at = "open" => clients[c].reads
           /\ clients[c].at = "ended" => streamEnded
    /\ streamEnded => asks = <<>>

NInv == Stage /\ Changes /\ Delivered /\ Readers

\* The first of a queue, and the rest.
LEMMA FirstAndTail ==
    ASSUME NEW s \in Seq(Nat), s # <<>>, Rising(s)
    PROVE  /\ Head(s) \in Nat /\ Tail(s) \in Seq(Nat) /\ Len(Tail(s)) <= Len(s)
           /\ Rising(Tail(s))
           /\ ToSet(s) = {Head(s)} \cup ToSet(Tail(s))
           /\ \A e \in ToSet(Tail(s)) : Head(s) < e
<1>1. /\ Len(s) \in Nat \ {0} /\ DOMAIN s = 1..Len(s) /\ Head(s) = s[1] /\ Head(s) \in Nat
      /\ Tail(s) \in Seq(Nat) /\ Len(Tail(s)) = Len(s) - 1
      /\ DOMAIN Tail(s) = 1..(Len(s) - 1)
      /\ \A i \in 1..(Len(s) - 1) : Tail(s)[i] = s[i + 1]
  OBVIOUS
<1>2. ToSet(s) = {s[i] : i \in 1..Len(s)}
  BY <1>1 DEF ToSet
<1>3. ToSet(Tail(s)) = {s[i + 1] : i \in 1..(Len(s) - 1)}
  BY <1>1 DEF ToSet
<1>4. ToSet(s) = {s[1]} \cup {s[i + 1] : i \in 1..(Len(s) - 1)}
  <2>1. \A i \in 1..Len(s) : i = 1 \/ (i - 1 \in 1..(Len(s) - 1) /\ i = (i - 1) + 1)
    BY <1>1
  <2>2. \A i \in 1..(Len(s) - 1) : i + 1 \in 1..Len(s)
    BY <1>1
  <2>3. 1 \in 1..Len(s)
    BY <1>1
  <2> QED
    BY <2>1, <2>2, <2>3, <1>2
<1>5. Rising(Tail(s))
  BY <1>1 DEF Rising
<1>6. \A i \in 1..(Len(s) - 1) : s[1] < s[i + 1]
  BY <1>1 DEF Rising
<1>. QED
  BY <1>1, <1>3, <1>4, <1>5, <1>6

\* One more at the end.
LEMMA OneBehind ==
    ASSUME NEW s \in Seq(Nat), Rising(s), NEW n \in Nat,
           \A e \in ToSet(s) : e < n
    PROVE  /\ Append(s, n) \in Seq(Nat) /\ Len(Append(s, n)) = Len(s) + 1
           /\ Rising(Append(s, n))
           /\ ToSet(Append(s, n)) = ToSet(s) \cup {n}
<1>1. /\ Len(s) \in Nat /\ DOMAIN s = 1..Len(s)
      /\ Append(s, n) \in Seq(Nat) /\ Len(Append(s, n)) = Len(s) + 1
      /\ DOMAIN Append(s, n) = 1..(Len(s) + 1)
      /\ \A i \in 1..Len(s) : Append(s, n)[i] = s[i]
      /\ Append(s, n)[Len(s) + 1] = n
  OBVIOUS
<1>2. ToSet(Append(s, n)) = {Append(s, n)[i] : i \in 1..(Len(s) + 1)}
  BY <1>1 DEF ToSet
<1>3. ToSet(s) = {s[i] : i \in 1..Len(s)}
  BY <1>1 DEF ToSet
<1>4. 1..(Len(s) + 1) = 1..Len(s) \cup {Len(s) + 1}
  BY <1>1
<1>5. ToSet(Append(s, n)) = ToSet(s) \cup {n}
  BY <1>1, <1>2, <1>3, <1>4
<1>6. Rising(Append(s, n))
  <2> SUFFICES ASSUME NEW i \in 1..(Len(s) + 1), NEW j \in 1..(Len(s) + 1), i < j
               PROVE  Append(s, n)[i] < Append(s, n)[j]
    BY <1>1 DEF Rising
  <2>1. i \in 1..Len(s)
    BY <1>1
  <2>2. CASE j \in 1..Len(s)
    BY <2>1, <2>2, <1>1 DEF Rising
  <2>3. CASE j = Len(s) + 1
    BY <2>1, <2>3, <1>1, <1>3
  <2> QED
    BY <2>2, <2>3, <1>4
<1>. QED
  BY <1>1, <1>5, <1>6

LEMMA EmptyIs == ToSet(<<>>) = {} /\ Rising(<<>>) /\ <<>> \in Seq(Nat) /\ Len(<<>>) = 0
BY DEF ToSet, Rising

LEMMA InitNInv == NotificationsInit => NInv
<1>. SUFFICES ASSUME NEW k \in SourceKinds, NotificationsStart(k) PROVE NInv
  BY DEF NotificationsInit
<1>1. Stage  BY NotificationsAssumption DEF NotificationsStart, Stage
<1>2. Changes  BY EmptyIs DEF NotificationsStart, Changes
<1>3. clients = <<>> /\ asks = <<>> /\ heard = {} /\ lost = {} /\ ~streamEnded
  BY DEF NotificationsStart
<1>4. Delivered  BY <1>3 DEF Delivered
<1>5. Readers  BY <1>3 DEF Readers
<1>. QED  BY <1>1, <1>2, <1>4, <1>5 DEF NInv

\* What a client has been sent.
LEMMA SentAre ==
    ASSUME Readers, NEW c \in 1..Len(clients)
    PROVE  clients[c] \in Streams /\ clients[c].sent \in Seq(Nat)
<1>1. clients[c] \in Streams  BY DEF Readers
<1>. QED  BY <1>1 DEF Streams

\* Nothing moves but the source.
LEMMA SourceMoves ==
    ASSUME NInv, Stage', UNCHANGED <<changeVars, streamVars>>,
           gen = "running" => gen' = "running" \/ sourceQueue = <<>>, source' = source
    PROVE  NInv'
<1>1. UNCHANGED <<notes, unread, sourceQueue, heard, lost, asks, streamAborted, streamEnded, clients>>
  BY DEF changeVars, streamVars
<1>2. Changes'  BY <1>1 DEF NInv, Changes, Rising
<1>3. Delivered'  BY <1>1 DEF NInv, Delivered, SentRight, Sent, Passes, Rising
<1>4. Readers'  BY <1>1 DEF NInv, Readers
<1>. QED  BY <1>2, <1>3, <1>4 DEF NInv

\* The end of the source takes the readers and the queue with it.
LEMMA DeadKeeps ==
    ASSUME NInv, Dead, Stage', gen' = "ended",
           UNCHANGED <<source, notes, unread, heard, streamAborted>>
    PROVE  NInv'
<1>1. /\ clients \in Seq(Streams) /\ Len(clients) \in Nat /\ DOMAIN clients = 1..Len(clients)
      /\ \A c \in 1..Len(clients) : clients[c] \in Streams
  BY DEF NInv, Readers
<1>. DEFINE n == Len(clients)
            over(c) == [clients[c] EXCEPT !.reads = FALSE,
                                          !.at = IF clients[c].reads /\ @ = "open" THEN "ended" ELSE @]
<1>2. clients' = [c \in 1..n |-> over(c)]  BY <1>1 DEF Dead
<1>3. ASSUME NEW c \in 1..n
      PROVE  /\ over(c) \in Streams /\ ~over(c).reads /\ over(c).sent = clients[c].sent
             /\ over(c).at \in {"ended", "closed"}
             /\ clients[c].at = "closed" => over(c).at = "closed"
  <2>1. clients[c] \in Streams /\ (clients[c].at = "open" => clients[c].reads)
    BY <1>1 DEF NInv, Readers
  <2>. QED  BY <2>1 DEF Streams
<1>. HIDE DEF over
<1>4. /\ clients' \in Seq(Streams) /\ Len(clients') = n
      /\ \A c \in 1..n : clients'[c] = over(c)
  BY <1>1, <1>2, <1>3
<1>. HIDE DEF n
<1>5. asks' = <<>> /\ streamEnded' /\ sourceQueue' = <<>> /\ lost' = lost \cup ToSet(sourceQueue)
  BY DEF Dead
<1>6. Changes'  BY <1>5, EmptyIs DEF NInv, Changes, Rising
<1>7. \A c \in 1..n : Sent(c)' = Sent(c)  BY <1>3, <1>4 DEF Sent
<1>8. ASSUME NEW c \in 1..Len(clients') PROVE SentRight(c)'
  <2>1. c \in 1..n /\ clients'[c].sent = clients[c].sent /\ SentRight(c)
    BY <1>3, <1>4 DEF NInv, Delivered, n
  <2>2. \A d \in 1..n : c # d => Sent(c) \cap Sent(d) = {}  BY <2>1 DEF SentRight, n
  <2>. QED  BY <1>4, <1>5, <1>7, <2>1, <2>2, EmptyIs DEF SentRight, Passes, Rising
<1>9. \A m \in heard' : Passes(m)' => \/ \E c \in 1..Len(clients') : m \in Sent(c)'
                                      \/ m \in ToSet(sourceQueue') \cup lost'
  <2>. SUFFICES ASSUME NEW m \in heard, Passes(m)
                PROVE  (\E c \in 1..n : m \in Sent(c)') \/ m \in lost'
    BY <1>4 DEF Passes
  <2>1. (\E c \in 1..n : m \in Sent(c)) \/ m \in ToSet(sourceQueue) \cup lost
    BY DEF NInv, Delivered, n
  <2>. QED  BY <1>5, <1>7, <2>1
<1>10. Delivered'  BY <1>5, <1>8, <1>9 DEF Delivered
<1>11. Readers'
  <2>1. \A c \in 1..Len(clients') : /\ clients'[c].reads = FALSE
                                    /\ clients'[c].at \in {"ended", "closed"}
    BY <1>3, <1>4
  <2>. QED  BY <1>4, <1>5, <2>1 DEF Readers
<1>. QED  BY <1>6, <1>10, <1>11 DEF NInv

LEMMA EndingKeeps ==
    ASSUME NInv, NotConnected \/ ListenFails \/ PollFails \/ CleansUp
    PROVE  NInv'
<1>1. Dead /\ gen' = "ended" /\ UNCHANGED <<source, notes, unread, heard, streamAborted>>
  BY DEF NotConnected, ListenFails, PollFails, CleansUp
<1>2. Stage'
  <2>. streamEnded' = TRUE  BY <1>1 DEF Dead
  <2>1. CASE NotConnected  BY <2>1 DEF NotConnected, NInv, Stage
  <2>2. CASE ListenFails
    <3>1. ~attached /\ ~hears /\ source = "listen" /\ sourceFaults' > 0 /\ sourceFaults' \in Nat
      BY <2>2 DEF ListenFails, NInv, Stage
    <3>2. UNCHANGED <<source, sourceConn, hears, attached>> /\ gen' = "ended" /\ taken' = FALSE
      BY <2>2 DEF ListenFails
    <3>. QED  BY <3>1, <3>2 DEF NInv, Stage
  <2>3. CASE PollFails
    <3>1. ~attached /\ ~hears /\ source = "poll" /\ sourceFaults' \in Nat
      BY <2>3 DEF PollFails, NInv, Stage
    <3>2. UNCHANGED <<source, hears, attached>> /\ gen' = "ended" /\ taken' = FALSE
          /\ sourceConn' = "closed"
      BY <2>3 DEF PollFails
    <3>. QED  BY <3>1, <3>2 DEF NInv, Stage
  <2>4. CASE CleansUp  BY <2>4 DEF CleansUp, Releases, NInv, Stage
  <2>. QED  BY <2>1, <2>2, <2>3, <2>4
<1>. QED  BY <1>1, <1>2, DeadKeeps

LEMMA BeginsKeeps == ASSUME NInv, Begins PROVE NInv'
<1>1. CASE sourceClosed
  <2>1. Stage'  BY <1>1 DEF Begins, Dead, NInv, Stage
  <2>2. Dead /\ gen' = "ended" /\ UNCHANGED <<source, notes, unread, heard, streamAborted>>
    BY <1>1 DEF Begins
  <2>. QED  BY <2>1, <2>2, DeadKeeps
<1>2. CASE ~sourceClosed
  <2>1. Stage'  BY <1>2 DEF Begins, NInv, Stage
  <2>2. UNCHANGED <<changeVars, streamVars, source>> /\ gen = "new"
    BY <1>2 DEF Begins, changeVars, streamVars
  <2>. QED  BY <2>1, <2>2, SourceMoves
<1>. QED  BY <1>1, <1>2

LEMMA MovesKeep ==
    ASSUME NInv,
           Connected \/ Listens \/ Attaches \/ PollDone \/ NextPoll \/ Abort \/ CloseSource
    PROVE  NInv'
<1>1. UNCHANGED <<changeVars, streamVars, source>>
  BY DEF Connected, Listens, Attaches, PollDone, NextPoll, Abort, CloseSource
<1>2. UNCHANGED streamEnded  BY <1>1 DEF streamVars
<1>3. Stage'
  <2>1. CASE Connected  BY <1>2, <2>1 DEF Connected, NInv, Stage
  <2>2. CASE Listens  BY <1>2, <2>2 DEF Listens, NInv, Stage
  <2>3. CASE Attaches  BY <1>2, <2>3 DEF Attaches, NInv, Stage
  <2>4. CASE PollDone  BY <1>2, <2>4 DEF PollDone, NInv, Stage
  <2>5. CASE NextPoll  BY <1>2, <2>5 DEF NextPoll, NInv, Stage
  <2>6. CASE Abort  BY <1>2, <2>6 DEF Abort, NInv, Stage
  <2>7. CASE CloseSource  BY <1>2, <2>7 DEF CloseSource, NInv, Stage
  <2>. QED  BY <2>1, <2>2, <2>3, <2>4, <2>5, <2>6, <2>7
<1>4. gen = "running" => gen' = "running" \/ sourceQueue = <<>>
  BY DEF Connected, Listens, Attaches, PollDone, NextPoll, Abort, CloseSource
<1>. QED  BY <1>1, <1>3, <1>4, SourceMoves

LEMMA PolledKeeps == ASSUME NInv, Polled PROVE NInv'
<1>1. Stage'  BY DEF Polled, streamVars, NInv, Stage
<1>2. /\ sourceQueue = <<>> /\ sourceQueue' = unread /\ unread' = <<>>
      /\ heard' = heard \cup ToSet(unread)
      /\ UNCHANGED <<notes, lost, asks, streamAborted, streamEnded, clients>> /\ gen' = "running"
  BY DEF Polled, streamVars, NInv, Changes
<1>3. /\ unread \in Seq(Nat) /\ Rising(unread) /\ heard \subseteq 1..Len(notes)
      /\ \A n \in ToSet(unread) : n \in 1..Len(notes) /\ \A h \in heard : h < n
  BY DEF NInv, Changes
<1>4. Changes'  BY <1>2, <1>3, EmptyIs DEF NInv, Changes, Rising
<1>5. \A c \in 1..Len(clients) : Sent(c)' = Sent(c)  BY <1>2 DEF Sent
<1>6. ASSUME NEW c \in 1..Len(clients') PROVE SentRight(c)'
  <2>1. SentRight(c)  BY <1>2 DEF NInv, Delivered
  <2>2. \A n \in Sent(c) : n \in heard /\ Passes(n)  BY <2>1 DEF SentRight
  <2>3. \A n \in Sent(c) : \A q \in ToSet(unread) : n < q  BY <1>3, <2>2
  <2>4. \A d \in 1..Len(clients) : c # d => Sent(c) \cap Sent(d) = {}  BY <2>1 DEF SentRight
  <2>. QED  BY <1>2, <1>5, <2>1, <2>2, <2>3, <2>4 DEF SentRight, Passes, Rising
<1>7. ASSUME NEW n \in heard', Passes(n)'
      PROVE  (\E c \in 1..Len(clients') : n \in Sent(c)') \/ n \in ToSet(sourceQueue') \cup lost'
  <2>1. CASE n \in ToSet(unread)  BY <1>2, <2>1
  <2>2. CASE n \in heard
    <3>1. (\E c \in 1..Len(clients) : n \in Sent(c)) \/ n \in ToSet(sourceQueue) \cup lost
      BY <1>2, <1>7, <2>2 DEF NInv, Delivered, Passes
    <3>. QED  BY <1>2, <1>5, <3>1, EmptyIs
  <2>. QED  BY <1>2, <2>1, <2>2
<1>8. Delivered'  BY <1>2, <1>6, <1>7 DEF NInv, Delivered
<1>9. Readers'  BY <1>2 DEF NInv, Readers
<1>. QED  BY <1>1, <1>4, <1>8, <1>9 DEF NInv

LEMMA NotifyKeeps ==
    ASSUME NInv, NEW kind \in {"wanted", "other"}, Notify(kind)
    PROVE  NInv'
<1>. PICK n : n = Len(notes) + 1  OBVIOUS
<1>1. /\ notes \in Seq({"wanted", "other"}) /\ Len(notes) \in Nat /\ n \in Nat
      /\ notes' = Append(notes, kind)
      /\ notes' \in Seq({"wanted", "other"}) /\ Len(notes') = n
      /\ \A m \in 1..Len(notes) : notes'[m] = notes[m]
  BY DEF Notify, NInv, Changes
<1>2. /\ heard \subseteq 1..Len(notes) /\ ToSet(sourceQueue) \subseteq heard
      /\ \A u \in ToSet(unread) : u \in 1..Len(notes) /\ \A h \in heard : h < u
      /\ unread \in Seq(Nat) /\ Rising(unread) /\ sourceQueue \in Seq(Nat) /\ Rising(sourceQueue)
  BY DEF NInv, Changes
<1>3. UNCHANGED <<sourceVars, lost, asks, streamAborted, streamEnded, clients, sourceFaults>>
  BY DEF Notify, streamVars
<1>4. \A m \in heard : m < n /\ m \in Nat  BY <1>1, <1>2
<1>5. \A m \in ToSet(unread) : m < n  BY <1>1, <1>2
<1>6. Stage'  BY <1>3 DEF sourceVars, NInv, Stage
<1>7. Readers'  BY <1>3 DEF NInv, Readers
<1>8. \A c \in 1..Len(clients) : Sent(c)' = Sent(c)  BY <1>3 DEF Sent
<1>9. \A m \in heard : Passes(m)' = Passes(m)  BY <1>1, <1>2 DEF Passes
<1>10. UNCHANGED <<source, gen, attached>>  BY <1>3 DEF sourceVars
<1>11. CASE UNCHANGED <<sourceQueue, heard>>
  <2>1. unread' = unread \/ unread' = Append(unread, n)  BY <1>1 DEF Notify
  <2>2. /\ unread' \in Seq(Nat) /\ Rising(unread')
        /\ \A u \in ToSet(unread') : u = n \/ u \in ToSet(unread)
    <3>1. CASE unread' = unread  BY <1>2, <3>1
    <3>2. CASE unread' = Append(unread, n)
      <4>1. /\ Append(unread, n) \in Seq(Nat) /\ Rising(Append(unread, n))
            /\ ToSet(Append(unread, n)) = ToSet(unread) \cup {n}
        BY <1>1, <1>2, <1>5, OneBehind
      <4>. QED  BY <3>2, <4>1
    <3>. QED  BY <2>1, <3>1, <3>2
  <2>3. Changes'
    <3>1. \A m \in 1..Len(notes) : m \in 1..n  BY <1>1
    <3>2. heard' \subseteq 1..Len(notes')  BY <1>1, <1>2, <1>11, <3>1
    <3>3. n \in 1..n  BY <1>1
    <3>4. ASSUME NEW u \in ToSet(unread')
          PROVE  u \in 1..Len(notes') /\ \A h \in heard' : h < u
      <4>1. CASE u = n  BY <1>1, <1>4, <1>11, <3>3, <4>1
      <4>2. CASE u \in ToSet(unread)  BY <1>1, <1>2, <1>11, <3>1, <4>2
      <4>. QED  BY <2>2, <4>1, <4>2
    <3>5. source = "listen" => unread' = <<>>  BY <1>1 DEF Notify, NInv, Changes
    <3>6. gen' # "running" => sourceQueue' = <<>>  BY <1>10, <1>11 DEF NInv, Changes
    <3>7. Rising(sourceQueue)' /\ Rising(unread)'  BY <1>2, <1>11, <2>2 DEF Rising
    <3>. QED  BY <1>1, <1>2, <1>10, <1>11, <2>2, <3>2, <3>4, <3>5, <3>6, <3>7 DEF Changes
  <2>4. ASSUME NEW c \in 1..Len(clients') PROVE SentRight(c)'
    <3>1. SentRight(c)  BY <1>3 DEF NInv, Delivered
    <3>2. \A m \in Sent(c) : m \in heard  BY <3>1 DEF SentRight
    <3>. QED  BY <1>3, <1>8, <1>9, <1>11, <3>1, <3>2 DEF SentRight, Rising
  <2>5. Delivered'  BY <1>3, <1>8, <1>9, <1>11, <2>4 DEF NInv, Delivered
  <2>. QED  BY <1>6, <1>7, <2>3, <2>5 DEF NInv
<1>12. CASE sourceQueue' = Append(sourceQueue, n) /\ heard' = heard \cup {n} /\ unread' = unread
            /\ unread = <<>> /\ attached
  <2>1. /\ sourceQueue' \in Seq(Nat) /\ Rising(sourceQueue')
        /\ ToSet(sourceQueue') = ToSet(sourceQueue) \cup {n}
    BY <1>1, <1>2, <1>4, <1>12, OneBehind
  <2>2. Changes'
    <3>1. heard' \subseteq 1..Len(notes')
      <4>1. n \in 1..n /\ \A m \in 1..Len(notes) : m \in 1..n  BY <1>1
      <4>. QED  BY <1>1, <1>2, <1>12, <4>1
    <3>2. gen' = "running"  BY <1>10, <1>12 DEF NInv, Stage
    <3>. QED  BY <1>1, <1>2, <1>12, <2>1, <3>1, <3>2, EmptyIs DEF Changes, Rising
  <2>3. ASSUME NEW c \in 1..Len(clients') PROVE SentRight(c)'
    <3>1. SentRight(c)  BY <1>3 DEF NInv, Delivered
    <3>2. \A m \in Sent(c) : m \in heard /\ m < n  BY <1>4, <3>1 DEF SentRight
    <3>. QED  BY <1>3, <1>8, <1>9, <1>12, <2>1, <3>1, <3>2 DEF SentRight, Rising
  <2>4. \A m \in heard' : Passes(m)' => \/ \E c \in 1..Len(clients') : m \in Sent(c)'
                                        \/ m \in ToSet(sourceQueue') \cup lost'
    BY <1>3, <1>8, <1>9, <1>12, <2>1 DEF NInv, Delivered
  <2>5. Delivered'  BY <1>3, <2>3, <2>4 DEF NInv, Delivered
  <2>. QED  BY <1>6, <1>7, <2>2, <2>5 DEF NInv
<1>13. CASE source = "poll"
  <2>1. UNCHANGED <<sourceQueue, heard>>  BY <1>13 DEF Notify
  <2>. QED  BY <1>11, <2>1
<1>14. CASE source # "poll"
  <2>1. unread = <<>> /\ unread' = unread  BY <1>14 DEF Notify, NInv, Stage, Changes
  <2>2. CASE attached /\ Len(sourceQueue) < QueueSize
    <3>1. sourceQueue' = Append(sourceQueue, n) /\ heard' = heard \cup {n}
      BY <1>1, <1>14, <2>2 DEF Notify
    <3>. QED  BY <1>12, <2>1, <2>2, <3>1
  <2>3. CASE ~(attached /\ Len(sourceQueue) < QueueSize)
    <3>1. UNCHANGED <<sourceQueue, heard>>  BY <1>14, <2>3 DEF Notify
    <3>. QED  BY <1>11, <3>1
  <2>. QED  BY <2>2, <2>3
<1>. QED  BY <1>13, <1>14

\* Who has asked first is a connection, and waits nowhere else.
LEMMA FirstAsks ==
    ASSUME Readers, asks # <<>>
    PROVE  /\ Head(asks) \in 0..Len(clients) /\ Head(asks) = asks[1]
           /\ Tail(asks) \in Seq(Nat) /\ Len(Tail(asks)) = Len(asks) - 1 /\ Len(asks) \in Nat \ {0}
           /\ \A i \in 1..(Len(asks) - 1) : Tail(asks)[i] = asks[i + 1] /\ i + 1 \in 1..Len(asks)
BY DEF Readers

\* The asks after the first one, that of c, has been served: c asks again, or to return.
AskedAfter(next, c, last) ==
    /\ next \in Seq(Nat) /\ Len(next) = Len(asks)
    /\ \A i \in 1..Len(next) : next[i] \in 0..Len(clients)
    /\ \A i, j \in 1..Len(next) : next[i] = next[j] /\ next[i] # ToReturn => i = j
    /\ \A d \in 1..Len(clients) :
           (\E i \in 1..Len(next) : next[i] = d)
               <=> IF d = c THEN last = c ELSE \E i \in 1..Len(asks) : asks[i] = d

LEMMA AsksAfter ==
    ASSUME Readers, asks # <<>>, NEW c, c = Head(asks), c # ToReturn, NEW last \in {c, ToReturn},
           NEW next, next = Append(Tail(asks), last)
    PROVE  AskedAfter(next, c, last)
<1>. DEFINE t == Tail(asks)
            n == Len(asks)
<1>1. /\ c \in 1..Len(clients) /\ c = asks[1] /\ t \in Seq(Nat) /\ Len(t) = n - 1 /\ n \in Nat \ {0}
      /\ \A i \in 1..(n - 1) : t[i] = asks[i + 1] /\ i + 1 \in 1..n
  BY FirstAsks DEF ToReturn
<1>2. /\ \A i \in 1..n : asks[i] \in 0..Len(clients)
      /\ \A i, j \in 1..n : asks[i] = asks[j] /\ asks[i] # ToReturn => i = j
  BY DEF Readers
<1>3. last \in 0..Len(clients) /\ last \in Nat  BY <1>1 DEF ToReturn
<1>3a. next = Append(t, last)  OBVIOUS
<1>3b. \A i \in 1..Len(t) : Append(t, last)[i] = t[i]  BY <1>1, <1>3
<1>. HIDE DEF t, n
<1>4. /\ next \in Seq(Nat) /\ Len(next) = n /\ next[n] = last
      /\ \A i \in 1..(n - 1) : next[i] = asks[i + 1]
  <2>1. /\ next \in Seq(Nat) /\ Len(next) = Len(t) + 1 /\ next[Len(t) + 1] = last
        /\ \A i \in 1..Len(t) : next[i] = t[i]
    <3>1. /\ Append(t, last) \in Seq(Nat) /\ Len(Append(t, last)) = Len(t) + 1
          /\ Append(t, last)[Len(t) + 1] = last
      BY <1>1, <1>3
    <3>. QED  BY <1>3a, <1>3b, <3>1
  <2>2. Len(t) + 1 = n  BY <1>1
  <2>. QED  BY <1>1, <2>1, <2>2
<1>5. \A i \in 1..(n - 1) : i + 1 \in 1..n /\ next[i] # c
  <2>. SUFFICES ASSUME NEW i \in 1..(n - 1) PROVE i + 1 \in 1..n /\ asks[i + 1] # asks[1]
    BY <1>1, <1>4
  <2>1. i + 1 \in 1..n /\ 1 \in 1..n /\ i + 1 # 1  BY <1>1
  <2>. QED  BY <1>1, <1>2, <2>1
<1>6. \A i \in 1..n : next[i] \in 0..Len(clients)
  <2>. SUFFICES ASSUME NEW i \in 1..n PROVE next[i] \in 0..Len(clients)  OBVIOUS
  <2>1. i = n \/ i \in 1..(n - 1)  BY <1>1
  <2>. QED  BY <1>2, <1>3, <1>4, <1>5, <2>1
<1>7. \A i, j \in 1..n : next[i] = next[j] /\ next[i] # ToReturn => i = j
  <2>. SUFFICES ASSUME NEW i \in 1..n, NEW j \in 1..n, next[i] = next[j], next[i] # ToReturn
                PROVE  i = j
    OBVIOUS
  <2>1. (i = n \/ i \in 1..(n - 1)) /\ (j = n \/ j \in 1..(n - 1))  BY <1>1
  <2>2. CASE i \in 1..(n - 1) /\ j \in 1..(n - 1)
    <3>1. i + 1 = j + 1  BY <1>2, <1>4, <1>5, <2>2
    <3>. QED  BY <3>1
  <2>3. CASE i = n /\ j \in 1..(n - 1)  BY <1>4, <1>5, <2>3
  <2>4. CASE j = n /\ i \in 1..(n - 1)  BY <1>4, <1>5, <2>4
  <2>. QED  BY <2>1, <2>2, <2>3, <2>4
<1>8. ASSUME NEW d \in 1..Len(clients)
      PROVE  (\E i \in 1..n : next[i] = d)
                 <=> IF d = c THEN last = c ELSE \E i \in 1..n : asks[i] = d
  <2>1. d # ToReturn  BY DEF ToReturn
  <2>2. CASE d = c
    <3>1. last = c => next[n] = d /\ n \in 1..n  BY <1>1, <1>4, <2>2
    <3>2. ASSUME NEW i \in 1..n, next[i] = d PROVE last = c
      <4>0. i = n \/ i \in 1..(n - 1)  BY <1>1
      <4>1. i = n  BY <1>5, <2>2, <3>2, <4>0
      <4>. QED  BY <1>4, <2>2, <3>2, <4>1
    <3>. QED  BY <2>2, <3>1, <3>2
  <2>3. CASE d # c
    <3>1. ASSUME NEW i \in 1..n, next[i] = d PROVE \E j \in 1..n : asks[j] = d
      <4>1. i # n  BY <1>4, <2>1, <2>3, <3>1
      <4>2. i \in 1..(n - 1)  BY <1>1, <4>1
      <4>. QED  BY <1>4, <1>5, <3>1, <4>2
    <3>2. ASSUME NEW j \in 1..n, asks[j] = d PROVE \E i \in 1..n : next[i] = d
      <4>1. j # 1  BY <1>1, <2>3, <3>2
      <4>2. j - 1 \in 1..(n - 1) /\ j - 1 \in 1..n /\ (j - 1) + 1 = j  BY <1>1, <4>1
      <4>3. next[j - 1] = asks[j]  BY <1>4, <4>2
      <4>. QED  BY <3>2, <4>2, <4>3
    <3>. QED  BY <2>3, <3>1, <3>2
  <2>. QED  BY <2>2, <2>3
<1>9. Len(next) = n /\ n = Len(asks)  BY <1>4 DEF n
<1>. QED  BY ONLY <1>4, <1>6, <1>7, <1>8, <1>9, Zenon DEF AskedAfter

\* What Take does to the source and its queue, whatever becomes of the change.
LEMMA TakesFirst ==
    ASSUME NInv, Take
    PROVE  /\ Stage' /\ Changes'
           /\ Head(sourceQueue) \in heard
           /\ ToSet(sourceQueue) = {Head(sourceQueue)} \cup ToSet(sourceQueue')
           /\ \A q \in ToSet(sourceQueue') : Head(sourceQueue) < q
           /\ asks # <<>> /\ Head(asks) \in 1..Len(clients)
<1>1. UNCHANGED <<sourceVars, notes, unread, heard, streamAborted, streamEnded, sourceFaults>>
      /\ sourceQueue' = Tail(sourceQueue) /\ sourceQueue # <<>> /\ gen = "running"
      /\ asks # <<>> /\ Head(asks) # ToReturn
  BY DEF Take, Asked
<1>2. sourceQueue \in Seq(Nat) /\ Rising(sourceQueue) /\ ToSet(sourceQueue) \subseteq heard
  BY DEF NInv, Changes
<1>3. /\ Tail(sourceQueue) \in Seq(Nat) /\ Rising(Tail(sourceQueue))
      /\ ToSet(sourceQueue) = {Head(sourceQueue)} \cup ToSet(Tail(sourceQueue))
      /\ \A q \in ToSet(Tail(sourceQueue)) : Head(sourceQueue) < q
  BY <1>1, <1>2, FirstAndTail
<1>4. Stage'  BY <1>1 DEF sourceVars, NInv, Stage
<1>5. UNCHANGED <<source, gen>>  BY <1>1 DEF sourceVars
<1>6. Changes'
  <2>1. Rising(unread)' = Rising(unread)  BY <1>1 DEF Rising
  <2>2. Rising(sourceQueue)'  BY <1>1, <1>3 DEF Rising
  <2>3. ToSet(sourceQueue') \subseteq heard'  BY <1>1, <1>2, <1>3
  <2>. QED  BY <1>1, <1>3, <1>5, <2>1, <2>2, <2>3 DEF NInv, Changes
<1>7. Head(asks) \in 1..Len(clients)  BY <1>1, FirstAsks DEF NInv, ToReturn
<1>. QED  BY <1>1, <1>2, <1>3, <1>4, <1>6, <1>7

\* Nobody is sent what Take takes.
LEMMA NotSent ==
    ASSUME NInv, Take, UNCHANGED clients, NEW n, n = Head(sourceQueue),
           Passes(n) => lost' = lost \cup {n}, lost \subseteq lost',
           lost' # {} => lost # {} \/ streamAborted
    PROVE  Delivered'
<1>1. UNCHANGED <<notes, heard, streamAborted, streamEnded>>  BY DEF Take
<1>2. ToSet(sourceQueue) = {n} \cup ToSet(sourceQueue')  BY TakesFirst
<1>3. \A c \in 1..Len(clients) : Sent(c)' = Sent(c)  BY DEF Sent
<1>4. ASSUME NEW c \in 1..Len(clients') PROVE SentRight(c)'
  <2>1. SentRight(c)  BY DEF NInv, Delivered
  <2>. QED  BY <1>1, <1>2, <1>3, <2>1 DEF SentRight, Passes, Rising
<1>5. \A m \in heard' : Passes(m)' => \/ \E c \in 1..Len(clients') : m \in Sent(c)'
                                      \/ m \in ToSet(sourceQueue') \cup lost'
  BY <1>1, <1>2, <1>3 DEF NInv, Delivered, Passes
<1>6. lost' # {} => \/ streamEnded' \/ streamAborted'
                    \/ \E c \in 1..Len(clients') : clients'[c].at = "closed"
  BY <1>1 DEF NInv, Delivered
<1>. QED  BY <1>4, <1>5, <1>6 DEF Delivered

LEMMA TakeKeeps == ASSUME NInv, Take PROVE NInv'
<1>. PICK n : n = Head(sourceQueue)  OBVIOUS
<1>. PICK c : c = Head(asks)  OBVIOUS
<1>1. /\ Stage' /\ Changes' /\ n \in heard
      /\ ToSet(sourceQueue) = {n} \cup ToSet(sourceQueue')
      /\ \A q \in ToSet(sourceQueue') : n < q
      /\ asks # <<>> /\ c \in 1..Len(clients)
  BY TakesFirst
<1>2. c # ToReturn /\ UNCHANGED <<notes, heard, streamAborted, streamEnded>>  BY DEF Take
<1>3. /\ clients \in Seq(Streams) /\ Len(clients) \in Nat /\ clients[c] \in Streams
      /\ Readers
  BY <1>1 DEF NInv, Readers
<1>4. ~streamEnded  BY <1>1 DEF NInv, Readers
<1>5. CASE streamAborted
  <2>1. asks' = <<ToReturn>> \o asks /\ lost' = lost \cup {n} /\ UNCHANGED clients
    BY <1>5 DEF Take
  <2>2. Delivered'  BY <1>5, <2>1, NotSent
  <2>3. Readers'
    <3>1. /\ asks' \in Seq(Nat) /\ Len(asks') = Len(asks) + 1 /\ asks'[1] = ToReturn
          /\ \A i \in 2..(Len(asks) + 1) : asks'[i] = asks[i - 1]
      BY <1>3, <2>1 DEF Readers, ToReturn
    <3>2. \A i \in 1..(Len(asks) + 1) : i = 1 \/ (i \in 2..(Len(asks) + 1) /\ i - 1 \in 1..Len(asks))
      BY <1>3 DEF Readers
    <3>3. \A i \in 1..Len(asks') : asks'[i] \in 0..Len(clients)
      <4>1. 0 \in 0..Len(clients)  BY <1>3
      <4>. SUFFICES ASSUME NEW i \in 1..Len(asks') PROVE asks'[i] \in 0..Len(clients)  OBVIOUS
      <4>2. CASE i = 1  BY <3>1, <4>1, <4>2 DEF ToReturn
      <4>3. CASE i \in 2..(Len(asks) + 1) /\ i - 1 \in 1..Len(asks)
        BY <1>3, <3>1, <4>3 DEF Readers
      <4>. QED  BY <3>1, <3>2, <4>2, <4>3
    <3>4. \A i, j \in 1..Len(asks') : asks'[i] = asks'[j] /\ asks'[i] # ToReturn => i = j
      <4>. SUFFICES ASSUME NEW i \in 1..Len(asks'), NEW j \in 1..Len(asks'),
                           asks'[i] = asks'[j], asks'[i] # ToReturn
                    PROVE  i = j
        OBVIOUS
      <4>0. i # 1 /\ j # 1  BY <3>1
      <4>2. /\ i - 1 \in 1..Len(asks) /\ asks'[i] = asks[i - 1]
            /\ j - 1 \in 1..Len(asks) /\ asks'[j] = asks[j - 1]
        BY <3>1, <3>2, <4>0
      <4>3. asks[i - 1] = asks[j - 1] /\ asks[i - 1] # ToReturn  BY <4>2
      <4>4. \A k, l \in 1..Len(asks) : asks[k] = asks[l] /\ asks[k] # ToReturn => k = l
        BY <1>3 DEF Readers
      <4>1. i - 1 = j - 1  BY ONLY <4>2, <4>3, <4>4, Zenon
      <4>. QED  BY <3>1, <4>1
    <3>5. ASSUME NEW d \in 1..Len(clients)
          PROVE  (\E i \in 1..Len(asks') : asks'[i] = d) <=> (\E i \in 1..Len(asks) : asks[i] = d)
      <4>1. ASSUME NEW i \in 1..Len(asks'), asks'[i] = d PROVE \E k \in 1..Len(asks) : asks[k] = d
        BY <3>1, <3>2, <4>1 DEF ToReturn
      <4>2. ASSUME NEW k \in 1..Len(asks), asks[k] = d PROVE \E i \in 1..Len(asks') : asks'[i] = d
        <5>1. k + 1 \in 2..(Len(asks) + 1) /\ k + 1 \in 1..Len(asks') /\ (k + 1) - 1 = k
          BY <1>3, <3>1 DEF Readers
        <5>2. asks'[k + 1] = asks[k]  BY <3>1, <5>1
        <5>. QED  BY <4>2, <5>1, <5>2
      <4>. QED  BY <4>1, <4>2
    <3>. QED  BY <1>2, <1>3, <1>4, <2>1, <3>1, <3>3, <3>4, <3>5 DEF Readers
  <2>. QED  BY <1>1, <2>2, <2>3 DEF NInv
<1>6. CASE ~streamAborted /\ ~Passes(n)
  <2>1. UNCHANGED <<asks, lost, clients>>  BY <1>6 DEF Take
  <2>2. Delivered'  BY <1>6, <2>1, NotSent
  <2>3. Readers'  BY <1>2, <1>3, <2>1 DEF Readers
  <2>. QED  BY <1>1, <2>2, <2>3 DEF NInv
<1>7. CASE ~streamAborted /\ Passes(n) /\ clients[c].at = "open"
  <2>1. /\ asks' = Append(Tail(asks), c) /\ lost' = lost
        /\ clients' = [clients EXCEPT ![c].sent = Append(@, n)]
    BY <1>7 DEF Take
  <2>. DEFINE x == [clients[c] EXCEPT !.sent = Append(@, n)]
  <2>2. n \in Nat
    <3>1. heard \subseteq 1..Len(notes)  BY DEF NInv, Changes
    <3>. QED  BY <1>1, <3>1
  <2>3. /\ x \in Streams /\ x.at = "open" /\ x.reads = clients[c].reads
        /\ x.sent = Append(clients[c].sent, n) /\ clients[c].sent \in Seq(Nat)
    <3>1. clients[c].sent \in Seq(Nat) /\ clients[c].at \in {"open", "ended", "closed"}
          /\ clients[c].reads \in BOOLEAN
      BY <1>3 DEF Streams
    <3>2. Append(clients[c].sent, n) \in Seq(Nat)  BY <2>2, <3>1
    <3>. PICK a : a = Append(clients[c].sent, n)  OBVIOUS
    <3>3. x = [clients[c] EXCEPT !.sent = a]  OBVIOUS
    <3>4. a \in Seq(Nat)  BY <3>2
    <3>. QED  BY <1>3, <1>7, <3>1, <3>3, <3>4 DEF Streams
  <2>4. clients' = [clients EXCEPT ![c] = x]  BY <1>1, <1>3, <2>1
  <2>. HIDE DEF x
  <2>5. /\ clients' \in Seq(Streams) /\ Len(clients') = Len(clients)
        /\ \A d \in 1..Len(clients) : clients'[d] = IF d = c THEN x ELSE clients[d]
    BY <1>1, <1>3, <2>3, <2>4
  <2>6. SentRight(c)  BY <1>1 DEF NInv, Delivered
  <2>7. \A m \in Sent(c) : m < n  BY <1>1, <2>6 DEF SentRight
  <2>8. Rising(x.sent) /\ ToSet(x.sent) = Sent(c) \cup {n}
    BY <2>2, <2>3, <2>6, <2>7, OneBehind DEF SentRight, Sent
  <2>9. \A d \in 1..Len(clients) : Sent(d)' = IF d = c THEN Sent(c) \cup {n} ELSE Sent(d)
    BY <2>5, <2>8 DEF Sent
  <2>10. \A d \in 1..Len(clients) : n \notin Sent(d)
    <3>1. ASSUME NEW d \in 1..Len(clients), n \in Sent(d) PROVE n < n
      BY <1>1, <3>1 DEF NInv, Delivered, SentRight
    <3>. QED  BY <2>2, <3>1
  <2>11. ASSUME NEW d \in 1..Len(clients') PROVE SentRight(d)'
    <3>1. d \in 1..Len(clients) /\ SentRight(d)  BY <2>5 DEF NInv, Delivered
    <3>2. Rising(clients[d].sent)'
      BY <2>5, <2>8, <3>1 DEF SentRight, Rising
    <3>3. \A m \in Sent(d)' : m \in heard' /\ Passes(m)' /\ \A q \in ToSet(sourceQueue') : m < q
      BY <1>1, <1>2, <1>7, <2>9, <3>1 DEF SentRight, Passes
    <3>4. \A e \in 1..Len(clients) : d # e => Sent(d)' \cap Sent(e)' = {}
      <4>. SUFFICES ASSUME NEW e \in 1..Len(clients), d # e PROVE Sent(d)' \cap Sent(e)' = {}
        OBVIOUS
      <4>1. Sent(d) \cap Sent(e) = {}  BY <3>1 DEF SentRight
      <4>. QED  BY <2>9, <2>10, <3>1, <4>1
    <3>. QED  BY <2>5, <3>2, <3>3, <3>4 DEF SentRight
  <2>12. \A m \in heard' : Passes(m)' => \/ \E d \in 1..Len(clients') : m \in Sent(d)'
                                         \/ m \in ToSet(sourceQueue') \cup lost'
    <3>. SUFFICES ASSUME NEW m \in heard, Passes(m)
                  PROVE  (\E d \in 1..Len(clients) : m \in Sent(d)')
                             \/ m \in ToSet(sourceQueue') \cup lost
      BY <1>2, <2>1, <2>5 DEF Passes
    <3>1. (\E d \in 1..Len(clients) : m \in Sent(d)) \/ m \in ToSet(sourceQueue) \cup lost
      BY DEF NInv, Delivered
    <3>2. m = n => m \in Sent(c)'  BY <1>1, <2>9
    <3>. QED  BY <1>1, <2>9, <3>1, <3>2
  <2>13. lost' # {} => \/ streamEnded' \/ streamAborted'
                       \/ \E d \in 1..Len(clients') : clients'[d].at = "closed"
    <3>1. \A d \in 1..Len(clients) : clients'[d].at = clients[d].at  BY <1>7, <2>3, <2>5
    <3>. QED  BY <1>2, <2>1, <2>5, <3>1 DEF NInv, Delivered
  <2>14. Delivered'  BY <2>11, <2>12, <2>13 DEF Delivered
  <2>15. Readers'
    <3>1. /\ asks' \in Seq(Nat) /\ Len(asks') = Len(asks)
          /\ \A i \in 1..Len(asks') : asks'[i] \in 0..Len(clients)
          /\ \A i, j \in 1..Len(asks') : asks'[i] = asks'[j] /\ asks'[i] # ToReturn => i = j
          /\ \A d \in 1..Len(clients) :
                 (\E i \in 1..Len(asks') : asks'[i] = d)
                     <=> IF d = c THEN TRUE ELSE \E i \in 1..Len(asks) : asks[i] = d
      <4>1. Readers /\ asks # <<>> /\ c = Head(asks) /\ c # ToReturn /\ c \in {c, ToReturn}
            /\ asks' = Append(Tail(asks), c)
        BY <1>1, <1>2, <1>3, <2>1
      <4>2. AskedAfter(asks', c, c)  BY ONLY <4>1, AsksAfter, Zenon
      <4>. QED  BY <1>2, <4>2 DEF AskedAfter
    <3>2. clients[c].reads  BY <1>1, <1>3, <1>7 DEF Readers
    <3>3. ASSUME NEW d \in 1..Len(clients')
          PROVE  /\ clients'[d].reads <=> (\E i \in 1..Len(asks') : asks'[i] = d)
                 /\ clients'[d].at = "open" => clients'[d].reads
                 /\ clients'[d].at = "ended" => streamEnded'
      <4>1. d \in 1..Len(clients)  BY <2>5
      <4>2. CASE d = c  BY <2>3, <2>5, <3>1, <3>2, <4>1, <4>2
      <4>3. CASE d # c  BY <1>2, <1>3, <2>5, <3>1, <4>1, <4>3 DEF Readers
      <4>. QED  BY <4>2, <4>3
    <3>. QED  BY <1>2, <1>4, <2>5, <3>1, <3>3 DEF Readers
  <2>. QED  BY <1>1, <2>14, <2>15 DEF NInv
<1>8. CASE ~streamAborted /\ Passes(n) /\ clients[c].at # "open"
  <2>1. /\ asks' = Append(Tail(asks), ToReturn) /\ lost' = lost \cup {n}
        /\ clients' = [clients EXCEPT ![c].reads = FALSE]
    BY <1>8 DEF Take, LeavesStream
  <2>. DEFINE x == [clients[c] EXCEPT !.reads = FALSE]
  <2>2. x \in Streams /\ x.at = clients[c].at /\ x.reads = FALSE /\ x.sent = clients[c].sent
    BY <1>3 DEF Streams
  <2>3. clients' = [clients EXCEPT ![c] = x]  BY <1>1, <1>3, <2>1
  <2>. HIDE DEF x
  <2>4. /\ clients' \in Seq(Streams) /\ Len(clients') = Len(clients)
        /\ \A d \in 1..Len(clients) : clients'[d] = IF d = c THEN x ELSE clients[d]
    BY <1>1, <1>3, <2>2, <2>3
  <2>5. \A d \in 1..Len(clients) : clients'[d].sent = clients[d].sent /\ clients'[d].at = clients[d].at
    BY <2>2, <2>4
  <2>6. clients[c].at = "closed"  BY <1>1, <1>3, <1>4, <1>8 DEF Readers, Streams
  <2>7. \A d \in 1..Len(clients) : Sent(d)' = Sent(d)  BY <2>5 DEF Sent
  <2>8. ASSUME NEW d \in 1..Len(clients') PROVE SentRight(d)'
    <3>1. d \in 1..Len(clients) /\ SentRight(d)  BY <2>4 DEF NInv, Delivered
    <3>2. Rising(clients[d].sent)'  BY <2>5, <3>1 DEF SentRight, Rising
    <3>3. \A m \in Sent(d)' : m \in heard' /\ Passes(m)' /\ \A q \in ToSet(sourceQueue') : m < q
      BY <1>1, <1>2, <2>7, <3>1 DEF SentRight, Passes
    <3>4. \A e \in 1..Len(clients) : d # e => Sent(d)' \cap Sent(e)' = {}
      BY <2>7, <3>1 DEF SentRight
    <3>. QED  BY <2>4, <3>2, <3>3, <3>4 DEF SentRight
  <2>9. \A m \in heard' : Passes(m)' => \/ \E d \in 1..Len(clients') : m \in Sent(d)'
                                        \/ m \in ToSet(sourceQueue') \cup lost'
    <3>. SUFFICES ASSUME NEW m \in heard, Passes(m)
                  PROVE  (\E d \in 1..Len(clients) : m \in Sent(d)')
                             \/ m \in ToSet(sourceQueue') \cup lost'
      BY <1>2, <2>4 DEF Passes
    <3>1. (\E d \in 1..Len(clients) : m \in Sent(d)) \/ m \in ToSet(sourceQueue) \cup lost
      BY DEF NInv, Delivered
    <3>. QED  BY <1>1, <2>1, <2>7, <3>1
  <2>10. Delivered'
    <3>1. clients'[c].at = "closed" /\ c \in 1..Len(clients')  BY <1>1, <2>4, <2>5, <2>6
    <3>. QED  BY <2>8, <2>9, <3>1 DEF Delivered
  <2>11. Readers'
    <3>1. /\ asks' \in Seq(Nat) /\ Len(asks') = Len(asks)
          /\ \A i \in 1..Len(asks') : asks'[i] \in 0..Len(clients)
          /\ \A i, j \in 1..Len(asks') : asks'[i] = asks'[j] /\ asks'[i] # ToReturn => i = j
          /\ \A d \in 1..Len(clients) :
                 (\E i \in 1..Len(asks') : asks'[i] = d)
                     <=> IF d = c THEN FALSE ELSE \E i \in 1..Len(asks) : asks[i] = d
      <4>1. Readers /\ asks # <<>> /\ c = Head(asks) /\ c # ToReturn /\ ToReturn \in {c, ToReturn}
            /\ asks' = Append(Tail(asks), ToReturn)
        BY <1>1, <1>2, <1>3, <2>1
      <4>2. AskedAfter(asks', c, ToReturn)  BY ONLY <4>1, AsksAfter, Zenon
      <4>. QED  BY <1>2, <4>2 DEF AskedAfter
    <3>2. ASSUME NEW d \in 1..Len(clients')
          PROVE  /\ clients'[d].reads <=> (\E i \in 1..Len(asks') : asks'[i] = d)
                 /\ clients'[d].at = "open" => clients'[d].reads
                 /\ clients'[d].at = "ended" => streamEnded'
      <4>1. d \in 1..Len(clients)  BY <2>4
      <4>2. CASE d = c  BY <2>2, <2>4, <2>6, <3>1, <4>1, <4>2
      <4>3. CASE d # c  BY <1>2, <1>3, <2>4, <3>1, <4>1, <4>3 DEF Readers
      <4>. QED  BY <4>2, <4>3
    <3>. QED  BY <1>2, <1>4, <2>4, <3>1, <3>2 DEF Readers
  <2>. QED  BY <1>1, <2>10, <2>11 DEF NInv
<1>. QED  BY <1>5, <1>6, <1>7, <1>8

LEMMA OpenKeeps == ASSUME NInv, Open PROVE NInv'
<1>. PICK n : n = Len(clients)  OBVIOUS
<1>. DEFINE x == [at |-> IF streamEnded THEN "ended" ELSE "open", reads |-> ~streamEnded, sent |-> <<>>]
<1>1. /\ clients' = Append(clients, x)
      /\ asks' = IF streamEnded THEN asks ELSE Append(asks, n + 1)
      /\ UNCHANGED <<sourceVars, changeVars, streamAborted, streamEnded, sourceFaults>>
  BY DEF Open
<1>2. clients \in Seq(Streams) /\ n \in Nat /\ streamEnded \in BOOLEAN /\ Readers
  <2>1. clients \in Seq(Streams)  BY DEF NInv, Readers
  <2>2. n \in Nat  BY <2>1
  <2>3. streamEnded \in BOOLEAN  BY DEF NInv, Stage
  <2>. QED  BY <2>1, <2>2, <2>3 DEF NInv
<1>3. x \in Streams /\ x.sent = <<>> /\ x.reads = ~streamEnded /\ (x.at = "open" => ~streamEnded)
      /\ (x.at = "ended" => streamEnded) /\ x.at # "closed"
  BY <1>2, EmptyIs DEF Streams
<1>. HIDE DEF x
<1>4. /\ clients' \in Seq(Streams) /\ Len(clients') = n + 1 /\ clients'[n + 1] = x
      /\ \A d \in 1..n : clients'[d] = clients[d]
  BY <1>1, <1>2, <1>3
<1>5. UNCHANGED <<source, gen, taken, sourceConn, hears, attached, notes, unread, sourceQueue, heard, lost>>
  BY <1>1 DEF sourceVars, changeVars
<1>6. Stage'  BY <1>1, <1>5 DEF NInv, Stage
<1>7. Changes'  BY <1>5 DEF NInv, Changes, Rising
<1>8. \A d \in 1..n : Sent(d)' = Sent(d)  BY <1>4 DEF Sent
<1>9. Sent(n + 1)' = {}  BY <1>3, <1>4, EmptyIs DEF Sent
<1>10. \A d \in 1..(n + 1) : d \in 1..n \/ d = n + 1  BY <1>2
<1>11. ASSUME NEW d \in 1..Len(clients') PROVE SentRight(d)'
  <2>1. CASE d \in 1..n
    <3>1. SentRight(d)  BY <2>1 DEF NInv, Delivered
    <3>2. Rising(clients[d].sent)'  BY <1>4, <2>1, <3>1 DEF SentRight, Rising
    <3>3. \A m \in Sent(d)' : m \in heard' /\ Passes(m)' /\ \A q \in ToSet(sourceQueue') : m < q
      BY <1>5, <1>8, <2>1, <3>1 DEF SentRight, Passes
    <3>4. \A e \in 1..(n + 1) : d # e => Sent(d)' \cap Sent(e)' = {}
      BY <1>8, <1>9, <1>10, <2>1, <3>1 DEF SentRight
    <3>. QED  BY <1>4, <3>2, <3>3, <3>4 DEF SentRight
  <2>2. CASE d = n + 1
    <3>1. Rising(clients[d].sent)'  BY <1>3, <1>4, <2>2, EmptyIs DEF Rising
    <3>. QED  BY <1>9, <2>2, <3>1 DEF SentRight
  <2>. QED  BY <1>4, <1>10, <2>1, <2>2
<1>12. \A m \in heard' : Passes(m)' => \/ \E d \in 1..Len(clients') : m \in Sent(d)'
                                       \/ m \in ToSet(sourceQueue') \cup lost'
  <2>. SUFFICES ASSUME NEW m \in heard, Passes(m)
                PROVE  (\E d \in 1..(n + 1) : m \in Sent(d)') \/ m \in ToSet(sourceQueue) \cup lost
    BY <1>4, <1>5 DEF Passes
  <2>1. (\E d \in 1..n : m \in Sent(d)) \/ m \in ToSet(sourceQueue) \cup lost
    BY DEF NInv, Delivered
  <2>2. \A d \in 1..n : d \in 1..(n + 1)  BY <1>2
  <2>. QED  BY <1>8, <2>1, <2>2
<1>13. lost' # {} => \/ streamEnded' \/ streamAborted'
                     \/ \E d \in 1..Len(clients') : clients'[d].at = "closed"
  <2>1. \A d \in 1..n : d \in 1..Len(clients') /\ clients'[d].at = clients[d].at  BY <1>2, <1>4
  <2>. QED  BY <1>1, <1>5, <2>1 DEF NInv, Delivered
<1>14. Delivered'  BY <1>11, <1>12, <1>13 DEF Delivered
<1>15. CASE streamEnded
  <2>1. asks' = asks /\ asks = <<>>  BY <1>1, <1>2, <1>15 DEF Readers
  <2>2. ASSUME NEW d \in 1..Len(clients')
        PROVE  /\ clients'[d].reads <=> (\E i \in 1..Len(asks') : asks'[i] = d)
               /\ clients'[d].at = "open" => clients'[d].reads
               /\ clients'[d].at = "ended" => streamEnded'
    <3>1. CASE d \in 1..n  BY <1>1, <1>2, <1>4, <2>1, <3>1 DEF Readers
    <3>2. CASE d = n + 1  
      <4>1. clients'[d] = x /\ ~x.reads /\ x.at # "open" /\ streamEnded'  BY <1>1, <1>3, <1>4, <1>15, <3>2
      <4>2. ~\E i \in 1..Len(asks') : asks'[i] = d  BY <2>1, EmptyIs
      <4>. QED  BY <4>1, <4>2
    <3>. QED  BY <1>4, <1>10, <3>1, <3>2
  <2>3. Readers'  BY <1>4, <2>1, <2>2 DEF Readers
  <2>. QED  BY <1>6, <1>7, <1>14, <2>3 DEF NInv
<1>16. CASE ~streamEnded
  <2>. PICK k : k = Len(asks)  OBVIOUS
  <2>1. asks' = Append(asks, n + 1) /\ asks \in Seq(Nat) /\ k \in Nat
    BY <1>1, <1>2, <1>16 DEF Readers
  <2>2. /\ asks' \in Seq(Nat) /\ Len(asks') = k + 1 /\ asks'[k + 1] = n + 1
        /\ \A i \in 1..k : asks'[i] = asks[i] /\ asks[i] \in 0..n
        /\ \A i \in 1..(k + 1) : i \in 1..k \/ i = k + 1
    BY <1>2, <2>1 DEF Readers
  <2>3. \A i \in 1..k : asks'[i] # n + 1  BY <1>2, <2>2
  <2>4. \A i \in 1..(k + 1) : asks'[i] \in 0..(n + 1)  BY <1>2, <2>2
  <2>5. \A i, j \in 1..(k + 1) : asks'[i] = asks'[j] /\ asks'[i] # ToReturn => i = j
    BY SMTT(30), <1>2, <2>2, <2>3 DEF Readers
  <2>6. ASSUME NEW d \in 1..Len(clients')
        PROVE  /\ clients'[d].reads <=> (\E i \in 1..(k + 1) : asks'[i] = d)
               /\ clients'[d].at = "open" => clients'[d].reads
               /\ clients'[d].at = "ended" => streamEnded'
    <3>1. CASE d \in 1..n
      <4>1. (\E i \in 1..(k + 1) : asks'[i] = d) <=> (\E i \in 1..k : asks[i] = d)
        <5>1. d # n + 1  BY <1>2, <3>1
        <5>2. \A i \in 1..k : i \in 1..(k + 1)  BY <2>1
        <5>. QED  BY <2>2, <5>1, <5>2
      <4>. QED  BY <1>1, <1>2, <1>4, <3>1, <4>1 DEF Readers
    <3>2. CASE d = n + 1
      <4>1. k + 1 \in 1..(k + 1)  BY <2>1
      <4>. QED  BY <1>3, <1>4, <1>16, <2>2, <3>2, <4>1
    <3>. QED  BY <1>4, <1>10, <3>1, <3>2
  <2>7. Readers'  BY <1>1, <1>4, <1>16, <2>2, <2>4, <2>5, <2>6 DEF Readers
  <2>. QED  BY <1>6, <1>7, <1>14, <2>7 DEF NInv
<1>. QED  BY <1>2, <1>15, <1>16

LEMMA LeavesKeeps ==
    ASSUME NInv, NEW c \in DOMAIN clients, BrowserLeaves(c)
    PROVE  NInv'
<1>. DEFINE x == [clients[c] EXCEPT !.at = "closed"]
<1>1. clients \in Seq(Streams) /\ c \in 1..Len(clients) /\ clients[c] \in Streams /\ Readers
  BY DEF NInv, Readers
<1>2. x \in Streams /\ x.at = "closed" /\ x.reads = clients[c].reads /\ x.sent = clients[c].sent
  BY <1>1 DEF Streams
<1>3. clients' = [clients EXCEPT ![c] = x]  BY DEF BrowserLeaves
<1>4. UNCHANGED <<sourceVars, changeVars, asks, streamAborted, streamEnded, sourceFaults>>
  BY DEF BrowserLeaves
<1>. HIDE DEF x
<1>5. /\ clients' \in Seq(Streams) /\ Len(clients') = Len(clients)
      /\ \A d \in 1..Len(clients) : clients'[d] = IF d = c THEN x ELSE clients[d]
  BY <1>1, <1>2, <1>3
<1>6. \A d \in 1..Len(clients) : /\ clients'[d].sent = clients[d].sent
                                 /\ clients'[d].reads = clients[d].reads
                                 /\ clients'[d].at = IF d = c THEN "closed" ELSE clients[d].at
  BY <1>2, <1>5
<1>7. UNCHANGED <<source, gen, taken, sourceConn, hears, attached, notes, unread, sourceQueue, heard, lost>>
  BY <1>4 DEF sourceVars, changeVars
<1>8. Stage' /\ Changes'  BY <1>4, <1>7 DEF NInv, Stage, Changes, Rising
<1>9. \A d \in 1..Len(clients) : Sent(d)' = Sent(d)  BY <1>6 DEF Sent
<1>10. ASSUME NEW d \in 1..Len(clients') PROVE SentRight(d)'
  <2>1. d \in 1..Len(clients) /\ SentRight(d)  BY <1>5 DEF NInv, Delivered
  <2>2. Rising(clients[d].sent)'  BY <1>6, <2>1 DEF SentRight, Rising
  <2>3. \A m \in Sent(d)' : m \in heard' /\ Passes(m)' /\ \A q \in ToSet(sourceQueue') : m < q
    BY <1>7, <1>9, <2>1 DEF SentRight, Passes
  <2>4. \A e \in 1..Len(clients) : d # e => Sent(d)' \cap Sent(e)' = {}
    BY <1>9, <2>1 DEF SentRight
  <2>. QED  BY <1>5, <2>2, <2>3, <2>4 DEF SentRight
<1>11. Delivered'
  <2>1. \A m \in heard' : Passes(m)' => \/ \E d \in 1..Len(clients') : m \in Sent(d)'
                                        \/ m \in ToSet(sourceQueue') \cup lost'
    BY <1>5, <1>7, <1>9 DEF NInv, Delivered, Passes
  <2>2. clients'[c].at = "closed" /\ c \in 1..Len(clients')  BY <1>1, <1>5, <1>6
  <2>. QED  BY <1>10, <2>1, <2>2 DEF Delivered
<1>12. Readers'
  <2>1. ASSUME NEW d \in 1..Len(clients')
        PROVE  /\ clients'[d].reads <=> (\E i \in 1..Len(asks') : asks'[i] = d)
               /\ clients'[d].at = "open" => clients'[d].reads
               /\ clients'[d].at = "ended" => streamEnded'
    <3>1. /\ d \in 1..Len(clients) /\ clients'[d].reads = clients[d].reads
          /\ clients'[d].at = "closed" \/ clients'[d].at = clients[d].at
      BY <1>5, <1>6
    <3>2. /\ clients[d].reads <=> (\E i \in 1..Len(asks) : asks[i] = d)
          /\ clients[d].at = "open" => clients[d].reads
          /\ clients[d].at = "ended" => streamEnded
      BY <1>1, <3>1 DEF Readers
    <3>. QED  BY <1>4, <3>1, <3>2
  <2>. QED  BY <1>1, <1>4, <1>5, <2>1 DEF Readers
<1>. QED  BY <1>8, <1>11, <1>12 DEF NInv

LEMMA NextNInv == NInv /\ [NotificationsNext]_notificationVars => NInv'
<1>. SUFFICES ASSUME NInv, [NotificationsNext]_notificationVars PROVE NInv'  OBVIOUS
<1>1. CASE UNCHANGED notificationVars
  <2>1. Stage'  BY <1>1 DEF notificationVars, sourceVars, streamVars, NInv, Stage
  <2>. QED  BY <1>1, <2>1, SourceMoves DEF notificationVars, sourceVars
<1>2. ASSUME NEW kind \in {"wanted", "other"}, Notify(kind) PROVE NInv'  BY <1>2, NotifyKeeps
<1>3. CASE Begins  BY <1>3, BeginsKeeps
<1>4. CASE NotConnected \/ ListenFails \/ PollFails \/ CleansUp  BY <1>4, EndingKeeps
<1>5. CASE Connected \/ Listens \/ Attaches \/ PollDone \/ NextPoll \/ Abort \/ CloseSource
  BY <1>5, MovesKeep
<1>6. CASE Polled  BY <1>6, PolledKeeps
<1>7. CASE Take  BY <1>7, TakeKeeps
<1>8. CASE CloseStream
  <2>1. UNCHANGED <<sourceVars, changeVars, asks, streamEnded, clients, sourceFaults>> /\ streamAborted'
    BY <1>8 DEF CloseStream
  <2>2. UNCHANGED <<notes, unread, sourceQueue, heard, lost, gen, source>>
    BY <2>1 DEF changeVars, sourceVars
  <2>3. Stage'  BY <2>1 DEF sourceVars, NInv, Stage
  <2>4. Changes' /\ Readers'  BY <2>1, <2>2 DEF NInv, Changes, Rising, Readers
  <2>5. Delivered'  BY <2>1, <2>2 DEF NInv, Delivered, SentRight, Sent, Passes, Rising
  <2>. QED  BY <2>3, <2>4, <2>5 DEF NInv
<1>9. CASE Open  BY <1>9, OpenKeeps
<1>10. ASSUME NEW c \in DOMAIN clients, BrowserLeaves(c) PROVE NInv'  BY <1>10, LeavesKeeps
<1>. QED  BY <1>1, <1>2, <1>3, <1>4, <1>5, <1>6, <1>7, <1>8, <1>9, <1>10 DEF NotificationsNext

LEMMA NInvHolds == NInv => NotificationsHold
<1>. SUFFICES ASSUME NInv PROVE NotificationsHold  OBVIOUS
<1>1. DOMAIN clients = 1..Len(clients) /\ Readers
  <2>1. clients \in Seq(Streams)  BY DEF NInv, Readers
  <2>2. DOMAIN clients = 1..Len(clients)  BY <2>1
  <2>. QED  BY <2>2 DEF NInv
<1>2. ChangesArriveOnce
  <2>1. \A c \in 1..Len(clients) : clients[c].sent \in Seq(Nat) /\ SentRight(c)
    BY <1>1, SentAre DEF NInv, Delivered
  <2>2. \A c \in 1..Len(clients) :
            /\ \A i, j \in DOMAIN clients[c].sent : i < j => clients[c].sent[i] < clients[c].sent[j]
            /\ Sent(c) \subseteq heard /\ \A n \in Sent(c) : Passes(n)
            /\ \A d \in 1..Len(clients) : c # d => Sent(c) \cap Sent(d) = {}
    <3>. SUFFICES ASSUME NEW c \in 1..Len(clients)
                  PROVE  /\ \A i, j \in DOMAIN clients[c].sent :
                                i < j => clients[c].sent[i] < clients[c].sent[j]
                         /\ Sent(c) \subseteq heard /\ \A n \in Sent(c) : Passes(n)
                         /\ \A d \in 1..Len(clients) : c # d => Sent(c) \cap Sent(d) = {}
      OBVIOUS
    <3>1. DOMAIN clients[c].sent = 1..Len(clients[c].sent) /\ SentRight(c)  BY <2>1
    <3>. QED  BY <3>1 DEF SentRight, Rising
  <2>3. {n \in heard : Passes(n)} \subseteq
            (UNION {Sent(c) : c \in 1..Len(clients)}) \cup ToSet(sourceQueue) \cup lost
    <3>. SUFFICES ASSUME NEW n \in heard, Passes(n)
                  PROVE  n \in (UNION {Sent(c) : c \in 1..Len(clients)}) \cup ToSet(sourceQueue) \cup lost
      OBVIOUS
    <3>1. (\E c \in 1..Len(clients) : n \in Sent(c)) \/ n \in ToSet(sourceQueue) \cup lost
      BY DEF NInv, Delivered
    <3>2. ASSUME NEW c \in 1..Len(clients), n \in Sent(c)
          PROVE  n \in UNION {Sent(d) : d \in 1..Len(clients)}
      BY <3>2
    <3>. QED  BY <3>1, <3>2
  <2>4. lost # {} => streamEnded \/ streamAborted \/ \E c \in 1..Len(clients) : clients[c].at = "closed"
    BY DEF NInv, Delivered
  <2>. QED  BY <1>1, <2>2, <2>3, <2>4 DEF ChangesArriveOnce
<1>3. SourceCleansUp  BY <1>1 DEF NInv, Stage, Readers, SourceCleansUp
<1>4. OpenMeansReading
  <2>. SUFFICES ASSUME NEW c \in 1..Len(clients), clients[c].at = "open"
                PROVE  clients[c].reads /\ Cardinality({i \in DOMAIN asks : asks[i] = c}) = 1
    BY <1>1 DEF OpenMeansReading
  <2>1. clients[c].reads /\ DOMAIN asks = 1..Len(asks)  BY <1>1 DEF Readers
  <2>2. PICK i \in 1..Len(asks) : asks[i] = c  BY <1>1, <2>1 DEF Readers
  <2>3. c # ToReturn  BY DEF ToReturn
  <2>4. \A j \in 1..Len(asks) : asks[j] = c => j = i  BY <1>1, <2>2, <2>3 DEF Readers
  <2>5. {j \in DOMAIN asks : asks[j] = c} = {i}  BY <2>1, <2>2, <2>4
  <2>. QED  BY <2>1, <2>5, FS_Singleton
<1>. QED  BY <1>2, <1>3, <1>4 DEF NotificationsHold

\* For any number of changes, connections and faults, each change that was heard is sent
\* to one connection, in order, or waits, or was lost with a reader, a stream or a source
\* that ended; what has ended has cleaned up; and an open connection is read.
THEOREM ChangesAreSentOnce == NotificationsSpec => []NotificationsHold
<1>1. NotificationsSpec => []NInv  BY InitNInv, NextNInv, PTL DEF NotificationsSpec
<1>. QED  BY <1>1, NInvHolds, PTL

-----------------------------------------------------------------------------
(* Pagination *)

\* A row as it is read, and the columns of an ORDER BY.
Entry == (SortValues \cup {SqlNull}) \X RowIds
Column == [column : {"value", "id"}, ascending : BOOLEAN]

\* The key of an entry in an ORDER BY, and x before y in it.
KeyIn(o, x) == [k \in DOMAIN o |-> IF o[k].column = "id" THEN x[2] ELSE x[1]]
BeforeIn(o, a, b) ==
    \E k \in DOMAIN o :
        /\ \A j \in 1..k - 1 : a[j] = b[j]
        /\ IF o[k].ascending THEN a[k] < b[k] ELSE b[k] < a[k]
Ahead(o, x, y) == BeforeIn(o, KeyIn(o, x), KeyIn(o, y))

\* The order decides between any two rows.
HasId(o) == \E k \in DOMAIN o : o[k].column = "id"

\* No comparison with the entry meets a NULL.
Clean(o, x) == x[1] # SqlNull \/ \A k \in DOMAIN o : o[k].column = "id"

\* The entries of T in the order o.
RowsRise(o, T) == \A j, k \in 1..Len(T) : j < k => Ahead(o, T[j], T[k])

\* Row i, the entries that were read and not touched since, the cursor behind T, and
\* each row with no NULL in its key among T up to the cursor, or all when the walk is done.
RowOf(r, i) == <<r[i], i>>
Current(T, r, others) == \A k \in 1..Len(T) : T[k][2] \notin others => T[k] = RowOf(r, T[k][2])
CursorAt(o, T, c) == c = IF T = <<>> THEN <<>> ELSE KeyIn(o, T[Len(T)])
AllGiven(o, T, r, others, done) ==
    \A i \in RowIds \ others :
        /\ r[i] # NoRow /\ Clean(o, RowOf(r, i))
        /\ done \/ (T # <<>> /\ ~Ahead(o, T[Len(T)], RowOf(r, i)))
        => \E k \in 1..Len(T) : T[k] = RowOf(r, i)

\* s lists M in the order o.
Lists(s, M) ==
    /\ s \in Seq(RowIds) /\ \A k \in 1..Len(s) : s[k] \in M
    /\ \A i \in M : \E k \in 1..Len(s) : s[k] = i
    /\ \A j, k \in 1..Len(s) : j # k => s[j] # s[k]
Ordered(o, s, r) == \A j, k \in 1..Len(s) : j < k => Ahead(o, RowOf(r, s[j]), RowOf(r, s[k]))

Rows == [RowIds -> SortValues \cup {NoRow, SqlNull}]

PagesSpec == PagesInit /\ [][PagesNext]_pageVars

ReadAs(r, s) == [k \in DOMAIN s |-> RowOf(r, s[k])]

\* What the client was given, in the order it walks.
Given == IF pageSetting.backward THEN Reverse(seen) ELSE seen

Walks == [at : {"ready", "counted", "done"}, cursor : Seq(Nat), page : 0..MaxPages, total : Nat]

WalkTypeOK ==
    /\ PagesTypeOK
    /\ walk \in Walks
    /\ walk.at = "counted" => pageSetting.strategy = "offset" /\ walk.page < MaxPages

NullsKnown ==
    ~nulls => /\ \A i \in RowIds : rows[i] # SqlNull
              /\ \A k \in 1..Len(Given) : Given[k][1] # SqlNull

\* A walk by cursors whose order is that of its conditions.
Orderly ==
    /\ pageSetting.strategy # "offset"
    /\ \/ ~ComparesNull
       \/ pageSetting.strategy = "relay" /\ OrderBy[1].column # "id" /\ OrderBy[1].ascending

CursorWalk ==
    /\ RowsRise(OrderBy, Given) /\ Current(Given, rows, touched)
    /\ walk.at # "done" => CursorAt(OrderBy, Given, walk.cursor)
    /\ AllGiven(OrderBy, Given, rows, touched, walk.at = "done")

\* A walk by offsets that nobody disturbs.
Undisturbed ==
    /\ pageSetting.strategy = "offset" /\ touched = {} /\ SortsById
    /\ pageSetting.size <= pageSetting.maxSize

OffsetWalk ==
    /\ walk.at = "counted" => walk.total = Cardinality(Present)
    /\ walk.page = 0 => seen = <<>> /\ walk.at # "done"
    /\ walk.page > 0 =>
           \E s \in Seq(RowIds) :
               /\ Lists(s, Present) /\ Len(s) = Cardinality(Present) /\ Ordered(OrderBy, s, rows)
               /\ seen = ReadAs(rows, Cut(s, 1, walk.page * pageSetting.size))
               /\ walk.at = "done" => seen = ReadAs(rows, s)

PInv == /\ WalkTypeOK /\ NullsKnown
        /\ Orderly => CursorWalk
        /\ Undisturbed => OffsetWalk

-----------------------------------------------------------------------------
(* The order *)

LEMMA Least ==
    ASSUME NEW S \in SUBSET Nat, S # {}
    PROVE  \E x \in S : \A y \in S : x <= y
<1>. DEFINE R == {ss \in Nat \X Nat : ss[1] < ss[2]}
<1>1. IsWellFoundedOn(R, Nat)  BY NatLessThanWellFounded DEF OpToRel
<1>. HIDE DEF R
<1>2. \E x \in S : \A y \in S : ~(<<y, x>> \in R)  BY <1>1, WFMin
<1>3. PICK x \in S : \A y \in S : ~(<<y, x>> \in R)  BY <1>2
<1>4. \A y \in S : x <= y
  <2>. TAKE y \in S
  <2>1. ~(<<y, x>> \in R) /\ x \in Nat /\ y \in Nat  BY <1>3
  <2>. QED  BY <2>1 DEF R
<1>. QED  BY <1>4

LEMMA EntryIs ==
    ASSUME NEW x \in Entry
    PROVE  /\ x[1] \in Nat \ {0} /\ x[2] \in Nat \ {0} /\ x[2] \in RowIds
           /\ x[1] \in SortValues \cup {SqlNull}
           /\ x = <<x[1], x[2]>>
           /\ x[1] <= SqlNull /\ x[2] # SqlNull
<1>1. PICK v \in SortValues \cup {SqlNull}, i \in RowIds : x = <<v, i>>  BY DEF Entry
<1>2. x[1] = v /\ x[2] = i  BY <1>1
<1>3. v \in Nat \ {0} /\ v <= SqlNull  BY PaginationAssumption
<1>4. i \in Nat \ {0} /\ i # SqlNull  BY PaginationAssumption
<1>. QED  BY <1>1, <1>2, <1>3, <1>4

LEMMA KeyIs ==
    ASSUME NEW o \in Seq(Column), NEW x \in Entry
    PROVE  /\ KeyIn(o, x) \in Seq(Nat) /\ Len(KeyIn(o, x)) = Len(o)
           /\ KeyIn(o, x) \in [1..Len(o) -> Nat]
           /\ \A k \in 1..Len(o) :
                 KeyIn(o, x)[k] = IF o[k].column = "id" THEN x[2] ELSE x[1]
BY EntryIs DEF KeyIn

LEMMA AheadNotItself ==
    ASSUME NEW o \in Seq(Column), NEW x \in Entry
    PROVE  ~Ahead(o, x, x)
<1>. DEFINE a == KeyIn(o, x)
<1>1. a \in [1..Len(o) -> Nat]  BY KeyIs
<1>. HIDE DEF a
<1>2. ~BeforeIn(o, a, a)  BY <1>1 DEF BeforeIn
<1>. QED  BY <1>2 DEF Ahead, a

LEMMA AheadTransitive ==
    ASSUME NEW o \in Seq(Column), NEW x \in Entry, NEW y \in Entry, NEW z \in Entry,
           Ahead(o, x, y), Ahead(o, y, z)
    PROVE  Ahead(o, x, z)
<1>. DEFINE a == KeyIn(o, x)
            b == KeyIn(o, y)
            c == KeyIn(o, z)
<1>1. a \in [1..Len(o) -> Nat] /\ b \in [1..Len(o) -> Nat] /\ c \in [1..Len(o) -> Nat]  BY KeyIs
<1>2. BeforeIn(o, a, b) /\ BeforeIn(o, b, c)  BY DEF Ahead
<1>. HIDE DEF a, b, c
<1>3. PICK k \in 1..Len(o) : /\ \A j \in 1..k - 1 : a[j] = b[j]
                             /\ IF o[k].ascending THEN a[k] < b[k] ELSE b[k] < a[k]
  BY <1>2 DEF BeforeIn
<1>4. PICK l \in 1..Len(o) : /\ \A j \in 1..l - 1 : b[j] = c[j]
                             /\ IF o[l].ascending THEN b[l] < c[l] ELSE c[l] < b[l]
  BY <1>2 DEF BeforeIn
<1>5. CASE k < l
  <2>1. \A j \in 1..k - 1 : a[j] = c[j]  BY <1>3, <1>4, <1>5
  <2>2. b[k] = c[k]  BY <1>4, <1>5
  <2>. QED  BY <2>1, <2>2, <1>3 DEF BeforeIn, Ahead, a, c
<1>6. CASE l < k
  <2>1. \A j \in 1..l - 1 : a[j] = c[j]  BY <1>3, <1>4, <1>6
  <2>2. a[l] = b[l]  BY <1>3, <1>6
  <2>. QED  BY <2>1, <2>2, <1>4 DEF BeforeIn, Ahead, a, c
<1>7. CASE k = l
  <2>1. \A j \in 1..k - 1 : a[j] = c[j]  BY <1>3, <1>4, <1>7
  <2>2. IF o[k].ascending THEN a[k] < c[k] ELSE c[k] < a[k]  BY <1>1, <1>3, <1>4, <1>7
  <2>3. BeforeIn(o, a, c)  BY <2>1, <2>2 DEF BeforeIn
  <2>. QED  BY <2>3 DEF Ahead, a, c
<1>. QED  BY <1>5, <1>6, <1>7

LEMMA AheadTotal ==
    ASSUME NEW o \in Seq(Column), HasId(o), NEW x \in Entry, NEW y \in Entry, x[2] # y[2]
    PROVE  Ahead(o, x, y) \/ Ahead(o, y, x)
<1>. DEFINE a == KeyIn(o, x)
            b == KeyIn(o, y)
            D == {k \in 1..Len(o) : a[k] # b[k]}
<1>1. a \in [1..Len(o) -> Nat] /\ b \in [1..Len(o) -> Nat]  BY KeyIs
<1>2. PICK i \in 1..Len(o) : o[i].column = "id"  BY DEF HasId
<1>3. a[i] = x[2] /\ b[i] = y[2]  BY <1>2, KeyIs
<1>4. i \in D  BY <1>3
<1>5. D \in SUBSET Nat  OBVIOUS
<1>. HIDE DEF a, b, D
<1>6. PICK k \in D : \A j \in D : k <= j  BY <1>4, <1>5, Least
<1>7. k \in 1..Len(o) /\ a[k] # b[k]  BY DEF D
<1>8. \A j \in 1..k - 1 : a[j] = b[j]
  <2>. TAKE j \in 1..k - 1
  <2>1. j \in 1..Len(o) /\ j < k  BY <1>7
  <2>2. j \notin D  BY <2>1, <1>6, <1>7
  <2>. QED  BY <2>1, <2>2 DEF D
<1>9. a[k] < b[k] \/ b[k] < a[k]  BY <1>1, <1>7
<1>10. BeforeIn(o, a, b) \/ BeforeIn(o, b, a)
  <2>1. CASE o[k].ascending /\ a[k] < b[k]  BY <2>1, <1>7, <1>8 DEF BeforeIn
  <2>2. CASE o[k].ascending /\ b[k] < a[k]  BY <2>2, <1>7, <1>8 DEF BeforeIn
  <2>3. CASE ~o[k].ascending /\ a[k] < b[k]  BY <2>3, <1>7, <1>8 DEF BeforeIn
  <2>4. CASE ~o[k].ascending /\ b[k] < a[k]  BY <2>4, <1>7, <1>8 DEF BeforeIn
  <2>. QED  BY <2>1, <2>2, <2>3, <2>4, <1>9
<1>. QED  BY <1>10 DEF Ahead, a, b

-----------------------------------------------------------------------------
(* NULLs and the conditions of a cursor *)

LEMMA CleanKey ==
    ASSUME NEW o \in Seq(Column), NEW x \in Entry, Clean(o, x)
    PROVE  \A k \in 1..Len(o) : KeyIn(o, x)[k] # SqlNull
<1>. TAKE k \in 1..Len(o)
<1>1. KeyIn(o, x)[k] = IF o[k].column = "id" THEN x[2] ELSE x[1]  BY KeyIs
<1>2. x[2] # SqlNull  BY EntryIs
<1>. QED  BY <1>1, <1>2 DEF Clean

LEMMA RelayBehindIs ==
    ASSUME NEW o \in Seq(Column), OrderBy = o, NEW c \in Entry, NEW x \in Entry
    PROVE  /\ RelayBehind(KeyIn(o, x), KeyIn(o, c)) => Ahead(o, c, x)
           /\ Ahead(o, c, x) /\ Clean(o, c) /\ Clean(o, x)
              => RelayBehind(KeyIn(o, x), KeyIn(o, c))
<1>. DEFINE a == KeyIn(o, x)
            b == KeyIn(o, c)
<1>1. a \in [1..Len(o) -> Nat] /\ b \in [1..Len(o) -> Nat]  BY KeyIs
<1>2. ASSUME Clean(o, c), Clean(o, x)
      PROVE  \A k \in 1..Len(o) : a[k] # SqlNull /\ b[k] # SqlNull
  BY <1>2, CleanKey
<1>. HIDE DEF a, b
<1>3. DOMAIN o = 1..Len(o)  OBVIOUS
<1>4. ASSUME RelayBehind(a, b)  PROVE BeforeIn(o, b, a)
  <2>1. PICK k \in 1..Len(o) : (\A j \in 1..k - 1 : SqlEqual(a[j], b[j])) /\ SqlPast(k, a[k], b[k])
    BY <1>3, <1>4 DEF RelayBehind
  <2>2. \A j \in 1..k - 1 : b[j] = a[j]  BY <2>1 DEF SqlEqual
  <2>3. IF o[k].ascending THEN b[k] < a[k] ELSE a[k] < b[k]  BY <1>1, <2>1 DEF SqlPast
  <2>. QED  BY <1>3, <2>2, <2>3 DEF BeforeIn
<1>5. ASSUME BeforeIn(o, b, a), Clean(o, c), Clean(o, x)  PROVE RelayBehind(a, b)
  <2>1. PICK k \in 1..Len(o) : /\ \A j \in 1..k - 1 : b[j] = a[j]
                               /\ IF o[k].ascending THEN b[k] < a[k] ELSE a[k] < b[k]
    BY <1>3, <1>5 DEF BeforeIn
  <2>2. \A j \in 1..k - 1 : SqlEqual(a[j], b[j])
    <3>. TAKE j \in 1..k - 1
    <3>1. j \in 1..Len(o)  OBVIOUS
    <3>2. a[j] # SqlNull /\ b[j] # SqlNull  BY <3>1, <1>2, <1>5
    <3>. QED  BY <2>1, <3>2 DEF SqlEqual
  <2>3. SqlPast(k, a[k], b[k])
    <3>1. a[k] # SqlNull /\ b[k] # SqlNull  BY <1>2, <1>5
    <3>. QED  BY <1>1, <2>1, <3>1 DEF SqlPast
  <2>. QED  BY <1>3, <2>2, <2>3 DEF RelayBehind
<1>. QED  BY <1>4, <1>5 DEF Ahead, a, b

LEMMA KeysetBehindIs ==
    ASSUME NEW o \in Seq(Column), OrderBy = o, Len(o) \in {1, 2}, NEW c \in Entry, NEW x \in Entry
    PROVE  /\ KeysetBehind(KeyIn(o, x), KeyIn(o, c)) => Ahead(o, c, x)
           /\ Ahead(o, c, x) /\ Clean(o, c) /\ Clean(o, x)
              => KeysetBehind(KeyIn(o, x), KeyIn(o, c))
<1>. DEFINE a == KeyIn(o, x)
            b == KeyIn(o, c)
<1>1. a \in [1..Len(o) -> Nat] /\ b \in [1..Len(o) -> Nat] /\ Len(a) = Len(o)  BY KeyIs
<1>2. ASSUME Clean(o, c), Clean(o, x)
      PROVE  \A k \in 1..Len(o) : a[k] # SqlNull /\ b[k] # SqlNull
  BY <1>2, CleanKey
<1>. HIDE DEF a, b
<1>3. DOMAIN o = 1..Len(o) /\ 1 \in 1..Len(o) /\ (Len(o) = 2 => 2 \in 1..Len(o))  OBVIOUS
<1>4. ASSUME KeysetBehind(a, b)  PROVE BeforeIn(o, b, a)
  <2>1. CASE SqlPast(1, a[1], b[1])
    <3>1. IF o[1].ascending THEN b[1] < a[1] ELSE a[1] < b[1]  BY <1>1, <1>3, <2>1 DEF SqlPast
    <3>. QED  BY <1>3, <3>1 DEF BeforeIn
  <2>2. CASE Len(a) = 2 /\ SqlEqual(a[1], b[1]) /\ SqlPast(2, a[2], b[2])
    <3>1. IF o[2].ascending THEN b[2] < a[2] ELSE a[2] < b[2]  BY <1>1, <1>3, <2>2 DEF SqlPast
    <3>2. \A j \in 1..2 - 1 : b[j] = a[j]  BY <2>2 DEF SqlEqual
    <3>3. 2 \in DOMAIN o  BY <1>1, <1>3, <2>2
    <3>. QED  BY <3>1, <3>2, <3>3 DEF BeforeIn
  <2>. QED  BY <1>4, <2>1, <2>2 DEF KeysetBehind
<1>5. ASSUME BeforeIn(o, b, a), Clean(o, c), Clean(o, x)  PROVE KeysetBehind(a, b)
  <2>1. PICK k \in 1..Len(o) : /\ \A j \in 1..k - 1 : b[j] = a[j]
                               /\ IF o[k].ascending THEN b[k] < a[k] ELSE a[k] < b[k]
    BY <1>3, <1>5 DEF BeforeIn
  <2>2. a[k] # SqlNull /\ b[k] # SqlNull /\ a[1] # SqlNull /\ b[1] # SqlNull  BY <1>2, <1>3, <1>5
  <2>3. SqlPast(k, a[k], b[k])  BY <1>1, <2>1, <2>2 DEF SqlPast
  <2>4. k = 1 \/ (k = 2 /\ Len(a) = 2)  BY <1>1
  <2>5. CASE k = 1  BY <2>3, <2>5 DEF KeysetBehind
  <2>6. CASE k = 2 /\ Len(a) = 2
    <3>1. SqlEqual(a[1], b[1])  BY <2>1, <2>2, <2>6 DEF SqlEqual
    <3>. QED  BY <3>1, <2>3, <2>6 DEF KeysetBehind
  <2>. QED  BY <2>4, <2>5, <2>6
<1>. QED  BY <1>4, <1>5 DEF Ahead, a, b

\* Ascending, a row with a value is before one without.
LEMMA NullsAreLast ==
    ASSUME NEW o \in Seq(Column), o # <<>>, o[1].column # "id", o[1].ascending,
           NEW c \in Entry, NEW x \in Entry, ~Clean(o, c), Clean(o, x)
    PROVE  ~Ahead(o, c, x)
<1>1. 1 \in 1..Len(o)  OBVIOUS
<1>2. c[1] = SqlNull /\ x[1] # SqlNull  BY <1>1 DEF Clean
<1>. DEFINE a == KeyIn(o, c)
            b == KeyIn(o, x)
<1>3. a[1] = SqlNull /\ b[1] = x[1]  BY <1>1, <1>2, KeyIs
<1>4. x[1] < SqlNull /\ x[1] \in Nat /\ SqlNull \in Nat  BY <1>2, EntryIs, PaginationAssumption
<1>. HIDE DEF a, b
<1>5. ~BeforeIn(o, a, b)
  <2>1. SUFFICES ASSUME NEW k \in 1..Len(o), \A j \in 1..k - 1 : a[j] = b[j],
                        IF o[k].ascending THEN a[k] < b[k] ELSE b[k] < a[k]
                 PROVE  FALSE
    BY DEF BeforeIn
  <2>2. CASE k = 1  BY <2>1, <2>2, <1>3, <1>4
  <2>3. CASE k # 1
    <3>1. 1 \in 1..k - 1  BY <2>3
    <3>. QED  BY <3>1, <2>1, <1>3, <1>4
  <2>. QED  BY <2>2, <2>3
<1>. QED  BY <1>5 DEF Ahead, a, b

-----------------------------------------------------------------------------
(* A page behind the cursor *)

LEMMA JoinIs ==
    ASSUME NEW T \in Seq(Entry), NEW P \in Seq(Entry)
    PROVE  /\ T \o P \in Seq(Entry) /\ Len(T \o P) = Len(T) + Len(P)
           /\ Len(T) \in Nat /\ Len(P) \in Nat
           /\ \A k \in 1..Len(T) : (T \o P)[k] = T[k] /\ T[k] \in Entry
           /\ \A k \in 1..Len(T \o P) :
                 k > Len(T) => /\ k - Len(T) \in 1..Len(P) /\ (T \o P)[k] = P[k - Len(T)]
                               /\ P[k - Len(T)] \in Entry
OBVIOUS

LEMMA JoinRises ==
    ASSUME NEW o \in Seq(Column), NEW T \in Seq(Entry), NEW P \in Seq(Entry),
           RowsRise(o, T), RowsRise(o, P),
           T # <<>> => \A k \in 1..Len(P) : Ahead(o, T[Len(T)], P[k])
    PROVE  RowsRise(o, T \o P)
<1>. DEFINE Q == T \o P
            m == Len(T)
<1>1. /\ Q \in Seq(Entry) /\ Len(Q) = m + Len(P) /\ m \in Nat /\ Len(P) \in Nat
      /\ \A k \in 1..m : Q[k] = T[k] /\ T[k] \in Entry
      /\ \A k \in 1..Len(Q) : k > m => k - m \in 1..Len(P) /\ Q[k] = P[k - m] /\ P[k - m] \in Entry
  BY JoinIs
<1>. HIDE DEF Q
<1>2. SUFFICES ASSUME NEW j \in 1..Len(Q), NEW k \in 1..Len(Q), j < k  PROVE Ahead(o, Q[j], Q[k])
  BY DEF RowsRise, Q
<1>3. CASE k <= m
  <2>1. j \in 1..m /\ k \in 1..m  BY <1>1, <1>2, <1>3
  <2>2. Ahead(o, T[j], T[k])  BY <2>1, <1>2 DEF RowsRise
  <2>. QED  BY <1>1, <2>1, <2>2
<1>4. CASE j > m
  <2>1. j - m \in 1..Len(P) /\ k - m \in 1..Len(P) /\ j - m < k - m  BY <1>1, <1>2, <1>4
  <2>2. Ahead(o, P[j - m], P[k - m])  BY <2>1 DEF RowsRise
  <2>3. Q[j] = P[j - m] /\ Q[k] = P[k - m]  BY <1>1, <1>2, <1>4
  <2>. QED  BY <2>2, <2>3
<1>5. CASE j <= m /\ k > m
  <2>1. j \in 1..m /\ m \in 1..m /\ T # <<>>  BY <1>1, <1>5
  <2>2. k - m \in 1..Len(P) /\ Q[k] = P[k - m] /\ P[k - m] \in Entry  BY <1>1, <1>5
  <2>3. Ahead(o, T[m], P[k - m])  BY <2>1, <2>2
  <2>4. CASE j = m  BY <1>1, <2>1, <2>2, <2>3, <2>4
  <2>5. CASE j < m
    <3>1. Ahead(o, T[j], T[m])  BY <2>1, <2>5 DEF RowsRise
    <3>2. T[j] \in Entry /\ T[m] \in Entry  BY <1>1, <2>1
    <3>3. Ahead(o, T[j], P[k - m])  BY <3>1, <3>2, <2>2, <2>3, AheadTransitive
    <3>. QED  BY <1>1, <2>1, <2>2, <3>3
  <2>. QED  BY <1>1, <2>1, <2>4, <2>5
<1>. QED  BY <1>1, <1>3, <1>4, <1>5

LEMMA RowIsEntry ==
    ASSUME NEW r \in Rows, NEW i \in RowIds, r[i] # NoRow
    PROVE  RowOf(r, i) \in Entry /\ RowOf(r, i)[1] = r[i] /\ RowOf(r, i)[2] = i
BY DEF Rows, RowOf, Entry

\* The first n rows of a list of what is behind T keep all that is known of T.
LEMMA PageKeeps ==
    ASSUME NEW o \in Seq(Column), NEW r \in Rows, NEW others \in SUBSET RowIds,
           NEW T \in Seq(Entry), NEW M \in SUBSET {i \in RowIds : r[i] # NoRow},
           NEW s, Lists(s, M), Ordered(o, s, r), NEW n \in Nat \ {0},
           NEW P, P \in Seq(Entry), Len(P) = (IF n <= Len(s) THEN n ELSE Len(s)),
           \A k \in 1..Len(P) : P[k] = RowOf(r, s[k]),
           RowsRise(o, T), Current(T, r, others), AllGiven(o, T, r, others, FALSE),
           \A i \in M : T # <<>> => Ahead(o, T[Len(T)], RowOf(r, i)),
           \A i \in RowIds : /\ r[i] # NoRow /\ Clean(o, RowOf(r, i))
                             /\ T # <<>> => Ahead(o, T[Len(T)], RowOf(r, i))
                             => i \in M
    PROVE  /\ T \o P \in Seq(Entry) /\ RowsRise(o, T \o P)
           /\ Current(T \o P, r, others)
           /\ AllGiven(o, T \o P, r, others, Len(s) <= n)
           /\ Len(s) > n => CursorAt(o, T \o P, KeyIn(o, P[Len(P)]))
<1>. DEFINE Q == T \o P
            m == Len(T)
            l == Len(P)
<1>1. /\ Q \in Seq(Entry) /\ Len(Q) = m + l /\ m \in Nat /\ l \in Nat
      /\ \A k \in 1..m : Q[k] = T[k] /\ T[k] \in Entry
      /\ \A k \in 1..Len(Q) : k > m => k - m \in 1..l /\ Q[k] = P[k - m] /\ P[k - m] \in Entry
  BY ONLY T \in Seq(Entry), P \in Seq(Entry), JoinIs
<1>10. \A k \in 1..l : m + k \in 1..Len(Q) /\ Q[m + k] = P[k]
  <2>. TAKE k \in 1..l
  <2>. HIDE DEF Q
  <2>1. m + k \in 1..Len(Q) /\ m + k > m /\ (m + k) - m = k  BY <1>1
  <2>. QED  BY <1>1, <2>1
<1>2. /\ Len(s) \in Nat /\ l = IF n <= Len(s) THEN n ELSE Len(s)
      /\ \A k \in 1..l : k \in 1..Len(s) /\ P[k] = RowOf(r, s[k])
      /\ \A k \in 1..Len(s) : s[k] \in M /\ s[k] \in RowIds /\ r[s[k]] # NoRow
  <2>1. Len(s) \in Nat /\ l = IF n <= Len(s) THEN n ELSE Len(s)  BY DEF Lists
  <2>2. \A k \in 1..l : k \in 1..Len(s)  BY <2>1
  <2>3. \A k \in 1..Len(s) : s[k] \in M /\ s[k] \in RowIds /\ r[s[k]] # NoRow  BY DEF Lists
  <2>. QED  BY <2>1, <2>2, <2>3
<1>. HIDE DEF Q
<1>3. RowsRise(o, Q)
  <2>1. RowsRise(o, P)
    <3>. SUFFICES ASSUME NEW j \in 1..l, NEW k \in 1..l, j < k  PROVE Ahead(o, P[j], P[k])
      BY DEF RowsRise
    <3>1. Ahead(o, RowOf(r, s[j]), RowOf(r, s[k]))  BY <1>2 DEF Ordered
    <3>. QED  BY <1>2, <3>1
  <2>2. T # <<>> => \A k \in 1..l : Ahead(o, T[m], P[k])  BY <1>2
  <2>. QED  BY <2>1, <2>2, JoinRises DEF Q
<1>4. Current(Q, r, others)
  <2>. SUFFICES ASSUME NEW k \in 1..Len(Q), Q[k][2] \notin others  PROVE Q[k] = RowOf(r, Q[k][2])
    BY DEF Current
  <2>1. CASE k <= m
    <3>1. k \in 1..m /\ Q[k] = T[k]  BY <1>1, <2>1
    <3>. QED  BY <3>1 DEF Current
  <2>2. CASE k > m
    <3>1. k - m \in 1..l /\ Q[k] = P[k - m]  BY <1>1, <2>2
    <3>2. Q[k] = RowOf(r, s[k - m])  BY <1>2, <3>1
    <3>. QED  BY <3>2 DEF RowOf
  <2>. QED  BY <1>1, <2>1, <2>2
<1>5. ASSUME Len(s) > n
      PROVE  l = n /\ l \in 1..l /\ l \in 1..Len(s) /\ Q # <<>> /\ Q[Len(Q)] = P[l]
  <2>1. l = n /\ l \in 1..l  BY <1>2, <1>5
  <2>2. m + l \in 1..Len(Q) /\ Q[m + l] = P[l]  BY <1>10, <2>1
  <2>. QED  BY <1>1, <1>2, <2>1, <2>2
<1>6. AllGiven(o, Q, r, others, Len(s) <= n)
  <2>. SUFFICES ASSUME NEW i \in RowIds \ others, r[i] # NoRow, Clean(o, RowOf(r, i)),
                       Len(s) <= n \/ (Q # <<>> /\ ~Ahead(o, Q[Len(Q)], RowOf(r, i)))
                PROVE  \E k \in 1..Len(Q) : Q[k] = RowOf(r, i)
    BY DEF AllGiven
  <2>1. CASE T # <<>> /\ ~Ahead(o, T[m], RowOf(r, i))
    <3>1. PICK k \in 1..m : T[k] = RowOf(r, i)  BY <2>1 DEF AllGiven
    <3>2. Q[k] = T[k] /\ k \in 1..Len(Q)  BY <1>1
    <3>. QED  BY <3>1, <3>2
  <2>2. CASE T # <<>> => Ahead(o, T[m], RowOf(r, i))
    <3>1. i \in M  BY <2>2
    <3>2. PICK k \in 1..Len(s) : s[k] = i  BY <3>1 DEF Lists
    <3>3. CASE k <= l
      <4>1. k \in 1..l /\ P[k] = RowOf(r, i)  BY <1>1, <1>2, <3>2, <3>3
      <4>. QED  BY <1>10, <4>1
    <3>4. CASE k > l
      <4>1. Len(s) > n  BY <1>2, <3>4
      <4>2. Q[Len(Q)] = RowOf(r, s[l]) /\ l \in 1..Len(s)  BY <1>2, <1>5, <4>1
      <4>3. Ahead(o, RowOf(r, s[l]), RowOf(r, s[k]))  BY <3>4, <4>2 DEF Ordered
      <4>. QED  BY <1>2, <3>2, <4>1, <4>2, <4>3
    <3>. QED  BY <1>1, <3>3, <3>4
  <2>. QED  BY <2>1, <2>2
<1>7. Len(s) > n => CursorAt(o, Q, KeyIn(o, P[l]))  BY <1>5 DEF CursorAt
<1>. QED  BY <1>1, <1>3, <1>4, <1>6, <1>7 DEF Q

-----------------------------------------------------------------------------
(* Answers and pages *)

LEMMA CutIs ==
    ASSUME NEW S, NEW s \in Seq(S), NEW n \in Nat \ {0}
    PROVE  /\ Cut(s, 1, n) \in Seq(S) /\ Len(Cut(s, 1, n)) = (IF n <= Len(s) THEN n ELSE Len(s))
           /\ \A k \in 1..Len(Cut(s, 1, n)) : Cut(s, 1, n)[k] = s[k]
<1>. DEFINE e == IF n <= Len(s) THEN n ELSE Len(s)
<1>1. e \in Nat /\ e <= Len(s) /\ Len(s) \in Nat  OBVIOUS
<1>2. Cut(s, 1, n) = SubSeq(s, 1, e)  BY DEF Cut
<1>3. \A i \in 1..e : s[i] \in S  BY <1>1
<1>. HIDE DEF e
<1>4. /\ SubSeq(s, 1, e) \in Seq(S) /\ Len(SubSeq(s, 1, e)) = e
      /\ \A i \in 1..e : SubSeq(s, 1, e)[i] = s[i]
  BY <1>1, <1>3
<1>. QED  BY <1>2, <1>4 DEF e

LEMMA CutTwice ==
    ASSUME NEW S, NEW s \in Seq(S), NEW n \in Nat \ {0}
    PROVE  /\ Cut(Cut(s, 1, n + 1), 1, n) = Cut(s, 1, n)
           /\ Len(Cut(s, 1, n + 1)) > n <=> Len(s) > n
<1>. DEFINE a == Cut(s, 1, n + 1)
            b == Cut(a, 1, n)
            c == Cut(s, 1, n)
<1>1. /\ a \in Seq(S) /\ Len(a) = (IF n + 1 <= Len(s) THEN n + 1 ELSE Len(s))
      /\ \A k \in 1..Len(a) : a[k] = s[k]
  BY CutIs
<1>2. /\ c \in Seq(S) /\ Len(c) = (IF n <= Len(s) THEN n ELSE Len(s))
      /\ \A k \in 1..Len(c) : c[k] = s[k]
  BY CutIs
<1>. HIDE DEF a
<1>3. /\ b \in Seq(S) /\ Len(b) = (IF n <= Len(a) THEN n ELSE Len(a))
      /\ \A k \in 1..Len(b) : b[k] = a[k]
  BY <1>1, CutIs
<1>. HIDE DEF b, c
<1>4. Len(s) \in Nat  OBVIOUS
<1>5. Len(b) = Len(c) /\ \A k \in 1..Len(b) : b[k] = c[k]  BY <1>1, <1>2, <1>3, <1>4
<1>6. b = c  BY <1>2, <1>3, <1>5, SeqEqual
<1>. QED  BY <1>1, <1>4, <1>6 DEF a, b, c

LEMMA AnswersAre ==
    ASSUME NEW s \in Answers
    PROVE  Lists(s, Matching) /\ Len(s) = Cardinality(Matching)
<1>. DEFINE M == Matching
<1>1. M \subseteq RowIds  BY DEF Matching, Present
<1>2. IsFiniteSet(M)  BY <1>1, FS_Subset, PaginationAssumption
<1>3. Cardinality(M) \in Nat  BY <1>2, FS_CardinalityType
<1>4. s \in SetToAllKPermutations(M) /\ Len(s) = Cardinality(M)  BY DEF Answers
<1>. HIDE DEF M
<1>5. PICK N \in SUBSET M : s \in SetToSeqs(N)  BY <1>4 DEF SetToAllKPermutations
<1>6. IsFiniteSet(N)  BY <1>2, FS_Subset
<1>7. PICK n \in Nat : n = Cardinality(N)  BY <1>6, FS_CardinalityType
<1>8. s \in [1..n -> N] /\ \A i, j \in 1..n : i # j => s[i] # s[j]  BY <1>5, <1>7 DEF SetToSeqs
<1>9. s \in Seq(N) /\ Len(s) = n  BY <1>8
<1>10. N = M  BY <1>2, <1>4, <1>7, <1>9, FS_Subset
<1>11. IsFiniteSet(1..n) /\ Cardinality(1..n) = n  BY FS_Interval
<1>12. s \in Injection(1..n, N)  BY <1>8 DEF Injection, IsInjective
<1>13. s \in Surjection(1..n, N)  BY <1>6, <1>7, <1>11, <1>12, FS_Injection
<1>14. \A i \in N : \E k \in 1..n : s[k] = i  BY <1>13 DEF Surjection
<1>15. s \in Seq(RowIds)  BY <1>1, <1>8, <1>10
<1>16. \A k \in 1..n : s[k] \in N  BY <1>8
<1>. QED  BY <1>4, <1>8, <1>9, <1>10, <1>14, <1>15, <1>16 DEF Lists, M

LEMMA ReverseIs ==
    ASSUME NEW S, NEW q \in Seq(S)
    PROVE  /\ Reverse(q) \in Seq(S) /\ Len(Reverse(q)) = Len(q) /\ Len(q) \in Nat
           /\ \A k \in 1..Len(q) : Reverse(q)[k] = q[(Len(q) - k) + 1] /\ (Len(q) - k) + 1 \in 1..Len(q)
<1>1. Len(q) \in Nat /\ \A k \in 1..Len(q) : q[k] \in S  OBVIOUS
<1>2. \A k \in 1..Len(q) : (Len(q) - k) + 1 \in 1..Len(q)  BY <1>1
<1>3. Reverse(q) = [k \in 1..Len(q) |-> q[(Len(q) - k) + 1]]  BY DEF Reverse
<1>4. Reverse(q) \in [1..Len(q) -> S]  BY <1>1, <1>2, <1>3
<1>. QED  BY <1>1, <1>2, <1>3, <1>4

LEMMA ReverseJoin ==
    ASSUME NEW S, NEW p \in Seq(S), NEW q \in Seq(S)
    PROVE  Reverse(Reverse(p) \o q) = Reverse(q) \o p
<1>. DEFINE a == Reverse(p)
            b == Reverse(q)
            l == Len(p)
            m == Len(q)
            c == a \o q
            d == b \o p
            e == Reverse(c)
<1>1. /\ a \in Seq(S) /\ Len(a) = l /\ l \in Nat
      /\ \A k \in 1..l : a[k] = p[(l - k) + 1] /\ (l - k) + 1 \in 1..l
  BY ReverseIs, Zenon
<1>2. /\ b \in Seq(S) /\ Len(b) = m /\ m \in Nat
      /\ \A k \in 1..m : b[k] = q[(m - k) + 1] /\ (m - k) + 1 \in 1..m
  BY ReverseIs, Zenon
<1>. HIDE DEF a, b
<1>3. /\ c \in Seq(S) /\ Len(c) = l + m
      /\ \A k \in 1..l + m : c[k] = IF k <= l THEN a[k] ELSE q[k - l]
  <2>1. /\ c \in Seq(S) /\ Len(c) = Len(a) + Len(q)
        /\ \A k \in 1..Len(a) + Len(q) : c[k] = IF k <= Len(a) THEN a[k] ELSE q[k - Len(a)]
    BY <1>1, ConcatProperties, Zenon
  <2>2. Len(a) = l /\ Len(q) = m  BY <1>1
  <2>. QED  BY <2>1, <2>2, Zenon
<1>4. /\ d \in Seq(S) /\ Len(d) = m + l
      /\ \A k \in 1..m + l : d[k] = IF k <= m THEN b[k] ELSE p[k - m]
  <2>1. /\ d \in Seq(S) /\ Len(d) = Len(b) + Len(p)
        /\ \A k \in 1..Len(b) + Len(p) : d[k] = IF k <= Len(b) THEN b[k] ELSE p[k - Len(b)]
    BY <1>2, ConcatProperties, Zenon
  <2>2. Len(b) = m /\ Len(p) = l  BY <1>2
  <2>. QED  BY <2>1, <2>2, Zenon
<1>. HIDE DEF c, d
<1>5. /\ e \in Seq(S) /\ Len(e) = l + m
      /\ \A k \in 1..l + m : e[k] = c[((l + m) - k) + 1]
  <2>1. /\ e \in Seq(S) /\ Len(e) = Len(c)
        /\ \A k \in 1..Len(c) : e[k] = c[(Len(c) - k) + 1] /\ (Len(c) - k) + 1 \in 1..Len(c)
    BY <1>3, ReverseIs, Zenon
  <2>. QED  BY <1>3, <2>1
<1>. HIDE DEF e
<1>6. \A k \in 1..Len(e) : e[k] = d[k]
  <2>. TAKE k \in 1..Len(e)
  <2>0. PICK x : x = ((l + m) - k) + 1  OBVIOUS
  <2>1. k \in 1..l + m /\ k \in 1..m + l /\ x \in 1..l + m /\ e[k] = c[x]  BY <1>1, <1>2, <1>5, <2>0
  <2>2. CASE k <= m
    <3>0. l \in Nat /\ m \in Nat /\ k \in Nat /\ 1 <= k  BY <1>1, <1>2, <2>1
    <3>1. ~(x <= l) /\ x - l = (m - k) + 1 /\ k \in 1..m  BY ONLY <3>0, <2>0, <2>2
    <3>2. c[x] = q[x - l]  BY <1>3, <2>1, <3>1
    <3>3. d[k] = b[k]  BY <1>4, <2>1, <2>2
    <3>4. b[k] = q[(m - k) + 1]  BY <1>2, <3>1
    <3>. QED  BY <2>1, <3>1, <3>2, <3>3, <3>4
  <2>3. CASE ~(k <= m)
    <3>0. l \in Nat /\ m \in Nat /\ k \in Nat /\ k <= l + m  BY <1>1, <1>2, <2>1
    <3>1. x <= l /\ x \in 1..l /\ (l - x) + 1 = k - m  BY ONLY <3>0, <2>0, <2>3
    <3>2. c[x] = a[x]  BY <1>3, <2>1, <3>1
    <3>3. d[k] = p[k - m]  BY <1>4, <2>1, <2>3
    <3>4. a[x] = p[(l - x) + 1]  BY <1>1, <3>1
    <3>. QED  BY <2>1, <3>1, <3>2, <3>3, <3>4
  <2>. QED  BY <2>2, <2>3
<1>7. e = d
  <2>1. Len(e) = Len(d)  BY <1>1, <1>2, <1>4, <1>5
  <2>. QED  BY <2>1, <1>4, <1>5, <1>6, SeqEqual
<1>. QED  BY <1>7 DEF e, d, c, b, a

LEMMA ReadIs ==
    ASSUME NEW r \in Rows, NEW s \in Seq(RowIds), \A k \in 1..Len(s) : r[s[k]] # NoRow
    PROVE  /\ ReadAs(r, s) \in Seq(Entry) /\ Len(ReadAs(r, s)) = Len(s)
           /\ \A k \in 1..Len(s) : ReadAs(r, s)[k] = RowOf(r, s[k])
<1>1. Len(s) \in Nat /\ DOMAIN s = 1..Len(s) /\ \A k \in 1..Len(s) : s[k] \in RowIds  OBVIOUS
<1>2. \A k \in 1..Len(s) : RowOf(r, s[k]) \in Entry  BY <1>1, RowIsEntry
<1>3. ReadAs(r, s) = [k \in 1..Len(s) |-> RowOf(r, s[k])]  BY <1>1 DEF ReadAs
<1>4. ReadAs(r, s) \in [1..Len(s) -> Entry]  BY <1>2, <1>3
<1>. QED  BY <1>1, <1>3, <1>4

LEMMA ReverseRead ==
    ASSUME NEW r \in Rows, NEW s \in Seq(RowIds), \A k \in 1..Len(s) : r[s[k]] # NoRow
    PROVE  ReadAs(r, Reverse(s)) = Reverse(ReadAs(r, s))
<1>. DEFINE a == ReadAs(r, s)
            b == Reverse(s)
            c == Reverse(a)
            d == ReadAs(r, b)
<1>1. a \in Seq(Entry) /\ Len(a) = Len(s) /\ \A k \in 1..Len(s) : a[k] = RowOf(r, s[k])  BY ReadIs
<1>2. /\ b \in Seq(RowIds) /\ Len(b) = Len(s) /\ Len(s) \in Nat
      /\ \A k \in 1..Len(s) : b[k] = s[(Len(s) - k) + 1] /\ (Len(s) - k) + 1 \in 1..Len(s)
  BY ReverseIs
<1>. HIDE DEF a, b
<1>3. c \in Seq(Entry) /\ Len(c) = Len(s) /\ \A k \in 1..Len(s) : c[k] = a[(Len(s) - k) + 1]
  BY <1>1, ReverseIs
<1>4. \A k \in 1..Len(b) : r[b[k]] # NoRow  BY <1>2
<1>5. d \in Seq(Entry) /\ Len(d) = Len(s) /\ \A k \in 1..Len(s) : d[k] = RowOf(r, b[k])
  BY <1>2, <1>4, ReadIs
<1>. HIDE DEF c, d
<1>6. \A k \in 1..Len(c) : c[k] = d[k]
  <2>. TAKE k \in 1..Len(c)
  <2>1. k \in 1..Len(s) /\ (Len(s) - k) + 1 \in 1..Len(s)  BY <1>2, <1>3
  <2>2. c[k] = RowOf(r, s[(Len(s) - k) + 1])  BY <1>1, <1>3, <2>1
  <2>3. d[k] = RowOf(r, s[(Len(s) - k) + 1])  BY <1>2, <1>5, <2>1
  <2>. QED  BY <2>2, <2>3
<1>7. c = d  BY <1>3, <1>5, <1>6, SeqEqual
<1>. QED  BY <1>7 DEF c, d, b, a

-----------------------------------------------------------------------------
(* The order of a setting and what is known of a walk *)

LEMMA OrderIs ==
    ASSUME pageSetting \in PageSettings
    PROVE  /\ OrderBy \in Seq(Column) /\ pageSetting.sort \in Seq(Column)
           /\ SortsById => HasId(OrderBy)
           /\ pageSetting.strategy # "offset" => HasId(OrderBy) /\ OrderBy # <<>>
           /\ pageSetting.strategy = "keyset" => Len(OrderBy) \in {1, 2}
           /\ pageSetting.strategy # "offset"
              /\ (\A k \in DOMAIN pageSetting.sort : pageSetting.sort[k].column = "id")
              => \A k \in DOMAIN OrderBy : OrderBy[k].column = "id"
<1>. DEFINE q == pageSetting.sort
            n == Len(q)
<1>1. /\ pageSetting.strategy \in {"offset", "keyset", "relay"} /\ pageSetting.backward \in BOOLEAN
      /\ q \in Seq(Column) /\ (pageSetting.strategy = "keyset" => Len(q) = 1)
  BY PaginationAssumption DEF Column
<1>. HIDE DEF q
<1>2. n \in Nat /\ DOMAIN q = 1..n /\ \A k \in 1..n : q[k] \in Column  BY <1>1
<1>3. SortsById <=> HasId(q)  BY DEF SortsById, HasId, q
<1>4. ASSUME NEW up \in BOOLEAN
      PROVE  /\ WithId(up) \in Seq(Column) /\ HasId(WithId(up)) /\ WithId(up) # <<>>
             /\ Len(WithId(up)) \in {n, n + 1}
             /\ (\A k \in DOMAIN q : q[k].column = "id")
                => \A k \in DOMAIN WithId(up) : WithId(up)[k].column = "id"
  <2>1. CASE SortsById
    <3>1. WithId(up) = q  BY <2>1 DEF WithId, q
    <3>2. HasId(q)  BY <1>3, <2>1
    <3>3. q # <<>>  BY <3>2 DEF HasId
    <3>. QED  BY <1>1, <3>1, <3>2, <3>3
  <2>2. CASE ~SortsById
    <3>. DEFINE e == [column |-> "id", ascending |-> up]
                w == Append(q, e)
    <3>1. WithId(up) = w  BY <2>2 DEF WithId, q
    <3>2. e \in Column /\ e.column = "id"  BY DEF Column
    <3>. HIDE DEF e
    <3>3. /\ w \in Seq(Column) /\ Len(w) = n + 1 /\ DOMAIN w = 1..n + 1 /\ w[n + 1] = e
          /\ \A k \in 1..n : w[k] = q[k]
      BY <1>1, <1>2, <3>2
    <3>. HIDE DEF w
    <3>4. HasId(w) /\ w # <<>>  BY <1>2, <3>2, <3>3 DEF HasId
    <3>5. ASSUME \A k \in DOMAIN q : q[k].column = "id", NEW k \in DOMAIN w
          PROVE  w[k].column = "id"
      <4>1. CASE k = n + 1  BY <3>2, <3>3, <4>1
      <4>2. CASE k \in 1..n  BY <1>2, <3>3, <3>5, <4>2
      <4>. QED  BY <1>2, <3>3, <4>1, <4>2
    <3>. QED  BY <3>1, <3>3, <3>4, <3>5
  <2>. QED  BY <2>1, <2>2
<1>5. CASE pageSetting.strategy = "offset"
  <2>1. OrderBy = q  BY <1>5 DEF OrderBy, OffsetOrder, q
  <2>. QED  BY <1>1, <1>3, <1>5, <2>1 DEF q
<1>6. CASE pageSetting.strategy = "keyset"
  <2>1. OrderBy = WithId(q[1].ascending)  BY <1>6 DEF OrderBy, KeysetOrder, q
  <2>2. n = 1 /\ q[1] \in Column  BY <1>1, <1>2, <1>6
  <2>3. q[1].ascending \in BOOLEAN  BY <2>2 DEF Column
  <2>. QED  BY <1>1, <1>4, <1>6, <2>1, <2>2, <2>3 DEF q
<1>7. CASE pageSetting.strategy = "relay"
  <2>. DEFINE w == WithId(TRUE)
              v == [k \in DOMAIN w |-> [w[k] EXCEPT !.ascending = (@ # pageSetting.backward)]]
  <2>1. OrderBy = v  BY <1>7 DEF OrderBy, RelayOrder
  <2>2. /\ w \in Seq(Column) /\ HasId(w) /\ w # <<>>
        /\ (\A k \in DOMAIN q : q[k].column = "id") => \A k \in DOMAIN w : w[k].column = "id"
    BY <1>4
  <2>. HIDE DEF w
  <2>3. DOMAIN w = 1..Len(w) /\ Len(w) \in Nat /\ \A k \in 1..Len(w) : w[k] \in Column  BY <2>2
  <2>4. \A k \in 1..Len(w) : v[k] \in Column /\ v[k].column = w[k].column  BY <2>3 DEF Column
  <2>5. v \in [1..Len(w) -> Column]  BY <2>3, <2>4
  <2>6. v \in Seq(Column) /\ DOMAIN v = 1..Len(w) /\ Len(v) = Len(w)  BY <2>3, <2>5
  <2>. HIDE DEF v
  <2>7. HasId(v) /\ v # <<>>  BY <2>2, <2>3, <2>4, <2>6 DEF HasId
  <2>8. (\A k \in DOMAIN q : q[k].column = "id") => \A k \in DOMAIN v : v[k].column = "id"
    BY <2>2, <2>3, <2>4, <2>6
  <2>. QED  BY <1>1, <1>7, <2>1, <2>6, <2>7, <2>8 DEF q
<1>. QED  BY <1>1, <1>5, <1>6, <1>7

LEMMA GivenIs ==
    ASSUME WalkTypeOK
    PROVE  /\ seen \in Seq(Entry) /\ Given \in Seq(Entry) /\ Len(Given) = Len(seen) /\ Len(seen) \in Nat
           /\ \A k \in 1..Len(seen) :
                 /\ Given[k] = seen[IF pageSetting.backward THEN (Len(seen) - k) + 1 ELSE k]
                 /\ (Len(seen) - k) + 1 \in 1..Len(seen)
<1>1. seen \in Seq(Entry)  BY DEF WalkTypeOK, PagesTypeOK, Entry
<1>2. CASE pageSetting.backward
  <2>1. Given = Reverse(seen)  BY <1>2 DEF Given
  <2>2. /\ Reverse(seen) \in Seq(Entry) /\ Len(Reverse(seen)) = Len(seen) /\ Len(seen) \in Nat
        /\ \A k \in 1..Len(seen) : /\ Reverse(seen)[k] = seen[(Len(seen) - k) + 1]
                                   /\ (Len(seen) - k) + 1 \in 1..Len(seen)
    BY <1>1, ReverseIs
  <2>. QED  BY <1>1, <1>2, <2>1, <2>2
<1>3. CASE ~pageSetting.backward
  <2>1. Given = seen  BY <1>3 DEF Given
  <2>2. Len(seen) \in Nat  BY <1>1
  <2>. QED  BY <1>1, <1>3, <2>1, <2>2
<1>. QED  BY <1>2, <1>3

\* Where ComparesNull is false no key has a NULL.
LEMMA AllClean ==
    ASSUME WalkTypeOK, NullsKnown, pageSetting.strategy # "offset", ~ComparesNull
    PROVE  /\ \A k \in 1..Len(Given) : Clean(OrderBy, Given[k])
           /\ \A i \in RowIds : Clean(OrderBy, RowOf(rows, i))
<1>1. pageSetting \in PageSettings  BY DEF WalkTypeOK, PagesTypeOK
<1>2. CASE ~nulls
  <2>1. \A k \in 1..Len(Given) : Given[k][1] # SqlNull  BY <1>2 DEF NullsKnown
  <2>2. \A i \in RowIds : RowOf(rows, i)[1] # SqlNull  BY <1>2 DEF NullsKnown, RowOf
  <2>. QED  BY <2>1, <2>2 DEF Clean
<1>3. CASE nulls
  <2>1. \A k \in DOMAIN pageSetting.sort : pageSetting.sort[k].column = "id"
    BY <1>3 DEF ComparesNull
  <2>2. \A k \in DOMAIN OrderBy : OrderBy[k].column = "id"  BY <1>1, <2>1, OrderIs
  <2>. QED  BY <2>2 DEF Clean
<1>4. nulls \in BOOLEAN  BY DEF WalkTypeOK, PagesTypeOK
<1>. QED  BY <1>2, <1>3, <1>4

LEMMA KeyOfIs == ASSUME NEW i PROVE KeyOf(i) = KeyIn(OrderBy, RowOf(rows, i))
BY DEF KeyOf, Key, KeyIn, RowOf

LEMMA SortedBeforeIs ==
    ASSUME NEW i, NEW j
    PROVE  SortedBefore(KeyOf(i), KeyOf(j)) <=> Ahead(OrderBy, RowOf(rows, i), RowOf(rows, j))
BY KeyOfIs DEF SortedBefore, Ahead, BeforeIn

LEMMA AnswerInOrder ==
    ASSUME WalkTypeOK, NEW s \in Answers, HasId(OrderBy)
    PROVE  Ordered(OrderBy, s, rows)
<1>1. Lists(s, Matching)  BY AnswersAre
<1>2. OrderBy \in Seq(Column)  BY OrderIs DEF WalkTypeOK, PagesTypeOK
<1>3. rows \in Rows  BY DEF WalkTypeOK, PagesTypeOK, Rows
<1>. SUFFICES ASSUME NEW j \in 1..Len(s), NEW k \in 1..Len(s), j < k
              PROVE  Ahead(OrderBy, RowOf(rows, s[j]), RowOf(rows, s[k]))
  BY DEF Ordered
<1>4. j \in DOMAIN s /\ k \in DOMAIN s  BY <1>1 DEF Lists
<1>5. ~SortedBefore(KeyOf(s[k]), KeyOf(s[j]))  BY <1>4 DEF Answers
<1>6. ~Ahead(OrderBy, RowOf(rows, s[k]), RowOf(rows, s[j]))  BY <1>5, SortedBeforeIs
<1>7. /\ s[j] \in RowIds /\ s[k] \in RowIds /\ rows[s[j]] # NoRow /\ rows[s[k]] # NoRow
      /\ s[j] # s[k]
  <2>1. j # k /\ s \in Seq(RowIds)  BY <1>1 DEF Lists
  <2>2. s[j] \in Matching /\ s[k] \in Matching /\ s[j] # s[k]  BY <1>1, <2>1 DEF Lists
  <2>. QED  BY <2>2 DEF Matching, Present
<1>8. /\ RowOf(rows, s[j]) \in Entry /\ RowOf(rows, s[k]) \in Entry
      /\ RowOf(rows, s[j])[2] # RowOf(rows, s[k])[2]
  BY <1>3, <1>7, RowIsEntry
<1>. QED  BY <1>2, <1>6, <1>8, AheadTotal

-----------------------------------------------------------------------------
(* A step of a walk by cursors *)

LEMMA PageSizeIs == ASSUME WalkTypeOK PROVE PageSize \in Nat \ {0}
BY PaginationAssumption DEF WalkTypeOK, PagesTypeOK, PageSize

\* What the query of a page matches is behind what was given, and no row with values is left out.
LEMMA BehindIs ==
    ASSUME WalkTypeOK, NullsKnown, Orderly, CursorWalk, walk.at = "ready"
    PROVE  /\ \A i \in Matching :
                 Given # <<>> => Ahead(OrderBy, Given[Len(Given)], RowOf(rows, i))
           /\ \A i \in RowIds :
                 /\ rows[i] # NoRow /\ Clean(OrderBy, RowOf(rows, i))
                 /\ Given # <<>> => Ahead(OrderBy, Given[Len(Given)], RowOf(rows, i))
                 => i \in Matching
<1>. DEFINE o == OrderBy
            T == Given
            c == T[Len(T)]
            x(i) == RowOf(rows, i)
<1>1. /\ o \in Seq(Column) /\ HasId(o) /\ o # <<>> /\ rows \in Rows
      /\ pageSetting.strategy = "keyset" => Len(o) \in {1, 2}
  BY OrderIs DEF WalkTypeOK, PagesTypeOK, Orderly, Rows
<1>2. pageSetting.strategy \in {"keyset", "relay"}
  BY PaginationAssumption DEF WalkTypeOK, PagesTypeOK, Orderly
<1>3. T \in Seq(Entry)  BY GivenIs
<1>4. walk.cursor = IF T = <<>> THEN <<>> ELSE KeyIn(o, c)  BY DEF CursorWalk, CursorAt
<1>5. /\ ~ComparesNull => /\ \A k \in 1..Len(T) : Clean(o, T[k])
                          /\ \A i \in RowIds : Clean(o, x(i))
      /\ ~ComparesNull \/ (pageSetting.strategy = "relay" /\ o[1].column # "id" /\ o[1].ascending)
  <2>1. ~ComparesNull => /\ \A k \in 1..Len(T) : Clean(o, T[k])
                         /\ \A i \in RowIds : Clean(o, x(i))
    BY AllClean DEF Orderly
  <2>. QED  BY <2>1 DEF Orderly
<1>6. ASSUME NEW i \in RowIds
      PROVE  /\ i \in Matching => rows[i] # NoRow
             /\ rows[i] # NoRow /\ walk.cursor = <<>> => i \in Matching
             /\ rows[i] # NoRow /\ walk.cursor # <<>> /\ pageSetting.strategy = "keyset"
                => (i \in Matching <=> \/ walk.cursor[1] = SqlNull
                                       \/ KeysetBehind(KeyIn(o, x(i)), walk.cursor))
             /\ rows[i] # NoRow /\ walk.cursor # <<>> /\ pageSetting.strategy = "relay"
                => (i \in Matching <=> RelayBehind(KeyIn(o, x(i)), walk.cursor))
  <2>1. PICK k : k = KeyIn(o, x(i))  OBVIOUS
  <2>2. KeyOf(i) = k  BY <2>1, KeyOfIs
  <2>3. i \in Matching => rows[i] # NoRow  BY DEF Matching, Present
  <2>4. rows[i] # NoRow /\ walk.cursor = <<>> => i \in Matching  BY DEF Matching, Present
  <2>5. rows[i] # NoRow /\ walk.cursor # <<>> /\ pageSetting.strategy = "keyset"
        => (i \in Matching <=> walk.cursor[1] = SqlNull \/ KeysetBehind(k, walk.cursor))
    BY <2>2 DEF Matching, Present
  <2>6. rows[i] # NoRow /\ walk.cursor # <<>> /\ pageSetting.strategy = "relay"
        => (i \in Matching <=> RelayBehind(k, walk.cursor))
    BY <2>2 DEF Matching, Present
  <2>. QED  BY <2>1, <2>3, <2>4, <2>5, <2>6
<1>7. Matching \subseteq RowIds  BY DEF Matching, Present
<1>. HIDE DEF T, x
<1>8. CASE T = <<>>
  <2>1. walk.cursor = <<>>  BY <1>4, <1>8
  <2>2. \A i \in RowIds : rows[i] # NoRow => i \in Matching  BY <1>6, <2>1
  <2>. QED  BY <1>8, <2>2 DEF T
<1>9. CASE T # <<>>
  <2>1. Len(T) \in 1..Len(T) /\ c \in Entry  BY <1>3, <1>9
  <2>2. walk.cursor = KeyIn(o, c) /\ Len(KeyIn(o, c)) = Len(o)  BY <1>1, <1>4, <1>9, <2>1, KeyIs
  <2>3. walk.cursor # <<>> /\ 1 \in 1..Len(o)  BY <1>1, <2>2
  <2>4. ASSUME NEW i \in RowIds, rows[i] # NoRow  PROVE x(i) \in Entry
    BY <1>1, <2>4, RowIsEntry DEF x
  <2>5. CASE pageSetting.strategy = "keyset"
    <3>1. Clean(o, c) /\ \A i \in RowIds : Clean(o, x(i))  BY <1>5, <2>1, <2>5
    <3>2. walk.cursor[1] # SqlNull  BY <1>1, <2>1, <2>2, <2>3, <3>1, CleanKey
    <3>3. ASSUME NEW i \in RowIds, rows[i] # NoRow
          PROVE  i \in Matching <=> Ahead(o, c, x(i))
      <4>1. i \in Matching <=> KeysetBehind(KeyIn(o, x(i)), KeyIn(o, c))
        BY <1>6, <2>2, <2>3, <2>5, <3>2, <3>3
      <4>2. KeysetBehind(KeyIn(o, x(i)), KeyIn(o, c)) <=> Ahead(o, c, x(i))
        BY <1>1, <2>1, <2>4, <2>5, <3>1, <3>3, KeysetBehindIs
      <4>. QED  BY <4>1, <4>2
    <3>4. \A i \in Matching : rows[i] # NoRow  BY <1>6, <1>7
    <3>. QED  BY <1>7, <1>9, <3>3, <3>4 DEF T, x
  <2>6. CASE pageSetting.strategy = "relay"
    <3>1. ASSUME NEW i \in RowIds, rows[i] # NoRow
          PROVE  i \in Matching <=> RelayBehind(KeyIn(o, x(i)), KeyIn(o, c))
      BY <1>6, <2>2, <2>3, <2>6, <3>1
    <3>2. ASSUME NEW i \in RowIds, rows[i] # NoRow, i \in Matching
          PROVE  Ahead(o, c, x(i))
      BY <1>1, <2>1, <2>4, <3>1, <3>2, RelayBehindIs
    <3>3. ASSUME NEW i \in RowIds, rows[i] # NoRow, Clean(o, x(i)), Ahead(o, c, x(i))
          PROVE  i \in Matching
      <4>1. x(i) \in Entry  BY <2>4, <3>3
      <4>2. Clean(o, c)
        <5>1. CASE ~ComparesNull  BY <1>5, <2>1, <5>1
        <5>2. CASE o[1].column # "id" /\ o[1].ascending
          BY <1>1, <2>1, <3>3, <4>1, <5>2, NullsAreLast
        <5>. QED  BY <1>5, <5>1, <5>2
      <4>3. RelayBehind(KeyIn(o, x(i)), KeyIn(o, c))  BY <1>1, <2>1, <3>3, <4>1, <4>2, RelayBehindIs
      <4>. QED  BY <3>1, <3>3, <4>3
    <3>4. \A i \in Matching : rows[i] # NoRow  BY <1>6, <1>7
    <3>. QED  BY <1>7, <1>9, <3>2, <3>3, <3>4 DEF T, x
  <2>. QED  BY <1>2, <2>5, <2>6
<1>. QED  BY <1>8, <1>9

\* The page is what is given next, and the last of it the next cursor.
LEMMA CursorStep ==
    ASSUME WalkTypeOK, NullsKnown, Orderly, CursorWalk, walk.at = "ready",
           NEW s \in Answers, NEW P, P = ReadAs(rows, Cut(s, 1, PageSize))
    PROVE  /\ RowsRise(OrderBy, Given \o P) /\ Current(Given \o P, rows, touched)
           /\ AllGiven(OrderBy, Given \o P, rows, touched, Len(s) <= PageSize)
           /\ Len(s) > PageSize =>
                 /\ CursorAt(OrderBy, Given \o P, KeyOf(Last(Cut(s, 1, PageSize))))
                 /\ Cut(s, 1, PageSize) # <<>>
<1>. DEFINE o == OrderBy
            n == PageSize
            p == Cut(s, 1, n)
            M == Matching
<1>1. o \in Seq(Column) /\ HasId(o) /\ rows \in Rows /\ touched \in SUBSET RowIds
  BY OrderIs DEF WalkTypeOK, PagesTypeOK, Orderly, Rows
<1>2. n \in Nat \ {0}  BY PageSizeIs
<1>3. Given \in Seq(Entry)  BY GivenIs
<1>4. Lists(s, M) /\ Ordered(o, s, rows)  BY <1>1, AnswersAre, AnswerInOrder
<1>5. M \in SUBSET {i \in RowIds : rows[i] # NoRow}  BY DEF Matching, Present
<1>6. /\ p \in Seq(RowIds) /\ Len(p) = (IF n <= Len(s) THEN n ELSE Len(s))
      /\ \A k \in 1..Len(p) : p[k] = s[k]
  BY <1>2, <1>4, CutIs DEF Lists
<1>7. /\ Len(s) \in Nat /\ \A k \in 1..Len(p) : k \in 1..Len(s)
      /\ \A k \in 1..Len(s) : s[k] \in M
  BY <1>2, <1>4, <1>6 DEF Lists
<1>8. \A k \in 1..Len(p) : rows[p[k]] # NoRow  BY <1>5, <1>6, <1>7
<1>. HIDE DEF p, M
<1>9. /\ P \in Seq(Entry) /\ Len(P) = Len(p)
      /\ \A k \in 1..Len(p) : P[k] = RowOf(rows, p[k])
  BY <1>1, <1>6, <1>8, ReadIs DEF p
<1>10. \A k \in 1..Len(P) : P[k] = RowOf(rows, s[k])  BY <1>6, <1>9
<1>11. RowsRise(o, Given) /\ Current(Given, rows, touched) /\ AllGiven(o, Given, rows, touched, FALSE)
  <2>1. (walk.at = "done") = FALSE  OBVIOUS
  <2>. QED  BY <2>1 DEF CursorWalk
<1>12. /\ \A i \in M : Given # <<>> => Ahead(o, Given[Len(Given)], RowOf(rows, i))
       /\ \A i \in RowIds : /\ rows[i] # NoRow /\ Clean(o, RowOf(rows, i))
                            /\ Given # <<>> => Ahead(o, Given[Len(Given)], RowOf(rows, i))
                            => i \in M
  BY BehindIs DEF M
<1>. HIDE DEF o, n
<1>13. Len(P) = (IF n <= Len(s) THEN n ELSE Len(s))  BY <1>6, <1>9
<1>14. /\ RowsRise(o, Given \o P) /\ Current(Given \o P, rows, touched)
       /\ AllGiven(o, Given \o P, rows, touched, Len(s) <= n)
       /\ Len(s) > n => CursorAt(o, Given \o P, KeyIn(o, P[Len(P)]))
  BY ONLY <1>1, <1>2, <1>3, <1>4, <1>5, <1>9, <1>10, <1>11, <1>12, <1>13, PageKeeps
<1>15. ASSUME Len(s) > n  PROVE P[Len(P)] = RowOf(rows, Last(p)) /\ p # <<>>
  <2>1. Len(p) = n /\ n \in 1..Len(p) /\ Len(P) = n  BY <1>2, <1>6, <1>7, <1>9, <1>15
  <2>. QED  BY <1>9, <2>1 DEF Last
<1>16. KeyOf(Last(p)) = KeyIn(o, RowOf(rows, Last(p)))  BY KeyOfIs DEF o
<1>. QED  BY <1>14, <1>15, <1>16 DEF o, n, p

LEMMA SettingStays ==
    ASSUME pageSetting' = pageSetting
    PROVE  OrderBy' = OrderBy /\ (SortsById' <=> SortsById)
<1>1. SortsById' <=> SortsById  BY DEF SortsById
<1>2. \A up : WithId(up)' = WithId(up)  BY <1>1 DEF WithId
<1>3. OffsetOrder' = OffsetOrder /\ KeysetOrder' = KeysetOrder /\ RelayOrder' = RelayOrder
  BY <1>2 DEF OffsetOrder, KeysetOrder, RelayOrder
<1>. QED  BY <1>1, <1>3 DEF OrderBy

LEMMA PageIs ==
    ASSUME WalkTypeOK, NEW s \in Answers
    PROVE  /\ s \in Seq(RowIds) /\ PageSize \in Nat \ {0}
           /\ Cut(s, 1, PageSize) \in Seq(RowIds)
           /\ \A k \in 1..Len(Cut(s, 1, PageSize)) : rows[Cut(s, 1, PageSize)[k]] # NoRow
           /\ ReadAs(rows, Cut(s, 1, PageSize)) \in Seq(Entry)
<1>. DEFINE p == Cut(s, 1, PageSize)
<1>1. Lists(s, Matching) /\ PageSize \in Nat \ {0}  BY AnswersAre, PageSizeIs
<1>2. s \in Seq(RowIds)  BY <1>1 DEF Lists
<1>3. /\ p \in Seq(RowIds) /\ Len(p) = (IF PageSize <= Len(s) THEN PageSize ELSE Len(s))
      /\ \A k \in 1..Len(p) : p[k] = s[k]
  BY <1>1, <1>2, CutIs
<1>. HIDE DEF p
<1>4. \A k \in 1..Len(p) : rows[p[k]] # NoRow
  <2>. TAKE k \in 1..Len(p)
  <2>1. k \in 1..Len(s)  BY <1>1, <1>2, <1>3
  <2>2. s[k] \in Matching  BY <1>1, <2>1 DEF Lists
  <2>. QED  BY <1>3, <2>2 DEF Matching, Present
<1>5. rows \in Rows  BY DEF WalkTypeOK, PagesTypeOK, Rows
<1>6. ReadAs(rows, p) \in Seq(Entry)  BY <1>3, <1>4, <1>5, ReadIs
<1>. QED  BY <1>1, <1>2, <1>3, <1>4, <1>6 DEF p

NextWalk(s, p) ==
    [walk EXCEPT !.page = @ + 1, !.cursor = IF p = <<>> THEN <<>> ELSE KeyOf(Last(p)),
                 !.at = IF Len(s) > PageSize THEN "ready" ELSE "done"]

LEMMA CursorPage ==
    ASSUME WalkTypeOK, KeysetPage \/ RelayPage
    PROVE  /\ \E s \in Answers :
                  /\ Given' = Given \o ReadAs(rows, Cut(s, 1, PageSize))
                  /\ walk' = NextWalk(s, Cut(s, 1, PageSize))
           /\ seen' \in Seq(Entry)
           /\ walk.at = "ready" /\ pageSetting.strategy # "offset" /\ walk.page < MaxPages
           /\ pageSetting' = pageSetting /\ rows' = rows /\ touched' = touched /\ nulls' = nulls
           /\ rowChanges' = rowChanges
<1>1. seen \in Seq(Entry)  BY GivenIs
<1>2. \A s : AsRead(s) = ReadAs(rows, s)  BY DEF AsRead, ReadAs, RowOf
<1>3. CASE KeysetPage
  <2>1. /\ pageSetting.strategy = "keyset" /\ walk.at = "ready" /\ walk.page < MaxPages
        /\ pageSetting' = pageSetting /\ rows' = rows /\ touched' = touched /\ nulls' = nulls
        /\ rowChanges' = rowChanges
    BY <1>3 DEF KeysetPage
  <2>2. PICK s \in Answers :
           LET answer == Cut(s, 1, PageSize + 1)
               page == Cut(answer, 1, PageSize)
           IN /\ seen' = seen \o AsRead(page)
              /\ walk' = [walk EXCEPT !.page = @ + 1,
                             !.cursor = IF page = <<>> THEN <<>> ELSE KeyOf(Last(page)),
                             !.at = IF Len(answer) > PageSize THEN "ready" ELSE "done"]
    BY <1>3 DEF KeysetPage
  <2>3. /\ s \in Seq(RowIds) /\ PageSize \in Nat \ {0}
        /\ ReadAs(rows, Cut(s, 1, PageSize)) \in Seq(Entry)
    BY PageIs
  <2>4. /\ Cut(Cut(s, 1, PageSize + 1), 1, PageSize) = Cut(s, 1, PageSize)
        /\ Len(Cut(s, 1, PageSize + 1)) > PageSize <=> Len(s) > PageSize
    BY <2>3, CutTwice
  <2>5. seen' = seen \o ReadAs(rows, Cut(s, 1, PageSize))  BY <1>2, <2>2, <2>4
  <2>6. walk' = NextWalk(s, Cut(s, 1, PageSize))  BY <2>2, <2>4 DEF NextWalk
  <2>7. ~pageSetting.backward
    BY <2>1, PaginationAssumption DEF WalkTypeOK, PagesTypeOK
  <2>8. Given = seen /\ Given' = seen'  BY <2>1, <2>7 DEF Given
  <2>9. seen' \in Seq(Entry)  BY <1>1, <2>3, <2>5
  <2>. QED  BY <2>1, <2>5, <2>6, <2>8, <2>9
<1>4. CASE RelayPage
  <2>1. /\ pageSetting.strategy = "relay" /\ walk.at = "ready" /\ walk.page < MaxPages
        /\ pageSetting' = pageSetting /\ rows' = rows /\ touched' = touched /\ nulls' = nulls
        /\ rowChanges' = rowChanges
    BY <1>4 DEF RelayPage
  <2>2. PICK s \in Answers :
           LET answer == Cut(s, 1, PageSize + 1)
               edges == Edges(Cut(answer, 1, PageSize))
           IN /\ seen' = IF pageSetting.backward THEN AsRead(edges) \o seen
                         ELSE seen \o AsRead(edges)
              /\ walk' = [walk EXCEPT !.page = @ + 1,
                             !.cursor = IF edges = <<>> THEN <<>>
                                        ELSE KeyOf(IF pageSetting.backward THEN Head(edges)
                                                   ELSE Last(edges)),
                             !.at = IF Len(answer) > PageSize THEN "ready" ELSE "done"]
    BY <1>4 DEF RelayPage
  <2>. DEFINE p == Cut(s, 1, PageSize)
              P == ReadAs(rows, p)
  <2>3. /\ s \in Seq(RowIds) /\ PageSize \in Nat \ {0} /\ P \in Seq(Entry)
        /\ p \in Seq(RowIds) /\ \A k \in 1..Len(p) : rows[p[k]] # NoRow
    BY PageIs
  <2>4. /\ Cut(Cut(s, 1, PageSize + 1), 1, PageSize) = p
        /\ Len(Cut(s, 1, PageSize + 1)) > PageSize <=> Len(s) > PageSize
    BY <2>3, CutTwice
  <2>5. /\ seen' = IF pageSetting.backward THEN AsRead(Edges(p)) \o seen ELSE seen \o AsRead(Edges(p))
        /\ walk' = [walk EXCEPT !.page = @ + 1,
                       !.cursor = IF Edges(p) = <<>> THEN <<>>
                                  ELSE KeyOf(IF pageSetting.backward THEN Head(Edges(p))
                                             ELSE Last(Edges(p))),
                       !.at = IF Len(s) > PageSize THEN "ready" ELSE "done"]
    BY <2>2, <2>4
  <2>. HIDE DEF p
  <2>6. CASE ~pageSetting.backward
    <3>1. Edges(p) = p  BY <2>6 DEF Edges
    <3>2. seen' = seen \o P  BY <1>2, <2>5, <2>6, <3>1
    <3>3. walk' = NextWalk(s, p)  BY <2>5, <2>6, <3>1 DEF NextWalk
    <3>4. Given = seen /\ Given' = seen'  BY <2>1, <2>6 DEF Given
    <3>5. seen' \in Seq(Entry)  BY <1>1, <2>3, <3>2
    <3>. QED  BY <2>1, <3>2, <3>3, <3>4, <3>5 DEF p
  <2>7. CASE pageSetting.backward
    <3>1. Edges(p) = Reverse(p)  BY <2>7 DEF Edges
    <3>2. rows \in Rows  BY DEF WalkTypeOK, PagesTypeOK, Rows
    <3>3. AsRead(Reverse(p)) = Reverse(P)  BY <1>2, <2>3, <3>2, ReverseRead
    <3>4. seen' = Reverse(P) \o seen  BY <2>5, <2>7, <3>1, <3>3
    <3>5. Reverse(seen') = Reverse(seen) \o P  BY <1>1, <2>3, <3>4, ReverseJoin
    <3>6. Given' = Given \o P  BY <2>1, <2>7, <3>5 DEF Given
    <3>7. /\ Reverse(p) \in Seq(RowIds) /\ Len(Reverse(p)) = Len(p) /\ Len(p) \in Nat
          /\ \A k \in 1..Len(p) : Reverse(p)[k] = p[(Len(p) - k) + 1]
      BY <2>3, ReverseIs
    <3>8. Reverse(p) = <<>> <=> p = <<>>  BY <2>3, <3>7
    <3>9. p # <<>> => Head(Reverse(p)) = Last(p)
      <4>1. SUFFICES ASSUME p # <<>>  PROVE Reverse(p)[1] = p[Len(p)]  BY <3>7, <3>8 DEF Last
      <4>2. 1 \in 1..Len(p) /\ (Len(p) - 1) + 1 = Len(p)  BY <2>3, <3>7, <4>1
      <4>. QED  BY <3>7, <4>2
    <3>10. walk' = NextWalk(s, p)  BY <2>5, <2>7, <3>1, <3>8, <3>9 DEF NextWalk
    <3>11. Reverse(P) \in Seq(Entry)  BY <2>3, ReverseIs
    <3>12. seen' \in Seq(Entry)  BY <1>1, <3>4, <3>11
    <3>. QED  BY <2>1, <3>6, <3>10, <3>12 DEF p
  <2>. QED  BY <2>6, <2>7
<1>. QED  BY <1>3, <1>4

LEMMA OrderlyStays ==
    ASSUME pageSetting' = pageSetting, nulls => nulls', Orderly'
    PROVE  Orderly
<1>1. OrderBy' = OrderBy  BY SettingStays
<1>2. ComparesNull => ComparesNull'  BY DEF ComparesNull
<1>. QED  BY <1>1, <1>2 DEF Orderly

LEMMA CursorPageKeeps ==
    ASSUME PInv, KeysetPage \/ RelayPage
    PROVE  PInv'
<1>0. WalkTypeOK  BY DEF PInv
<1>1. /\ seen' \in Seq(Entry)
      /\ walk.at = "ready" /\ pageSetting.strategy # "offset" /\ walk.page < MaxPages
      /\ pageSetting' = pageSetting /\ rows' = rows /\ touched' = touched /\ nulls' = nulls
      /\ rowChanges' = rowChanges
  BY <1>0, CursorPage
<1>2. PICK s \in Answers : /\ Given' = Given \o ReadAs(rows, Cut(s, 1, PageSize))
                           /\ walk' = NextWalk(s, Cut(s, 1, PageSize))
  BY <1>0, CursorPage
<1>. DEFINE p == Cut(s, 1, PageSize)
            P == ReadAs(rows, p)
<1>3. /\ p \in Seq(RowIds) /\ \A k \in 1..Len(p) : rows[p[k]] # NoRow
      /\ P \in Seq(Entry) /\ PageSize \in Nat \ {0} /\ s \in Seq(RowIds)
  BY <1>0, PageIs
<1>4. rows \in Rows /\ Given \in Seq(Entry)  BY <1>0, GivenIs DEF WalkTypeOK, PagesTypeOK, Rows
<1>5. Len(P) = Len(p) /\ \A k \in 1..Len(p) : P[k] = RowOf(rows, p[k])  BY <1>3, <1>4, ReadIs
<1>. HIDE DEF p
<1>6. walk' = NextWalk(s, p) /\ Given' = Given \o P  BY <1>2 DEF p
<1>7. /\ walk'.at = (IF Len(s) > PageSize THEN "ready" ELSE "done")
      /\ walk'.cursor = (IF p = <<>> THEN <<>> ELSE KeyOf(Last(p)))
      /\ WalkTypeOK'
  <2>1. walk \in Walks  BY <1>0 DEF WalkTypeOK
  <2>2. (IF p = <<>> THEN <<>> ELSE KeyOf(Last(p))) \in Seq(Nat)
    <3>1. CASE p = <<>>  BY <3>1
    <3>2. CASE p # <<>>
      <4>1. Last(p) \in RowIds /\ rows[Last(p)] # NoRow  BY <1>3, <3>2 DEF Last
      <4>2. RowOf(rows, Last(p)) \in Entry  BY <1>4, <4>1, RowIsEntry
      <4>3. OrderBy \in Seq(Column)  BY <1>0, OrderIs DEF WalkTypeOK, PagesTypeOK
      <4>. QED  BY <3>2, <4>2, <4>3, KeyOfIs, KeyIs
    <3>. QED  BY <3>1, <3>2
  <2>3. PICK c \in Seq(Nat) : c = (IF p = <<>> THEN <<>> ELSE KeyOf(Last(p)))  BY <2>2
  <2>4. PICK a \in {"ready", "done"} : a = (IF Len(s) > PageSize THEN "ready" ELSE "done")  OBVIOUS
  <2>5. walk' = [walk EXCEPT !.page = @ + 1, !.cursor = c, !.at = a]
    BY <1>6, <2>3, <2>4 DEF NextWalk
  <2>6. walk.page + 1 \in 0..MaxPages  BY <1>1, <2>1, PaginationAssumption DEF Walks
  <2>7. walk' \in Walks
    BY <2>1, <2>5, <2>6 DEF Walks
  <2>8. walk'.at = a /\ walk'.cursor = c  BY <2>1, <2>5 DEF Walks
  <2>9. PagesTypeOK'  BY <1>0, <1>1, <2>7 DEF WalkTypeOK, PagesTypeOK, Entry, Walks
  <2>. QED  BY <2>3, <2>4, <2>7, <2>8, <2>9 DEF WalkTypeOK
<1>8. NullsKnown'
  <2>. SUFFICES ASSUME ~nulls'
                PROVE  /\ \A i \in RowIds : rows'[i] # SqlNull
                       /\ \A k \in 1..Len(Given') : Given'[k][1] # SqlNull
    BY DEF NullsKnown
  <2>1. /\ \A i \in RowIds : rows[i] # SqlNull
        /\ \A k \in 1..Len(Given) : Given[k][1] # SqlNull
    BY <1>1 DEF PInv, NullsKnown
  <2>2. \A k \in 1..Len(P) : P[k][1] # SqlNull
    <3>. TAKE k \in 1..Len(P)
    <3>1. P[k] = RowOf(rows, p[k]) /\ p[k] \in RowIds  BY <1>3, <1>5
    <3>. QED  BY <2>1, <3>1 DEF RowOf
  <2>3. \A k \in 1..Len(Given') : Given'[k][1] # SqlNull
    <3>. HIDE DEF P
    <3>. TAKE k \in 1..Len(Given')
    <3>1. k \in 1..Len(Given \o P) /\ Given'[k] = (Given \o P)[k]  BY <1>6
    <3>2. CASE k <= Len(Given)
      <4>1. k \in 1..Len(Given) /\ (Given \o P)[k] = Given[k]  BY <1>3, <1>4, <3>1, <3>2, JoinIs
      <4>. QED  BY <2>1, <3>1, <4>1
    <3>3. CASE k > Len(Given)
      <4>1. k - Len(Given) \in 1..Len(P) /\ (Given \o P)[k] = P[k - Len(Given)]
        BY <1>3, <1>4, <3>1, <3>3, JoinIs
      <4>. QED  BY <2>2, <3>1, <4>1
    <3>4. k \in Nat /\ Len(Given) \in Nat  BY <1>3, <1>4, <3>1, JoinIs
    <3>. QED  BY <3>2, <3>3, <3>4
  <2>. QED  BY <1>1, <2>1, <2>3
<1>9. ASSUME Orderly'  PROVE CursorWalk'
  <2>1. Orderly /\ CursorWalk /\ NullsKnown  BY <1>1, <1>9, OrderlyStays DEF PInv
  <2>2. OrderBy' = OrderBy  BY <1>1, SettingStays
  <2>. HIDE DEF P
  <2>3. P = ReadAs(rows, Cut(s, 1, PageSize))  BY DEF P, p
  <2>4. /\ RowsRise(OrderBy, Given \o P) /\ Current(Given \o P, rows, touched)
        /\ AllGiven(OrderBy, Given \o P, rows, touched, Len(s) <= PageSize)
        /\ Len(s) > PageSize => CursorAt(OrderBy, Given \o P, KeyOf(Last(p))) /\ p # <<>>
    BY <1>0, <1>1, <2>1, <2>3, CursorStep DEF p
  <2>5. PICK T : T = Given \o P  OBVIOUS
  <2>6. Given' = T  BY <1>6, <2>5
  <2>7. RowsRise(OrderBy', Given') /\ Current(Given', rows', touched')  BY <1>1, <2>2, <2>4, <2>5, <2>6
  <2>8. Len(s) <= PageSize <=> walk'.at = "done"
    <3>1. Len(s) \in Nat /\ PageSize \in Nat  BY <1>3
    <3>. QED  BY <1>7, <3>1
  <2>9. AllGiven(OrderBy', Given', rows', touched', walk'.at = "done")
    <3>1. AllGiven(OrderBy, T, rows, touched, walk'.at = "done")
      BY <2>4, <2>5, <2>8 DEF AllGiven
    <3>. QED  BY <1>1, <2>2, <2>6, <3>1
  <2>10. walk'.at # "done" => CursorAt(OrderBy', Given', walk'.cursor)
    <3>1. SUFFICES ASSUME walk'.at # "done"  PROVE CursorAt(OrderBy, T, walk'.cursor)
      BY <2>2, <2>6
    <3>2. Len(s) > PageSize  BY <1>7, <3>1
    <3>. QED  BY <1>7, <2>4, <2>5, <3>2
  <2>. QED  BY <2>7, <2>9, <2>10 DEF CursorWalk
<1>10. ~Undisturbed'  BY <1>1 DEF Undisturbed
<1>. QED  BY <1>7, <1>8, <1>9, <1>10 DEF PInv

LEMMA ChangeKeeps ==
    ASSUME PInv, NEW i \in RowIds, ChangeRow(i)
    PROVE  PInv'
<1>1. PICK v \in SortValues \cup {NoRow, SqlNull} :
         rows' = [rows EXCEPT ![i] = v] /\ nulls' = (nulls \/ v = SqlNull)
  BY DEF ChangeRow
<1>2. /\ touched' = touched \cup {i} /\ rowChanges' = rowChanges + 1 /\ rowChanges < MaxRowChanges
      /\ pageSetting' = pageSetting /\ walk' = walk /\ seen' = seen /\ walk.at # "done"
  BY DEF ChangeRow
<1>3. WalkTypeOK /\ NullsKnown  BY DEF PInv
<1>4. rows \in Rows /\ nulls \in BOOLEAN /\ rowChanges \in 0..MaxRowChanges /\ touched \subseteq RowIds
  BY <1>3 DEF WalkTypeOK, PagesTypeOK, Rows
<1>5. rows' \in Rows /\ \A j \in RowIds : rows'[j] = IF j = i THEN v ELSE rows[j]
  BY <1>1, <1>4 DEF Rows
<1>6. WalkTypeOK'
  <2>1. rowChanges' \in 0..MaxRowChanges  BY <1>2, <1>4, PaginationAssumption
  <2>2. nulls' \in BOOLEAN  BY <1>1, <1>4
  <2>3. touched' \subseteq RowIds  BY <1>2, <1>4
  <2>. QED  BY <1>2, <1>3, <1>5, <2>1, <2>2, <2>3 DEF WalkTypeOK, PagesTypeOK, Rows
<1>7. Given' = Given  BY <1>2 DEF Given
<1>8. NullsKnown'
  <2>. SUFFICES ASSUME ~nulls'
                PROVE  /\ \A j \in RowIds : rows'[j] # SqlNull
                       /\ \A k \in 1..Len(Given') : Given'[k][1] # SqlNull
    BY DEF NullsKnown
  <2>1. ~nulls /\ v # SqlNull  BY <1>1
  <2>. QED  BY <1>3, <1>5, <1>7, <2>1 DEF NullsKnown
<1>9. ASSUME Orderly'  PROVE CursorWalk'
  <2>0. nulls => nulls'  BY <1>1
  <2>1. CursorWalk  BY <1>2, <1>9, <2>0, OrderlyStays DEF PInv
  <2>2. OrderBy' = OrderBy  BY <1>2, SettingStays
  <2>3. PICK r : r = rows'  OBVIOUS
  <2>4. PICK U : U = touched'  OBVIOUS
  <2>5. \A j \in RowIds \ U : j \notin touched /\ r[j] = rows[j] /\ RowOf(r, j) = RowOf(rows, j)
    BY <1>2, <1>5, <2>3, <2>4 DEF RowOf
  <2>6. Current(Given, r, U)
    <3>. SUFFICES ASSUME NEW k \in 1..Len(Given), Given[k][2] \notin U
                  PROVE  Given[k] = RowOf(r, Given[k][2])
      BY DEF Current
    <3>1. Given[k] \in Entry  BY <1>3, GivenIs
    <3>2. Given[k][2] \in RowIds \ U  BY <3>1, EntryIs
    <3>3. Given[k] = RowOf(rows, Given[k][2])  BY <2>1, <2>5, <3>2 DEF CursorWalk, Current
    <3>. QED  BY <2>5, <3>2, <3>3
  <2>7. AllGiven(OrderBy, Given, r, U, walk.at = "done")
    <3>. SUFFICES ASSUME NEW j \in RowIds \ U, r[j] # NoRow, Clean(OrderBy, RowOf(r, j)),
                         walk.at = "done" \/ (Given # <<>> /\ ~Ahead(OrderBy, Given[Len(Given)], RowOf(r, j)))
                  PROVE  \E k \in 1..Len(Given) : Given[k] = RowOf(r, j)
      BY DEF AllGiven
    <3>1. AllGiven(OrderBy, Given, rows, touched, walk.at = "done")  BY <2>1 DEF CursorWalk
    <3>2. j \in RowIds \ touched /\ rows[j] # NoRow /\ RowOf(r, j) = RowOf(rows, j)  BY <2>5
    <3>. QED  BY <3>1, <3>2 DEF AllGiven
  <2>8. RowsRise(OrderBy', Given') /\ Current(Given', rows', touched')
    BY <1>7, <2>1, <2>2, <2>3, <2>4, <2>6 DEF CursorWalk
  <2>9. AllGiven(OrderBy', Given', rows', touched', walk'.at = "done")
    BY <1>2, <1>7, <2>2, <2>3, <2>4, <2>7
  <2>10. walk'.at # "done" => CursorAt(OrderBy', Given', walk'.cursor)
    BY <1>2, <1>7, <2>1, <2>2 DEF CursorWalk
  <2>. QED  BY <2>8, <2>9, <2>10 DEF CursorWalk
<1>10. ~Undisturbed'  BY <1>2 DEF Undisturbed
<1>. QED  BY <1>6, <1>8, <1>9, <1>10 DEF PInv

-----------------------------------------------------------------------------
(* Walks by offsets *)

\* The order leaves one list of a set.
LEMMA OneList ==
    ASSUME NEW o \in Seq(Column), NEW r \in Rows, NEW M \in SUBSET {i \in RowIds : r[i] # NoRow},
           NEW s, NEW q, Lists(s, M), Lists(q, M), Ordered(o, s, r), Ordered(o, q, r),
           Len(s) = Len(q)
    PROVE  s = q
<1>. DEFINE D == {k \in 1..Len(s) : s[k] # q[k]}
<1>1. s \in Seq(RowIds) /\ q \in Seq(RowIds)  BY DEF Lists
<1>2. SUFFICES ASSUME D # {}  PROVE FALSE
  <2>1. \A k \in 1..Len(s) : s[k] = q[k]  BY <1>2
  <2>. QED  BY <1>1, <2>1, SeqEqual
<1>3. D \in SUBSET Nat  OBVIOUS
<1>. HIDE DEF D
<1>4. PICK k \in D : \A j \in D : k <= j  BY <1>2, <1>3, Least
<1>5. k \in 1..Len(s) /\ s[k] # q[k] /\ Len(s) \in Nat  BY <1>1 DEF D
<1>6. \A j \in 1..Len(s) : j < k => s[j] = q[j]
  <2>. SUFFICES ASSUME NEW j \in 1..Len(s), j < k, j \in D  PROVE FALSE  BY DEF D
  <2>1. k <= j  BY <1>4
  <2>. QED  BY <1>5, <2>1
<1>7. s[k] \in M /\ q[k] \in M  BY <1>5 DEF Lists
<1>8. PICK l \in 1..Len(s) : s[l] = q[k]  BY <1>7 DEF Lists
<1>9. PICK m \in 1..Len(s) : q[m] = s[k]  BY <1>7 DEF Lists
<1>10. l > k
  <2>1. l # k  BY <1>5, <1>8
  <2>2. CASE l < k
    <3>1. q[l] = q[k]  BY <1>6, <1>8, <2>2
    <3>. QED  BY <1>5, <2>1, <3>1 DEF Lists
  <2>. QED  BY <1>5, <2>1, <2>2
<1>11. m > k
  <2>1. m # k  BY <1>5, <1>9
  <2>2. CASE m < k
    <3>1. s[m] = s[k]  BY <1>6, <1>9, <2>2
    <3>. QED  BY <1>5, <2>1, <3>1 DEF Lists
  <2>. QED  BY <1>5, <2>1, <2>2
<1>12. Ahead(o, RowOf(r, s[k]), RowOf(r, q[k]))  BY <1>5, <1>8, <1>10 DEF Ordered
<1>13. Ahead(o, RowOf(r, q[k]), RowOf(r, s[k]))
  <2>1. k \in 1..Len(q) /\ m \in 1..Len(q) /\ k < m  BY <1>5, <1>11
  <2>. QED  BY <1>9, <2>1 DEF Ordered
<1>14. RowOf(r, s[k]) \in Entry /\ RowOf(r, q[k]) \in Entry  BY <1>7, RowIsEntry
<1>. QED  BY <1>12, <1>13, <1>14, AheadTransitive, AheadNotItself

LEMMA CutJoin ==
    ASSUME NEW S, NEW s \in Seq(S), NEW n \in Nat \ {0}, NEW z \in Nat \ {0}
    PROVE  /\ Cut(s, 1, n) \o Cut(s, n + 1, z) = Cut(s, 1, n + z)
           /\ Cut(s, 1, n) \in Seq(S) /\ Cut(s, n + 1, z) \in Seq(S)
<1>. DEFINE l == Len(s)
            e == IF n + z < l THEN n + z ELSE l
<1>1. l \in Nat /\ e \in Nat /\ e <= l  OBVIOUS
<1>2. Cut(s, n + 1, z) = SubSeq(s, n + 1, e) /\ Cut(s, 1, n + z) = SubSeq(s, 1, e)
  <2>1. (n + 1) + z - 1 = n + z /\ 1 + (n + z) - 1 = n + z  OBVIOUS
  <2>. QED  BY <2>1 DEF Cut
<1>. HIDE DEF e
<1>3. Cut(s, 1, n) \in Seq(S)  BY CutIs
<1>4. CASE n <= l
  <2>1. e \in n..l  BY <1>1, <1>4 DEF e
  <2>2. Cut(s, 1, n) = SubSeq(s, 1, n)  BY <1>1, <1>4 DEF Cut
  <2>3. SubSeq(s, 1, n) \o SubSeq(s, n + 1, e) = SubSeq(s, 1, e)
    <3>1. 1 \in 1..l + 1 /\ n \in (1 - 1)..l  BY <1>1, <1>4
    <3>. QED  BY <2>1, <3>1, ConcatAdjacentSubSeq
  <2>4. SubSeq(s, n + 1, e) \in Seq(S)
    <3>1. \A i \in n + 1..e : s[i] \in S  BY <1>1
    <3>. QED  BY <1>1, <3>1
  <2>. QED  BY <1>2, <1>3, <2>2, <2>3, <2>4
<1>5. CASE ~(n <= l)
  <2>1. e = l  BY <1>1, <1>5 DEF e
  <2>2. Cut(s, 1, n) = SubSeq(s, 1, l)  BY <1>1, <1>5 DEF Cut
  <2>3. SubSeq(s, n + 1, e) = <<>>  BY <1>1, <1>5, <2>1, SubSeqEmpty
  <2>4. SubSeq(s, 1, l) \o <<>> = SubSeq(s, 1, l)  BY <1>3, <2>2, ConcatEmptySeq
  <2>5. <<>> \in Seq(S)  OBVIOUS
  <2>. QED  BY <1>2, <1>3, <2>1, <2>2, <2>3, <2>4, <2>5
<1>. QED  BY <1>4, <1>5

LEMMA ReadJoin ==
    ASSUME NEW r \in Rows, NEW p \in Seq(RowIds), NEW q \in Seq(RowIds)
    PROVE  ReadAs(r, p \o q) = ReadAs(r, p) \o ReadAs(r, q)
<1>. DEFINE c == p \o q
            T == {RowOf(r, i) : i \in RowIds}
            a == ReadAs(r, p)
            b == ReadAs(r, q)
            d == ReadAs(r, c)
            e == a \o b
<1>1. ASSUME NEW s \in Seq(RowIds)
      PROVE  /\ ReadAs(r, s) \in Seq(T) /\ Len(ReadAs(r, s)) = Len(s)
             /\ \A k \in 1..Len(s) : ReadAs(r, s)[k] = RowOf(r, s[k])
  <2>1. Len(s) \in Nat /\ DOMAIN s = 1..Len(s) /\ \A k \in 1..Len(s) : s[k] \in RowIds  OBVIOUS
  <2>2. \A k \in 1..Len(s) : RowOf(r, s[k]) \in T  BY <2>1
  <2>. HIDE DEF T
  <2>3. ReadAs(r, s) = [k \in 1..Len(s) |-> RowOf(r, s[k])]  BY <2>1 DEF ReadAs
  <2>4. ReadAs(r, s) \in [1..Len(s) -> T]  BY <2>2, <2>3
  <2>. QED  BY <2>1, <2>3, <2>4
<1>. HIDE DEF T
<1>2. /\ c \in Seq(RowIds) /\ Len(c) = Len(p) + Len(q) /\ Len(p) \in Nat /\ Len(q) \in Nat
      /\ \A k \in 1..Len(p) + Len(q) : c[k] = IF k <= Len(p) THEN p[k] ELSE q[k - Len(p)]
  BY ConcatProperties
<1>. HIDE DEF c
<1>3. /\ a \in Seq(T) /\ Len(a) = Len(p) /\ \A k \in 1..Len(p) : a[k] = RowOf(r, p[k])
      /\ b \in Seq(T) /\ Len(b) = Len(q) /\ \A k \in 1..Len(q) : b[k] = RowOf(r, q[k])
      /\ d \in Seq(T) /\ Len(d) = Len(c) /\ \A k \in 1..Len(c) : d[k] = RowOf(r, c[k])
  <2>1. a \in Seq(T) /\ Len(a) = Len(p) /\ \A k \in 1..Len(p) : a[k] = RowOf(r, p[k])  BY <1>1
  <2>2. b \in Seq(T) /\ Len(b) = Len(q) /\ \A k \in 1..Len(q) : b[k] = RowOf(r, q[k])  BY <1>1
  <2>3. d \in Seq(T) /\ Len(d) = Len(c) /\ \A k \in 1..Len(c) : d[k] = RowOf(r, c[k])
    BY <1>1, <1>2
  <2>. HIDE DEF a, b, d
  <2>. QED  BY <2>1, <2>2, <2>3
<1>. HIDE DEF a, b, d
<1>4. /\ e \in Seq(T) /\ Len(e) = Len(a) + Len(b)
      /\ \A k \in 1..Len(a) + Len(b) : e[k] = IF k <= Len(a) THEN a[k] ELSE b[k - Len(a)]
  <2>1. a \in Seq(T) /\ b \in Seq(T)  BY <1>3
  <2>. QED  BY <2>1, ConcatProperties
<1>. HIDE DEF e
<1>5. \A k \in 1..Len(d) : d[k] = e[k]
  <2>. TAKE k \in 1..Len(d)
  <2>1. k \in 1..Len(c) /\ k \in 1..Len(p) + Len(q) /\ k \in 1..Len(a) + Len(b)  BY <1>2, <1>3
  <2>2. CASE k <= Len(p)
    <3>1. k \in 1..Len(p)  BY <1>2, <2>1, <2>2
    <3>2. d[k] = RowOf(r, p[k])  BY <1>2, <1>3, <2>1, <2>2
    <3>3. e[k] = RowOf(r, p[k])  BY <1>3, <1>4, <2>1, <2>2, <3>1
    <3>. QED  BY <3>2, <3>3
  <2>3. CASE ~(k <= Len(p))
    <3>1. k - Len(p) \in 1..Len(q)  BY <1>2, <2>1, <2>3
    <3>2. d[k] = RowOf(r, q[k - Len(p)])  BY <1>2, <1>3, <2>1, <2>3
    <3>3. e[k] = RowOf(r, q[k - Len(p)])  BY <1>3, <1>4, <2>1, <2>3, <3>1
    <3>. QED  BY <3>2, <3>3
  <2>. QED  BY <2>2, <2>3
<1>6. Len(d) = Len(e)  BY <1>2, <1>3, <1>4
<1>7. d = e  BY <1>3, <1>4, <1>5, <1>6, SeqEqual
<1>. QED  BY <1>7 DEF d, e, a, b, c

\* createPage knows the last page.
LEMMA PagesInIs ==
    ASSUME NEW t \in Nat, NEW z \in Nat \ {0}, NEW p \in Nat, (t + z - 1) \div z <= p
    PROVE  t <= p * z
<1>1. PICK d : d = (t + z - 1) \div z  OBVIOUS
<1>2. d \in Nat /\ t + z - 1 < (d + 1) * z  BY <1>1
<1>3. (d + 1) * z = d * z + z /\ d * z \in Nat  BY <1>2
<1>4. t <= d * z  BY <1>2, <1>3
<1>5. d * z <= p * z
  <2>1. PICK e \in Nat : p = d + e
    <3>1. p - d \in Nat /\ p = d + (p - d)  BY <1>1, <1>2
    <3>. QED  BY <3>1
  <2>2. p * z = d * z + e * z /\ e * z \in Nat  BY <1>2, <2>1
  <2>. QED  BY <1>3, <2>2
<1>6. p * z \in Nat  OBVIOUS
<1>. QED  BY <1>3, <1>4, <1>5, <1>6

LEMMA OffsetStays ==
    ASSUME WalkTypeOK, pageSetting.strategy = "offset"
    PROVE  /\ Given = seen /\ ~Orderly
           /\ pageSetting' = pageSetting => ~Orderly'
  BY PaginationAssumption DEF WalkTypeOK, PagesTypeOK, Given, Orderly

LEMMA CountKeeps ==
    ASSUME PInv, CountRows
    PROVE  PInv'
<1>1. /\ pageSetting.strategy = "offset" /\ walk.at = "ready" /\ walk.page < MaxPages
      /\ walk' = [walk EXCEPT !.at = "counted", !.total = Cardinality(Present)]
      /\ pageSetting' = pageSetting /\ rows' = rows /\ seen' = seen /\ touched' = touched
      /\ nulls' = nulls /\ rowChanges' = rowChanges
  BY DEF CountRows
<1>2. WalkTypeOK /\ NullsKnown  BY DEF PInv
<1>3. walk \in Walks  BY <1>2 DEF WalkTypeOK
<1>4. Cardinality(Present) \in Nat
  <2>1. Present \subseteq RowIds  BY DEF Present
  <2>2. IsFiniteSet(Present)  BY <2>1, FS_Subset, PaginationAssumption
  <2>. QED  BY <2>2, FS_CardinalityType
<1>5. PICK t \in Nat : t = Cardinality(Present)  BY <1>4
<1>6. walk' = [walk EXCEPT !.at = "counted", !.total = t]  BY <1>1, <1>5
<1>7. /\ walk' \in Walks
      /\ walk'.at = "counted" /\ walk'.total = t /\ walk'.page = walk.page
  BY <1>3, <1>6 DEF Walks
<1>8. WalkTypeOK'  BY <1>1, <1>2, <1>7 DEF WalkTypeOK, PagesTypeOK, Walks
<1>9. NullsKnown'  BY <1>1, <1>2 DEF NullsKnown, Given
<1>10. ~Orderly'  BY <1>1 DEF Orderly
<1>11. ASSUME Undisturbed'  PROVE OffsetWalk'
  <2>1. OffsetWalk  BY <1>1, <1>11, SettingStays DEF PInv, Undisturbed
  <2>2. OrderBy' = OrderBy  BY <1>1, SettingStays
  <2>3. Present' = Present  BY <1>1 DEF Present
  <2>4. walk'.at = "counted" => walk'.total = Cardinality(Present')  BY <1>5, <1>7, <2>3
  <2>5. walk'.page = 0 => seen' = <<>> /\ walk'.at # "done"  BY <1>1, <1>7, <2>1 DEF OffsetWalk
  <2>6. ASSUME walk'.page > 0
        PROVE  \E s \in Seq(RowIds) :
                  /\ Lists(s, Present') /\ Len(s) = Cardinality(Present') /\ Ordered(OrderBy', s, rows')
                  /\ seen' = ReadAs(rows', Cut(s, 1, walk'.page * pageSetting'.size))
                  /\ walk'.at = "done" => seen' = ReadAs(rows', s)
    <3>1. PICK s \in Seq(RowIds) :
                  /\ Lists(s, Present) /\ Len(s) = Cardinality(Present) /\ Ordered(OrderBy, s, rows)
                  /\ seen = ReadAs(rows, Cut(s, 1, walk.page * pageSetting.size))
      BY <1>7, <2>1, <2>6 DEF OffsetWalk
    <3>2. /\ Lists(s, Present') /\ Len(s) = Cardinality(Present') /\ Ordered(OrderBy', s, rows')
          /\ seen' = ReadAs(rows', Cut(s, 1, walk'.page * pageSetting'.size))
      BY <1>1, <1>7, <2>2, <2>3, <3>1
    <3>. QED  BY <1>7, <3>2
  <2>. QED  BY <2>4, <2>5, <2>6 DEF OffsetWalk
<1>. QED  BY <1>8, <1>9, <1>10, <1>11 DEF PInv

LEMMA OffsetPageKeeps ==
    ASSUME PInv, OffsetPage
    PROVE  PInv'
<1>1. /\ walk.at = "counted"
      /\ pageSetting' = pageSetting /\ rows' = rows /\ touched' = touched
      /\ nulls' = nulls /\ rowChanges' = rowChanges
  BY DEF OffsetPage
<1>2. WalkTypeOK /\ NullsKnown /\ pageSetting.strategy = "offset" /\ walk.page < MaxPages
  BY <1>1 DEF PInv, WalkTypeOK
<1>3. walk \in Walks  BY <1>2 DEF WalkTypeOK
<1>4. PICK a \in {"ready", "done"} :
         a = IF walk.page + 1 < PagesIn(walk.total) THEN "ready" ELSE "done"
  OBVIOUS
<1>5. PICK s \in Answers :
         LET page == Cut(s, walk.page * PageSize + 1, PageSize)
         IN /\ seen' = seen \o AsRead(page)
            /\ walk' = [walk EXCEPT !.page = @ + 1, !.total = 0, !.at = a]
  BY <1>4 DEF OffsetPage
<1>. DEFINE n == walk.page * PageSize
            p == Cut(s, n + 1, PageSize)
            P == ReadAs(rows, p)
<1>6. walk' = [walk EXCEPT !.page = @ + 1, !.total = 0, !.at = a]  BY <1>5
<1>7. /\ walk' \in Walks
      /\ walk'.at = a /\ walk'.page = walk.page + 1
  <2>1. walk.page + 1 \in 0..MaxPages  BY <1>2, <1>3, PaginationAssumption DEF Walks
  <2>. QED  BY <1>3, <1>6, <2>1 DEF Walks
<1>8. seen' = seen \o P  BY <1>5 DEF AsRead, ReadAs, RowOf
<1>9. Lists(s, Matching) /\ Len(s) = Cardinality(Matching) /\ s \in Seq(RowIds)  BY AnswersAre DEF Lists
<1>10. PageSize \in Nat \ {0} /\ walk.page \in Nat  BY <1>2, <1>3, PageSizeIs DEF Walks
<1>11. n \in Nat  BY <1>10
<1>. HIDE DEF n
<1>12. p \in Seq(RowIds) /\ \A k \in 1..Len(p) : rows[p[k]] # NoRow
  <2>1. PICK z \in Nat \ {0} : z = PageSize  BY <1>10
  <2>2. PICK e \in Nat : e = (IF n + 1 + z - 1 < Len(s) THEN n + 1 + z - 1 ELSE Len(s))
    BY <1>9, <1>11, <2>1
  <2>3. e <= Len(s) /\ Len(s) \in Nat  BY <1>9, <1>11, <2>1, <2>2
  <2>4. p = SubSeq(s, n + 1, e)  BY <2>1, <2>2 DEF Cut
  <2>5. \A i \in n + 1..e : i \in 1..Len(s)  BY <1>11, <2>3
  <2>6. \A i \in n + 1..e : s[i] \in RowIds  BY <1>9, <2>5
  <2>7. /\ SubSeq(s, n + 1, e) \in Seq(RowIds)
        /\ Len(SubSeq(s, n + 1, e)) = IF n + 1 <= e THEN e - (n + 1) + 1 ELSE 0
        /\ \A i \in 1..e - (n + 1) + 1 : SubSeq(s, n + 1, e)[i] = s[n + 1 + i - 1]
    BY <1>11, <2>6, SubSeqProperties
  <2>. HIDE DEF p
  <2>8. ASSUME NEW k \in 1..Len(p)  PROVE rows[p[k]] # NoRow
    <3>1. k \in 1..e - (n + 1) + 1  BY <1>11, <2>4, <2>7
    <3>2. p[k] = s[n + 1 + k - 1] /\ n + 1 + k - 1 \in n + 1..e  BY <1>11, <2>4, <2>7, <3>1
    <3>3. p[k] \in Matching  BY <1>9, <2>5, <3>2 DEF Lists
    <3>. QED  BY <3>3 DEF Matching, Present
  <2>. QED  BY <2>4, <2>7, <2>8
<1>13. rows \in Rows /\ seen \in Seq(Entry)  BY <1>2, GivenIs DEF WalkTypeOK, PagesTypeOK, Rows
<1>. HIDE DEF p
<1>14. P \in Seq(Entry) /\ Len(P) = Len(p) /\ \A k \in 1..Len(p) : P[k] = RowOf(rows, p[k])
  BY <1>12, <1>13, ReadIs
<1>. HIDE DEF P
<1>15. seen' \in Seq(Entry)  BY <1>8, <1>13, <1>14
<1>16. WalkTypeOK'
  <2>1. walk'.at # "counted"  BY <1>4, <1>7
  <2>. QED  BY <1>1, <1>2, <1>7, <1>15, <2>1 DEF WalkTypeOK, PagesTypeOK, Entry, Walks
<1>17. Given = seen /\ Given' = seen'
  <2>1. ~pageSetting.backward  BY <1>2, PaginationAssumption DEF WalkTypeOK, PagesTypeOK
  <2>. QED  BY <1>1, <2>1 DEF Given
<1>18. NullsKnown'
  <2>. SUFFICES ASSUME ~nulls'
                PROVE  /\ \A i \in RowIds : rows'[i] # SqlNull
                       /\ \A k \in 1..Len(seen') : seen'[k][1] # SqlNull
    BY <1>17 DEF NullsKnown
  <2>1. /\ \A i \in RowIds : rows[i] # SqlNull
        /\ \A k \in 1..Len(seen) : seen[k][1] # SqlNull
    BY <1>1, <1>2, <1>17 DEF NullsKnown
  <2>2. \A k \in 1..Len(P) : P[k][1] # SqlNull
    <3>. TAKE k \in 1..Len(P)
    <3>1. P[k] = RowOf(rows, p[k]) /\ p[k] \in RowIds  BY <1>12, <1>14
    <3>. QED  BY <2>1, <3>1 DEF RowOf
  <2>3. \A k \in 1..Len(seen') : seen'[k][1] # SqlNull
    <3>. TAKE k \in 1..Len(seen')
    <3>1. k \in 1..Len(seen \o P) /\ seen'[k] = (seen \o P)[k]  BY <1>8
    <3>2. CASE k <= Len(seen)
      <4>1. k \in 1..Len(seen) /\ (seen \o P)[k] = seen[k]  BY <1>13, <1>14, <3>1, <3>2, JoinIs
      <4>. QED  BY <2>1, <3>1, <4>1
    <3>3. CASE k > Len(seen)
      <4>1. k - Len(seen) \in 1..Len(P) /\ (seen \o P)[k] = P[k - Len(seen)]
        BY <1>13, <1>14, <3>1, <3>3, JoinIs
      <4>. QED  BY <2>2, <3>1, <4>1
    <3>4. k \in Nat /\ Len(seen) \in Nat  BY <1>13, <1>14, <3>1, JoinIs
    <3>. QED  BY <3>2, <3>3, <3>4
  <2>. QED  BY <1>1, <2>1, <2>3
<1>19. ~Orderly'  BY <1>1, <1>2 DEF Orderly
<1>20. ASSUME Undisturbed'  PROVE OffsetWalk'
  <2>1. Undisturbed /\ OffsetWalk  BY <1>1, <1>20, SettingStays DEF PInv, Undisturbed
  <2>2. OrderBy' = OrderBy /\ Present' = Present  BY <1>1, SettingStays DEF Present
  <2>3. OrderBy \in Seq(Column) /\ HasId(OrderBy)
    BY <1>2, <2>1, OrderIs DEF WalkTypeOK, PagesTypeOK, Undisturbed
  <2>4. Matching = Present  BY <1>2 DEF Matching
  <2>5. PICK z \in Nat \ {0} : z = pageSetting.size /\ z = PageSize
    <3>1. pageSetting.size \in Nat \ {0} /\ pageSetting.maxSize \in Nat \ {0}
      BY <1>2, PaginationAssumption DEF WalkTypeOK, PagesTypeOK
    <3>. QED  BY <2>1, <3>1 DEF Undisturbed, PageSize
  <2>6. Lists(s, Present) /\ Len(s) = Cardinality(Present) /\ Ordered(OrderBy, s, rows)
    BY <1>2, <1>9, <2>3, <2>4, AnswerInOrder
  <2>7. PICK m \in Nat : m = walk.page  BY <1>10
  <2>8. seen' = ReadAs(rows, Cut(s, 1, (m + 1) * z))
    <3>1. P = ReadAs(rows, Cut(s, m * z + 1, z))  BY <2>5, <2>7 DEF P, p, n
    <3>2. CASE m = 0
      <4>1. seen = <<>>  BY <2>1, <2>7, <3>2 DEF OffsetWalk
      <4>2. m * z + 1 = 1 /\ (m + 1) * z = z  BY <3>2
      <4>3. seen' = P  BY <1>8, <1>14, <4>1, ConcatEmptySeq
      <4>. QED  BY <3>1, <4>2, <4>3
    <3>3. CASE m > 0
      <4>1. PICK q \in Seq(RowIds) :
               /\ Lists(q, Present) /\ Len(q) = Cardinality(Present) /\ Ordered(OrderBy, q, rows)
               /\ seen = ReadAs(rows, Cut(q, 1, walk.page * pageSetting.size))
        BY <2>1, <2>7, <3>3 DEF OffsetWalk
      <4>2. Present \in SUBSET {i \in RowIds : rows[i] # NoRow}  BY DEF Present
      <4>3. q = s  BY ONLY <1>13, <2>3, <2>6, <4>1, <4>2, OneList
      <4>4. PICK l \in Nat : l = m * z  OBVIOUS
      <4>5. l # 0 /\ (m + 1) * z = l + z  BY <3>3, <4>4
      <4>6. seen = ReadAs(rows, Cut(s, 1, l))  BY <2>5, <2>7, <4>1, <4>3, <4>4
      <4>7. /\ Cut(s, 1, l) \o Cut(s, l + 1, z) = Cut(s, 1, l + z)
            /\ Cut(s, 1, l) \in Seq(RowIds) /\ Cut(s, l + 1, z) \in Seq(RowIds)
        BY <1>9, <4>5, CutJoin
      <4>8. ReadAs(rows, Cut(s, 1, l) \o Cut(s, l + 1, z)) = seen \o P
        BY <1>13, <3>1, <4>4, <4>6, <4>7, ReadJoin
      <4>. QED  BY <1>8, <4>5, <4>7, <4>8
    <3>. QED  BY <3>2, <3>3
  <2>9. ASSUME a = "done"  PROVE seen' = ReadAs(rows, s)
    <3>1. PICK t \in Nat : t = Len(s)  BY <1>9
    <3>2. walk.total = t  BY <1>1, <2>1, <2>6, <3>1 DEF OffsetWalk
    <3>3. ~(m + 1 < (t + z - 1) \div z)  BY <1>4, <2>5, <2>7, <2>9, <3>2 DEF PagesIn
    <3>4. (t + z - 1) \div z <= m + 1
      <4>1. (t + z - 1) \div z \in Int  BY <2>5, <3>1
      <4>. QED  BY <3>3, <4>1
    <3>5. t <= (m + 1) * z  BY <3>4, PagesInIs
    <3>6. PICK l \in Nat : l = (m + 1) * z  OBVIOUS
    <3>7. Cut(s, 1, l) = SubSeq(s, 1, t)  BY <3>1, <3>5, <3>6 DEF Cut
    <3>8. Cut(s, 1, l) = s  BY <1>9, <3>1, <3>7, SubSeqFull
    <3>. QED  BY <2>8, <3>6, <3>8
  <2>10. walk'.page = m + 1 /\ walk'.at # "counted" /\ walk'.page # 0  BY <1>4, <1>7, <2>7
  <2>11. \E q \in Seq(RowIds) :
             /\ Lists(q, Present') /\ Len(q) = Cardinality(Present') /\ Ordered(OrderBy', q, rows')
             /\ seen' = ReadAs(rows', Cut(q, 1, walk'.page * pageSetting'.size))
             /\ walk'.at = "done" => seen' = ReadAs(rows', q)
    <3>1. seen' = ReadAs(rows', Cut(s, 1, walk'.page * pageSetting'.size))
      BY <1>1, <2>5, <2>8, <2>10
    <3>2. walk'.at = "done" => seen' = ReadAs(rows', s)  BY <1>1, <1>7, <2>9
    <3>3. Lists(s, Present') /\ Len(s) = Cardinality(Present') /\ Ordered(OrderBy', s, rows')
      BY <1>1, <2>2, <2>6
    <3>. QED  BY <1>9, <3>1, <3>2, <3>3
  <2>. QED  BY <2>10, <2>11 DEF OffsetWalk
<1>. QED  BY <1>16, <1>18, <1>19, <1>20 DEF PInv

-----------------------------------------------------------------------------
(* What a client may rely on *)

LEMMA PagesInitially == ASSUME PagesInit PROVE PInv
<1>1. PICK g \in PageSettings, r \in [RowIds -> SortValues \cup {NoRow, SqlNull}] : PageStart(g, r)
  BY DEF PagesInit
<1>2. /\ pageSetting = g /\ rows = r /\ seen = <<>> /\ touched = {} /\ rowChanges = 0
      /\ walk = [at |-> "ready", cursor |-> <<>>, page |-> 0, total |-> 0]
      /\ nulls = (\E i \in RowIds : rows[i] = SqlNull)
  BY <1>1 DEF PageStart
<1>3. WalkTypeOK
  <2>1. <<>> \in Seq(Nat) /\ seen \in Seq((SortValues \cup {SqlNull}) \X RowIds)  BY <1>2
  <2>2. MaxPages \in Nat /\ MaxRowChanges \in Nat  BY PaginationAssumption
  <2>3. walk \in Walks
    BY <1>2, <2>1, <2>2 DEF Walks
  <2>4. nulls \in BOOLEAN  BY <1>2
  <2>5. walk.at # "counted"  BY <1>2
  <2>. QED  BY <1>2, <2>1, <2>2, <2>3, <2>4, <2>5 DEF WalkTypeOK, PagesTypeOK
<1>4. Given \in Seq(Entry) /\ Len(Given) = 0 /\ Given = <<>>
  <2>1. Given \in Seq(Entry) /\ Len(Given) = Len(seen) /\ Len(seen) = 0  BY <1>2, <1>3, GivenIs
  <2>. QED  BY <2>1, EmptySeq
<1>5. NullsKnown  BY <1>2, <1>4 DEF NullsKnown
<1>6. walk.at = "ready" /\ walk.cursor = <<>> /\ walk.page = 0  BY <1>2
<1>7. CursorWalk  BY <1>4, <1>6 DEF CursorWalk, RowsRise, Current, CursorAt, AllGiven
<1>8. OffsetWalk  BY <1>2, <1>6 DEF OffsetWalk
<1>. QED  BY <1>3, <1>5, <1>7, <1>8 DEF PInv

LEMMA PagesStay == ASSUME PInv, UNCHANGED pageVars PROVE PInv'
<1>1. /\ pageSetting' = pageSetting /\ rows' = rows /\ walk' = walk /\ seen' = seen
      /\ touched' = touched /\ nulls' = nulls /\ rowChanges' = rowChanges
  BY DEF pageVars
<1>2. WalkTypeOK'  BY <1>1 DEF PInv, WalkTypeOK, PagesTypeOK
<1>3. Given' = Given /\ Present' = Present /\ OrderBy' = OrderBy /\ (SortsById' <=> SortsById)
  BY <1>1, SettingStays DEF Given, Present
<1>4. NullsKnown'  BY <1>1, <1>3 DEF PInv, NullsKnown
<1>5. Orderly' => CursorWalk'
  <2>1. SUFFICES ASSUME Orderly'  PROVE CursorWalk'  OBVIOUS
  <2>2. CursorWalk  BY <1>1, <2>1, OrderlyStays DEF PInv
  <2>3. RowsRise(OrderBy', Given') /\ Current(Given', rows', touched')
    BY <1>1, <1>3, <2>2 DEF CursorWalk
  <2>4. walk'.at # "done" => CursorAt(OrderBy', Given', walk'.cursor)
    BY <1>1, <1>3, <2>2 DEF CursorWalk
  <2>5. AllGiven(OrderBy', Given', rows', touched', walk'.at = "done")
    BY <1>1, <1>3, <2>2 DEF CursorWalk
  <2>. QED  BY <2>3, <2>4, <2>5 DEF CursorWalk
<1>6. Undisturbed' => OffsetWalk'
  <2>1. SUFFICES ASSUME Undisturbed'  PROVE OffsetWalk'  OBVIOUS
  <2>2. OffsetWalk  BY <1>1, <1>3, <2>1 DEF PInv, Undisturbed
  <2>. QED  BY <1>1, <1>3, <2>2 DEF OffsetWalk
<1>. QED  BY <1>2, <1>4, <1>5, <1>6 DEF PInv

LEMMA TimesIs ==
    ASSUME WalkTypeOK, NEW i,
           \A j, k \in 1..Len(seen) : seen[j][2] = i /\ seen[k][2] = i => j = k
    PROVE  /\ Times(i) <= 1
           /\ (\E k \in 1..Len(seen) : seen[k][2] = i) => Times(i) = 1
<1>. DEFINE S == {k \in DOMAIN seen : seen[k][2] = i}
<1>1. DOMAIN seen = 1..Len(seen)  BY GivenIs
<1>2. CASE S = {}
  <2>1. Cardinality(S) = 0  BY <1>2, FS_EmptySet
  <2>. QED  BY <1>1, <1>2, <2>1 DEF Times
<1>3. CASE S # {}
  <2>1. PICK k \in S : TRUE  BY <1>3
  <2>2. S = {k}  BY <1>1, <2>1
  <2>3. Cardinality(S) = 1  BY <2>2, FS_Singleton
  <2>. QED  BY <2>3 DEF Times
<1>. QED  BY <1>2, <1>3

\* A walk whose order is that of its conditions gives what stays as it is once.
LEMMA CursorGivesOnce ==
    ASSUME PInv, Orderly, NEW i \in RowIds \ touched
    PROVE  /\ Times(i) <= 1
           /\ walk.at = "done" /\ rows[i] # NoRow /\ Clean(OrderBy, RowOf(rows, i)) => Times(i) = 1
<1>1. WalkTypeOK /\ CursorWalk  BY DEF PInv
<1>2. OrderBy \in Seq(Column)  BY <1>1, OrderIs DEF WalkTypeOK, PagesTypeOK
<1>3. /\ Given \in Seq(Entry) /\ Len(Given) = Len(seen) /\ Len(seen) \in Nat
      /\ \A k \in 1..Len(seen) :
            /\ Given[k] = seen[IF pageSetting.backward THEN (Len(seen) - k) + 1 ELSE k]
            /\ (Len(seen) - k) + 1 \in 1..Len(seen)
  BY <1>1, GivenIs
<1>4. PICK At \in [1..Len(seen) -> 1..Len(seen)] :
         \A k \in 1..Len(seen) : At[k] = IF pageSetting.backward THEN (Len(seen) - k) + 1 ELSE k
  <2>. DEFINE f == [k \in 1..Len(seen) |-> IF pageSetting.backward THEN (Len(seen) - k) + 1 ELSE k]
  <2>1. f \in [1..Len(seen) -> 1..Len(seen)]  BY <1>3
  <2>. QED  BY <2>1
<1>5. \A k \in 1..Len(seen) : Given[k] = seen[At[k]] /\ Given[At[k]] = seen[k]
  <2>. TAKE k \in 1..Len(seen)
  <2>1. Given[k] = seen[At[k]]  BY <1>3, <1>4
  <2>2. At[k] \in 1..Len(seen) /\ At[At[k]] = k
    <3>1. CASE pageSetting.backward
      <4>1. At[k] = (Len(seen) - k) + 1 /\ At[k] \in 1..Len(seen)  BY <1>4, <3>1
      <4>2. At[At[k]] = (Len(seen) - At[k]) + 1  BY <1>4, <3>1, <4>1
      <4>. QED  BY <1>3, <4>1, <4>2
    <3>2. CASE ~pageSetting.backward  BY <1>4, <3>2
    <3>. QED  BY <3>1, <3>2
  <2>3. Given[At[k]] = seen[At[At[k]]]  BY <1>3, <1>4, <2>2
  <2>. QED  BY <2>1, <2>2, <2>3
<1>6. ASSUME NEW j \in 1..Len(Given), NEW k \in 1..Len(Given), Given[j][2] = i, Given[k][2] = i
      PROVE  j = k
  <2>1. Given[j] = RowOf(rows, i) /\ Given[k] = RowOf(rows, i)  BY <1>1, <1>6 DEF CursorWalk, Current
  <2>2. Given[j] \in Entry /\ Given[k] \in Entry  BY <1>3
  <2>3. CASE j < k
    <3>1. Ahead(OrderBy, Given[j], Given[k])  BY <1>1, <2>3 DEF CursorWalk, RowsRise
    <3>. QED  BY <1>2, <2>1, <2>2, <3>1, AheadNotItself
  <2>4. CASE k < j
    <3>1. Ahead(OrderBy, Given[k], Given[j])  BY <1>1, <2>4 DEF CursorWalk, RowsRise
    <3>. QED  BY <1>2, <2>1, <2>2, <3>1, AheadNotItself
  <2>. QED  BY <1>3, <2>3, <2>4
<1>7. \A j, k \in 1..Len(seen) : seen[j][2] = i /\ seen[k][2] = i => j = k
  <2>. SUFFICES ASSUME NEW j \in 1..Len(seen), NEW k \in 1..Len(seen), seen[j][2] = i, seen[k][2] = i
                PROVE  j = k
    OBVIOUS
  <2>1. Given[At[j]][2] = i /\ Given[At[k]][2] = i  BY <1>5
  <2>2. At[j] \in 1..Len(Given) /\ At[k] \in 1..Len(Given)  BY <1>3, <1>4
  <2>3. At[j] = At[k]  BY <1>6, <2>1, <2>2
  <2>. QED  BY <1>3, <1>4, <2>3
<1>8. ASSUME walk.at = "done", rows[i] # NoRow, Clean(OrderBy, RowOf(rows, i))
      PROVE  \E k \in 1..Len(seen) : seen[k][2] = i
  <2>1. PICK k \in 1..Len(Given) : Given[k] = RowOf(rows, i)  BY <1>1, <1>8 DEF CursorWalk, AllGiven
  <2>2. At[k] \in 1..Len(seen) /\ seen[At[k]] = RowOf(rows, i)  BY <1>3, <1>4, <1>5, <2>1
  <2>3. RowOf(rows, i)[2] = i  BY DEF RowOf
  <2>. QED  BY <2>2, <2>3
<1>. QED  BY <1>1, <1>7, <1>8, TimesIs

LEMMA OffsetGivesOnce ==
    ASSUME PInv, Undisturbed, NEW i \in RowIds
    PROVE  /\ Times(i) <= 1
           /\ walk.at = "done" /\ rows[i] # NoRow => Times(i) = 1
<1>1. WalkTypeOK /\ OffsetWalk  BY DEF PInv
<1>2. rows \in Rows /\ walk.page \in Nat  BY <1>1 DEF WalkTypeOK, PagesTypeOK, Rows
<1>3. CASE walk.page = 0
  <2>1. seen = <<>> /\ walk.at # "done"  BY <1>1, <1>3 DEF OffsetWalk
  <2>2. \A j, k \in 1..Len(seen) : seen[j][2] = i /\ seen[k][2] = i => j = k  BY <2>1
  <2>. QED  BY <1>1, <2>1, <2>2, TimesIs
<1>4. CASE walk.page > 0
  <2>1. PICK s \in Seq(RowIds) :
           /\ Lists(s, Present)
           /\ seen = ReadAs(rows, Cut(s, 1, walk.page * pageSetting.size))
           /\ walk.at = "done" => seen = ReadAs(rows, s)
    BY <1>1, <1>4 DEF OffsetWalk
  <2>2. PICK z \in Nat \ {0} : z = walk.page * pageSetting.size
    <3>1. pageSetting.size \in Nat \ {0}
      BY <1>1, PaginationAssumption DEF WalkTypeOK, PagesTypeOK
    <3>2. PICK y \in Nat \ {0} : y = pageSetting.size  BY <3>1
    <3>3. walk.page * y \in Nat \ {0}  BY <1>2, <1>4
    <3>. QED  BY <3>2, <3>3
  <2>3. \A k \in 1..Len(s) : rows[s[k]] # NoRow  BY <2>1 DEF Lists, Present
  <2>. DEFINE p == Cut(s, 1, z)
  <2>4. /\ p \in Seq(RowIds) /\ Len(p) = (IF z <= Len(s) THEN z ELSE Len(s))
        /\ \A k \in 1..Len(p) : p[k] = s[k]
    BY <2>2, CutIs
  <2>. HIDE DEF p
  <2>5. \A k \in 1..Len(p) : k \in 1..Len(s)  BY <2>4
  <2>6. \A k \in 1..Len(p) : rows[p[k]] # NoRow  BY <2>3, <2>4, <2>5
  <2>7. seen = ReadAs(rows, p)  BY <2>1, <2>2 DEF p
  <2>8. Len(seen) = Len(p) /\ \A k \in 1..Len(p) : seen[k] = RowOf(rows, p[k])
    BY <1>2, <2>4, <2>6, <2>7, ReadIs
  <2>9. \A j, k \in 1..Len(seen) : seen[j][2] = i /\ seen[k][2] = i => j = k
    <3>. SUFFICES ASSUME NEW j \in 1..Len(seen), NEW k \in 1..Len(seen), seen[j][2] = i, seen[k][2] = i
                  PROVE  j = k
      OBVIOUS
    <3>1. s[j] = i /\ s[k] = i  BY <2>4, <2>8 DEF RowOf
    <3>2. j \in 1..Len(s) /\ k \in 1..Len(s)  BY <2>5, <2>8
    <3>. QED  BY <2>1, <3>1, <3>2 DEF Lists
  <2>10. ASSUME walk.at = "done", rows[i] # NoRow  PROVE \E k \in 1..Len(seen) : seen[k][2] = i
    <3>1. PICK k \in 1..Len(s) : s[k] = i  BY <2>1, <2>10 DEF Lists, Present
    <3>2. seen = ReadAs(rows, s)  BY <2>1, <2>10
    <3>3. Len(seen) = Len(s) /\ seen[k] = RowOf(rows, s[k])  BY <1>2, <2>3, <3>2, ReadIs
    <3>. QED  BY <3>1, <3>3 DEF RowOf
  <2>. QED  BY <1>1, <2>9, <2>10, TimesIs
<1>. QED  BY <1>2, <1>3, <1>4

LEMMA PagesContinueByOrder == ASSUME PInv PROVE PagesContinue
<1>. SUFFICES ASSUME pageSetting.strategy # "offset", ~ComparesNull,
                     NEW j \in DOMAIN seen, NEW k \in DOMAIN seen, j < k
              PROVE  IF pageSetting.backward
                     THEN SortedBefore(Key(seen[k][1], seen[k][2]), Key(seen[j][1], seen[j][2]))
                     ELSE SortedBefore(Key(seen[j][1], seen[j][2]), Key(seen[k][1], seen[k][2]))
  BY DEF PagesContinue
<1>1. WalkTypeOK /\ CursorWalk  BY DEF PInv, Orderly
<1>2. /\ Given \in Seq(Entry) /\ Len(Given) = Len(seen) /\ Len(seen) \in Nat /\ seen \in Seq(Entry)
      /\ \A n \in 1..Len(seen) :
            /\ Given[n] = seen[IF pageSetting.backward THEN (Len(seen) - n) + 1 ELSE n]
            /\ (Len(seen) - n) + 1 \in 1..Len(seen)
  BY <1>1, GivenIs
<1>3. j \in 1..Len(seen) /\ k \in 1..Len(seen)  BY <1>2
<1>4. \A x, y : SortedBefore(Key(x[1], x[2]), Key(y[1], y[2])) <=> Ahead(OrderBy, x, y)
  BY DEF SortedBefore, Key, Ahead, BeforeIn, KeyIn
<1>5. CASE ~pageSetting.backward
  <2>1. Given[j] = seen[j] /\ Given[k] = seen[k]  BY <1>2, <1>3, <1>5
  <2>2. Ahead(OrderBy, Given[j], Given[k])  BY <1>1, <1>2, <1>3 DEF CursorWalk, RowsRise
  <2>. QED  BY <1>4, <1>5, <2>1, <2>2
<1>6. CASE pageSetting.backward
  <2>1. PICK l \in 1..Len(seen) : l = (Len(seen) - j) + 1  BY <1>2, <1>3
  <2>2. PICK m \in 1..Len(seen) : m = (Len(seen) - k) + 1  BY <1>2, <1>3
  <2>3. m < l /\ (Len(seen) - l) + 1 = j /\ (Len(seen) - m) + 1 = k  BY <1>2, <1>3, <2>1, <2>2
  <2>4. Given[l] = seen[j] /\ Given[m] = seen[k]  BY <1>2, <1>6, <2>3
  <2>5. Ahead(OrderBy, Given[m], Given[l])  BY <1>1, <1>2, <2>3 DEF CursorWalk, RowsRise
  <2>. QED  BY <1>4, <1>6, <2>4, <2>5
<1>. QED  BY <1>5, <1>6

LEMMA PInvMeans == PInv => PagesHold
<1>. SUFFICES ASSUME PInv  PROVE PagesHold  OBVIOUS
<1>1. WalkTypeOK /\ NullsKnown /\ PagesTypeOK  BY DEF PInv, WalkTypeOK
<1>2. EachRowOnce
  <2>. SUFFICES ASSUME NEW i \in RowIds \ touched
                PROVE  IF pageSetting.strategy = "offset"
                       THEN (touched = {} /\ SortsById /\ pageSetting.size <= pageSetting.maxSize)
                            => /\ Times(i) <= 1
                               /\ walk.at = "done" /\ rows[i] # NoRow => Times(i) = 1
                       ELSE ~ComparesNull => /\ Times(i) <= 1
                                             /\ walk.at = "done" /\ rows[i] # NoRow => Times(i) = 1
    BY DEF EachRowOnce
  <2>1. CASE pageSetting.strategy = "offset"  BY <2>1, OffsetGivesOnce DEF Undisturbed
  <2>2. CASE pageSetting.strategy # "offset" /\ ~ComparesNull
    <3>1. Orderly /\ Clean(OrderBy, RowOf(rows, i))  BY <1>1, <2>2, AllClean DEF Orderly
    <3>. QED  BY <2>2, <3>1, CursorGivesOnce
  <2>. QED  BY <2>1, <2>2
<1>3. ValuesBeforeNulls
  <2>. SUFFICES ASSUME pageSetting.strategy = "relay", OrderBy[1].column # "id", OrderBy[1].ascending,
                       NEW i \in RowIds \ touched
                PROVE  /\ Times(i) <= 1
                       /\ walk.at = "done" /\ rows[i] \notin {NoRow, SqlNull} => Times(i) = 1
    BY DEF ValuesBeforeNulls
  <2>1. Orderly  BY DEF Orderly
  <2>2. rows[i] # SqlNull => Clean(OrderBy, RowOf(rows, i))  BY DEF Clean, RowOf
  <2>. QED  BY <2>1, <2>2, CursorGivesOnce
<1>. QED  BY <1>1, <1>2, <1>3, PagesContinueByOrder DEF PagesHold

\* A client that pages through a table others change gets each row that stays as it is once,
\* in the order it asked for, whatever the pages' size, the columns and the directions
\* (KeysetPaginationStrategy, RelayCursorStrategy); by offsets it does while nobody changes
\* the table and the order is total (OffsetPaginationStrategy, createPage).
THEOREM PagesGiveEachRowOnce == PagesSpec => []PagesHold
<1>1. PagesInit => PInv  BY PagesInitially
<1>2. PInv /\ [PagesNext]_pageVars => PInv'
  <2>. SUFFICES ASSUME PInv, [PagesNext]_pageVars  PROVE PInv'  OBVIOUS
  <2>1. CASE CountRows  BY <2>1, CountKeeps
  <2>2. CASE OffsetPage  BY <2>2, OffsetPageKeeps
  <2>3. CASE KeysetPage \/ RelayPage  BY <2>3, CursorPageKeeps
  <2>4. ASSUME NEW i \in RowIds, ChangeRow(i)  PROVE PInv'  BY <2>4, ChangeKeeps
  <2>5. CASE UNCHANGED pageVars  BY <2>5, PagesStay
  <2>. QED  BY <2>1, <2>2, <2>3, <2>4, <2>5 DEF PagesNext
<1>. QED  BY <1>1, <1>2, PInvMeans, PTL DEF PagesSpec
=============================================================================
