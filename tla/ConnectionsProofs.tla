------------------------- MODULE ConnectionsProofs -------------------------
(***************************************************************************)
(* What holds of Connections for any clients, sessions, tenants, bounds    *)
(* and settings of the kinds ConnectionsAssumption names.                  *)
(*                                                                         *)
(* That a session works in its tenant's schema, and that a client waits    *)
(* clean for the next one, is so because nobody else can touch its client: *)
(* Places says where every client is, and that no two places share one.    *)
(* Isolated adds to what search_path a ROLLBACK returns, OpenIsHeld who    *)
(* ends a transaction, and Tidy what a session that is giving its client   *)
(* back knows of it: that it is clean, or is of no use, or that something  *)
(* has failed already.                                                     *)
(*                                                                         *)
(* And what holds of Routing: an entry of the Map has a source of its own  *)
(* tenant (RoutesTyped), the replicas before the turn have been picked     *)
(* once more than the others (Even), and the entries that close() has      *)
(* passed are closed, have failed, or were put there since (Swept).        *)
(*                                                                         *)
(* And what holds of HealthChecks: where each connection of the pool is    *)
(* and who has it, which follows from where its probe is, and that what    *)
(* has been found of a source is said of it.                               *)
(***************************************************************************)
EXTENDS MCConnections, Routing, FiniteSetTheorems, SequenceTheorems, TLAPS

Distinct(p) == \A i, j \in 1..Len(p) : p[i] = p[j] => i = j

\* The clients that wait, in either pool.
Waiting == idle \cup ToSet(pool)

\* A client is with one session, in the proxy's pool, or idle in pg's; one that
\* is nowhere has no backend.
Places ==
    /\ Distinct(pool)
    /\ \A s, r \in Sessions : client[s] = client[r] => s = r \/ client[s] = Nobody
    /\ idle \cap ToSet(pool) = {}
    /\ \A s \in Sessions : client[s] \notin Waiting
    /\ \A c \in Clients :
           server[c] = "none" <=> c \notin Waiting \cup {client[s] : s \in Sessions}

\* s has its tenant's schema, and a ROLLBACK of its transaction returns to it.
Isolated(s) ==
    /\ handle[s] => step[s] = "using" /\ before[client[s]] = tenant[s]
    /\ step[s] = "using" => path[client[s]] = tenant[s]

\* An open transaction has a session that will end it.
OpenIsHeld ==
    \A c \in Clients : tx[c] = "open" => \E s \in Sessions : client[s] = c /\ handle[s]

\* No single failure leaves c usable and with a tenant's schema.
Clean(c) == Healthy(c) /\ setting.reset /\ faults <= 1 => path[c] = Public

\* A client that is about to be returned or reused is clean; one whose reset has
\* failed is of no use, or something has failed.
Tidy(s) ==
    /\ step[s] \in {"validate", "release"} => Clean(client[s])
    /\ step[s] = "discard" /\ Healthy(client[s]) => faults >= 1

IInv ==
    /\ TypeOK
    /\ Places
    /\ \A s \in Sessions : Isolated(s) /\ Tidy(s)
    /\ OpenIsHeld
    /\ \A c \in Waiting : Clean(c)

-----------------------------------------------------------------------------
(* The pool of the proxy, a sequence without repetitions *)

\* A popped client was in the pool once.
LEMMA Popped ==
    ASSUME NEW p \in Seq(Clients), p # <<>>, Distinct(p)
    PROVE  /\ Front(p) \in Seq(Clients) /\ Len(Front(p)) <= Len(p)
           /\ Distinct(Front(p))
           /\ Last(p) \in ToSet(p)
           /\ ToSet(Front(p)) = ToSet(p) \ {Last(p)}
<1>1. Len(p) \in Nat \ {0} /\ DOMAIN p = 1..Len(p)
  OBVIOUS
<1>2. \A i \in 1..(Len(p) - 1) : p[i] \in Clients
  BY <1>1
<1>3. /\ Front(p) \in Seq(Clients)
      /\ Len(Front(p)) = Len(p) - 1
      /\ \A i \in 1..(Len(p) - 1) : Front(p)[i] = p[i]
  <2>1. /\ SubSeq(p, 1, Len(p) - 1) \in Seq(Clients)
        /\ Len(SubSeq(p, 1, Len(p) - 1)) = IF 1 <= Len(p) - 1 THEN Len(p) - 1 - 1 + 1 ELSE 0
        /\ \A i \in 1..(Len(p) - 1 - 1 + 1) : SubSeq(p, 1, Len(p) - 1)[i] = p[1 + i - 1]
    BY <1>1, <1>2, SubSeqProperties
  <2> QED
    BY <1>1, <2>1 DEF Front
<1>4. DOMAIN Front(p) = 1..(Len(p) - 1)
  BY <1>1, <1>3
<1>5. ToSet(Front(p)) = {p[i] : i \in 1..(Len(p) - 1)}
  BY <1>3, <1>4 DEF ToSet
<1>6. ToSet(p) = {p[i] : i \in 1..Len(p)}
  BY <1>1 DEF ToSet
<1>7. ToSet(Front(p)) = ToSet(p) \ {p[Len(p)]}
  BY <1>1, <1>5, <1>6 DEF Distinct
<1> QED
  BY <1>1, <1>3, <1>6, <1>7 DEF Distinct, Last

\* What is left of p without its first n elements.
LEMMA Suffix ==
    ASSUME NEW p \in Seq(Clients), NEW k \in Nat, k = Len(p), NEW n \in 1..k,
           NEW m \in Nat, m = n + 1
    PROVE  /\ SubSeq(p, m, k) \in Seq(Clients)
           /\ Len(SubSeq(p, m, k)) = k - n
           /\ \A i \in 1..(k - n) : SubSeq(p, m, k)[i] = p[n + i]
<1>1. m \in Int /\ k \in Int /\ \A i \in m..k : p[i] \in Clients
  OBVIOUS
<1>2. /\ SubSeq(p, m, k) \in Seq(Clients)
      /\ Len(SubSeq(p, m, k)) = IF m <= k THEN k - m + 1 ELSE 0
      /\ \A i \in 1..(k - m + 1) : SubSeq(p, m, k)[i] = p[m + i - 1]
  BY <1>1, SubSeqProperties
<1>3. (IF m <= k THEN k - m + 1 ELSE 0) = k - n /\ k - m + 1 = k - n
  OBVIOUS
<1>4. \A i \in 1..(k - n) : m + i - 1 = n + i
  OBVIOUS
<1> QED
  BY <1>2, <1>3, <1>4

\* The n that have waited longest are gone, the others stay.
LEMMA Evicted ==
    ASSUME NEW p \in Seq(Clients), Distinct(p), NEW n \in 1..Len(p)
    PROVE  LET rest == SubSeq(p, n + 1, Len(p))
           IN  /\ rest \in Seq(Clients) /\ Len(rest) <= Len(p)
               /\ Distinct(rest)
               /\ ToSet(rest) = ToSet(p) \ {p[i] : i \in 1..n}
<1> DEFINE rest == SubSeq(p, n + 1, Len(p))
<1>1. Len(p) \in Nat /\ DOMAIN p = 1..Len(p)
  OBVIOUS
<1>3. /\ rest \in Seq(Clients)
      /\ Len(rest) = Len(p) - n
      /\ \A i \in 1..(Len(p) - n) : rest[i] = p[n + i]
  <2>1. PICK m \in Nat : m = n + 1
    BY <1>1
  <2>2. PICK k \in Nat : k = Len(p)
    BY <1>1
  <2>3. n \in 1..k
    BY <2>2
  <2>4. /\ SubSeq(p, m, k) \in Seq(Clients)
        /\ Len(SubSeq(p, m, k)) = k - n
        /\ \A i \in 1..(k - n) : SubSeq(p, m, k)[i] = p[n + i]
    BY <2>1, <2>2, <2>3, Suffix
  <2> QED
    BY <2>1, <2>2, <2>4
<1> HIDE DEF rest
<1>4. DOMAIN rest = 1..(Len(p) - n)
  BY <1>1, <1>3
<1>5. ToSet(rest) = {p[n + i] : i \in 1..(Len(p) - n)}
  BY <1>3, <1>4 DEF ToSet
<1>6. ToSet(p) = {p[i] : i \in 1..Len(p)}
  BY <1>1 DEF ToSet
<1>7. \A i \in 1..Len(p) : i > n => i - n \in 1..(Len(p) - n) /\ n + (i - n) = i
  BY <1>1
<1>8. ToSet(rest) = ToSet(p) \ {p[i] : i \in 1..n}
  <2>1. ASSUME NEW c \in ToSet(rest) PROVE c \in ToSet(p) \ {p[i] : i \in 1..n}
    <3>1. PICK i \in 1..(Len(p) - n) : c = p[n + i]
      BY <1>5
    <3>2. n + i \in 1..Len(p) /\ ~(n + i <= n)
      BY <1>1
    <3> QED
      BY <1>1, <1>6, <3>1, <3>2 DEF Distinct
  <2>2. ASSUME NEW c \in ToSet(p), c \notin {p[i] : i \in 1..n} PROVE c \in ToSet(rest)
    <3>1. PICK i \in 1..Len(p) : c = p[i]
      BY <1>6
    <3>2. i > n
      BY <1>1, <2>2, <3>1
    <3> QED
      BY <1>5, <1>7, <3>1, <3>2
  <2> QED
    BY <2>1, <2>2
<1>9. Distinct(rest)
  <2>1. SUFFICES ASSUME NEW i \in 1..(Len(p) - n), NEW j \in 1..(Len(p) - n), rest[i] = rest[j]
                 PROVE  i = j
    BY <1>3 DEF Distinct
  <2>2. p[n + i] = p[n + j] /\ n + i \in 1..Len(p) /\ n + j \in 1..Len(p)
    BY <1>1, <1>3, <2>1
  <2>3. n + i = n + j
    BY <2>2 DEF Distinct
  <2> QED
    BY <1>1, <2>3
<1>10. Len(rest) <= Len(p)
  BY <1>1, <1>3
<1>11. rest \in Seq(Clients)
  BY <1>3
<1> QED
  BY <1>8, <1>9, <1>10, <1>11 DEF rest

\* A client that was not there is once in the pool.
LEMMA Appended ==
    ASSUME NEW p \in Seq(Clients), Distinct(p), NEW c \in Clients, c \notin ToSet(p)
    PROVE  /\ Append(p, c) \in Seq(Clients) /\ Len(Append(p, c)) = Len(p) + 1
           /\ Distinct(Append(p, c))
           /\ ToSet(Append(p, c)) = ToSet(p) \cup {c}
<1>1. Len(p) \in Nat /\ DOMAIN p = 1..Len(p)
  OBVIOUS
<1>2. /\ Append(p, c) \in Seq(Clients)
      /\ Len(Append(p, c)) = Len(p) + 1
      /\ \A i \in 1..(Len(p) + 1) : Append(p, c)[i] = IF i = Len(p) + 1 THEN c ELSE p[i]
      /\ DOMAIN Append(p, c) = 1..(Len(p) + 1)
  BY <1>1
<1>3. \A i \in 1..Len(p) : p[i] # c
  BY <1>1 DEF ToSet
<1>4. Distinct(Append(p, c))
  BY <1>1, <1>2, <1>3 DEF Distinct
<1>5. ToSet(p) = {p[i] : i \in 1..Len(p)}
  BY <1>1 DEF ToSet
<1>6. ToSet(Append(p, c)) = {Append(p, c)[i] : i \in 1..(Len(p) + 1)}
  BY <1>2 DEF ToSet
<1>7. ToSet(Append(p, c)) = ToSet(p) \cup {c}
  BY <1>1, <1>2, <1>5, <1>6
<1> QED
  BY <1>2, <1>4, <1>7

\* There is nobody in the empty pool.
LEMMA NobodyInPool == ToSet(<<>>) = {} /\ Distinct(<<>>) /\ <<>> \in Seq(Clients) /\ Len(<<>>) = 0
  BY DEF ToSet, Distinct

\* The clients of the pool are clients.
LEMMA PoolIsOfClients == TypeOK => ToSet(pool) \subseteq Clients /\ Waiting \subseteq Clients
<1> SUFFICES ASSUME TypeOK PROVE ToSet(pool) \subseteq Clients /\ Waiting \subseteq Clients
  OBVIOUS
<1>1. DOMAIN pool = 1..Len(pool) /\ \A i \in 1..Len(pool) : pool[i] \in Clients
  BY DEF TypeOK
<1> QED
  BY <1>1 DEF TypeOK, ToSet, Waiting

-----------------------------------------------------------------------------
(* Where the clients are *)

\* In the words of the property.
LEMMA PlacesMeansOnePlace ==
    ASSUME TypeOK, Places
    PROVE  OnePlace
<1> SUFFICES ASSUME NEW c \in Clients
             PROVE  /\ \A s, r \in Sessions : client[s] = c /\ client[r] = c => s = r
                    /\ \A i, j \in 1..Len(pool) : pool[i] = c /\ pool[j] = c => i = j
                    /\ c \in ToSet(pool) \cup idle => \A s \in Sessions : client[s] # c
                    /\ c \notin ToSet(pool) \cap idle
                    /\ server[c] = "none" <=> \/ c \notin ToSet(pool) \cup idle
                                                /\ \A s \in Sessions : client[s] # c
  BY DEF OnePlace
<1>1. c # Nobody
  BY ConnectionsAssumption
<1>2. \A s, r \in Sessions : client[s] = c /\ client[r] = c => s = r
  BY <1>1 DEF Places
<1>3. \A i, j \in 1..Len(pool) : pool[i] = c /\ pool[j] = c => i = j
  BY DEF Places, Distinct
<1> QED
  BY <1>2, <1>3 DEF Places, Waiting

\* What a session holds is its own, is in no pool, and is there.
LEMMA OwnClient ==
    ASSUME IInv, NEW s \in Sessions, step[s] \notin {"idle", "borrow", "connect"}
    PROVE  /\ client[s] \in Clients /\ client[s] # Nobody
           /\ client[s] \notin Waiting /\ client[s] \notin idle /\ client[s] \notin ToSet(pool)
           /\ server[client[s]] # "none"
           /\ \A r \in Sessions \ {s} : client[r] # client[s]
<1>1. client[s] \in Clients /\ client[s] # Nobody
  BY DEF IInv, TypeOK
<1> QED
  BY <1>1 DEF IInv, Places, Waiting

\* The clients of a step that moves none.
PlacesStay ==
    /\ UNCHANGED <<pool, idle, client>>
    /\ \A c \in Clients : server'[c] = "none" <=> server[c] = "none"

LEMMA Stay ==
    ASSUME Places, PlacesStay
    PROVE  Places'
  BY DEF Places, PlacesStay, Waiting

\* The clients in C lose their place: those in D are ended, the others idle in
\* pg's pool.
LetGo(C, D) ==
    /\ C \subseteq Waiting \cup {client[s] : s \in Sessions} /\ D \subseteq C
    /\ idle' = (idle \ C) \cup (C \ D)
    /\ Distinct(pool') /\ ToSet(pool') = ToSet(pool) \ C
    /\ \A s \in Sessions : client'[s] = IF client[s] \in C THEN Nobody ELSE client[s]
    /\ \A c \in Clients : server'[c] = "none" <=> c \in D \/ server[c] = "none"

LEMMA LetGoKeepsPlaces ==
    ASSUME TypeOK, Places, NEW C \in SUBSET Clients, NEW D, LetGo(C, D)
    PROVE  Places'
<1>1. Nobody \notin Clients
  BY ConnectionsAssumption
<1>2. Waiting \subseteq Clients /\ idle \subseteq Clients /\ ToSet(pool) \subseteq Clients
  BY PoolIsOfClients DEF Waiting
<1>3. Waiting' = (Waiting \ C) \cup (C \ D)
  BY DEF LetGo, Waiting
<1>4. \A s, r \in Sessions : client'[s] = client'[r] => s = r \/ client'[s] = Nobody
  BY DEF LetGo, Places
<1>5. idle' \cap ToSet(pool') = {}
  BY DEF LetGo, Places
<1>6. \A s \in Sessions : client'[s] \notin Waiting'
  BY <1>1, <1>2, <1>3 DEF LetGo, Places
<1>7. ASSUME NEW c \in Clients
      PROVE  server'[c] = "none" <=> c \notin Waiting' \cup {client'[s] : s \in Sessions}
  <2>1. c \in {client'[s] : s \in Sessions} <=> c \in {client[s] : s \in Sessions} /\ c \notin C
    BY <1>1 DEF LetGo
  <2>2. server[c] = "none" <=> c \notin Waiting \cup {client[s] : s \in Sessions}
    BY DEF Places
  <2>3. server'[c] = "none" <=> c \in D \/ server[c] = "none"
    BY DEF LetGo
  <2>4. c \in C => c \in Waiting \cup {client[s] : s \in Sessions}
    BY DEF LetGo
  <2>5. D \subseteq C
    BY DEF LetGo
  <2> QED
    BY <1>3, <2>1, <2>2, <2>3, <2>4, <2>5
<1> QED
  BY <1>4, <1>5, <1>6, <1>7 DEF Places, LetGo

\* s, which has no client, takes c, which is with nobody.
Taken(s, c) ==
    /\ client[s] = Nobody
    /\ c \in Waiting \/ server[c] = "none"
    /\ idle' = idle \ {c}
    /\ Distinct(pool') /\ ToSet(pool') = ToSet(pool) \ {c}
    /\ client' = [client EXCEPT ![s] = c]
    /\ \A d \in Clients : server'[d] = "none" <=> d # c /\ server[d] = "none"

LEMMA TakenKeepsPlaces ==
    ASSUME TypeOK, Places, NEW s \in Sessions, NEW c \in Clients, Taken(s, c)
    PROVE  Places'
<1>1. \A r \in Sessions : client'[r] = IF r = s THEN c ELSE client[r]
  BY DEF Taken, TypeOK
<1>2. \A r \in Sessions : client[r] # c
  BY DEF Taken, Places
<1>3. Waiting' = Waiting \ {c}
  BY DEF Taken, Waiting
<1>4. \A r, q \in Sessions : client'[r] = client'[q] => r = q \/ client'[r] = Nobody
  BY <1>1, <1>2 DEF Places
<1>5. idle' \cap ToSet(pool') = {}
  BY DEF Taken, Places
<1>6. \A r \in Sessions : client'[r] \notin Waiting'
  BY <1>1, <1>3 DEF Places
<1>7. ASSUME NEW d \in Clients
      PROVE  server'[d] = "none" <=> d \notin Waiting' \cup {client'[r] : r \in Sessions}
  <2>1. d \in {client'[r] : r \in Sessions} <=> d = c \/ d \in {client[r] : r \in Sessions}
    <3>1. Nobody # d
      BY ConnectionsAssumption
    <3> QED
      BY <1>1, <3>1 DEF Taken
  <2>2. server[d] = "none" <=> d \notin Waiting \cup {client[r] : r \in Sessions}
    BY DEF Places
  <2> QED
    BY <1>3, <2>1, <2>2 DEF Taken
<1> QED
  BY <1>4, <1>5, <1>6, <1>7 DEF Places, Taken

\* s puts its client into the proxy's pool.
PutBack(s) ==
    /\ client[s] \in Clients
    /\ idle' = idle
    /\ Distinct(pool') /\ ToSet(pool') = ToSet(pool) \cup {client[s]}
    /\ client' = [client EXCEPT ![s] = Nobody]
    /\ UNCHANGED server

LEMMA PutBackKeepsPlaces ==
    ASSUME TypeOK, Places, NEW s \in Sessions, PutBack(s)
    PROVE  Places'
<1>1. \A r \in Sessions : client'[r] = IF r = s THEN Nobody ELSE client[r]
  BY DEF PutBack, TypeOK
<1>2. Nobody \notin Clients
  BY ConnectionsAssumption
<1>3. Waiting' = Waiting \cup {client[s]} /\ Waiting \subseteq Clients
  BY PoolIsOfClients DEF PutBack, Waiting
<1>4. \A r, q \in Sessions : client'[r] = client'[q] => r = q \/ client'[r] = Nobody
  BY <1>1 DEF Places
<1>5. idle' \cap ToSet(pool') = {}
  BY DEF PutBack, Places, Waiting
<1>6. \A r \in Sessions : client'[r] \notin Waiting'
  BY <1>1, <1>2, <1>3 DEF Places, PutBack
<1>7. ASSUME NEW d \in Clients
      PROVE  server'[d] = "none" <=> d \notin Waiting' \cup {client'[r] : r \in Sessions}
  <2>1. d \in {client'[r] : r \in Sessions} <=> d # client[s] /\ d \in {client[r] : r \in Sessions}
    BY <1>1, <1>2 DEF Places
  <2>2. server[d] = "none" <=> d \notin Waiting \cup {client[r] : r \in Sessions}
    BY DEF Places
  <2> QED
    BY <1>3, <2>1, <2>2 DEF PutBack
<1> QED
  BY <1>4, <1>5, <1>6, <1>7 DEF Places, PutBack

-----------------------------------------------------------------------------
(* What a step leaves alone *)

\* c keeps its state, though its backend may have died.
Kept(c) == /\ server'[c] \in {server[c], "down"}
           /\ path'[c] = path[c] /\ before'[c] = before[c] /\ tx'[c] = tx[c]

Ended(c) == server'[c] = "none" /\ path'[c] = Public /\ tx'[c] = "none"

\* A step of the sessions in M leaves the other sessions alone, and the clients
\* that M neither has nor gets are kept or ended.
OthersAlone(M) ==
    /\ setting' = setting /\ faults <= faults'
    /\ \A r \in Sessions \ M : /\ step'[r] = step[r] /\ tenant'[r] = tenant[r]
                               /\ client'[r] = client[r] /\ handle'[r] = handle[r]
    /\ \A c \in Clients : (\A s \in M : c # client[s] /\ c # client'[s]) => Kept(c) \/ Ended(c)
    /\ Waiting' \subseteq Waiting \cup {client[s] : s \in M}

\* c is clean after the step.
CleanNext(c) ==
    server'[c] = "up" /\ tx'[c] # "aborted" /\ setting.reset /\ faults' <= 1 => path'[c] = Public

\* What s has and gets is in order after its own step.
InOrder(s) ==
    /\ handle'[s] => step'[s] = "using" /\ before'[client'[s]] = tenant'[s]
    /\ step'[s] = "using" => path'[client'[s]] = tenant'[s]
    /\ step'[s] \in {"validate", "release"} => CleanNext(client'[s])
    /\ step'[s] = "discard" /\ server'[client'[s]] = "up" /\ tx'[client'[s]] # "aborted" => faults' >= 1
    /\ \A c \in {client[s], client'[s]} \cap Clients :
           /\ tx'[c] = "open" => client'[s] = c /\ handle'[s]
           /\ c \in Waiting' => CleanNext(c)

\* An ended or a kept client is clean if it was.
LEMMA StaysClean ==
    ASSUME TypeOK, TypeOK', NEW c \in Clients, Clean(c), Kept(c) \/ Ended(c),
           setting' = setting, faults <= faults'
    PROVE  CleanNext(c)
  BY DEF Clean, CleanNext, Kept, Ended, Healthy, TypeOK

LEMMA CleanIsNext ==
    ASSUME NEW c, setting' = setting
    PROVE  CleanNext(c) <=> Clean(c)'
  BY DEF Clean, CleanNext, Healthy

\* Who is not in M keeps all that IInv says of it.
LEMMA OthersInOrder ==
    ASSUME IInv, TypeOK', Places', NEW M \in SUBSET Sessions, OthersAlone(M),
           NEW r \in Sessions \ M
    PROVE  /\ (Isolated(r) /\ Tidy(r))'
           /\ client[r] = Nobody \/ Kept(client[r])
<1>1. /\ step'[r] = step[r] /\ tenant'[r] = tenant[r]
      /\ client'[r] = client[r] /\ handle'[r] = handle[r]
  BY DEF OthersAlone
<1>2. CASE client[r] = Nobody
  <2>1. step[r] \in {"idle", "borrow", "connect"} /\ handle[r] = FALSE
    BY <1>2 DEF IInv, TypeOK, Isolated
  <2> QED
    BY <1>1, <1>2, <2>1 DEF Isolated, Tidy
<1>3. CASE client[r] # Nobody
  <2>1. client[r] \in Clients
    BY <1>3 DEF IInv, TypeOK
  <2>2. \A s \in M : client[r] # client[s] /\ client[r] # client'[s]
    BY <1>1, <1>3 DEF IInv, Places
  <2>3. ~Ended(client[r])
    BY <1>1, <2>1 DEF Places, Ended
  <2>4. Kept(client[r])
    BY <2>1, <2>2, <2>3 DEF OthersAlone
  <2>5. PICK c \in Clients : c = client[r]
    BY <2>1
  <2>6. client'[r] = c
    BY <1>1, <2>5
  <2>7. Isolated(r)'
    BY <1>1, <2>4, <2>5, <2>6 DEF Isolated, IInv, Kept
  <2>8. setting' = setting /\ faults <= faults'
    BY DEF OthersAlone
  <2>9. step[r] \in {"validate", "release"} => Clean(c)'
    BY <2>4, <2>5, <2>8, StaysClean, CleanIsNext DEF IInv, Tidy
  <2>10. step[r] = "discard" /\ Healthy(c)' => faults' >= 1
    BY <2>4, <2>5, <2>8 DEF IInv, Tidy, Healthy, Kept, TypeOK
  <2>11. Tidy(r)'
    BY <1>1, <2>6, <2>9, <2>10 DEF Tidy, Clean, Healthy
  <2> QED
    BY <2>4, <2>7, <2>11
<1> QED
  BY <1>2, <1>3

\* What is left to show of a step of M.
LEMMA StepKeepsIInv ==
    ASSUME IInv, TypeOK', Places', NEW M \in SUBSET Sessions, OthersAlone(M),
           \A s \in M : InOrder(s)
    PROVE  IInv'
<1>1. setting' = setting /\ faults <= faults'
  BY DEF OthersAlone
<1>2. ASSUME NEW r \in Sessions PROVE (Isolated(r) /\ Tidy(r))'
  <2>1. CASE r \in M
    <3>1. InOrder(r)
      BY <2>1
    <3>2. Isolated(r)'
      BY <3>1 DEF InOrder, Isolated
    <3>3. Tidy(r)'
      BY <1>1, <3>1 DEF InOrder, Tidy, CleanNext, Clean, Healthy
    <3> QED
      BY <3>2, <3>3
  <2>2. CASE r \notin M
    BY <2>2, OthersInOrder
  <2> QED
    BY <2>1, <2>2
<1>3. ASSUME NEW c \in Clients, tx'[c] = "open"
      PROVE  \E s \in Sessions : client'[s] = c /\ handle'[s]
  <2>1. CASE \E s \in M : c = client[s] \/ c = client'[s]
    BY <1>3, <2>1 DEF InOrder
  <2>2. CASE \A s \in M : c # client[s] /\ c # client'[s]
    <3>1. Kept(c)
      BY <1>3, <2>2 DEF OthersAlone, Ended
    <3>2. PICK s \in Sessions : client[s] = c /\ handle[s]
      BY <1>3, <3>1 DEF IInv, OpenIsHeld, Kept
    <3>3. s \notin M
      BY <2>2, <3>2
    <3> QED
      BY <3>2, <3>3 DEF OthersAlone
  <2> QED
    BY <2>1, <2>2
<1>4. ASSUME NEW c \in Waiting' PROVE Clean(c)'
  <2>1. c \in Clients
    <3>1. (TypeOK => ToSet(pool) \subseteq Clients /\ Waiting \subseteq Clients)'
      BY PoolIsOfClients, PTL
    <3> QED
      BY <1>4, <3>1
  <2>2. CASE \E s \in M : c = client[s] \/ c = client'[s]
    <3>1. CleanNext(c)
      BY <1>4, <2>1, <2>2 DEF InOrder
    <3> QED
      BY <1>1, <3>1, CleanIsNext
  <2>3. CASE \A s \in M : c # client[s] /\ c # client'[s]
    <3>1. Kept(c) \/ Ended(c)
      BY <2>1, <2>3 DEF OthersAlone
    <3>2. c \in Waiting
      BY <1>4, <2>3 DEF OthersAlone
    <3>3. Clean(c)
      BY <3>2 DEF IInv
    <3>4. CleanNext(c)
      BY <1>1, <2>1, <3>1, <3>3, StaysClean DEF IInv
    <3> QED
      BY <1>1, <3>4, CleanIsNext
  <2> QED
    BY <2>2, <2>3
<1>5. OpenIsHeld'
  BY <1>3 DEF OpenIsHeld
<1> QED
  BY <1>2, <1>4, <1>5 DEF IInv

-----------------------------------------------------------------------------
(* Clients that are ended or released *)

BackendOK == /\ server' \in [Clients -> {"none", "up", "down"}]
             /\ path' \in [Clients -> Tenants \cup {Public}]
             /\ tx' \in [Clients -> {"none", "open", "aborted"}]
             /\ pinged' \in [Clients -> BOOLEAN]

LEMMA EndEffect ==
    ASSUME TypeOK, NEW C, End(C), before' = before
    PROVE  /\ BackendOK
           /\ \A c \in Clients : IF c \in C THEN Ended(c) ELSE Kept(c)
           /\ \A c \in Clients : server'[c] = "none" <=> c \in C \/ server[c] = "none"
  BY DEF TypeOK, BackendOK, End, Ended, Kept

LEMMA ReleaseEffect ==
    ASSUME TypeOK, NEW C \in SUBSET Clients, Release(C)
    PROVE  /\ BackendOK /\ before' = before
           /\ idle' \subseteq Clients
           /\ \A c \in Clients : Kept(c) \/ Ended(c)
           /\ idle' \subseteq idle \cup C
           /\ \E D \in SUBSET C : /\ idle' = idle \cup (C \ D)
                                 /\ \A c \in Clients : server'[c] = "none" <=> c \in D \/ server[c] = "none"
<1> DEFINE D == {c \in C : Unwanted(c)}
<1>1. before' = before /\ End(D) /\ idle' = idle \cup {c \in C : ~Unwanted(c)}
  BY DEF Release
<1>2. idle' = idle \cup (C \ D)
  BY <1>1
<1> HIDE DEF D
<1>3. /\ BackendOK
      /\ \A c \in Clients : IF c \in D THEN Ended(c) ELSE Kept(c)
      /\ \A c \in Clients : server'[c] = "none" <=> c \in D \/ server[c] = "none"
  BY <1>1, EndEffect
<1>4. D \in SUBSET C
  BY DEF D
<1> QED
  BY <1>1, <1>2, <1>3, <1>4 DEF TypeOK

\* The types of what most steps leave alone.
LEMMA TypesStay ==
    ASSUME TypeOK, BackendOK, before' = before, setting' = setting, closing' \in {"open", "proxy", "all"},
           idle' \subseteq Clients, pool' \in Seq(Clients), Len(pool') <= MaxIdle,
           UNCHANGED <<session, calls>>, faults' \in Nat
    PROVE  TypeOK'
<1>1. UNCHANGED <<step, tenant, client, handle, tries>>
  BY DEF session
<1> QED
  BY <1>1 DEF TypeOK, BackendOK

\* The clients in C are taken out of the proxy's pool and released.
LEMMA PoolReleased ==
    ASSUME IInv, NEW C \in SUBSET Clients, C \subseteq ToSet(pool), Release(C),
           pool' \in Seq(Clients), Len(pool') <= MaxIdle,
           Distinct(pool'), ToSet(pool') = ToSet(pool) \ C,
           closing' \in {"open", "proxy", "all"}, UNCHANGED <<setting, session, calls, faults>>
    PROVE  IInv'
<1>1. TypeOK /\ Places
  BY DEF IInv
<1>2. /\ BackendOK /\ before' = before
      /\ idle' \subseteq Clients
      /\ \A c \in Clients : Kept(c) \/ Ended(c)
      /\ idle' \subseteq idle \cup C
  BY <1>1, ReleaseEffect
<1>3. PICK D \in SUBSET C : /\ idle' = idle \cup (C \ D)
                            /\ \A c \in Clients : server'[c] = "none" <=> c \in D \/ server[c] = "none"
  BY <1>1, ReleaseEffect
<1>4. UNCHANGED <<step, tenant, client, handle, tries>>
  BY DEF session
<1>5. TypeOK'
  BY <1>1, <1>2, TypesStay DEF TypeOK
<1>6. LetGo(C, D)
  <2>1. C \cap idle = {} /\ \A s \in Sessions : client[s] \notin C
    BY <1>1 DEF Places, Waiting
  <2> QED
    BY <1>3, <1>4, <2>1 DEF LetGo, Waiting
<1>7. Places'
  BY <1>1, <1>6, LetGoKeepsPlaces
<1>8. OthersAlone({})
  BY <1>1, <1>2, <1>4 DEF OthersAlone, Waiting, TypeOK
<1> QED
  BY <1>5, <1>7, <1>8, StepKeepsIInv

-----------------------------------------------------------------------------
(* The proxy and the server *)

LEMMA EvictIdleInv ==
    ASSUME IInv, EvictIdle
    PROVE  IInv'
<1>1. TypeOK /\ Distinct(pool) /\ pool \in Seq(Clients) /\ Len(pool) \in Nat
  BY DEF IInv, Places, TypeOK
<1>2. PICK n \in 1..Len(pool) : /\ Release({pool[i] : i \in 1..n})
                                /\ pool' = SubSeq(pool, n + 1, Len(pool))
  BY DEF EvictIdle
<1>3. /\ pool' \in Seq(Clients) /\ Len(pool') <= Len(pool)
      /\ Distinct(pool')
      /\ ToSet(pool') = ToSet(pool) \ {pool[i] : i \in 1..n}
  BY <1>1, <1>2, Evicted
<1>4. Len(pool') <= MaxIdle
  BY <1>1, <1>3, ConnectionsAssumption DEF TypeOK
<1>5. {pool[i] : i \in 1..n} \subseteq ToSet(pool) /\ {pool[i] : i \in 1..n} \in SUBSET Clients
  BY <1>1 DEF ToSet
<1> QED
  BY <1>1, <1>2, <1>3, <1>4, <1>5, PoolReleased DEF EvictIdle, TypeOK

LEMMA CloseProxyInv ==
    ASSUME IInv, CloseProxy
    PROVE  IInv'
<1>1. TypeOK
  BY DEF IInv
<1>2. ToSet(pool) \in SUBSET Clients
  BY <1>1, PoolIsOfClients
<1>3. pool' = <<>> /\ Len(pool') <= MaxIdle
  BY NobodyInPool, ConnectionsAssumption DEF CloseProxy
<1>4. Distinct(pool') /\ ToSet(pool') = ToSet(pool) \ ToSet(pool) /\ pool' \in Seq(Clients)
  BY <1>3, NobodyInPool
<1> QED
  BY <1>2, <1>3, <1>4, PoolReleased DEF CloseProxy

LEMMA CloseInnerInv ==
    ASSUME IInv, CloseInner
    PROVE  IInv'
<1>1. TypeOK /\ Places
  BY DEF IInv
<1>2. /\ closing' = "all" /\ End(idle) /\ idle' = {} /\ before' = before /\ pool' = pool
      /\ UNCHANGED <<setting, session, calls, faults>>
  BY DEF CloseInner
<1>3. /\ BackendOK
      /\ \A c \in Clients : IF c \in idle THEN Ended(c) ELSE Kept(c)
      /\ \A c \in Clients : server'[c] = "none" <=> c \in idle \/ server[c] = "none"
  BY <1>1, <1>2, EndEffect
<1>4. TypeOK'
  BY <1>1, <1>2, <1>3, TypesStay DEF TypeOK
<1>5. UNCHANGED <<step, tenant, client, handle, tries>>
  BY <1>2 DEF session
<1>6. LetGo(idle, idle)
  BY <1>1, <1>2, <1>3, <1>5 DEF LetGo, Places, Waiting
<1>7. Places'
  BY <1>1, <1>6, LetGoKeepsPlaces DEF TypeOK
<1>8. OthersAlone({})
  BY <1>1, <1>2, <1>3, <1>5 DEF OthersAlone, Waiting, TypeOK
<1> QED
  BY <1>4, <1>7, <1>8, StepKeepsIInv

LEMMA DieInv ==
    ASSUME IInv, NEW c \in Clients, Die(c)
    PROVE  IInv'
<1>1. TypeOK /\ Places
  BY DEF IInv
<1>2. /\ server[c] = "up" /\ faults' = faults + 1 /\ before' = before /\ pool' = pool
      /\ closing' = closing /\ UNCHANGED <<setting, session, calls>>
  BY DEF Die, Fault
<1>3. UNCHANGED <<step, tenant, client, handle, tries>>
  BY <1>2 DEF session
<1>4. CASE server' = [server EXCEPT ![c] = "down"] /\ UNCHANGED <<path, tx, pinged, idle>>
  <2>1. BackendOK
    BY <1>1, <1>4 DEF BackendOK, TypeOK
  <2>2. TypeOK'
    BY <1>1, <1>2, <1>4, <2>1, TypesStay DEF TypeOK
  <2>3. Places'
    BY <1>1, <1>2, <1>3, <1>4, Stay DEF PlacesStay, TypeOK
  <2>4. \A d \in Clients : Kept(d)
    BY <1>1, <1>2, <1>4 DEF Kept, TypeOK
  <2>5. OthersAlone({})
    BY <1>1, <1>2, <1>3, <1>4, <2>4 DEF OthersAlone, Waiting, TypeOK
  <2> QED
    BY <2>2, <2>3, <2>5, StepKeepsIInv
<1>5. CASE c \in idle /\ End({c}) /\ idle' = idle \ {c}
  <2>1. /\ BackendOK
        /\ \A d \in Clients : IF d \in {c} THEN Ended(d) ELSE Kept(d)
        /\ \A d \in Clients : server'[d] = "none" <=> d \in {c} \/ server[d] = "none"
    BY <1>1, <1>2, <1>5, EndEffect
  <2>2. TypeOK'
    BY <1>1, <1>2, <1>5, <2>1, TypesStay DEF TypeOK
  <2>3. LetGo({c}, {c})
    BY <1>1, <1>2, <1>3, <1>5, <2>1 DEF LetGo, Places, Waiting
  <2>4. Places'
    BY <1>1, <2>3, LetGoKeepsPlaces
  <2>5. OthersAlone({})
    BY <1>1, <1>2, <1>3, <1>5, <2>1 DEF OthersAlone, Waiting, TypeOK
  <2> QED
    BY <2>2, <2>4, <2>5, StepKeepsIInv
<1> QED
  BY <1>4, <1>5 DEF Die

-----------------------------------------------------------------------------
(* A session without a client, and one at work with its own *)

LEMMA GotoEffect ==
    ASSUME TypeOK, NEW s \in Sessions, NEW next \in Steps, Goto(s, next)
    PROVE  /\ step' \in [Sessions -> Steps] /\ tenant' \in [Sessions -> Tenants \cup {Public}]
           /\ \A r \in Sessions : step'[r] = IF r = s THEN next ELSE step[r]
           /\ \A r \in Sessions : r # s \/ next # "idle" => tenant'[r] = tenant[r]
  BY DEF Goto, TypeOK

\* A session without a client goes on to where it still has none.
LEMMA WithoutClient ==
    ASSUME IInv, NEW s \in Sessions, step[s] \in {"idle", "borrow", "connect"},
           step' \in [Sessions -> Steps], tenant' \in [Sessions -> Tenants \cup {Public}],
           step'[s] \in {"idle", "borrow", "connect"},
           \A r \in Sessions \ {s} : step'[r] = step[r] /\ tenant'[r] = tenant[r],
           UNCHANGED <<setting, backend, pools, client, handle, tries, faults>>, calls' \in Nat
    PROVE  IInv'
<1>1. TypeOK /\ Places
  BY DEF IInv
<1>2. UNCHANGED <<server, path, before, tx, pinged, idle, pool, closing>>
  BY DEF backend, pools
<1>3. TypeOK'
  BY <1>1, <1>2 DEF TypeOK
<1>4. Places'
  BY <1>1, <1>2, Stay DEF PlacesStay
<1>5. client[s] = Nobody /\ client[s] \notin Clients /\ ~handle[s]
  BY <1>1, ConnectionsAssumption DEF IInv, TypeOK, Isolated
<1>6. OthersAlone({s})
  BY <1>1, <1>2 DEF OthersAlone, Waiting, TypeOK, Kept
<1>7. InOrder(s)
  BY <1>5 DEF InOrder
<1> QED
  BY <1>3, <1>4, <1>6, <1>7, StepKeepsIInv

\* s is at work with its client: nobody moves, and no other client changes.
AtWork(s) ==
    /\ UNCHANGED <<setting, server, pools, client>> /\ faults <= faults'
    /\ \A r \in Sessions \ {s} : step'[r] = step[r] /\ tenant'[r] = tenant[r] /\ handle'[r] = handle[r]
    /\ \A c \in Clients \ {client[s]} : path'[c] = path[c] /\ before'[c] = before[c] /\ tx'[c] = tx[c]

\* What is to be shown of its client c.
OwnInOrder(s, c) ==
    /\ handle'[s] => step'[s] = "using" /\ before'[c] = tenant'[s]
    /\ step'[s] = "using" => path'[c] = tenant'[s]
    /\ step'[s] \in {"validate", "release"} => CleanNext(c)
    /\ step'[s] = "discard" /\ server[c] = "up" /\ tx'[c] # "aborted" => faults' >= 1
    /\ tx'[c] = "open" => handle'[s]

LEMMA AtWorkInv ==
    ASSUME IInv, TypeOK', NEW s \in Sessions, step[s] \notin {"idle", "borrow", "connect"},
           AtWork(s), OwnInOrder(s, client[s])
    PROVE  IInv'
<1>1. TypeOK /\ Places
  BY DEF IInv
<1>2. UNCHANGED <<setting, server, idle, pool, closing, client>>
  BY DEF AtWork, pools
<1>3. Places'
  BY <1>1, <1>2, Stay DEF PlacesStay
<1>4. client[s] \in Clients /\ client[s] \notin Waiting
  BY OwnClient
<1>5. OthersAlone({s})
  <2>1. \A c \in Clients \ {client[s]} : Kept(c)
    BY <1>2 DEF AtWork, Kept
  <2> QED
    BY <1>1, <1>2, <2>1 DEF OthersAlone, Waiting, AtWork
<1>6. InOrder(s)
  <2>1. Waiting' = Waiting /\ client'[s] = client[s] /\ server' = server
    BY <1>2 DEF Waiting
  <2>2. PICK c \in Clients : c = client[s]
    BY <1>4
  <2>3. OwnInOrder(s, c) /\ client'[s] = c /\ c \notin Waiting'
    BY <1>4, <2>1, <2>2
  <2> QED
    BY <2>1, <2>2, <2>3 DEF InOrder, OwnInOrder
<1> QED
  BY <1>3, <1>5, <1>6, StepKeepsIInv

LEMMA GetConnectionInv ==
    ASSUME IInv, NEW s \in Sessions, GetConnection(s)
    PROVE  IInv'
<1>1. PICK t \in Tenants : tenant' = [tenant EXCEPT ![s] = t]
  BY DEF GetConnection
<1>2. TypeOK /\ "borrow" \in Steps
  BY DEF IInv, Steps
<1>3. step[s] = "idle" /\ calls' = calls + 1 /\ step' = [step EXCEPT ![s] = "borrow"]
  BY DEF GetConnection
<1>4. UNCHANGED <<setting, backend, pools, client, handle, tries, faults>>
  BY DEF GetConnection
<1>5. /\ step' \in [Sessions -> Steps] /\ tenant' \in [Sessions -> Tenants \cup {Public}]
      /\ step'[s] = "borrow" /\ calls' \in Nat
      /\ \A r \in Sessions \ {s} : step'[r] = step[r] /\ tenant'[r] = tenant[r]
  BY <1>1, <1>2, <1>3 DEF TypeOK
<1> QED
  BY <1>3, <1>4, <1>5, WithoutClient

LEMMA ConnectInv ==
    ASSUME IInv, NEW s \in Sessions, Connect(s)
    PROVE  IInv'
<1>1. TypeOK /\ "connect" \in Steps
  BY DEF IInv, Steps
<1>2. step[s] = "borrow" /\ Goto(s, "connect")
  BY DEF Connect
<1>3. UNCHANGED <<setting, backend, pools, client, handle, tries, calls, faults>>
  BY DEF Connect
<1>4. /\ step' \in [Sessions -> Steps] /\ tenant' \in [Sessions -> Tenants \cup {Public}]
      /\ step'[s] = "connect" /\ calls' \in Nat
      /\ \A r \in Sessions \ {s} : step'[r] = step[r] /\ tenant'[r] = tenant[r]
  BY <1>1, <1>2, <1>3, GotoEffect DEF TypeOK
<1> QED
  BY <1>2, <1>3, <1>4, WithoutClient

LEMMA ConnectTooLateInv ==
    ASSUME IInv, NEW s \in Sessions, ConnectTooLate(s)
    PROVE  IInv'
<1>1. TypeOK /\ "idle" \in Steps
  BY DEF IInv, Steps
<1>2. step[s] = "connect" /\ Goto(s, "idle")
  BY DEF ConnectTooLate
<1>3. UNCHANGED <<setting, backend, pools, client, handle, tries, calls, faults>>
  BY DEF ConnectTooLate
<1>4. /\ step' \in [Sessions -> Steps] /\ tenant' \in [Sessions -> Tenants \cup {Public}]
      /\ step'[s] = "idle" /\ calls' \in Nat
      /\ \A r \in Sessions \ {s} : step'[r] = step[r] /\ tenant'[r] = tenant[r]
  BY <1>1, <1>2, <1>3, GotoEffect DEF TypeOK
<1> QED
  BY <1>2, <1>3, <1>4, WithoutClient

-----------------------------------------------------------------------------
(* Work *)

LEMMA SetSearchPathInv ==
    ASSUME IInv, NEW s \in Sessions, SetSearchPath(s)
    PROVE  IInv'
<1>1. TypeOK /\ {"using", "release"} \subseteq Steps
  BY DEF IInv, Steps
<1>2. PICK c \in Clients : c = client[s]
  BY OwnClient DEF SetSearchPath
<1>3. /\ step[s] = "set"
      /\ UNCHANGED <<setting, server, before, tx, pinged, pools, client, handle, tries, calls, faults>>
  BY DEF SetSearchPath
<1>4. ~handle[s] /\ tx[c] # "open"
  <2>1. ~handle[s]
    BY <1>3 DEF IInv, Isolated
  <2>2. \A r \in Sessions \ {s} : client[r] # c
    BY <1>2, <1>3, OwnClient
  <2> QED
    BY <2>1, <2>2 DEF IInv, OpenIsHeld
<1>5. PICK next \in {"using", "release"} :
         /\ Goto(s, next)
         /\ next = "using" => path' = [path EXCEPT ![c] = tenant[s]]
         /\ next = "release" => path' = path /\ ~Healthy(c)
  BY <1>2 DEF SetSearchPath
<1>6. /\ step' \in [Sessions -> Steps] /\ tenant' \in [Sessions -> Tenants \cup {Public}]
      /\ \A r \in Sessions : step'[r] = IF r = s THEN next ELSE step[r]
      /\ \A r \in Sessions : tenant'[r] = tenant[r]
  BY <1>1, <1>5, GotoEffect
<1>7. path' \in [Clients -> Tenants \cup {Public}]
  BY <1>1, <1>5 DEF TypeOK
<1>8. TypeOK'
  <2>1. UNCHANGED <<idle, pool, closing>>
    BY <1>3 DEF pools
  <2> QED
    BY <1>1, <1>3, <1>5, <1>6, <1>7, <2>1 DEF TypeOK
<1>9. AtWork(s)
  BY <1>1, <1>2, <1>3, <1>5, <1>6 DEF AtWork, TypeOK
<1>10. OwnInOrder(s, c)
  BY <1>1, <1>3, <1>4, <1>5, <1>6 DEF OwnInOrder, CleanNext, Healthy, TypeOK
<1> QED
  BY <1>2, <1>3, <1>8, <1>9, <1>10, AtWorkInv

LEMMA BeginTransactionInv ==
    ASSUME IInv, NEW s \in Sessions, BeginTransaction(s)
    PROVE  IInv'
<1>1. TypeOK
  BY DEF IInv
<1>2. PICK c \in Clients : c = client[s]
  BY OwnClient DEF BeginTransaction
<1>3. /\ step[s] = "using" /\ before' = [before EXCEPT ![c] = path[c]]
      /\ UNCHANGED <<setting, server, path, pinged, pools, step, tenant, client, tries, calls>>
  BY <1>2 DEF BeginTransaction
<1>4. path[c] = tenant[s]
  BY <1>2, <1>3 DEF IInv, Isolated
<1>5. \/ tx' = [tx EXCEPT ![c] = "open"] /\ handle' = [handle EXCEPT ![s] = TRUE] /\ faults' = faults
      \/ tx' = [tx EXCEPT ![c] = "aborted"] /\ handle' = handle /\ ~handle[s] /\ faults' = faults + 1
  BY <1>2 DEF BeginTransaction, Fault
<1>6. TypeOK'
  <2>1. UNCHANGED <<idle, pool, closing>>
    BY <1>3 DEF pools
  <2>2. /\ tx' \in [Clients -> {"none", "open", "aborted"}]
        /\ handle' \in [Sessions -> BOOLEAN] /\ faults' \in Nat
    <3>1. /\ tx \in [Clients -> {"none", "open", "aborted"}]
          /\ handle \in [Sessions -> BOOLEAN] /\ faults \in Nat
      BY <1>1 DEF TypeOK
    <3>2. tx' = [tx EXCEPT ![c] = "open"] \/ tx' = [tx EXCEPT ![c] = "aborted"]
      BY <1>5
    <3>3. handle' = [handle EXCEPT ![s] = TRUE] \/ handle' = handle
      BY <1>5
    <3>4. faults' = faults \/ faults' = faults + 1
      BY <1>5
    <3>5. tx' \in [Clients -> {"none", "open", "aborted"}]
      BY <3>1, <3>2
    <3>6. handle' \in [Sessions -> BOOLEAN]
      BY <3>1, <3>3
    <3> QED
      BY <3>1, <3>4, <3>5, <3>6
  <2>3. before' \in [Clients -> Tenants \cup {Public}]
    BY <1>1, <1>3 DEF TypeOK
  <2>4. UNCHANGED <<setting, server, path, pinged, step, tenant, client, tries, calls>>
    BY <1>3
  <2> QED
    BY <1>1, <2>1, <2>2, <2>3, <2>4 DEF TypeOK
<1>7. AtWork(s)
  BY <1>1, <1>2, <1>3, <1>5 DEF AtWork, TypeOK
<1>8. OwnInOrder(s, c)
  BY <1>1, <1>3, <1>4, <1>5 DEF OwnInOrder, TypeOK
<1> QED
  BY <1>2, <1>3, <1>6, <1>7, <1>8, AtWorkInv

LEMMA StatementFailsInv ==
    ASSUME IInv, NEW s \in Sessions, StatementFails(s)
    PROVE  IInv'
<1>1. TypeOK
  BY DEF IInv
<1>2. PICK c \in Clients : c = client[s]
  BY OwnClient DEF StatementFails
<1>3. /\ step[s] = "using" /\ handle[s] /\ tx' = [tx EXCEPT ![c] = "aborted"] /\ faults' = faults + 1
      /\ UNCHANGED <<setting, server, path, before, pinged, pools, step, tenant, client, handle, tries, calls>>
  BY <1>2 DEF StatementFails, Fault, session
<1>4. path[c] = tenant[s] /\ before[c] = tenant[s]
  BY <1>2, <1>3 DEF IInv, Isolated
<1>5. TypeOK'
  <2>1. UNCHANGED <<idle, pool, closing>>
    BY <1>3 DEF pools
  <2> QED
    BY <1>1, <1>3, <2>1 DEF TypeOK
<1>6. AtWork(s)
  BY <1>1, <1>2, <1>3 DEF AtWork, TypeOK
<1>7. OwnInOrder(s, c)
  BY <1>1, <1>3, <1>4 DEF OwnInOrder, TypeOK
<1> QED
  BY <1>2, <1>3, <1>5, <1>6, <1>7, AtWorkInv

\* COMMIT keeps the tenant's schema, ROLLBACK returns to it.
LEMMA EndTransactionInv ==
    ASSUME IInv, NEW s \in Sessions, EndTransaction(s)
    PROVE  IInv'
<1>1. TypeOK
  BY DEF IInv
<1>2. PICK c \in Clients : c = client[s]
  BY OwnClient DEF EndTransaction
<1>3. /\ step[s] = "using" /\ handle[s] /\ handle' = [handle EXCEPT ![s] = FALSE]
      /\ tx' = [tx EXCEPT ![c] = "none"] /\ before' = [before EXCEPT ![c] = Public]
      /\ path' = path \/ path' = [path EXCEPT ![c] = before[c]]
      /\ UNCHANGED <<setting, server, pinged, pools, step, tenant, client, tries, calls, faults>>
  BY <1>2 DEF EndTransaction
<1>4. path[c] = tenant[s] /\ before[c] = tenant[s]
  BY <1>2, <1>3 DEF IInv, Isolated
<1>5. TypeOK'
  <2>1. UNCHANGED <<idle, pool, closing>>
    BY <1>3 DEF pools
  <2> QED
    BY <1>1, <1>3, <2>1 DEF TypeOK
<1>6. AtWork(s)
  BY <1>1, <1>2, <1>3 DEF AtWork, TypeOK
<1>7. OwnInOrder(s, c)
  BY <1>1, <1>3, <1>4 DEF OwnInOrder, TypeOK
<1> QED
  BY <1>2, <1>3, <1>5, <1>6, <1>7, AtWorkInv

-----------------------------------------------------------------------------
(* The way back *)

\* A session without a Transaction holds no open one.
LEMMA NotOpen ==
    ASSUME IInv, NEW s \in Sessions, ~handle[s], client[s] \in Clients
    PROVE  tx[client[s]] # "open"
<1>1. client[s] # Nobody
  BY ConnectionsAssumption
<1> QED
  BY <1>1 DEF IInv, OpenIsHeld, Places

LEMMA CloseInv ==
    ASSUME IInv, NEW s \in Sessions, Close(s)
    PROVE  IInv'
<1>1. TypeOK /\ {"reset", "release"} \subseteq Steps
  BY DEF IInv, Steps
<1>2. PICK c \in Clients : c = client[s]
  BY OwnClient DEF Close
<1>3. /\ step[s] = "using" /\ ~handle[s]
      /\ UNCHANGED <<setting, server, path, before, tx, pinged, pools, client, handle, tries, calls, faults>>
  BY DEF Close, backend
<1>4. PICK next \in {"reset", "release"} :
         Goto(s, next) /\ (next = "release" => ~setting.reset)
  BY <1>1 DEF Close, Setting
<1>5. /\ step' \in [Sessions -> Steps] /\ tenant' \in [Sessions -> Tenants \cup {Public}]
      /\ \A r \in Sessions : step'[r] = IF r = s THEN next ELSE step[r]
      /\ \A r \in Sessions : tenant'[r] = tenant[r]
  BY <1>1, <1>4, GotoEffect
<1>6. TypeOK'
  <2>1. UNCHANGED <<idle, pool, closing>>
    BY <1>3 DEF pools
  <2> QED
    BY <1>1, <1>3, <1>5, <2>1 DEF TypeOK
<1>7. AtWork(s)
  BY <1>1, <1>3, <1>5 DEF AtWork, TypeOK
<1>8. tx[c] # "open"
  BY <1>2, <1>3, NotOpen
<1>9. OwnInOrder(s, c)
  BY <1>1, <1>3, <1>4, <1>5, <1>8 DEF OwnInOrder, CleanNext
<1> QED
  BY <1>2, <1>3, <1>6, <1>7, <1>9, AtWorkInv

\* A reset that fails on a usable client is the failure that Clean counts.
LEMMA ResetInv ==
    ASSUME IInv, NEW s \in Sessions, Reset(s)
    PROVE  IInv'
<1>1. TypeOK /\ {"discard", "release"} \subseteq Steps
  BY DEF IInv, Steps
<1>2. PICK c \in Clients : c = client[s]
  BY OwnClient DEF Reset
<1>3. /\ step[s] = "reset"
      /\ UNCHANGED <<setting, server, before, tx, pinged, pools, client, handle, tries, calls>>
  BY DEF Reset
<1>4. ~handle[s] /\ tx[c] # "open"
  BY <1>2, <1>3, NotOpen DEF IInv, Isolated
<1>5. PICK next \in {"discard", "release"} :
         /\ Goto(s, next)
         /\ next = "release" => path' = [path EXCEPT ![c] = Public] /\ faults' = faults
         /\ next = "discard" => path' = path /\ IF Healthy(c) THEN faults' = faults + 1 ELSE faults' = faults
  BY <1>2 DEF Reset, Fault
<1>6. /\ step' \in [Sessions -> Steps] /\ tenant' \in [Sessions -> Tenants \cup {Public}]
      /\ \A r \in Sessions : step'[r] = IF r = s THEN next ELSE step[r]
      /\ \A r \in Sessions : tenant'[r] = tenant[r]
  BY <1>1, <1>5, GotoEffect
<1>7. path' \in [Clients -> Tenants \cup {Public}] /\ faults' \in Nat /\ faults <= faults'
  <2>1. path' = path \/ path' = [path EXCEPT ![c] = Public]
    BY <1>5
  <2>2. faults' = faults \/ faults' = faults + 1
    BY <1>5
  <2>3. path' \in [Clients -> Tenants \cup {Public}]
    BY <1>1, <2>1 DEF TypeOK
  <2>4. faults \in Nat
    BY <1>1 DEF TypeOK
  <2> QED
    BY <2>2, <2>3, <2>4
<1>8. TypeOK'
  <2>1. UNCHANGED <<idle, pool, closing>>
    BY <1>3 DEF pools
  <2> QED
    BY <1>1, <1>3, <1>5, <1>6, <1>7, <2>1 DEF TypeOK
<1>9. AtWork(s)
  BY <1>1, <1>2, <1>3, <1>5, <1>6, <1>7 DEF AtWork, TypeOK
<1>10. OwnInOrder(s, c)
  BY <1>1, <1>3, <1>4, <1>5, <1>6 DEF OwnInOrder, CleanNext, Healthy, TypeOK
<1> QED
  BY <1>2, <1>3, <1>8, <1>9, <1>10, AtWorkInv

\* A second failure is more than Clean allows for.
LEMMA DiscardInv ==
    ASSUME IInv, NEW s \in Sessions, Discard(s)
    PROVE  IInv'
<1>1. TypeOK /\ "release" \in Steps
  BY DEF IInv, Steps
<1>2. PICK c \in Clients : c = client[s]
  BY OwnClient DEF Discard
<1>3. /\ step[s] = "discard" /\ Goto(s, "release")
      /\ UNCHANGED <<setting, server, before, tx, pinged, pools, client, handle, tries, calls>>
  BY DEF Discard
<1>4. ~handle[s] /\ tx[c] # "open" /\ (Healthy(c) => faults >= 1)
  BY <1>2, <1>3, NotOpen DEF IInv, Isolated, Tidy
<1>5. \/ path' = [path EXCEPT ![c] = Public] /\ faults' = faults
      \/ path' = path /\ IF Healthy(c) THEN faults' = faults + 1 ELSE faults' = faults
  BY <1>2 DEF Discard, Fault
<1>6. /\ step' \in [Sessions -> Steps] /\ tenant' \in [Sessions -> Tenants \cup {Public}]
      /\ \A r \in Sessions : step'[r] = IF r = s THEN "release" ELSE step[r]
      /\ \A r \in Sessions : tenant'[r] = tenant[r]
  BY <1>1, <1>3, GotoEffect
<1>7. path' \in [Clients -> Tenants \cup {Public}] /\ faults' \in Nat /\ faults <= faults'
  BY <1>1, <1>5 DEF TypeOK
<1>8. TypeOK'
  <2>1. UNCHANGED <<idle, pool, closing>>
    BY <1>3 DEF pools
  <2> QED
    BY <1>1, <1>3, <1>6, <1>7, <2>1 DEF TypeOK
<1>9. AtWork(s)
  <2>1. \A d \in Clients \ {c} : path'[d] = path[d]
    BY <1>1, <1>5 DEF TypeOK
  <2> QED
    BY <1>2, <1>3, <1>6, <1>7, <2>1 DEF AtWork
<1>10. OwnInOrder(s, c)
  BY <1>1, <1>3, <1>4, <1>5, <1>6 DEF OwnInOrder, CleanNext, Healthy, TypeOK
<1> QED
  BY <1>2, <1>3, <1>8, <1>9, <1>10, AtWorkInv

\* s gives up its client, which goes to pg's pool or is ended.
LEMMA GivenUp ==
    ASSUME IInv, NEW s \in Sessions, step[s] \notin {"idle", "borrow", "connect"}, ~handle[s],
           Clean(client[s]), Release({client[s]}), client' = [client EXCEPT ![s] = Nobody],
           step' \in [Sessions -> Steps], tenant' \in [Sessions -> Tenants \cup {Public}],
           step'[s] \in {"idle", "borrow", "connect"},
           \A r \in Sessions \ {s} : step'[r] = step[r] /\ tenant'[r] = tenant[r],
           UNCHANGED <<setting, pool, closing, handle, tries, calls>>, faults' \in Nat, faults <= faults'
    PROVE  IInv'
<1>1. TypeOK /\ Places
  BY DEF IInv
<1>2. PICK c \in Clients : c = client[s]
  BY OwnClient
<1>3. c \notin idle /\ c \notin ToSet(pool) /\ c # Nobody /\ \A r \in Sessions \ {s} : client[r] # c
  BY <1>2, OwnClient
<1>4. {c} \in SUBSET Clients /\ Release({c})
  BY <1>2
<1>5. /\ BackendOK /\ before' = before
      /\ idle' \subseteq Clients
      /\ \A d \in Clients : Kept(d) \/ Ended(d)
      /\ idle' \subseteq idle \cup {c}
  BY <1>1, <1>4, ReleaseEffect
<1>6. PICK D \in SUBSET {c} : /\ idle' = idle \cup ({c} \ D)
                              /\ \A d \in Clients : server'[d] = "none" <=> d \in D \/ server[d] = "none"
  BY <1>1, <1>4, ReleaseEffect
<1>7. \A r \in Sessions : client'[r] = IF r = s THEN Nobody ELSE client[r]
  BY <1>1 DEF TypeOK
<1>8. TypeOK'
  <2>1. client' \in [Sessions -> Clients \cup {Nobody}]
    BY <1>1 DEF TypeOK
  <2>2. \A r \in Sessions : client'[r] = Nobody <=> step'[r] \in {"idle", "borrow", "connect"}
    BY <1>1, <1>7 DEF TypeOK
  <2> QED
    BY <1>1, <1>5, <2>1, <2>2 DEF TypeOK, BackendOK
<1>9. LetGo({c}, D)
  <2>1. \A r \in Sessions : client'[r] = IF client[r] \in {c} THEN Nobody ELSE client[r]
    BY <1>2, <1>3, <1>7
  <2> QED
    BY <1>1, <1>2, <1>3, <1>6, <2>1 DEF LetGo, Places
<1>10. Places'
  BY <1>1, <1>4, <1>9, LetGoKeepsPlaces
<1>11. OthersAlone({s})
  <2>1. Waiting' \subseteq Waiting \cup {client[s]}
    BY <1>2, <1>5 DEF Waiting
  <2> QED
    BY <1>5, <1>7, <2>1 DEF OthersAlone
<1>12. InOrder(s)
  <2>1. client'[s] = Nobody /\ Nobody \notin Clients /\ ~handle'[s]
    BY <1>7, ConnectionsAssumption
  <2>2. CleanNext(c)
    BY <1>1, <1>2, <1>5, <1>8, StaysClean
  <2>3. tx'[c] # "open"
    BY <1>2, <1>5, NotOpen DEF Kept, Ended
  <2> QED
    BY <1>2, <2>1, <2>2, <2>3 DEF InOrder
<1> QED
  BY <1>8, <1>10, <1>11, <1>12, StepKeepsIInv

LEMMA ValidateInv ==
    ASSUME IInv, NEW s \in Sessions, Validate(s)
    PROVE  IInv'
<1>1. TypeOK /\ {"set", "borrow"} \subseteq Steps
  BY DEF IInv, Steps
<1>2. PICK c \in Clients : c = client[s]
  BY OwnClient DEF Validate
<1>3. step[s] = "validate" /\ UNCHANGED <<setting, calls>>
  BY DEF Validate
<1>4. ~handle[s] /\ tx[c] # "open" /\ Clean(c)
  BY <1>2, <1>3, NotOpen DEF IInv, Isolated, Tidy
<1>5. CASE Goto(s, "set") /\ UNCHANGED <<backend, pools, client, handle, tries, faults>>
  <2>1. /\ step' \in [Sessions -> Steps] /\ tenant' \in [Sessions -> Tenants \cup {Public}]
        /\ \A r \in Sessions : step'[r] = IF r = s THEN "set" ELSE step[r]
        /\ \A r \in Sessions : tenant'[r] = tenant[r]
    BY <1>1, <1>5, GotoEffect
  <2>2. UNCHANGED <<server, path, before, tx, pinged, idle, pool, closing>>
    BY <1>5 DEF backend, pools
  <2>3. TypeOK'
    BY <1>1, <1>3, <1>5, <2>1, <2>2 DEF TypeOK
  <2>4. AtWork(s)
    BY <1>1, <1>3, <1>5, <2>1, <2>2 DEF AtWork, TypeOK
  <2>5. OwnInOrder(s, c)
    BY <1>4, <1>5, <2>1, <2>2 DEF OwnInOrder
  <2> QED
    BY <1>2, <1>3, <2>3, <2>4, <2>5, AtWorkInv
<1>6. CASE /\ IF Healthy(client[s]) THEN Fault ELSE UNCHANGED faults
           /\ Release({client[s]})
           /\ client' = [client EXCEPT ![s] = Nobody]
           /\ Goto(s, "borrow")
           /\ UNCHANGED <<pool, closing, handle, tries>>
  <2>1. faults \in Nat /\ (faults' = faults \/ faults' = faults + 1)
    BY <1>1, <1>6 DEF Fault, TypeOK
  <2>2. /\ step' \in [Sessions -> Steps] /\ tenant' \in [Sessions -> Tenants \cup {Public}]
        /\ \A r \in Sessions : step'[r] = IF r = s THEN "borrow" ELSE step[r]
        /\ \A r \in Sessions : tenant'[r] = tenant[r]
    BY <1>1, <1>6, GotoEffect
  <2>3. faults' \in Nat /\ faults <= faults'
    BY <2>1
  <2> QED
    BY <1>2, <1>3, <1>4, <1>6, <2>2, <2>3, GivenUp
<1> QED
  BY <1>5, <1>6 DEF Validate

LEMMA ReturnToProxyInv ==
    ASSUME IInv, NEW s \in Sessions, ReturnToProxy(s)
    PROVE  IInv'
<1>1. TypeOK /\ Places /\ "idle" \in Steps
  BY DEF IInv, Steps
<1>2. PICK c \in Clients : c = client[s]
  BY OwnClient DEF ReturnToProxy
<1>3. /\ step[s] = "release" /\ client' = [client EXCEPT ![s] = Nobody] /\ Goto(s, "idle")
      /\ UNCHANGED <<setting, closing, handle, tries, calls, faults>>
  BY DEF ReturnToProxy
<1>4. ~handle[s] /\ tx[c] # "open" /\ Clean(c)
  BY <1>2, <1>3, NotOpen DEF IInv, Isolated, Tidy
<1>5. /\ step' \in [Sessions -> Steps] /\ tenant' \in [Sessions -> Tenants \cup {Public}]
      /\ \A r \in Sessions : step'[r] = IF r = s THEN "idle" ELSE step[r]
      /\ \A r \in Sessions : r # s => tenant'[r] = tenant[r]
  BY <1>1, <1>3, GotoEffect
<1>6. CASE Release({client[s]}) /\ pool' = pool
  <2>1. faults' \in Nat /\ faults <= faults'
    BY <1>1, <1>3 DEF TypeOK
  <2> QED
    BY <1>2, <1>3, <1>4, <1>5, <1>6, <2>1, GivenUp
<1>7. CASE /\ ~(Len(pool) >= MaxIdle)
           /\ pool' = Append(pool, client[s]) /\ UNCHANGED <<backend, idle>>
  <2>1. UNCHANGED <<server, path, before, tx, pinged, idle>>
    BY <1>7 DEF backend
  <2>2. c \notin ToSet(pool) /\ pool \in Seq(Clients) /\ Distinct(pool)
    BY <1>1, <1>2, <1>3, OwnClient DEF TypeOK, Places
  <2>3. /\ pool' \in Seq(Clients) /\ Len(pool') = Len(pool) + 1
        /\ Distinct(pool')
        /\ ToSet(pool') = ToSet(pool) \cup {c}
    BY <1>2, <1>7, <2>2, Appended
  <2>4. Len(pool') <= MaxIdle
    <3>1. Len(pool) \in Nat /\ MaxIdle \in Nat
      BY <2>2, ConnectionsAssumption
    <3> QED
      BY <1>7, <2>3, <3>1
  <2>5. PutBack(s)
    BY <1>2, <1>3, <2>1, <2>3 DEF PutBack
  <2>6. Places'
    BY <1>1, <2>5, PutBackKeepsPlaces
  <2>7. \A r \in Sessions : client'[r] = IF r = s THEN Nobody ELSE client[r]
    BY <1>1, <1>3 DEF TypeOK
  <2>8. TypeOK'
    <3>1. client' \in [Sessions -> Clients \cup {Nobody}]
      BY <1>1, <1>3 DEF TypeOK
    <3>2. \A r \in Sessions : client'[r] = Nobody <=> step'[r] \in {"idle", "borrow", "connect"}
      BY <1>1, <1>5, <2>7 DEF TypeOK
    <3> QED
      BY <1>1, <1>3, <1>5, <2>1, <2>3, <2>4, <3>1, <3>2 DEF TypeOK
  <2>9. OthersAlone({s})
    <3>1. Waiting' \subseteq Waiting \cup {client[s]}
      BY <1>2, <2>1, <2>3 DEF Waiting
    <3>2. \A d \in Clients : Kept(d)
      BY <2>1 DEF Kept
    <3>3. setting' = setting /\ faults <= faults'
      BY <1>1, <1>3 DEF TypeOK
    <3> QED
      BY <1>3, <1>5, <2>7, <3>1, <3>2, <3>3 DEF OthersAlone
  <2>10. InOrder(s)
    <3>1. client'[s] = Nobody /\ Nobody \notin Clients /\ ~handle'[s]
      BY <1>3, <1>4, <2>7, ConnectionsAssumption
    <3>2. CleanNext(c)
      BY <1>3, <1>4, <2>1 DEF Clean, CleanNext, Healthy
    <3> QED
      BY <1>2, <1>4, <1>5, <2>1, <3>1, <3>2 DEF InOrder
  <2> QED
    BY <2>6, <2>8, <2>9, <2>10, StepKeepsIInv
<1> QED
  BY <1>6, <1>7 DEF ReturnToProxy

-----------------------------------------------------------------------------
(* A session gets a client *)

LEMMA ClientGot ==
    ASSUME IInv, NEW s \in Sessions, NEW c \in Clients, Taken(s, c),
           server' \in [Clients -> {"none", "up", "down"}], \A d \in Clients \ {c} : server'[d] = server[d],
           pool' \in Seq(Clients), Len(pool') <= MaxIdle,
           NEW next \in {"validate", "ping", "set"},
           next = "validate" => c \in Waiting /\ server' = server,
           step' \in [Sessions -> Steps], tenant' \in [Sessions -> Tenants \cup {Public}],
           \A r \in Sessions : step'[r] = IF r = s THEN next ELSE step[r],
           \A r \in Sessions : tenant'[r] = tenant[r],
           UNCHANGED <<setting, path, before, tx, pinged, closing, handle, tries, calls, faults>>
    PROVE  IInv'
<1>1. TypeOK /\ Places
  BY DEF IInv
<1>2. Places'
  BY <1>1, TakenKeepsPlaces
<1>3. /\ \A r \in Sessions : client'[r] = IF r = s THEN c ELSE client[r]
      /\ client' \in [Sessions -> Clients \cup {Nobody}]
  BY <1>1 DEF Taken, TypeOK
<1>4. c # Nobody /\ client[s] = Nobody /\ Nobody \notin Clients
  BY ConnectionsAssumption DEF Taken
<1>5. step[s] \in {"idle", "borrow", "connect"} /\ ~handle[s]
  BY <1>1, <1>4 DEF IInv, TypeOK, Isolated
<1>6. TypeOK'
  <2>1. \A r \in Sessions : client'[r] = Nobody <=> step'[r] \in {"idle", "borrow", "connect"}
    BY <1>1, <1>3, <1>4 DEF TypeOK
  <2>2. idle' \subseteq Clients
    BY <1>1 DEF Taken, TypeOK
  <2> QED
    BY <1>1, <1>3, <2>1, <2>2 DEF TypeOK
<1>7. OthersAlone({s})
  <2>1. Waiting' \subseteq Waiting
    BY DEF Taken, Waiting
  <2>2. \A d \in Clients \ {c} : Kept(d)
    BY DEF Kept
  <2>3. setting' = setting /\ faults <= faults'
    BY <1>1 DEF TypeOK
  <2> QED
    BY <1>3, <2>1, <2>2, <2>3 DEF OthersAlone
<1>8. InOrder(s)
  <2>1. tx'[c] # "open"
    <3>1. \A r \in Sessions : client[r] # c
      BY <1>1 DEF Taken, Places
    <3> QED
      BY <3>1 DEF IInv, OpenIsHeld
  <2>2. c \notin Waiting' /\ client'[s] = c
    BY <1>3 DEF Taken, Waiting
  <2>3. next = "validate" => CleanNext(c)
    BY DEF IInv, Clean, CleanNext, Healthy
  <2>4. {client[s], client'[s]} \cap Clients = {c}
    BY <1>4, <2>2
  <2>5. step'[s] = next /\ ~handle'[s]
    BY <1>5
  <2> QED
    BY <2>1, <2>2, <2>3, <2>4, <2>5 DEF InOrder
<1> QED
  BY <1>2, <1>6, <1>7, <1>8, StepKeepsIInv

LEMMA BorrowInv ==
    ASSUME IInv, NEW s \in Sessions, Borrow(s)
    PROVE  IInv'
<1>1. /\ TypeOK /\ Places /\ {"validate", "set"} \subseteq Steps
      /\ pool \in Seq(Clients) /\ pool # <<>> /\ Distinct(pool) /\ Len(pool) \in Nat /\ Len(pool) <= MaxIdle
  BY DEF IInv, Steps, TypeOK, Places, Borrow
<1>2. PICK c : c = Last(pool)
  OBVIOUS
<1>3. /\ step[s] = "borrow" /\ pool' = Front(pool) /\ UNCHANGED <<setting, calls, faults>>
  BY DEF Borrow
<1>4. /\ pool' \in Seq(Clients) /\ Len(pool') <= Len(pool)
      /\ Distinct(pool')
      /\ c \in ToSet(pool)
      /\ ToSet(pool') = ToSet(pool) \ {c}
  BY <1>1, <1>2, <1>3, Popped
<1>5. Len(pool') <= MaxIdle
  <2>1. Len(pool') \in Nat /\ MaxIdle \in Nat
    BY <1>4, ConnectionsAssumption
  <2> QED
    BY <1>1, <1>4, <2>1
<1>6. c \in Clients
  BY <1>1, <1>4, PoolIsOfClients
<1>7. CASE Release({c}) /\ UNCHANGED <<session, closing>>
  BY <1>1, <1>3, <1>4, <1>5, <1>6, <1>7, PoolReleased DEF TypeOK
<1>8. CASE /\ client' = [client EXCEPT ![s] = c]
           /\ Goto(s, IF setting.validate THEN "validate" ELSE "set")
           /\ UNCHANGED <<backend, idle, closing, handle, tries>>
  <2>1. UNCHANGED <<server, path, before, tx, pinged, idle>>
    BY <1>8 DEF backend
  <2>2. client[s] = Nobody
    BY <1>1, <1>3 DEF TypeOK
  <2>3. c \in Waiting /\ c \notin idle /\ server[c] # "none"
    BY <1>1, <1>4, <1>6 DEF Waiting, Places
  <2>4. Taken(s, c)
    BY <1>4, <1>8, <2>1, <2>2, <2>3 DEF Taken
  <2>5. PICK next \in {"validate", "set"} : Goto(s, next)
    BY <1>8
  <2>6. /\ step' \in [Sessions -> Steps] /\ tenant' \in [Sessions -> Tenants \cup {Public}]
        /\ \A r \in Sessions : step'[r] = IF r = s THEN next ELSE step[r]
        /\ \A r \in Sessions : tenant'[r] = tenant[r]
    BY <1>1, <2>5, GotoEffect
  <2>7. server' \in [Clients -> {"none", "up", "down"}]
    BY <1>1, <2>1 DEF TypeOK
  <2> QED
    BY <1>3, <1>4, <1>5, <1>6, <1>8, <2>1, <2>3, <2>4, <2>5, <2>6, <2>7, ClientGot
<1> QED
  BY <1>2, <1>7, <1>8 DEF Borrow

LEMMA GrantInv ==
    ASSUME IInv, NEW s \in Sessions, Grant(s)
    PROVE  IInv'
<1>1. /\ TypeOK /\ Places /\ {"ping", "set"} \subseteq Steps
      /\ pool \in Seq(Clients) /\ Distinct(pool) /\ Len(pool) <= MaxIdle
  BY DEF IInv, Steps, TypeOK, Places
<1>2. /\ step[s] = "connect"
      /\ UNCHANGED <<setting, path, before, tx, pinged, pool, closing, handle, tries, calls, faults>>
  BY DEF Grant
<1>3. PICK c \in Clients :
         /\ c \in idle \/ server[c] = "none"
         /\ client' = [client EXCEPT ![s] = c]
         /\ idle' = idle \ {c}
         /\ server' = [server EXCEPT ![c] = IF c \in idle THEN @ ELSE "up"]
         /\ Goto(s, "ping") \/ Goto(s, "set")
  BY DEF Grant
<1>4. PICK next \in {"ping", "set"} : Goto(s, next)
  BY <1>3
<1>5. /\ step' \in [Sessions -> Steps] /\ tenant' \in [Sessions -> Tenants \cup {Public}]
      /\ \A r \in Sessions : step'[r] = IF r = s THEN next ELSE step[r]
      /\ \A r \in Sessions : tenant'[r] = tenant[r]
  BY <1>1, <1>4, GotoEffect
<1>6. /\ server' \in [Clients -> {"none", "up", "down"}]
      /\ \A d \in Clients : server'[d] = IF d = c /\ c \notin idle THEN "up" ELSE server[d]
  BY <1>1, <1>3 DEF TypeOK
<1>7. Taken(s, c)
  <2>1. client[s] = Nobody
    BY <1>1, <1>2 DEF TypeOK
  <2>2. c \notin ToSet(pool) /\ (c \in idle => server[c] # "none")
    BY <1>1, <1>3 DEF Places, Waiting
  <2>3. c \in Waiting \/ server[c] = "none"
    BY <1>3 DEF Waiting
  <2>4. Distinct(pool') /\ ToSet(pool') = ToSet(pool) \ {c}
    BY <1>1, <1>2, <2>2
  <2>5. \A d \in Clients : server'[d] = "none" <=> d # c /\ server[d] = "none"
    BY <1>6, <2>2
  <2> QED
    BY <1>3, <2>1, <2>3, <2>4, <2>5 DEF Taken
<1> QED
  BY <1>1, <1>2, <1>5, <1>6, <1>7, ClientGot

LEMMA PingInv ==
    ASSUME IInv, NEW s \in Sessions, Ping(s)
    PROVE  IInv'
<1>1. TypeOK /\ Places /\ {"set", "idle", "connect"} \subseteq Steps
  BY DEF IInv, Steps
<1>2. PICK c \in Clients : c = client[s]
  BY OwnClient DEF Ping
<1>3. step[s] = "ping" /\ UNCHANGED <<setting, before, pools, handle, calls, faults>>
  BY DEF Ping
<1>4. ~handle[s] /\ tx[c] # "open"
  BY <1>2, <1>3, NotOpen DEF IInv, Isolated
<1>5. UNCHANGED <<idle, pool, closing>>
  BY <1>3 DEF pools
<1>6. c \notin Waiting /\ c # Nobody /\ \A r \in Sessions \ {s} : client[r] # c
  BY <1>2, <1>3, OwnClient
<1>7. CASE Healthy(c)
  <2>1. /\ pinged' = [pinged EXCEPT ![c] = TRUE] /\ Goto(s, "set") /\ tries' = [tries EXCEPT ![s] = 0]
        /\ UNCHANGED <<server, path, tx, client>>
    BY <1>2, <1>7 DEF Ping
  <2>2. /\ step' \in [Sessions -> Steps] /\ tenant' \in [Sessions -> Tenants \cup {Public}]
        /\ \A r \in Sessions : step'[r] = IF r = s THEN "set" ELSE step[r]
        /\ \A r \in Sessions : tenant'[r] = tenant[r]
    BY <1>1, <2>1, GotoEffect
  <2>3. TypeOK'
    BY <1>1, <1>3, <1>5, <2>1, <2>2 DEF TypeOK
  <2>4. AtWork(s)
    BY <1>1, <1>3, <2>1, <2>2 DEF AtWork, TypeOK
  <2>5. OwnInOrder(s, c)
    BY <1>3, <1>4, <2>1, <2>2 DEF OwnInOrder
  <2> QED
    BY <1>2, <1>3, <2>3, <2>4, <2>5, AtWorkInv
<1>8. CASE ~Healthy(c)
  <2>1. /\ End({c}) /\ client' = [client EXCEPT ![s] = Nobody]
        /\ tries' = [tries EXCEPT ![s] = (tries[s] + 1) % MaxPings]
    BY <1>2, <1>8 DEF Ping
  <2>2. PICK next \in {"idle", "connect"} : Goto(s, next)
    BY <1>2, <1>8 DEF Ping
  <2>3. /\ step' \in [Sessions -> Steps] /\ tenant' \in [Sessions -> Tenants \cup {Public}]
        /\ \A r \in Sessions : step'[r] = IF r = s THEN next ELSE step[r]
        /\ \A r \in Sessions : r # s => tenant'[r] = tenant[r]
    BY <1>1, <2>2, GotoEffect
  <2>4. /\ BackendOK
        /\ \A d \in Clients : IF d \in {c} THEN Ended(d) ELSE Kept(d)
        /\ \A d \in Clients : server'[d] = "none" <=> d \in {c} \/ server[d] = "none"
    BY <1>1, <1>3, <2>1, EndEffect
  <2>5. \A r \in Sessions : client'[r] = IF r = s THEN Nobody ELSE client[r]
    BY <1>1, <2>1 DEF TypeOK
  <2>6. TypeOK'
    <3>1. client' \in [Sessions -> Clients \cup {Nobody}]
      BY <1>1, <2>1 DEF TypeOK
    <3>2. \A r \in Sessions : client'[r] = Nobody <=> step'[r] \in {"idle", "borrow", "connect"}
      BY <1>1, <2>3, <2>5 DEF TypeOK
    <3>3. tries' \in [Sessions -> Nat]
      <4>1. MaxPings \in Nat \ {0} /\ tries[s] \in Nat
        BY <1>1, ConnectionsAssumption DEF TypeOK
      <4>2. (tries[s] + 1) % MaxPings \in Nat
        BY <4>1
      <4> QED
        BY <1>1, <2>1, <4>2 DEF TypeOK
    <3> QED
      BY <1>1, <1>3, <1>5, <2>3, <2>4, <3>1, <3>2, <3>3 DEF TypeOK, BackendOK
  <2>7. LetGo({c}, {c})
    <3>1. \A r \in Sessions : client'[r] = IF client[r] \in {c} THEN Nobody ELSE client[r]
      BY <1>2, <1>6, <2>5
    <3> QED
      BY <1>1, <1>2, <1>5, <1>6, <2>4, <3>1 DEF LetGo, Places, Waiting
  <2>8. Places'
    BY <1>1, <2>7, LetGoKeepsPlaces
  <2>9. OthersAlone({s})
    BY <1>1, <1>3, <1>5, <2>3, <2>4, <2>5 DEF OthersAlone, Waiting, TypeOK
  <2>10. InOrder(s)
    <3>1. client'[s] = Nobody /\ Nobody \notin Clients /\ ~handle'[s]
      BY <1>3, <1>4, <2>5, ConnectionsAssumption
    <3> QED
      BY <1>2, <2>3, <2>4, <3>1 DEF InOrder, CleanNext, Ended
  <2> QED
    BY <2>6, <2>8, <2>9, <2>10, StepKeepsIInv
<1> QED
  BY <1>7, <1>8

-----------------------------------------------------------------------------
(* The theorems *)

LEMMA InitIInv == Init => IInv
<1> SUFFICES ASSUME Init PROVE IInv
  OBVIOUS
<1>1. pool = <<>> /\ ToSet(pool) = {} /\ Distinct(pool) /\ pool \in Seq(Clients) /\ Len(pool) = 0
  BY NobodyInPool DEF Init
<1>2. TypeOK
  BY <1>1, ConnectionsAssumption DEF Init, TypeOK, Steps
<1>3. Waiting = {}
  BY <1>1 DEF Init, Waiting
<1>4. Places
  BY <1>1, <1>3, ConnectionsAssumption DEF Init, Places
<1> QED
  BY <1>2, <1>3, <1>4 DEF Init, IInv, Isolated, Tidy, OpenIsHeld

LEMMA NextIInv == IInv /\ [Next]_vars => IInv'
<1> SUFFICES ASSUME IInv, [Next]_vars PROVE IInv'
  OBVIOUS
<1>1. ASSUME NEW s \in Sessions,
             \/ GetConnection(s) \/ Grant(s) \/ ConnectTooLate(s)
             \/ BeginTransaction(s) \/ StatementFails(s)
             \/ Close(s) \/ Progress(s)
      PROVE  IInv'
  <2>1. CASE Progress(s)
    BY <2>1, BorrowInv, ValidateInv, ConnectInv, PingInv, SetSearchPathInv, EndTransactionInv,
       ResetInv, DiscardInv, ReturnToProxyInv DEF Progress
  <2> QED
    BY <1>1, <2>1, GetConnectionInv, GrantInv, ConnectTooLateInv, BeginTransactionInv,
       StatementFailsInv, CloseInv
<1>2. CASE EvictIdle
  BY <1>2, EvictIdleInv
<1>3. CASE CloseProxy
  BY <1>3, CloseProxyInv
<1>4. CASE CloseInner
  BY <1>4, CloseInnerInv
<1>5. ASSUME NEW c \in Clients, Die(c) PROVE IInv'
  BY <1>5, DieInv
<1>6. CASE UNCHANGED vars
  BY <1>6 DEF vars, backend, pools, session, IInv, TypeOK, Places, Waiting, Isolated, Tidy, OpenIsHeld,
     Clean, Healthy
<1> QED
  BY <1>1, <1>2, <1>3, <1>4, <1>5, <1>6 DEF Next

\* Everywhere a client can be, and whatever fails: the inductive invariant.
THEOREM Invariance == Spec => []IInv
  BY InitIInv, NextIInv, PTL DEF Spec

\* The variables keep their types, and the proxy's pool its limit.
THEOREM TypeCorrect == Spec => []TypeOK
<1>1. IInv => TypeOK
  BY DEF IInv
<1> QED
  BY <1>1, Invariance, PTL

\* No two sessions share a connection, none is in a pool twice or while it is in
\* use, and none is lost: of any number of clients, sessions and closings.
THEOREM EveryClientInOnePlace == Spec => []OnePlace
<1>1. IInv => OnePlace
  BY PlacesMeansOnePlace DEF IInv
<1> QED
  BY <1>1, Invariance, PTL

\* What a session does runs in the schema of its tenant, through COMMIT, ROLLBACK
\* and statements that fail, for any tenants.
THEOREM SessionsStayInTheirTenant == Spec => []TenantIsolation
<1>1. IInv => TenantIsolation
  BY DEF IInv, Isolated, TenantIsolation
<1> QED
  BY <1>1, Invariance, PTL

\* A usable client that waits has no transaction open and, with resetOnRelease and
\* at most one failure, no tenant's schema.
THEOREM WaitingClientsAreClean == Spec => []IdleIsReset
<1>1. ASSUME IInv, NEW c \in Waiting, Healthy(c)
      PROVE  tx[c] = "none" /\ (setting.reset /\ faults <= 1 => path[c] = Public)
  <2>1. c \in Clients
    BY <1>1, PoolIsOfClients DEF IInv
  <2>2. tx[c] # "open"
    BY <1>1, <2>1 DEF IInv, OpenIsHeld, Places
  <2> QED
    BY <1>1, <2>1, <2>2 DEF IInv, Clean, Healthy, TypeOK
<1>2. IInv => IdleIsReset
  BY <1>1 DEF IdleIsReset, Waiting
<1> QED
  BY <1>2, Invariance, PTL
-----------------------------------------------------------------------------
(* Routing *)

RoutingSpec == RoutingInit /\ [][RoutingNext]_routingVars

Scopes == [tenant : RouteKeys \cup {NoTenant}, readOnly : BOOLEAN]

Awaiting == [at : {"none", "asked", "again"}, source : RoutedSources \cup {NoTenant},
             replica : Nat, scope : Scopes]

Sweeps == [at : {"none", "closing", "closed", "threw"}, visited : Nat,
           failed : SUBSET RoutedSources]

RoutesTyped ==
    /\ routing \in RoutingKinds
    /\ routes \in Seq(RouteKeys \X RoutedSources)
    /\ \A i \in 1..Len(routes) : routes[i][2].of = routes[i][1]

\* What is awaited was asked of a source of the tenant in the scope of the call.
Asked(x) ==
    x.at # "none" =>
        /\ x.source \in RoutedSources
        /\ x.source.of = IF x.scope.tenant = NoTenant THEN routing.default ELSE x.scope.tenant
        /\ x.replica > 0 => x.scope.readOnly

Asking ==
    /\ scopes \in [RoutedCallers -> Seq(Scopes)]
    /\ awaited \in [RoutedCallers -> Awaiting]
    /\ \A c \in RoutedCallers : Asked(awaited[c])

\* The replicas up to the turn have been picked once more than the others.
InTurn(d, p, t) ==
    \E q \in Nat : p = [i \in 1..d.replicas |-> q + IF i <= t THEN 1 ELSE 0]

Even ==
    /\ turn \in [RoutedSources -> Nat]
    /\ \A d \in RoutedSources : turn[d] = 0 \/ turn[d] < d.replicas
    /\ DOMAIN picks = RoutedSources /\ picks = [d \in RoutedSources |-> picks[d]]
    /\ \A d \in RoutedSources : InTurn(d, picks[d], turn[d])

\* close() has been where d is, or d came after it.
DoneWith(d) == ~isOpen[d] \/ d \in sweep.failed \cup placed

Swept ==
    /\ isOpen \in [RoutedSources -> BOOLEAN] /\ placed \subseteq RoutedSources
    /\ sweep \in Sweeps /\ sweep.visited <= Len(routes)
    /\ sweep.at = "none" => sweep.visited = 0
    /\ sweep.at = "closed" => sweep.failed = {}
    /\ \A i \in 1..Len(routes) :
           i <= sweep.visited \/ sweep.at \in {"closed", "threw"} => DoneWith(routes[i][2])

RInv == RoutesTyped /\ Asking /\ Even /\ Swept

\* An entry taken out of the Map moves those behind it forward.
LEMMA EntryRemoved ==
    ASSUME NEW S, NEW s \in Seq(S), NEW i \in 1..Len(s)
    PROVE  /\ RemoveAt(s, i) \in Seq(S) /\ Len(RemoveAt(s, i)) = Len(s) - 1
           /\ \A j \in 1..(Len(s) - 1) : RemoveAt(s, i)[j] = IF j < i THEN s[j] ELSE s[j + 1]
<1>. DEFINE a == SubSeq(s, 1, i - 1)
            b == SubSeq(s, i + 1, Len(s))
<1>1. a \in Seq(S) /\ Len(a) = i - 1 /\ \A j \in 1..(i - 1) : a[j] = s[j]
  BY SubSeqProperties
<1>2. b \in Seq(S) /\ Len(b) = Len(s) - i /\ \A j \in 1..(Len(s) - i) : b[j] = s[i + j]
  <2>1. i + 1 \in 1..(Len(s) + 1) /\ Len(s) \in (i + 1 - 1)..Len(s)
    OBVIOUS
  <2>. QED  BY <2>1, SubSeqProperties
<1>. HIDE DEF a, b
<1>3. /\ a \o b \in Seq(S) /\ Len(a \o b) = Len(s) - 1
      /\ \A j \in 1..(Len(s) - 1) : (a \o b)[j] = IF j <= i - 1 THEN a[j] ELSE b[j - (i - 1)]
  <2>1. a \o b \in Seq(S)  BY <1>1, <1>2, ConcatProperties
  <2>2. Len(a \o b) = Len(a) + Len(b)  BY <1>1, <1>2, ConcatProperties
  <2>3. \A j \in 1..(Len(a) + Len(b)) : (a \o b)[j] = IF j <= Len(a) THEN a[j] ELSE b[j - Len(a)]
    BY <1>1, <1>2, ConcatProperties, Zenon
  <2>4. Len(a) + Len(b) = Len(s) - 1 /\ Len(a) = i - 1  BY <1>1, <1>2
  <2>. QED  BY <2>1, <2>2, <2>3, <2>4
<1>4. ASSUME NEW j \in 1..(Len(s) - 1) PROVE (a \o b)[j] = IF j < i THEN s[j] ELSE s[j + 1]
  <2>1. CASE j < i
    <3>1. j \in 1..(i - 1) /\ j <= i - 1  BY <2>1
    <3>2. (a \o b)[j] = a[j] /\ a[j] = s[j]  BY <1>1, <1>3, <3>1
    <3>. QED  BY <2>1, <3>2
  <2>2. CASE j >= i
    <3>1. j - (i - 1) \in 1..(Len(s) - i) /\ i + (j - (i - 1)) = j + 1  BY <2>2
    <3>2. (a \o b)[j] = b[j - (i - 1)]  BY <1>3, <2>2
    <3>3. b[j - (i - 1)] = s[i + (j - (i - 1))]  BY <1>2, <3>1
    <3>4. s[i + (j - (i - 1))] = s[j + 1]  BY <3>1
    <3>5. (a \o b)[j] = s[j + 1]  BY <3>2, <3>3, <3>4, Zenon
    <3>. QED  BY <2>2, <3>5
  <2>3. j < i \/ j >= i  OBVIOUS
  <2>. QED  BY <2>1, <2>2, <2>3, Zenon
<1>5. RemoveAt(s, i) = a \o b  BY DEF RemoveAt, a, b
<1>. QED  BY <1>3, <1>4, <1>5

LEMMA ScopeIs ==
    ASSUME Asking, NEW c \in RoutedCallers
    PROVE  Scope(c) \in Scopes
<1>1. scopes[c] \in Seq(Scopes)  BY DEF Asking
<1>2. Outside \in Scopes  BY DEF Outside, Scopes
<1>3. CASE scopes[c] # <<>>
  <2>1. Len(scopes[c]) \in 1..Len(scopes[c])  BY <1>1, <1>3, EmptySeq
  <2>. QED  BY <1>1, <1>3, <2>1 DEF Scope, Last
<1>. QED  BY <1>2, <1>3 DEF Scope

\* A source that the Map has for a tenant is the tenant's own.
LEMMA RoutedToIts ==
    ASSUME RoutesTyped, NEW k, NEW d \in RoutedTo(k)
    PROVE  d \in RoutedSources /\ d.of = k
<1>1. PICK j \in DOMAIN routes : routes[j][1] = k /\ d = routes[j][2]  BY DEF RoutedTo
<1>2. j \in 1..Len(routes)  BY DEF RoutesTyped
<1>. QED  BY <1>1, <1>2 DEF RoutesTyped

LEMMA FirstSourceIs ==
    ASSUME NEW k \in RouteKeys
    PROVE  FirstSource(k) \in RoutedSources /\ FirstSource(k).of = k
BY RoutingAssumption DEF FirstSource

LEMMA KeysInOrder ==
    /\ Cardinality(RouteKeys) \in Nat
    /\ \A i \in 1..Cardinality(RouteKeys) : SetToSeq(RouteKeys)[i] \in RouteKeys
<1>1. Cardinality(RouteKeys) \in Nat /\ ExistsBijection(1..Cardinality(RouteKeys), RouteKeys)
  BY RoutingAssumption, FS_CardinalityType
<1>2. PICK f \in Bijection(1..Cardinality(RouteKeys), RouteKeys) : TRUE
  BY <1>1 DEF ExistsBijection
<1>3. f \in [1..Cardinality(RouteKeys) -> RouteKeys] /\ IsInjective(f)
  BY <1>2 DEF Bijection, Injection
<1>4. SetToSeq(RouteKeys) \in [1..Cardinality(RouteKeys) -> RouteKeys]
  BY <1>3 DEF SetToSeq
<1>. QED  BY <1>1, <1>4

LEMMA InitRouting == RoutingInit => RInv
<1>. SUFFICES ASSUME NEW k \in RoutingKinds, RoutingStart(k) PROVE RInv  BY DEF RoutingInit
<1>1. RoutesTyped
  <2>. DEFINE n == Cardinality(RouteKeys)
              at(i) == <<SetToSeq(RouteKeys)[i], FirstSource(SetToSeq(RouteKeys)[i])>>
  <2>1. n \in Nat /\ \A i \in 1..n : SetToSeq(RouteKeys)[i] \in RouteKeys  BY KeysInOrder
  <2>2. routes = [i \in 1..n |-> at(i)]  BY DEF RoutingStart
  <2>3. \A i \in 1..n : at(i) \in RouteKeys \X RoutedSources /\ at(i)[2].of = at(i)[1]
    BY <2>1, FirstSourceIs
  <2>. HIDE DEF n, at
  <2>4. routes \in Seq(RouteKeys \X RoutedSources) /\ Len(routes) = n
        /\ \A i \in 1..n : routes[i] = at(i)
    BY <2>1, <2>2, <2>3
  <2>. QED  BY <2>3, <2>4 DEF RoutesTyped, RoutingStart
<1>2. Asking
  BY DEF Asking, Asked, RoutingStart, Awaiting, NothingAsked, Outside, Scopes
<1>3. Even
  <2>1. \A d \in RoutedSources : InTurn(d, picks[d], turn[d])
    <3>. SUFFICES ASSUME NEW d \in RoutedSources PROVE InTurn(d, picks[d], turn[d])  OBVIOUS
    <3>1. picks[d] = [i \in 1..d.replicas |-> 0] /\ turn[d] = 0  BY DEF RoutingStart
    <3>2. [i \in 1..d.replicas |-> 0] = [i \in 1..d.replicas |-> 0 + IF i <= 0 THEN 1 ELSE 0]
      OBVIOUS
    <3>. QED  BY <3>1, <3>2 DEF InTurn
  <2>. QED  BY <2>1 DEF Even, RoutingStart
<1>4. Swept
  <2>1. sweep = NoSweep /\ isOpen \in [RoutedSources -> BOOLEAN] /\ placed = {}
    BY DEF RoutingStart
  <2>2. NoSweep \in Sweeps /\ NoSweep.visited = 0 /\ NoSweep.at = "none"
    BY DEF NoSweep, Sweeps
  <2>3. Len(routes) \in Nat  BY <1>1 DEF RoutesTyped
  <2>. QED  BY <2>1, <2>2, <2>3 DEF Swept
<1>. QED  BY <1>1, <1>2, <1>3, <1>4 DEF RInv

\* What a caller does changes neither the Map nor close().
LEMMA CallerKeeps ==
    ASSUME RInv, Asking', UNCHANGED <<routing, routes, turn, picks, isOpen, sweep, placed>>
    PROVE  RInv'
BY DEF RInv, RoutesTyped, Even, Swept, DoneWith, InTurn

LEMMA ScopesKeep ==
    ASSUME RInv, NEW c \in RoutedCallers, EnterScope(c) \/ LeaveScope(c)
    PROVE  RInv'
<1>1. scopes[c] \in Seq(Scopes) /\ scopes \in [RoutedCallers -> Seq(Scopes)]
  BY DEF RInv, Asking
<1>2. Scope(c) \in Scopes  BY ScopeIs DEF RInv
<1>3. scopes' \in [RoutedCallers -> Seq(Scopes)]
  <2>1. CASE EnterScope(c)
    <3>1. \A k \in RouteKeys : [Scope(c) EXCEPT !.tenant = k] \in Scopes
      BY <1>2 DEF Scopes
    <3>2. \A b \in BOOLEAN : [Scope(c) EXCEPT !.readOnly = b] \in Scopes
      BY <1>2 DEF Scopes
    <3>3. PICK s \in Scopes : scopes' = [scopes EXCEPT ![c] = Append(@, s)]
      BY <2>1, <3>1, <3>2 DEF EnterScope
    <3>4. Append(scopes[c], s) \in Seq(Scopes)  BY <1>1
    <3>. QED  BY <1>1, <3>3, <3>4
  <2>2. CASE LeaveScope(c)
    <3>1. Front(scopes[c]) \in Seq(Scopes)
      <4>1. Len(scopes[c]) - 1 \in 0..Len(scopes[c])  BY <1>1, <2>2, EmptySeq DEF LeaveScope
      <4>. QED  BY <1>1, <4>1, SubSeqProperties DEF Front
    <3>2. scopes' = [scopes EXCEPT ![c] = Front(scopes[c])]  BY <2>2 DEF LeaveScope
    <3>. QED  BY <1>1, <3>1, <3>2
  <2>. QED  BY <2>1, <2>2
<1>4. UNCHANGED <<awaited, routing, routes, turn, picks, isOpen, sweep, placed>>
  BY DEF EnterScope, LeaveScope
<1>5. Asking'  BY <1>3, <1>4 DEF RInv, Asking, Asked
<1>. QED  BY <1>4, <1>5, CallerKeeps

\* What c awaits now is x.
LEMMA AwaitedIs ==
    ASSUME Asking, NEW c \in RoutedCallers, NEW x \in Awaiting, Asked(x),
           awaited' = [awaited EXCEPT ![c] = x], UNCHANGED <<scopes, routing>>
    PROVE  Asking'
<1>1. awaited' \in [RoutedCallers -> Awaiting]  BY DEF Asking
<1>2. ASSUME NEW e \in RoutedCallers PROVE Asked(awaited[e])'
  <2>1. awaited'[e] = x \/ awaited'[e] = awaited[e]  BY DEF Asking
  <2>. QED  BY <2>1 DEF Asking, Asked
<1>. QED  BY <1>1, <1>2 DEF Asking

LEMMA AnswersKeep ==
    ASSUME RInv, NEW c \in RoutedCallers, Given(c) \/ SourceRefuses(c) \/ FallsBack(c)
    PROVE  RInv'
<1>1. NothingAsked \in Awaiting /\ Asked(NothingAsked)
  BY DEF NothingAsked, Awaiting, Outside, Scopes, Asked
<1>. DEFINE x == awaited[c]
            again == [x EXCEPT !.replica = 0, !.at = "again"]
<1>2. x \in Awaiting /\ Asked(x)  BY DEF RInv, Asking
<1>3. /\ again \in Awaiting /\ again.replica = 0 /\ again.source = x.source
      /\ again.scope = x.scope
  BY <1>2 DEF Awaiting
<1>. HIDE DEF again
<1>4. x.at = "asked" => Asked(again)  BY <1>2, <1>3 DEF Asked
<1>5. UNCHANGED <<scopes, routing, routes, turn, picks, isOpen, sweep, placed>>
  BY DEF Given, SourceRefuses, FallsBack
<1>6. \/ awaited' = [awaited EXCEPT ![c] = NothingAsked]
      \/ x.at = "asked" /\ awaited' = [awaited EXCEPT ![c] = again]
  BY DEF Given, SourceRefuses, FallsBack, again
<1>. HIDE DEF x
<1>7. Asking'  BY <1>1, <1>3, <1>4, <1>5, <1>6, AwaitedIs DEF RInv
<1>. QED  BY <1>5, <1>7, CallerKeeps

\* The turn goes round.
LEMMA NextTurn ==
    ASSUME NEW n \in Nat, NEW t \in Nat, t < n
    PROVE  (t + 1) % n = IF t + 1 = n THEN 0 ELSE t + 1
OBVIOUS

LEMMA PickKeepsTurn ==
    ASSUME NEW d, d.replicas \in Nat, NEW t \in Nat, t < d.replicas, NEW p, InTurn(d, p, t)
    PROVE  /\ (t + 1) % d.replicas \in Nat /\ (t + 1) % d.replicas < d.replicas
           /\ InTurn(d, [p EXCEPT ![t + 1] = @ + 1], (t + 1) % d.replicas)
<1>. PICK n \in Nat : n = d.replicas  OBVIOUS
<1>1. PICK q \in Nat : p = [i \in 1..n |-> q + IF i <= t THEN 1 ELSE 0]  BY DEF InTurn
<1>2. (t + 1) % n = IF t + 1 = n THEN 0 ELSE t + 1  BY NextTurn
<1>. DEFINE w == [p EXCEPT ![t + 1] = @ + 1]
<1>3. w = [i \in 1..n |-> q + IF i <= t + 1 THEN 1 ELSE 0]
  BY <1>1, SMTT(30)
<1>. HIDE DEF w
<1>4. CASE t + 1 = n
  <2>1. w = [i \in 1..n |-> (q + 1) + IF i <= 0 THEN 1 ELSE 0]
    BY <1>3, <1>4
  <2>2. \E r \in Nat : w = [i \in 1..d.replicas |-> r + IF i <= 0 THEN 1 ELSE 0]
    <3>1. q + 1 \in Nat  OBVIOUS
    <3>2. w = [i \in 1..d.replicas |-> (q + 1) + IF i <= 0 THEN 1 ELSE 0]  BY <2>1
    <3>. QED  BY <3>1, <3>2, Zenon
  <2>3. InTurn(d, w, 0)  BY <2>2, Zenon DEF InTurn
  <2>4. (t + 1) % d.replicas = 0  BY <1>2, <1>4
  <2>. QED  BY <2>3, <2>4 DEF w
<1>5. CASE t + 1 # n
  <2>1. InTurn(d, w, t + 1)  BY <1>3 DEF InTurn
  <2>2. (t + 1) % d.replicas = t + 1 /\ t + 1 < d.replicas  BY <1>2, <1>5
  <2>. QED  BY <2>1, <2>2 DEF w
<1>. QED  BY <1>4, <1>5

LEMMA GetKeeps ==
    ASSUME RInv, NEW c \in RoutedCallers, GetRoutedConnection(c)
    PROVE  RInv'
<1>. DEFINE s == Scope(c)
            index(d) == IF s.readOnly /\ d.replicas > 0 THEN turn[d] + 1 ELSE 0
<1>1. s \in Scopes  BY ScopeIs DEF RInv
<1>2. PICK d \in Route(s) :
          /\ awaited' = [awaited EXCEPT ![c] = [at |-> "asked", source |-> d, replica |-> index(d),
                                                scope |-> s]]
          /\ turn' = IF index(d) = 0 THEN turn ELSE [turn EXCEPT ![d] = (@ + 1) % d.replicas]
          /\ picks' = IF index(d) = 0 THEN picks ELSE [picks EXCEPT ![d][index(d)] = @ + 1]
  BY DEF GetRoutedConnection
<1>3. d \in RoutedSources /\ d.of = IF s.tenant = NoTenant THEN routing.default ELSE s.tenant
  BY <1>2, RoutedToIts DEF Route, RInv
<1>4. d.replicas \in Nat /\ turn[d] \in Nat /\ (turn[d] = 0 \/ turn[d] < d.replicas)
  BY <1>3, RoutingAssumption DEF RInv, Even
<1>. PICK i : i = index(d)  OBVIOUS
<1>5. i \in Nat /\ (i > 0 => s.readOnly /\ d.replicas > 0 /\ i = turn[d] + 1)  BY <1>4
<1>. DEFINE x == [at |-> "asked", source |-> d, replica |-> i, scope |-> s]
<1>6. x \in Awaiting  BY <1>1, <1>3, <1>5 DEF Awaiting
<1>7. Asked(x)  BY <1>3, <1>5 DEF Asked
<1>8. UNCHANGED <<scopes, routing, routes, isOpen, sweep, placed>>
  BY DEF GetRoutedConnection
<1>9. awaited' = [awaited EXCEPT ![c] = x]  BY <1>2
<1>. HIDE DEF x, s, index
<1>10. Asking'  BY <1>6, <1>7, <1>8, <1>9, AwaitedIs DEF RInv
<1>11. Even'
  <2>1. CASE i = 0  BY <1>2, <2>1 DEF RInv, Even
  <2>2. CASE i # 0
    <3>. DEFINE t == turn[d]
                u == (t + 1) % d.replicas
                p == [picks[d] EXCEPT ![t + 1] = @ + 1]
    <3>1. i = t + 1 /\ t < d.replicas  BY <1>4, <1>5, <2>2
    <3>2. InTurn(d, picks[d], t)  BY <1>3 DEF RInv, Even
    <3>3. u \in Nat /\ u < d.replicas /\ InTurn(d, p, u)
      BY <1>4, <3>1, <3>2, PickKeepsTurn
    <3>4. turn' = [turn EXCEPT ![d] = u]  BY <1>2, <2>2
    <3>5. picks' = [picks EXCEPT ![d] = p]  BY <1>2, <2>2, <3>1 DEF RInv, Even
    <3>. HIDE DEF u, p
    <3>6. turn' \in [RoutedSources -> Nat] /\ DOMAIN picks' = RoutedSources
          /\ picks' = [e \in RoutedSources |-> picks'[e]]
      BY <1>3, <3>3, <3>4, <3>5 DEF RInv, Even
    <3>7. \A e \in RoutedSources : /\ turn'[e] = IF e = d THEN u ELSE turn[e]
                                   /\ picks'[e] = IF e = d THEN p ELSE picks[e]
      BY <1>3, <3>4, <3>5 DEF RInv, Even
    <3>8. \A e \in RoutedSources : /\ turn'[e] = 0 \/ turn'[e] < e.replicas
                                   /\ InTurn(e, picks'[e], turn'[e])
      BY <3>3, <3>7 DEF RInv, Even
    <3>. QED  BY <3>6, <3>8 DEF Even, InTurn
  <2>. QED  BY <2>1, <2>2
<1>. QED  BY <1>8, <1>10, <1>11 DEF RInv, RoutesTyped, Swept, DoneWith

LEMMA AddKeeps ==
    ASSUME RInv, NEW d \in RoutedSources, AddDataSource(d)
    PROVE  RInv'
<1>1. d.of \in RouteKeys  BY RoutingAssumption
<1>. DEFINE e == <<d.of, d>>
            n == Len(routes)
            place(i) == IF routes[i][1] = d.of THEN e ELSE routes[i]
<1>2. e \in RouteKeys \X RoutedSources /\ e[1] = d.of /\ e[2] = d  BY <1>1
<1>3. /\ routes \in Seq(RouteKeys \X RoutedSources) /\ n \in Nat /\ DOMAIN routes = 1..n
      /\ \A i \in 1..n : routes[i] \in RouteKeys \X RoutedSources /\ routes[i][2].of = routes[i][1]
  BY DEF RInv, RoutesTyped
<1>4. UNCHANGED <<routing, scopes, awaited, turn, picks, isOpen, sweep>>
      /\ placed' = IF sweep.at = "none" THEN placed ELSE placed \cup {d}
  BY DEF AddDataSource
<1>5. \/ routes' = Append(routes, e)
      \/ routes' = [i \in 1..n |-> place(i)]
  BY <1>3 DEF AddDataSource
<1>. HIDE DEF e
<1>6. /\ routes' \in Seq(RouteKeys \X RoutedSources) /\ Len(routes') \in Nat /\ Len(routes') >= n
      /\ \A i \in 1..Len(routes') : routes'[i] = e \/ (i \in 1..n /\ routes'[i] = routes[i])
  <2>1. CASE routes' = Append(routes, e)  BY <1>2, <1>3, <2>1
  <2>2. CASE routes' = [i \in 1..n |-> place(i)]
    <3>1. \A i \in 1..n : place(i) \in RouteKeys \X RoutedSources /\ place(i) \in {e, routes[i]}
      BY <1>2, <1>3
    <3>. HIDE DEF place, n
    <3>. QED  BY <1>3, <2>2, <3>1
  <2>. QED  BY <1>5, <2>1, <2>2
<1>7. RoutesTyped'  BY <1>2, <1>3, <1>4, <1>6 DEF RInv, RoutesTyped
<1>8. Asking' /\ Even'  BY <1>4 DEF RInv, Asking, Asked, Even, InTurn
<1>9. Swept'
  <2>1. sweep \in Sweeps /\ sweep.visited \in Nat /\ sweep.visited <= n  BY DEF RInv, Swept, Sweeps
  <2>2. ASSUME NEW i \in 1..Len(routes'),
               i <= sweep'.visited \/ sweep'.at \in {"closed", "threw"}
        PROVE  DoneWith(routes[i][2])'
    <3>1. sweep.at # "none"
      <4>1. sweep.at = "none" => sweep.visited = 0  BY DEF RInv, Swept
      <4>. QED  BY <1>4, <2>2, <4>1
    <3>2. CASE routes'[i] = e
      BY <1>2, <1>4, <3>1, <3>2 DEF DoneWith
    <3>3. CASE i \in 1..n /\ routes'[i] = routes[i]
      <4>1. DoneWith(routes[i][2])  BY <1>4, <2>2, <3>3 DEF RInv, Swept
      <4>. QED  BY <1>4, <3>3, <4>1 DEF DoneWith
    <3>. QED  BY <1>6, <3>2, <3>3
  <2>. QED  BY <1>4, <1>6, <2>1, <2>2 DEF RInv, Swept
<1>. QED  BY <1>7, <1>8, <1>9 DEF RInv

LEMMA RemoveKeeps ==
    ASSUME RInv, NEW i \in DOMAIN routes, RemoveDataSource(i)
    PROVE  RInv'
<1>. DEFINE n == Len(routes)
<1>1. /\ routes \in Seq(RouteKeys \X RoutedSources) /\ n \in Nat /\ i \in 1..n
      /\ \A j \in 1..n : routes[j] \in RouteKeys \X RoutedSources /\ routes[j][2].of = routes[j][1]
  BY DEF RInv, RoutesTyped
<1>2. /\ routes' \in Seq(RouteKeys \X RoutedSources) /\ Len(routes') = n - 1
      /\ \A j \in 1..(n - 1) : routes'[j] = IF j < i THEN routes[j] ELSE routes[j + 1]
  BY <1>1, EntryRemoved DEF RemoveDataSource
<1>3. UNCHANGED <<routing, turn, scopes, awaited, isOpen, picks, placed>>
      /\ sweep' = IF i <= sweep.visited THEN [sweep EXCEPT !.visited = @ - 1] ELSE sweep
  BY DEF RemoveDataSource
<1>4. sweep \in Sweeps /\ sweep.visited \in Nat /\ sweep.visited <= n
  BY DEF RInv, Swept, Sweeps
<1>5. /\ sweep' \in Sweeps /\ sweep'.at = sweep.at /\ sweep'.failed = sweep.failed
      /\ sweep'.visited = IF i <= sweep.visited THEN sweep.visited - 1 ELSE sweep.visited
  <2>1. CASE i <= sweep.visited
    <3>1. sweep.visited - 1 \in Nat  BY <1>1, <1>4, <2>1
    <3>. QED  BY <1>3, <1>4, <2>1, <3>1 DEF Sweeps
  <2>. QED  BY <1>3, <1>4, <2>1
<1>. HIDE DEF n
<1>6. RoutesTyped'
  <2>1. ASSUME NEW j \in 1..(n - 1) PROVE routes'[j][2].of = routes'[j][1]
    <3>1. j \in 1..n /\ j + 1 \in 1..n  BY <1>1
    <3>. QED  BY <1>1, <1>2, <3>1
  <2>. QED  BY <1>2, <1>3, <2>1 DEF RInv, RoutesTyped
<1>7. Asking' /\ Even'  BY <1>3 DEF RInv, Asking, Asked, Even, InTurn
<1>8. Swept'
  <2>1. ASSUME NEW j \in 1..(n - 1),
               j <= sweep'.visited \/ sweep'.at \in {"closed", "threw"}
        PROVE  DoneWith(routes[j][2])'
    <3>1. j \in 1..n /\ j + 1 \in 1..n  BY <1>1
    <3>2. \A k \in 1..n : k <= sweep.visited \/ sweep.at \in {"closed", "threw"}
                              => DoneWith(routes[k][2])
      BY DEF RInv, Swept, n
    <3>3. CASE j < i
      <4>1. j <= sweep.visited \/ sweep.at \in {"closed", "threw"}  BY <1>4, <1>5, <2>1
      <4>2. DoneWith(routes[j][2])  BY <3>1, <3>2, <4>1
      <4>. QED  BY <1>2, <1>3, <1>5, <3>3, <4>2 DEF DoneWith
    <3>4. CASE j >= i
      <4>1. j + 1 <= sweep.visited \/ sweep.at \in {"closed", "threw"}
        BY <1>1, <1>4, <1>5, <2>1, <3>4
      <4>2. DoneWith(routes[j + 1][2])  BY <3>1, <3>2, <4>1
      <4>3. routes'[j] = routes[j + 1]  BY <1>1, <1>2, <3>4
      <4>. QED  BY <1>3, <1>5, <4>2, <4>3 DEF DoneWith
    <3>. QED  BY <1>1, <3>3, <3>4
  <2>2. sweep'.visited <= n - 1  BY <1>1, <1>4, <1>5
  <2>3. /\ isOpen' \in [RoutedSources -> BOOLEAN] /\ placed' \subseteq RoutedSources
        /\ sweep'.at = "none" => sweep'.visited = 0
        /\ sweep'.at = "closed" => sweep'.failed = {}
    BY <1>1, <1>3, <1>4, <1>5 DEF RInv, Swept
  <2>. QED  BY <1>2, <1>5, <2>1, <2>2, <2>3 DEF Swept
<1>. QED  BY <1>6, <1>7, <1>8 DEF RInv

LEMMA CloseKeeps ==
    ASSUME RInv, StartClose \/ CloseNext \/ EndClose
    PROVE  RInv'
<1>1. UNCHANGED <<routing, routes, turn, scopes, awaited, picks, placed>>
  BY DEF StartClose, CloseNext, EndClose
<1>2. RoutesTyped' /\ Asking' /\ Even'
  BY <1>1 DEF RInv, RoutesTyped, Asking, Asked, Even, InTurn
<1>3. /\ sweep \in Sweeps /\ sweep.visited \in Nat /\ sweep.failed \subseteq RoutedSources
      /\ Len(routes) \in Nat /\ isOpen \in [RoutedSources -> BOOLEAN]
      /\ sweep.visited <= Len(routes)
  BY DEF RInv, RoutesTyped, Swept, Sweeps
<1>4. CASE StartClose
  <2>1. /\ sweep' \in Sweeps /\ sweep'.at = "closing" /\ sweep'.visited = sweep.visited
        /\ sweep'.failed = sweep.failed /\ isOpen' = isOpen /\ sweep.at = "none"
    BY <1>3, <1>4 DEF StartClose, Sweeps
  <2>. QED  BY <1>1, <1>2, <2>1 DEF RInv, Swept, DoneWith
<1>5. CASE CloseNext
  <2>. DEFINE v == sweep.visited + 1
              d == routes[v][2]
  <2>1. v \in 1..Len(routes) /\ d \in RoutedSources /\ sweep.at = "closing"
    BY <1>3, <1>5 DEF CloseNext, RInv, RoutesTyped
  <2>2. /\ sweep' \in Sweeps /\ sweep'.at = "closing" /\ sweep'.visited = v
        /\ isOpen' \in [RoutedSources -> BOOLEAN]
        /\ sweep.failed \subseteq sweep'.failed
        /\ \A e \in RoutedSources : isOpen'[e] => isOpen[e]
        /\ ~isOpen'[d] \/ d \in sweep'.failed
    <3>1. CASE isOpen' = [isOpen EXCEPT ![d] = FALSE] /\ sweep' = [sweep EXCEPT !.visited = @ + 1]
      BY <1>3, <2>1, <3>1 DEF Sweeps
    <3>2. CASE isOpen' = isOpen /\ sweep' = [sweep EXCEPT !.visited = @ + 1, !.failed = @ \cup {d}]
      <4>1. sweep.failed \cup {d} \in SUBSET RoutedSources  BY <1>3, <2>1
      <4>2. sweep.visited + 1 \in Nat  BY <1>3
      <4>3. /\ sweep' \in Sweeps /\ sweep'.at = "closing" /\ sweep'.visited = v
            /\ sweep'.failed = sweep.failed \cup {d}
        <5>. HIDE DEF d
        <5>. QED  BY <1>3, <2>1, <3>2, <4>1, <4>2 DEF Sweeps
      <4>. QED  BY <1>3, <3>2, <4>3
    <3>. QED  BY <1>5, <3>1, <3>2 DEF CloseNext
  <2>. HIDE DEF d
  <2>3. ASSUME NEW i \in 1..Len(routes), i <= v PROVE DoneWith(routes[i][2])'
    <3>1. routes[i][2] \in RoutedSources  BY DEF RInv, RoutesTyped
    <3>2. CASE i = v  BY <1>1, <2>2, <3>2 DEF DoneWith, d
    <3>3. CASE i # v
      <4>1. i <= sweep.visited  BY <1>3, <2>3, <3>3
      <4>2. DoneWith(routes[i][2])  BY <4>1 DEF RInv, Swept
      <4>. QED  BY <1>1, <2>2, <3>1, <4>2 DEF DoneWith
    <3>. QED  BY <3>2, <3>3
  <2>4. placed' \subseteq RoutedSources  BY <1>1 DEF RInv, Swept
  <2>5. Swept'  BY <1>1, <2>1, <2>2, <2>3, <2>4 DEF Swept
  <2>. QED  BY <1>2, <2>5 DEF RInv
<1>6. CASE EndClose
  <2>1. /\ sweep' \in Sweeps /\ sweep'.visited = Len(routes) /\ sweep'.failed = sweep.failed
        /\ isOpen' = isOpen /\ sweep'.at \in {"closed", "threw"}
        /\ sweep'.at = "closed" => sweep.failed = {}
        /\ sweep.visited = Len(routes)
    BY <1>3, <1>6 DEF EndClose, Sweeps
  <2>2. \A i \in 1..Len(routes) : DoneWith(routes[i][2])
    BY <1>3, <2>1 DEF RInv, Swept
  <2>3. \A i \in 1..Len(routes) : DoneWith(routes[i][2])'
    BY <1>1, <2>1, <2>2 DEF DoneWith
  <2>4. placed' \subseteq RoutedSources  BY <1>1 DEF RInv, Swept
  <2>5. Swept'  BY <1>1, <1>3, <2>1, <2>3, <2>4 DEF Swept
  <2>. QED  BY <1>2, <2>5 DEF RInv
<1>. QED  BY <1>4, <1>5, <1>6

LEMMA NextRouting == RInv /\ [RoutingNext]_routingVars => RInv'
<1>. SUFFICES ASSUME RInv, [RoutingNext]_routingVars PROVE RInv'  OBVIOUS
<1>1. CASE UNCHANGED routingVars
  BY <1>1 DEF routingVars, RInv, RoutesTyped, Asking, Asked, Even, InTurn, Swept, DoneWith
<1>2. ASSUME NEW c \in RoutedCallers,
             EnterScope(c) \/ LeaveScope(c) \/ GetRoutedConnection(c) \/ Given(c)
                 \/ SourceRefuses(c) \/ FallsBack(c)
      PROVE  RInv'
  BY <1>2, ScopesKeep, GetKeeps, AnswersKeep
<1>3. ASSUME NEW d \in RoutedSources, AddDataSource(d) PROVE RInv'  BY <1>3, AddKeeps
<1>4. ASSUME NEW i \in DOMAIN routes, RemoveDataSource(i) PROVE RInv'  BY <1>4, RemoveKeeps
<1>5. CASE StartClose \/ CloseNext \/ EndClose  BY <1>5, CloseKeeps
<1>. QED  BY <1>1, <1>2, <1>3, <1>4, <1>5 DEF RoutingNext

LEMMA RInvHolds == RInv => RoutingHolds
<1>. SUFFICES ASSUME RInv PROVE RoutingHolds  OBVIOUS
<1>1. RoutingTypeOK
  <2>1. \A i \in DOMAIN routes : routes[i][1] \in RouteKeys /\ routes[i][2] \in RoutedSources
    BY DEF RInv, RoutesTyped
  <2>2. \A d \in RoutedSources : turn[d] \in 0..d.replicas
    <3>. SUFFICES ASSUME NEW d \in RoutedSources PROVE turn[d] \in 0..d.replicas  OBVIOUS
    <3>1. d.replicas \in Nat  BY RoutingAssumption
    <3>. QED  BY <3>1 DEF RInv, Even
  <2>3. \A c \in RoutedCallers : awaited[c].at \in {"none", "asked", "again"}
    BY DEF RInv, Asking, Awaiting
  <2>4. sweep.visited \in 0..Len(routes) /\ sweep.failed \subseteq RoutedSources
    BY DEF RInv, RoutesTyped, Swept, Sweeps
  <2>5. routing \in RoutingKinds  BY DEF RInv, RoutesTyped
  <2>. QED  BY <2>1, <2>2, <2>3, <2>4, <2>5 DEF RoutingTypeOK
<1>2. OwnRoute  BY DEF RInv, Asking, Asked, OwnRoute
<1>3. Balanced
  <2>. SUFFICES ASSUME NEW d \in RoutedSources, NEW i \in 1..d.replicas, NEW j \in 1..d.replicas
                PROVE  picks[d][i] <= picks[d][j] + 1
    BY DEF Balanced
  <2>1. PICK q \in Nat :
            picks[d] = [k \in 1..d.replicas |-> q + IF k <= turn[d] THEN 1 ELSE 0]
    BY DEF RInv, Even, InTurn
  <2>. QED  BY <2>1
<1>4. RoutesClosed
  <2>1. DOMAIN routes = 1..Len(routes)  BY DEF RInv, RoutesTyped
  <2>. QED  BY <2>1 DEF RInv, Swept, DoneWith, RoutesClosed
<1>. QED  BY <1>1, <1>2, <1>3, <1>4 DEF RoutingHolds

\* For any tenants, sources, callers and bounds: a connection is asked of a source of the
\* tenant whose context the caller was in, and of a replica in a read-only scope only; two
\* replicas of a source are picked equally often, but for one; and when close() is over,
\* what is in the Map is closed, failed to close or was put there since close() began.
THEOREM RoutesHold == RoutingSpec => []RoutingHolds
<1>1. RoutingSpec => []RInv  BY InitRouting, NextRouting, PTL DEF RoutingSpec
<1>. QED  BY <1>1, RInvHolds, PTL

-----------------------------------------------------------------------------
(* Checks of the health *)

HealthSpec == HealthInit /\ [][HealthNext]_healthVars

CheckNames == {"db", "pool", "lag", "schemas", "warm"}

\* What a check can tell: not that something is UP that has failed, is late or is behind.
TrueResults == {r \in [name : CheckNames, status : {"UP", "DEGRADED", "DOWN"},
                       truth : {"limited", "read", "answered", "failed", "late", "primary", "behind"}] :
                    r.status = "UP" => r.truth \notin {"failed", "late", "behind"}}

Inquiries == [at : {"new", "next", "checking"}, todo : Seq(CheckNames), got : Seq(TrueResults)]

Probes == [at : {"none", "acquire", "query", "lag", "close", "over"},
           conn : PoolSlots \cup {NoSlot}, ok : BOOLEAN, lost : BOOLEAN]

HealthTyped ==
    /\ health \in HealthKinds
    /\ inPool \in [PoolSlots -> Nat]
    /\ holders \in [PoolSlots -> SUBSET (Checkers \cup {App})]
    /\ inquiry \in [Checkers -> Inquiries]
    /\ probe \in [Checkers -> Probes]
    /\ replica \in [recovering : BOOLEAN, replayed : 0..Never, behind : 0..UpToDate]
    /\ healthFaults \in 0..MaxHealthFaults

\* What is not replayed is no older than what was replayed last.
Ordered == replica.replayed # Never /\ replica.behind # UpToDate => replica.behind <= replica.replayed

\* A probe without an inquiry has lost; it has a connection from the time it gets one, and
\* holds it no longer than until it has lost, or until it is closed.
Probing(k) ==
    /\ probe[k].at \in {"query", "lag", "close"} => probe[k].conn \in PoolSlots
    /\ probe[k].at = "acquire" => probe[k].conn = NoSlot
    /\ inquiry[k].at = "checking" =>
           inquiry[k].todo # <<>> /\ ~probe[k].lost /\ probe[k].at # "none"
    /\ probe[k].at # "none" /\ ~probe[k].lost => inquiry[k].at = "checking"
    /\ \A c \in PoolSlots : k \in holders[c] =>
           /\ probe[k].conn = c /\ probe[k].at \in {"query", "lag", "close"}
           /\ probe[k].lost => probe[k].at = "close"

\* Where close() can be repeated, a connection is in the pool once or somebody has it.
Seated(c) == health.flagged =>
    \/ inPool[c] = 1 /\ holders[c] = {}
    \/ inPool[c] = 0 /\ \E k \in Checkers \cup {App} : holders[c] = {k}

HealthInv ==
    /\ HealthTyped /\ Ordered
    /\ \A k \in Checkers : Probing(k)
    /\ \A c \in PoolSlots : Seated(c)

AnyStatus == {"UP", "DEGRADED", "DOWN"}

AnyTruth == {"limited", "read", "answered", "failed", "late", "primary", "behind"}

LEMMA HealthFacts ==
    HealthInv =>
        /\ health.members \in Seq(CheckNames)
        /\ \A k \in Checkers : k # App /\ NoSlot \notin PoolSlots
        /\ inPool \in [PoolSlots -> Nat] /\ holders \in [PoolSlots -> SUBSET (Checkers \cup {App})]
        /\ \A k \in Checkers : /\ inquiry[k].todo \in Seq(CheckNames)
                               /\ inquiry[k].got \in Seq(TrueResults)
                               /\ inquiry[k].at \in {"new", "next", "checking"}
                               /\ probe[k].lost \in BOOLEAN /\ probe[k].ok \in BOOLEAN
                               /\ probe[k].conn \in PoolSlots \cup {NoSlot}
                               /\ probe[k].at \in {"none", "acquire", "query", "lag", "close", "over"}
<1>. SUFFICES ASSUME HealthInv
              PROVE  /\ health.members \in Seq(CheckNames)
                     /\ \A k \in Checkers : k # App /\ NoSlot \notin PoolSlots
                     /\ inPool \in [PoolSlots -> Nat]
                     /\ holders \in [PoolSlots -> SUBSET (Checkers \cup {App})]
                     /\ \A k \in Checkers :
                            /\ inquiry[k].todo \in Seq(CheckNames)
                            /\ inquiry[k].got \in Seq(TrueResults)
                            /\ inquiry[k].at \in {"new", "next", "checking"}
                            /\ probe[k].lost \in BOOLEAN /\ probe[k].ok \in BOOLEAN
                            /\ probe[k].conn \in PoolSlots \cup {NoSlot}
                            /\ probe[k].at \in {"none", "acquire", "query", "lag", "close", "over"}
  OBVIOUS
<1>1. HealthTyped  BY DEF HealthInv
<1>2. health.members \in Seq(CheckNames)  BY <1>1, HealthAssumption DEF HealthTyped, CheckNames
<1>3. \A k \in Checkers : k # App /\ NoSlot \notin PoolSlots  BY HealthAssumption
<1>4. inPool \in [PoolSlots -> Nat] /\ holders \in [PoolSlots -> SUBSET (Checkers \cup {App})]
  BY <1>1 DEF HealthTyped
<1>5. \A k \in Checkers : /\ inquiry[k].todo \in Seq(CheckNames)
                          /\ inquiry[k].got \in Seq(TrueResults)
                          /\ inquiry[k].at \in {"new", "next", "checking"}
  <2>. TAKE k \in Checkers
  <2>1. inquiry[k] \in Inquiries  BY <1>1 DEF HealthTyped
  <2>. QED  BY <2>1 DEF Inquiries
<1>6. \A k \in Checkers : /\ probe[k].lost \in BOOLEAN /\ probe[k].ok \in BOOLEAN
                          /\ probe[k].conn \in PoolSlots \cup {NoSlot}
                          /\ probe[k].at \in {"none", "acquire", "query", "lag", "close", "over"}
  <2>. TAKE k \in Checkers
  <2>1. probe[k] \in Probes  BY <1>1 DEF HealthTyped
  <2>. QED  BY <2>1 DEF Probes
<1>. QED  BY <1>2, <1>3, <1>4, <1>5, <1>6

\* A connection that is in the pool is taken out of it by one.
LEMMA TakesOne ==
    ASSUME HealthInv, NEW k \in Checkers \cup {App}, NEW c \in PoolSlots, inPool[c] > 0, Take(k, c),
           health' = health
    PROVE  /\ inPool' \in [PoolSlots -> Nat]
           /\ holders' \in [PoolSlots -> SUBSET (Checkers \cup {App})]
           /\ \A d \in PoolSlots : Seated(d)'
           /\ \A j, d : d \in PoolSlots => (j \in holders'[d] <=> j \in holders[d] \/ (j = k /\ d = c))
<1>1. inPool \in [PoolSlots -> Nat] /\ holders \in [PoolSlots -> SUBSET (Checkers \cup {App})]
  BY HealthFacts
<1>2. /\ inPool' = [inPool EXCEPT ![c] = @ - 1]
      /\ holders' = [holders EXCEPT ![c] = @ \cup {k}]
  BY DEF Take
<1>3. inPool' \in [PoolSlots -> Nat]
  <2>1. inPool[c] - 1 \in Nat  BY <1>1
  <2>. QED  BY <1>1, <1>2, <2>1
<1>4. holders' \in [PoolSlots -> SUBSET (Checkers \cup {App})]  BY <1>1, <1>2
<1>5. \A j, d : d \in PoolSlots => (j \in holders'[d] <=> j \in holders[d] \/ (j = k /\ d = c))
  BY <1>1, <1>2
<1>6. ASSUME NEW d \in PoolSlots PROVE Seated(d)'
  <2>. SUFFICES ASSUME health.flagged
                PROVE  \/ inPool'[d] = 1 /\ holders'[d] = {}
                       \/ inPool'[d] = 0 /\ \E j \in Checkers \cup {App} : holders'[d] = {j}
    BY DEF Seated
  <2>1. \/ inPool[d] = 1 /\ holders[d] = {}
        \/ inPool[d] = 0 /\ \E j \in Checkers \cup {App} : holders[d] = {j}
    BY DEF HealthInv, Seated
  <2>2. CASE d # c
    <3>1. inPool'[d] = inPool[d] /\ holders'[d] = holders[d]  BY <1>1, <1>2, <2>2
    <3>. QED  BY <2>1, <3>1
  <2>3. CASE d = c
    <3>1. inPool[d] = 1 /\ holders[d] = {}  BY <2>1, <2>3
    <3>2. inPool'[d] = 0 /\ holders'[d] = {k}  BY <1>1, <1>2, <2>3, <3>1
    <3>. QED  BY <3>2
  <2>. QED  BY <2>2, <2>3
<1>. QED  BY <1>3, <1>4, <1>5, <1>6

\* close() leaves the one who closes without the connection.
LEMMA GivesOne ==
    ASSUME HealthInv, NEW k \in Checkers \cup {App}, NEW c \in PoolSlots, GiveBack(k, c),
           health' = health
    PROVE  /\ inPool' \in [PoolSlots -> Nat]
           /\ holders' \in [PoolSlots -> SUBSET (Checkers \cup {App})]
           /\ \A d \in PoolSlots : Seated(d)'
           /\ \A j, d : d \in PoolSlots => (j \in holders'[d] <=> j \in holders[d] /\ ~(j = k /\ d = c))
<1>1. inPool \in [PoolSlots -> Nat] /\ holders \in [PoolSlots -> SUBSET (Checkers \cup {App})]
  BY HealthFacts
<1>2. /\ inPool' = IF health.flagged /\ k \notin holders[c] THEN inPool ELSE [inPool EXCEPT ![c] = @ + 1]
      /\ holders' = [holders EXCEPT ![c] = @ \ {k}]
  BY DEF GiveBack
<1>3. inPool' \in [PoolSlots -> Nat]
  <2>1. inPool[c] + 1 \in Nat  BY <1>1
  <2>. QED  BY <1>1, <1>2, <2>1
<1>4. holders' \in [PoolSlots -> SUBSET (Checkers \cup {App})]  BY <1>1, <1>2
<1>5. \A j, d : d \in PoolSlots => (j \in holders'[d] <=> j \in holders[d] /\ ~(j = k /\ d = c))
  BY <1>1, <1>2
<1>6. ASSUME NEW d \in PoolSlots PROVE Seated(d)'
  <2>. SUFFICES ASSUME health.flagged
                PROVE  \/ inPool'[d] = 1 /\ holders'[d] = {}
                       \/ inPool'[d] = 0 /\ \E j \in Checkers \cup {App} : holders'[d] = {j}
    BY DEF Seated
  <2>1. \/ inPool[d] = 1 /\ holders[d] = {}
        \/ inPool[d] = 0 /\ \E j \in Checkers \cup {App} : holders[d] = {j}
    BY DEF HealthInv, Seated
  <2>2. CASE d # c
    <3>1. inPool'[d] = inPool[d] /\ holders'[d] = holders[d]  BY <1>1, <1>2, <2>2
    <3>. QED  BY <2>1, <3>1
  <2>3. CASE d = c /\ k \notin holders[c]
    <3>1. inPool'[d] = inPool[d] /\ holders'[d] = holders[d]  BY <1>1, <1>2, <2>3
    <3>. QED  BY <2>1, <3>1
  <2>4. CASE d = c /\ k \in holders[c]
    <3>1. inPool[d] = 0 /\ holders[d] = {k}  BY <2>1, <2>4
    <3>2. inPool'[d] = 1 /\ holders'[d] = {}  BY <1>1, <1>2, <2>4, <3>1
    <3>. QED  BY <3>2
  <2>. QED  BY <2>2, <2>3, <2>4
<1>. QED  BY <1>3, <1>4, <1>5, <1>6

\* A result is one more that is true, and nothing else of an inquiry changes but that the
\* next member is due.
LEMMA GotOne ==
    ASSUME HealthInv, NEW k \in Checkers, NEW status \in AnyStatus, NEW truth \in AnyTruth,
           status = "UP" => truth \notin {"failed", "late", "behind"},
           inquiry[k].todo # <<>>, Got(k, status, truth)
    PROVE  /\ inquiry' \in [Checkers -> Inquiries]
           /\ inquiry'[k].at = "next"
           /\ \A j \in Checkers : j # k => inquiry'[j] = inquiry[j]
<1>1. inquiry \in [Checkers -> Inquiries]
  BY DEF HealthInv, HealthTyped
<1>2. inquiry[k].todo \in Seq(CheckNames) /\ inquiry[k].got \in Seq(TrueResults)  BY HealthFacts
<1>3. Head(inquiry[k].todo) \in CheckNames /\ Tail(inquiry[k].todo) \in Seq(CheckNames)
  BY <1>2
<1>4. PICK r : r = [name |-> Head(inquiry[k].todo), status |-> status, truth |-> truth]
  OBVIOUS
<1>5. r \in TrueResults
  <2>1. r \in [name : CheckNames, status : {"UP", "DEGRADED", "DOWN"},
               truth : {"limited", "read", "answered", "failed", "late", "primary", "behind"}]
    BY <1>3, <1>4 DEF AnyStatus, AnyTruth
  <2>2. r.status = "UP" => r.truth \notin {"failed", "late", "behind"}  BY <1>4
  <2>. QED  BY <2>1, <2>2 DEF TrueResults
<1>6. Append(inquiry[k].got, r) \in Seq(TrueResults)  BY <1>2, <1>5
<1>7. PICK n : n = [at |-> "next", todo |-> Tail(inquiry[k].todo), got |-> Append(inquiry[k].got, r)]
  OBVIOUS
<1>8. n \in Inquiries
      /\ n.at = "next"
  BY <1>3, <1>6, <1>7 DEF Inquiries
<1>9. inquiry' = [inquiry EXCEPT ![k] = n]  BY <1>4, <1>7 DEF Got
<1>. QED  BY <1>1, <1>8, <1>9

\* Who takes no part keeps what is said of him.
LEMMA OthersProbe ==
    ASSUME HealthInv, NEW k \in Checkers, inquiry'[k] = inquiry[k], probe'[k] = probe[k],
           \A c \in PoolSlots : k \in holders'[c] => k \in holders[c]
    PROVE  Probing(k)'
<1>1. Probing(k)  BY DEF HealthInv
<1>. QED  BY <1>1 DEF Probing

LEMMA HealthStarts == HealthInit => HealthInv
<1>. SUFFICES ASSUME NEW h \in HealthKinds, HealthStart(h) PROVE HealthInv
  BY DEF HealthInit
<1>1. /\ health = h /\ inPool = [c \in PoolSlots |-> 1] /\ holders = [c \in PoolSlots |-> {}]
      /\ inquiry = [k \in Checkers |-> NoInquiry] /\ probe = [k \in Checkers |-> NoProbe]
      /\ replica = [recovering |-> TRUE, replayed |-> Never, behind |-> UpToDate]
      /\ healthFaults = 0
  BY DEF HealthStart
<1>2. NoInquiry \in Inquiries
  BY DEF NoInquiry, Inquiries
<1>3. NoProbe \in Probes
  BY DEF NoProbe, Probes
<1>4. healthFaults \in 0..MaxHealthFaults  BY <1>1, HealthAssumption
<1>5. HealthTyped  BY <1>1, <1>2, <1>3, <1>4 DEF HealthTyped, Never, UpToDate
<1>6. Ordered  BY <1>1 DEF Ordered
<1>7. \A k \in Checkers : Probing(k)  BY <1>1 DEF Probing, NoProbe, NoInquiry
<1>8. \A c \in PoolSlots : Seated(c)  BY <1>1 DEF Seated
<1>. QED  BY <1>5, <1>6, <1>7, <1>8 DEF HealthInv

\* What no action of the checks touches.
LEMMA Assembled ==
    ASSUME HealthInv, health' = health,
           inPool' \in [PoolSlots -> Nat],
           holders' \in [PoolSlots -> SUBSET (Checkers \cup {App})],
           inquiry' \in [Checkers -> Inquiries],
           probe' \in [Checkers -> Probes],
           replica' = replica, healthFaults' \in 0..MaxHealthFaults,
           \A k \in Checkers : Probing(k)',
           \A c \in PoolSlots : Seated(c)'
    PROVE  HealthInv'
<1>1. HealthTyped'  BY DEF HealthInv, HealthTyped
<1>2. Ordered'  BY DEF HealthInv, Ordered
<1>. QED  BY <1>1, <1>2 DEF HealthInv

LEMMA ProbeSet ==
    ASSUME HealthInv, NEW k \in Checkers, NEW q \in Probes, probe' = [probe EXCEPT ![k] = q]
    PROVE  /\ probe' \in [Checkers -> Probes] /\ probe'[k] = q
           /\ \A j \in Checkers : j # k => probe'[j] = probe[j]
<1>1. probe \in [Checkers -> Probes]  BY DEF HealthInv, HealthTyped
<1>. QED  BY <1>1

\* A step of k that leaves the pool alone.
LEMMA AloneKeeps ==
    ASSUME HealthInv, NEW k \in Checkers, UNCHANGED <<health, inPool, holders, replica>>,
           inquiry' \in [Checkers -> Inquiries], probe' \in [Checkers -> Probes],
           \A j \in Checkers : j # k => inquiry'[j] = inquiry[j] /\ probe'[j] = probe[j],
           healthFaults' \in 0..MaxHealthFaults, Probing(k)'
    PROVE  HealthInv'
<1>1. \A j \in Checkers : Probing(j)'
  <2>. TAKE j \in Checkers
  <2>1. CASE j = k  BY <2>1
  <2>2. CASE j # k  BY <2>2, OthersProbe
  <2>. QED  BY <2>1, <2>2
<1>2. \A c \in PoolSlots : Seated(c)'  BY DEF HealthInv, Seated
<1>3. inPool' \in [PoolSlots -> Nat] /\ holders' \in [PoolSlots -> SUBSET (Checkers \cup {App})]
  BY HealthFacts
<1>. QED  BY <1>1, <1>2, <1>3, Assembled

\* A step of k that gives its connection back.
LEMMA GivingKeeps ==
    ASSUME HealthInv, NEW k \in Checkers, probe[k].conn \in PoolSlots, GiveBack(k, probe[k].conn),
           UNCHANGED <<health, replica>>,
           inquiry' \in [Checkers -> Inquiries], probe' \in [Checkers -> Probes],
           \A j \in Checkers : j # k => inquiry'[j] = inquiry[j] /\ probe'[j] = probe[j],
           healthFaults' \in 0..MaxHealthFaults,
           (\A c \in PoolSlots : k \notin holders'[c]) => Probing(k)'
    PROVE  HealthInv'
<1>1. /\ inPool' \in [PoolSlots -> Nat]
      /\ holders' \in [PoolSlots -> SUBSET (Checkers \cup {App})]
      /\ \A d \in PoolSlots : Seated(d)'
      /\ \A j, d : d \in PoolSlots =>
             (j \in holders'[d] <=> j \in holders[d] /\ ~(j = k /\ d = probe[k].conn))
  BY GivesOne
<1>2. \A c \in PoolSlots : k \notin holders'[c]
  <2>. TAKE c \in PoolSlots
  <2>1. k \in holders[c] => probe[k].conn = c  BY DEF HealthInv, Probing
  <2>. QED  BY <1>1, <2>1
<1>3. \A j \in Checkers : Probing(j)'
  <2>. TAKE j \in Checkers
  <2>1. CASE j = k  BY <1>2, <2>1
  <2>2. CASE j # k  BY <1>1, <2>2, OthersProbe
  <2>. QED  BY <2>1, <2>2
<1>. QED  BY <1>1, <1>3, Assembled

LEMMA AppKeeps ==
    ASSUME HealthInv, AppTakes \/ AppCloses
    PROVE  HealthInv'
<1>1. /\ UNCHANGED <<health, inquiry, probe, recent, replica, healthFaults>>
      /\ \E c \in PoolSlots : \/ inPool[c] > 0 /\ Take(App, c)
                              \/ GiveBack(App, c)
  BY DEF AppTakes, AppCloses
<1>2. /\ inPool' \in [PoolSlots -> Nat]
      /\ holders' \in [PoolSlots -> SUBSET (Checkers \cup {App})]
      /\ \A d \in PoolSlots : Seated(d)'
      /\ \A j \in Checkers, d \in PoolSlots : j \in holders'[d] => j \in holders[d]
  <2>1. PICK c \in PoolSlots : \/ inPool[c] > 0 /\ Take(App, c)
                               \/ GiveBack(App, c)
    BY <1>1
  <2>2. \A j \in Checkers : j # App  BY HealthFacts
  <2>3. App \in Checkers \cup {App}  OBVIOUS
  <2>4. CASE inPool[c] > 0 /\ Take(App, c)
    <3>1. /\ inPool' \in [PoolSlots -> Nat]
          /\ holders' \in [PoolSlots -> SUBSET (Checkers \cup {App})]
          /\ \A d \in PoolSlots : Seated(d)'
          /\ \A j, d : d \in PoolSlots => (j \in holders'[d] <=> j \in holders[d] \/ (j = App /\ d = c))
      BY <1>1, <2>3, <2>4, TakesOne
    <3>. QED  BY <2>2, <3>1
  <2>5. CASE GiveBack(App, c)
    <3>1. /\ inPool' \in [PoolSlots -> Nat]
          /\ holders' \in [PoolSlots -> SUBSET (Checkers \cup {App})]
          /\ \A d \in PoolSlots : Seated(d)'
          /\ \A j, d : d \in PoolSlots => (j \in holders'[d] <=> j \in holders[d] /\ ~(j = App /\ d = c))
      BY <1>1, <2>3, <2>5, GivesOne
    <3>. QED  BY <2>2, <3>1
  <2>. QED  BY <2>1, <2>4, <2>5
<1>3. \A j \in Checkers : Probing(j)'
  <2>. TAKE j \in Checkers
  <2>1. \A d \in PoolSlots : j \in holders'[d] => j \in holders[d]  BY <1>2
  <2>. QED  BY <1>1, <2>1, OthersProbe
<1>4. /\ inquiry' \in [Checkers -> Inquiries] /\ probe' \in [Checkers -> Probes]
      /\ healthFaults' \in 0..MaxHealthFaults
  BY <1>1 DEF HealthInv, HealthTyped
<1>. QED  BY <1>1, <1>2, <1>3, <1>4, Assembled

LEMMA InquireKeeps ==
    ASSUME HealthInv, NEW k \in Checkers, Inquire(k)
    PROVE  HealthInv'
<1>1. PICK t \in {health.members} \cup
                 (IF health.composite THEN {} ELSE {<<n>> : n \in ToSet(health.members)}) :
          inquiry' = [inquiry EXCEPT ![k] = [at |-> "next", todo |-> t, got |-> <<>>]]
  BY DEF Inquire
<1>2. /\ inquiry[k].at = "new" /\ UNCHANGED <<health, inPool, holders, probe, recent, replica, healthFaults>>
  BY DEF Inquire
<1>3. t \in Seq(CheckNames)
  <2>1. health.members \in Seq(CheckNames)  BY HealthFacts
  <2>2. \A n \in ToSet(health.members) : n \in CheckNames
    <3>1. PICK m \in Seq(CheckNames) : m = health.members  BY <2>1
    <3>2. \A n \in ToSet(m) : n \in CheckNames  BY DEF ToSet
    <3>. QED  BY <3>1, <3>2
  <2>3. CASE t = health.members  BY <2>1, <2>3
  <2>4. CASE \E n \in ToSet(health.members) : t = <<n>>  BY <2>2, <2>4
  <2>. QED  BY <1>1, <2>3, <2>4
<1>4. PICK n : n = [at |-> "next", todo |-> t, got |-> <<>>]  OBVIOUS
<1>5. n \in Inquiries /\ n.at = "next"  BY <1>3, <1>4 DEF Inquiries
<1>6. inquiry \in [Checkers -> Inquiries]  BY DEF HealthInv, HealthTyped
<1>7. /\ inquiry' \in [Checkers -> Inquiries] /\ inquiry'[k].at = "next"
      /\ \A j \in Checkers : j # k => inquiry'[j] = inquiry[j]
  BY <1>1, <1>4, <1>5, <1>6
<1>8. Probing(k)'
  <2>1. Probing(k)  BY DEF HealthInv
  <2>. QED  BY <1>2, <1>7, <2>1 DEF Probing
<1>9. probe' \in [Checkers -> Probes] /\ healthFaults' \in 0..MaxHealthFaults
  BY <1>2 DEF HealthInv, HealthTyped
<1>. QED  BY <1>2, <1>7, <1>8, <1>9, AloneKeeps

\* A result without a connection: of the pool, or of a member left out for its rate.
LEMMA ToldKeeps ==
    ASSUME HealthInv, NEW k \in Checkers, NEW status \in AnyStatus, NEW truth \in {"limited", "read"},
           inquiry[k].at = "next", inquiry[k].todo # <<>>, Got(k, status, truth),
           UNCHANGED <<health, inPool, holders, probe, replica, healthFaults>>
    PROVE  HealthInv'
<1>1. truth \in AnyTruth /\ truth \notin {"failed", "late", "behind"}  BY DEF AnyTruth
<1>2. /\ inquiry' \in [Checkers -> Inquiries] /\ inquiry'[k].at = "next"
      /\ \A j \in Checkers : j # k => inquiry'[j] = inquiry[j]
  BY <1>1, GotOne
<1>3. Probing(k)'
  <2>1. Probing(k)  BY DEF HealthInv
  <2>. QED  BY <1>2, <2>1 DEF Probing
<1>4. probe' \in [Checkers -> Probes] /\ healthFaults' \in 0..MaxHealthFaults
  BY DEF HealthInv, HealthTyped
<1>. QED  BY <1>2, <1>3, <1>4, AloneKeeps

LEMMA TellLimitedKeeps ==
    ASSUME HealthInv, NEW k \in Checkers, TellLimited(k)
    PROVE  HealthInv'
BY ToldKeeps DEF TellLimited, AnyStatus

LEMMA StartCheckKeeps ==
    ASSUME HealthInv, NEW k \in Checkers, StartCheck(k)
    PROVE  HealthInv'
<1>1. /\ inquiry[k].at = "next" /\ inquiry[k].todo # <<>>
      /\ UNCHANGED <<health, inPool, holders, replica, healthFaults>>
  BY DEF StartCheck
<1>2. CASE Head(inquiry[k].todo) = "pool"
  <2>1. Got(k, PoolStatus, "read") /\ UNCHANGED probe  BY <1>2 DEF StartCheck
  <2>2. PoolStatus \in AnyStatus  BY DEF PoolStatus, AnyStatus
  <2>. QED  BY <1>1, <2>1, <2>2, ToldKeeps
<1>3. CASE Head(inquiry[k].todo) # "pool"
  <2>1. /\ probe[k].at = "none"
        /\ probe' = [probe EXCEPT ![k] = [NoProbe EXCEPT !.at = "acquire"]]
        /\ inquiry' = [inquiry EXCEPT ![k].at = "checking"]
    BY <1>3 DEF StartCheck
  <2>2. PICK q : q = [NoProbe EXCEPT !.at = "acquire"]  OBVIOUS
  <2>3. q \in Probes /\ q.at = "acquire" /\ q.conn = NoSlot /\ q.lost = FALSE
    BY <2>2 DEF NoProbe, Probes
  <2>4. /\ probe' \in [Checkers -> Probes] /\ probe'[k] = q
        /\ \A j \in Checkers : j # k => probe'[j] = probe[j]
    BY <2>1, <2>2, <2>3, ProbeSet
  <2>5. inquiry \in [Checkers -> Inquiries]  BY DEF HealthInv, HealthTyped
  <2>6. /\ inquiry' \in [Checkers -> Inquiries] /\ inquiry'[k].at = "checking"
        /\ inquiry'[k].todo = inquiry[k].todo
        /\ \A j \in Checkers : j # k => inquiry'[j] = inquiry[j]
    BY <2>1, <2>5 DEF Inquiries
  <2>7. \A c \in PoolSlots : k \notin holders[c]  BY <2>1 DEF HealthInv, Probing
  <2>8. Probing(k)'  BY <1>1, <2>3, <2>4, <2>6, <2>7 DEF Probing
  <2>9. healthFaults' \in 0..MaxHealthFaults  BY <1>1 DEF HealthInv, HealthTyped
  <2>. QED  BY <1>1, <2>4, <2>6, <2>8, <2>9, AloneKeeps
<1>. QED  BY <1>2, <1>3

LEMMA AcquireKeeps ==
    ASSUME HealthInv, NEW k \in Checkers, Acquire(k)
    PROVE  HealthInv'
<1>1. /\ probe[k].at = "acquire" /\ UNCHANGED <<health, inquiry, recent, replica, healthFaults>>
  BY DEF Acquire
<1>2. PICK c \in PoolSlots :
           /\ inPool[c] > 0 /\ Take(k, c)
           /\ probe' = [probe EXCEPT ![k].conn = c,
                           ![k].at = IF @ = "acquire" /\ (probe[k].lost \/ Checking(k, "warm"))
                                     THEN "close" ELSE "query",
                           ![k].ok = ~probe[k].lost /\ Checking(k, "warm")]
  BY DEF Acquire
<1>3. probe \in [Checkers -> Probes]  BY DEF HealthInv, HealthTyped
<1>4. PICK at \in {"close", "query"}, ok \in BOOLEAN :
          /\ probe' = [probe EXCEPT ![k] = [at |-> at, conn |-> c, ok |-> ok, lost |-> probe[k].lost]]
          /\ probe[k].lost => at = "close"
  <2>1. probe[k] \in Probes  BY <1>3
  <2>2. PICK at \in {"close", "query"} :
            at = IF probe[k].lost \/ Checking(k, "warm") THEN "close" ELSE "query"
    OBVIOUS
  <2>3. PICK ok \in BOOLEAN : ok <=> ~probe[k].lost /\ Checking(k, "warm")
    OBVIOUS
  <2>4. (~probe[k].lost /\ Checking(k, "warm")) = ok
    <3>1. (~probe[k].lost /\ Checking(k, "warm")) \in BOOLEAN  BY Zenon DEF Checking
    <3>. QED  BY <2>3, <3>1, Zenon
  <2>5. probe' = [probe EXCEPT ![k].conn = c, ![k].at = at, ![k].ok = ok]
    <3>1. (IF probe[k].at = "acquire" /\ (probe[k].lost \/ Checking(k, "warm"))
           THEN "close" ELSE "query") = at
      BY <1>1, <2>2
    <3>. QED  BY <1>2, <2>4, <3>1
  <2>6. probe' = [probe EXCEPT ![k] = [at |-> at, conn |-> c, ok |-> ok, lost |-> probe[k].lost]]
    <3>1. PICK p \in Probes : p = probe[k]  BY <2>1
    <3>2. [p EXCEPT !.conn = c, !.at = at, !.ok = ok] = [at |-> at, conn |-> c, ok |-> ok, lost |-> p.lost]
      <4>1. PICK q : q = [p EXCEPT !.conn = c, !.at = at, !.ok = ok]  OBVIOUS
      <4>2. PICK a, d, o, l : p = [at |-> a, conn |-> d, ok |-> o, lost |-> l]
        BY <3>1 DEF Probes
      <4>3. /\ q.at = at /\ q.conn = c /\ q.ok = ok /\ q.lost = p.lost
            /\ q = [f \in {"at", "conn", "ok", "lost"} |-> q[f]]
        BY ONLY <4>1, <4>2
      <4>4. q = [at |-> q.at, conn |-> q.conn, ok |-> q.ok, lost |-> q.lost]
        BY ONLY <4>3
      <4>. QED  BY ONLY <4>1, <4>3, <4>4
    <3>3. probe' = [probe EXCEPT ![k] = [p EXCEPT !.conn = c, !.at = at, !.ok = ok]]
      BY <1>3, <2>5, <3>1
    <3>. QED  BY <3>1, <3>2, <3>3
  <2>. QED  BY <2>2, <2>6
<1>5. PICK q : q = [at |-> at, conn |-> c, ok |-> ok, lost |-> probe[k].lost]  OBVIOUS
<1>6. /\ q \in Probes /\ q.at \in {"close", "query"} /\ q.conn = c
      /\ q.lost = probe[k].lost /\ q.lost \in BOOLEAN /\ (q.lost => q.at = "close")
  <2>1. probe[k].lost \in BOOLEAN  BY HealthFacts
  <2>. QED  BY <1>4, <1>5, <2>1 DEF Probes
<1>7. /\ probe' \in [Checkers -> Probes] /\ probe'[k] = q
      /\ \A j \in Checkers : j # k => probe'[j] = probe[j]
  BY <1>4, <1>5, <1>6, ProbeSet
<1>8. /\ inPool' \in [PoolSlots -> Nat]
      /\ holders' \in [PoolSlots -> SUBSET (Checkers \cup {App})]
      /\ \A d \in PoolSlots : Seated(d)'
      /\ \A j, d : d \in PoolSlots => (j \in holders'[d] <=> j \in holders[d] \/ (j = k /\ d = c))
  BY <1>1, <1>2, TakesOne
<1>9. Probing(k)'
  <2>1. Probing(k)  BY DEF HealthInv
  <2>2. \A d \in PoolSlots : k \in holders'[d] => d = c  BY <1>1, <1>8, <2>1 DEF Probing
  <2>3. inquiry'[k] = inquiry[k]  BY <1>1
  <2>. QED  BY <1>1, <1>6, <1>7, <2>1, <2>2, <2>3 DEF Probing
<1>10. \A j \in Checkers : Probing(j)'
  <2>. TAKE j \in Checkers
  <2>1. CASE j = k  BY <1>9, <2>1
  <2>2. CASE j # k  BY <1>1, <1>7, <1>8, <2>2, OthersProbe
  <2>. QED  BY <2>1, <2>2
<1>11. inquiry' \in [Checkers -> Inquiries] /\ healthFaults' \in 0..MaxHealthFaults
  BY <1>1 DEF HealthInv, HealthTyped
<1>. QED  BY <1>1, <1>7, <1>8, <1>10, <1>11, Assembled

\* A probe that goes on, without a change of the pool or of the inquiry.
LEMMA ProbeGoesOn ==
    ASSUME HealthInv, NEW k \in Checkers, NEW q \in Probes, probe' = [probe EXCEPT ![k] = q],
           UNCHANGED <<health, inPool, holders, inquiry, replica>>,
           healthFaults' \in 0..MaxHealthFaults,
           probe[k].at # "none", q.lost = probe[k].lost, q.conn = probe[k].conn,
           \/ probe[k].at = "query" /\ q.at \in {"lag", "close"} /\ (q.lost => q.at = "close")
           \/ probe[k].at = "acquire" /\ q.at = "over"
    PROVE  HealthInv'
<1>1. /\ probe' \in [Checkers -> Probes] /\ probe'[k] = q
      /\ \A j \in Checkers : j # k => probe'[j] = probe[j]
  BY ProbeSet
<1>2. Probing(k)'
  <2>1. Probing(k)  BY DEF HealthInv
  <2>. QED  BY <1>1, <2>1 DEF Probing
<1>3. inquiry' \in [Checkers -> Inquiries]  BY DEF HealthInv, HealthTyped
<1>. QED  BY <1>1, <1>2, <1>3, AloneKeeps

LEMMA OneMoreFault ==
    ASSUME HealthInv, healthFaults < MaxHealthFaults
    PROVE  healthFaults + 1 \in 0..MaxHealthFaults
BY HealthAssumption DEF HealthInv, HealthTyped

LEMMA AcquireFailsKeeps ==
    ASSUME HealthInv, NEW k \in Checkers, AcquireFails(k)
    PROVE  HealthInv'
<1>1. probe \in [Checkers -> Probes]  BY DEF HealthInv, HealthTyped
<1>2. PICK q : q = [probe[k] EXCEPT !.at = "over"]  OBVIOUS
<1>3. /\ q \in Probes /\ q.at = "over" /\ q.lost = probe[k].lost /\ q.conn = probe[k].conn
      /\ probe' = [probe EXCEPT ![k] = q]
  BY <1>1, <1>2 DEF AcquireFails, Probes
<1>4. /\ probe[k].at = "acquire" /\ UNCHANGED <<health, inPool, holders, inquiry, replica>>
      /\ healthFaults' \in 0..MaxHealthFaults
  BY OneMoreFault DEF AcquireFails
<1>. QED  BY <1>3, <1>4, ProbeGoesOn

LEMMA QueriedKeeps ==
    ASSUME HealthInv, NEW k \in Checkers, Queried(k)
    PROVE  HealthInv'
<1>1. probe \in [Checkers -> Probes] /\ healthFaults \in 0..MaxHealthFaults
  BY DEF HealthInv, HealthTyped
<1>2. PICK ok \in BOOLEAN :
          /\ ok \/ healthFaults < MaxHealthFaults
          /\ healthFaults' = IF ok THEN healthFaults ELSE healthFaults + 1
          /\ probe' = [probe EXCEPT ![k].at = "close", ![k].ok = ok]
  BY DEF Queried
<1>3. PICK q : q = [probe[k] EXCEPT !.at = "close", !.ok = ok]  OBVIOUS
<1>4. /\ q \in Probes /\ q.at = "close" /\ q.lost = probe[k].lost /\ q.conn = probe[k].conn
      /\ probe' = [probe EXCEPT ![k] = q]
  BY <1>1, <1>2, <1>3 DEF Probes
<1>5. healthFaults' \in 0..MaxHealthFaults  BY <1>1, <1>2, OneMoreFault
<1>6. probe[k].at = "query" /\ UNCHANGED <<health, inPool, holders, inquiry, replica>>
  BY DEF Queried
<1>. QED  BY <1>4, <1>5, <1>6, ProbeGoesOn

LEMMA CloseProbeKeeps ==
    ASSUME HealthInv, NEW k \in Checkers, CloseProbe(k)
    PROVE  HealthInv'
<1>1. probe \in [Checkers -> Probes] /\ healthFaults \in 0..MaxHealthFaults
      /\ inquiry \in [Checkers -> Inquiries]
  BY DEF HealthInv, HealthTyped
<1>2. /\ probe[k].at = "close" /\ GiveBack(k, probe[k].conn)
      /\ probe' = [probe EXCEPT ![k] = [@ EXCEPT !.at = IF probe[k].lost THEN "none" ELSE "over"]]
      /\ UNCHANGED <<health, inquiry, recent, replica, healthFaults>>
  BY DEF CloseProbe
<1>3. probe[k].conn \in PoolSlots  BY <1>2 DEF HealthInv, Probing
<1>4. PICK q : q = [probe[k] EXCEPT !.at = IF probe[k].lost THEN "none" ELSE "over"]  OBVIOUS
<1>5. /\ q \in Probes /\ q.at = (IF probe[k].lost THEN "none" ELSE "over") /\ q.lost = probe[k].lost
      /\ probe' = [probe EXCEPT ![k] = q]
  BY <1>1, <1>2, <1>4 DEF Probes
<1>6. /\ probe' \in [Checkers -> Probes] /\ probe'[k] = q
      /\ \A j \in Checkers : j # k => probe'[j] = probe[j]
  BY <1>5, ProbeSet
<1>7. (\A c \in PoolSlots : k \notin holders'[c]) => Probing(k)'
  <2>1. Probing(k) /\ inquiry' = inquiry  BY <1>2 DEF HealthInv
  <2>. QED  BY <1>2, <1>5, <1>6, <2>1 DEF Probing
<1>. QED  BY <1>1, <1>2, <1>3, <1>6, <1>7, GivingKeeps

LEMMA CheckEndsKeeps ==
    ASSUME HealthInv, NEW k \in Checkers, CheckEnds(k)
    PROVE  HealthInv'
<1>1. /\ probe[k].at = "over" /\ probe' = [probe EXCEPT ![k] = NoProbe]
      /\ UNCHANGED <<health, inPool, holders, recent, replica, healthFaults>>
  BY DEF CheckEnds
<1>2. NoProbe \in Probes /\ NoProbe.at = "none" /\ NoProbe.lost = FALSE
  BY DEF NoProbe, Probes
<1>3. /\ probe' \in [Checkers -> Probes] /\ probe'[k] = NoProbe
      /\ \A j \in Checkers : j # k => probe'[j] = probe[j]
  BY <1>1, <1>2, ProbeSet
<1>4. Probing(k)  BY DEF HealthInv
<1>5. \A c \in PoolSlots : k \notin holders[c]  BY <1>1, <1>4 DEF Probing
<1>6. /\ inquiry' \in [Checkers -> Inquiries] /\ inquiry'[k].at # "checking"
      /\ \A j \in Checkers : j # k => inquiry'[j] = inquiry[j]
  <2>1. CASE probe[k].lost
    <3>1. inquiry' = inquiry  BY <2>1 DEF CheckEnds
    <3>2. inquiry[k].at # "checking"  BY <1>4, <2>1 DEF Probing
    <3>3. inquiry \in [Checkers -> Inquiries]  BY DEF HealthInv, HealthTyped
    <3>. QED  BY <3>1, <3>2, <3>3
  <2>2. CASE ~probe[k].lost
    <3>1. PICK status \in AnyStatus, truth \in AnyTruth :
              /\ Got(k, status, truth)
              /\ status = "UP" => truth \notin {"failed", "late", "behind"}
      <4>1. Got(k, IF probe[k].ok THEN "UP" ELSE "DOWN", IF probe[k].ok THEN "answered" ELSE "failed")
        BY <2>2 DEF CheckEnds
      <4>2. CASE probe[k].ok
        <5>1. Got(k, "UP", "answered")  BY <4>1, <4>2
        <5>. QED  BY <5>1 DEF AnyStatus, AnyTruth
      <4>3. CASE ~probe[k].ok
        <5>1. Got(k, "DOWN", "failed")  BY <4>1, <4>3
        <5>. QED  BY <5>1 DEF AnyStatus, AnyTruth
      <4>. QED  BY <4>2, <4>3
    <3>2. inquiry[k].todo # <<>>  BY <1>1, <1>4, <2>2 DEF Probing
    <3>3. /\ inquiry' \in [Checkers -> Inquiries] /\ inquiry'[k].at = "next"
          /\ \A j \in Checkers : j # k => inquiry'[j] = inquiry[j]
      BY <3>1, <3>2, GotOne
    <3>. QED  BY <3>3
  <2>. QED  BY <2>1, <2>2
<1>7. Probing(k)'  BY <1>1, <1>2, <1>3, <1>5, <1>6 DEF Probing
<1>8. healthFaults' \in 0..MaxHealthFaults  BY <1>1 DEF HealthInv, HealthTyped
<1>. QED  BY <1>1, <1>3, <1>6, <1>7, <1>8, AloneKeeps

LEMMA TimesOutKeeps ==
    ASSUME HealthInv, NEW k \in Checkers, TimesOut(k)
    PROVE  HealthInv'
<1>1. /\ inquiry[k].at = "checking" /\ probe[k].at \in {"acquire", "query", "close"}
      /\ Got(k, "DOWN", "late") /\ probe' = [probe EXCEPT ![k].lost = TRUE]
      /\ UNCHANGED <<health, recent, replica, healthFaults>>
  BY DEF TimesOut, Checking
<1>2. Probing(k) /\ probe \in [Checkers -> Probes] /\ healthFaults' \in 0..MaxHealthFaults
  BY <1>1 DEF HealthInv, HealthTyped
<1>3. PICK q : q = [probe[k] EXCEPT !.lost = TRUE]  OBVIOUS
<1>4. /\ q \in Probes /\ q.at = probe[k].at /\ q.conn = probe[k].conn /\ q.lost = TRUE
      /\ probe' = [probe EXCEPT ![k] = q]
  BY <1>1, <1>2, <1>3 DEF Probes
<1>5. /\ probe' \in [Checkers -> Probes] /\ probe'[k] = q
      /\ \A j \in Checkers : j # k => probe'[j] = probe[j]
  BY <1>4, ProbeSet
<1>6. /\ inquiry' \in [Checkers -> Inquiries] /\ inquiry'[k].at = "next"
      /\ \A j \in Checkers : j # k => inquiry'[j] = inquiry[j]
  <2>1. inquiry[k].todo # <<>>  BY <1>1, <1>2 DEF Probing
  <2>2. "DOWN" \in AnyStatus /\ "late" \in AnyTruth /\ "DOWN" # "UP"  BY DEF AnyStatus, AnyTruth
  <2>. QED  BY <1>1, <2>1, <2>2, GotOne
<1>7. (\A c \in PoolSlots : k \notin holders'[c]) => Probing(k)'
  BY <1>1, <1>2, <1>4, <1>5, <1>6 DEF Probing
<1>8. CASE probe[k].conn = NoSlot
  <2>1. UNCHANGED <<inPool, holders>>  BY <1>8 DEF TimesOut
  <2>2. \A c \in PoolSlots : k \notin holders[c]
    <3>. TAKE c \in PoolSlots
    <3>1. c # NoSlot  BY HealthFacts
    <3>. QED  BY <1>2, <1>8, <3>1 DEF Probing
  <2>3. \A c \in PoolSlots : k \notin holders'[c]  BY <2>1, <2>2
  <2>. QED  BY <1>1, <1>2, <1>5, <1>6, <1>7, <2>1, <2>3, AloneKeeps
<1>9. CASE probe[k].conn # NoSlot
  <2>1. GiveBack(k, probe[k].conn)  BY <1>9 DEF TimesOut
  <2>2. probe[k].conn \in PoolSlots  BY <1>9, HealthFacts
  <2>. QED  BY <1>1, <1>2, <1>5, <1>6, <1>7, <2>1, <2>2, GivingKeeps
<1>. QED  BY <1>8, <1>9

\* A check that ends with its connection closed.
LEMMA ClosedKeeps ==
    ASSUME HealthInv, NEW k \in Checkers, NEW status \in AnyStatus, NEW truth \in AnyTruth,
           status = "UP" => truth \notin {"failed", "late", "behind"},
           inquiry[k].at = "checking", probe[k].at \in {"query", "lag"}, Closed(k, status, truth),
           UNCHANGED <<health, replica>>, healthFaults' \in 0..MaxHealthFaults
    PROVE  HealthInv'
<1>1. /\ GiveBack(k, probe[k].conn) /\ probe' = [probe EXCEPT ![k] = NoProbe]
      /\ Got(k, status, truth)
  BY DEF Closed
<1>2. Probing(k)  BY DEF HealthInv
<1>3. probe[k].conn \in PoolSlots /\ inquiry[k].todo # <<>>  BY <1>2 DEF Probing
<1>4. NoProbe \in Probes /\ NoProbe.at = "none" /\ NoProbe.lost = FALSE
  BY DEF NoProbe, Probes
<1>5. /\ probe' \in [Checkers -> Probes] /\ probe'[k] = NoProbe
      /\ \A j \in Checkers : j # k => probe'[j] = probe[j]
  BY <1>1, <1>4, ProbeSet
<1>6. /\ inquiry' \in [Checkers -> Inquiries] /\ inquiry'[k].at = "next"
      /\ \A j \in Checkers : j # k => inquiry'[j] = inquiry[j]
  BY <1>1, <1>3, GotOne
<1>7. (\A c \in PoolSlots : k \notin holders'[c]) => Probing(k)'
  BY <1>4, <1>5, <1>6 DEF Probing
<1>. QED  BY <1>1, <1>3, <1>5, <1>6, <1>7, GivingKeeps

LEMMA AskRecoveryKeeps ==
    ASSUME HealthInv, NEW k \in Checkers, AskRecovery(k)
    PROVE  HealthInv'
<1>1. /\ inquiry[k].at = "checking" /\ probe[k].at = "query"
      /\ UNCHANGED <<health, recent, replica, healthFaults>>
  BY DEF AskRecovery, Checking
<1>2. probe \in [Checkers -> Probes] /\ healthFaults' \in 0..MaxHealthFaults
  BY <1>1 DEF HealthInv, HealthTyped
<1>3. CASE replica.recovering
  <2>1. /\ probe' = [probe EXCEPT ![k].at = "lag"] /\ UNCHANGED <<inPool, holders, inquiry>>
    BY <1>3 DEF AskRecovery
  <2>2. PICK q : q = [probe[k] EXCEPT !.at = "lag"]  OBVIOUS
  <2>3. /\ q \in Probes /\ q.at = "lag" /\ q.lost = probe[k].lost /\ q.conn = probe[k].conn
        /\ probe' = [probe EXCEPT ![k] = q]
    BY <1>2, <2>1, <2>2 DEF Probes
  <2>4. ~q.lost  BY <1>1, <2>3 DEF HealthInv, Probing
  <2>. QED  BY <1>1, <1>2, <2>1, <2>3, <2>4, ProbeGoesOn
<1>4. CASE ~replica.recovering
  <2>1. Closed(k, "UP", "primary")  BY <1>4 DEF AskRecovery
  <2>2. "UP" \in AnyStatus /\ "primary" \in AnyTruth /\ "primary" \notin {"failed", "late", "behind"}
    BY DEF AnyStatus, AnyTruth
  <2>. QED  BY <1>1, <1>2, <2>1, <2>2, ClosedKeeps
<1>. QED  BY <1>3, <1>4

LEMMA AskLagKeeps ==
    ASSUME HealthInv, NEW k \in Checkers, AskLag(k)
    PROVE  HealthInv'
<1>1. /\ inquiry[k].at = "checking" /\ probe[k].at = "lag"
      /\ UNCHANGED <<health, recent, replica, healthFaults>>
  BY DEF AskLag, Checking
<1>2. healthFaults' \in 0..MaxHealthFaults  BY <1>1 DEF HealthInv, HealthTyped
<1>3. PICK status, truth :
          /\ status = LagStatus(replica.replayed)
          /\ truth = IF replica.replayed # Never /\ replica.behind \in {Degraded, TooOld}
                     THEN "behind" ELSE "read"
  OBVIOUS
<1>4. Closed(k, status, truth)  BY <1>3 DEF AskLag
<1>5. status \in AnyStatus /\ truth \in AnyTruth  BY <1>3 DEF AnyStatus, AnyTruth, LagStatus
<1>6. status = "UP" => truth \notin {"failed", "late", "behind"}
  <2>1. replica.replayed \in 0..3 /\ replica.behind \in 0..3
    BY DEF HealthInv, HealthTyped, Never, UpToDate
  <2>2. replica.replayed # 3 /\ replica.behind # 3 => replica.behind <= replica.replayed
    BY DEF HealthInv, Ordered, Never, UpToDate
  <2>3. ASSUME replica.replayed # 3, replica.behind \in {1, 2}, status = "UP" PROVE FALSE
    <3>1. replica.replayed = 0  BY <1>3, <2>1, <2>3 DEF LagStatus, Never, TooOld, Degraded
    <3>. QED  BY <2>1, <2>2, <2>3, <3>1
  <2>4. truth = IF replica.replayed # 3 /\ replica.behind \in {1, 2} THEN "behind" ELSE "read"
    BY <1>3 DEF Never, Degraded, TooOld
  <2>. QED  BY <2>3, <2>4
<1>. QED  BY <1>1, <1>2, <1>4, <1>5, <1>6, ClosedKeeps

LEMMA AskSchemasKeeps ==
    ASSUME HealthInv, NEW k \in Checkers, AskSchemas(k)
    PROVE  HealthInv'
<1>1. /\ inquiry[k].at = "checking" /\ probe[k].at = "query"
      /\ Closed(k, SchemasStatus, "read") /\ UNCHANGED <<health, recent, replica, healthFaults>>
  BY DEF AskSchemas, Checking
<1>2. healthFaults' \in 0..MaxHealthFaults  BY <1>1 DEF HealthInv, HealthTyped
<1>3. SchemasStatus \in AnyStatus /\ "read" \in AnyTruth /\ "read" \notin {"failed", "late", "behind"}
  BY DEF SchemasStatus, AnyStatus, AnyTruth
<1>. QED  BY <1>1, <1>2, <1>3, ClosedKeeps

LEMMA AskFailsKeeps ==
    ASSUME HealthInv, NEW k \in Checkers, AskFails(k)
    PROVE  HealthInv'
<1>1. /\ inquiry[k].at = "checking" /\ probe[k].at \in {"query", "lag"}
      /\ Closed(k, "DOWN", "failed") /\ UNCHANGED <<health, recent, replica>>
  BY DEF AskFails, Checking
<1>2. healthFaults' \in 0..MaxHealthFaults  BY OneMoreFault DEF AskFails
<1>3. "DOWN" \in AnyStatus /\ "failed" \in AnyTruth /\ "DOWN" # "UP"
  BY DEF AnyStatus, AnyTruth
<1>. QED  BY <1>1, <1>2, <1>3, ClosedKeeps

LEMMA ReplicaKeeps ==
    ASSUME HealthInv, ReplicaNext
    PROVE  HealthInv'
<1>1. UNCHANGED <<health, inPool, holders, inquiry, probe, recent, healthFaults>>
  BY DEF ReplicaNext
<1>2. \A age \in 0..3 : Older(age) \in 0..3 /\ (Older(age) = 3 <=> age = 3)
  BY DEF Older, TooOld
<1>3. replica \in [recovering : BOOLEAN, replayed : 0..3, behind : 0..3]
  BY DEF HealthInv, HealthTyped, Never, UpToDate
<1>4. replica.replayed # 3 /\ replica.behind # 3 => replica.behind <= replica.replayed
  BY DEF HealthInv, Ordered, Never, UpToDate
<1>5. PICK r \in [recovering : BOOLEAN, replayed : 0..3, behind : 0..3] :
          /\ replica' = r
          /\ r.replayed # 3 /\ r.behind # 3 => r.behind <= r.replayed
  <2>0. PICK rec \in BOOLEAN, a \in 0..3, b \in 0..3 :
            replica = [recovering |-> rec, replayed |-> a, behind |-> b]
    BY <1>3
  <2>00. a # 3 /\ b # 3 => b <= a  BY <1>4, <2>0
  <2>1. CASE Ages
    <3>1. replica' = [recovering |-> rec, replayed |-> Older(a), behind |-> Older(b)]
      BY <2>0, <2>1 DEF Ages
    <3>2. Older(a) # 3 /\ Older(b) # 3 => Older(b) <= Older(a)
      BY <2>00 DEF Older, TooOld
    <3>3. Older(a) \in 0..3 /\ Older(b) \in 0..3  BY <1>2
    <3>. QED  BY <3>1, <3>2, <3>3
  <2>2. CASE PrimaryWrites
    <3>1. replica' = [recovering |-> rec, replayed |-> a, behind |-> 0]
      BY <2>0, <2>2 DEF PrimaryWrites
    <3>2. a # 3 /\ 0 # 3 => 0 <= a  OBVIOUS
    <3>3. PICK r : r = [recovering |-> rec, replayed |-> a, behind |-> 0]  OBVIOUS
    <3>4. /\ r \in [recovering : BOOLEAN, replayed : 0..3, behind : 0..3]
          /\ r.replayed = a /\ r.behind = 0
      BY <3>3
    <3>. QED  BY ONLY <3>1, <3>2, <3>3, <3>4
  <2>3. CASE Replays
    <3>1. replica' = [recovering |-> rec, replayed |-> 0, behind |-> 3]
      BY <2>0, <2>3 DEF Replays, UpToDate
    <3>2. PICK r : r = [recovering |-> rec, replayed |-> 0, behind |-> 3]  OBVIOUS
    <3>3. /\ r \in [recovering : BOOLEAN, replayed : 0..3, behind : 0..3]
          /\ r.behind = 3
      BY <3>2
    <3>. QED  BY ONLY <3>1, <3>2, <3>3
  <2>4. CASE Promoted
    <3>1. replica' = [recovering |-> FALSE, replayed |-> a, behind |-> 3]
      BY <2>0, <2>4 DEF Promoted, UpToDate
    <3>2. PICK r : r = [recovering |-> FALSE, replayed |-> a, behind |-> 3]  OBVIOUS
    <3>3. /\ r \in [recovering : BOOLEAN, replayed : 0..3, behind : 0..3]
          /\ r.behind = 3
      BY <3>2
    <3>. QED  BY ONLY <3>1, <3>2, <3>3
  <2>. QED  BY <2>1, <2>2, <2>3, <2>4 DEF ReplicaNext
<1>6. HealthTyped'  BY <1>1, <1>5 DEF HealthInv, HealthTyped, Never, UpToDate
<1>7. Ordered'  BY <1>5 DEF Ordered, Never, UpToDate
<1>8. \A k \in Checkers : Probing(k)'  BY <1>1, OthersProbe
<1>9. \A c \in PoolSlots : Seated(c)'  BY <1>1 DEF HealthInv, Seated
<1>. QED  BY <1>6, <1>7, <1>8, <1>9 DEF HealthInv

LEMMA HealthKeeps == HealthInv /\ [HealthNext]_healthVars => HealthInv'
<1>. SUFFICES ASSUME HealthInv, [HealthNext]_healthVars PROVE HealthInv'
  OBVIOUS
<1>1. ASSUME UNCHANGED <<health, inPool, holders, inquiry, probe, replica, healthFaults>>
      PROVE  HealthInv'
  <2>1. \A k \in Checkers : Probing(k)'  BY <1>1, OthersProbe
  <2>2. \A c \in PoolSlots : Seated(c)'  BY <1>1 DEF HealthInv, Seated
  <2>3. HealthTyped' /\ Ordered'  BY <1>1 DEF HealthInv, HealthTyped, Ordered
  <2>. QED  BY <2>1, <2>2, <2>3 DEF HealthInv
<1>2. CASE UNCHANGED healthVars  BY <1>1, <1>2 DEF healthVars
<1>3. CASE \E n \in recent : Expires(n)  BY <1>1, <1>3 DEF Expires
<1>4. CASE \E k \in Checkers : \/ Inquire(k) \/ Checks(k) \/ AcquireFails(k) \/ Queried(k)
                               \/ AskRecovery(k) \/ AskLag(k) \/ AskSchemas(k) \/ AskFails(k)
  <2>1. PICK k \in Checkers : \/ Inquire(k) \/ Checks(k) \/ AcquireFails(k) \/ Queried(k)
                              \/ AskRecovery(k) \/ AskLag(k) \/ AskSchemas(k) \/ AskFails(k)
    BY <1>4
  <2>2. CASE Checks(k)
    BY <2>2, StartCheckKeeps, TellLimitedKeeps, AcquireKeeps, CloseProbeKeeps, CheckEndsKeeps,
       TimesOutKeeps DEF Checks
  <2>3. CASE Inquire(k) \/ AcquireFails(k) \/ Queried(k)
    BY <2>3, InquireKeeps, AcquireFailsKeeps, QueriedKeeps
  <2>4. CASE AskRecovery(k) \/ AskLag(k) \/ AskSchemas(k) \/ AskFails(k)
    BY <2>4, AskRecoveryKeeps, AskLagKeeps, AskSchemasKeeps, AskFailsKeeps
  <2>. QED  BY <2>1, <2>2, <2>3, <2>4
<1>5. CASE AppTakes \/ AppCloses  BY <1>5, AppKeeps
<1>6. CASE ReplicaNext  BY <1>6, ReplicaKeeps
<1>. QED  BY <1>2, <1>3, <1>4, <1>5, <1>6 DEF HealthNext

LEMMA HealthInvGives == HealthInv => HealthHolds
<1>. SUFFICES ASSUME HealthInv PROVE HealthHolds
  OBVIOUS
<1>1. HealthTypeOK
  <2>1. health \in HealthKinds /\ healthFaults \in 0..MaxHealthFaults  BY DEF HealthInv, HealthTyped
  <2>2. \A c \in PoolSlots : inPool[c] \in Nat /\ holders[c] \subseteq Checkers \cup {App}
    BY HealthFacts
  <2>3. \A k \in Checkers : /\ probe[k].at \in {"none", "acquire", "query", "lag", "close", "over"}
                            /\ inquiry[k].at = "checking" => inquiry[k].todo # <<>>
    BY HealthFacts DEF HealthInv, Probing
  <2>. QED  BY <2>1, <2>2, <2>3 DEF HealthTypeOK
<1>2. UpIsTrue
  <2>. SUFFICES ASSUME NEW k \in Checkers
                PROVE  /\ \A g \in Told(k) : g.status = "UP" => g.truth \notin {"failed", "late", "behind"}
                       /\ Worst(k) = "UP" => \A g \in Told(k) : g.truth \notin {"failed", "late", "behind"}
    BY DEF UpIsTrue
  <2>1. \A g \in Told(k) : /\ g.status \in {"UP", "DEGRADED", "DOWN"}
                           /\ g.status = "UP" => g.truth \notin {"failed", "late", "behind"}
    <3>1. PICK s \in Seq(TrueResults) : s = inquiry[k].got  BY HealthFacts
    <3>2. \A g \in ToSet(s) : g \in TrueResults  BY DEF ToSet
    <3>3. \A g \in TrueResults : /\ g.status \in {"UP", "DEGRADED", "DOWN"}
                                 /\ g.status = "UP" => g.truth \notin {"failed", "late", "behind"}
      BY DEF TrueResults
    <3>. QED  BY <3>1, <3>2, <3>3 DEF Told
  <2>2. Worst(k) = "UP" => \A g \in Told(k) : g.status = "UP"
    BY <2>1 DEF Worst
  <2>. QED  BY <2>1, <2>2
<1>3. NothingKept
  <2>. SUFFICES ASSUME NEW k \in Checkers, NEW c \in PoolSlots, k \in holders[c]
                PROVE  /\ probe[k].conn = c
                       /\ inquiry[k].at = "checking" \/ (probe[k].lost /\ probe[k].at = "close")
    BY DEF NothingKept
  <2>1. Probing(k)  BY DEF HealthInv
  <2>. QED  BY <2>1 DEF Probing
<1>4. OneHolder
  <2>. SUFFICES ASSUME health.flagged, NEW c \in PoolSlots
                PROVE  inPool[c] + Cardinality(holders[c]) = 1
    BY DEF OneHolder
  <2>1. \/ inPool[c] = 1 /\ holders[c] = {}
        \/ inPool[c] = 0 /\ \E k \in Checkers \cup {App} : holders[c] = {k}
    BY DEF HealthInv, Seated
  <2>2. CASE inPool[c] = 1 /\ holders[c] = {}  BY <2>2, FS_EmptySet
  <2>3. CASE inPool[c] = 0 /\ \E k \in Checkers \cup {App} : holders[c] = {k}
    <3>1. PICK k : holders[c] = {k}  BY <2>3
    <3>2. Cardinality({k}) = 1  BY FS_Singleton
    <3>. QED  BY <2>3, <3>1, <3>2
  <2>. QED  BY <2>1, <2>2, <2>3
<1>. QED  BY <1>1, <1>2, <1>3, <1>4 DEF HealthHolds

\* For any checks, callers and connections: nobody is told that something is UP that has
\* failed, is late or is behind; no check keeps its connection, whatever timer or error ends
\* it; and a connection that can be closed twice is in the pool once or somebody has it.
THEOREM HealthIsTrue == HealthSpec => []HealthHolds
BY HealthStarts, HealthKeeps, HealthInvGives, PTL DEF HealthSpec

\* For any sessions, checkers and settings, every connection is where it belongs: a client
\* with one session or in one pool, and a connection that a check used with nobody else.
THEOREM ConnectionsStayInPlace == Spec /\ HealthSpec => []ConnectionsInPlace
<1>1. TypeOK /\ OnePlace /\ HealthHolds => ConnectionsInPlace  BY DEF ConnectionsInPlace
<1>. QED  BY <1>1, TypeCorrect, EveryClientInOnePlace, HealthIsTrue, PTL
=============================================================================
