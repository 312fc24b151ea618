---------------------------- MODULE HealthChecks ----------------------------
(***************************************************************************)
(* Health checks, and the warm-up of a pool, over one pool of connections: *)
(* HealthCheckRegistry and CompositeHealthCheck over the checks of         *)
(* connectivity, pool, replica lag and tenant schemas.  The probe of       *)
(* ConnectivityHealthCheck races a timer, and runs on when it has lost.    *)
(***************************************************************************)
EXTENDS Naturals, Sequences, FiniteSets, SequencesExt, FiniteSetsExt

CONSTANTS HealthKinds,   \* records: members (names in order), composite or the registry,
                         \* limited (minIntervalMs > 0), flagged (close() of a connection
                         \* can be repeated), existing (expected schemas that exist);
                         \* bound: after "db" comes none that needs a connection
          Checkers,      \* numbers: callers, in the order in which they come
          PoolSlots,     \* connections of the pool
          NoSlot,
          ExpectedSchemas,
          MaxHealthFaults \* bound: getConnection or a query that fails

App == 0  \* who else uses the pool

ASSUME HealthAssumption ==
    /\ \A h \in HealthKinds : /\ h.members \in Seq({"db", "pool", "lag", "schemas", "warm"})
                              /\ {h.composite, h.limited, h.flagged} \subseteq BOOLEAN
                              /\ h.existing \subseteq ExpectedSchemas
    /\ Checkers \subseteq Nat \ {App} /\ NoSlot \notin PoolSlots
    /\ IsFiniteSet(ExpectedSchemas) /\ MaxHealthFaults \in Nat

VARIABLES health,
          inPool,   \* inPool[c]: how often c stands in the pool
          holders,  \* holders[c]: who has c and has not closed it
          inquiry,  \* inquiry[k]: what k has left to check, and what it was told
          probe,    \* probe[k]: what k's check does with its connection
          recent,   \* names of which lastCheckTime is within the interval
          replica,  \* the replica: in recovery; age of the last transaction replayed, and
                    \* of the oldest that is not
          healthFaults

healthVars == <<health, inPool, holders, inquiry, probe, recent, replica, healthFaults>>

Never == 3        \* nothing replayed since the replica was started
UpToDate == 3     \* nothing to replay
Degraded == 1     \* degradedLagSeconds, maxLagSeconds
TooOld == 2

NoInquiry == [at |-> "new", todo |-> <<>>, got |-> <<>>]
NoProbe == [at |-> "none", conn |-> NoSlot, ok |-> FALSE, lost |-> FALSE]

HealthStart(h) ==
    /\ health = h
    /\ inPool = [c \in PoolSlots |-> 1]
    /\ holders = [c \in PoolSlots |-> {}]
    /\ inquiry = [k \in Checkers |-> NoInquiry]
    /\ probe = [k \in Checkers |-> NoProbe]
    /\ recent = {}
    /\ replica = [recovering |-> TRUE, replayed |-> Never, behind |-> UpToDate]
    /\ healthFaults = 0

HealthInit == \E h \in HealthKinds : HealthStart(h)

-----------------------------------------------------------------------------
(* The pool *)

Take(k, c) == /\ inPool' = [inPool EXCEPT ![c] = @ - 1]
              /\ holders' = [holders EXCEPT ![c] = @ \cup {k}]

\* close(): a wrapper with a flag does nothing the second time, one without puts the
\* connection back again.
GiveBack(k, c) ==
    /\ inPool' = IF health.flagged /\ k \notin holders[c] THEN inPool ELSE [inPool EXCEPT ![c] = @ + 1]
    /\ holders' = [holders EXCEPT ![c] = @ \ {k}]

AppTakes == \E c \in PoolSlots :
    /\ inPool[c] > 0 /\ \A d \in PoolSlots : App \notin holders[d]
    /\ Take(App, c)
    /\ UNCHANGED <<health, inquiry, probe, recent, replica, healthFaults>>

AppCloses == \E c \in PoolSlots :
    /\ App \in holders[c] /\ GiveBack(App, c)
    /\ UNCHANGED <<health, inquiry, probe, recent, replica, healthFaults>>

-----------------------------------------------------------------------------
(* The registry and the composite *)

\* checkAll and CompositeHealthCheck.check go through all, checkOne through one.
Inquire(k) ==
    /\ inquiry[k].at = "new" /\ \A j \in Checkers : j < k => inquiry[j].at # "new"
    /\ \E t \in {health.members} \cup
                (IF health.composite THEN {} ELSE {<<n>> : n \in ToSet(health.members)}) :
           inquiry' = [inquiry EXCEPT ![k] = [at |-> "next", todo |-> t, got |-> <<>>]]
    /\ UNCHANGED <<health, inPool, holders, probe, recent, replica, healthFaults>>

\* A result of the first member that is left to check.
Got(k, status, truth) ==
    inquiry' = [inquiry EXCEPT ![k] = [at |-> "next", todo |-> Tail(@.todo),
                    got |-> Append(@.got, [name |-> Head(@.todo), status |-> status, truth |-> truth])]]

\* isRateLimited: UP, whatever the check says or will say.
Limited(n) == ~health.composite /\ health.limited /\ n \in recent

TellLimited(k) ==
    /\ inquiry[k].at = "next" /\ inquiry[k].todo # <<>>
    /\ Limited(Head(inquiry[k].todo))
    /\ Got(k, "UP", "limited")
    /\ UNCHANGED <<health, inPool, holders, probe, recent, replica, healthFaults>>

PoolStatus ==
    LET idle == FoldSet(LAMBDA c, n : inPool[c] + n, 0, PoolSlots)
    IN IF idle = 0 THEN "DOWN"
       ELSE IF \E k \in Checkers : probe[k].at = "acquire" THEN "DEGRADED" ELSE "UP"

StartCheck(k) ==
    /\ inquiry[k].at = "next" /\ inquiry[k].todo # <<>>
    /\ ~Limited(Head(inquiry[k].todo))
    /\ recent' = IF health.limited /\ ~health.composite THEN recent \cup {Head(inquiry[k].todo)} ELSE recent
    /\ IF Head(inquiry[k].todo) = "pool"
       THEN Got(k, PoolStatus, "read") /\ UNCHANGED probe
       ELSE /\ probe[k].at = "none"
            /\ probe' = [probe EXCEPT ![k] = [NoProbe EXCEPT !.at = "acquire"]]
            /\ inquiry' = [inquiry EXCEPT ![k].at = "checking"]
    /\ UNCHANGED <<health, inPool, holders, replica, healthFaults>>

Expires(n) ==
    /\ recent' = recent \ {n} /\ n \in recent
    /\ UNCHANGED <<health, inPool, holders, inquiry, probe, replica, healthFaults>>

-----------------------------------------------------------------------------
(* A check that uses a connection *)

Checking(k, n) == inquiry[k].at = "checking" /\ Head(inquiry[k].todo) = n

\* A probe that has lost its race closes what it is given, and so does a warm-up.
Acquire(k) ==
    /\ probe[k].at = "acquire"
    /\ \E c \in PoolSlots :
           /\ inPool[c] > 0 /\ Take(k, c)
           /\ probe' = [probe EXCEPT ![k].conn = c,
                           ![k].at = IF @ = "acquire" /\ (probe[k].lost \/ Checking(k, "warm"))
                                     THEN "close" ELSE "query",
                           ![k].ok = ~probe[k].lost /\ Checking(k, "warm")]
    /\ UNCHANGED <<health, inquiry, recent, replica, healthFaults>>

\* getConnection throws.
AcquireFails(k) ==
    /\ probe[k].at = "acquire" /\ healthFaults < MaxHealthFaults
    /\ healthFaults' = healthFaults + 1
    /\ probe' = [probe EXCEPT ![k].at = "over"]
    /\ UNCHANGED <<health, inPool, holders, inquiry, recent, replica>>

\* The query of a probe is answered, perhaps long after the timer, or fails.
Queried(k) ==
    /\ probe[k].at = "query" /\ (Checking(k, "db") \/ probe[k].lost)
    /\ \E ok \in BOOLEAN :
           /\ ok \/ healthFaults < MaxHealthFaults
           /\ healthFaults' = IF ok THEN healthFaults ELSE healthFaults + 1
           /\ probe' = [probe EXCEPT ![k].at = "close", ![k].ok = ok]
    /\ UNCHANGED <<health, inPool, holders, inquiry, recent, replica>>

CloseProbe(k) ==
    /\ probe[k].at = "close"
    /\ GiveBack(k, probe[k].conn)
    /\ probe' = [probe EXCEPT ![k] = [@ EXCEPT !.at = IF probe[k].lost THEN "none" ELSE "over"]]
    /\ UNCHANGED <<health, inquiry, recent, replica, healthFaults>>

\* The check awaited it to the end; or it has nobody to tell.
CheckEnds(k) ==
    /\ probe[k].at = "over"
    /\ probe' = [probe EXCEPT ![k] = NoProbe]
    /\ IF probe[k].lost THEN UNCHANGED inquiry
       ELSE Got(k, IF probe[k].ok THEN "UP" ELSE "DOWN", IF probe[k].ok THEN "answered" ELSE "failed")
    /\ UNCHANGED <<health, inPool, holders, recent, replica, healthFaults>>

\* A timer that leaves the connection to the probe (for a mutant).
TimesOutOnly(k) ==
    /\ Checking(k, "db") /\ probe[k].at \in {"acquire", "query", "close"}
    /\ Got(k, "DOWN", "late")
    /\ probe' = [probe EXCEPT ![k].lost = TRUE]
    /\ UNCHANGED <<health, inPool, holders, recent, replica, healthFaults>>

\* The timer wins: pendingConn, if there is one, is closed.
TimesOut(k) ==
    /\ Checking(k, "db") /\ probe[k].at \in {"acquire", "query", "close"}
    /\ Got(k, "DOWN", "late")
    /\ probe' = [probe EXCEPT ![k].lost = TRUE]
    /\ IF probe[k].conn = NoSlot THEN UNCHANGED <<inPool, holders>> ELSE GiveBack(k, probe[k].conn)
    /\ UNCHANGED <<health, recent, replica, healthFaults>>

\* A lag that is no number counts as 0; the bounds belong to the worse status.
LagStatus(age) == IF age = Never THEN "UP" ELSE IF age >= TooOld THEN "DOWN"
                  ELSE IF age >= Degraded THEN "DEGRADED" ELSE "UP"

Closed(k, status, truth) ==
    /\ GiveBack(k, probe[k].conn) /\ probe' = [probe EXCEPT ![k] = NoProbe]
    /\ Got(k, status, truth)

\* AskLag with the bound the other way (for a mutant).
AskLagAbove(k) ==
    /\ Checking(k, "lag") /\ probe[k].at = "lag"
    /\ Closed(k, IF replica.replayed = Never \/ replica.replayed <= Degraded THEN "UP" ELSE "DOWN",
              IF replica.replayed # Never /\ replica.behind \in {Degraded, TooOld} THEN "behind" ELSE "read")
    /\ UNCHANGED <<health, recent, replica, healthFaults>>

\* pg_is_in_recovery(), and after it the lag.
AskRecovery(k) ==
    /\ Checking(k, "lag") /\ probe[k].at = "query"
    /\ IF replica.recovering
       THEN probe' = [probe EXCEPT ![k].at = "lag"] /\ UNCHANGED <<inPool, holders, inquiry>>
       ELSE Closed(k, "UP", "primary")
    /\ UNCHANGED <<health, recent, replica, healthFaults>>

AskLag(k) ==
    /\ Checking(k, "lag") /\ probe[k].at = "lag"
    /\ Closed(k, LagStatus(replica.replayed),
              IF replica.replayed # Never /\ replica.behind \in {Degraded, TooOld} THEN "behind" ELSE "read")
    /\ UNCHANGED <<health, recent, replica, healthFaults>>

SchemasStatus ==
    IF health.existing = {} THEN "DOWN" ELSE IF health.existing # ExpectedSchemas THEN "DEGRADED" ELSE "UP"

AskSchemas(k) ==
    /\ Checking(k, "schemas") /\ probe[k].at = "query"
    /\ Closed(k, SchemasStatus, "read")
    /\ UNCHANGED <<health, recent, replica, healthFaults>>

\* A query of these two fails; they have no timer.
AskFails(k) ==
    /\ Checking(k, "lag") \/ Checking(k, "schemas")
    /\ probe[k].at \in {"query", "lag"} /\ healthFaults < MaxHealthFaults
    /\ healthFaults' = healthFaults + 1
    /\ Closed(k, "DOWN", "failed")
    /\ UNCHANGED <<health, recent, replica>>

-----------------------------------------------------------------------------
(* The replica *)

HasLag == "lag" \in ToSet(health.members)
Older(age) == IF age < TooOld THEN age + 1 ELSE age
Ages == /\ HasLag
        /\ replica' = [replica EXCEPT !.replayed = Older(@), !.behind = Older(@)]
        /\ replica' # replica
PrimaryWrites == /\ HasLag /\ replica.recovering /\ replica.behind = UpToDate
                 /\ replica' = [replica EXCEPT !.behind = 0]
Replays == replica.behind # UpToDate /\ replica' = [replica EXCEPT !.behind = UpToDate, !.replayed = 0]
Promoted == /\ HasLag /\ replica.recovering
            /\ replica' = [replica EXCEPT !.recovering = FALSE, !.behind = UpToDate]

ReplicaNext == /\ Ages \/ PrimaryWrites \/ Replays \/ Promoted
               /\ UNCHANGED <<health, inPool, holders, inquiry, probe, recent, healthFaults>>

\* What goes on by itself: the loop, a connection that is free, and the timer.
Checks(k) == StartCheck(k) \/ TellLimited(k) \/ Acquire(k) \/ CloseProbe(k) \/ CheckEnds(k) \/ TimesOut(k)

HealthNext ==
    \/ \E k \in Checkers : \/ Inquire(k) \/ Checks(k) \/ AcquireFails(k) \/ Queried(k)
                           \/ AskRecovery(k) \/ AskLag(k) \/ AskSchemas(k) \/ AskFails(k)
    \/ \E n \in recent : Expires(n)
    \/ AppTakes \/ AppCloses \/ ReplicaNext

-----------------------------------------------------------------------------
(* Properties *)

HealthTypeOK ==
    /\ health \in HealthKinds
    /\ \A c \in PoolSlots : inPool[c] \in Nat /\ holders[c] \subseteq Checkers \cup {App}
    /\ \A k \in Checkers : /\ probe[k].at \in {"none", "acquire", "query", "lag", "close", "over"}
                           /\ inquiry[k].at = "checking" => inquiry[k].todo # <<>>
    /\ healthFaults \in 0..MaxHealthFaults

Told(k) == ToSet(inquiry[k].got)

\* The worst status of a composite, where DEGRADED is kept while nothing is DOWN.
Worst(k) ==
    LET all == {g.status : g \in Told(k)}
    IN IF "DOWN" \in all THEN "DOWN" ELSE IF "DEGRADED" \in all THEN "DEGRADED" ELSE "UP"

\* Nobody is told that something is UP of which a query failed or came late, nor a
\* composite of which that is true; nor that a replica is, which was read when it had
\* been behind for long (unless it has replayed nothing since it was started).  Not so
\* with a check left out for its rate.
UpIsTrue ==
    \A k \in Checkers :
        /\ \A g \in Told(k) : g.status = "UP" => g.truth \notin {"failed", "late", "behind"}
        /\ Worst(k) = "UP" => \A g \in Told(k) : g.truth \notin {"failed", "late", "behind"}

\* A check leaves no connection behind: when it has told its result, by the timer too,
\* it has given back what it had, whatever becomes of the query.
NothingKept ==
    \A k \in Checkers : \A c \in PoolSlots :
        k \in holders[c] => /\ probe[k].conn = c
                            /\ inquiry[k].at = "checking" \/ (probe[k].lost /\ probe[k].at = "close")

\* A connection is in the pool once, or somebody has it.  Not so with connections whose
\* close() has no flag, once a probe with one has lost: it closes it again.
OneHolder ==
    \/ ~health.flagged
    \/ \A c \in PoolSlots : inPool[c] + Cardinality(holders[c]) = 1

HealthHolds == HealthTypeOK /\ UpIsTrue /\ NothingKept /\ OneHolder

\* Whoever asks is told, though the database never answers.  (The lag and the schemas are
\* asked without a timer, and a warm-up waits for its connections.)
ChecksEnd ==
    \A k \in Checkers :
        inquiry[k].at # "new" /\ ToSet(health.members) \subseteq {"db", "pool"} ~> inquiry[k].todo = <<>>
=============================================================================
