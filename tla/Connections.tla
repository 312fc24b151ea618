----------------------------- MODULE Connections -----------------------------
(***************************************************************************)
(* A session's connection: TenantAwareDataSource, which sets search_path,  *)
(* over ProxyDataSource, which keeps connections for reuse, over           *)
(* PgDataSource, over the Pool of pg.                                      *)
(*                                                                         *)
(* The pool of pg has at most max clients and knows nothing of the proxy's *)
(* pool: a client that idles in the proxy is out, for pg.  A session ends  *)
(* the transactions it was given and then closes its connection once.      *)
(***************************************************************************)
EXTENDS Naturals, Sequences, FiniteSets, SequencesExt

CONSTANTS Clients,    \* PoolClients
          Sessions,   \* callers of getConnection
          Tenants,    \* schemas, as schemaResolver gives them
          Public,     \* the schema that is no tenant's
          Nobody,     \* in the place of a client
          MaxIdle,    \* maxConnections of the proxy
          MaxPings,   \* DEFAULT_MAX_PING_RETRIES
          MaxCalls,   \* bound: calls of getConnection
          MaxFaults,  \* bound: backends that die, statements that fail
          Settings    \* combinations to start from, see Setting

Setting == [max       : Nat \ {0}, \* clients of pg's Pool
            validate  : BOOLEAN,   \* validateOnBorrow of the proxy
            prePing   : BOOLEAN,   \* of PgDataSource
            reset     : BOOLEAN,   \* resetOnRelease
            isolation : BOOLEAN]   \* the server can refuse an isolation level

ASSUME ConnectionsAssumption ==
    /\ Public \notin Tenants /\ Nobody \notin Clients
    /\ MaxIdle \in Nat /\ MaxPings \in Nat \ {0} /\ MaxCalls \in Nat /\ MaxFaults \in Nat
    /\ Settings \subseteq Setting

VARIABLES setting,
          server,   \* server[c]: state of c's backend
          path,     \* path[c]: first schema of its search_path
          before,   \* before[c]: search_path to which ROLLBACK returns
          tx,       \* tx[c]: state of its transaction
          pinged,   \* pinged[c]: there is a lastPingTimestamp
          idle,     \* idle clients of pg's Pool
          pool,     \* pool of the proxy, last in first out
          closing,  \* closing: "open", "proxy" closed, "all" closed
          step,     \* step[s]: where s is
          tenant,   \* tenant[s]: the schema of its tenant, Public when idle
          client,   \* client[s]: the client s holds, or Nobody
          handle,   \* handle[s]: s was given a Transaction
          tries,    \* tries[s]: failed pings of this call
          calls, faults

backend == <<server, path, before, tx, pinged>>
pools == <<idle, pool, closing>>
session == <<step, tenant, client, handle, tries>>
vars == <<setting, backend, pools, session, calls, faults>>

Steps == {"idle", "borrow", "validate", "connect", "ping", "set", "using", "reset",
          "discard", "release"}

Init == /\ setting \in Settings
        /\ server = [c \in Clients |-> "none"]
        /\ path = [c \in Clients |-> Public]
        /\ before = [c \in Clients |-> Public]
        /\ tx = [c \in Clients |-> "none"]
        /\ pinged = [c \in Clients |-> FALSE]
        /\ idle = {} /\ pool = <<>> /\ closing = "open"
        /\ step = [s \in Sessions |-> "idle"]
        /\ tenant = [s \in Sessions |-> Public]
        /\ client = [s \in Sessions |-> Nobody]
        /\ handle = [s \in Sessions |-> FALSE]
        /\ tries = [s \in Sessions |-> 0]
        /\ calls = 0 /\ faults = 0

Fault == faults < MaxFaults /\ faults' = faults + 1

Goto(s, next) == /\ step' = [step EXCEPT ![s] = next]
                 /\ tenant' = [tenant EXCEPT ![s] = IF next = "idle" THEN Public ELSE @]

\* A statement on c succeeds: not on a dead backend, nor in an aborted
\* transaction.
Healthy(c) == server[c] = "up" /\ tx[c] # "aborted"

\* The pool's clients whose sockets are gone, or that it no longer wants.
Unwanted(c) == server[c] = "down" \/ closing = "all"

\* The clients in C are ended.
End(C) == /\ server' = [c \in Clients |-> IF c \in C THEN "none" ELSE server[c]]
          /\ path' = [c \in Clients |-> IF c \in C THEN Public ELSE path[c]]
          /\ tx' = [c \in Clients |-> IF c \in C THEN "none" ELSE tx[c]]
          /\ pinged' = [c \in Clients |-> IF c \in C THEN FALSE ELSE pinged[c]]

\* PgConnection.close, client.release() and nothing more: the transaction and
\* the search_path stay as they are.
Release(C) == /\ idle' = idle \cup {c \in C : ~Unwanted(c)}
              /\ End({c \in C : Unwanted(c)})
              /\ UNCHANGED before

-----------------------------------------------------------------------------
(* getConnection *)

GetConnection(s) ==
    /\ step[s] = "idle" /\ calls < MaxCalls /\ closing = "open"
    /\ calls' = calls + 1
    /\ step' = [step EXCEPT ![s] = "borrow"]
    /\ \E t \in Tenants : tenant' = [tenant EXCEPT ![s] = t]
    /\ UNCHANGED <<setting, backend, pools, client, handle, tries, faults>>

BorrowWithoutPop(s) ==
    /\ step[s] = "borrow" /\ pool # <<>>
    /\ \/ /\ Release({Last(pool)})
          /\ pool' = Front(pool)
          /\ UNCHANGED <<session, closing>>
       \/ /\ client' = [client EXCEPT ![s] = Last(pool)]
          /\ Goto(s, IF setting.validate THEN "validate" ELSE "set")
          /\ pool' = IF setting.validate THEN pool ELSE Front(pool)
          /\ UNCHANGED <<backend, idle, closing, handle, tries>>
    /\ UNCHANGED <<setting, calls, faults>>

\* pool.pop(): the connection has idled for too long, or is validated if that
\* is configured.
Borrow(s) ==
    /\ step[s] = "borrow" /\ pool # <<>>
    /\ pool' = Front(pool)
    /\ \/ /\ Release({Last(pool)})
          /\ UNCHANGED <<session, closing>>
       \/ /\ client' = [client EXCEPT ![s] = Last(pool)]
          /\ Goto(s, IF setting.validate THEN "validate" ELSE "set")
          /\ UNCHANGED <<backend, idle, closing, handle, tries>>
    /\ UNCHANGED <<setting, calls, faults>>

\* SELECT 1 against a timeout.
Validate(s) ==
    /\ step[s] = "validate"
    /\ \/ /\ Healthy(client[s])
          /\ Goto(s, "set")
          /\ UNCHANGED <<backend, pools, client, handle, tries, faults>>
       \/ /\ IF Healthy(client[s]) THEN Fault ELSE UNCHANGED faults
          /\ Release({client[s]})
          /\ client' = [client EXCEPT ![s] = Nobody]
          /\ Goto(s, "borrow")
          /\ UNCHANGED <<pool, closing, handle, tries>>
    /\ UNCHANGED <<setting, calls>>

\* The proxy has none to reuse.
Connect(s) ==
    /\ step[s] = "borrow" /\ pool = <<>>
    /\ Goto(s, "connect")
    /\ UNCHANGED <<setting, backend, pools, client, handle, tries, calls, faults>>

\* pool.connect() of pg: an idle client or a new one; who gets none waits.
Grant(s) ==
    /\ step[s] = "connect" /\ closing # "all"
    /\ \E c \in Clients :
          /\ \/ c \in idle
             \/ server[c] = "none" /\ Cardinality({d \in Clients : server[d] # "none"}) < setting.max
          /\ client' = [client EXCEPT ![s] = c]
          /\ idle' = idle \ {c}
          /\ server' = [server EXCEPT ![c] = IF c \in idle THEN @ ELSE "up"]
          /\ \/ setting.prePing /\ Goto(s, "ping")
             \/ (setting.prePing => c \in idle /\ pinged[c]) /\ Goto(s, "set")
    /\ UNCHANGED <<setting, path, before, tx, pinged, pool, closing, handle, tries, calls, faults>>

\* getConnection of a DataSource that was closed meanwhile throws; a call that
\* waits in pg's queue then gets no more than its acquireTimeout, if it has one.
ConnectTooLate(s) ==
    /\ step[s] = "connect" /\ closing = "all"
    /\ Goto(s, "idle")
    /\ UNCHANGED <<setting, backend, pools, client, handle, tries, calls, faults>>

\* The pre-ping; a client that fails it is destroyed and another is tried.
Ping(s) ==
    /\ step[s] = "ping"
    /\ IF Healthy(client[s])
       THEN /\ pinged' = [pinged EXCEPT ![client[s]] = TRUE]
            /\ Goto(s, "set")
            /\ tries' = [tries EXCEPT ![s] = 0]
            /\ UNCHANGED <<server, path, tx, client>>
       ELSE /\ End({client[s]})
            /\ client' = [client EXCEPT ![s] = Nobody]
            /\ tries' = [tries EXCEPT ![s] = (@ + 1) % MaxPings]
            /\ Goto(s, IF tries[s] + 1 = MaxPings THEN "idle" ELSE "connect")
    /\ UNCHANGED <<setting, before, pools, handle, calls, faults>>

UseAnyway(s) ==
    /\ step[s] = "set"
    /\ path' = IF Healthy(client[s]) THEN [path EXCEPT ![client[s]] = tenant[s]] ELSE path
    /\ Goto(s, "using")
    /\ UNCHANGED <<setting, server, before, tx, pinged, pools, client, handle, tries,
                   calls, faults>>

\* SET search_path TO the tenant's schema, or SchemaSetupError.
SetSearchPath(s) ==
    /\ step[s] = "set"
    /\ IF Healthy(client[s])
       THEN /\ path' = [path EXCEPT ![client[s]] = tenant[s]]
            /\ Goto(s, "using")
       ELSE Goto(s, "release") /\ UNCHANGED path
    /\ UNCHANGED <<setting, server, before, tx, pinged, pools, client, handle, tries,
                   calls, faults>>

-----------------------------------------------------------------------------
(* The session *)

\* beginTransaction: BEGIN and, if asked for, SET TRANSACTION ISOLATION LEVEL.
\* When the server refuses the level (SERIALIZABLE on a standby) the caller
\* gets an error and no Transaction to roll back.
BeginTransaction(s) ==
    /\ step[s] = "using" /\ ~handle[s]
    /\ Healthy(client[s]) /\ tx[client[s]] = "none"
    /\ before' = [before EXCEPT ![client[s]] = path[client[s]]]
    /\ \/ /\ tx' = [tx EXCEPT ![client[s]] = "open"]
          /\ handle' = [handle EXCEPT ![s] = TRUE]
          /\ UNCHANGED faults
       \/ /\ setting.isolation /\ Fault
          /\ tx' = [tx EXCEPT ![client[s]] = "aborted"]
          /\ UNCHANGED handle
    /\ UNCHANGED <<setting, server, path, pinged, pools, step, tenant, client, tries, calls>>

\* A statement of the transaction fails.
StatementFails(s) ==
    /\ step[s] = "using" /\ handle[s] /\ tx[client[s]] = "open" /\ Fault
    /\ tx' = [tx EXCEPT ![client[s]] = "aborted"]
    /\ UNCHANGED <<setting, server, path, before, pinged, pools, session, calls>>

\* COMMIT or ROLLBACK; COMMIT of an aborted transaction is a ROLLBACK.
EndTransaction(s) ==
    /\ step[s] = "using" /\ handle[s]
    /\ handle' = [handle EXCEPT ![s] = FALSE]
    /\ tx' = [tx EXCEPT ![client[s]] = "none"]
    /\ path' \in {path, [path EXCEPT ![client[s]] = before[client[s]]]}
    /\ tx[client[s]] = "aborted" => path'[client[s]] = before[client[s]]
    /\ before' = [before EXCEPT ![client[s]] = Public]
    /\ UNCHANGED <<setting, server, pinged, pools, step, tenant, client, tries,
                   calls, faults>>

\* close(), which resets the search_path first if resetOnRelease.
Close(s) ==
    /\ step[s] = "using" /\ ~handle[s]
    /\ Goto(s, IF setting.reset THEN "reset" ELSE "release")
    /\ UNCHANGED <<setting, backend, pools, client, handle, tries, calls, faults>>

ResetForTheNext(s) ==
    /\ step[s] = "reset"
    /\ Goto(s, "release")
    /\ UNCHANGED <<setting, backend, pools, client, handle, tries, calls, faults>>

\* SET search_path TO "public".
Reset(s) ==
    /\ step[s] = "reset"
    /\ \/ /\ Healthy(client[s])
          /\ path' = [path EXCEPT ![client[s]] = Public]
          /\ Goto(s, "release")
          /\ UNCHANGED faults
       \/ /\ IF Healthy(client[s]) THEN Fault ELSE UNCHANGED faults
          /\ Goto(s, "discard")
          /\ UNCHANGED path
    /\ UNCHANGED <<setting, server, before, tx, pinged, pools, client, handle, tries, calls>>

\* DISCARD ALL, which is refused in a transaction; then the connection is
\* released whatever came of it.
Discard(s) ==
    /\ step[s] = "discard"
    /\ Goto(s, "release")
    /\ \/ /\ Healthy(client[s]) /\ tx[client[s]] = "none"
          /\ path' = [path EXCEPT ![client[s]] = Public]
          /\ UNCHANGED faults
       \/ /\ IF Healthy(client[s]) THEN Fault ELSE UNCHANGED faults
          /\ UNCHANGED path
    /\ UNCHANGED <<setting, server, before, tx, pinged, pools, client, handle, tries, calls>>

ReturnToClosedProxy(s) ==
    /\ step[s] = "release"
    /\ IF Len(pool) >= MaxIdle
       THEN Release({client[s]}) /\ UNCHANGED pool
       ELSE pool' = Append(pool, client[s]) /\ UNCHANGED <<backend, idle>>
    /\ client' = [client EXCEPT ![s] = Nobody]
    /\ Goto(s, "idle")
    /\ UNCHANGED <<setting, closing, handle, tries, calls, faults>>

\* close() of the proxy's wrapper: back to its pool, unless that is full.
ReturnToProxy(s) ==
    /\ step[s] = "release"
    /\ IF closing # "open" \/ Len(pool) >= MaxIdle
       THEN Release({client[s]}) /\ UNCHANGED pool
       ELSE pool' = Append(pool, client[s]) /\ UNCHANGED <<backend, idle>>
    /\ client' = [client EXCEPT ![s] = Nobody]
    /\ Goto(s, "idle")
    /\ UNCHANGED <<setting, closing, handle, tries, calls, faults>>

-----------------------------------------------------------------------------
(* The proxy and the server *)

ForgetIdle ==
    /\ closing = "open" /\ pool # <<>>
    /\ pool' = <<>>
    /\ UNCHANGED <<setting, backend, idle, closing, session, calls, faults>>

\* The cleanup timer closes connections that have idled for too long.  Those
\* that were returned last are the last to go.
EvictIdle ==
    /\ closing = "open" /\ pool # <<>>
    /\ \E n \in 1..Len(pool) :
          /\ Release({pool[i] : i \in 1..n})
          /\ pool' = SubSeq(pool, n + 1, Len(pool))
    /\ UNCHANGED <<setting, closing, session, calls, faults>>

\* close() of the proxy: what is in its pool, and after an await the pool of pg.
CloseProxy ==
    /\ closing = "open"
    /\ closing' = "proxy"
    /\ pool' = <<>>
    /\ Release(ToSet(pool))
    /\ UNCHANGED <<setting, session, calls, faults>>

\* pool.end() of pg ends the idle clients, and the others when they come back.
CloseInner ==
    /\ closing = "proxy"
    /\ closing' = "all"
    /\ End(idle)
    /\ idle' = {}
    /\ UNCHANGED <<setting, before, pool, session, calls, faults>>

\* A backend dies.  The Pool of pg drops an idle client when its socket tells;
\* in the proxy, and on a silent network, nobody notices before the next use.
Die(c) ==
    /\ server[c] = "up" /\ Fault
    /\ \/ server' = [server EXCEPT ![c] = "down"] /\ UNCHANGED <<path, tx, pinged, idle>>
       \/ c \in idle /\ End({c}) /\ idle' = idle \ {c}
    /\ UNCHANGED <<setting, before, pool, closing, session, calls>>

\* What s awaits, and the end of its transaction.
Progress(s) == \/ Borrow(s) \/ Validate(s) \/ Connect(s) \/ Ping(s) \/ SetSearchPath(s)
               \/ EndTransaction(s) \/ Reset(s)
               \/ Discard(s) \/ ReturnToProxy(s)

Next == \/ \E s \in Sessions : \/ GetConnection(s) \/ Grant(s) \/ ConnectTooLate(s)
                               \/ BeginTransaction(s) \/ StatementFails(s)
                               \/ Close(s) \/ Progress(s)
        \/ EvictIdle \/ CloseProxy \/ CloseInner
        \/ \E c \in Clients : Die(c)

\* Awaits settle and sessions end; pg queues those that wait for a client; the
\* cleanup timer keeps running; close() of the proxy goes on to the inner one.
Fairness == /\ \A s \in Sessions : WF_vars(Progress(s)) /\ SF_vars(Close(s)) /\ SF_vars(Grant(s))
            /\ WF_vars(EvictIdle) /\ WF_vars(CloseInner)

Spec == Init /\ [][Next]_vars /\ Fairness

-----------------------------------------------------------------------------
(* Properties *)

\* Every variable keeps its type, the pool its limit, and a session holds a
\* client exactly while it has one to work with.
TypeOK ==
    /\ setting \in Settings
    /\ server \in [Clients -> {"none", "up", "down"}]
    /\ path \in [Clients -> Tenants \cup {Public}]
    /\ before \in [Clients -> Tenants \cup {Public}]
    /\ tx \in [Clients -> {"none", "open", "aborted"}]
    /\ pinged \in [Clients -> BOOLEAN]
    /\ idle \subseteq Clients
    /\ pool \in Seq(Clients) /\ Len(pool) <= MaxIdle
    /\ closing \in {"open", "proxy", "all"}
    /\ step \in [Sessions -> Steps]
    /\ tenant \in [Sessions -> Tenants \cup {Public}]
    /\ client \in [Sessions -> Clients \cup {Nobody}]
    /\ handle \in [Sessions -> BOOLEAN]
    /\ tries \in [Sessions -> Nat]
    /\ calls \in Nat /\ faults \in Nat
    /\ \A s \in Sessions : client[s] = Nobody <=> step[s] \in {"idle", "borrow", "connect"}

\* A live client is in exactly one place: with one session, once in the
\* proxy's pool, or idle in pg's.  Two sessions never share one, and none is
\* lost to every pool.
OnePlace ==
    \A c \in Clients :
        /\ \A s, r \in Sessions : client[s] = c /\ client[r] = c => s = r
        /\ \A i, j \in 1..Len(pool) : pool[i] = c /\ pool[j] = c => i = j
        /\ c \in ToSet(pool) \cup idle => \A s \in Sessions : client[s] # c
        /\ c \notin ToSet(pool) \cap idle
        /\ server[c] = "none" <=> \/ c \notin ToSet(pool) \cup idle
                                    /\ \A s \in Sessions : client[s] # c

\* What a session sends to a live backend runs in the schema of its tenant,
\* whoever had the connection before, and whatever failed then.
TenantIsolation ==
    \A s \in Sessions :
        step[s] = "using" => path[client[s]] = tenant[s]

\* With resetOnRelease no single failure leaves a usable connection in a pool
\* with a tenant's schema; and none waits there with a transaction open.
IdleIsReset ==
    \A c \in idle \cup ToSet(pool) :
        Healthy(c) => /\ setting.reset /\ faults <= 1 => path[c] = Public
                      /\ tx[c] = "none"

\* getConnection returns or throws, also for who waits in pg's queue while the
\* proxy keeps the clients that are given back: it is the cleanup timer that
\* hands them on.  (Until the pool of pg is closed.)
GetConnectionReturns ==
    \A s \in Sessions :
        step[s] \in {"borrow", "validate", "connect", "ping", "set"} 
            ~> step[s] \in {"using", "idle"} \/ closing = "all"

\* After close() every client is ended, those too that were in use or on their
\* way to a session.
CloseEndsEveryClient ==
    closing # "open" ~> \A c \in Clients : server[c] = "none"

\* A failed reset does not return a contaminated connection to the pool.
NoContaminatedConnection ==
    \A c \in idle \cup ToSet(pool) :
        setting.reset /\ server[c] = "up" => path[c] = Public
=============================================================================
