------------------------- MODULE DriverTransactions -------------------------
(***************************************************************************)
(* Transactions and savepoints over the eight adapters: beginTransaction,  *)
(* commit, rollback, setSavepoint, rollbackTo and close of each connection,*)
(* with the database session its statements reach.                         *)
(*                                                                         *)
(* "pg", "denopg" and "mysql" borrow a session from a pool.  "sqlite" and  *)
(* "bunsqlite" connections share one handle; "bunpg" connections share one *)
(* client, with one session (Bun takes a BEGIN sent as a query only then). *)
(* "libsql" opens a session for each transaction; what is not in one, and  *)
(* all of "d1", goes to the database by itself.                            *)
(***************************************************************************)
EXTENDS Naturals, Sequences, FiniteSets, SequencesExt, FiniteSetsExt

CONSTANTS TxAdapters, TxCallers, TxSessions,
          Handle,      \* the session of the shared handle
          NoSession,
          Savepoints,  \* names
          MaxWrites,   \* bound: writes of all callers
          MaxMarks,    \* bound: savepoints of a transaction
          MaxBegins,   \* bound: transactions of a caller
          MaxTxFaults  \* bound: statements that fail

ASSUME TransactionsAssumption ==
    /\ TxAdapters \subseteq {"pg", "bunpg", "denopg", "mysql", "sqlite", "bunsqlite", "libsql", "d1"}
    /\ Handle \in TxSessions /\ NoSession \notin TxSessions
    /\ MaxWrites \in Nat /\ MaxMarks \in Nat /\ MaxBegins \in Nat /\ MaxTxFaults \in Nat

VARIABLES driver,     \* the adapter in use
          clientOpen, \* of "bunpg": the shared client
          conn,       \* conn[o]: has caller o a connection
          sess,       \* sess[o]: the session its statements reach
          server,     \* server[s]: transaction of session s
          tx,         \* tx[o]: outcome of the last transaction of o, as o knows it
          failed,     \* failed[o]: a statement failed since the last savepoint o went back to
          kept,       \* kept[o]: writes and savepoints of the transaction, as o counts them
          written,    \* written[o]: writes of the transaction
          alone,      \* alone[o]: writes o made outside transactions
          durable,    \* writes in the database
          joined,     \* somebody used the shared session in another one's transaction
          writes, begins, txFaults

transactionVars == <<driver, clientOpen, conn, sess, server, tx, failed, kept, written, alone,
                     durable, joined, writes, begins, txFaults>>

Pooled == {"pg", "denopg", "mysql"}
OneHandle == {"sqlite", "bunsqlite", "bunpg"}
PgFamily == {"pg", "denopg", "bunpg"}

Mark(name) == [kind |-> "mark", at |-> name]
Entry(w) == [kind |-> "write", at |-> w]
WritesOf(log) == {e.at : e \in {f \in ToSet(log) : f.kind = "write"}}
MarksOf(log) == {i \in DOMAIN log : log[i].kind = "mark"}

\* ROLLBACK TO SAVEPOINT: the log up to the latest savepoint of this name.
Positions(log, name) == {i \in MarksOf(log) : log[i].at = name}
Latest(S) == CHOOSE i \in S : \A j \in S : j <= i
CutTo(log, name) == SubSeq(log, 1, Latest(Positions(log, name)))

Idle == [open |-> FALSE, aborted |-> FALSE, by |-> NoSession, log |-> <<>>]

TransactionsStart(a) ==
    /\ driver = a /\ clientOpen = TRUE
    /\ conn = [o \in TxCallers |-> FALSE]
    /\ sess = [o \in TxCallers |-> NoSession]
    /\ server = [s \in TxSessions |-> Idle]
    /\ tx = [o \in TxCallers |-> "none"]
    /\ failed = [o \in TxCallers |-> FALSE]
    /\ kept = [o \in TxCallers |-> <<>>]
    /\ written = [o \in TxCallers |-> {}]
    /\ alone = [o \in TxCallers |-> {}]
    /\ durable = {} /\ joined = FALSE
    /\ writes = [o \in TxCallers |-> 0]
    /\ begins = [o \in TxCallers |-> 0]
    /\ txFaults = 0

TransactionsInit == \E a \in TxAdapters : TransactionsStart(a)

-----------------------------------------------------------------------------
(* Sessions *)

Unused(s) == (\A o \in TxCallers : sess[o] # s) /\ ~(driver \in OneHandle)

\* As if every statement of libSQL were the client's.
ExecutorOfClient(o, earlier) == IF driver = "libsql" THEN NoSession ELSE sess[o]

\* The session a statement of o runs in, NoSession for a transaction of its own.
\* libSQL fixes it when the statement is created: earlier, it is the client's.
Executor(o, earlier) == IF driver = "libsql" /\ earlier THEN NoSession ELSE sess[o]

Refuses(s) == s # NoSession /\ server[s].aborted

\* Another caller's transaction is open in the session o uses.
Joins(o, s) == s # NoSession /\ server[s].open /\ server[s].by # o

EndOf(s, committed) ==
    /\ server' = [server EXCEPT ![s] = Idle]
    /\ durable' = IF committed /\ ~server[s].aborted
                  THEN durable \cup WritesOf(server[s].log) ELSE durable

-----------------------------------------------------------------------------
(* Connections *)

GetTxConnection(o) ==
    /\ ~conn[o] /\ clientOpen
    /\ conn' = [conn EXCEPT ![o] = TRUE]
    /\ \/ /\ driver \in Pooled
          /\ \E s \in TxSessions : Unused(s) /\ sess' = [sess EXCEPT ![o] = s]
       \/ /\ driver \in OneHandle
          /\ sess' = [sess EXCEPT ![o] = Handle]
       \/ /\ driver \in {"libsql", "d1"}
          /\ UNCHANGED sess
    /\ UNCHANGED <<driver, clientOpen, server, tx, failed, kept, written, alone, durable, joined,
                   writes, begins, txFaults>>

\* close(), by callers that have ended their transactions: the session goes
\* back as it is, the handle is left alone.
CloseTxConnection(o) ==
    /\ conn[o] /\ tx[o] # "open" /\ driver \notin {"libsql", "bunpg"}
    /\ conn' = [conn EXCEPT ![o] = FALSE]
    /\ sess' = [sess EXCEPT ![o] = NoSession]
    /\ UNCHANGED <<driver, clientOpen, server, tx, failed, kept, written, alone, durable, joined,
                   writes, begins, txFaults>>

\* close() of libSQL rolls an open transaction back.
LibSqlClose(o) ==
    /\ conn[o] /\ driver = "libsql"
    /\ conn' = [conn EXCEPT ![o] = FALSE]
    /\ sess' = [sess EXCEPT ![o] = NoSession]
    /\ tx' = [tx EXCEPT ![o] = IF tx[o] = "open" THEN "dropped" ELSE tx[o]]
    /\ server' = [s \in TxSessions |-> IF s = sess[o] THEN Idle ELSE server[s]]
    /\ UNCHANGED <<driver, clientOpen, failed, kept, written, alone, durable, joined, writes,
                   begins, txFaults>>

\* close() of a Bun connection closes the client that all connections share.
BunPgClose(o) ==
    /\ conn[o] /\ driver = "bunpg"
    /\ conn' = [conn EXCEPT ![o] = FALSE]
    /\ sess' = [sess EXCEPT ![o] = NoSession]
    /\ clientOpen' = FALSE
    /\ server' = [server EXCEPT ![Handle] = Idle]
    /\ tx' = [p \in TxCallers |-> IF tx[p] = "open" THEN "dropped" ELSE tx[p]]
    /\ UNCHANGED <<driver, failed, kept, written, alone, durable, joined, writes, begins, txFaults>>

-----------------------------------------------------------------------------
(* Transactions *)

Opened(o, s, state) ==
    /\ server' = [server EXCEPT ![s] = state]
    /\ sess' = [sess EXCEPT ![o] = s]
    /\ joined' = (joined \/ (driver = "bunpg" /\ Joins(o, s)))

Started(o) == [Idle EXCEPT !.open = TRUE, !.by = o]

\* BEGIN within a transaction is a warning in PostgreSQL,
BeginPg(o) == /\ driver \in PgFamily
              /\ Opened(o, sess[o], IF server[sess[o]].open THEN server[sess[o]] ELSE Started(o))
              /\ UNCHANGED durable

\* an implicit commit in MySQL,
BeginMysql(o) == /\ driver = "mysql"
                 /\ Opened(o, sess[o], Started(o))
                 /\ durable' = durable \cup WritesOf(server[sess[o]].log)

\* and an error in SQLite.
BeginSqlite(o) == /\ driver \in {"sqlite", "bunsqlite"}
                  /\ ~server[Handle].open
                  /\ Opened(o, Handle, Started(o))
                  /\ UNCHANGED durable

\* libSQL opens a session; D1 does nothing.
BeginLibSql(o) == /\ driver = "libsql"
                  /\ \E s \in TxSessions : Unused(s) /\ ~server[s].open /\ Opened(o, s, Started(o))
                  /\ UNCHANGED durable

BeginD1(o) == driver = "d1" /\ UNCHANGED <<server, sess, joined, durable>>

\* beginTransaction()
Begin(o) ==
    /\ conn[o] /\ clientOpen /\ tx[o] # "open" /\ begins[o] < MaxBegins
    /\ ~Refuses(sess[o])
    /\ begins' = [begins EXCEPT ![o] = @ + 1]
    /\ tx' = [tx EXCEPT ![o] = "open"]
    /\ failed' = [failed EXCEPT ![o] = FALSE]
    /\ kept' = [kept EXCEPT ![o] = <<>>]
    /\ written' = [written EXCEPT ![o] = {}]
    /\ BeginPg(o) \/ BeginMysql(o) \/ BeginSqlite(o) \/ BeginLibSql(o) \/ BeginD1(o)
    /\ UNCHANGED <<driver, clientOpen, conn, alone, writes, txFaults>>

\* beginTransaction() of PgConnection with an isolation level the server
\* refuses: BEGIN was executed, and no Transaction is returned.
BeginRefused(o) ==
    /\ driver = "pg" /\ conn[o] /\ tx[o] # "open" /\ ~Refuses(sess[o])
    /\ txFaults < MaxTxFaults
    /\ server' = [server EXCEPT ![sess[o]] = [Idle EXCEPT !.open = TRUE, !.aborted = TRUE, !.by = o]]
    /\ txFaults' = txFaults + 1
    /\ UNCHANGED <<driver, clientOpen, conn, sess, tx, failed, kept, written, alone, durable,
                   joined, writes, begins>>

\* A statement that writes, created before the transaction or in it.
Write(o, earlier) ==
    /\ conn[o] /\ clientOpen /\ MapThenSumSet(LAMBDA p : writes[p], TxCallers) < MaxWrites
    /\ earlier => tx[o] = "open"
    /\ LET s == Executor(o, earlier)
           w == <<o, writes[o] + 1>>
           mine == tx[o] = "open" /\ ~(driver = "libsql" /\ earlier)
       IN /\ ~Refuses(s)
          /\ writes' = [writes EXCEPT ![o] = @ + 1]
          /\ IF s # NoSession /\ server[s].open
             THEN /\ server' = [server EXCEPT ![s].log = Append(@, Entry(w))]
                  /\ UNCHANGED durable
             ELSE /\ durable' = durable \cup {w}
                  /\ UNCHANGED server
          /\ joined' = (joined \/ (driver = "bunpg" /\ Joins(o, s)))
          /\ IF mine
             THEN /\ kept' = [kept EXCEPT ![o] = Append(@, Entry(w))]
                  /\ written' = [written EXCEPT ![o] = @ \cup {w}]
                  /\ UNCHANGED alone
             ELSE /\ alone' = [alone EXCEPT ![o] = @ \cup {w}]
                  /\ UNCHANGED <<kept, written>>
    /\ UNCHANGED <<driver, clientOpen, conn, sess, tx, failed, begins, txFaults>>

\* A statement the database refuses aborts a transaction of PostgreSQL.
WriteFails(o) ==
    /\ conn[o] /\ clientOpen /\ tx[o] = "open" /\ txFaults < MaxTxFaults
    /\ sess[o] # NoSession /\ server[sess[o]].open
    /\ server' = [server EXCEPT ![sess[o]].aborted = (driver \in PgFamily)]
    /\ failed' = [failed EXCEPT ![o] = TRUE]
    /\ txFaults' = txFaults + 1
    /\ joined' = (joined \/ (driver = "bunpg" /\ Joins(o, sess[o])))
    /\ UNCHANGED <<driver, clientOpen, conn, sess, tx, kept, written, alone, durable, writes, begins>>

\* The caller's handle has ended; libSQL's transaction is gone.
Ended(o, outcome) ==
    /\ tx' = [tx EXCEPT ![o] = outcome]
    /\ sess' = IF driver = "libsql" THEN [sess EXCEPT ![o] = NoSession] ELSE sess
    /\ UNCHANGED <<driver, clientOpen, conn, failed, kept, written, alone, writes, begins>>

\* commit(), by callers that saw no statement fail (COMMIT of an aborted
\* transaction rolls back, and commit() resolves).  D1 does nothing.
CommitTx(o) ==
    /\ conn[o] /\ clientOpen /\ tx[o] = "open" /\ ~failed[o]
    /\ \/ /\ driver = "d1"
          /\ UNCHANGED <<server, durable>>
       \/ /\ driver # "d1"
          /\ driver \in {"sqlite", "bunsqlite"} => server[sess[o]].open
          /\ EndOf(sess[o], TRUE)
    /\ Ended(o, "committed")
    /\ UNCHANGED <<joined, txFaults>>

\* commit() throws: the connection was lost before or after the server committed.
CommitLost(o) ==
    /\ conn[o] /\ tx[o] = "open" /\ ~failed[o]
    /\ driver \in Pooled \cup {"libsql"} /\ txFaults < MaxTxFaults
    /\ \E committed \in BOOLEAN : EndOf(sess[o], committed)
    /\ txFaults' = txFaults + 1
    /\ Ended(o, "unknown")
    /\ UNCHANGED joined

\* rollback(); D1's throws.
RollbackTx(o) ==
    /\ conn[o] /\ clientOpen /\ tx[o] = "open"
    /\ \/ /\ driver = "d1"
          /\ UNCHANGED <<server, durable>>
          /\ Ended(o, "refused")
       \/ /\ driver # "d1" /\ EndOf(sess[o], FALSE)
          /\ Ended(o, "rolledBack")
    /\ UNCHANGED <<joined, txFaults>>

SetSavepoint(o, name) ==
    /\ conn[o] /\ clientOpen /\ tx[o] = "open" /\ driver # "d1"
    /\ server[sess[o]].open /\ ~Refuses(sess[o])
    /\ Cardinality(MarksOf(kept[o])) < MaxMarks
    /\ server' = [server EXCEPT ![sess[o]].log = Append(@, Mark(name))]
    /\ kept' = [kept EXCEPT ![o] = Append(@, Mark(name))]
    /\ UNCHANGED <<driver, clientOpen, conn, sess, tx, failed, written, alone, durable, joined,
                   writes, begins, txFaults>>

\* rollbackTo(), which also heals an aborted transaction.
RollbackTo(o, name) ==
    /\ conn[o] /\ clientOpen /\ tx[o] = "open" /\ driver # "d1"
    /\ server[sess[o]].open /\ Positions(server[sess[o]].log, name) # {}
    /\ Positions(kept[o], name) # {}
    /\ server' = [server EXCEPT ![sess[o]].log = CutTo(@, name), ![sess[o]].aborted = FALSE]
    /\ kept' = [kept EXCEPT ![o] = CutTo(@, name)]
    /\ failed' = [failed EXCEPT ![o] = FALSE]
    /\ UNCHANGED <<driver, clientOpen, conn, sess, tx, written, alone, durable, joined, writes,
                   begins, txFaults>>

TransactionsNext ==
    \E o \in TxCallers :
        \/ GetTxConnection(o) \/ CloseTxConnection(o) \/ LibSqlClose(o) \/ BunPgClose(o)
        \/ Begin(o) \/ BeginRefused(o)
        \/ \E earlier \in BOOLEAN : Write(o, earlier)
        \/ WriteFails(o)
        \/ CommitTx(o) \/ CommitLost(o) \/ RollbackTx(o)
        \/ \E name \in Savepoints : SetSavepoint(o, name) \/ RollbackTo(o, name)

-----------------------------------------------------------------------------
(* Properties *)

Stored(o) == written[o] \cap durable

\* A transaction is all or nothing, whatever the other connections do: nothing
\* of it is stored while it is open or after rollback() resolves or close()
\* drops it; after commit() resolves exactly the writes no rollbackTo() took
\* back are; after a commit() that throws, these or none.  D1 promises less:
\* only that commit() means stored, and that rollback() never resolves.
\* Connections of Bun need the session for themselves.
TransactionsAreAtomic ==
    \A o \in TxCallers :
        LET all == WritesOf(kept[o])
        IN ~(driver = "bunpg" /\ joined) =>
           CASE tx[o] = "committed"  -> Stored(o) = all
             [] tx[o] = "rolledBack" -> Stored(o) = {}
             [] tx[o] = "unknown"    -> Stored(o) \in {{}, all}
             [] tx[o] = "dropped"    -> Stored(o) = {}
             [] tx[o] = "open"       -> driver = "d1" \/ Stored(o) = {}
             [] OTHER                -> TRUE

\* What a statement outside a transaction has written is stored when it
\* returns, unless connections share a handle with a transaction open in it.
LoneWritesAreStored ==
    driver \notin OneHandle => \A o \in TxCallers : alone[o] \subseteq durable

\* What the drivers promise: transactions are atomic, and a write outside one is stored.
DriverTransactionsHold == TransactionsAreAtomic /\ LoneWritesAreStored
=============================================================================
