------------------------------ MODULE Testing ------------------------------
(***************************************************************************)
(* What the testing package does to a database.                            *)
(*                                                                         *)
(* SeedRunner: seeds run in the order of their dependencies, each once per *)
(* database, which a table of names remembers.  Runners in different       *)
(* processes share the database; a run is cut at its statements, and a     *)
(* seed's effects and its record are two of them.                          *)
(*                                                                         *)
(* withTestTransaction and testMigration: a test's body runs in a          *)
(* transaction that is rolled back whatever happens.  The repositories of  *)
(* the body all have the one connection, and close it after an operation   *)
(* as they close every connection; with PgConnection that gives the client *)
(* back to the pool, inside the transaction, where others can take it.     *)
(***************************************************************************)
EXTENDS Naturals, Sequences, FiniteSets, SequencesExt, Dependencies

CONSTANTS SeedKinds,    \* records: seeds (names, as registered), seedDeps, only (the
                        \* environments of a seed, {} for all of them), and
                        \* seedCalls, bound: calls of the runners
          Runners,      \* numbers
          Environments,
          MaxSeedFaults \* bound: runs that a seed or a crash ends

ASSUME SeedingAssumption ==
    /\ \A s \in SeedKinds : /\ DependencyOrder(s.seeds, s.seedDeps).ok
                            /\ s.only \in [ToSet(s.seeds) -> SUBSET Environments]
                            /\ s.seedCalls \in Nat
    /\ Runners \subseteq Nat /\ MaxSeedFaults \in Nat

VARIABLES registry,
          seedTable,   \* [there, names]: _espalier_seeds
          runner,      \* runner[k]: the call of k, or its result
          ran,         \* ran[n]: how often the effects of n were made
          unrecorded,  \* history: runs of n that ended between the effects and the record
          resets,      \* history: how often the table was dropped
          together,    \* history: two runs overlapped
          seedCalls, seedFaults

seedVars == <<registry, seedTable, runner, ran, unrecorded, resets, together, seedCalls, seedFaults>>

NoRun == [op |-> "none", env |-> "", todo |-> <<>>, at |-> "none", executed |-> {},
          new |-> {}, skipped |-> {}, alreadyRun |-> {}]

SeedingStart(s) ==
    /\ registry = s
    /\ seedTable = [there |-> FALSE, names |-> {}]
    /\ runner = [k \in Runners |-> NoRun]
    /\ ran = [n \in ToSet(s.seeds) |-> 0] /\ unrecorded = [n \in ToSet(s.seeds) |-> 0]
    /\ resets = 0 /\ together = FALSE
    /\ seedCalls = 0 /\ seedFaults = 0

SeedingInit == \E s \in SeedKinds : SeedingStart(s)

Running(k) == runner[k].op \in {"run", "status"} /\ runner[k].at # "ended"
AppliesIn(n, env) == registry.only[n] = {} \/ env \in registry.only[n]

\* run() and status() have a connection.  A runner begins only when those of smaller
\* numbers are at work.
SeedCall(k, op, env) ==
    /\ ~Running(k) /\ seedCalls < registry.seedCalls
    /\ \A j \in Runners : j < k => Running(j)
    /\ seedCalls' = seedCalls + 1
    /\ together' = (together \/ \E j \in Runners \ {k} : runner[j].op = "run" /\ Running(j))
    /\ runner' = [runner EXCEPT ![k] = [NoRun EXCEPT
                     !.op = op, !.env = env, !.at = "table",
                     !.todo = DependencyOrder(registry.seeds, registry.seedDeps).ordered]]
    /\ UNCHANGED <<registry, seedTable, ran, unrecorded, resets, seedFaults>>

EnsureTable(k) ==
    /\ Running(k) /\ runner[k].at = "table"
    /\ seedTable' = [seedTable EXCEPT !.there = TRUE]
    /\ runner' = [runner EXCEPT ![k].at = "read"]
    /\ UNCHANGED <<registry, ran, unrecorded, resets, together, seedCalls, seedFaults>>

\* The SELECT fails where the table was dropped meanwhile.
GetExecutedSeeds(k) ==
    /\ Running(k) /\ runner[k].at = "read"
    /\ runner' = [runner EXCEPT ![k] =
                     IF ~seedTable.there THEN NoRun
                     ELSE [@ EXCEPT !.executed = seedTable.names, !.at = "seeds"]]
    /\ UNCHANGED <<registry, seedTable, ran, unrecorded, resets, together, seedCalls, seedFaults>>

\* status() compares what it has read with the registry.
SeedStatus(k) ==
    LET r == runner[k]
    IN /\ r.op = "status" /\ r.at = "seeds"
       /\ runner' = [runner EXCEPT ![k].at = "ended", ![k].todo = <<>>,
                        ![k].skipped = {n \in ToSet(r.todo) : ~AppliesIn(n, r.env)},
                        ![k].alreadyRun = {n \in ToSet(r.todo) : AppliesIn(n, r.env) /\ n \in r.executed}]
       /\ UNCHANGED <<registry, seedTable, ran, unrecorded, resets, together, seedCalls, seedFaults>>

\* The next seed is not for this environment, or is in the names read at the beginning.
PassSeed(k) ==
    LET r == runner[k] n == Head(r.todo)
    IN /\ r.op = "run" /\ r.at = "seeds" /\ r.todo # <<>>
       /\ \/ /\ ~AppliesIn(n, r.env)
             /\ runner' = [runner EXCEPT ![k].todo = Tail(r.todo), ![k].skipped = @ \cup {n}]
          \/ /\ AppliesIn(n, r.env) /\ n \in r.executed
             /\ runner' = [runner EXCEPT ![k].todo = Tail(r.todo), ![k].alreadyRun = @ \cup {n}]
       /\ UNCHANGED <<registry, seedTable, ran, unrecorded, resets, together, seedCalls, seedFaults>>

RunSeed(k) ==
    LET r == runner[k] n == Head(r.todo)
    IN /\ r.op = "run" /\ r.at = "seeds" /\ r.todo # <<>>
       /\ AppliesIn(n, r.env) /\ n \notin r.executed
       /\ ran' = [ran EXCEPT ![n] = @ + 1]
       /\ runner' = [runner EXCEPT ![k].at = "record"]
       /\ UNCHANGED <<registry, seedTable, unrecorded, resets, together, seedCalls, seedFaults>>

\* As if a name that is there were no error (for a mutant).
RecordSeedAgain(k) ==
    LET r == runner[k] n == Head(r.todo)
    IN /\ r.op = "run" /\ r.at = "record"
       /\ seedTable' = [seedTable EXCEPT !.names = @ \cup {n}]
       /\ runner' = [runner EXCEPT ![k].at = "seeds", ![k].todo = Tail(@), ![k].new = @ \cup {n}]
       /\ UNCHANGED <<registry, ran, unrecorded, resets, together, seedCalls, seedFaults>>

\* The INSERT, which the primary key or the lack of the table can refuse.
RecordSeed(k) ==
    LET r == runner[k] n == Head(r.todo)
    IN /\ r.op = "run" /\ r.at = "record"
       /\ IF seedTable.there /\ n \notin seedTable.names
          THEN /\ seedTable' = [seedTable EXCEPT !.names = @ \cup {n}]
               /\ runner' = [runner EXCEPT ![k].at = "seeds", ![k].todo = Tail(@), ![k].new = @ \cup {n}]
               /\ UNCHANGED unrecorded
          ELSE /\ runner' = [runner EXCEPT ![k] = NoRun]
               /\ unrecorded' = [unrecorded EXCEPT ![n] = @ + 1]
               /\ UNCHANGED seedTable
       /\ UNCHANGED <<registry, ran, resets, together, seedCalls, seedFaults>>

SeedsDone(k) ==
    /\ runner[k].op = "run" /\ runner[k].at = "seeds" /\ runner[k].todo = <<>>
    /\ runner' = [runner EXCEPT ![k].at = "ended"]
    /\ UNCHANGED <<registry, seedTable, ran, unrecorded, resets, together, seedCalls, seedFaults>>

\* A seed throws, a statement fails, or the process ends.
StopRun(k) ==
    /\ Running(k) /\ seedFaults < MaxSeedFaults
    /\ seedFaults' = seedFaults + 1
    /\ unrecorded' = IF runner[k].at = "record"
                     THEN [unrecorded EXCEPT ![Head(runner[k].todo)] = @ + 1] ELSE unrecorded
    /\ runner' = [runner EXCEPT ![k] = NoRun]
    /\ UNCHANGED <<registry, seedTable, ran, resets, together, seedCalls>>

\* reset() drops the table; what the seeds did remains.
ResetSeeds ==
    /\ seedCalls < registry.seedCalls
    /\ seedCalls' = seedCalls + 1
    /\ seedTable' = [there |-> FALSE, names |-> {}]
    /\ resets' = resets + 1
    /\ UNCHANGED <<registry, runner, ran, unrecorded, together, seedFaults>>

SeedingNext ==
    \/ \E k \in Runners :
           \/ EnsureTable(k) \/ GetExecutedSeeds(k) \/ SeedStatus(k) \/ PassSeed(k)
           \/ RunSeed(k) \/ RecordSeed(k) \/ SeedsDone(k) \/ StopRun(k)
           \/ \E op \in {"run", "status"}, env \in Environments : SeedCall(k, op, env)
    \/ ResetSeeds

-----------------------------------------------------------------------------
(* Properties *)

SeedingTypeOK ==
    /\ registry \in SeedKinds
    /\ seedTable \in [there : BOOLEAN, names : SUBSET ToSet(registry.seeds)]
    /\ OrderedByDependencies(registry.seeds, registry.seedDeps)
    /\ ran \in [ToSet(registry.seeds) -> Nat]

\* A seed is in the table, or reported as run, only where its effects were made.
RecordedRan ==
    /\ \A n \in seedTable.names : ran[n] > 0
    /\ \A k \in Runners : \A n \in runner[k].alreadyRun \cup runner[k].new : ran[n] > 0

\* What a seed depends on was made before it, or is not for this environment - which does
\* not keep the seed from running.
SeedsAfterDependencies ==
    \A k \in Runners :
        \A n \in runner[k].new \cup (IF runner[k].at = "record" THEN {Head(runner[k].todo)} ELSE {}) :
            \A d \in ToSet(registry.seedDeps[n]) : ran[d] > 0 \/ ~AppliesIn(d, runner[k].env)

\* A seed runs again only after a reset, or where its run ended before its record.  Two
\* runs at once can both run it; but then one of them is refused.
SeededOnce ==
    \A n \in DOMAIN ran :
        LET unfinished == {k \in Runners : runner[k].op = "run" /\ runner[k].at = "record"
                                           /\ Head(runner[k].todo) = n}
        IN /\ ran[n] <= 1 + resets + unrecorded[n] + Cardinality(unfinished)
           /\ ~together => ran[n] <= 1 + resets + unrecorded[n]
           /\ resets = 0 => Cardinality({k \in Runners : n \in runner[k].new}) <= 1

\* A run that ended has every seed in one of its three lists, and what it ran is recorded
\* unless the table was dropped.
RunReported ==
    \A k \in Runners :
        LET r == runner[k]
        IN /\ r.op = "run" /\ r.at = "ended" =>
                 /\ r.new \cup r.skipped \cup r.alreadyRun = ToSet(registry.seeds)
                 /\ r.new \cap r.alreadyRun = {} /\ r.skipped \cap (r.new \cup r.alreadyRun) = {}
           /\ resets = 0 => r.new \cup r.alreadyRun \subseteq seedTable.names

\* What a run of the seeds promises: recorded seeds ran, after their dependencies, once, and
\* the report says so.
SeedingHolds ==
    SeedingTypeOK /\ RecordedRan /\ SeedsAfterDependencies /\ SeededOnce /\ RunReported

-----------------------------------------------------------------------------
(* Tests in a transaction that is rolled back *)

CONSTANTS TestKinds \* records: bodies, testWrites, otherWrites, bounds: how many tests run,
                    \* what they write and what another user of the pool writes; cascades

ASSUME TestIsolationAssumption ==
    TestKinds \subseteq [bodies : Nat, testWrites : Nat, otherWrites : Nat, cascades : BOOLEAN]

VARIABLES suite,
          session,   \* of the one client: inTx, failed, pending (writes of the
                     \* transaction) and marks (savepoints: lengths of pending)
          committed, \* what the database keeps
          body,      \* the test: phase, open (its connection), nested
          other,     \* the other user: none, or has the client, in a transaction or not
          told,      \* writes the other user was told are stored
          written,   \* writes so far, the test's and the other's
          inNested,  \* history: what a nested block wrote
          shared,    \* history: the other had the client while the body ran
          kept,      \* history: the body committed, or a save with cascades did
          bodies

testVars == <<suite, session, committed, body, other, told, written, inNested, shared, kept, bodies>>

NoTransaction == [inTx |-> FALSE, failed |-> FALSE, pending |-> <<>>, marks |-> <<>>]
NoBody == [phase |-> "none", open |-> FALSE, nested |-> FALSE, nestings |-> 0]

TestingStart(t) ==
    /\ suite = t
    /\ session = NoTransaction /\ committed = {}
    /\ body = NoBody /\ other = "none" /\ told = {}
    /\ written = [test |-> 0, other |-> 0]
    /\ inNested = {} /\ shared = FALSE /\ kept = FALSE /\ bodies = 0

TestingInit == \E t \in TestKinds : TestingStart(t)

(* What the client does with the statements it is sent. *)
Begin(s) == IF s.inTx THEN s ELSE [NoTransaction EXCEPT !.inTx = TRUE]
Commit(s, d) == [s |-> NoTransaction, d |-> IF s.failed THEN d ELSE d \cup ToSet(s.pending)]
Write(s, d, w) ==
    IF s.failed THEN [s |-> s, d |-> d]
    ELSE IF s.inTx THEN [s |-> [s EXCEPT !.pending = Append(@, w)], d |-> d]
    ELSE [s |-> s, d |-> d \cup {w}]
RollbackTo(s) ==
    IF ~s.inTx THEN s
    ELSE IF s.marks = <<>> THEN [s EXCEPT !.failed = TRUE]
    ELSE [s EXCEPT !.failed = FALSE, !.pending = SubSeq(@, 1, Last(s.marks))]

\* Nobody has the client.
ClientFree == ~body.open /\ other = "none"

\* getConnection and BEGIN, which are not yet in the try.
BeginTest ==
    /\ body.phase = "none" /\ ClientFree /\ bodies < suite.bodies
    /\ bodies' = bodies + 1
    /\ session' = Begin(session)
    /\ body' = [NoBody EXCEPT !.phase = "body", !.open = TRUE]
    /\ inNested' = {}
    /\ UNCHANGED <<suite, committed, other, told, written, shared, kept>>

InBody == body.phase = "body"
Writes(who) == written' = [written EXCEPT ![who] = @ + 1]

\* A statement of the body, on ctx.connection or of a migration under test.
StatementOfTest ==
    LET w == <<"test", written.test + 1>>
        r == Write(session, committed, w)
    IN /\ InBody /\ body.open /\ written.test < suite.testWrites
       /\ Writes("test")
       /\ session' = r.s /\ committed' = r.d
       /\ inNested' = IF body.nested THEN inNested \cup {w} ELSE inNested
       /\ UNCHANGED <<suite, body, other, told, shared, kept, bodies>>

\* A repository of the body saves: getConnection is the connection of the test, a save
\* with cascades begins and commits a transaction on it, and the finally closes it.
RepositoryOfTest ==
    LET w == <<"test", written.test + 1>>
        r == Write(session, committed, w)
        c == Commit(r.s, r.d)
    IN /\ InBody /\ body.open /\ written.test < suite.testWrites
       /\ Writes("test")
       /\ session' = IF suite.cascades THEN c.s ELSE r.s
       /\ committed' = IF suite.cascades THEN c.d ELSE r.d
       /\ kept' = (kept \/ suite.cascades)
       /\ inNested' = IF body.nested THEN inNested \cup {w} ELSE inNested
       /\ body' = [body EXCEPT !.open = FALSE]
       /\ UNCHANGED <<suite, other, told, shared, bodies>>

\* ctx.commit(), which only warns.
CommitTest ==
    LET c == Commit(session, committed)
    IN /\ InBody
       /\ session' = c.s /\ committed' = c.d /\ kept' = TRUE
       /\ UNCHANGED <<suite, body, other, told, written, inNested, shared, bodies>>

\* withNestedTransaction: the savepoint, without a transaction an error of the body; twice
\* at most in a body (bound).
NestTest ==
    /\ InBody /\ ~body.nested /\ body.nestings < 2 /\ session.inTx /\ ~session.failed
    /\ session' = [session EXCEPT !.marks = Append(@, Len(session.pending))]
    /\ body' = [body EXCEPT !.nested = TRUE, !.nestings = @ + 1]
    /\ inNested' = {}
    /\ UNCHANGED <<suite, committed, other, told, written, shared, kept, bodies>>

\* The savepoint stays (for a mutant).
EndNestedOnly ==
    /\ InBody /\ body.nested
    /\ body' = [body EXCEPT !.nested = FALSE]
    /\ UNCHANGED <<suite, session, committed, other, told, written, inNested, shared, kept, bodies>>

EndNested ==
    /\ InBody /\ body.nested
    /\ session' = RollbackTo(session)
    /\ body' = [body EXCEPT !.nested = FALSE]
    /\ UNCHANGED <<suite, committed, other, told, written, inNested, shared, kept, bodies>>

\* The finally: ROLLBACK on the client, whoever has it, and close.
EndTest ==
    /\ InBody /\ ~body.nested
    /\ session' = NoTransaction
    /\ body' = NoBody
    /\ UNCHANGED <<suite, committed, other, told, written, inNested, shared, kept, bodies>>

\* Another user of the pool.
Borrow ==
    /\ ClientFree /\ other' = "idle"
    /\ written.other < suite.otherWrites
    /\ shared' = (shared \/ InBody)
    /\ UNCHANGED <<suite, session, committed, body, told, written, inNested, kept, bodies>>

OtherWrites ==
    LET w == <<"other", written.other + 1>>
        r == Write(session, committed, w)
    IN /\ other # "none" /\ written.other < suite.otherWrites
       /\ Writes("other")
       /\ session' = r.s /\ committed' = r.d
       /\ told' = IF other = "idle" /\ ~session.failed THEN told \cup {w} ELSE told
       /\ UNCHANGED <<suite, body, other, inNested, shared, kept, bodies>>

OtherBegins ==
    /\ other = "idle" /\ ~session.failed
    /\ session' = Begin(session) /\ other' = "transaction"
    /\ UNCHANGED <<suite, committed, body, told, written, inNested, shared, kept, bodies>>

OtherCommits ==
    LET c == Commit(session, committed)
    IN /\ other = "transaction"
       /\ session' = c.s /\ committed' = c.d
       /\ told' = told \cup {w \in ToSet(session.pending) : w[1] = "other"}
       /\ other' = "idle"
       /\ UNCHANGED <<suite, body, written, inNested, shared, kept, bodies>>

GiveBack ==
    /\ other = "idle" /\ other' = "none"
    /\ UNCHANGED <<suite, session, committed, body, told, written, inNested, shared, kept, bodies>>

TestingNext ==
    \/ BeginTest \/ StatementOfTest \/ RepositoryOfTest \/ CommitTest \/ NestTest \/ EndNested
    \/ EndTest \/ Borrow \/ OtherWrites \/ OtherBegins \/ OtherCommits \/ GiveBack

-----------------------------------------------------------------------------
(* Properties *)

TestingTypeOK ==
    /\ suite \in TestKinds
    /\ session.inTx \in BOOLEAN /\ (~session.inTx => session = NoTransaction)
    /\ other \in {"none", "idle", "transaction"}

\* Nothing of a test is kept, unless it commits, saves with cascades, or lost its client
\* to somebody else.
NothingKept ==
    \A w \in committed : w[1] = "test" => kept \/ shared

\* What a nested block wrote is gone with it, on the same conditions.
NestedUndone ==
    InBody /\ ~body.nested /\ ~kept /\ ~shared => inNested \cap ToSet(session.pending) = {}

\* Nobody else's work is undone by a test that still had its client.
OthersKept == told \subseteq committed \/ shared

\* A test leaves no transaction on a client that only it used.
NothingLeftOpen == ~InBody /\ other = "none" => session = NoTransaction

\* Tests leave nothing in the database or open, and do not undo what others wrote.
TestingHolds == TestingTypeOK /\ NothingKept /\ NestedUndone /\ OthersKept /\ NothingLeftOpen
=============================================================================
