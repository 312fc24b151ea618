----------------------------- MODULE Migrations -----------------------------
(***************************************************************************)
(* Schema migrations: the MigrationRunners of PostgreSQL, SQLite and MySQL *)
(* and TenantAwareMigrationRunner, which runs one of them per tenant       *)
(* schema, in chunks of `concurrency`.                                     *)
(*                                                                         *)
(* Several deployments may run migrations on the same schemas at once.  No *)
(* runner takes a lock; what protects them is the primary key of the       *)
(* migration table, and for PostgreSQL and SQLite that a migration is one  *)
(* transaction.  MySQL commits every DDL statement.  All deployments have  *)
(* the same versions, but one of them may have edited a migration.         *)
(* Nothing protects a rollback from a call beside it, so here it has the   *)
(* schemas to itself.                                                      *)
(***************************************************************************)
EXTENDS Naturals, FiniteSets

CONSTANTS Schemas,    \* tenant schemas, each with its migration table
          Versions,   \* versions of migrations, in lexicographic order
          Guarded,    \* versions whose statements fail when repeated (CREATE TABLE)
          Deployers,  \* deployments that call the runners
          MaxCalls,   \* bound: calls of runAll and rollbackAll
          MaxFaults,  \* bound: failed statements, failed commits, crashes
          Settings    \* combinations to start from, see Setting

Setting == [transactional : BOOLEAN,          \* DDL is part of the transaction
            rollbacks     : BOOLEAN,          \* someone calls rollbackAll
            concurrency   : Nat \ {0},        \* schemas per chunk
            carriesOn     : BOOLEAN,          \* continueOnError
            edited        : SUBSET Versions,  \* what Editors changed
            editors       : SUBSET Deployers]

ASSUME MigrationsAssumption ==
    /\ Versions \subseteq Nat /\ IsFiniteSet(Versions) /\ Guarded \subseteq Versions
    /\ MaxCalls \in Nat /\ MaxFaults \in Nat
    /\ Settings \subseteq Setting

Absent == 0  \* in the place of a checksum

Idle == [kind |-> "none", steps |-> 0]

Calls == [kind : {"none", "run", "rollback"}, steps : Nat]

\* A runner that has settled is in one of the last three.
Settled == {"completed", "failed", "rejected"}

Tasks == {"off", "initialize", "read", "apply", "record", "count"} \cup Settled

VARIABLES setting,
          record,   \* record[s][v]: the checksum of v's row in s, or Absent
          effect,   \* effect[s][v]: how often v is in effect in s
          built,    \* history: built[s][v]: checksum of the v last applied to s
          op,       \* op[d]: the call d is making
          rest,     \* rest[d]: schemas not yet in a chunk
          task,     \* task[d][s]: where d's runner of s is
          todo,     \* todo[d][s]: versions it has yet to apply or revert
          entries,  \* entries[d][s]: entries for s in the call's results
          calls, faults

vars == <<setting, record, effect, built, op, rest, task, todo, entries, calls, faults>>

\* The database.
database == <<record, effect, built>>

Init == /\ setting \in Settings
        /\ record = [s \in Schemas |-> [v \in Versions |-> Absent]]
        /\ effect = [s \in Schemas |-> [v \in Versions |-> 0]]
        /\ built = [s \in Schemas |-> [v \in Versions |-> Absent]]
        /\ op = [d \in Deployers |-> Idle]
        /\ rest = [d \in Deployers |-> {}]
        /\ task = [d \in Deployers |-> [s \in Schemas |-> "off"]]
        /\ todo = [d \in Deployers |-> [s \in Schemas |-> {}]]
        /\ entries = [d \in Deployers |-> [s \in Schemas |-> 0]]
        /\ calls = 0 /\ faults = 0

Fault == faults < MaxFaults /\ faults' = faults + 1

\* computeChecksum of d's migration v.
Checksum(d, v) == IF d \in setting.editors /\ v \in setting.edited THEN 2 ELSE 1

Recorded(s) == {v \in Versions : record[s][v] # Absent}

-----------------------------------------------------------------------------
\* runAll, or rollbackAll(steps) when nothing else is under way.
Call(d) ==
    /\ op[d] = Idle /\ calls < MaxCalls
    /\ calls' = calls + 1
    /\ \/ /\ \A e \in Deployers : op[e].kind # "rollback"
          /\ op' = [op EXCEPT ![d] = [kind |-> "run", steps |-> 0]]
       \/ /\ setting.rollbacks /\ \A e \in Deployers : op[e] = Idle
          /\ \E steps \in 0..Cardinality(Versions) :
                op' = [op EXCEPT ![d] = [kind |-> "rollback", steps |-> steps]]
    /\ rest' = [rest EXCEPT ![d] = Schemas]
    /\ UNCHANGED <<setting, database, task, todo, entries, faults>>

\* The next chunk of tenantSchemas, in whatever order they were given.
StartChunk(d) ==
    /\ op[d] # Idle /\ rest[d] # {}
    /\ \A s \in Schemas : task[d][s] = "off"
    /\ \E chunk \in SUBSET rest[d] :
          /\ chunk # {}
          /\ \/ Cardinality(chunk) = setting.concurrency
             \/ chunk = rest[d] /\ Cardinality(chunk) < setting.concurrency
          /\ rest' = [rest EXCEPT ![d] = @ \ chunk]
          /\ task' = [task EXCEPT ![d] = [s \in Schemas |->
                                             IF s \in chunk THEN "initialize" ELSE "off"]]
    /\ UNCHANGED <<setting, database, op, todo, entries, calls, faults>>

Goto(d, s, step) == task' = [task EXCEPT ![d][s] = step]

\* The action of a tenant throws.  Without continueOnError its entry is pushed
\* and the promise rejects, otherwise the promise returns the entry.
Fail(d, s) ==
    /\ Goto(d, s, IF setting.carriesOn THEN "failed" ELSE "rejected")
    /\ entries' = [entries EXCEPT ![d][s] = IF setting.carriesOn THEN @ ELSE @ + 1]
    /\ todo' = [todo EXCEPT ![d][s] = {}]
    /\ UNCHANGED <<setting, op, rest, calls>>

\* CREATE TABLE IF NOT EXISTS, which leaves a table alone that is there.
Initialize(d, s) ==
    /\ task[d][s] = "initialize"
    /\ \/ /\ Goto(d, s, "read")
          /\ UNCHANGED <<setting, op, rest, todo, entries, calls, faults>>
       \/ Fail(d, s) /\ Fault
    /\ UNCHANGED database

\* The pending migrations, or the last steps that were applied: with steps = 0
\* that is slice(-0), which is everything.
Chosen(d, s) ==
    IF op[d].kind = "run" THEN Versions \ Recorded(s)
    ELSE {v \in Recorded(s) : \/ op[d].steps = 0
                              \/ Cardinality({w \in Recorded(s) : w > v}) < op[d].steps}

NeverEdited(d, s) == FALSE

\* run compares the checksums of what is applied.
Edited(d, s) == /\ op[d].kind = "run"
                /\ \E v \in Recorded(s) : record[s][v] # Checksum(d, v)

\* getAppliedMigrations of run or rollback.
ReadApplied(d, s) ==
    /\ task[d][s] = "read"
    /\ UNCHANGED database
    /\ \/ Edited(d, s) /\ Fail(d, s) /\ UNCHANGED faults
       \/ Fail(d, s) /\ Fault
       \/ /\ ~Edited(d, s)
          /\ todo' = [todo EXCEPT ![d][s] = Chosen(d, s)]
          /\ Goto(d, s, IF Chosen(d, s) = {} THEN "count" ELSE "apply")
          /\ UNCHANGED <<setting, op, rest, entries, calls, faults>>

\* The version at hand: up in order, down in reverse.
Current(d, s, v) ==
    /\ v \in todo[d][s]
    /\ \A w \in todo[d][s] : IF op[d].kind = "run" THEN v <= w ELSE w <= v

\* v's statements run in s for d.
Change(d, s, v) ==
    IF op[d].kind = "run"
    THEN /\ effect' = [effect EXCEPT ![s][v] = @ + 1]
         /\ built' = [built EXCEPT ![s][v] = Checksum(d, v)]
    ELSE /\ effect' = [effect EXCEPT ![s][v] = IF @ = 0 THEN 0 ELSE @ - 1]
         /\ UNCHANGED built

\* CREATE fails if it is there, DROP if it is not.
Refused(d, s, v) ==
    v \in Guarded /\ (IF op[d].kind = "run" THEN effect[s][v] > 0 ELSE effect[s][v] = 0)

\* The statements of up or down, and data or undoData.  In a transaction
\* nothing is visible yet.
RunStatements(d, s) ==
    /\ task[d][s] = "apply"
    /\ \E v \in Versions :
          /\ Current(d, s, v)
          /\ UNCHANGED record
          /\ \/ /\ ~Refused(d, s, v)
                /\ Goto(d, s, "record")
                /\ IF setting.transactional
                   THEN UNCHANGED <<effect, built>>
                   ELSE Change(d, s, v)
                /\ UNCHANGED <<setting, op, rest, todo, entries, calls, faults>>
             \/ /\ Refused(d, s, v)
                /\ Fail(d, s)
                /\ UNCHANGED <<effect, built, faults>>
             \/ /\ Fail(d, s) /\ Fault
                /\ UNCHANGED <<effect, built>>

\* The migration is done: on to the next one.
Proceed(d, s, v) == /\ todo' = [todo EXCEPT ![d][s] = @ \ {v}]
                    /\ Goto(d, s, IF todo[d][s] = {v} THEN "count" ELSE "apply")
                    /\ UNCHANGED <<setting, op, rest, entries, calls>>

RecordWithoutKey(d, s) ==
    /\ task[d][s] = "record"
    /\ \E v \in Versions :
          /\ Current(d, s, v)
          /\ record' = [record EXCEPT ![s][v] = IF op[d].kind = "run"
                                                THEN Checksum(d, v) ELSE Absent]
          /\ IF setting.transactional THEN Change(d, s, v) ELSE UNCHANGED <<effect, built>>
          /\ Proceed(d, s, v)
          /\ UNCHANGED faults

\* INSERT or DELETE of the row, and COMMIT.  A key that is taken or a failed
\* commit rolls back what the transaction holds.  DELETE does not ask whether
\* there was a row.
Record(d, s) ==
    /\ task[d][s] = "record"
    /\ \E v \in Versions :
          /\ Current(d, s, v)
          /\ \/ /\ op[d].kind = "run" => record[s][v] = Absent
                /\ record' = [record EXCEPT ![s][v] = IF op[d].kind = "run"
                                                      THEN Checksum(d, v) ELSE Absent]
                /\ IF setting.transactional
                   THEN Change(d, s, v) ELSE UNCHANGED <<effect, built>>
                /\ Proceed(d, s, v)
                /\ UNCHANGED faults
             \/ /\ op[d].kind = "run" /\ record[s][v] # Absent
                /\ Fail(d, s)
                /\ UNCHANGED <<database, faults>>
             \/ /\ Fail(d, s) /\ Fault
                /\ UNCHANGED database

\* The count of applied migrations afterwards.
Count(d, s) ==
    /\ task[d][s] = "count"
    /\ \/ /\ Goto(d, s, "completed")
          /\ UNCHANGED <<setting, op, rest, todo, entries, calls, faults>>
       \/ Fail(d, s) /\ Fault
    /\ UNCHANGED database

SettleTheCompleted(d) ==
    /\ op[d] # Idle
    /\ \E s \in Schemas : task[d][s] # "off"
    /\ \A s \in Schemas : task[d][s] \in {"off", "completed", "failed"}
    /\ task' = [task EXCEPT ![d] = [s \in Schemas |-> "off"]]
    /\ entries' = [entries EXCEPT ![d] = [s \in Schemas |->
                      IF task[d][s] \in {"completed", "failed"} THEN @[s] + 1 ELSE @[s]]]
    /\ UNCHANGED <<setting, database, op, rest, todo, calls, faults>>

\* Promise.allSettled of the chunk.  A failed tenant does not end the loop,
\* whatever continueOnError says.
Settle(d) ==
    /\ op[d] # Idle
    /\ \E s \in Schemas : task[d][s] # "off"
    /\ \A s \in Schemas : task[d][s] \in {"off"} \cup Settled
    /\ task' = [task EXCEPT ![d] = [s \in Schemas |-> "off"]]
    /\ entries' = [entries EXCEPT ![d] = [s \in Schemas |->
                      IF task[d][s] \in {"completed", "failed"} THEN @[s] + 1 ELSE @[s]]]
    /\ UNCHANGED <<setting, database, op, rest, todo, calls, faults>>

Return(d) ==
    /\ op[d] # Idle /\ rest[d] = {}
    /\ \A s \in Schemas : task[d][s] = "off"
    /\ op' = [op EXCEPT ![d] = Idle]
    /\ entries' = [entries EXCEPT ![d] = [s \in Schemas |-> 0]]
    /\ UNCHANGED <<setting, database, rest, task, todo, calls, faults>>

\* The deployment dies; its connections close and their transactions end.
Crash(d) ==
    /\ op[d] # Idle /\ Fault
    /\ op' = [op EXCEPT ![d] = Idle]
    /\ rest' = [rest EXCEPT ![d] = {}]
    /\ task' = [task EXCEPT ![d] = [s \in Schemas |-> "off"]]
    /\ todo' = [todo EXCEPT ![d] = [s \in Schemas |-> {}]]
    /\ entries' = [entries EXCEPT ![d] = [s \in Schemas |-> 0]]
    /\ UNCHANGED <<setting, database, calls>>

Runner(d, s) == \/ Initialize(d, s) \/ ReadApplied(d, s)
                \/ RunStatements(d, s) \/ Record(d, s) \/ Count(d, s)

Next == \E d \in Deployers :
            \/ Call(d) \/ StartChunk(d) \/ Settle(d) \/ Return(d) \/ Crash(d)
            \/ \E s \in Schemas : Runner(d, s)

\* The awaits of a call settle.
Fairness == \A d \in Deployers :
                /\ WF_vars(StartChunk(d) \/ Settle(d) \/ Return(d))
                /\ \A s \in Schemas : WF_vars(Runner(d, s))

Spec == Init /\ [][Next]_vars /\ Fairness

-----------------------------------------------------------------------------
(* Properties *)

\* Every variable keeps its type; a runner has work left exactly while it is
\* between reading the table and its last record.
TypeOK ==
    /\ setting \in Settings
    /\ record \in [Schemas -> [Versions -> 0..2]]
    /\ effect \in [Schemas -> [Versions -> Nat]]
    /\ built \in [Schemas -> [Versions -> 0..2]]
    /\ op \in [Deployers -> Calls]
    /\ rest \in [Deployers -> SUBSET Schemas]
    /\ task \in [Deployers -> [Schemas -> Tasks]]
    /\ todo \in [Deployers -> [Schemas -> SUBSET Versions]]
    /\ entries \in [Deployers -> [Schemas -> Nat]]
    /\ calls \in Nat /\ faults \in Nat
    /\ \A d \in Deployers, s \in Schemas :
          (todo[d][s] # {}) <=> task[d][s] \in {"apply", "record"}

\* The migration table tells what the schema is: for a driver with
\* transactional DDL a version is recorded exactly if it is in effect, once
\* and as recorded, however many deployments migrate at once and wherever they
\* crash.  MySQL's runner, which commits statement by statement, still records
\* no version that was not applied, as long as nobody rolls back.
TableTellsTheSchema ==
    \A s \in Schemas, v \in Versions :
        IF setting.transactional
        THEN IF record[s][v] = Absent
             THEN effect[s][v] = 0
             ELSE effect[s][v] = 1 /\ built[s][v] = record[s][v]
        ELSE ~setting.rollbacks /\ record[s][v] # Absent => effect[s][v] > 0

\* The recorded versions are the first ones of the list: no version is applied
\* over a hole, and rollback takes them from the end, also when runs overlap,
\* fail in the middle or crash.
NoHoles ==
    \A s \in Schemas, v, w \in Versions :
        w < v /\ record[s][v] # Absent => record[s][w] # Absent

\* Together: what every schema and its migration table look like at any moment.
SchemasInOrder == TypeOK /\ TableTellsTheSchema /\ NoHoles

\* A tenant that runAll reports as completed has every migration as the caller
\* has it, whoever applied it.
CompletedMeansMigrated ==
    \A d \in Deployers, s \in Schemas :
        op[d].kind = "run" /\ task[d][s] = "completed"
            => \A v \in Versions : record[s][v] = Checksum(d, v)

\* The results have one entry for every tenant, whether tenants before it in
\* the list, or beside it in the chunk, failed or not.
EveryTenantReported ==
    \A d \in Deployers, s \in Schemas :
        op[d] # Idle => entries[d][s] = IF \/ s \in rest[d]
                                           \/ task[d][s] \notin {"off", "rejected"}
                                        THEN 0 ELSE 1

\* What runAll and rollbackAll tell their caller is so.
ReportsAreTrue == CompletedMeansMigrated /\ EveryTenantReported

\* A call returns, whatever fails in its runners.
CallReturns == \A d \in Deployers : op[d] # Idle ~> op[d] = Idle
=============================================================================
