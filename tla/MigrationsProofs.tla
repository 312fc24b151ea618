-------------------------- MODULE MigrationsProofs --------------------------
(***************************************************************************)
(* What holds of Migrations for any schemas, deployments, bounds and       *)
(* finite list of versions, of PostgreSQL and SQLite and of MySQL.         *)
(*                                                                         *)
(* No runner takes a lock, so what it read of the migration table may be   *)
(* out of date when it writes.  Position says what stays true of it: while *)
(* only runs are under way rows are added and never changed, and a         *)
(* rollback, which Alone keeps to itself, finds above its versions nothing *)
(* that it does not take back itself.  Counted and Resting carry the       *)
(* results of a call from chunk to chunk and from call to call.            *)
(*                                                                         *)
(* After that, about the closure table and the materialized paths of Trees *)
(* for any nodes and callers: they are those of one forest.                *)
(*                                                                         *)
(* Last, about the diffs of SchemaDiffs for any designs and architects.    *)
(* After says what the first statements of a script have made of the       *)
(* catalogue they met, and Near that ups of others bring it nearer to the  *)
(* entities than what a diff has read, and never away from them.           *)
(***************************************************************************)
EXTENDS MCMigrations, Trees, FiniteSetTheorems, SequenceTheorems, WellFoundedInduction,
        TLAPS

\* Who makes no call has no runner.
Resting(d) ==
    op[d].kind = "none" =>
        /\ op[d] = Idle /\ rest[d] = {}
        /\ \A s \in Schemas : task[d][s] = "off" /\ entries[d][s] = 0

\* A rollback has the schemas to itself.
Alone(d) ==
    op[d].kind = "rollback" =>
        setting.rollbacks /\ \A e \in Deployers \ {d} : op[e] = Idle

\* A schema of a later chunk has no runner, and the results count s once it is done.
Counted(d, s) ==
    /\ s \in rest[d] => task[d][s] = "off"
    /\ op[d] # Idle =>
          entries[d][s] = IF s \in rest[d] \/ task[d][s] \notin {"off", "rejected"}
                          THEN 0 ELSE 1

\* What d's runner has left behind in s is recorded as d has it.
Behind(d, s) ==
    op[d].kind = "run" /\ task[d][s] \in {"apply", "record", "count", "completed"}
        => \A v \in Versions \ todo[d][s] : record[s][v] = Checksum(d, v)

\* Without transactions, what d's runner is about to record is in effect.
Applied(d, s) ==
    op[d].kind = "run" /\ task[d][s] = "record" /\ ~setting.transactional
        => \A v \in Versions : Current(d, s, v) => effect[s][v] > 0

\* What a rollback takes back is recorded, and the last of what is.
Topmost(d, s) ==
    op[d].kind = "rollback" /\ task[d][s] \in {"apply", "record"}
        => /\ todo[d][s] \subseteq Recorded(s)
           /\ \A v \in todo[d][s], w \in Recorded(s) \ todo[d][s] : w < v

Position(d, s) == Behind(d, s) /\ Applied(d, s) /\ Topmost(d, s)

IInv == /\ TypeOK /\ TableTellsTheSchema /\ NoHoles
        /\ \A d \in Deployers : Resting(d) /\ Alone(d)
        /\ \A d \in Deployers, s \in Schemas : Counted(d, s) /\ Position(d, s)

-----------------------------------------------------------------------------
(* The steps of a runner *)

\* d's runner of s goes to step, and nobody else's moves.
Moves(d, s, step) ==
    /\ UNCHANGED <<setting, op, rest, calls>> /\ faults' \in Nat
    /\ step \in Tasks \ {"off"} /\ task' = [task EXCEPT ![d][s] = step]
    /\ \E left \in SUBSET Versions :
          /\ todo' = [todo EXCEPT ![d][s] = left]
          /\ (left # {}) <=> step \in {"apply", "record"}
    /\ \E n \in Nat :
          /\ entries' = [entries EXCEPT ![d][s] = n]
          /\ n = IF step = "rejected" THEN 1 ELSE 0

\* What d's runner may do to the rows and the schema of s: others' rows, and
\* those that a run finds, stay.
Writes(d, s) ==
    /\ record' \in [Schemas -> [Versions -> 0..2]]
    /\ effect' \in [Schemas -> [Versions -> Nat]]
    /\ built' \in [Schemas -> [Versions -> 0..2]]
    /\ \A r \in Schemas \ {s} : record'[r] = record[r] /\ effect'[r] = effect[r]
    /\ op[d].kind = "run" =>
          \A v \in Versions :
              /\ record[s][v] # Absent => record'[s][v] = record[s][v]
              /\ effect'[s][v] >= effect[s][v]

\* Who has a runner makes a call.
LEMMA RunnersAreCalled ==
    ASSUME IInv, NEW d \in Deployers, NEW s \in Schemas, task[d][s] # "off"
    PROVE  /\ op[d].kind \in {"run", "rollback"} /\ op[d] # Idle
           /\ s \notin rest[d]
           /\ op[d].kind = "rollback" => setting.rollbacks
           /\ \A e \in Deployers \ {d} : op[e].kind = "rollback" => FALSE
           /\ op[d].kind = "rollback" =>
                 \A e \in Deployers \ {d} : op[e].kind = "none"
<1>1. op[d].kind # "none"
  BY DEF IInv, Resting
<1>2. op[d].kind \in {"none", "run", "rollback"}
  BY DEF IInv, TypeOK, Calls
<1>3. op[d] # Idle
  BY <1>1 DEF Idle
<1>4. ASSUME NEW e \in Deployers \ {d}, op[e].kind = "rollback" PROVE FALSE
  BY <1>3, <1>4 DEF IInv, Alone
<1>5. ASSUME op[d].kind = "rollback", NEW e \in Deployers \ {d} PROVE op[e].kind = "none"
  <2>1. op[e] = Idle
    BY <1>5 DEF IInv, Alone
  <2> QED
    BY <2>1 DEF Idle
<1>6. s \notin rest[d]
  BY DEF IInv, Counted
<1>7. op[d].kind = "rollback" => setting.rollbacks
  BY DEF IInv, Alone
<1> QED
  BY <1>1, <1>2, <1>3, <1>4, <1>5, <1>6, <1>7

\* A step keeps the invariant if it keeps the schemas in order and its own
\* runner in position.
LEMMA RunnerKeepsIInv ==
    ASSUME IInv, NEW d \in Deployers, NEW s \in Schemas, task[d][s] # "off",
           NEW step, Moves(d, s, step), Writes(d, s),
           TableTellsTheSchema', NoHoles', Position(d, s)'
    PROVE  IInv'
<1>1. PICK left \in SUBSET Versions :
          /\ todo' = [todo EXCEPT ![d][s] = left]
          /\ (left # {}) <=> step \in {"apply", "record"}
  BY DEF Moves
<1>2. PICK n \in Nat :
          /\ entries' = [entries EXCEPT ![d][s] = n]
          /\ n = IF step = "rejected" THEN 1 ELSE 0
  BY DEF Moves
<1>3. /\ UNCHANGED <<setting, op, rest, calls>> /\ faults' \in Nat
      /\ step \in Tasks \ {"off"} /\ task' = [task EXCEPT ![d][s] = step]
  BY DEF Moves
<1>t. TypeOK
  BY DEF IInv
<1>c. /\ op[d].kind \in {"run", "rollback"} /\ op[d] # Idle /\ s \notin rest[d]
      /\ \A e \in Deployers \ {d} : op[e].kind = "rollback" => FALSE
      /\ op[d].kind = "rollback" => \A e \in Deployers \ {d} : op[e].kind = "none"
  BY RunnersAreCalled
<1>4. /\ task' \in [Deployers -> [Schemas -> Tasks]]
      /\ todo' \in [Deployers -> [Schemas -> SUBSET Versions]]
      /\ entries' \in [Deployers -> [Schemas -> Nat]]
      /\ task'[d][s] = step /\ todo'[d][s] = left /\ entries'[d][s] = n
  BY <1>1, <1>2, <1>3, <1>t DEF TypeOK
<1>5. ASSUME NEW e \in Deployers, NEW r \in Schemas, e # d \/ r # s
      PROVE  /\ task'[e][r] = task[e][r] /\ todo'[e][r] = todo[e][r]
             /\ entries'[e][r] = entries[e][r]
  BY <1>1, <1>2, <1>3, <1>5, <1>t DEF TypeOK
<1>6. TypeOK'
  <2>1. \A e \in Deployers, r \in Schemas :
            (todo'[e][r] # {}) <=> task'[e][r] \in {"apply", "record"}
    BY <1>1, <1>4, <1>5, <1>t DEF TypeOK
  <2> QED
    BY <2>1, <1>3, <1>4, <1>t DEF TypeOK, Writes
<1>7. ASSUME NEW e \in Deployers PROVE Resting(e)' /\ Alone(e)'
  <2>1. op'[e].kind = "none" => e # d
    BY <1>3, <1>c
  <2>2. Resting(e) /\ Alone(e)
    BY DEF IInv
  <2>3. Resting(e)'
    BY <2>1, <2>2, <1>3, <1>5 DEF Resting
  <2> QED
    BY <2>2, <2>3, <1>3 DEF Alone
<1>8. ASSUME NEW e \in Deployers, NEW r \in Schemas PROVE Counted(e, r)'
  <2>1. CASE e = d /\ r = s
    BY <2>1, <1>2, <1>3, <1>4, <1>c DEF Counted
  <2>2. CASE e # d \/ r # s
    BY <2>2, <1>3, <1>5 DEF IInv, Counted
  <2> QED
    BY <2>1, <2>2
<1>9. ASSUME NEW e \in Deployers, NEW r \in Schemas PROVE Position(e, r)'
  <2>1. CASE e = d /\ r = s
    BY <2>1
  <2>2. CASE r # s
    <3>1. record'[r] = record[r] /\ effect'[r] = effect[r]
      BY <2>2 DEF Writes
    <3>2. task'[e][r] = task[e][r] /\ todo'[e][r] = todo[e][r]
      BY <2>2, <1>5
    <3> QED
      BY <3>1, <3>2, <1>3
      DEF IInv, Position, Behind, Applied, Topmost, Current, Checksum, Recorded
  <2>3. CASE e # d /\ r = s
    <3>1. task'[e][s] = task[e][s] /\ todo'[e][s] = todo[e][s]
      BY <2>3, <1>5
    <3>2. CASE op[e].kind = "run"
      <4>1. op[d].kind = "run"
        BY <2>3, <3>2, <1>c
      <4>2. \A v \in Versions :
                /\ record[s][v] # Absent => record'[s][v] = record[s][v]
                /\ effect'[s][v] >= effect[s][v]
        BY <4>1 DEF Writes
      <4>3. Behind(e, s) /\ Applied(e, s)
        BY DEF IInv, Position
      <4>4. \A v \in Versions : Checksum(e, v)' = Checksum(e, v) /\ Checksum(e, v) # Absent
        BY <1>3 DEF Checksum, Absent
      <4>5. Behind(e, s)'
        BY <4>2, <4>3, <4>4, <3>1, <1>3 DEF Behind
      <4>6. \A v \in Versions : Current(e, s, v)' <=> Current(e, s, v)
        BY <3>1, <1>3 DEF Current
      <4>7. \A v \in Versions : effect[s][v] > 0 => effect'[s][v] > 0
        BY <4>2, <1>t DEF TypeOK, Writes
      <4>8. Applied(e, s)'
        BY <4>3, <4>6, <4>7, <3>1, <1>3 DEF Applied
      <4>9. Topmost(e, s)'
        BY <3>2, <1>3 DEF Topmost
      <4> QED
        BY <4>5, <4>8, <4>9, <2>3 DEF Position
    <3>3. CASE op[e].kind # "run"
      BY <3>3, <2>3, <1>3, <1>c DEF Position, Behind, Applied, Topmost
    <3> QED
      BY <3>2, <3>3
  <2> QED
    BY <2>1, <2>2, <2>3
<1> QED
  BY <1>6, <1>7, <1>8, <1>9 DEF IInv

\* A step that leaves the database alone leaves the schemas in order.
LEMMA DatabaseAlone ==
    ASSUME IInv, UNCHANGED database, UNCHANGED setting, NEW d \in Deployers, NEW s \in Schemas
    PROVE  Writes(d, s) /\ TableTellsTheSchema' /\ NoHoles'
<1>1. record' = record /\ effect' = effect /\ built' = built
  BY DEF database
<1>2. TypeOK /\ TableTellsTheSchema /\ NoHoles
  BY DEF IInv
<1>3. TableTellsTheSchema'
  BY <1>1, <1>2 DEF TableTellsTheSchema
<1>4. NoHoles'
  BY <1>1, <1>2 DEF NoHoles
<1>5. \A v \in Versions : effect[s][v] >= effect[s][v]
  BY <1>2 DEF TypeOK
<1>6. Writes(d, s)
  BY <1>1, <1>2, <1>5 DEF Writes, TypeOK
<1> QED
  BY <1>3, <1>4, <1>6

\* A runner that moves on has no entry yet.
LEMMA NoEntryYet ==
    ASSUME IInv, NEW d \in Deployers, NEW s \in Schemas, task[d][s] \notin {"off", "rejected"}
    PROVE  entries[d][s] = 0
  BY RunnersAreCalled DEF IInv, Counted

\* d's runner of s moves on, with left to do.
LEMMA MovesOn ==
    ASSUME IInv, NEW d \in Deployers, NEW s \in Schemas, task[d][s] \notin {"off", "rejected"},
           NEW step \in Tasks \ {"off", "rejected"}, Goto(d, s, step),
           NEW left \in SUBSET Versions, todo' = [todo EXCEPT ![d][s] = left],
           (left # {}) <=> step \in {"apply", "record"},
           UNCHANGED <<setting, op, rest, entries, calls, faults>>
    PROVE  Moves(d, s, step)
<1>1. entries[d][s] = 0
  BY NoEntryYet
<1>2. TypeOK
  BY DEF IInv
<1>3. entries' = [entries EXCEPT ![d][s] = 0]
  BY <1>1, <1>2 DEF TypeOK
<1>4. faults' \in Nat
  BY <1>2 DEF TypeOK
<1> QED
  BY <1>3, <1>4 DEF Moves, Goto

\* A runner that fails writes nothing.
LEMMA FailInv ==
    ASSUME IInv, NEW d \in Deployers, NEW s \in Schemas, task[d][s] \notin {"off"} \cup Settled,
           Fail(d, s), faults' \in Nat, UNCHANGED database
    PROVE  IInv'
<1> DEFINE step == IF setting.carriesOn THEN "failed" ELSE "rejected"
<1>1. entries[d][s] = 0
  BY NoEntryYet DEF Settled
<1>2. TypeOK
  BY DEF IInv
<1>3. step \in {"failed", "rejected"} /\ step \in Tasks \ {"off"}
  BY DEF Tasks, Settled
<1>4. task' = [task EXCEPT ![d][s] = step]
  BY DEF Fail, Goto
<1>5. entries' = [entries EXCEPT ![d][s] = IF step = "rejected" THEN 1 ELSE 0]
  <2>1. entries' = [entries EXCEPT ![d][s] = IF setting.carriesOn
                                             THEN entries[d][s] ELSE entries[d][s] + 1]
    BY DEF Fail
  <2>2. (IF setting.carriesOn THEN entries[d][s] ELSE entries[d][s] + 1)
            = IF step = "rejected" THEN 1 ELSE 0
    BY <1>1
  <2> QED
    BY <2>1, <2>2
<1>6. todo' = [todo EXCEPT ![d][s] = {}] /\ UNCHANGED <<setting, op, rest, calls>>
  BY DEF Fail
<1>7. Moves(d, s, step)
  <2>1. (IF step = "rejected" THEN 1 ELSE 0) \in Nat
    OBVIOUS
  <2>2. ~({} # {}) /\ step \notin {"apply", "record"}
    BY <1>3
  <2> HIDE DEF step
  <2>3. \E n \in Nat : /\ entries' = [entries EXCEPT ![d][s] = n]
                       /\ n = IF step = "rejected" THEN 1 ELSE 0
    BY <2>1, <1>5
  <2>4. \E left \in SUBSET Versions :
          /\ todo' = [todo EXCEPT ![d][s] = left]
          /\ (left # {}) <=> step \in {"apply", "record"}
    <3>1. {} \in SUBSET Versions
      OBVIOUS
    <3> QED
      BY <3>1, <2>2, <1>6
  <2> QED
    BY <2>3, <2>4, <1>3, <1>4, <1>6 DEF Moves
<1>8. Position(d, s)'
  <2>1. task'[d][s] = step
    BY <1>2, <1>4 DEF TypeOK
  <2> QED
    BY <2>1, <1>3 DEF Position, Behind, Applied, Topmost
<1>9. Writes(d, s) /\ TableTellsTheSchema' /\ NoHoles'
  BY <1>6, DatabaseAlone
<1>10. task[d][s] # "off"
  OBVIOUS
<1> QED
  BY <1>7, <1>8, <1>9, <1>10, RunnerKeepsIInv

LEMMA FaultIsCounted == ASSUME IInv, Fault PROVE faults' \in Nat
  BY DEF Fault, IInv, TypeOK

LEMMA InitializeInv ==
    ASSUME IInv, NEW d \in Deployers, NEW s \in Schemas, Initialize(d, s)
    PROVE  IInv'
<1>1. task[d][s] = "initialize" /\ UNCHANGED database
  BY DEF Initialize
<1>2. CASE Goto(d, s, "read") /\ UNCHANGED <<setting, op, rest, todo, entries, calls, faults>>
  <2>1. TypeOK
    BY DEF IInv
  <2>2. todo' = [todo EXCEPT ![d][s] = {}]
    BY <2>1, <1>1, <1>2 DEF TypeOK
  <2>3. Moves(d, s, "read")
    <3>1. "read" \in Tasks \ {"off", "rejected"} /\ task[d][s] \notin {"off", "rejected"}
      BY <1>1 DEF Tasks
    <3>2. {} \in SUBSET Versions /\ (({} # {}) <=> "read" \in {"apply", "record"})
      OBVIOUS
    <3> QED
      BY <3>1, <3>2, <2>2, <1>2, MovesOn
  <2>4. Writes(d, s) /\ TableTellsTheSchema' /\ NoHoles'
    BY <1>1, <1>2, DatabaseAlone
  <2>5. task'[d][s] = "read"
    BY <2>1, <1>2 DEF TypeOK, Goto
  <2>6. Position(d, s)'
    BY <2>5 DEF Position, Behind, Applied, Topmost
  <2> QED
    BY <2>3, <2>4, <2>6, <1>1, RunnerKeepsIInv
<1>3. CASE Fail(d, s) /\ Fault
  <2>1. task[d][s] \notin {"off"} \cup Settled /\ faults' \in Nat
    BY <1>1, <1>3, FaultIsCounted DEF Settled
  <2> QED
    BY <2>1, <1>1, <1>3, FailInv
<1> QED
  BY <1>2, <1>3 DEF Initialize

LEMMA CountInv ==
    ASSUME IInv, NEW d \in Deployers, NEW s \in Schemas, Count(d, s)
    PROVE  IInv'
<1>1. task[d][s] = "count" /\ UNCHANGED database
  BY DEF Count
<1>2. CASE Goto(d, s, "completed") /\ UNCHANGED <<setting, op, rest, todo, entries, calls, faults>>
  <2>1. TypeOK
    BY DEF IInv
  <2>2. todo' = [todo EXCEPT ![d][s] = {}]
    BY <2>1, <1>1, <1>2 DEF TypeOK
  <2>3. Moves(d, s, "completed")
    <3>1. "completed" \in Tasks \ {"off", "rejected"} /\ task[d][s] \notin {"off", "rejected"}
      BY <1>1 DEF Tasks, Settled
    <3>2. {} \in SUBSET Versions /\ (({} # {}) <=> "completed" \in {"apply", "record"})
      OBVIOUS
    <3> QED
      BY <3>1, <3>2, <2>2, <1>2, MovesOn
  <2>4. Writes(d, s) /\ TableTellsTheSchema' /\ NoHoles'
    BY <1>1, <1>2, DatabaseAlone
  <2>5. task'[d][s] = "completed"
    BY <2>1, <1>2 DEF TypeOK, Goto
  <2>6. Behind(d, s)
    BY DEF IInv, Position
  <2>7. Behind(d, s)'
    BY <2>6, <1>1, <1>2 DEF Behind, Checksum, database
  <2>8. Position(d, s)'
    BY <2>5, <2>7 DEF Position, Applied, Topmost
  <2> QED
    BY <2>3, <2>4, <2>8, <1>1, RunnerKeepsIInv
<1>3. CASE Fail(d, s) /\ Fault
  <2>1. task[d][s] \notin {"off"} \cup Settled /\ faults' \in Nat
    BY <1>1, <1>3, FaultIsCounted DEF Settled
  <2> QED
    BY <2>1, <1>1, <1>3, FailInv
<1> QED
  BY <1>2, <1>3 DEF Count

\* The last steps of what is recorded: nothing that is left lies above them.
LEMMA ChosenAreTopmost ==
    ASSUME IInv, NEW d \in Deployers, NEW s \in Schemas, op[d].kind = "rollback"
    PROVE  /\ Chosen(d, s) \subseteq Recorded(s)
           /\ \A v \in Chosen(d, s), w \in Recorded(s) \ Chosen(d, s) : w < v
<1> DEFINE Above(v) == {w \in Recorded(s) : w > v}
<1>1. Chosen(d, s) = {v \in Recorded(s) : op[d].steps = 0 \/ Cardinality(Above(v)) < op[d].steps}
  BY DEF Chosen
<1>2. op[d].steps \in Nat
  BY DEF IInv, TypeOK, Calls
<1>3. Recorded(s) \subseteq Versions /\ Versions \subseteq Nat /\ IsFiniteSet(Versions)
  BY MigrationsAssumption DEF Recorded
<1>4. ASSUME NEW v \in Chosen(d, s), NEW w \in Recorded(s) \ Chosen(d, s), ~(w < v)
      PROVE  FALSE
  <2>1. v \in Nat /\ w \in Nat /\ v \in Recorded(s) /\ w # v
    BY <1>1, <1>3, <1>4
  <2>2. w > v
    BY <2>1, <1>4
  <2>3. Above(w) \subseteq Above(v)
    <3>1. ASSUME NEW x \in Recorded(s), x > w PROVE x > v
      <4>1. x \in Nat
        BY <1>3
      <4> QED
        BY <4>1, <3>1, <2>1, <2>2
    <3> QED
      BY <3>1
  <2>4. Above(v) \subseteq Versions
    BY <1>3
  <2>5. IsFiniteSet(Above(v)) /\ IsFiniteSet(Above(w))
    BY <2>3, <2>4, <1>3, FS_Subset
  <2>6. Cardinality(Above(w)) <= Cardinality(Above(v))
    BY <2>3, <2>5, FS_Subset
  <2>7. Cardinality(Above(v)) \in Nat /\ Cardinality(Above(w)) \in Nat
    BY <2>5, FS_CardinalityType
  <2> HIDE DEF Above
  <2>8. ~(Cardinality(Above(w)) < op[d].steps) /\ op[d].steps # 0
    BY <1>1, <1>4
  <2>9. Cardinality(Above(v)) < op[d].steps
    BY <2>8, <1>1, <1>4
  <2> QED
    BY <2>6, <2>7, <2>8, <2>9, <1>2
<1> QED
  BY <1>1, <1>4

LEMMA ReadAppliedInv ==
    ASSUME IInv, NEW d \in Deployers, NEW s \in Schemas, ReadApplied(d, s)
    PROVE  IInv'
<1>1. /\ task[d][s] = "read" /\ UNCHANGED database
      /\ task[d][s] \notin {"off"} \cup Settled
  BY DEF ReadApplied, Settled
<1>t. TypeOK
  BY DEF IInv
<1>2. CASE Fail(d, s) /\ (UNCHANGED faults \/ Fault)
  <2>1. faults' \in Nat
    BY <1>2, <1>t, FaultIsCounted DEF TypeOK
  <2> QED
    BY <2>1, <1>1, <1>2, FailInv
<1>3. CASE /\ ~Edited(d, s)
           /\ todo' = [todo EXCEPT ![d][s] = Chosen(d, s)]
           /\ Goto(d, s, IF Chosen(d, s) = {} THEN "count" ELSE "apply")
           /\ UNCHANGED <<setting, op, rest, entries, calls, faults>>
  <2> DEFINE step == IF Chosen(d, s) = {} THEN "count" ELSE "apply"
  <2>1. Chosen(d, s) \in SUBSET Versions
    BY DEF Chosen, Recorded
  <2>2. step \in Tasks \ {"off", "rejected"} /\ task[d][s] \notin {"off", "rejected"}
    BY <1>1 DEF Tasks
  <2>3. (Chosen(d, s) # {}) <=> step \in {"apply", "record"}
    OBVIOUS
  <2>4. step \in {"count", "apply"} /\ Goto(d, s, step)
    BY <1>3
  <2> HIDE DEF step
  <2>5. Moves(d, s, step)
    BY <2>1, <2>2, <2>3, <2>4, <1>3, MovesOn
  <2>6. Writes(d, s) /\ TableTellsTheSchema' /\ NoHoles'
    BY <1>1, <1>3, DatabaseAlone
  <2>7. task'[d][s] = step /\ todo'[d][s] = Chosen(d, s)
    BY <2>4, <1>t, <1>3 DEF TypeOK, Goto
  <2>8. op' = op /\ record' = record /\ setting' = setting
    BY <1>1, <1>3 DEF database
  <2>9. Behind(d, s)'
    <3>1. ASSUME op[d].kind = "run", NEW v \in Versions \ Chosen(d, s)
          PROVE  record[s][v] = Checksum(d, v)
      BY <3>1, <1>3 DEF Chosen, Edited
    <3> QED
      BY <3>1, <2>7, <2>8 DEF Behind, Checksum
  <2>10. Applied(d, s)'
    BY <2>4, <2>7 DEF Applied
  <2>11. Topmost(d, s)'
    <3>1. Recorded(s)' = Recorded(s)
      BY <2>8 DEF Recorded
    <3> QED
      BY <3>1, <2>7, <2>8, ChosenAreTopmost DEF Topmost
  <2>12. Position(d, s)'
    BY <2>9, <2>10, <2>11 DEF Position
  <2> QED
    BY <2>5, <2>6, <2>12, <1>1, RunnerKeepsIInv
<1> QED
  BY <1>2, <1>3 DEF ReadApplied

\* v's statements: once more, or once less, in effect.
LEMMA ChangeEffect ==
    ASSUME IInv, NEW d \in Deployers, NEW s \in Schemas, NEW v \in Versions, Change(d, s, v)
    PROVE  /\ effect' \in [Schemas -> [Versions -> Nat]]
           /\ built' \in [Schemas -> [Versions -> 0..2]]
           /\ \A r \in Schemas, w \in Versions :
                  r # s \/ w # v => effect'[r][w] = effect[r][w] /\ built'[r][w] = built[r][w]
           /\ \A r \in Schemas \ {s} : effect'[r] = effect[r]
           /\ IF op[d].kind = "run"
              THEN effect'[s][v] = effect[s][v] + 1 /\ built'[s][v] = Checksum(d, v)
              ELSE effect'[s][v] = IF effect[s][v] = 0 THEN 0 ELSE effect[s][v] - 1
<1>1. /\ effect \in [Schemas -> [Versions -> Nat]] /\ built \in [Schemas -> [Versions -> 0..2]]
      /\ effect[s][v] \in Nat
  BY DEF IInv, TypeOK
<1>2. Checksum(d, v) \in 0..2
  BY DEF Checksum
<1>3. CASE op[d].kind = "run"
  <2>1. /\ effect' = [effect EXCEPT ![s][v] = effect[s][v] + 1]
        /\ built' = [built EXCEPT ![s][v] = Checksum(d, v)]
    BY <1>3 DEF Change
  <2> QED
    BY <2>1, <1>1, <1>2, <1>3
<1>4. CASE op[d].kind # "run"
  <2> DEFINE less == IF effect[s][v] = 0 THEN 0 ELSE effect[s][v] - 1
  <2>1. effect' = [effect EXCEPT ![s][v] = less] /\ built' = built
    BY <1>4 DEF Change
  <2>2. less \in Nat
    BY <1>1
  <2> HIDE DEF less
  <2>3. /\ effect' \in [Schemas -> [Versions -> Nat]] /\ effect'[s][v] = less
        /\ \A r \in Schemas, w \in Versions : r # s \/ w # v => effect'[r][w] = effect[r][w]
        /\ \A r \in Schemas \ {s} : effect'[r] = effect[r]
    BY <2>1, <2>2, <1>1
  <2> QED
    BY <2>1, <2>3, <1>1, <1>4 DEF less
<1> QED
  BY <1>3, <1>4

\* Statements that succeed at once, where they commit at once.
LEMMA StatementsInv ==
    ASSUME IInv, NEW d \in Deployers, NEW s \in Schemas, NEW v \in Versions,
           task[d][s] = "apply", Current(d, s, v), Goto(d, s, "record"), UNCHANGED record,
           IF setting.transactional THEN UNCHANGED <<effect, built>> ELSE Change(d, s, v),
           UNCHANGED <<setting, op, rest, todo, entries, calls, faults>>
    PROVE  IInv'
<1>t. TypeOK /\ TableTellsTheSchema /\ NoHoles /\ Position(d, s)
  BY DEF IInv
<1>c. op[d].kind = "rollback" => setting.rollbacks
  BY RunnersAreCalled
<1>1. /\ todo' = [todo EXCEPT ![d][s] = todo[d][s]]
      /\ todo[d][s] \in SUBSET Versions /\ todo[d][s] # {}
      /\ task'[d][s] = "record"
  BY <1>t DEF TypeOK, Goto, Current
<1>2. Moves(d, s, "record")
  <2>1. "record" \in Tasks \ {"off", "rejected"} /\ task[d][s] \notin {"off", "rejected"}
    BY DEF Tasks
  <2>2. (todo[d][s] # {}) <=> "record" \in {"apply", "record"}
    BY <1>1
  <2> QED
    BY <2>1, <2>2, <1>1, MovesOn
<1>3. Behind(d, s)' /\ Topmost(d, s)'
  BY <1>1, <1>t DEF Position, Behind, Topmost, Recorded, Checksum
<1>4. \A w \in Versions : Current(d, s, w)' => w = v
  BY MigrationsAssumption DEF Current
<1>5. CASE setting.transactional
  <2>1. UNCHANGED database
    BY <1>5 DEF database
  <2>2. Writes(d, s) /\ TableTellsTheSchema' /\ NoHoles'
    BY <2>1, DatabaseAlone
  <2>3. Position(d, s)'
    BY <1>3, <1>5 DEF Position, Applied
  <2> QED
    BY <2>2, <2>3, <1>2, RunnerKeepsIInv
<1>6. CASE ~setting.transactional
  <2>1. Change(d, s, v)
    BY <1>6
  <2>2. /\ effect' \in [Schemas -> [Versions -> Nat]]
        /\ built' \in [Schemas -> [Versions -> 0..2]]
        /\ \A r \in Schemas, w \in Versions : r # s \/ w # v => effect'[r][w] = effect[r][w]
        /\ \A r \in Schemas \ {s} : effect'[r] = effect[r]
        /\ op[d].kind = "run" => effect'[s][v] = effect[s][v] + 1
    BY <2>1, ChangeEffect
  <2>3. \A w \in Versions : effect[s][w] \in Nat
    BY <1>t DEF TypeOK
  <2>4. op[d].kind = "run" => \A w \in Versions : effect'[s][w] >= effect[s][w]
    BY <2>2, <2>3
  <2>5. Writes(d, s)
    BY <2>2, <2>4, <1>t DEF Writes, TypeOK
  <2>6. Applied(d, s)'
    <3>1. op[d].kind = "run" => effect'[s][v] > 0
      BY <2>2, <2>3
    <3> QED
      BY <3>1, <1>4 DEF Applied
  <2>7. TableTellsTheSchema'
    <3>1. ASSUME ~setting.rollbacks, NEW r \in Schemas, NEW w \in Versions, effect[r][w] > 0
          PROVE  effect'[r][w] > 0
      <4>1. op[d].kind = "run"
        BY <3>1, <1>c, RunnersAreCalled
      <4>2. CASE r = s
        BY <4>1, <4>2, <3>1, <2>2, <2>3, <2>4
      <4>3. CASE r # s
        BY <4>3, <3>1, <2>2
      <4> QED
        BY <4>2, <4>3
    <3> QED
      BY <3>1, <1>6, <1>t DEF TableTellsTheSchema
  <2>8. NoHoles'
    BY <1>t DEF NoHoles
  <2>9. Position(d, s)'
    BY <1>3, <2>6 DEF Position
  <2> QED
    BY <2>5, <2>7, <2>8, <2>9, <1>2, RunnerKeepsIInv
<1> QED
  BY <1>5, <1>6

LEMMA RunStatementsInv ==
    ASSUME IInv, NEW d \in Deployers, NEW s \in Schemas, RunStatements(d, s)
    PROVE  IInv'
<1>1. /\ task[d][s] = "apply" /\ task[d][s] \notin {"off"} \cup Settled
  BY DEF RunStatements, Settled
<1>2. PICK v \in Versions :
          /\ Current(d, s, v)
          /\ UNCHANGED record
          /\ \/ /\ Goto(d, s, "record")
                /\ IF setting.transactional
                   THEN UNCHANGED <<effect, built>>
                   ELSE Change(d, s, v)
                /\ UNCHANGED <<setting, op, rest, todo, entries, calls, faults>>
             \/ /\ Fail(d, s)
                /\ UNCHANGED <<effect, built>>
                /\ UNCHANGED faults \/ Fault
  BY DEF RunStatements
<1>3. CASE Fail(d, s) /\ UNCHANGED <<effect, built>> /\ (UNCHANGED faults \/ Fault)
  <2>1. faults' \in Nat /\ UNCHANGED database
    BY <1>2, <1>3, FaultIsCounted DEF IInv, TypeOK, database
  <2> QED
    BY <2>1, <1>1, <1>3, FailInv
<1> QED
  BY <1>1, <1>2, <1>3, StatementsInv

\* The row of v, and with it what its transaction holds.
LEMMA RowInv ==
    ASSUME IInv, NEW d \in Deployers, NEW s \in Schemas, NEW v \in Versions,
           task[d][s] = "record", Current(d, s, v),
           op[d].kind = "run" => record[s][v] = Absent,
           record' = [record EXCEPT ![s][v] = IF op[d].kind = "run"
                                              THEN Checksum(d, v) ELSE Absent],
           IF setting.transactional THEN Change(d, s, v) ELSE UNCHANGED <<effect, built>>,
           Proceed(d, s, v), UNCHANGED faults
    PROVE  IInv'
<1> DEFINE left == todo[d][s] \ {v}
           step == IF todo[d][s] = {v} THEN "count" ELSE "apply"
           row  == IF op[d].kind = "run" THEN Checksum(d, v) ELSE Absent
<1>t. TypeOK /\ TableTellsTheSchema /\ NoHoles /\ Position(d, s)
  BY DEF IInv
<1>c. /\ op[d].kind \in {"run", "rollback"}
      /\ op[d].kind = "rollback" => setting.rollbacks
  BY RunnersAreCalled
<1>v. Versions \subseteq Nat /\ todo[d][s] \subseteq Versions /\ v \in todo[d][s]
  BY <1>t, MigrationsAssumption DEF TypeOK, Current
<1>1. /\ todo' = [todo EXCEPT ![d][s] = left] /\ left \in SUBSET Versions
      /\ Goto(d, s, step) /\ (left # {} <=> step \in {"apply", "record"})
      /\ step \in {"count", "apply"}
      /\ UNCHANGED <<setting, op, rest, entries, calls>>
  BY <1>v, <1>t DEF Proceed, TypeOK
<1>2. row \in 0..2 /\ (op[d].kind = "run" => row \in 1..2 /\ row # Absent)
  BY DEF Checksum, Absent
<1>r. record' = [record EXCEPT ![s][v] = row]
  OBVIOUS
<1>o. /\ op[d].kind = "run" => row = Checksum(d, v)
      /\ op[d].kind = "rollback" => row = Absent
  OBVIOUS
<1> HIDE DEF left, step, row
<1>3. Moves(d, s, step)
  <2>1. step \in Tasks \ {"off", "rejected"} /\ task[d][s] \notin {"off", "rejected"}
    BY <1>1 DEF Tasks
  <2> QED
    BY <2>1, <1>1, MovesOn
<1>4. /\ record' \in [Schemas -> [Versions -> 0..2]] /\ record'[s][v] = row
      /\ \A r \in Schemas, w \in Versions : r # s \/ w # v => record'[r][w] = record[r][w]
      /\ \A r \in Schemas \ {s} : record'[r] = record[r]
  BY <1>r, <1>2, <1>t DEF TypeOK
<1>5. task'[d][s] = step /\ todo'[d][s] = left
  BY <1>1, <1>t DEF TypeOK, Goto
<1>6. /\ effect' \in [Schemas -> [Versions -> Nat]] /\ built' \in [Schemas -> [Versions -> 0..2]]
      /\ \A r \in Schemas, w \in Versions :
            r # s \/ w # v => effect'[r][w] = effect[r][w] /\ built'[r][w] = built[r][w]
      /\ \A r \in Schemas \ {s} : effect'[r] = effect[r]
  BY <1>t, ChangeEffect DEF TypeOK
<1>7. setting.transactional =>
          IF op[d].kind = "run"
          THEN effect'[s][v] = effect[s][v] + 1 /\ built'[s][v] = Checksum(d, v)
          ELSE effect'[s][v] = IF effect[s][v] = 0 THEN 0 ELSE effect[s][v] - 1
  BY ChangeEffect
<1>8. ~setting.transactional => effect' = effect
  OBVIOUS
<1>n. \A r \in Schemas, w \in Versions : effect[r][w] \in Nat
  BY <1>t DEF TypeOK
<1>9. Writes(d, s)
  <2>1. ASSUME op[d].kind = "run", NEW w \in Versions
        PROVE  /\ record[s][w] # Absent => record'[s][w] = record[s][w]
               /\ effect'[s][w] >= effect[s][w]
    <3>1. record[s][w] # Absent => record'[s][w] = record[s][w]
      BY <2>1, <1>4
    <3>2. CASE w = v
      BY <3>2, <2>1, <1>7, <1>8, <1>n
    <3>3. CASE w # v
      BY <3>3, <1>6, <1>n
    <3> QED
      BY <3>1, <3>2, <3>3
  <2> QED
    BY <2>1, <1>4, <1>6 DEF Writes
<1>10. TableTellsTheSchema'
  <2>1. ASSUME NEW r \in Schemas, NEW w \in Versions, setting.transactional
        PROVE  IF record'[r][w] = Absent
               THEN effect'[r][w] = 0
               ELSE effect'[r][w] = 1 /\ built'[r][w] = record'[r][w]
    <3>1. IF record[r][w] = Absent
          THEN effect[r][w] = 0
          ELSE effect[r][w] = 1 /\ built[r][w] = record[r][w]
      BY <2>1, <1>t DEF TableTellsTheSchema
    <3>2. CASE r # s \/ w # v
      BY <3>1, <3>2, <1>4, <1>6
    <3>3. CASE r = s /\ w = v /\ op[d].kind = "run"
      BY <3>1, <3>3, <2>1, <1>2, <1>4, <1>7, <1>o
    <3>4. CASE r = s /\ w = v /\ op[d].kind = "rollback"
      BY <3>1, <3>4, <2>1, <1>4, <1>7, <1>o
    <3> QED
      BY <3>2, <3>3, <3>4, <1>c
  <2>2. ASSUME NEW r \in Schemas, NEW w \in Versions, ~setting.transactional,
               ~setting.rollbacks, record'[r][w] # Absent
        PROVE  effect'[r][w] > 0
    <3>1. op[d].kind = "run" /\ effect' = effect
      BY <2>2, <1>c, <1>8
    <3>2. CASE r = s /\ w = v
      BY <3>1, <3>2, <2>2, <1>t DEF Position, Applied
    <3>3. CASE r # s \/ w # v
      BY <3>1, <3>3, <2>2, <1>4, <1>t DEF TableTellsTheSchema
    <3> QED
      BY <3>2, <3>3
  <2> QED
    BY <2>1, <2>2, <1>1 DEF TableTellsTheSchema
<1>11. NoHoles'
  <2>1. ASSUME NEW r \in Schemas, NEW u \in Versions, NEW w \in Versions,
               w < u, record'[r][u] # Absent
        PROVE  record'[r][w] # Absent
    <3>1. CASE r # s
      BY <3>1, <2>1, <1>4, <1>t DEF NoHoles
    <3>2. CASE r = s /\ op[d].kind = "run"
      <4>1. CASE u = v
        <5>1. w \notin todo[d][s]
          BY <4>1, <3>2, <2>1, <1>v DEF Current
        <5>2. record[s][w] = Checksum(d, w)
          BY <5>1, <3>2, <1>t DEF Position, Behind
        <5>3. w # v
          BY <4>1, <2>1, <1>v
        <5> QED
          BY <5>2, <5>3, <3>2, <1>4 DEF Checksum, Absent
      <4>2. CASE u # v
        <5>1. record[s][u] # Absent
          BY <4>2, <3>2, <2>1, <1>4
        <5>2. record[s][w] # Absent
          BY <5>1, <2>1, <1>t DEF NoHoles
        <5> QED
          BY <5>2, <3>2, <1>4
      <4> QED
        BY <4>1, <4>2
    <3>3. CASE r = s /\ op[d].kind = "rollback"
      <4>1. u # v /\ record[s][u] # Absent
        BY <3>3, <2>1, <1>4, <1>o
      <4>2. record[s][w] # Absent
        BY <4>1, <2>1, <1>t DEF NoHoles
      <4>3. CASE w = v
        <5>1. u \in Recorded(s)
          BY <4>1 DEF Recorded
        <5>2. u \notin todo[d][s]
          BY <4>3, <3>3, <2>1, <1>v DEF Current
        <5>3. u < v
          BY <5>1, <5>2, <3>3, <1>v, <1>t DEF Position, Topmost
        <5> QED
          BY <5>3, <4>3, <2>1, <1>v
      <4>4. CASE w # v
        BY <4>2, <4>4, <3>3, <1>4
      <4> QED
        BY <4>3, <4>4
    <3> QED
      BY <3>1, <3>2, <3>3, <1>c
  <2> QED
    BY <2>1 DEF NoHoles
<1>12. Position(d, s)'
  <2>1. Behind(d, s)'
    <3>1. ASSUME op[d].kind = "run", NEW w \in Versions \ left
          PROVE  record'[s][w] = Checksum(d, w)
      <4>1. CASE w = v
        BY <4>1, <3>1, <1>4, <1>o
      <4>2. CASE w # v
        BY <4>2, <3>1, <1>4, <1>t DEF Position, Behind, left
      <4> QED
        BY <4>1, <4>2
    <3> QED
      BY <3>1, <1>5, <1>1 DEF Behind, Checksum
  <2>2. Applied(d, s)'
    BY <1>5, <1>1 DEF Applied
  <2>3. Topmost(d, s)'
    <3>1. ASSUME op[d].kind = "rollback"
          PROVE  Recorded(s)' = Recorded(s) \ {v} /\ Recorded(s)' \ left = Recorded(s) \ todo[d][s]
      BY <3>1, <1>4, <1>o, <1>v DEF Recorded, left
    <3>2. op[d].kind = "rollback" =>
              /\ todo[d][s] \subseteq Recorded(s)
              /\ \A x \in todo[d][s], w \in Recorded(s) \ todo[d][s] : w < x
      BY <1>t DEF Position, Topmost
    <3>3. left \subseteq todo[d][s] /\ v \notin left
      BY DEF left
    <3> QED
      BY <3>1, <3>2, <3>3, <1>5, <1>1 DEF Topmost
  <2> QED
    BY <2>1, <2>2, <2>3 DEF Position
<1> QED
  BY <1>3, <1>9, <1>10, <1>11, <1>12, RunnerKeepsIInv

LEMMA RecordInv ==
    ASSUME IInv, NEW d \in Deployers, NEW s \in Schemas, Record(d, s)
    PROVE  IInv'
<1>1. task[d][s] = "record" /\ task[d][s] \notin {"off"} \cup Settled
  BY DEF Record, Settled
<1>2. PICK v \in Versions :
          /\ Current(d, s, v)
          /\ \/ /\ op[d].kind = "run" => record[s][v] = Absent
                /\ record' = [record EXCEPT ![s][v] = IF op[d].kind = "run"
                                                      THEN Checksum(d, v) ELSE Absent]
                /\ IF setting.transactional
                   THEN Change(d, s, v) ELSE UNCHANGED <<effect, built>>
                /\ Proceed(d, s, v)
                /\ UNCHANGED faults
             \/ Fail(d, s) /\ UNCHANGED database /\ (UNCHANGED faults \/ Fault)
  BY DEF Record
<1>3. CASE Fail(d, s) /\ UNCHANGED database /\ (UNCHANGED faults \/ Fault)
  <2>1. faults' \in Nat
    BY <1>3, FaultIsCounted DEF IInv, TypeOK
  <2> QED
    BY <2>1, <1>1, <1>3, FailInv
<1> QED
  BY <1>1, <1>2, <1>3, RowInv

-----------------------------------------------------------------------------
(* The steps of a call *)

\* d's call, what is left to start, its runners and its results become these.
Becomes(d, call, chunks, tasks, work, results) ==
    /\ op' = [op EXCEPT ![d] = call]
    /\ rest' = [rest EXCEPT ![d] = chunks]
    /\ task' = [task EXCEPT ![d] = tasks]
    /\ todo' = [todo EXCEPT ![d] = work]
    /\ entries' = [entries EXCEPT ![d] = results]
    /\ UNCHANGED <<setting, database>> /\ calls' \in Nat /\ faults' \in Nat

\* No step of a call moves a runner into a position it must be told of: those
\* it starts, or ends, are at none.
LEMMA CallKeepsIInv ==
    ASSUME IInv, NEW d \in Deployers,
           NEW call \in Calls, NEW chunks \in SUBSET Schemas,
           NEW tasks \in [Schemas -> Tasks], NEW work \in [Schemas -> SUBSET Versions],
           NEW results \in [Schemas -> Nat],
           Becomes(d, call, chunks, tasks, work, results),
           \A s \in Schemas :
               /\ tasks[s] \notin {"apply", "record", "count", "completed"} /\ work[s] = {}
               /\ s \in chunks => tasks[s] = "off"
               /\ call # Idle => results[s] = IF s \in chunks \/ tasks[s] \notin {"off", "rejected"}
                                              THEN 0 ELSE 1,
           call.kind = "none" =>
               /\ call = Idle /\ chunks = {}
               /\ \A s \in Schemas : tasks[s] = "off" /\ results[s] = 0,
           \A e \in Deployers : Alone(e)'
    PROVE  IInv'
<1>t. TypeOK /\ TableTellsTheSchema /\ NoHoles
  BY DEF IInv
<1>1. /\ op' = [op EXCEPT ![d] = call] /\ rest' = [rest EXCEPT ![d] = chunks]
      /\ task' = [task EXCEPT ![d] = tasks] /\ todo' = [todo EXCEPT ![d] = work]
      /\ entries' = [entries EXCEPT ![d] = results]
      /\ setting' = setting /\ record' = record /\ effect' = effect /\ built' = built
      /\ calls' \in Nat /\ faults' \in Nat
  BY DEF Becomes, database
<1>2. /\ op' \in [Deployers -> Calls] /\ rest' \in [Deployers -> SUBSET Schemas]
      /\ task' \in [Deployers -> [Schemas -> Tasks]]
      /\ todo' \in [Deployers -> [Schemas -> SUBSET Versions]]
      /\ entries' \in [Deployers -> [Schemas -> Nat]]
  BY <1>1, <1>t DEF TypeOK
<1>3. /\ op'[d] = call /\ rest'[d] = chunks /\ task'[d] = tasks /\ todo'[d] = work
      /\ entries'[d] = results
  BY <1>1, <1>t DEF TypeOK
<1>4. ASSUME NEW e \in Deployers \ {d}
      PROVE  /\ op'[e] = op[e] /\ rest'[e] = rest[e] /\ task'[e] = task[e]
             /\ todo'[e] = todo[e] /\ entries'[e] = entries[e]
  BY <1>1, <1>t DEF TypeOK
<1>5. TypeOK'
  <2>1. \A e \in Deployers, s \in Schemas :
            (todo'[e][s] # {}) <=> task'[e][s] \in {"apply", "record"}
    <3>1. \A s \in Schemas : (todo'[d][s] # {}) <=> task'[d][s] \in {"apply", "record"}
      BY <1>3
    <3>2. \A e \in Deployers \ {d}, s \in Schemas :
              (todo'[e][s] # {}) <=> task'[e][s] \in {"apply", "record"}
      BY <1>4, <1>t DEF TypeOK
    <3> QED
      BY <3>1, <3>2
  <2> QED
    BY <2>1, <1>1, <1>2, <1>t DEF TypeOK
<1>6. TableTellsTheSchema' /\ NoHoles'
  BY <1>1, <1>t DEF TableTellsTheSchema, NoHoles
<1>7. ASSUME NEW e \in Deployers PROVE Resting(e)'
  <2>1. CASE e = d
    BY <2>1, <1>3 DEF Resting
  <2>2. CASE e # d
    BY <2>2, <1>4 DEF IInv, Resting
  <2> QED
    BY <2>1, <2>2
<1>8. ASSUME NEW e \in Deployers, NEW s \in Schemas PROVE Counted(e, s)' /\ Position(e, s)'
  <2>1. CASE e = d
    BY <2>1, <1>3 DEF Counted, Position, Behind, Applied, Topmost
  <2>2. CASE e # d
    BY <2>2, <1>1, <1>4
    DEF IInv, Counted, Position, Behind, Applied, Topmost, Current, Recorded, Checksum
  <2> QED
    BY <2>1, <2>2
<1> QED
  BY <1>5, <1>6, <1>7, <1>8 DEF IInv

\* What d has is what it becomes when it stays.
LEMMA Stays ==
    ASSUME IInv, NEW d \in Deployers
    PROVE  /\ op = [op EXCEPT ![d] = op[d]] /\ op[d] \in Calls
           /\ rest = [rest EXCEPT ![d] = rest[d]] /\ rest[d] \in SUBSET Schemas
           /\ task = [task EXCEPT ![d] = task[d]] /\ task[d] \in [Schemas -> Tasks]
           /\ todo = [todo EXCEPT ![d] = todo[d]] /\ todo[d] \in [Schemas -> SUBSET Versions]
           /\ entries = [entries EXCEPT ![d] = entries[d]] /\ entries[d] \in [Schemas -> Nat]
           /\ calls \in Nat /\ faults \in Nat
           /\ \A s \in Schemas : (todo[d][s] # {}) <=> task[d][s] \in {"apply", "record"}
  BY DEF IInv, TypeOK

\* Who stops, or goes on as it was, leaves every rollback alone.
LEMMA StillAlone ==
    ASSUME IInv, NEW d \in Deployers, NEW call \in {Idle, op[d]},
           op' = [op EXCEPT ![d] = call], UNCHANGED setting
    PROVE  \A e \in Deployers : Alone(e)'
<1>1. ASSUME NEW e \in Deployers PROVE op'[e] = op[e] \/ op'[e] = Idle
  BY DEF IInv, TypeOK
<1>2. Idle.kind # "rollback"
  BY DEF Idle
<1>3. \A e \in Deployers : Alone(e)
  BY DEF IInv
<1> QED
  BY <1>1, <1>2, <1>3 DEF Alone

LEMMA CallInv ==
    ASSUME IInv, NEW d \in Deployers, Call(d)
    PROVE  IInv'
<1>1. PICK call \in Calls :
          /\ op' = [op EXCEPT ![d] = call]
          /\ \/ call.kind = "run" /\ \A e \in Deployers : op[e].kind # "rollback"
             \/ /\ call.kind = "rollback" /\ setting.rollbacks
                /\ \A e \in Deployers : op[e] = Idle
  <2>1. CASE /\ \A e \in Deployers : op[e].kind # "rollback"
             /\ op' = [op EXCEPT ![d] = [kind |-> "run", steps |-> 0]]
    <3>1. [kind |-> "run", steps |-> 0] \in Calls
      BY DEF Calls
    <3> QED
      BY <2>1, <3>1
  <2>2. CASE /\ setting.rollbacks /\ \A e \in Deployers : op[e] = Idle
             /\ \E steps \in 0..Cardinality(Versions) :
                    op' = [op EXCEPT ![d] = [kind |-> "rollback", steps |-> steps]]
    <3>1. PICK steps \in 0..Cardinality(Versions) :
              op' = [op EXCEPT ![d] = [kind |-> "rollback", steps |-> steps]]
      BY <2>2
    <3>2. [kind |-> "rollback", steps |-> steps] \in Calls
      BY DEF Calls
    <3> QED
      BY <2>2, <3>1, <3>2
  <2> QED
    BY <2>1, <2>2 DEF Call
<1>2. op[d] = Idle /\ op[d].kind = "none"
  BY DEF Call, Idle
<1>3. \A s \in Schemas : task[d][s] = "off" /\ entries[d][s] = 0
  BY <1>2 DEF IInv, Resting
<1>4. Becomes(d, call, Schemas, task[d], todo[d], entries[d])
  BY <1>1, Stays DEF Call, Becomes
<1>5. \A e \in Deployers : Alone(e)'
  <2>1. \A e \in Deployers \ {d} : op'[e] = op[e]
    BY <1>1, Stays DEF IInv, TypeOK
  <2>2. op'[d] = call /\ setting' = setting
    BY <1>1 DEF IInv, TypeOK, Call
  <2>3. Alone(d)'
    BY <2>1, <2>2, <1>1 DEF Alone
  <2>4. ASSUME NEW e \in Deployers \ {d} PROVE op'[e].kind # "rollback"
    BY <2>1, <1>1 DEF Idle
  <2> QED
    BY <2>3, <2>4 DEF Alone
<1>6. \A s \in Schemas : todo[d][s] = {}
  BY <1>3, Stays
<1>7. call.kind # "none" /\ Schemas \in SUBSET Schemas
  BY <1>1
<1> QED
  BY <1>3, <1>4, <1>5, <1>6, <1>7, Stays, CallKeepsIInv

\* Who makes a call has an entry for each tenant that is done.
LEMMA EntriesOf ==
    ASSUME IInv, NEW d \in Deployers, op[d] # Idle
    PROVE  /\ op[d].kind # "none"
           /\ \A s \in Schemas :
                 /\ s \in rest[d] => task[d][s] = "off"
                 /\ entries[d][s] = IF s \in rest[d] \/ task[d][s] \notin {"off", "rejected"}
                                    THEN 0 ELSE 1
  BY DEF IInv, Resting, Counted

LEMMA StartChunkInv ==
    ASSUME IInv, NEW d \in Deployers, StartChunk(d)
    PROVE  IInv'
<1>1. PICK chunk \in SUBSET rest[d] :
          /\ rest' = [rest EXCEPT ![d] = rest[d] \ chunk]
          /\ task' = [task EXCEPT ![d] = [s \in Schemas |->
                                             IF s \in chunk THEN "initialize" ELSE "off"]]
  BY DEF StartChunk
<1> DEFINE tasks == [s \in Schemas |-> IF s \in chunk THEN "initialize" ELSE "off"]
<1>2. /\ op[d] # Idle /\ \A s \in Schemas : task[d][s] = "off"
      /\ UNCHANGED <<setting, database, op, todo, entries, calls, faults>>
  BY DEF StartChunk
<1>3. tasks \in [Schemas -> Tasks] /\ rest[d] \ chunk \in SUBSET Schemas
  BY Stays DEF Tasks
<1>4. Becomes(d, op[d], rest[d] \ chunk, tasks, todo[d], entries[d])
  BY <1>1, <1>2, Stays DEF Becomes
<1>5. \A s \in Schemas :
          /\ tasks[s] \notin {"apply", "record", "count", "completed"}
          /\ s \in rest[d] \ chunk => tasks[s] = "off"
  OBVIOUS
<1>6. \A s \in Schemas : todo[d][s] = {}
  BY <1>2, Stays
<1>7. \A s \in Schemas : entries[d][s] = IF s \in rest[d] THEN 0 ELSE 1
  BY <1>2, EntriesOf
<1>8. \A s \in Schemas :
          entries[d][s] = IF s \in rest[d] \ chunk \/ tasks[s] \notin {"off", "rejected"}
                          THEN 0 ELSE 1
  BY <1>7
<1>9. op[d].kind # "none"
  BY <1>2, EntriesOf
<1>10. \A e \in Deployers : Alone(e)'
  BY <1>2, Stays, StillAlone
<1> HIDE DEF tasks
<1> QED
  BY <1>3, <1>4, <1>5, <1>6, <1>8, <1>9, <1>10, Stays, CallKeepsIInv

LEMMA SettleInv ==
    ASSUME IInv, NEW d \in Deployers, Settle(d)
    PROVE  IInv'
<1> DEFINE tasks == [s \in Schemas |-> "off"]
           results == [s \in Schemas |-> IF task[d][s] \in {"completed", "failed"}
                                         THEN entries[d][s] + 1 ELSE entries[d][s]]
<1>1. /\ op[d] # Idle /\ \A s \in Schemas : task[d][s] \in {"off"} \cup Settled
      /\ task' = [task EXCEPT ![d] = tasks] /\ entries' = [entries EXCEPT ![d] = results]
      /\ UNCHANGED <<setting, database, op, rest, todo, calls, faults>>
  BY DEF Settle
<1>2. tasks \in [Schemas -> Tasks]
  BY DEF Tasks
<1>3. results \in [Schemas -> Nat]
  <2>1. \A s \in Schemas : entries[d][s] \in Nat
    BY Stays
  <2> QED
    BY <2>1
<1>4. Becomes(d, op[d], rest[d], tasks, todo[d], results)
  BY <1>1, Stays DEF Becomes
<1>5. \A s \in Schemas : todo[d][s] = {}
  BY <1>1, Stays DEF Settled
<1>6. op[d].kind # "none"
  BY <1>1, EntriesOf
<1>7. ASSUME NEW s \in Schemas
      PROVE  results[s] = IF s \in rest[d] \/ tasks[s] \notin {"off", "rejected"} THEN 0 ELSE 1
  <2>1. /\ s \in rest[d] => task[d][s] = "off"
        /\ entries[d][s] = IF s \in rest[d] \/ task[d][s] \notin {"off", "rejected"}
                           THEN 0 ELSE 1
    BY <1>1, EntriesOf
  <2>2. task[d][s] \in {"off", "completed", "failed", "rejected"}
    BY <1>1 DEF Settled
  <2> QED
    BY <2>1, <2>2
<1>8. \A e \in Deployers : Alone(e)'
  BY <1>1, Stays, StillAlone
<1>9. \A s \in Schemas : tasks[s] = "off"
  OBVIOUS
<1> HIDE DEF tasks, results
<1> QED
  BY <1>2, <1>3, <1>4, <1>5, <1>6, <1>7, <1>8, <1>9, Stays, CallKeepsIInv

LEMMA ReturnInv ==
    ASSUME IInv, NEW d \in Deployers, Return(d)
    PROVE  IInv'
<1> DEFINE results == [s \in Schemas |-> 0]
<1>1. /\ rest[d] = {} /\ \A s \in Schemas : task[d][s] = "off"
      /\ op' = [op EXCEPT ![d] = Idle] /\ entries' = [entries EXCEPT ![d] = results]
      /\ UNCHANGED <<setting, database, rest, task, todo, calls, faults>>
  BY DEF Return
<1>2. Idle \in Calls /\ results \in [Schemas -> Nat] /\ \A s \in Schemas : results[s] = 0
  BY DEF Idle, Calls
<1> HIDE DEF results
<1>3. Becomes(d, Idle, {}, task[d], todo[d], results)
  BY <1>1, Stays DEF Becomes
<1>4. \A s \in Schemas : todo[d][s] = {}
  BY <1>1, Stays
<1>5. \A e \in Deployers : Alone(e)'
  BY <1>1, StillAlone
<1>6. {} \in SUBSET Schemas
  OBVIOUS
<1> QED
  BY <1>1, <1>2, <1>3, <1>4, <1>5, <1>6, Stays, CallKeepsIInv

LEMMA CrashInv ==
    ASSUME IInv, NEW d \in Deployers, Crash(d)
    PROVE  IInv'
<1> DEFINE tasks == [s \in Schemas |-> "off"]
           work == [s \in Schemas |-> {}]
           results == [s \in Schemas |-> 0]
<1>1. /\ Fault
      /\ op' = [op EXCEPT ![d] = Idle] /\ rest' = [rest EXCEPT ![d] = {}]
      /\ task' = [task EXCEPT ![d] = tasks] /\ todo' = [todo EXCEPT ![d] = work]
      /\ entries' = [entries EXCEPT ![d] = results]
      /\ UNCHANGED <<setting, database, calls>>
  BY DEF Crash
<1>2. /\ Idle \in Calls /\ results \in [Schemas -> Nat]
      /\ tasks \in [Schemas -> Tasks] /\ work \in [Schemas -> SUBSET Versions]
  BY DEF Idle, Calls, Tasks
<1>3. \A s \in Schemas : tasks[s] = "off" /\ work[s] = {} /\ results[s] = 0
  OBVIOUS
<1> HIDE DEF tasks, work, results
<1>4. Becomes(d, Idle, {}, tasks, work, results)
  BY <1>1, FaultIsCounted, Stays DEF Becomes
<1>5. \A e \in Deployers : Alone(e)'
  BY <1>1, StillAlone
<1>6. {} \in SUBSET Schemas
  OBVIOUS
<1> QED
  BY <1>2, <1>3, <1>4, <1>5, <1>6, CallKeepsIInv

-----------------------------------------------------------------------------
(* The theorems *)

LEMMA InitIInv == Init => IInv
<1> SUFFICES ASSUME Init PROVE IInv
  OBVIOUS
<1>1. \A s \in Schemas, v \in Versions :
          record[s][v] = Absent /\ effect[s][v] = 0 /\ built[s][v] = Absent
  BY DEF Init
<1>2. TypeOK
  BY DEF Init, TypeOK, Idle, Calls, Tasks, Absent
<1>3. TableTellsTheSchema /\ NoHoles
  BY <1>1 DEF TableTellsTheSchema, NoHoles
<1>4. ASSUME NEW d \in Deployers PROVE Resting(d) /\ Alone(d)
  BY DEF Init, Resting, Alone, Idle
<1>5. ASSUME NEW d \in Deployers, NEW s \in Schemas PROVE Counted(d, s) /\ Position(d, s)
  BY DEF Init, Counted, Position, Behind, Applied, Topmost, Idle
<1> QED
  BY <1>2, <1>3, <1>4, <1>5 DEF IInv

LEMMA NextIInv == IInv /\ [Next]_vars => IInv'
<1> SUFFICES ASSUME IInv, [Next]_vars PROVE IInv'
  OBVIOUS
<1>1. ASSUME NEW d \in Deployers,
             Call(d) \/ StartChunk(d) \/ Settle(d) \/ Return(d) \/ Crash(d)
      PROVE  IInv'
  BY <1>1, CallInv, StartChunkInv, SettleInv, ReturnInv, CrashInv
<1>2. ASSUME NEW d \in Deployers, NEW s \in Schemas, Runner(d, s) PROVE IInv'
  BY <1>2, InitializeInv, ReadAppliedInv, RunStatementsInv, RecordInv, CountInv DEF Runner
<1>3. CASE UNCHANGED vars
  BY <1>3 DEF vars, database, IInv, TypeOK, TableTellsTheSchema, NoHoles, Resting, Alone, Counted,
     Position, Behind, Applied, Topmost, Current, Recorded, Checksum
<1> QED
  BY <1>1, <1>2, <1>3 DEF Next

\* Where every deployment is, and what that says of the tables, whoever migrates
\* beside it, fails or crashes: the inductive invariant.
THEOREM Invariance == Spec => []IInv
  BY InitIInv, NextIInv, PTL DEF Spec

\* The variables keep their types, and a runner has work left exactly while it is
\* between reading the table and its last record.
THEOREM TypeCorrect == Spec => []TypeOK
<1>1. IInv => TypeOK
  BY DEF IInv
<1> QED
  BY <1>1, Invariance, PTL

\* What every schema and its migration table look like at any moment: with
\* transactional DDL a version is recorded exactly if it is in effect, once and as
\* recorded; without, none is recorded that was not applied; and no version is
\* recorded over a hole.
THEOREM SchemasStayInOrder == Spec => []SchemasInOrder
<1>1. IInv => SchemasInOrder
  BY DEF IInv, SchemasInOrder
<1> QED
  BY <1>1, Invariance, PTL

\* A tenant reported as completed has every migration as its caller has it, and
\* every tenant of a call is reported once.
THEOREM ReportsStayTrue == Spec => []ReportsAreTrue
<1>1. ASSUME IInv, NEW d \in Deployers, NEW s \in Schemas,
             op[d].kind = "run", task[d][s] = "completed", NEW v \in Versions
      PROVE  record[s][v] = Checksum(d, v)
  <2>1. todo[d][s] = {}
    BY <1>1 DEF IInv, TypeOK
  <2> QED
    BY <1>1, <2>1 DEF IInv, Position, Behind
<1>2. IInv => EveryTenantReported
  BY DEF IInv, Counted, EveryTenantReported
<1>3. IInv => ReportsAreTrue
  BY <1>1, <1>2 DEF ReportsAreTrue, CompletedMeansMigrated
<1> QED
  BY <1>3, Invariance, PTL
-----------------------------------------------------------------------------
(***************************************************************************)
(* Trees.  IsForest says that a way, Line, leads to a node from a root;    *)
(* there is one at most, so Chain, which looks for it in as many steps as  *)
(* there are nodes, finds it.  Each step of the tree is a lemma on ways:   *)
(* Cut, Graft, Fell and a leaf planted; then one on the rows and on the    *)
(* paths, which are a function of the ways.                                *)
(***************************************************************************)

\* The way from the root down to n.
Line(p, n, c) ==
    /\ c \in Seq(Nodes) /\ Len(c) > 0 /\ c[Len(c)] = n
    /\ p[c[1]] = NoNode
    /\ \A i \in 1..Len(c) : i > 1 => p[c[i]] = c[i - 1]

IsForest(p, S) ==
    /\ S \subseteq Nodes /\ p \in [Nodes -> S \cup {NoNode}]
    /\ \A n \in Nodes \ S : p[n] = NoNode
    /\ \A n \in S : \E c \in Seq(Nodes) : Line(p, n, c)

LEMMA SmallestNumber ==
    ASSUME NEW P \in SUBSET Nat, P # {}
    PROVE  \E m \in P : \A i \in P : m <= i
<1>. DEFINE Below == {p \in Nat \X Nat : p[1] < p[2]}
<1>1. IsWellFoundedOn(Below, Nat)  BY NatLessThanWellFounded DEF OpToRel
<1>. HIDE DEF Below
<1>2. PICK m \in P : \A i \in P : <<i, m>> \notin Below  BY <1>1, WFMin
<1>3. ASSUME NEW i \in P PROVE m <= i
  <2>1. <<i, m>> \notin Below /\ i \in Nat /\ m \in Nat  BY <1>2
  <2>. QED  BY <2>1 DEF Below
<1>. QED  BY <1>3

LEMMA LineHas ==
    ASSUME NEW p, NEW n, NEW c, Line(p, n, c)
    PROVE  /\ Len(c) \in Nat /\ Len(c) > 0 /\ 1 \in 1..Len(c) /\ Len(c) \in 1..Len(c)
           /\ \A i \in 1..Len(c) : c[i] \in Nodes /\ c[i] # NoNode
           /\ n \in Nodes /\ n # NoNode
<1>1. c \in Seq(Nodes) /\ Len(c) > 0 /\ c[Len(c)] = n  BY DEF Line
<1>2. Len(c) \in Nat  BY <1>1
<1>3. \A i \in 1..Len(c) : c[i] \in Nodes  BY <1>1
<1>. QED  BY <1>1, <1>2, <1>3, TreesAssumption

\* Two ways to one node go up alike, and one is not longer than the other.
LEMMA UpAlike ==
    ASSUME NEW p, NEW n, NEW c, NEW d, Line(p, n, c), Line(p, n, d)
    PROVE  /\ \A j \in Nat : j < Len(c) /\ j < Len(d) => c[Len(c) - j] = d[Len(d) - j]
           /\ Len(d) <= Len(c)
<1>1. /\ Len(c) \in Nat /\ Len(c) > 0 /\ Len(d) \in Nat /\ Len(d) > 0
      /\ \A i \in 1..Len(d) : d[i] \in Nodes /\ d[i] # NoNode
  BY LineHas
<1>2. /\ c[Len(c)] = n /\ d[Len(d)] = n /\ p[c[1]] = NoNode
      /\ \A i \in 1..Len(c) : i > 1 => p[c[i]] = c[i - 1]
      /\ \A i \in 1..Len(d) : i > 1 => p[d[i]] = d[i - 1]
  BY DEF Line
<1>3. \A j \in Nat : j < Len(c) /\ j < Len(d) => c[Len(c) - j] = d[Len(d) - j]
  <2>. DEFINE Bad == {j \in Nat : j < Len(c) /\ j < Len(d) /\ c[Len(c) - j] # d[Len(d) - j]}
  <2>. SUFFICES ASSUME Bad # {} PROVE FALSE  OBVIOUS
  <2>1. PICK j \in Bad : \A i \in Bad : j <= i
    <3>1. Bad \in SUBSET Nat  OBVIOUS
    <3>. QED  BY <3>1, SmallestNumber
  <2>2. j # 0  BY <1>1, <1>2, <2>1
  <2>3. j - 1 \in Nat /\ j - 1 \notin Bad  BY <2>1, <2>2
  <2>4. c[Len(c) - (j - 1)] = d[Len(d) - (j - 1)]  BY <1>1, <2>1, <2>3
  <2>5. /\ Len(c) - (j - 1) \in 1..Len(c) /\ Len(c) - (j - 1) > 1 /\ (Len(c) - (j - 1)) - 1 = Len(c) - j
        /\ Len(d) - (j - 1) \in 1..Len(d) /\ Len(d) - (j - 1) > 1 /\ (Len(d) - (j - 1)) - 1 = Len(d) - j
    BY <1>1, <2>1, <2>2
  <2>. QED  BY <1>2, <2>1, <2>4, <2>5
<1>4. ASSUME Len(c) < Len(d) PROVE FALSE
  <2>6. PICK k : k = Len(d) - Len(c) + 1  OBVIOUS
  <2>1. k = Len(d) - Len(c) + 1 /\ k \in 1..Len(d) /\ k > 1 /\ k - 1 \in 1..Len(d)  BY <1>1, <1>4, <2>6
  <2>2. Len(c) - 1 \in Nat /\ Len(c) - 1 < Len(c) /\ Len(c) - 1 < Len(d)  BY <1>1, <1>4
  <2>3. Len(c) - (Len(c) - 1) = 1 /\ Len(d) - (Len(c) - 1) = k  BY <1>1, <2>1
  <2>4. c[1] = d[k]  BY <1>3, <2>2, <2>3
  <2>5. p[d[k]] = d[k - 1]  BY <1>2, <2>1
  <2>. QED  BY <1>1, <1>2, <2>1, <2>4, <2>5
<1>. QED  BY <1>1, <1>3, <1>4

LEMMA OneLine ==
    ASSUME NEW p, NEW n, NEW c, NEW d, Line(p, n, c), Line(p, n, d)
    PROVE  c = d
<1>1. Len(c) \in Nat /\ Len(d) \in Nat /\ c \in Seq(Nodes) /\ d \in Seq(Nodes)  BY LineHas DEF Line
<1>2. Len(d) <= Len(c) /\ Len(c) <= Len(d)  BY UpAlike
<1>3. Len(c) = Len(d)  BY <1>1, <1>2
<1>4. ASSUME NEW i \in 1..Len(c) PROVE c[i] = d[i]
  <2>3. PICK j : j = Len(c) - i  OBVIOUS
  <2>1. j \in Nat /\ j < Len(c) /\ Len(c) - j = i  BY <1>1, <2>3
  <2>2. c[Len(c) - j] = d[Len(d) - j]  BY <1>3, <2>1, UpAlike
  <2>. QED  BY <1>3, <2>1, <2>2
<1>. QED  BY <1>1, <1>3, <1>4

LEMMA PrefixIs ==
    ASSUME NEW c \in Seq(Nodes), NEW i \in 1..Len(c)
    PROVE  /\ SubSeq(c, 1, i) \in Seq(Nodes) /\ Len(SubSeq(c, 1, i)) = i
           /\ \A j \in 1..i : SubSeq(c, 1, i)[j] = c[j]
OBVIOUS

LEMMA RestIs ==
    ASSUME NEW c \in Seq(Nodes), NEW i \in 1..Len(c)
    PROVE  /\ SubSeq(c, i, Len(c)) \in Seq(Nodes) /\ Len(SubSeq(c, i, Len(c))) = Len(c) - i + 1
           /\ \A j \in 1..(Len(c) - i + 1) : SubSeq(c, i, Len(c))[j] = c[i + j - 1]
OBVIOUS

\* The way to a node on the way.
LEMMA PrefixLine ==
    ASSUME NEW p, NEW n, NEW c, Line(p, n, c), NEW i \in 1..Len(c)
    PROVE  Line(p, c[i], SubSeq(c, 1, i))
<1>1. c \in Seq(Nodes) /\ Len(c) \in Nat  BY LineHas DEF Line
<1>2. PICK d : d = SubSeq(c, 1, i)  OBVIOUS
<1>3. d \in Seq(Nodes) /\ Len(d) = i /\ \A j \in 1..i : d[j] = c[j]  BY <1>1, <1>2, PrefixIs
<1>4. p[c[1]] = NoNode /\ \A j \in 1..Len(c) : j > 1 => p[c[j]] = c[j - 1]  BY DEF Line
<1>5. \A j \in 1..i : j \in 1..Len(c) /\ (j > 1 => j - 1 \in 1..i)  BY <1>1
<1>6. \A j \in 1..Len(d) : j > 1 => p[d[j]] = d[j - 1]  BY <1>3, <1>4, <1>5
<1>7. Len(d) > 0 /\ d[Len(d)] = c[i] /\ d[1] = c[1]  BY <1>1, <1>3
<1>. QED  BY <1>2, <1>3, <1>4, <1>6, <1>7 DEF Line

LEMMA NoneTwice ==
    ASSUME NEW p, NEW n, NEW c, Line(p, n, c), NEW i \in 1..Len(c), NEW j \in 1..Len(c), c[i] = c[j]
    PROVE  i = j
<1>1. SubSeq(c, 1, i) = SubSeq(c, 1, j)
  <2>1. Line(p, c[i], SubSeq(c, 1, i)) /\ Line(p, c[i], SubSeq(c, 1, j))  BY PrefixLine
  <2>. QED  BY <2>1, OneLine
<1>2. c \in Seq(Nodes)  BY DEF Line
<1>3. Len(SubSeq(c, 1, i)) = i /\ Len(SubSeq(c, 1, j)) = j  BY <1>2, PrefixIs
<1>. QED  BY <1>1, <1>3

LEMMA LineWithin ==
    ASSUME NEW p, NEW S, IsForest(p, S), NEW n \in S, NEW c, Line(p, n, c)
    PROVE  /\ \A i \in 1..Len(c) : c[i] \in S
           /\ Len(c) <= Cardinality(S) /\ Cardinality(S) <= Cardinality(Nodes)
<1>1. /\ Len(c) \in Nat /\ c \in Seq(Nodes) /\ c[Len(c)] = n
      /\ \A i \in 1..Len(c) : c[i] \in Nodes /\ c[i] # NoNode
      /\ \A i \in 1..Len(c) : i > 1 => p[c[i]] = c[i - 1]
  BY LineHas DEF Line
<1>2. p \in [Nodes -> S \cup {NoNode}] /\ S \subseteq Nodes  BY DEF IsForest
<1>3. ASSUME NEW i \in 1..Len(c) PROVE c[i] \in S
  <2>1. CASE i = Len(c)  BY <1>1, <2>1
  <2>2. CASE i # Len(c)
    <3>1. i + 1 \in 1..Len(c) /\ i + 1 > 1 /\ (i + 1) - 1 = i  BY <1>1, <2>2
    <3>2. p[c[i + 1]] = c[i] /\ c[i + 1] \in Nodes  BY <1>1, <3>1
    <3>. QED  BY <1>1, <1>2, <3>2
  <2>. QED  BY <2>1, <2>2
<1>4. IsFiniteSet(Nodes) /\ IsFiniteSet(S) /\ Cardinality(S) <= Cardinality(Nodes)  BY <1>2, TreesAssumption, FS_Subset
<1>5. c \in Injection(1..Len(c), S)
  <2>1. c \in [1..Len(c) -> S]  BY <1>1, <1>3
  <2>2. \A i, j \in 1..Len(c) : c[i] = c[j] => i = j  BY NoneTwice
  <2>. QED  BY <2>1, <2>2 DEF Injection, IsInjective
<1>6. Cardinality(1..Len(c)) <= Cardinality(S)  BY <1>4, <1>5, FS_Injection
<1>7. Cardinality(1..Len(c)) = Len(c)
  <2>1. 1 \in Int /\ Len(c) \in Int /\ ~(1 > Len(c)) /\ Len(c) - 1 + 1 = Len(c)  BY <1>1, LineHas
  <2>. QED  BY <2>1, FS_Interval
<1>. QED  BY <1>3, <1>4, <1>6, <1>7

-----------------------------------------------------------------------------
(* Chain follows the way *)

\* How the recursion of Chain goes on.
Higher(p, s) == IF p[Head(s)] = NoNode THEN s ELSE <<p[Head(s)]>> \o s

Climb(p, n, N, g) == g = [k \in 0..N |-> IF k = 0 THEN <<n>> ELSE Higher(p, g[k - 1])]

LEMMA ChainClimbs ==
    ASSUME NEW p, NEW n, NEW N, N = Cardinality(Nodes), NEW f, Climb(p, n, N, f)
    PROVE  Chain(p, n) = f[N]
<1>1. N \in Nat  BY TreesAssumption, FS_CardinalityType
<1>. DEFINE up == CHOOSE g : g = [k \in 0..N |-> IF k = 0 THEN <<n>>
                                               ELSE IF p[Head(g[k - 1])] = NoNode THEN g[k - 1]
                                               ELSE <<p[Head(g[k - 1])]>> \o g[k - 1]]
<1>2. Chain(p, n) = up[N]  BY DEF Chain
<1>3. Climb(p, n, N, up)  BY DEF Climb, Higher
<1>. HIDE DEF up
<1>4. ASSUME NEW k \in 0..N, up[k] # f[k] PROVE FALSE
  <2>. DEFINE Bad == {m \in 0..N : up[m] # f[m]}
  <2>1. PICK m \in Bad : \A i \in Bad : m <= i
    <3>1. Bad \in SUBSET Nat /\ Bad # {}  BY <1>1, <1>4
    <3>. QED  BY <3>1, SmallestNumber
  <2>2. m # 0  BY <1>1, <1>3, <2>1 DEF Climb
  <2>3. m - 1 \in 0..N /\ m - 1 \notin Bad  BY <1>1, <2>1, <2>2
  <2>4. up[m] = Higher(p, up[m - 1]) /\ f[m] = Higher(p, f[m - 1])  BY <1>3, <2>1, <2>2 DEF Climb
  <2>. QED  BY <2>1, <2>3, <2>4
<1>5. N \in 0..N  BY <1>1
<1>. QED  BY <1>2, <1>4, <1>5

LEMMA ChainIs ==
    ASSUME NEW p, NEW n, NEW c, Line(p, n, c), Len(c) <= Cardinality(Nodes)
    PROVE  Chain(p, n) = c
<1>1. PICK N \in Nat : N = Cardinality(Nodes)  BY TreesAssumption, FS_CardinalityType
<1>2. PICK L \in Nat : L = Len(c) /\ L > 0 /\ L <= N  BY <1>1, LineHas
<1>3. /\ c \in Seq(Nodes) /\ c[L] = n /\ p[c[1]] = NoNode
      /\ \A i \in 1..L : c[i] \in Nodes /\ c[i] # NoNode
      /\ \A i \in 1..L : i > 1 => p[c[i]] = c[i - 1]
  BY <1>2, LineHas DEF Line
<1>4. PICK f : f = [k \in 0..N |-> IF k < L THEN SubSeq(c, L - k, L) ELSE c]  OBVIOUS
<1>5. ASSUME NEW k \in 0..N PROVE f[k] = IF k = 0 THEN <<n>> ELSE Higher(p, f[k - 1])
  <2>1. CASE k = 0
    <3>1. f[0] = SubSeq(c, L, L)  BY <1>2, <1>4
    <3>2. SubSeq(c, L, L) = <<c[L]>>
      <4>1. PICK t : t = SubSeq(c, L, L)  OBVIOUS
      <4>2. t \in Seq(Nodes) /\ Len(t) = 1 /\ t[1] = c[L]  BY <1>2, <1>3, <4>1
      <4>3. PICK u : u = <<c[L]>>  OBVIOUS
      <4>4. u \in Seq(Nodes) /\ Len(u) = 1 /\ u[1] = c[L]  BY <1>2, <1>3, <4>3
      <4>5. t = u  BY <4>2, <4>4, SeqEqual
      <4>. QED  BY <4>1, <4>3, <4>5
    <3>. QED  BY <1>3, <2>1, <3>1, <3>2
  <2>2. CASE k # 0 /\ k - 1 >= L
    <3>1. f[k] = c /\ f[k - 1] = c  BY <1>2, <1>4, <2>2
    <3>2. Head(c) = c[1]  BY <1>2, <1>3
    <3>. QED  BY <1>3, <2>2, <3>1, <3>2 DEF Higher
  <2>3. CASE k # 0 /\ k - 1 = L - 1
    <3>4. k - 1 \in 0..N /\ k - 1 < L /\ L - (k - 1) = 1 /\ ~(k < L)  BY <1>2, <2>3
    <3>1. f[k - 1] = SubSeq(c, 1, L) /\ f[k] = c  BY <1>4, <3>4
    <3>2. SubSeq(c, 1, L) = c /\ Head(c) = c[1]  BY <1>2, <1>3, SubSeqFull
    <3>. QED  BY <1>3, <2>3, <3>1, <3>2 DEF Higher
  <2>4. CASE k # 0 /\ k < L
    <3>0. PICK j : j = L - k  OBVIOUS
    <3>1. j \in 1..L /\ j + 1 \in 1..L /\ L - (k - 1) = j + 1 /\ k - 1 \in 0..N /\ k - 1 < L  BY <1>2, <2>4, <3>0
    <3>2. PICK s : s = SubSeq(c, j + 1, L)  OBVIOUS
    <3>3. f[k - 1] = s /\ f[k] = SubSeq(c, j, L)  BY <1>4, <2>4, <3>0, <3>1, <3>2
    <3>4. s \in Seq(Nodes) /\ Len(s) = L - j /\ \A i \in 1..(L - j) : s[i] = c[j + i]
      BY <1>2, <1>3, <3>1, <3>2
    <3>5. Head(s) = c[j + 1]  BY <1>2, <3>1, <3>4
    <3>6. p[c[j + 1]] = c[j] /\ c[j] \in Nodes /\ c[j] # NoNode  BY <1>3, <3>1
    <3>7. SubSeq(c, j, L) = <<c[j]>> \o s
      <4>1. PICK t : t = <<c[j]>> \o s  OBVIOUS
      <4>2. t \in Seq(Nodes) /\ Len(t) = L - j + 1 /\ t[1] = c[j] /\ \A i \in 2..(L - j + 1) : t[i] = s[i - 1]
        <5>1. PICK e : e = <<c[j]>>  OBVIOUS
        <5>2. e \in Seq(Nodes) /\ Len(e) = 1 /\ e[1] = c[j]  BY <3>6, <5>1
        <5>3. /\ t \in Seq(Nodes) /\ Len(t) = Len(e) + Len(s)
              /\ \A i \in 1..Len(e) + Len(s) : t[i] = IF i <= Len(e) THEN e[i] ELSE s[i - Len(e)]
          BY <3>4, <4>1, <5>1, <5>2, ConcatProperties
        <5>. QED  BY <1>2, <3>1, <3>4, <5>2, <5>3
      <4>3. PICK u : u = SubSeq(c, j, L)  OBVIOUS
      <4>4. u \in Seq(Nodes) /\ Len(u) = L - j + 1 /\ \A i \in 1..(L - j + 1) : u[i] = c[j + i - 1]
        BY <1>2, <1>3, <3>1, <4>3
      <4>5. ASSUME NEW i \in 1..(L - j + 1) PROVE t[i] = u[i]
        <5>1. CASE i = 1  BY <1>2, <3>1, <4>2, <4>4, <5>1
        <5>2. CASE i # 1
          <6>1. i \in 2..(L - j + 1) /\ i - 1 \in 1..(L - j) /\ j + (i - 1) = j + i - 1  BY <1>2, <3>1, <5>2
          <6>. QED  BY <3>4, <4>2, <4>4, <6>1
        <5>. QED  BY <5>1, <5>2
      <4>6. t = u  BY <4>2, <4>4, <4>5, SeqEqual
      <4>. QED  BY <4>1, <4>3, <4>6
    <3>. QED  BY <2>4, <3>3, <3>5, <3>6, <3>7 DEF Higher
  <2>. QED  BY <1>2, <2>1, <2>2, <2>3, <2>4
<1>6. Climb(p, n, N, f)
  <2>1. f = [k \in 0..N |-> f[k]]  BY <1>4
  <2>. QED  BY <1>5, <2>1 DEF Climb
<1>7. Chain(p, n) = f[N]  BY <1>1, <1>6, ChainClimbs
<1>8. f[N] = c
  <2>1. CASE N < L  BY <1>2, <2>1
  <2>2. CASE ~(N < L)  BY <1>1, <1>4, <2>2
  <2>. QED  BY <2>1, <2>2
<1>. QED  BY <1>7, <1>8

\* The way that the recursion has found so far.
SoFar(p, n, k, s) ==
    /\ s \in Seq(Nodes) /\ Len(s) > 0 /\ Len(s) <= k + 1 /\ s[Len(s)] = n
    /\ \A i \in 1..Len(s) : i > 1 => p[s[i]] = s[i - 1]
    /\ p[s[1]] = NoNode \/ Len(s) = k + 1

LEMMA HigherStill ==
    ASSUME NEW p \in [Nodes -> Nodes \cup {NoNode}], NEW n, NEW k \in Nat, NEW s, SoFar(p, n, k, s)
    PROVE  SoFar(p, n, k + 1, Higher(p, s))
<1>1. /\ s \in Seq(Nodes) /\ Len(s) \in Nat /\ Len(s) > 0 /\ Len(s) <= k + 1 /\ s[Len(s)] = n
      /\ \A i \in 1..Len(s) : i > 1 => p[s[i]] = s[i - 1]
      /\ p[s[1]] = NoNode \/ Len(s) = k + 1
      /\ Head(s) = s[1] /\ s[1] \in Nodes
  BY DEF SoFar
<1>2. CASE p[s[1]] = NoNode
  <2>1. Higher(p, s) = s  BY <1>1, <1>2 DEF Higher
  <2>2. Len(s) <= (k + 1) + 1  BY <1>1
  <2>. QED  BY <1>1, <1>2, <2>1, <2>2 DEF SoFar
<1>3. CASE p[s[1]] # NoNode
  <2>1. PICK x \in Nodes : x = p[s[1]]  BY <1>1, <1>3
  <2>2. PICK t : t = <<x>> \o s  OBVIOUS
  <2>3. Higher(p, s) = t  BY <1>1, <1>3, <2>1, <2>2 DEF Higher
  <2>4. /\ t \in Seq(Nodes) /\ Len(t) = Len(s) + 1 /\ t[1] = x
        /\ \A i \in 2..(Len(s) + 1) : t[i] = s[i - 1]
    BY <1>1, <2>1, <2>2
  <2>5. ASSUME NEW i \in 1..Len(t), i > 1 PROVE p[t[i]] = t[i - 1]
    <3>1. CASE i = 2
      <4>1. t[2] = s[1]  BY <1>1, <2>4
      <4>. QED  BY <2>1, <2>4, <3>1, <4>1
    <3>2. CASE i # 2
      <4>1. i \in 2..(Len(s) + 1) /\ i - 1 \in 2..(Len(s) + 1) /\ i - 1 \in 1..Len(s) /\ i - 1 > 1
        BY <1>1, <2>4, <2>5, <3>2
      <4>2. t[i] = s[i - 1] /\ t[i - 1] = s[(i - 1) - 1]  BY <2>4, <4>1
      <4>. QED  BY <1>1, <4>1, <4>2
    <3>. QED  BY <3>1, <3>2
  <2>6. t[Len(t)] = n
    <3>1. Len(t) \in 2..(Len(s) + 1) /\ Len(t) - 1 = Len(s)  BY <1>1, <2>4
    <3>. QED  BY <1>1, <2>4, <3>1
  <2>7. Len(t) > 0 /\ Len(t) <= (k + 1) + 1 /\ Len(t) = (k + 1) + 1  BY <1>1, <1>3, <2>4
  <2>. QED  BY <2>3, <2>4, <2>5, <2>6, <2>7 DEF SoFar
<1>. QED  BY <1>2, <1>3

LEMMA ChainIsSoFar ==
    ASSUME NEW p \in [Nodes -> Nodes \cup {NoNode}], NEW n \in Nodes
    PROVE  SoFar(p, n, Cardinality(Nodes), Chain(p, n))
<1>1. PICK N \in Nat : N = Cardinality(Nodes)  BY TreesAssumption, FS_CardinalityType
<1>. DEFINE Climbed(k) == \E g : Climb(p, n, k, g) /\ SoFar(p, n, k, g[k])
<1>2. \A k \in 0..N : Climbed(k)
  <2>. DEFINE Bad == {k \in 0..N : ~Climbed(k)}
  <2>. SUFFICES ASSUME Bad # {} PROVE FALSE  OBVIOUS
  <2>1. PICK k \in Bad : \A i \in Bad : k <= i
    <3>1. Bad \in SUBSET Nat  BY <1>1
    <3>. QED  BY <3>1, SmallestNumber
  <2>2. CASE k = 0
    <3>1. PICK g : g = [i \in 0..0 |-> <<n>>]  OBVIOUS
    <3>2. Climb(p, n, 0, g)  BY <3>1 DEF Climb
    <3>3. g[0] = <<n>>  BY <3>1
    <3>4. SoFar(p, n, 0, <<n>>)  BY DEF SoFar
    <3>. QED  BY <2>1, <2>2, <3>2, <3>3, <3>4
  <2>3. CASE k # 0
    <3>0. k \in 0..N  BY <2>1
    <3>1. k - 1 \in 0..N /\ ~(k <= k - 1) /\ (k - 1) + 1 = k /\ k - 1 \in Nat  BY <1>1, <2>3, <3>0
    <3>2. PICK g : Climb(p, n, k - 1, g) /\ SoFar(p, n, k - 1, g[k - 1])
      <4>1. k - 1 \notin Bad
        <5>. HIDE DEF Bad
        <5>. QED  BY <2>1, <3>1
      <4>. QED  BY <3>1, <4>1
    <3>3. PICK h : h = [i \in 0..k |-> IF i = k THEN Higher(p, g[k - 1]) ELSE g[i]]  OBVIOUS
    <3>4. Climb(p, n, k, h)
      <4>1. ASSUME NEW i \in 0..k
            PROVE  h[i] = IF i = 0 THEN <<n>> ELSE Higher(p, h[i - 1])
        <5>1. CASE i = k
          <6>1. k - 1 \in 0..k /\ k - 1 # k  BY <1>1, <2>3, <3>0
          <6>. QED  BY <2>3, <3>3, <5>1, <6>1
        <5>2. CASE i # k
          <6>1. i \in 0..(k - 1) /\ (i # 0 => i - 1 \in 0..k /\ i - 1 # k)  BY <1>1, <3>0, <5>2
          <6>2. g[i] = IF i = 0 THEN <<n>> ELSE Higher(p, g[i - 1])  BY <3>2, <6>1 DEF Climb
          <6>. QED  BY <3>3, <5>2, <6>1, <6>2
        <5>. QED  BY <5>1, <5>2
      <4>2. h = [i \in 0..k |-> h[i]]  BY <3>3
      <4>. QED  BY <4>1, <4>2 DEF Climb
    <3>5. h[k] = Higher(p, g[k - 1])  BY <1>1, <3>0, <3>3
    <3>6. SoFar(p, n, k, h[k])
      <4>1. SoFar(p, n, (k - 1) + 1, Higher(p, g[k - 1]))  BY <3>1, <3>2, HigherStill
      <4>. QED  BY <3>1, <3>5, <4>1
    <3>. QED  BY <2>1, <3>4, <3>6
  <2>. QED  BY <2>2, <2>3
<1>3. PICK g : Climb(p, n, N, g) /\ SoFar(p, n, N, g[N])
  <2>1. N \in 0..N  BY <1>1
  <2>. QED  BY <1>2, <2>1
<1>4. Chain(p, n) = g[N]  BY <1>1, <1>3, ChainClimbs
<1>. QED  BY <1>1, <1>3, <1>4

\* Acyclic, said in chains, is that there is a way to every node.
LEMMA AcyclicIsForest ==
    ASSUME NEW S \in SUBSET Nodes, NEW p \in Forests(S)
    PROVE  IsForest(p, S)
<1>1. /\ p \in [Nodes -> S \cup {NoNode}] /\ (\A n \in Nodes \ S : p[n] = NoNode)
      /\ \A n \in S : Len(Chain(p, n)) <= Cardinality(S)
  BY DEF Forests, Acyclic
<1>2. p \in [Nodes -> Nodes \cup {NoNode}]  BY <1>1
<1>3. Cardinality(S) <= Cardinality(Nodes) /\ Cardinality(S) \in Nat /\ Cardinality(Nodes) \in Nat
  BY TreesAssumption, FS_Subset, FS_CardinalityType
<1>4. ASSUME NEW n \in S PROVE \E c \in Seq(Nodes) : Line(p, n, c)
  <2>1. PICK c : c = Chain(p, n)  OBVIOUS
  <2>2. SoFar(p, n, Cardinality(Nodes), c)  BY <1>2, <2>1, ChainIsSoFar
  <2>3. Len(c) <= Cardinality(S)  BY <1>1, <2>1
  <2>4. c \in Seq(Nodes) /\ Len(c) \in Nat  BY <2>2 DEF SoFar
  <2>5. Len(c) # Cardinality(Nodes) + 1  BY <1>3, <2>3, <2>4
  <2>6. Line(p, n, c)  BY <2>2, <2>5 DEF SoFar, Line
  <2>. QED  BY <2>4, <2>6
<1>. QED  BY <1>1, <1>4 DEF IsForest

LEMMA ChainOf ==
    ASSUME NEW p, NEW S, IsForest(p, S), NEW n \in S
    PROVE  /\ Line(p, n, Chain(p, n))
           /\ \A c : Line(p, n, c) => c = Chain(p, n)
<1>1. PICK c \in Seq(Nodes) : Line(p, n, c)  BY DEF IsForest
<1>2. Len(c) <= Cardinality(Nodes)
  <2>1. Len(c) <= Cardinality(S) /\ Cardinality(S) <= Cardinality(Nodes)  BY <1>1, LineWithin
  <2>2. Len(c) \in Nat /\ S \in SUBSET Nodes  BY <1>1 DEF IsForest
  <2>3. Cardinality(S) \in Nat /\ Cardinality(Nodes) \in Nat  BY <2>2, TreesAssumption, FS_Subset, FS_CardinalityType
  <2>. QED  BY <2>1, <2>2, <2>3
<1>3. Chain(p, n) = c  BY <1>1, <1>2, ChainIs
<1>. QED  BY <1>1, <1>3, OneLine

LEMMA ForestIsAcyclic ==
    ASSUME NEW p, NEW S, IsForest(p, S)
    PROVE  Acyclic(p, S)
<1>1. \A n \in S : Line(p, n, Chain(p, n))  BY ChainOf
<1>. QED  BY <1>1, LineWithin DEF Acyclic

-----------------------------------------------------------------------------
(* What is on the way to a node *)

Depth(p, n) == Len(Chain(p, n))
On(p, n, m) == \E i \in 1..Depth(p, n) : Chain(p, n)[i] = m

LEMMA ChainHas ==
    ASSUME NEW p, NEW S, IsForest(p, S), NEW n \in S
    PROVE  /\ Chain(p, n) \in Seq(Nodes) /\ Depth(p, n) \in Nat /\ Depth(p, n) > 0
           /\ \A i \in 1..Depth(p, n) : Chain(p, n)[i] \in S
           /\ Chain(p, n)[Depth(p, n)] = n
           /\ p[Chain(p, n)[1]] = NoNode
           /\ \A i \in 1..Depth(p, n) : i > 1 => p[Chain(p, n)[i]] = Chain(p, n)[i - 1]
           /\ \A i, j \in 1..Depth(p, n) : Chain(p, n)[i] = Chain(p, n)[j] => i = j
<1>1. PICK c : c = Chain(p, n)  OBVIOUS
<1>2. Line(p, n, c)  BY <1>1, ChainOf
<1>3. /\ Len(c) \in Nat /\ Len(c) > 0 /\ \A i \in 1..Len(c) : c[i] \in S
      /\ \A i, j \in 1..Len(c) : c[i] = c[j] => i = j
  BY <1>2, LineHas, LineWithin, NoneTwice
<1>4. /\ c \in Seq(Nodes) /\ c[Len(c)] = n /\ p[c[1]] = NoNode
      /\ \A i \in 1..Len(c) : i > 1 => p[c[i]] = c[i - 1]
  BY <1>2 DEF Line
<1>. QED  BY <1>1, <1>3, <1>4 DEF Depth

LEMMA OnIs ==
    ASSUME NEW p, NEW S, IsForest(p, S), NEW n \in S, NEW m
    PROVE  /\ On(p, n, m) => /\ m \in S /\ Depth(p, m) \in 1..Depth(p, n)
                             /\ Chain(p, n)[Depth(p, m)] = m
                             /\ Chain(p, m) = SubSeq(Chain(p, n), 1, Depth(p, m))
           /\ On(p, n, n)
<1>0. Depth(p, n) \in 1..Depth(p, n) /\ Chain(p, n)[Depth(p, n)] = n  BY ChainHas
<1>1. On(p, n, n)  BY <1>0 DEF On
<1>2. ASSUME On(p, n, m)
      PROVE  /\ m \in S /\ Depth(p, m) \in 1..Depth(p, n)
             /\ Chain(p, n)[Depth(p, m)] = m
             /\ Chain(p, m) = SubSeq(Chain(p, n), 1, Depth(p, m))
  <2>1. PICK i \in 1..Depth(p, n) : Chain(p, n)[i] = m  BY <1>2 DEF On
  <2>2. m \in S  BY <2>1, ChainHas
  <2>3. PICK c : c = Chain(p, n)  OBVIOUS
  <2>4. Line(p, n, c) /\ i \in 1..Len(c) /\ c[i] = m  BY <2>1, <2>3, ChainOf DEF Depth
  <2>5. Line(p, m, SubSeq(c, 1, i))  BY <2>4, PrefixLine
  <2>6. Chain(p, m) = SubSeq(c, 1, i)  BY <2>2, <2>5, ChainOf
  <2>7. Len(SubSeq(c, 1, i)) = i
    <3>1. c \in Seq(Nodes)  BY <2>4 DEF Line
    <3>. QED  BY <2>4, <3>1, PrefixIs
  <2>8. Depth(p, m) = i  BY <2>6, <2>7 DEF Depth
  <2>. QED  BY <2>1, <2>2, <2>3, <2>6, <2>8
<1>. QED  BY <1>1, <1>2

LEMMA OnOn ==
    ASSUME NEW p, NEW S, IsForest(p, S), NEW n \in S, NEW m, NEW k, On(p, n, m), On(p, m, k)
    PROVE  On(p, n, k)
<1>1. /\ m \in S /\ Depth(p, m) \in 1..Depth(p, n)
      /\ Chain(p, m) = SubSeq(Chain(p, n), 1, Depth(p, m))
  BY OnIs
<1>2. PICK i \in 1..Depth(p, m) : Chain(p, m)[i] = k  BY DEF On
<1>3. Chain(p, n) \in Seq(Nodes) /\ Depth(p, n) \in Nat  BY ChainHas
<1>4. Chain(p, m)[i] = Chain(p, n)[i]
  <2>1. PICK c : c = Chain(p, n)  OBVIOUS
  <2>2. PICK j \in 1..Len(c) : j = Depth(p, m)  BY <1>1, <2>1 DEF Depth
  <2>3. SubSeq(c, 1, j)[i] = c[i]  BY <1>2, <1>3, <2>1, <2>2, PrefixIs
  <2>. QED  BY <1>1, <2>1, <2>2, <2>3
<1>5. i \in 1..Depth(p, n)  BY <1>1, <1>2, <1>3
<1>. QED  BY <1>2, <1>4, <1>5 DEF On

\* Of two on the same way the higher is on the way to the lower.
LEMMA OnTwo ==
    ASSUME NEW p, NEW S, IsForest(p, S), NEW n \in S, NEW m, NEW k, On(p, n, m), On(p, n, k),
           Depth(p, k) <= Depth(p, m)
    PROVE  On(p, m, k)
<1>1. /\ m \in S /\ Depth(p, m) \in 1..Depth(p, n) /\ Depth(p, k) \in 1..Depth(p, n)
      /\ Chain(p, m) = SubSeq(Chain(p, n), 1, Depth(p, m)) /\ Chain(p, n)[Depth(p, k)] = k
  BY OnIs
<1>3. Chain(p, n) \in Seq(Nodes) /\ Depth(p, n) \in Nat  BY ChainHas
<1>4. PICK i : i = Depth(p, k)  OBVIOUS
<1>5. i \in 1..Depth(p, m)  BY <1>1, <1>3, <1>4
<1>6. Chain(p, m)[i] = Chain(p, n)[i]
  <2>1. PICK c : c = Chain(p, n)  OBVIOUS
  <2>2. PICK j \in 1..Len(c) : j = Depth(p, m)  BY <1>1, <2>1 DEF Depth
  <2>3. SubSeq(c, 1, j)[i] = c[i]  BY <1>3, <1>5, <2>1, <2>2, PrefixIs
  <2>. QED  BY <1>1, <2>1, <2>2, <2>3
<1>. QED  BY <1>1, <1>4, <1>5, <1>6 DEF On

LEMMA OnSame ==
    ASSUME NEW p, NEW S, IsForest(p, S), NEW n \in S, NEW m, On(p, n, m), Depth(p, m) >= Depth(p, n)
    PROVE  m = n
<1>1. Depth(p, m) \in 1..Depth(p, n) /\ Chain(p, n)[Depth(p, m)] = m  BY OnIs
<1>2. Depth(p, n) \in Nat /\ Chain(p, n)[Depth(p, n)] = n  BY ChainHas
<1>3. Depth(p, m) = Depth(p, n)  BY <1>1, <1>2
<1>. QED  BY <1>1, <1>2, <1>3

\* The parent is the one before on the way.
LEMMA ParentOn ==
    ASSUME NEW p, NEW S, IsForest(p, S), NEW n \in S
    PROVE  /\ p[n] = NoNode <=> Depth(p, n) = 1
           /\ p[n] # NoNode => /\ p[n] \in S /\ On(p, n, p[n]) /\ Depth(p, n) = Depth(p, p[n]) + 1
           /\ \A m : On(p, n, m) /\ Depth(p, n) = Depth(p, m) + 1 => p[n] = m
<1>1. PICK c : c = Chain(p, n)  OBVIOUS
<1>2. PICK d \in Nat : d = Depth(p, n) /\ d > 0  BY ChainHas
<1>3. /\ \A i \in 1..d : c[i] \in S
      /\ c[d] = n /\ p[c[1]] = NoNode
      /\ \A i \in 1..d : i > 1 => p[c[i]] = c[i - 1]
      /\ \A i, j \in 1..d : c[i] = c[j] => i = j
  BY <1>1, <1>2, ChainHas
<1>4. NoNode \notin S  BY TreesAssumption DEF IsForest
<1>5. CASE d = 1
  <2>1. p[n] = NoNode  BY <1>3, <1>5
  <2>2. ASSUME NEW m, On(p, n, m), Depth(p, n) = Depth(p, m) + 1 PROVE FALSE
    <3>1. Depth(p, m) \in 1..d  BY <1>2, <2>2, OnIs
    <3>2. Depth(p, m) = 1  BY <1>5, <3>1
    <3>3. Depth(p, n) = 1  BY <1>2, <1>5
    <3>. QED  BY <2>2, <3>2, <3>3
  <2>. QED  BY <1>2, <1>5, <2>1, <2>2
<1>6. CASE d # 1
  <2>1. d \in 1..d /\ d > 1 /\ d - 1 \in 1..d  BY <1>2, <1>6
  <2>2. p[n] = c[d - 1] /\ c[d - 1] \in S  BY <1>3, <2>1
  <2>3. On(p, n, p[n])  BY <1>1, <1>2, <2>1, <2>2 DEF On
  <2>4. c[Depth(p, p[n])] = p[n] /\ Depth(p, p[n]) \in 1..d  BY <1>1, <1>2, <2>3, OnIs
  <2>5. Depth(p, p[n]) = d - 1  BY <1>3, <2>1, <2>2, <2>4
  <2>6. ASSUME NEW m, On(p, n, m), Depth(p, n) = Depth(p, m) + 1 PROVE p[n] = m
    <3>1. c[Depth(p, m)] = m /\ Depth(p, m) \in 1..d  BY <1>1, <1>2, <2>6, OnIs
    <3>2. Depth(p, m) = d - 1  BY <1>2, <2>6, <3>1
    <3>. QED  BY <2>2, <3>1, <3>2
  <2>. QED  BY <1>2, <1>4, <1>6, <2>2, <2>3, <2>5, <2>6
<1>. QED  BY <1>5, <1>6

\* What is on the way to a node that is not the node is above its parent.
LEMMA OnParent ==
    ASSUME NEW p, NEW S, IsForest(p, S), NEW n \in S, NEW m, On(p, n, m), m # n
    PROVE  p[n] \in S /\ On(p, p[n], m) /\ Depth(p, n) > Depth(p, m)
<1>1. Depth(p, m) \in 1..Depth(p, n) /\ Depth(p, n) \in Nat  BY OnIs, ChainHas
<1>2. Depth(p, m) < Depth(p, n)  BY <1>1, OnSame
<1>3. p[n] # NoNode  BY <1>1, <1>2, ParentOn
<1>4. p[n] \in S /\ On(p, n, p[n]) /\ Depth(p, n) = Depth(p, p[n]) + 1  BY <1>3, ParentOn
<1>5. Depth(p, m) <= Depth(p, p[n])
  <2>1. Depth(p, p[n]) \in Nat  BY <1>4, ChainHas
  <2>. QED  BY <1>1, <1>2, <1>4, <2>1
<1>6. On(p, p[n], m)  BY <1>4, <1>5, OnTwo
<1>. QED  BY <1>1, <1>2, <1>4, <1>6

-----------------------------------------------------------------------------
(* What the calls make of a forest *)

Ways(p, S, C) ==
    /\ S \subseteq Nodes /\ p \in [Nodes -> S \cup {NoNode}]
    /\ \A n \in Nodes \ S : p[n] = NoNode
    /\ \A n \in S : Line(p, n, C[n])

Grows(p, S, C) == IsForest(p, S) /\ \A n \in S : Chain(p, n) = C[n]

LEMMA WaysMakeAForest ==
    ASSUME NEW p, NEW S, NEW C, Ways(p, S, C)
    PROVE  Grows(p, S, C)
<1>1. \A n \in S : Line(p, n, C[n]) /\ C[n] \in Seq(Nodes)  BY DEF Ways, Line
<1>2. IsForest(p, S)  BY <1>1 DEF IsForest, Ways
<1>3. ASSUME NEW n \in S PROVE Chain(p, n) = C[n]
  <2>1. Line(p, n, C[n])  BY <1>1
  <2>. QED  BY <1>2, <2>1, ChainOf
<1>. QED  BY <1>2, <1>3 DEF Grows

\* A new root.
LEMMA Planted ==
    ASSUME NEW p, NEW S, IsForest(p, S), NEW n \in Nodes \ S
    PROVE  /\ IsForest(p, S \cup {n})
           /\ Chain(p, n) = <<n>> /\ Depth(p, n) = 1
<1>1. S \in SUBSET Nodes /\ p \in [Nodes -> S \cup {NoNode}] /\ \A m \in Nodes \ S : p[m] = NoNode
  BY DEF IsForest
<1>2. Line(p, n, <<n>>)
  <2>1. <<n>> \in Seq(Nodes) /\ Len(<<n>>) = 1 /\ <<n>>[1] = n  OBVIOUS
  <2>2. p[n] = NoNode  BY <1>1
  <2>. QED  BY <2>1, <2>2 DEF Line
<1>3. \A m \in S : Line(p, m, Chain(p, m))  BY ChainOf
<1>4. PICK T \in SUBSET Nodes : T = S \cup {n}  BY <1>1
<1>0. PICK C : C = [m \in T |-> IF m = n THEN <<n>> ELSE Chain(p, m)]  OBVIOUS
<1>5. \A m \in T : Line(p, m, C[m])  BY <1>0, <1>2, <1>3, <1>4
<1>6. p \in [Nodes -> T \cup {NoNode}] /\ \A m \in Nodes \ T : p[m] = NoNode  BY <1>1, <1>4
<1>7. Ways(p, T, C)  BY <1>5, <1>6 DEF Ways
<1>8. Grows(p, T, C)  BY <1>7, WaysMakeAForest
<1>9. n \in T /\ C[n] = <<n>> /\ Len(<<n>>) = 1  BY <1>0, <1>4
<1>. QED  BY <1>4, <1>8, <1>9 DEF Depth, Grows

\* The nodes below n, and n.
Below(p, S, n) == {m \in S : On(p, m, n)}

\* The subtree of n on its own.
Cut(p, n) == [p EXCEPT ![n] = NoNode]

LEMMA CutOff ==
    ASSUME NEW p, NEW S, IsForest(p, S), NEW n \in S
    PROVE  /\ IsForest(Cut(p, n), S)
           /\ \A m \in S : Chain(Cut(p, n), m) =
                  IF On(p, m, n) THEN SubSeq(Chain(p, m), Depth(p, n), Depth(p, m)) ELSE Chain(p, m)
<1>1. /\ S \in SUBSET Nodes /\ p \in [Nodes -> S \cup {NoNode}] /\ \A m \in Nodes \ S : p[m] = NoNode
  BY DEF IsForest
<1>q. PICK q : q = Cut(p, n)  OBVIOUS
<1>2. q \in [Nodes -> S \cup {NoNode}] /\ q[n] = NoNode /\ (\A m \in Nodes \ {n} : q[m] = p[m])
      /\ \A m \in Nodes \ S : q[m] = NoNode
  BY <1>1, <1>q DEF Cut
<1>0. PICK C : C = [m \in S |-> IF On(p, m, n) THEN SubSeq(Chain(p, m), Depth(p, n), Depth(p, m)) ELSE Chain(p, m)]  OBVIOUS
<1>3. ASSUME NEW m \in S PROVE Line(q, m, C[m])
  <2>0. PICK c : c = Chain(p, m)  OBVIOUS
  <2>1. PICK L \in Nat : L = Depth(p, m) /\ L > 0 /\ L = Len(c)  BY <2>0, ChainHas DEF Depth
  <2>h. /\ Chain(p, m) \in Seq(Nodes) /\ Chain(p, m)[Depth(p, m)] = m /\ p[Chain(p, m)[1]] = NoNode
        /\ \A i \in 1..Depth(p, m) : Chain(p, m)[i] \in S
        /\ \A i \in 1..Depth(p, m) : i > 1 => p[Chain(p, m)[i]] = Chain(p, m)[i - 1]
        /\ \A i, j \in 1..Depth(p, m) : Chain(p, m)[i] = Chain(p, m)[j] => i = j
    BY ChainHas
  <2>2. /\ c \in Seq(Nodes) /\ c[L] = m /\ p[c[1]] = NoNode
        /\ \A i \in 1..L : c[i] \in S
        /\ \A i \in 1..L : i > 1 => p[c[i]] = c[i - 1]
        /\ \A i, j \in 1..L : c[i] = c[j] => i = j
    BY <2>0, <2>1, <2>h
  <2>3. CASE On(p, m, n)
    <3>1. PICK k \in 1..L : k = Depth(p, n) /\ c[k] = n  BY <2>0, <2>1, <2>3, OnIs
    <3>2. PICK d : d = SubSeq(c, k, L)  OBVIOUS
    <3>3. d \in Seq(Nodes) /\ Len(d) = L - k + 1 /\ \A j \in 1..(L - k + 1) : d[j] = c[k + j - 1]
      BY <2>1, <2>2, <3>1, <3>2, RestIs
    <3>4. d[1] = n
      <4>1. 1 \in 1..(L - k + 1) /\ k + 1 - 1 = k  BY <2>1, <3>1
      <4>2. d[1] = c[k]  BY <3>3, <4>1
      <4>. QED  BY <3>1, <4>2
    <3>5. Len(d) > 0 /\ d[Len(d)] = m
      <4>1. PICK l \in Int : l = L - k + 1 /\ Len(d) = l  BY <3>3
      <4>2. l \in 1..(L - k + 1) /\ l > 0 /\ k + l - 1 = L  BY <3>1, <4>1
      <4>3. d[l] = c[k + l - 1]  BY <3>3, <4>2
      <4>. QED  BY <2>2, <4>1, <4>2, <4>3
    <3>6. ASSUME NEW j \in 1..Len(d), j > 1 PROVE q[d[j]] = d[j - 1]
      <4>0. PICK i : i = k + j - 1  OBVIOUS
      <4>1. i \in 1..L /\ i > 1 /\ i # k /\ j - 1 \in 1..(L - k + 1) /\ k + (j - 1) - 1 = i - 1
        <5>1. PICK l \in Int : l = L - k + 1 /\ Len(d) = l  BY <3>3
        <5>2. j \in 1..l /\ j > 1 /\ k \in Nat /\ k > 0 /\ k <= L  BY <3>1, <3>6, <5>1
        <5>. QED  BY <4>0, <5>1, <5>2
      <4>2. d[j] = c[i] /\ d[j - 1] = c[i - 1]  BY <3>3, <4>0, <4>1
      <4>3. c[i] # n /\ c[i] \in Nodes  BY <1>1, <2>2, <3>1, <4>1
      <4>4. p[c[i]] = c[i - 1]  BY <2>2, <4>1
      <4>5. q[c[i]] = p[c[i]]  BY <1>2, <4>3
      <4>. QED  BY <4>2, <4>4, <4>5
    <3>7. Line(q, m, d)
      <4>1. q[d[1]] = NoNode  BY <1>2, <3>4
      <4>. QED  BY <3>3, <3>5, <3>6, <4>1 DEF Line
    <3>. QED  BY <1>0, <2>0, <2>1, <2>3, <3>1, <3>2, <3>7
  <2>4. CASE ~On(p, m, n)
    <3>1. \A i \in 1..L : c[i] # n  BY <2>0, <2>1, <2>4 DEF On
    <3>2. \A i \in 1..L : c[i] \in Nodes /\ q[c[i]] = p[c[i]]  BY <1>1, <1>2, <2>2, <3>1
    <3>3. 1 \in 1..L  BY <2>1
    <3>4. q[c[1]] = NoNode /\ \A i \in 1..L : i > 1 => q[c[i]] = c[i - 1]  BY <2>2, <3>2, <3>3
    <3>5. Line(q, m, c)  BY <2>1, <2>2, <3>4 DEF Line
    <3>. QED  BY <1>0, <2>0, <2>4, <3>5
  <2>. QED  BY <2>3, <2>4
<1>4. Ways(q, S, C)  BY <1>1, <1>2, <1>3 DEF Ways
<1>5. Grows(q, S, C)  BY <1>4, WaysMakeAForest
<1>. QED  BY <1>0, <1>5, <1>q DEF Grows

\* A tree that comes under a node outside of it.
Graft(p, n, t) == [p EXCEPT ![n] = t]

LEMMA Grafted ==
    ASSUME NEW p, NEW S, IsForest(p, S), NEW n \in S, NEW t \in S, p[n] = NoNode, ~On(p, t, n)
    PROVE  /\ IsForest(Graft(p, n, t), S)
           /\ \A m \in S : Chain(Graft(p, n, t), m) =
                  IF On(p, m, n) THEN Chain(p, t) \o Chain(p, m) ELSE Chain(p, m)
<1>1. /\ S \in SUBSET Nodes /\ p \in [Nodes -> S \cup {NoNode}] /\ \A m \in Nodes \ S : p[m] = NoNode
  BY DEF IsForest
<1>q. PICK q : q = Graft(p, n, t)  OBVIOUS
<1>2. q \in [Nodes -> S \cup {NoNode}] /\ q[n] = t /\ (\A m \in Nodes \ {n} : q[m] = p[m])
      /\ \A m \in Nodes \ S : q[m] = NoNode
  BY <1>1, <1>q DEF Graft
<1>0. PICK C : C = [m \in S |-> IF On(p, m, n) THEN Chain(p, t) \o Chain(p, m) ELSE Chain(p, m)]  OBVIOUS
<1>a. Depth(p, n) = 1  BY ParentOn
<1>b. ASSUME NEW m \in S, ~On(p, m, n) PROVE Line(q, m, Chain(p, m))
  <2>0. PICK c : c = Chain(p, m)  OBVIOUS
  <2>1. PICK L \in Nat : L = Depth(p, m) /\ L > 0 /\ L = Len(c)  BY <2>0, ChainHas DEF Depth
  <2>h. /\ Chain(p, m) \in Seq(Nodes) /\ Chain(p, m)[Depth(p, m)] = m /\ p[Chain(p, m)[1]] = NoNode
        /\ \A i \in 1..Depth(p, m) : Chain(p, m)[i] \in S
        /\ \A i \in 1..Depth(p, m) : i > 1 => p[Chain(p, m)[i]] = Chain(p, m)[i - 1]
        /\ \A i, j \in 1..Depth(p, m) : Chain(p, m)[i] = Chain(p, m)[j] => i = j
    BY ChainHas
  <2>2. /\ c \in Seq(Nodes) /\ c[L] = m /\ p[c[1]] = NoNode
        /\ \A i \in 1..L : c[i] \in S
        /\ \A i \in 1..L : i > 1 => p[c[i]] = c[i - 1]
    BY <2>0, <2>1, <2>h
  <2>3. \A i \in 1..L : c[i] # n  BY <1>b, <2>0, <2>1 DEF On
  <2>4. \A i \in 1..L : c[i] \in Nodes /\ q[c[i]] = p[c[i]]  BY <1>1, <1>2, <2>2, <2>3
  <2>5. 1 \in 1..L  BY <2>1
  <2>6. q[c[1]] = NoNode /\ \A i \in 1..L : i > 1 => q[c[i]] = c[i - 1]  BY <2>2, <2>4, <2>5
  <2>7. Line(q, m, c)  BY <2>1, <2>2, <2>6 DEF Line
  <2>. QED  BY <2>0, <2>7
<1>c. ASSUME NEW m \in S, On(p, m, n) PROVE Line(q, m, Chain(p, t) \o Chain(p, m))
  <2>0. PICK c : c = Chain(p, m)  OBVIOUS
  <2>1. PICK L \in Nat : L = Depth(p, m) /\ L > 0 /\ L = Len(c)  BY <2>0, ChainHas DEF Depth
  <2>h. /\ Chain(p, m) \in Seq(Nodes) /\ Chain(p, m)[Depth(p, m)] = m /\ p[Chain(p, m)[1]] = NoNode
        /\ \A i \in 1..Depth(p, m) : Chain(p, m)[i] \in S
        /\ \A i \in 1..Depth(p, m) : i > 1 => p[Chain(p, m)[i]] = Chain(p, m)[i - 1]
        /\ \A i, j \in 1..Depth(p, m) : Chain(p, m)[i] = Chain(p, m)[j] => i = j
    BY ChainHas
  <2>2. /\ c \in Seq(Nodes) /\ c[L] = m
        /\ \A i \in 1..L : c[i] \in S
        /\ \A i \in 1..L : i > 1 => p[c[i]] = c[i - 1]
        /\ \A i, j \in 1..L : c[i] = c[j] => i = j
    BY <2>0, <2>1, <2>h
  <2>3. c[1] = n /\ 1 \in 1..L
    <3>1. Chain(p, m)[Depth(p, n)] = n  BY <1>c, OnIs
    <3>. QED  BY <1>a, <2>0, <2>1, <3>1
  <2>4. PICK u : u = Chain(p, t)  OBVIOUS
  <2>5. Line(q, t, u)  BY <1>b, <2>4
  <2>6. PICK T \in Nat : T = Len(u) /\ T > 0  BY <2>5, LineHas
  <2>7. /\ u \in Seq(Nodes) /\ u[T] = t /\ q[u[1]] = NoNode
        /\ \A i \in 1..T : i > 1 => q[u[i]] = u[i - 1]
    BY <2>5, <2>6 DEF Line
  <2>8. PICK d : d = u \o c  OBVIOUS
  <2>9. d \in Seq(Nodes) /\ Len(d) = T + L /\ \A i \in 1..T + L : d[i] = IF i <= T THEN u[i] ELSE c[i - T]
    BY <2>1, <2>2, <2>6, <2>7, <2>8, ConcatProperties
  <2>10. Len(d) > 0 /\ d[Len(d)] = m
    <3>1. T + L \in 1..T + L /\ ~(T + L <= T) /\ (T + L) - T = L /\ T + L > 0  BY <2>1, <2>6
    <3>. QED  BY <2>2, <2>9, <3>1
  <2>11. q[d[1]] = NoNode
    <3>1. 1 \in 1..T + L /\ 1 <= T  BY <2>1, <2>6
    <3>. QED  BY <2>7, <2>9, <3>1
  <2>12. ASSUME NEW i \in 1..Len(d), i > 1 PROVE q[d[i]] = d[i - 1]
    <3>0. i \in 1..T + L /\ i - 1 \in 1..T + L  BY <2>1, <2>6, <2>9, <2>12
    <3>1. CASE i <= T
      <4>1. i \in 1..T /\ i - 1 <= T  BY <2>6, <3>0, <3>1
      <4>. QED  BY <2>7, <2>9, <2>12, <3>0, <3>1, <4>1
    <3>2. CASE i = T + 1
      <4>1. ~(i <= T) /\ i - T = 1 /\ i - 1 = T /\ T <= T  BY <2>6, <3>2
      <4>2. d[i] = n /\ d[i - 1] = t  BY <2>3, <2>7, <2>9, <3>0, <4>1
      <4>. QED  BY <1>2, <4>2
    <3>3. CASE i > T + 1
      <4>0. PICK j : j = i - T  OBVIOUS
      <4>1. ~(i <= T) /\ ~(i - 1 <= T) /\ j \in 1..L /\ j > 1 /\ (i - 1) - T = j - 1
        BY <2>1, <2>6, <3>0, <3>3, <4>0
      <4>2. d[i] = c[j] /\ d[i - 1] = c[j - 1]  BY <2>9, <3>0, <4>0, <4>1
      <4>3. c[j] # n /\ c[j] \in Nodes  BY <1>1, <2>2, <2>3, <4>1
      <4>4. p[c[j]] = c[j - 1]  BY <2>2, <4>1
      <4>5. q[c[j]] = p[c[j]]  BY <1>2, <4>3
      <4>. QED  BY <4>2, <4>4, <4>5
    <3>. QED  BY <2>6, <3>0, <3>1, <3>2, <3>3
  <2>13. Line(q, m, d)  BY <2>9, <2>10, <2>11, <2>12 DEF Line
  <2>. QED  BY <2>0, <2>4, <2>8, <2>13
<1>3. \A m \in S : Line(q, m, C[m])  BY <1>0, <1>b, <1>c
<1>4. Ways(q, S, C)  BY <1>1, <1>2, <1>3 DEF Ways
<1>5. Grows(q, S, C)  BY <1>4, WaysMakeAForest
<1>. QED  BY <1>0, <1>5, <1>q DEF Grows

\* Without the subtree of n.
LEMMA Felled ==
    ASSUME NEW p, NEW S, IsForest(p, S), NEW n \in S,
           NEW T, T = S \ Below(p, S, n),
           NEW q, q = [m \in Nodes |-> IF m \in Below(p, S, n) THEN NoNode ELSE p[m]]
    PROVE  IsForest(q, T) /\ \A m \in T : Chain(q, m) = Chain(p, m)
<1>1. /\ S \in SUBSET Nodes /\ p \in [Nodes -> S \cup {NoNode}] /\ \A m \in Nodes \ S : p[m] = NoNode
  BY DEF IsForest
<1>2. T \in SUBSET Nodes /\ T \subseteq S /\ \A m \in T : ~On(p, m, n)  BY <1>1 DEF Below
<1>3. ASSUME NEW m \in Nodes PROVE q[m] \in T \cup {NoNode} /\ (m \notin T => q[m] = NoNode)
  <2>1. CASE m \in Below(p, S, n)  BY <2>1
  <2>2. CASE m \notin S  BY <1>1, <2>2
  <2>3. CASE m \in T /\ p[m] = NoNode  BY <2>3
  <2>4. CASE m \in T /\ p[m] # NoNode
    <3>1. m \in S /\ p[m] \in S /\ On(p, m, p[m])  BY <1>2, <2>4, ParentOn
    <3>2. ~On(p, p[m], n)  BY <1>2, <2>4, <3>1, OnOn
    <3>3. p[m] \in T  BY <3>1, <3>2 DEF Below
    <3>. QED  BY <2>4, <3>3
  <2>. QED  BY <2>1, <2>2, <2>3, <2>4
<1>4. q \in [Nodes -> T \cup {NoNode}] /\ \A m \in Nodes \ T : q[m] = NoNode  BY <1>3
<1>5. ASSUME NEW m \in T PROVE Line(q, m, Chain(p, m))
  <2>a. m \in S  BY <1>2
  <2>0. PICK c : c = Chain(p, m)  OBVIOUS
  <2>1. PICK L \in Nat : L = Depth(p, m) /\ L > 0 /\ L = Len(c)  BY <2>a, <2>0, ChainHas DEF Depth
  <2>h. /\ Chain(p, m) \in Seq(Nodes) /\ Chain(p, m)[Depth(p, m)] = m /\ p[Chain(p, m)[1]] = NoNode
        /\ \A i \in 1..Depth(p, m) : Chain(p, m)[i] \in S
        /\ \A i \in 1..Depth(p, m) : i > 1 => p[Chain(p, m)[i]] = Chain(p, m)[i - 1]
        /\ \A i, j \in 1..Depth(p, m) : Chain(p, m)[i] = Chain(p, m)[j] => i = j
    BY <2>a, ChainHas
  <2>2. /\ c \in Seq(Nodes) /\ c[L] = m /\ p[c[1]] = NoNode
        /\ \A i \in 1..L : c[i] \in S
        /\ \A i \in 1..L : i > 1 => p[c[i]] = c[i - 1]
    BY <2>0, <2>1, <2>h
  <2>3. \A i \in 1..L : On(p, m, c[i])  BY <2>0, <2>1 DEF On
  <2>4. \A i \in 1..L : ~On(p, c[i], n)  BY <1>2, <2>a, <2>3, OnOn
  <2>5. \A i \in 1..L : c[i] \in Nodes /\ q[c[i]] = p[c[i]]  BY <1>1, <2>2, <2>4 DEF Below
  <2>6. 1 \in 1..L  BY <2>1
  <2>7. q[c[1]] = NoNode /\ \A i \in 1..L : i > 1 => q[c[i]] = c[i - 1]  BY <2>2, <2>5, <2>6
  <2>8. Line(q, m, c)  BY <2>1, <2>2, <2>7 DEF Line
  <2>. QED  BY <2>0, <2>8
<1>0. PICK C : C = [m \in T |-> Chain(p, m)]  OBVIOUS
<1>6. \A m \in T : Line(q, m, C[m])  BY <1>0, <1>5
<1>7. Ways(q, T, C)  BY <1>2, <1>4, <1>6 DEF Ways
<1>8. Grows(q, T, C)  BY <1>7, WaysMakeAForest
<1>. QED  BY <1>0, <1>8 DEF Grows

-----------------------------------------------------------------------------
(* The rows of a forest *)

Row(p, a, d) == <<a, d, Depth(p, d) - Depth(p, a)>>

LEMMA RowHas ==
    ASSUME NEW p, NEW S, IsForest(p, S), NEW x \in ClosureOf(p, S)
    PROVE  /\ x[1] \in S /\ x[2] \in S /\ On(p, x[2], x[1]) /\ x = Row(p, x[1], x[2])
           /\ x[3] = Depth(p, x[2]) - Depth(p, x[1]) /\ x[3] \in Nat
<1>1. PICK n \in S : \E i \in DOMAIN Chain(p, n) : x = <<Chain(p, n)[i], n, Len(Chain(p, n)) - i>>
  BY DEF ClosureOf
<1>2. PICK c : c = Chain(p, n)  OBVIOUS
<1>3. PICK L \in Nat : L = Depth(p, n) /\ L = Len(c)  BY <1>2, ChainHas DEF Depth
<1>h. /\ Chain(p, n) \in Seq(Nodes) /\ \A i \in 1..Depth(p, n) : Chain(p, n)[i] \in S
      /\ \A i, j \in 1..Depth(p, n) : Chain(p, n)[i] = Chain(p, n)[j] => i = j
  BY ChainHas
<1>4. c \in Seq(Nodes) /\ (\A i \in 1..L : c[i] \in S) /\ \A i, j \in 1..L : c[i] = c[j] => i = j
  BY <1>2, <1>3, <1>h
<1>5. PICK i \in 1..L : x = <<c[i], n, L - i>>  BY <1>1, <1>2, <1>3, <1>4
<1>6. On(p, n, c[i])  BY <1>2, <1>3 DEF On
<1>7. Depth(p, c[i]) = i
  <2>1. Depth(p, c[i]) \in 1..Depth(p, n) /\ Chain(p, n)[Depth(p, c[i])] = c[i]  BY <1>6, OnIs
  <2>. QED  BY <1>2, <1>3, <1>4, <2>1
<1>8. x[1] = c[i] /\ x[2] = n /\ x[3] = L - i /\ L - i \in Nat  BY <1>5
<1>. QED  BY <1>3, <1>4, <1>5, <1>6, <1>7, <1>8 DEF Row

LEMMA HasRow ==
    ASSUME NEW p, NEW S, IsForest(p, S), NEW d \in S, NEW a, On(p, d, a)
    PROVE  /\ Row(p, a, d) \in ClosureOf(p, S)
           /\ Row(p, a, d)[1] = a /\ Row(p, a, d)[2] = d /\ Row(p, a, d)[3] = Depth(p, d) - Depth(p, a)
<1>1. Depth(p, a) \in 1..Depth(p, d) /\ Chain(p, d)[Depth(p, a)] = a  BY OnIs
<1>2. Chain(p, d) \in Seq(Nodes) /\ Depth(p, d) = Len(Chain(p, d))  BY ChainHas DEF Depth
<1>3. Depth(p, a) \in DOMAIN Chain(p, d)  BY <1>1, <1>2
<1>4. <<Chain(p, d)[Depth(p, a)], d, Len(Chain(p, d)) - Depth(p, a)>> \in ClosureOf(p, S)
  BY <1>3 DEF ClosureOf
<1>. QED  BY <1>1, <1>2, <1>4 DEF Row

\* A table is that of a forest if it has the rows of its ways and no others.
Tells(p, S, R) ==
    /\ \A x \in R : x[2] \in S /\ On(p, x[2], x[1]) /\ x = Row(p, x[1], x[2])
    /\ \A d \in S : \A a : On(p, d, a) => Row(p, a, d) \in R

LEMMA TableIs ==
    ASSUME NEW p, NEW S, IsForest(p, S), NEW R, Tells(p, S, R)
    PROVE  R = ClosureOf(p, S)
<1>1. ASSUME NEW x \in R PROVE x \in ClosureOf(p, S)
  <2>1. x[2] \in S /\ On(p, x[2], x[1]) /\ x = Row(p, x[1], x[2])  BY DEF Tells
  <2>2. Row(p, x[1], x[2]) \in ClosureOf(p, S)  BY <2>1, HasRow
  <2>. QED  BY <2>1, <2>2
<1>2. ASSUME NEW x \in ClosureOf(p, S) PROVE x \in R
  <2>1. x[2] \in S /\ On(p, x[2], x[1]) /\ x = Row(p, x[1], x[2])  BY RowHas
  <2>. QED  BY <2>1 DEF Tells
<1>. QED  BY <1>1, <1>2

LEMMA PlantedRows ==
    ASSUME NEW p, NEW S, IsForest(p, S), NEW n \in Nodes \ S
    PROVE  ClosureOf(p, S) \cup {<<n, n, 0>>} = ClosureOf(p, S \cup {n})
<1>1. IsForest(p, S \cup {n}) /\ Chain(p, n) = <<n>> /\ Depth(p, n) = 1  BY Planted
<1>2. PICK R : R = ClosureOf(p, S) \cup {<<n, n, 0>>}  OBVIOUS
<1>3. Row(p, n, n) = <<n, n, 0>>  BY <1>1 DEF Row
<1>4. On(p, n, n)  BY <1>1, OnIs
<1>5. ASSUME NEW x \in R PROVE x[2] \in S \cup {n} /\ On(p, x[2], x[1]) /\ x = Row(p, x[1], x[2])
  <2>1. CASE x \in ClosureOf(p, S)  BY <2>1, RowHas
  <2>2. CASE x = <<n, n, 0>>
    <3>1. x[1] = n /\ x[2] = n  BY <2>2
    <3>. QED  BY <1>3, <1>4, <2>2, <3>1
  <2>. QED  BY <1>2, <2>1, <2>2
<1>6. ASSUME NEW d \in S \cup {n}, NEW a, On(p, d, a) PROVE Row(p, a, d) \in R
  <2>1. CASE d = n
    <3>1. PICK i \in 1..1 : <<n>>[i] = a  BY <1>1, <1>6, <2>1 DEF On
    <3>2. a = n  BY <3>1
    <3>. QED  BY <1>2, <1>3, <2>1, <3>2
  <2>2. CASE d \in S  BY <1>2, <1>6, <2>2, HasRow
  <2>. QED  BY <2>1, <2>2
<1>7. Tells(p, S \cup {n}, R)  BY <1>5, <1>6 DEF Tells
<1>. QED  BY <1>1, <1>2, <1>7, TableIs

\* The ways once n is cut off ...
LEMMA CutWays ==
    ASSUME NEW p, NEW S, IsForest(p, S), NEW n \in S, NEW m \in S
    PROVE  /\ Depth(Cut(p, n), m) =
                  IF On(p, m, n) THEN Depth(p, m) - Depth(p, n) + 1 ELSE Depth(p, m)
           /\ \A a : On(Cut(p, n), m, a) <=> On(p, m, a) /\ (On(p, m, n) => On(p, a, n))
<1>q. PICK q : q = Cut(p, n)  OBVIOUS
<1>f. \A k \in S : Chain(q, k) =
          IF On(p, k, n) THEN SubSeq(Chain(p, k), Depth(p, n), Depth(p, k)) ELSE Chain(p, k)
  BY <1>q, CutOff
<1>1. PICK c : c = Chain(p, m)  OBVIOUS
<1>2. PICK L \in Nat : L = Depth(p, m) /\ L > 0 /\ L = Len(c)  BY <1>1, ChainHas DEF Depth
<1>3. c \in Seq(Nodes)  BY <1>1, ChainHas
<1>4. CASE ~On(p, m, n)
  <2>1. Chain(q, m) = Chain(p, m)  BY <1>4, <1>f
  <2>. QED  BY <1>4, <1>q, <2>1 DEF On, Depth
<1>5. CASE On(p, m, n)
  <2>1. PICK k \in 1..L : k = Depth(p, n)  BY <1>2, <1>5, OnIs
  <2>2. PICK d : d = SubSeq(c, k, L)  OBVIOUS
  <2>3. d = Chain(q, m)  BY <1>1, <1>2, <1>5, <2>1, <2>2, <1>f
  <2>4. Len(d) = L - k + 1 /\ \A j \in 1..(L - k + 1) : d[j] = c[k + j - 1]
    BY <1>2, <1>3, <2>1, <2>2, RestIs
  <2>5. Depth(q, m) = L - k + 1  BY <2>3, <2>4 DEF Depth
  <2>6. ASSUME NEW a, On(q, m, a) PROVE On(p, m, a) /\ On(p, a, n)
    <3>1. PICK j \in 1..(L - k + 1) : d[j] = a  BY <2>3, <2>5, <2>6 DEF On
    <3>2. PICK i : i = k + j - 1  OBVIOUS
    <3>3. i \in 1..L /\ i >= k  BY <1>2, <2>1, <3>1, <3>2
    <3>4. c[i] = a  BY <2>4, <3>1, <3>2
    <3>5. On(p, m, a)  BY <1>1, <1>2, <3>3, <3>4 DEF On
    <3>6. Depth(p, a) = i
      <4>1. Depth(p, a) \in 1..L /\ c[Depth(p, a)] = a  BY <1>1, <1>2, <3>5, OnIs
      <4>2. \A g, h \in 1..Depth(p, m) : Chain(p, m)[g] = Chain(p, m)[h] => g = h  BY ChainHas
      <4>. QED  BY <1>1, <1>2, <3>3, <3>4, <4>1, <4>2
    <3>7. On(p, a, n)  BY <1>5, <2>1, <3>3, <3>5, <3>6, OnTwo
    <3>. QED  BY <3>5, <3>7
  <2>7. ASSUME NEW a, On(p, m, a), On(p, a, n) PROVE On(q, m, a)
    <3>1. a \in S /\ Depth(p, a) \in 1..L /\ c[Depth(p, a)] = a  BY <1>1, <1>2, <2>7, OnIs
    <3>2. Depth(p, n) \in 1..Depth(p, a)  BY <2>7, <3>1, OnIs
    <3>3. PICK j : j = Depth(p, a) - k + 1  OBVIOUS
    <3>4. j \in 1..(L - k + 1) /\ k + j - 1 = Depth(p, a)  BY <1>2, <2>1, <3>1, <3>2, <3>3
    <3>5. d[j] = a  BY <2>4, <3>1, <3>4
    <3>. QED  BY <2>3, <2>5, <3>4, <3>5 DEF On
  <2>. QED  BY <1>2, <1>5, <1>q, <2>1, <2>5, <2>6, <2>7
<1>. QED  BY <1>4, <1>5, <1>q

\* ... once n is under t ...
LEMMA GraftWays ==
    ASSUME NEW p, NEW S, IsForest(p, S), NEW n \in S, NEW t \in S, p[n] = NoNode, ~On(p, t, n),
           NEW m \in S
    PROVE  /\ Depth(Graft(p, n, t), m) =
                  IF On(p, m, n) THEN Depth(p, t) + Depth(p, m) ELSE Depth(p, m)
           /\ \A a : On(Graft(p, n, t), m, a) <=> On(p, m, a) \/ (On(p, m, n) /\ On(p, t, a))
<1>q. PICK q : q = Graft(p, n, t)  OBVIOUS
<1>f. \A k \in S : Chain(q, k) = IF On(p, k, n) THEN Chain(p, t) \o Chain(p, k) ELSE Chain(p, k)
  BY <1>q, Grafted
<1>1. PICK c : c = Chain(p, m)  OBVIOUS
<1>2. PICK L \in Nat : L = Depth(p, m) /\ L > 0 /\ L = Len(c)  BY <1>1, ChainHas DEF Depth
<1>3. c \in Seq(Nodes)  BY <1>1, ChainHas
<1>4. CASE ~On(p, m, n)
  <2>1. Chain(q, m) = Chain(p, m)  BY <1>4, <1>f
  <2>. QED  BY <1>4, <1>q, <2>1 DEF On, Depth
<1>5. CASE On(p, m, n)
  <2>1. PICK u : u = Chain(p, t)  OBVIOUS
  <2>2. PICK T \in Nat : T = Depth(p, t) /\ T > 0 /\ T = Len(u)  BY <2>1, ChainHas DEF Depth
  <2>3. u \in Seq(Nodes)  BY <2>1, ChainHas
  <2>4. PICK d : d = u \o c  OBVIOUS
  <2>5. d = Chain(q, m)  BY <1>1, <1>5, <2>1, <2>4, <1>f
  <2>6. Len(d) = T + L /\ \A i \in 1..T + L : d[i] = IF i <= T THEN u[i] ELSE c[i - T]
    BY <1>2, <1>3, <2>2, <2>3, <2>4, ConcatProperties
  <2>7. Depth(q, m) = T + L  BY <2>5, <2>6 DEF Depth
  <2>8. ASSUME NEW a, On(q, m, a) PROVE On(p, m, a) \/ On(p, t, a)
    <3>1. PICK i \in 1..T + L : d[i] = a  BY <2>5, <2>7, <2>8 DEF On
    <3>2. CASE i <= T
      <4>1. i \in 1..T /\ u[i] = a  BY <2>6, <3>1, <3>2
      <4>. QED  BY <2>1, <2>2, <4>1 DEF On
    <3>3. CASE ~(i <= T)
      <4>1. i - T \in 1..L /\ c[i - T] = a  BY <1>2, <2>2, <2>6, <3>1, <3>3
      <4>. QED  BY <1>1, <1>2, <4>1 DEF On
    <3>. QED  BY <3>2, <3>3
  <2>9. ASSUME NEW a, On(p, m, a) PROVE On(q, m, a)
    <3>1. PICK i \in 1..L : c[i] = a  BY <1>1, <1>2, <2>9 DEF On
    <3>2. T + i \in 1..T + L /\ ~(T + i <= T) /\ (T + i) - T = i  BY <1>2, <2>2, <3>1
    <3>3. d[T + i] = a  BY <2>6, <3>1, <3>2
    <3>. QED  BY <2>5, <2>7, <3>2, <3>3 DEF On
  <2>10. ASSUME NEW a, On(p, t, a) PROVE On(q, m, a)
    <3>1. PICK i \in 1..T : u[i] = a  BY <2>1, <2>2, <2>10 DEF On
    <3>2. i \in 1..T + L /\ i <= T  BY <1>2, <2>2, <3>1
    <3>3. d[i] = a  BY <2>6, <3>1, <3>2
    <3>. QED  BY <2>5, <2>7, <3>2, <3>3 DEF On
  <2>. QED  BY <1>2, <1>5, <1>q, <2>2, <2>7, <2>8, <2>9, <2>10
<1>. QED  BY <1>4, <1>5, <1>q

\* ... and without its subtree.
Fell(p, S, n) == [m \in Nodes |-> IF m \in Below(p, S, n) THEN NoNode ELSE p[m]]

LEMMA CutRows ==
    ASSUME NEW p, NEW S, IsForest(p, S), NEW n \in S,
           NEW R, R = {x \in ClosureOf(p, S) : x[2] \in Below(p, S, n) => x[1] \in Below(p, S, n)}
    PROVE  R = ClosureOf(Cut(p, n), S)
<1>q. PICK q : q = Cut(p, n)  OBVIOUS
<1>f. IsForest(q, S)  BY <1>q, CutOff
<1>1. \A m \in S : /\ Depth(p, m) \in Nat
                   /\ Depth(q, m) = IF On(p, m, n) THEN Depth(p, m) - Depth(p, n) + 1 ELSE Depth(p, m)
                   /\ \A a : On(q, m, a) <=> On(p, m, a) /\ (On(p, m, n) => On(p, a, n))
  BY <1>q, CutWays, ChainHas
\* The distance of two that stay on one way.
<1>2. ASSUME NEW d \in S, NEW a, On(q, d, a) PROVE Row(q, a, d) = Row(p, a, d)
  <2>1. On(p, d, a) /\ (On(p, d, n) => On(p, a, n)) /\ a \in S  BY <1>1, <1>2, OnIs
  <2>2. On(p, a, n) => On(p, d, n)  BY <2>1, OnOn
  <2>3. Depth(q, d) - Depth(q, a) = Depth(p, d) - Depth(p, a)  BY <1>1, <2>1, <2>2
  <2>. QED  BY <2>3 DEF Row
<1>3. ASSUME NEW x \in R PROVE x[2] \in S /\ On(q, x[2], x[1]) /\ x = Row(q, x[1], x[2])
  <2>1. x \in ClosureOf(p, S) /\ (x[2] \in Below(p, S, n) => x[1] \in Below(p, S, n))  OBVIOUS
  <2>2. x[1] \in S /\ x[2] \in S /\ On(p, x[2], x[1]) /\ x = Row(p, x[1], x[2])  BY <2>1, RowHas
  <2>3. On(q, x[2], x[1])  BY <1>1, <2>1, <2>2 DEF Below
  <2>. QED  BY <1>2, <2>2, <2>3
<1>4. ASSUME NEW d \in S, NEW a, On(q, d, a) PROVE Row(q, a, d) \in R
  <2>1. On(p, d, a) /\ (On(p, d, n) => On(p, a, n)) /\ a \in S  BY <1>1, <1>4, OnIs
  <2>2. /\ Row(p, a, d) \in ClosureOf(p, S) /\ Row(p, a, d)[1] = a /\ Row(p, a, d)[2] = d
    BY <2>1, HasRow
  <2>3. Row(p, a, d) \in R  BY <2>1, <2>2 DEF Below
  <2>. QED  BY <1>2, <1>4, <2>3
<1>5. Tells(q, S, R)  BY <1>3, <1>4 DEF Tells
<1>. QED  BY <1>q, <1>f, <1>5, TableIs

\* The rows that bring the tree of n under t.
Brought(R, n, t) == {<<x[1], y[2], x[3] + y[3] + 1>> : x \in {z \in R : z[2] = t}, y \in {z \in R : z[1] = n}}

LEMMA GraftRows ==
    ASSUME NEW p, NEW S, IsForest(p, S), NEW n \in S, NEW t \in S, p[n] = NoNode, ~On(p, t, n),
           NEW R, R = ClosureOf(p, S) \cup Brought(ClosureOf(p, S), n, t)
    PROVE  R = ClosureOf(Graft(p, n, t), S)
<1>q. PICK q : q = Graft(p, n, t)  OBVIOUS
<1>f. IsForest(q, S)  BY <1>q, Grafted
<1>1. \A m \in S : /\ Depth(p, m) \in Nat
                   /\ Depth(q, m) = IF On(p, m, n) THEN Depth(p, t) + Depth(p, m) ELSE Depth(p, m)
                   /\ \A a : On(q, m, a) <=> On(p, m, a) \/ (On(p, m, n) /\ On(p, t, a))
  BY <1>q, GraftWays, ChainHas
<1>2. Depth(p, n) = 1  BY ParentOn
<1>3. ASSUME NEW d \in S, NEW a, On(p, d, a) PROVE Row(q, a, d) = Row(p, a, d)
  <2>1. a \in S /\ Depth(p, a) > 0  BY <1>3, OnIs, ChainHas
  <2>2. On(p, a, n) => On(p, d, n)  BY <1>3, OnOn
  <2>3. On(p, d, n) => On(p, a, n)
    <3>1. 1 <= Depth(p, a)  BY <1>1, <2>1
    <3>. QED  BY <1>2, <1>3, <3>1, OnTwo
  <2>4. Depth(q, d) - Depth(q, a) = Depth(p, d) - Depth(p, a)  BY <1>1, <2>1, <2>2, <2>3
  <2>. QED  BY <2>4 DEF Row
<1>4. ASSUME NEW d \in S, On(p, d, n), NEW a, On(p, t, a)
      PROVE  /\ a \in S
             /\ Depth(q, d) - Depth(q, a) = (Depth(p, t) - Depth(p, a)) + (Depth(p, d) - Depth(p, n)) + 1
  <2>1. a \in S  BY <1>4, OnIs
  <2>2. ~On(p, a, n)  BY <1>4, OnOn
  <2>. QED  BY <1>1, <1>2, <1>4, <2>1, <2>2
<1>5. ASSUME NEW x \in R PROVE x[2] \in S /\ On(q, x[2], x[1]) /\ x = Row(q, x[1], x[2])
  <2>1. CASE x \in ClosureOf(p, S)
    <3>1. x[1] \in S /\ x[2] \in S /\ On(p, x[2], x[1]) /\ x = Row(p, x[1], x[2])  BY <2>1, RowHas
    <3>. QED  BY <1>1, <1>3, <3>1
  <2>2. CASE x \in Brought(ClosureOf(p, S), n, t)
    <3>1. PICK y \in ClosureOf(p, S), z \in ClosureOf(p, S) :
              y[2] = t /\ z[1] = n /\ x = <<y[1], z[2], y[3] + z[3] + 1>>
      BY <2>2 DEF Brought
    <3>2. /\ On(p, t, y[1]) /\ y[3] = Depth(p, t) - Depth(p, y[1])
          /\ z[2] \in S /\ On(p, z[2], n) /\ z[3] = Depth(p, z[2]) - Depth(p, n)
      BY <3>1, RowHas
    <3>3. x[1] = y[1] /\ x[2] = z[2]  BY <3>1
    <3>4. Depth(q, z[2]) - Depth(q, y[1]) = y[3] + z[3] + 1  BY <1>4, <3>2
    <3>5. On(q, z[2], y[1])  BY <1>1, <3>2
    <3>. QED  BY <3>1, <3>2, <3>3, <3>4, <3>5 DEF Row
  <2>. QED  BY <2>1, <2>2
<1>6. ASSUME NEW d \in S, NEW a, On(q, d, a) PROVE Row(q, a, d) \in R
  <2>1. CASE On(p, d, a)
    <3>1. Row(p, a, d) \in ClosureOf(p, S)  BY <2>1, HasRow
    <3>. QED  BY <1>3, <2>1, <3>1
  <2>2. CASE On(p, d, n) /\ On(p, t, a)
    <3>1. PICK y : y = Row(p, a, t)  OBVIOUS
    <3>2. PICK z : z = Row(p, n, d)  OBVIOUS
    <3>3. y \in ClosureOf(p, S) /\ y[1] = a /\ y[2] = t /\ y[3] = Depth(p, t) - Depth(p, a)
      BY <2>2, <3>1, HasRow
    <3>4. z \in ClosureOf(p, S) /\ z[1] = n /\ z[2] = d /\ z[3] = Depth(p, d) - Depth(p, n)
      BY <2>2, <3>2, HasRow
    <3>5. <<y[1], z[2], y[3] + z[3] + 1>> \in Brought(ClosureOf(p, S), n, t)  BY <3>3, <3>4 DEF Brought
    <3>6. Depth(q, d) - Depth(q, a) = y[3] + z[3] + 1  BY <1>4, <2>2, <3>3, <3>4
    <3>. QED  BY <3>3, <3>4, <3>5, <3>6 DEF Row
  <2>. QED  BY <1>1, <1>6, <2>1, <2>2
<1>7. Tells(q, S, R)  BY <1>5, <1>6 DEF Tells
<1>. QED  BY <1>q, <1>f, <1>7, TableIs

LEMMA FelledRows ==
    ASSUME NEW p, NEW S, IsForest(p, S), NEW n \in S,
           NEW R, R = {x \in ClosureOf(p, S) : x[2] \notin Below(p, S, n)}
    PROVE  R = ClosureOf(Fell(p, S, n), S \ Below(p, S, n))
<1>t. PICK T : T = S \ Below(p, S, n)  OBVIOUS
<1>q. PICK q : q = Fell(p, S, n)  OBVIOUS
<1>f. IsForest(q, T) /\ \A m \in T : Chain(q, m) = Chain(p, m)  BY <1>q, <1>t, Felled DEF Fell
<1>1. \A m \in T : /\ m \in S /\ Depth(q, m) = Depth(p, m)
                   /\ \A a : On(q, m, a) <=> On(p, m, a)
  BY <1>t, <1>f DEF Depth, On
<1>2. ASSUME NEW d \in T, NEW a, On(q, d, a) PROVE Row(q, a, d) = Row(p, a, d)
  <2>1. a \in T  BY <1>2, <1>f, OnIs
  <2>. QED  BY <1>1, <2>1 DEF Row
<1>3. ASSUME NEW x \in R PROVE x[2] \in T /\ On(q, x[2], x[1]) /\ x = Row(q, x[1], x[2])
  <2>1. x \in ClosureOf(p, S) /\ x[2] \notin Below(p, S, n)  OBVIOUS
  <2>2. x[2] \in S /\ On(p, x[2], x[1]) /\ x = Row(p, x[1], x[2])  BY <2>1, RowHas
  <2>3. x[2] \in T /\ On(q, x[2], x[1])  BY <1>1, <1>t, <2>1, <2>2
  <2>. QED  BY <1>2, <2>2, <2>3
<1>4. ASSUME NEW d \in T, NEW a, On(q, d, a) PROVE Row(q, a, d) \in R
  <2>1. d \in S /\ On(p, d, a) /\ d \notin Below(p, S, n)  BY <1>1, <1>4, <1>t
  <2>2. Row(p, a, d) \in ClosureOf(p, S) /\ Row(p, a, d)[2] = d  BY <2>1, HasRow
  <2>. QED  BY <1>2, <1>4, <2>1, <2>2
<1>5. Tells(q, T, R)  BY <1>3, <1>4 DEF Tells
<1>. QED  BY <1>q, <1>t, <1>f, <1>5, TableIs

-----------------------------------------------------------------------------
(* The paths of a forest *)

\* One path begins with another if the node of the other is on the way.
LEMMA PrefixOn ==
    ASSUME NEW p, NEW S, IsForest(p, S), NEW n \in S, NEW m \in S
    PROVE  IsPrefix(Chain(p, n), Chain(p, m)) <=> On(p, m, n)
<1>1. PICK c : c = Chain(p, n)  OBVIOUS
<1>2. PICK d : d = Chain(p, m)  OBVIOUS
<1>3. PICK k \in Nat : k = Depth(p, n) /\ k > 0 /\ k = Len(c)  BY <1>1, ChainHas DEF Depth
<1>4. PICK l \in Nat : l = Depth(p, m) /\ l > 0 /\ l = Len(d)  BY <1>2, ChainHas DEF Depth
<1>h. Chain(p, n) \in Seq(Nodes) /\ Chain(p, m) \in Seq(Nodes) /\ Chain(p, n)[Depth(p, n)] = n  BY ChainHas
<1>5. c \in Seq(Nodes) /\ d \in Seq(Nodes) /\ c[k] = n  BY <1>1, <1>2, <1>3, <1>h
<1>6. SubSeq(c, 1, k) = c  BY <1>3, <1>5, SubSeqFull
<1>7. IsPrefix(c, d) <=> k <= l /\ c = SubSeq(d, 1, k)  BY <1>3, <1>4, <1>6 DEF IsPrefix
<1>8. ASSUME k <= l, c = SubSeq(d, 1, k) PROVE On(p, m, n)
  <2>1. k \in 1..l /\ k \in 1..k  BY <1>3, <1>4, <1>8
  <2>2. c[k] = d[k]  BY <1>4, <1>5, <1>8, <2>1, PrefixIs
  <2>. QED  BY <1>2, <1>4, <1>5, <2>1, <2>2 DEF On
<1>9. ASSUME On(p, m, n) PROVE k <= l /\ c = SubSeq(d, 1, k)
  <2>1. k \in 1..l /\ c = SubSeq(d, 1, k)  BY <1>1, <1>2, <1>3, <1>4, <1>9, OnIs
  <2>. QED  BY <1>3, <1>4, <2>1
<1>. QED  BY <1>1, <1>2, <1>7, <1>8, <1>9

-----------------------------------------------------------------------------
(* The invariant *)

TreesSpec == TreesInit /\ [][TreesNext]_treeVars

TreeActions == [at : {"idle", "copy", "detach", "attach", "move"},
          node : Nodes \cup {NoNode}, to : Nodes \cup {NoNode}, from : Seq(Nodes), under : Seq(Nodes)]

TreesTyped ==
    /\ present \in SUBSET Nodes /\ parent \in [Nodes -> Nodes \cup {NoNode}]
    /\ closure \subseteq Nodes \X Nodes \X Nat
    /\ path \in [Nodes -> Seq(Nodes)]
    /\ treeCall \in [TreeCallers -> TreeActions]

\* What a call between two statements has: two nodes, which for paths stay in the tree.
Knows(v) ==
    /\ v.at \in {"copy", "detach", "attach"} =>
           treeKind = "closure" /\ v.node \in Nodes /\ v.to \in Nodes
    /\ v.at = "move" => treeKind = "path" /\ v.node \in present /\ v.to \in present

\* The table, or the paths, are those of the forest the calls have made.
Sound ==
    ~tangled => /\ IsForest(parent, present)
                /\ treeKind = "closure" => closure = ClosureOf(parent, present)
                /\ treeKind = "path" => path = PathsOf(parent, present)

TreesInv == TreesTyped /\ (\A c \in TreeCallers : Knows(treeCall[c])) /\ Sound

LEMMA NoCallKnows == NoCall \in TreeActions /\ Knows(NoCall) /\ Knows(NoCall)'
<1>1. <<>> \in Seq(Nodes)  OBVIOUS
<1>2. NoCall \in TreeActions  BY <1>1 DEF NoCall, TreeActions
<1>3. NoCall.at = "idle"  BY DEF NoCall
<1>. QED  BY <1>2, <1>3 DEF Knows

Called(a, n, t) == [NoCall EXCEPT !.at = a, !.node = n, !.to = t]

LEMMA CallOf ==
    ASSUME NEW a \in {"copy", "detach"}, NEW n \in Nodes, NEW t \in Nodes
    PROVE  Called(a, n, t) \in TreeActions /\ Called(a, n, t).at = a /\ Called(a, n, t).node = n /\ Called(a, n, t).to = t
<1>1. [NoCall EXCEPT !.at = a, !.node = n, !.to = t] = [at |-> a, node |-> n, to |-> t, from |-> <<>>, under |-> <<>>]
  <2>1. NoCall = [at |-> "idle", node |-> NoNode, to |-> NoNode, from |-> <<>>, under |-> <<>>]  BY DEF NoCall
  <2>2. PICK w : w = NoCall  OBVIOUS
  <2>3. DOMAIN w = {"at", "node", "to", "from", "under"} /\ w.from = <<>> /\ w.under = <<>>
        /\ w = [f \in {"at", "node", "to", "from", "under"} |-> w[f]]
    BY <2>1, <2>2
  <2>4. [w EXCEPT !.at = a, !.node = n, !.to = t]
            = [f \in {"at", "node", "to", "from", "under"} |->
                   IF f = "to" THEN t ELSE IF f = "node" THEN n ELSE IF f = "at" THEN a ELSE w[f]]
    BY <2>3
  <2>5. [w EXCEPT !.at = a, !.node = n, !.to = t] = [at |-> a, node |-> n, to |-> t, from |-> <<>>, under |-> <<>>]
    BY <2>3, <2>4
  <2>. QED  BY <2>2, <2>5
<1>2. <<>> \in Seq(Nodes)  OBVIOUS
<1>. QED  BY <1>1, <1>2 DEF TreeActions, Called

\* One caller goes on.
LEMMA OneGoesOn ==
    ASSUME TreesTyped, \A e \in TreeCallers : Knows(treeCall[e]),
           treeKind' = treeKind, treeKind = "path" => present \subseteq present',
           NEW c \in TreeCallers, NEW v \in TreeActions, treeCall' = [treeCall EXCEPT ![c] = v], Knows(v)'
    PROVE  treeCall' \in [TreeCallers -> TreeActions] /\ \A e \in TreeCallers : Knows(treeCall[e])'
<1>1. treeCall \in [TreeCallers -> TreeActions]  BY DEF TreesTyped
<1>2. treeCall' \in [TreeCallers -> TreeActions] /\ treeCall'[c] = v /\ \A e \in TreeCallers : e # c => treeCall'[e] = treeCall[e]
  BY <1>1
<1>3. ASSUME NEW e \in TreeCallers PROVE Knows(treeCall[e])'
  <2>1. CASE e = c
    <3>1. treeCall'[e] = v  BY <1>2, <2>1
    <3>. QED  BY <3>1 DEF Knows
  <2>2. CASE e # c
    <3>1. Knows(treeCall[e]) /\ treeCall'[e] = treeCall[e]  BY <1>2, <2>2
    <3>. QED  BY <3>1 DEF Knows
  <2>. QED  BY <2>1, <2>2
<1>. QED  BY <1>2, <1>3

-----------------------------------------------------------------------------
(* Every step preserves it: ClosureTableManager *)

LEMMA SubtreeIs ==
    ASSUME Sound, ~tangled, treeKind = "closure", NEW n
    PROVE  /\ IsForest(parent, present) /\ closure = ClosureOf(parent, present)
           /\ SubtreeIds(n) = Below(parent, present, n)
<1>1. IsForest(parent, present) /\ closure = ClosureOf(parent, present)  BY DEF Sound
<1>2. ASSUME NEW d \in SubtreeIds(n) PROVE d \in Below(parent, present, n)
  <2>1. PICK x \in closure : x[1] = n /\ x[2] = d  BY <1>2 DEF SubtreeIds
  <2>2. d \in present /\ On(parent, d, n)  BY <1>1, <2>1, RowHas
  <2>. QED  BY <2>2 DEF Below
<1>3. ASSUME NEW d \in Below(parent, present, n) PROVE d \in SubtreeIds(n)
  <2>1. d \in present /\ On(parent, d, n)  BY DEF Below
  <2>2. PICK x : x = Row(parent, n, d)  OBVIOUS
  <2>3. x \in closure /\ x[1] = n /\ x[2] = d  BY <1>1, <2>1, <2>2, HasRow
  <2>. QED  BY <2>3 DEF SubtreeIds
<1>. QED  BY <1>1, <1>2, <1>3

LEMMA SubtreeWithin == TreesTyped => \A n : SubtreeIds(n) \subseteq Nodes
  BY DEF TreesTyped, SubtreeIds

LEMMA InsertNodeInv ==
    ASSUME TreesInv, NEW c \in TreeCallers, NEW n \in Nodes, NEW p \in Nodes \cup {NoNode}, InsertNode(c, n, p)
    PROVE  TreesInv'
<1>1. /\ treeKind = "closure" /\ n \notin present /\ p \in present \cup {NoNode}
      /\ treeCall' = [treeCall EXCEPT ![c] = IF p = NoNode THEN NoCall
                                              ELSE [NoCall EXCEPT !.at = "copy", !.node = n, !.to = p]]
      /\ present' = present \cup {n} /\ closure' = closure \cup {<<n, n, 0>>}
      /\ treeKind' = treeKind /\ parent' = parent /\ path' = path /\ tangled' = tangled
  BY DEF InsertNode, Enter
<1>2. TreesTyped /\ (\A e \in TreeCallers : Knows(treeCall[e])) /\ Sound  BY DEF TreesInv
<1>3. PICK v \in TreeActions : treeCall' = [treeCall EXCEPT ![c] = v] /\ Knows(v)'
  <2>1. CASE p = NoNode  BY <1>1, <2>1, NoCallKnows
  <2>2. CASE p # NoNode
    <3>1. PICK t \in Nodes : t = p  BY <2>2
    <3>2. PICK v : v = Called("copy", n, t)  OBVIOUS
    <3>3. v \in TreeActions /\ v.at = "copy" /\ v.node = n /\ v.to = t  BY <3>2, CallOf
    <3>4. Knows(v)'  BY <1>1, <3>1, <3>3 DEF Knows
    <3>5. treeCall' = [treeCall EXCEPT ![c] = v]  BY <1>1, <2>2, <3>1, <3>2 DEF Called
    <3>. QED  BY <3>3, <3>4, <3>5
  <2>. QED  BY <2>1, <2>2
<1>4. treeCall' \in [TreeCallers -> TreeActions] /\ \A e \in TreeCallers : Knows(treeCall[e])'
  BY <1>1, <1>2, <1>3, OneGoesOn
<1>5. TreesTyped'  BY <1>1, <1>2, <1>4 DEF TreesTyped
<1>6. Sound'
  <2>. SUFFICES ASSUME ~tangled
                PROVE  IsForest(parent, present') /\ closure' = ClosureOf(parent, present')
    BY <1>1 DEF Sound
  <2>1. IsForest(parent, present) /\ closure = ClosureOf(parent, present)  BY <1>1, <1>2 DEF Sound
  <2>. QED  BY <1>1, <2>1, Planted, PlantedRows
<1>. QED  BY <1>4, <1>5, <1>6 DEF TreesInv

LEMMA MoveNodeInv ==
    ASSUME TreesInv, NEW c \in TreeCallers, NEW n \in Nodes, NEW to \in Nodes, MoveNode(c, n, to)
    PROVE  TreesInv'
<1>1. /\ treeKind = "closure"
      /\ treeCall' = [treeCall EXCEPT ![c] = [NoCall EXCEPT !.at = "detach", !.node = n, !.to = to]]
      /\ UNCHANGED <<treeKind, parent, present, closure, path, tangled>>
  BY DEF MoveNode, Enter
<1>2. TreesTyped /\ (\A e \in TreeCallers : Knows(treeCall[e])) /\ Sound  BY DEF TreesInv
<1>3. PICK v \in TreeActions : treeCall' = [treeCall EXCEPT ![c] = v] /\ Knows(v)'
  <2>1. PICK v : v = Called("detach", n, to)  OBVIOUS
  <2>2. v \in TreeActions /\ v.at = "detach" /\ v.node = n /\ v.to = to  BY <2>1, CallOf
  <2>3. Knows(v)'  BY <1>1, <2>2 DEF Knows
  <2>4. treeCall' = [treeCall EXCEPT ![c] = v]  BY <1>1, <2>1 DEF Called
  <2>. QED  BY <2>2, <2>3, <2>4
<1>4. treeCall' \in [TreeCallers -> TreeActions] /\ \A e \in TreeCallers : Knows(treeCall[e])'
  BY <1>1, <1>2, <1>3, OneGoesOn
<1>5. TreesTyped'  BY <1>1, <1>2, <1>4 DEF TreesTyped
<1>6. Sound'  BY <1>1, <1>2 DEF Sound
<1>. QED  BY <1>4, <1>5, <1>6 DEF TreesInv

LEMMA CallDiesInv ==
    ASSUME TreesInv, NEW c \in TreeCallers, CallDies(c)
    PROVE  TreesInv'
<1>1. /\ treeCall' = [treeCall EXCEPT ![c] = NoCall]
      /\ UNCHANGED <<treeKind, parent, present, closure, path, tangled>>
  BY DEF CallDies, Leave
<1>2. TreesTyped /\ (\A e \in TreeCallers : Knows(treeCall[e])) /\ Sound  BY DEF TreesInv
<1>3. NoCall \in TreeActions /\ Knows(NoCall)'  BY NoCallKnows
<1>4. treeCall' \in [TreeCallers -> TreeActions] /\ \A e \in TreeCallers : Knows(treeCall[e])'
  BY <1>1, <1>2, <1>3, OneGoesOn
<1>5. TreesTyped'  BY <1>1, <1>2, <1>4 DEF TreesTyped
<1>6. Sound'  BY <1>1, <1>2 DEF Sound
<1>. QED  BY <1>4, <1>5, <1>6 DEF TreesInv

\* What brings n under to, when the call is not astray.
LEMMA AttachedSound ==
    ASSUME TreesTyped, Sound, treeKind = "closure", UNCHANGED <<treeKind, present>>,
           NEW n \in Nodes, NEW t \in Nodes, NEW astray, Attached(n, t, astray),
           closure' = closure \cup Brought(closure, n, t)
    PROVE  /\ Sound'
           /\ parent' \in [Nodes -> Nodes \cup {NoNode}]
<1>1. parent' \in [Nodes -> Nodes \cup {NoNode}]  BY DEF Attached, TreesTyped
<1>2. ASSUME ~tangled' PROVE IsForest(parent', present) /\ closure' = ClosureOf(parent', present)
  <2>1. ~tangled /\ parent[n] = NoNode /\ t \notin SubtreeIds(n)  BY <1>2 DEF Attached
  <2>2. /\ IsForest(parent, present) /\ closure = ClosureOf(parent, present)
        /\ SubtreeIds(n) = Below(parent, present, n)
    BY <2>1, SubtreeIs
  <2>3. parent' = [parent EXCEPT ![n] = IF t \in present /\ n \in present THEN t ELSE NoNode]  BY DEF Attached
  <2>4. CASE t \in present /\ n \in present
    <3>1. parent' = Graft(parent, n, t)  BY <2>3, <2>4 DEF Graft
    <3>2. ~On(parent, t, n)  BY <2>1, <2>2, <2>4 DEF Below
    <3>3. PICK q : q = Graft(parent, n, t)  OBVIOUS
    <3>4. IsForest(q, present)  BY <2>1, <2>2, <2>4, <3>2, <3>3, Grafted
    <3>5. PICK R : R = closure \cup Brought(closure, n, t)  OBVIOUS
    <3>6. R = ClosureOf(q, present)  BY <2>1, <2>2, <2>4, <3>2, <3>3, <3>5, GraftRows
    <3>. QED  BY <3>1, <3>3, <3>4, <3>5, <3>6
  <2>5. CASE ~(t \in present /\ n \in present)
    <3>1. parent' = parent  BY <2>1, <2>3, <2>5 DEF TreesTyped
    <3>2. Brought(closure, n, t) = {}  BY <2>2, <2>5, RowHas DEF Brought
    <3>. QED  BY <2>2, <3>1, <3>2
  <2>. QED  BY <2>4, <2>5
<1>. QED  BY <1>1, <1>2 DEF Sound

LEMMA NewRowsAre == \A n, t : NewRows(n, t) = Brought(closure, n, t)
  BY DEF NewRows, Brought, PathsTo

LEMMA AttachInv ==
    ASSUME TreesInv, NEW c \in TreeCallers, Attach(c)
    PROVE  TreesInv'
<1>1. PICK n : n = treeCall[c].node  OBVIOUS
<1>2. PICK t : t = treeCall[c].to  OBVIOUS
<1>3. /\ treeCall[c].at = "attach" /\ treeCall' = [treeCall EXCEPT ![c] = NoCall]
      /\ UNCHANGED <<treeKind, present, path>>
  BY DEF Attach, At, Leave
<1>4. \/ UNCHANGED <<closure, parent, tangled>>
      \/ closure' = closure \cup Brought(closure, n, t) /\ Attached(n, t, FALSE)
  <2>1. \/ UNCHANGED <<closure, parent, tangled>>
        \/ closure' = closure \cup NewRows(n, t) /\ Attached(n, t, FALSE)
    BY <1>1, <1>2 DEF Attach
  <2>. QED  BY <2>1, NewRowsAre
<1>5. TreesTyped /\ (\A e \in TreeCallers : Knows(treeCall[e])) /\ Sound  BY DEF TreesInv
<1>6. treeKind = "closure" /\ n \in Nodes /\ t \in Nodes  BY <1>1, <1>2, <1>3, <1>5 DEF Knows
<1>7. NoCall \in TreeActions /\ Knows(NoCall)'  BY NoCallKnows
<1>8. treeCall' \in [TreeCallers -> TreeActions] /\ \A e \in TreeCallers : Knows(treeCall[e])'
  BY <1>3, <1>5, <1>7, OneGoesOn
<1>9. CASE UNCHANGED <<closure, parent, tangled>>
  <2>1. TreesTyped'  BY <1>3, <1>5, <1>8, <1>9 DEF TreesTyped
  <2>2. Sound'  BY <1>3, <1>5, <1>9 DEF Sound
  <2>. QED  BY <1>8, <2>1, <2>2 DEF TreesInv
<1>10. CASE closure' = closure \cup Brought(closure, n, t) /\ Attached(n, t, FALSE)
  <2>1. Sound' /\ parent' \in [Nodes -> Nodes \cup {NoNode}]  BY <1>3, <1>5, <1>6, <1>10, AttachedSound
  <2>2. closure' \subseteq Nodes \X Nodes \X Nat
    <3>1. closure \subseteq Nodes \X Nodes \X Nat  BY <1>5 DEF TreesTyped
    <3>2. Brought(closure, n, t) \subseteq Nodes \X Nodes \X Nat  BY <3>1 DEF Brought
    <3>. QED  BY <1>10, <3>1, <3>2
  <2>3. TreesTyped'  BY <1>3, <1>5, <1>8, <2>1, <2>2 DEF TreesTyped
  <2>. QED  BY <1>8, <2>1, <2>3 DEF TreesInv
<1>. QED  BY <1>4, <1>9, <1>10

\* Where n has nothing below it, its rows are those of its new ancestors alone.
LEMMA CopiedIsBrought ==
    ASSUME Sound, ~tangled, treeKind = "closure", NEW n, NEW t, SubtreeIds(n) = {n}
    PROVE  {<<row[1], n, row[3] + 1>> : row \in PathsTo(t)} = Brought(closure, n, t)
<1>1. /\ IsForest(parent, present) /\ closure = ClosureOf(parent, present)
      /\ Below(parent, present, n) = {n}
  BY SubtreeIs
<1>2. n \in present  BY <1>1 DEF Below
<1>3. ASSUME NEW y \in closure, y[1] = n PROVE y[2] = n /\ y[3] = 0
  <2>1. y[2] \in present /\ On(parent, y[2], n) /\ y[3] = Depth(parent, y[2]) - Depth(parent, n)
    BY <1>1, <1>3, RowHas
  <2>2. y[2] = n  BY <1>1, <2>1 DEF Below
  <2>3. Depth(parent, n) \in Nat  BY <1>1, <1>2, ChainHas
  <2>. QED  BY <2>1, <2>2, <2>3
<1>4. PICK z : z = Row(parent, n, n)  OBVIOUS
<1>5. z \in closure /\ z[1] = n /\ z[2] = n  BY <1>1, <1>2, <1>4, OnIs, HasRow
<1>6. \A x \in closure : x[3] \in Nat  BY <1>1, RowHas
<1>7. ASSUME NEW x \in closure, NEW y \in closure, x[2] = t, y[1] = n
      PROVE  <<x[1], y[2], x[3] + y[3] + 1>> = <<x[1], n, x[3] + 1>>
  <2>1. y[2] = n /\ y[3] = 0 /\ x[3] \in Nat  BY <1>3, <1>6, <1>7
  <2>2. x[3] + y[3] + 1 = x[3] + 1  BY <2>1
  <2>. QED  BY <2>1, <2>2
<1>8. PICK A : A = {<<x[1], n, x[3] + 1>> : x \in {w \in closure : w[2] = t}}  OBVIOUS
<1>9. A = {<<row[1], n, row[3] + 1>> : row \in PathsTo(t)}  BY <1>8 DEF PathsTo
<1>10. ASSUME NEW r \in A PROVE r \in Brought(closure, n, t)
  <2>1. PICK x \in closure : x[2] = t /\ r = <<x[1], n, x[3] + 1>>  BY <1>8
  <2>2. r = <<x[1], z[2], x[3] + z[3] + 1>>  BY <1>5, <1>7, <2>1
  <2>. QED  BY <1>5, <2>1, <2>2 DEF Brought
<1>11. ASSUME NEW r \in Brought(closure, n, t) PROVE r \in A
  <2>1. PICK x \in closure, y \in closure : x[2] = t /\ y[1] = n /\ r = <<x[1], y[2], x[3] + y[3] + 1>>
    BY DEF Brought
  <2>2. r = <<x[1], n, x[3] + 1>>  BY <1>7, <2>1
  <2>. QED  BY <1>8, <2>1, <2>2
<1>. QED  BY <1>9, <1>10, <1>11

LEMMA CopyAncestorsInv ==
    ASSUME TreesInv, NEW c \in TreeCallers, CopyAncestors(c)
    PROVE  TreesInv'
<1>1. PICK n : n = treeCall[c].node  OBVIOUS
<1>2. PICK t : t = treeCall[c].to  OBVIOUS
<1>r. PICK rows : rows = {<<row[1], n, row[3] + 1>> : row \in PathsTo(t)}  OBVIOUS
<1>3. /\ treeCall[c].at = "copy" /\ treeCall' = [treeCall EXCEPT ![c] = NoCall]
      /\ UNCHANGED <<treeKind, present, path>>
  BY DEF CopyAncestors, At, Leave
<1>4. \/ UNCHANGED <<closure, parent, tangled>>
      \/ closure' = closure \cup rows /\ Attached(n, t, SubtreeIds(n) # {n})
  BY <1>1, <1>2, <1>r DEF CopyAncestors
<1>5. TreesTyped /\ (\A e \in TreeCallers : Knows(treeCall[e])) /\ Sound  BY DEF TreesInv
<1>6. treeKind = "closure" /\ n \in Nodes /\ t \in Nodes  BY <1>1, <1>2, <1>3, <1>5 DEF Knows
<1>7. NoCall \in TreeActions /\ Knows(NoCall)'  BY NoCallKnows
<1>8. treeCall' \in [TreeCallers -> TreeActions] /\ \A e \in TreeCallers : Knows(treeCall[e])'
  BY <1>3, <1>5, <1>7, OneGoesOn
<1>9. CASE UNCHANGED <<closure, parent, tangled>>
  <2>1. TreesTyped'  BY <1>3, <1>5, <1>8, <1>9 DEF TreesTyped
  <2>2. Sound'  BY <1>3, <1>5, <1>9 DEF Sound
  <2>. QED  BY <1>8, <2>1, <2>2 DEF TreesInv
<1>10. CASE closure' = closure \cup rows /\ Attached(n, t, SubtreeIds(n) # {n})
  <2>1. parent' \in [Nodes -> Nodes \cup {NoNode}]  BY <1>5, <1>10 DEF TreesTyped, Attached
  <2>2. closure' \subseteq Nodes \X Nodes \X Nat
    <3>1. closure \subseteq Nodes \X Nodes \X Nat  BY <1>5 DEF TreesTyped
    <3>2. rows \subseteq Nodes \X Nodes \X Nat  BY <1>6, <1>r, <3>1 DEF PathsTo
    <3>. QED  BY <1>10, <3>1, <3>2
  <2>3. TreesTyped'  BY <1>3, <1>5, <1>8, <2>1, <2>2 DEF TreesTyped
  <2>4. Sound'
    <3>1. CASE tangled'  BY <3>1 DEF Sound
    <3>2. CASE ~tangled'
      <4>1. ~tangled /\ SubtreeIds(n) = {n}  BY <1>10, <3>2 DEF Attached
      <4>2. rows = Brought(closure, n, t)  BY <1>5, <1>6, <1>r, <4>1, CopiedIsBrought
      <4>. QED  BY <1>3, <1>5, <1>6, <1>10, <4>2, AttachedSound
    <3>. QED  BY <3>1, <3>2
  <2>. QED  BY <1>8, <2>3, <2>4 DEF TreesInv
<1>. QED  BY <1>4, <1>9, <1>10

LEMMA DetachInv ==
    ASSUME TreesInv, NEW c \in TreeCallers, Detach(c)
    PROVE  TreesInv'
<1>1. PICK n : n = treeCall[c].node  OBVIOUS
<1>2. PICK v : v = [treeCall[c] EXCEPT !.at = "attach"]  OBVIOUS
<1>3. /\ treeCall[c].at = "detach" /\ treeCall' = [treeCall EXCEPT ![c].at = "attach"]
      /\ closure' = {row \in closure : row[2] \in SubtreeIds(n) => row[1] \in SubtreeIds(n)}
      /\ parent' = Cut(parent, n)
      /\ UNCHANGED <<treeKind, present, path, tangled>>
  BY <1>1 DEF Detach, At, Cut
<1>4. TreesTyped /\ (\A e \in TreeCallers : Knows(treeCall[e])) /\ Sound  BY DEF TreesInv
<1>5. treeCall \in [TreeCallers -> TreeActions]  BY <1>4 DEF TreesTyped
<1>6. treeKind = "closure" /\ n \in Nodes /\ treeCall[c].to \in Nodes  BY <1>1, <1>3, <1>4 DEF Knows
<1>7. v \in TreeActions /\ v.at = "attach" /\ v.node = n /\ v.to = treeCall[c].to
  <2>1. treeCall[c] \in TreeActions  BY <1>5
  <2>. QED  BY <1>1, <1>2, <2>1 DEF TreeActions
<1>8. Knows(v)'  BY <1>3, <1>6, <1>7 DEF Knows
<1>9. treeCall' = [treeCall EXCEPT ![c] = v]  BY <1>2, <1>3, <1>5
<1>10. treeCall' \in [TreeCallers -> TreeActions] /\ \A e \in TreeCallers : Knows(treeCall[e])'
  BY <1>3, <1>4, <1>7, <1>8, <1>9, OneGoesOn
<1>11. TreesTyped'  BY <1>3, <1>4, <1>10 DEF TreesTyped, Cut
<1>12. Sound'
  <2>. SUFFICES ASSUME ~tangled
                PROVE  IsForest(parent', present) /\ closure' = ClosureOf(parent', present)
    BY <1>3, <1>6 DEF Sound
  <2>1. /\ IsForest(parent, present) /\ closure = ClosureOf(parent, present)
        /\ SubtreeIds(n) = Below(parent, present, n)
    BY <1>4, <1>6, SubtreeIs
  <2>2. CASE n \in present
    <3>1. IsForest(Cut(parent, n), present)  BY <2>1, <2>2, CutOff
    <3>2. PICK R : R = {row \in closure : row[2] \in SubtreeIds(n) => row[1] \in SubtreeIds(n)}  OBVIOUS
    <3>3. R = {x \in ClosureOf(parent, present) :
                   x[2] \in Below(parent, present, n) => x[1] \in Below(parent, present, n)}
      BY <2>1, <3>2
    <3>4. R = ClosureOf(Cut(parent, n), present)  BY <2>1, <2>2, <3>3, CutRows
    <3>. QED  BY <1>3, <3>1, <3>2, <3>4
  <2>3. CASE n \notin present
    <3>1. parent[n] = NoNode  BY <1>6, <2>1, <2>3 DEF IsForest
    <3>2. parent' = parent  BY <1>3, <1>4, <3>1 DEF Cut, TreesTyped
    <3>3. SubtreeIds(n) = {}  BY <2>1, <2>3, OnIs DEF Below
    <3>. QED  BY <1>3, <2>1, <3>2, <3>3
  <2>. QED  BY <2>2, <2>3
<1>. QED  BY <1>10, <1>11, <1>12 DEF TreesInv

LEMMA DeleteNodeInv ==
    ASSUME TreesInv, NEW c \in TreeCallers, NEW n \in Nodes, DeleteNode(c, n)
    PROVE  TreesInv'
<1>1. /\ treeKind = "closure" /\ n \in present
      /\ treeCall' = [treeCall EXCEPT ![c] = NoCall]
      /\ closure' = {row \in closure : row[2] \notin SubtreeIds(n)}
      /\ present' = present \ SubtreeIds(n)
      /\ parent' = [m \in Nodes |-> IF m \in SubtreeIds(n) THEN NoNode ELSE parent[m]]
      /\ UNCHANGED <<treeKind, path, tangled>>
  BY DEF DeleteNode, Enter
<1>2. TreesTyped /\ (\A e \in TreeCallers : Knows(treeCall[e])) /\ Sound  BY DEF TreesInv
<1>3. NoCall \in TreeActions /\ Knows(NoCall)'  BY NoCallKnows
<1>4. treeCall' \in [TreeCallers -> TreeActions] /\ \A e \in TreeCallers : Knows(treeCall[e])'
  BY <1>1, <1>2, <1>3, OneGoesOn
<1>5. TreesTyped'  BY <1>1, <1>2, <1>4 DEF TreesTyped
<1>6. Sound'
  <2>. SUFFICES ASSUME ~tangled
                PROVE  IsForest(parent', present') /\ closure' = ClosureOf(parent', present')
    BY <1>1 DEF Sound
  <2>1. /\ IsForest(parent, present) /\ closure = ClosureOf(parent, present)
        /\ SubtreeIds(n) = Below(parent, present, n)
    BY <1>1, <1>2, SubtreeIs
  <2>2. parent' = Fell(parent, present, n) /\ present' = present \ Below(parent, present, n)
    BY <1>1, <2>1 DEF Fell
  <2>3. PICK q : q = Fell(parent, present, n)  OBVIOUS
  <2>4. PICK T : T = present \ Below(parent, present, n)  OBVIOUS
  <2>5. IsForest(q, T)  BY <1>1, <2>1, <2>3, <2>4, Felled DEF Fell
  <2>6. PICK R : R = {x \in ClosureOf(parent, present) : x[2] \notin Below(parent, present, n)}  OBVIOUS
  <2>7. R = ClosureOf(q, T)  BY <1>1, <2>1, <2>3, <2>4, <2>6, FelledRows
  <2>8. closure' = R  BY <1>1, <2>1, <2>6
  <2>. QED  BY <2>2, <2>3, <2>4, <2>5, <2>7, <2>8
<1>. QED  BY <1>4, <1>5, <1>6 DEF TreesInv

-----------------------------------------------------------------------------
(* MaterializedPathManager *)

LEMMA PathsAre ==
    ASSUME TreesTyped, Sound, ~tangled, treeKind = "path"
    PROVE  /\ IsForest(parent, present) /\ path = PathsOf(parent, present)
           /\ \A m \in present : path[m] = Chain(parent, m)
           /\ \A m \in Nodes \ present : path[m] = <<>>
<1>1. IsForest(parent, present) /\ path = PathsOf(parent, present) /\ present \subseteq Nodes
  BY DEF Sound, TreesTyped
<1>. QED  BY <1>1 DEF PathsOf

LEMMA BuildPathInv ==
    ASSUME TreesInv, NEW c \in TreeCallers, NEW n \in Nodes, NEW p \in Nodes \cup {NoNode}, BuildPath(c, n, p)
    PROVE  TreesInv'
<1>1. /\ treeKind = "path" /\ n \notin present /\ p \in present \cup {NoNode}
      /\ treeCall' = [treeCall EXCEPT ![c] = NoCall]
      /\ present' = present \cup {n}
      /\ path' = [path EXCEPT ![n] = IF p = NoNode THEN <<n>> ELSE Append(path[p], n)]
      /\ parent' = [parent EXCEPT ![n] = p]
      /\ UNCHANGED <<treeKind, closure, tangled>>
  BY DEF BuildPath, Enter
<1>2. TreesTyped /\ (\A e \in TreeCallers : Knows(treeCall[e])) /\ Sound  BY DEF TreesInv
<1>3. NoCall \in TreeActions /\ Knows(NoCall)'  BY NoCallKnows
<1>4. treeCall' \in [TreeCallers -> TreeActions] /\ \A e \in TreeCallers : Knows(treeCall[e])'
  BY <1>1, <1>2, <1>3, OneGoesOn
<1>5. path \in [Nodes -> Seq(Nodes)] /\ parent \in [Nodes -> Nodes \cup {NoNode}] /\ present \subseteq Nodes
  BY <1>2 DEF TreesTyped
<1>6. TreesTyped'
  <2>1. (IF p = NoNode THEN <<n>> ELSE Append(path[p], n)) \in Seq(Nodes)
    <3>1. CASE p = NoNode
      <4>1. <<n>> \in Seq(Nodes)  OBVIOUS
      <4>. QED  BY <3>1, <4>1
    <3>2. CASE p # NoNode
      <4>1. path[p] \in Seq(Nodes)  BY <1>5, <3>2
      <4>2. Append(path[p], n) \in Seq(Nodes)  BY <4>1, AppendProperties
      <4>. QED  BY <3>2, <4>2
    <3>. QED  BY <3>1, <3>2
  <2>2. path' \in [Nodes -> Seq(Nodes)]  BY <1>1, <1>5, <2>1
  <2>3. parent' \in [Nodes -> Nodes \cup {NoNode}]  BY <1>1, <1>5
  <2>. QED  BY <1>1, <1>2, <1>4, <2>2, <2>3 DEF TreesTyped
<1>7. Sound'
  <2>. SUFFICES ASSUME ~tangled
                PROVE  IsForest(parent', present') /\ path' = PathsOf(parent', present')
    BY <1>1 DEF Sound
  <2>1. /\ IsForest(parent, present)
        /\ \A m \in present : path[m] = Chain(parent, m)
        /\ \A m \in Nodes \ present : path[m] = <<>>
    BY <1>1, <1>2, PathsAre
  <2>2. n \in Nodes \ present /\ parent[n] = NoNode  BY <1>1, <2>1 DEF IsForest
  <2>3. PICK S : S = present \cup {n}  OBVIOUS
  <2>4. IsForest(parent, S) /\ Chain(parent, n) = <<n>>  BY <2>1, <2>2, <2>3, Planted
  <2>5. PICK q : q = parent'  OBVIOUS
  <2>6. /\ IsForest(q, S) /\ \A m \in present : Chain(q, m) = Chain(parent, m)
        /\ Chain(q, n) = IF p = NoNode THEN <<n>> ELSE Append(path[p], n)
    <3>1. CASE p = NoNode
      <4>1. q = parent  BY <1>1, <1>5, <2>2, <2>5, <3>1
      <4>. QED  BY <2>4, <3>1, <4>1
    <3>2. CASE p # NoNode
      <4>1. p \in present /\ p \in S /\ n \in S  BY <1>1, <2>3, <3>2
      <4>2. \A m \in present : ~On(parent, m, n)  BY <2>1, <2>2, OnIs
      <4>3. q = Graft(parent, n, p)  BY <1>1, <2>5 DEF Graft
      <4>4. ~On(parent, p, n)  BY <4>1, <4>2
      <4>5. /\ IsForest(Graft(parent, n, p), S)
            /\ \A m \in S : Chain(Graft(parent, n, p), m) =
                   IF On(parent, m, n) THEN Chain(parent, p) \o Chain(parent, m) ELSE Chain(parent, m)
        BY <2>2, <2>4, <4>1, <4>4, Grafted
      <4>6. On(parent, n, n)  BY <2>4, <4>1, OnIs
      <4>7. Chain(q, n) = Chain(parent, p) \o <<n>>  BY <2>4, <4>1, <4>3, <4>5, <4>6
      <4>8. Chain(parent, p) \o <<n>> = Append(Chain(parent, p), n)
        <5>1. Chain(parent, p) \in Seq(Nodes)  BY <2>1, <4>1, ChainHas
        <5>. QED  BY <5>1, AppendIsConcat
      <4>9. Chain(q, n) = Append(path[p], n)  BY <2>1, <4>1, <4>7, <4>8
      <4>10. \A m \in present : Chain(q, m) = Chain(parent, m)  BY <2>3, <4>2, <4>3, <4>5
      <4>. QED  BY <3>2, <4>3, <4>5, <4>9, <4>10
    <3>. QED  BY <3>1, <3>2
  <2>7. ASSUME NEW m \in Nodes PROVE path'[m] = IF m \in S THEN Chain(q, m) ELSE <<>>
    <3>1. CASE m = n  BY <1>1, <1>5, <2>3, <2>6, <3>1
    <3>2. CASE m # n
      <4>1. path'[m] = path[m]  BY <1>1, <1>5, <3>2
      <4>2. m \in S <=> m \in present  BY <2>3, <3>2
      <4>. QED  BY <2>1, <2>6, <4>1, <4>2
    <3>. QED  BY <3>1, <3>2
  <2>8. path' = [m \in Nodes |-> path'[m]]  BY <1>1, <1>5
  <2>9. path' = PathsOf(q, S)  BY <2>7, <2>8 DEF PathsOf
  <2>. QED  BY <1>1, <2>3, <2>5, <2>6, <2>9
<1>. QED  BY <1>4, <1>6, <1>7 DEF TreesInv

LEMMA ReadPathsInv ==
    ASSUME TreesInv, NEW c \in TreeCallers, NEW n \in Nodes, NEW to \in Nodes, ReadPaths(c, n, to)
    PROVE  TreesInv'
<1>1. /\ treeKind = "path" /\ n \in present /\ to \in present
      /\ treeCall' = [treeCall EXCEPT ![c] =
                          [at |-> "move", node |-> n, to |-> to, from |-> path[n], under |-> path[to]]]
      /\ UNCHANGED <<treeKind, parent, present, closure, path, tangled>>
  BY DEF ReadPaths, Enter
<1>2. TreesTyped /\ (\A e \in TreeCallers : Knows(treeCall[e])) /\ Sound  BY DEF TreesInv
<1>3. PICK v : v = [at |-> "move", node |-> n, to |-> to, from |-> path[n], under |-> path[to]]  OBVIOUS
<1>4. path[n] \in Seq(Nodes) /\ path[to] \in Seq(Nodes)  BY <1>2 DEF TreesTyped
<1>5. v \in TreeActions /\ v.at = "move" /\ v.node = n /\ v.to = to  BY <1>3, <1>4 DEF TreeActions
<1>6. Knows(v)'  BY <1>1, <1>5 DEF Knows
<1>7. treeCall' \in [TreeCallers -> TreeActions] /\ \A e \in TreeCallers : Knows(treeCall[e])'
  BY <1>1, <1>2, <1>3, <1>5, <1>6, OneGoesOn
<1>8. TreesTyped'  BY <1>1, <1>2, <1>7 DEF TreesTyped
<1>9. Sound'  BY <1>1, <1>2 DEF Sound
<1>. QED  BY <1>7, <1>8, <1>9 DEF TreesInv

\* The ways q has once the subtree of n is under t.
Transplant(p, S, n, t, q) ==
    \A m \in S : Chain(q, m) =
        IF On(p, m, n)
        THEN Append(Chain(p, t), n) \o SubSeq(Chain(p, m), Depth(p, n) + 1, Depth(p, m))
        ELSE Chain(p, m)

LEMMA JoinedThrice ==
    ASSUME NEW u \in Seq(Nodes), NEW e \in Seq(Nodes), NEW s \in Seq(Nodes)
    PROVE  (u \o e) \o s = u \o (e \o s)
<1>. QED  BY ConcatAssociative

LEMMA Transplanted ==
    ASSUME NEW p, NEW S, IsForest(p, S), NEW n \in S, NEW t \in S, ~On(p, t, n)
    PROVE  IsForest(Graft(p, n, t), S) /\ Transplant(p, S, n, t, Graft(p, n, t))
<1>1. PICK r : r = Cut(p, n)  OBVIOUS
<1>2. PICK q : q = Graft(r, n, t)  OBVIOUS
<1>3. S \subseteq Nodes /\ p \in [Nodes -> S \cup {NoNode}]  BY DEF IsForest
<1>4. r[n] = NoNode  BY <1>1, <1>3 DEF Cut
<1>g. q = Graft(p, n, t)  BY <1>1, <1>2, <1>3 DEF Cut, Graft
<1>5. /\ IsForest(r, S)
      /\ \A m \in S : Chain(r, m) = IF On(p, m, n) THEN SubSeq(Chain(p, m), Depth(p, n), Depth(p, m)) ELSE Chain(p, m)
  BY <1>1, CutOff
<1>6. \A m \in S : On(r, m, n) <=> On(p, m, n)
  <2>1. On(p, n, n)  BY OnIs
  <2>. QED  BY <1>1, <2>1, CutWays
<1>7. ~On(r, t, n)  BY <1>6
<1>8. /\ IsForest(q, S)
      /\ \A m \in S : Chain(q, m) = IF On(r, m, n) THEN Chain(r, t) \o Chain(r, m) ELSE Chain(r, m)
  <2>1. /\ IsForest(Graft(r, n, t), S)
        /\ \A m \in S : Chain(Graft(r, n, t), m) =
               IF On(r, m, n) THEN Chain(r, t) \o Chain(r, m) ELSE Chain(r, m)
    BY <1>4, <1>5, <1>7, Grafted
  <2>. QED  BY <1>2, <2>1
<1>9. Chain(r, t) = Chain(p, t) /\ Chain(p, t) \in Seq(Nodes)  BY <1>5, ChainHas
<1>10. ASSUME NEW m \in S, On(p, m, n)
       PROVE  Chain(q, m) = Append(Chain(p, t), n) \o SubSeq(Chain(p, m), Depth(p, n) + 1, Depth(p, m))
  <2>1. PICK c : c = Chain(p, m)  OBVIOUS
  <2>2. PICK L \in Nat : L = Depth(p, m) /\ L > 0 /\ L = Len(c)  BY <2>1, ChainHas DEF Depth
  <2>3. c \in Seq(Nodes)  BY <2>1, ChainHas
  <2>4. PICK k \in 1..L : k = Depth(p, n) /\ c[k] = n  BY <1>10, <2>1, <2>2, OnIs
  <2>5. PICK s : s = SubSeq(c, k + 1, L)  OBVIOUS
  <2>6. s \in Seq(Nodes)
    <3>1. k + 1 \in Int /\ L \in Int /\ \A i \in k + 1..L : c[i] \in Nodes  BY <2>2, <2>3, <2>4
    <3>. QED  BY <2>5, <3>1, SubSeqProperties
  <2>7. SubSeq(c, k, L) = <<n>> \o s
    <3>1. k \in 1..Len(c) /\ L \in k..Len(c)  BY <2>2, <2>4
    <3>2. SubSeq(c, k, L) = <<c[k]>> \o SubSeq(c, k + 1, L)  BY <2>3, <3>1, SubSeqRecursiveFirst
    <3>. QED  BY <2>4, <2>5, <3>2
  <2>8. PICK u : u = Chain(p, t)  OBVIOUS
  <2>9. PICK e : e = <<n>>  OBVIOUS
  <2>10. u \in Seq(Nodes) /\ e \in Seq(Nodes)  BY <1>3, <1>9, <2>8, <2>9
  <2>11. (u \o e) \o s = u \o (e \o s)  BY <2>6, <2>10, JoinedThrice
  <2>12. u \o e = Append(u, n)  BY <1>3, <2>9, <2>10, AppendIsConcat
  <2>13. Chain(q, m) = u \o SubSeq(c, k, L)
    <3>1. Chain(q, m) = Chain(r, t) \o Chain(r, m)  BY <1>6, <1>8, <1>10
    <3>2. Chain(r, m) = SubSeq(c, k, L)  BY <1>5, <1>10, <2>1, <2>2, <2>4
    <3>. QED  BY <1>9, <2>8, <3>1, <3>2
  <2>14. Chain(q, m) = Append(u, n) \o s  BY <2>7, <2>9, <2>11, <2>12, <2>13
  <2>. QED  BY <2>1, <2>2, <2>4, <2>5, <2>8, <2>14
<1>11. \A m \in S : ~On(p, m, n) => Chain(q, m) = Chain(p, m)  BY <1>5, <1>6, <1>8
<1>. QED  BY <1>g, <1>8, <1>10, <1>11 DEF Transplant

LEMMA MovePathsInv ==
    ASSUME TreesInv, NEW c \in TreeCallers, MovePaths(c)
    PROVE  TreesInv'
<1>1. PICK n : n = treeCall[c].node  OBVIOUS
<1>2. PICK t : t = treeCall[c].to  OBVIOUS
<1>3. PICK old : old = treeCall[c].from  OBVIOUS
<1>4. PICK under : under = treeCall[c].under  OBVIOUS
<1>5. PICK new : new = Append(under, n)  OBVIOUS
<1>6. /\ treeCall[c].at = "move" /\ treeCall' = [treeCall EXCEPT ![c] = NoCall]
      /\ UNCHANGED <<treeKind, present, closure>>
  BY DEF MovePaths, At, Leave
<1>7. \/ UNCHANGED <<path, parent, tangled>>
      \/ /\ ~IsPrefix(old, under)
         /\ path' = [m \in Nodes |-> IF m \in present /\ IsPrefix(old, path[m])
                                     THEN new \o SubSeq(path[m], Len(old) + 1, Len(path[m]))
                                     ELSE path[m]]
         /\ parent' = [parent EXCEPT ![n] = t]
         /\ tangled' = (tangled \/ path[n] # old \/ path[t] # under)
  BY <1>1, <1>2, <1>3, <1>4, <1>5 DEF MovePaths
<1>8. TreesTyped /\ (\A e \in TreeCallers : Knows(treeCall[e])) /\ Sound  BY DEF TreesInv
<1>9. treeKind = "path" /\ n \in present /\ t \in present  BY <1>1, <1>2, <1>6, <1>8 DEF Knows
<1>10. /\ path \in [Nodes -> Seq(Nodes)] /\ parent \in [Nodes -> Nodes \cup {NoNode}] /\ present \subseteq Nodes
       /\ old \in Seq(Nodes) /\ under \in Seq(Nodes)
  <2>1. treeCall[c] \in TreeActions  BY <1>8 DEF TreesTyped
  <2>. QED  BY <1>3, <1>4, <1>8, <2>1 DEF TreesTyped, TreeActions
<1>11. NoCall \in TreeActions /\ Knows(NoCall)'  BY NoCallKnows
<1>12. treeCall' \in [TreeCallers -> TreeActions] /\ \A e \in TreeCallers : Knows(treeCall[e])'
  BY <1>6, <1>8, <1>11, OneGoesOn
<1>13. CASE UNCHANGED <<path, parent, tangled>>
  <2>1. TreesTyped'  BY <1>6, <1>8, <1>12, <1>13 DEF TreesTyped
  <2>2. Sound'  BY <1>6, <1>8, <1>13 DEF Sound
  <2>. QED  BY <1>12, <2>1, <2>2 DEF TreesInv
<1>14. CASE ~UNCHANGED <<path, parent, tangled>>
  <2>1. path' \in [Nodes -> Seq(Nodes)]
    <3>1. new \in Seq(Nodes)  BY <1>5, <1>9, <1>10, AppendProperties
    <3>2. ASSUME NEW m \in Nodes PROVE new \o SubSeq(path[m], Len(old) + 1, Len(path[m])) \in Seq(Nodes)
      <4>1. PICK d \in Seq(Nodes) : d = path[m]  BY <1>10
      <4>2. PICK k \in Nat : k = Len(old)  BY <1>10
      <4>3. k + 1 \in Int /\ Len(d) \in Int /\ \A i \in k + 1..Len(d) : d[i] \in Nodes  OBVIOUS
      <4>4. PICK s : s = SubSeq(d, k + 1, Len(d))  OBVIOUS
      <4>5. s \in Seq(Nodes)  BY <4>3, <4>4, SubSeqProperties
      <4>6. new \o s \in Seq(Nodes)  BY <3>1, <4>5, ConcatProperties
      <4>. QED  BY <4>1, <4>2, <4>4, <4>6
    <3>3. path' = [m \in Nodes |-> IF m \in present /\ IsPrefix(old, path[m])
                                   THEN new \o SubSeq(path[m], Len(old) + 1, Len(path[m]))
                                   ELSE path[m]]
      BY <1>7, <1>14
    <3>4. ASSUME NEW m \in Nodes PROVE path'[m] \in Seq(Nodes)
      <4>1. CASE m \in present /\ IsPrefix(old, path[m])  BY <3>2, <3>3, <4>1
      <4>2. CASE ~(m \in present /\ IsPrefix(old, path[m]))  BY <1>10, <3>3, <4>2
      <4>. QED  BY <4>1, <4>2
    <3>5. path' = [m \in Nodes |-> path'[m]]  BY <3>3
    <3>. QED  BY <3>4, <3>5
  <2>2. parent' \in [Nodes -> Nodes \cup {NoNode}]  BY <1>7, <1>9, <1>10, <1>14
  <2>3. TreesTyped'  BY <1>6, <1>8, <1>12, <2>1, <2>2 DEF TreesTyped
  <2>4. Sound'
    <3>. SUFFICES ASSUME ~tangled'
                  PROVE  IsForest(parent', present) /\ path' = PathsOf(parent', present)
      BY <1>6, <1>9 DEF Sound
    <3>1. ~tangled /\ path[n] = old /\ path[t] = under /\ ~IsPrefix(old, under)  BY <1>7, <1>14
    <3>2. /\ IsForest(parent, present)
          /\ \A m \in present : path[m] = Chain(parent, m)
          /\ \A m \in Nodes \ present : path[m] = <<>>
      BY <1>8, <1>9, <3>1, PathsAre
    <3>3. ~On(parent, t, n)  BY <1>9, <3>1, <3>2, PrefixOn
    <3>4. PICK q : q = Graft(parent, n, t)  OBVIOUS
    <3>5. /\ IsForest(q, present)
          /\ \A m \in present : Chain(q, m) =
                 IF On(parent, m, n)
                 THEN Append(Chain(parent, t), n) \o SubSeq(Chain(parent, m), Depth(parent, n) + 1, Depth(parent, m))
                 ELSE Chain(parent, m)
      <4>1. IsForest(Graft(parent, n, t), present) /\ Transplant(parent, present, n, t, Graft(parent, n, t))
        BY <1>9, <3>2, <3>3, Transplanted
      <4>2. Transplant(parent, present, n, t, q)  BY <3>4, <4>1
      <4>. QED  BY <3>4, <4>1, <4>2 DEF Transplant
    <3>6. new = Append(Chain(parent, t), n) /\ Len(old) = Depth(parent, n)
      BY <1>5, <1>9, <3>1, <3>2 DEF Depth
    <3>7. ASSUME NEW m \in Nodes PROVE path'[m] = IF m \in present THEN Chain(q, m) ELSE <<>>
      <4>1. path'[m] = IF m \in present /\ IsPrefix(old, path[m])
                       THEN new \o SubSeq(path[m], Len(old) + 1, Len(path[m])) ELSE path[m]
        BY <1>7, <1>14
      <4>2. CASE m \in present
        <5>1. path[m] = Chain(parent, m) /\ Len(path[m]) = Depth(parent, m)  BY <3>2, <4>2 DEF Depth
        <5>2. IsPrefix(old, path[m]) <=> On(parent, m, n)  BY <1>9, <3>1, <3>2, <4>2, <5>1, PrefixOn
        <5>. QED  BY <3>5, <3>6, <4>1, <4>2, <5>1, <5>2
      <4>3. CASE m \notin present  BY <3>2, <4>1, <4>3
      <4>. QED  BY <4>2, <4>3
    <3>8. path' = [m \in Nodes |-> path'[m]]  BY <1>7, <1>14
    <3>9. path' = PathsOf(q, present)  BY <3>7, <3>8 DEF PathsOf
    <3>10. parent' = q  BY <1>7, <1>14, <3>4 DEF Graft
    <3>. QED  BY <3>5, <3>9, <3>10
  <2>. QED  BY <1>12, <2>3, <2>4 DEF TreesInv
<1>. QED  BY <1>13, <1>14

-----------------------------------------------------------------------------
(* What the queries find *)

LEMMA AncestorsAre ==
    ASSUME IsForest(parent, present), NEW n \in present
    PROVE  /\ \A a : a \in AncestorsOf(n) <=> On(parent, n, a) /\ a # n
           /\ Cardinality(AncestorsOf(n)) = Depth(parent, n) - 1
<1>1. PICK c : c = Chain(parent, n)  OBVIOUS
<1>2. PICK L \in Nat : L = Depth(parent, n) /\ L > 0 /\ L = Len(c)  BY <1>1, ChainHas DEF Depth
<1>h. /\ Chain(parent, n) \in Seq(Nodes) /\ Chain(parent, n)[Depth(parent, n)] = n
      /\ \A i, j \in 1..Depth(parent, n) : Chain(parent, n)[i] = Chain(parent, n)[j] => i = j
  BY ChainHas
<1>3. c \in Seq(Nodes) /\ c[L] = n /\ \A i, j \in 1..L : c[i] = c[j] => i = j  BY <1>1, <1>2, <1>h
<1>4. DOMAIN c = 1..L  BY <1>2, <1>3
<1>5. AncestorsOf(n) = {c[i] : i \in 1..L} \ {n}  BY <1>1, <1>4 DEF AncestorsOf
<1>6. \A a : a \in AncestorsOf(n) <=> On(parent, n, a) /\ a # n  BY <1>1, <1>2, <1>5 DEF On
<1>7. \A i \in 1..L : c[i] # n <=> i \in 1..(L - 1)
  <2>1. L \in 1..L  BY <1>2
  <2>2. \A i \in 1..L : c[i] = n <=> i = L  BY <1>3, <2>1
  <2>3. \A i \in 1..L : i # L <=> i \in 1..(L - 1)  BY <1>2
  <2>. QED  BY <2>2, <2>3
<1>8. PICK A : A = AncestorsOf(n)  OBVIOUS
<1>9. PICK f : f = [i \in 1..(L - 1) |-> c[i]]  OBVIOUS
<1>10. f \in Bijection(1..(L - 1), A)
  <2>1. \A i \in 1..(L - 1) : i \in 1..L  BY <1>2
  <2>2. f \in [1..(L - 1) -> A]  BY <1>5, <1>7, <1>8, <1>9, <2>1
  <2>3. \A i, j \in 1..(L - 1) : f[i] = f[j] => i = j  BY <1>3, <1>9, <2>1
  <2>4. \A a \in A : \E i \in 1..(L - 1) : f[i] = a
    <3>1. ASSUME NEW a \in A PROVE \E i \in 1..(L - 1) : f[i] = a
      <4>1. PICK i \in 1..L : c[i] = a /\ a # n  BY <1>5, <1>8
      <4>2. i \in 1..(L - 1)  BY <1>7, <4>1
      <4>. QED  BY <1>9, <4>1, <4>2
    <3>. QED  BY <3>1
  <2>. QED  BY <2>2, <2>3, <2>4 DEF Bijection, Injection, Surjection, IsInjective
<1>11. ExistsBijection(1..(L - 1), A)  BY <1>10 DEF ExistsBijection
<1>12. IsFiniteSet(1..(L - 1)) /\ Cardinality(1..(L - 1)) = L - 1
  <2>1. 1 \in Int /\ L - 1 \in Int /\ (1 > L - 1 => L - 1 = 0) /\ (L - 1) - 1 + 1 = L - 1  BY <1>2
  <2>. QED  BY <2>1, FS_Interval
<1>13. Cardinality(A) = L - 1  BY <1>11, <1>12, FS_Bijection
<1>. QED  BY <1>2, <1>6, <1>8, <1>13

LEMMA ChildrenAre ==
    ASSUME IsForest(parent, present), NEW n \in present, NEW m
    PROVE  /\ m \in Children(n) <=> /\ m \in present /\ On(parent, m, n)
                                    /\ Depth(parent, m) = Depth(parent, n) + 1
           /\ m \in present /\ On(parent, m, n) /\ m # n => Children(n) # {}
<1>1. ASSUME m \in Children(n)
      PROVE  m \in present /\ On(parent, m, n) /\ Depth(parent, m) = Depth(parent, n) + 1
  <2>1. m \in present /\ parent[m] = n  BY <1>1 DEF Children
  <2>2. parent[m] # NoNode  BY <2>1, TreesAssumption DEF IsForest
  <2>. QED  BY <2>1, <2>2, ParentOn
<1>2. ASSUME m \in present, On(parent, m, n), Depth(parent, m) = Depth(parent, n) + 1
      PROVE  m \in Children(n)
  <2>1. parent[m] = n  BY <1>2, ParentOn
  <2>. QED  BY <1>2, <2>1 DEF Children
<1>3. ASSUME m \in present, On(parent, m, n), m # n PROVE Children(n) # {}
  <2>1. PICK c : c = Chain(parent, m)  OBVIOUS
  <2>2. PICK L \in Nat : L = Depth(parent, m)  BY <1>3, ChainHas
  <2>o. Depth(parent, n) \in 1..Depth(parent, m) /\ Chain(parent, m)[Depth(parent, n)] = n  BY <1>3, OnIs
  <2>3. PICK k \in 1..L : k = Depth(parent, n) /\ c[k] = n  BY <2>1, <2>2, <2>o
  <2>4. Depth(parent, n) < Depth(parent, m)  BY <1>3, <2>2, <2>3, OnSame
  <2>5. k + 1 \in 1..L /\ k + 1 > 1 /\ (k + 1) - 1 = k  BY <2>2, <2>3, <2>4
  <2>h. /\ \A i \in 1..Depth(parent, m) : Chain(parent, m)[i] \in present
        /\ \A i \in 1..Depth(parent, m) : i > 1 => parent[Chain(parent, m)[i]] = Chain(parent, m)[i - 1]
    BY <1>3, ChainHas
  <2>6. c[k + 1] \in present /\ parent[c[k + 1]] = c[k]  BY <2>1, <2>2, <2>5, <2>h
  <2>. QED  BY <2>3, <2>6 DEF Children
<1>. QED  BY <1>1, <1>2, <1>3

LEMMA FromRow ==
    ASSUME IsForest(parent, present), closure = ClosureOf(parent, present)
    PROVE  \A x \in closure : /\ x[1] \in present /\ x[2] \in present /\ On(parent, x[2], x[1])
                              /\ x[3] = Depth(parent, x[2]) - Depth(parent, x[1]) /\ x[3] \in Nat
                              /\ x[3] = 0 <=> x[1] = x[2]
<1>1. ASSUME NEW x \in closure
      PROVE  /\ x[1] \in present /\ x[2] \in present /\ On(parent, x[2], x[1])
             /\ x[3] = Depth(parent, x[2]) - Depth(parent, x[1]) /\ x[3] \in Nat
             /\ x[3] = 0 <=> x[1] = x[2]
  <2>1. /\ x[1] \in present /\ x[2] \in present /\ On(parent, x[2], x[1])
        /\ x[3] = Depth(parent, x[2]) - Depth(parent, x[1]) /\ x[3] \in Nat
    BY <1>1, RowHas
  <2>2. Depth(parent, x[1]) \in Nat /\ Depth(parent, x[2]) \in Nat  BY <2>1, ChainHas
  <2>3. x[1] = x[2] => x[3] = 0  BY <2>1, <2>2
  <2>4. x[3] = 0 => Depth(parent, x[1]) >= Depth(parent, x[2])  BY <2>1, <2>2
  <2>5. x[3] = 0 => x[1] = x[2]  BY <2>1, <2>4, OnSame
  <2>. QED  BY <2>1, <2>3, <2>5
<1>. QED  BY <1>1

\* The row of each two on one way.
LEMMA ToRow ==
    ASSUME IsForest(parent, present), closure = ClosureOf(parent, present),
           NEW d \in present, NEW a, On(parent, d, a)
    PROVE  \E x \in closure : x[1] = a /\ x[2] = d
<1>1. PICK x : x = Row(parent, a, d)  OBVIOUS
<1>2. x \in closure /\ x[1] = a /\ x[2] = d  BY <1>1, HasRow
<1>. QED  BY <1>2

\* A root has no ancestors, a leaf no children.
LEMMA RootsAre ==
    ASSUME IsForest(parent, present), NEW n \in present
    PROVE  parent[n] = NoNode <=> \A a : On(parent, n, a) => a = n
<1>1. ASSUME parent[n] = NoNode, NEW a, On(parent, n, a) PROVE a = n
  <2>1. Depth(parent, n) = 1  BY <1>1, ParentOn
  <2>2. Depth(parent, a) \in 1..Depth(parent, n)  BY <1>1, OnIs
  <2>3. Depth(parent, a) >= Depth(parent, n)  BY <2>1, <2>2
  <2>. QED  BY <1>1, <2>3, OnSame
<1>2. ASSUME parent[n] # NoNode PROVE On(parent, n, parent[n]) /\ parent[n] # n
  <2>1. parent[n] \in present /\ On(parent, n, parent[n]) /\ Depth(parent, n) = Depth(parent, parent[n]) + 1
    BY <1>2, ParentOn
  <2>2. Depth(parent, n) \in Nat  BY ChainHas
  <2>. QED  BY <2>1, <2>2
<1>. QED  BY <1>1, <1>2

LEMMA LeavesAre ==
    ASSUME IsForest(parent, present), NEW n \in present
    PROVE  Children(n) = {} <=> \A m \in present : On(parent, m, n) => m = n
<1>1. ASSUME Children(n) = {}, NEW m \in present, On(parent, m, n) PROVE m = n
  BY <1>1, ChildrenAre
<1>2. ASSUME NEW m \in Children(n) PROVE m \in present /\ On(parent, m, n) /\ m # n
  <2>1. m \in present /\ On(parent, m, n) /\ Depth(parent, m) = Depth(parent, n) + 1  BY <1>2, ChildrenAre
  <2>2. Depth(parent, n) \in Nat  BY ChainHas
  <2>. QED  BY <2>1, <2>2
<1>. QED  BY <1>1, <1>2

LEMMA RootsFound ==
    ASSUME IsForest(parent, present), closure = ClosureOf(parent, present)
    PROVE  FindRoots = {n \in present : parent[n] = NoNode}
<1>1. ASSUME NEW n \in FindRoots PROVE n \in present /\ parent[n] = NoNode
  <2>1. PICK x \in closure : x[1] = n /\ x[3] = 0 /\ ~ \E y \in closure : y[2] = x[1] /\ y[3] > 0
    BY <1>1 DEF FindRoots
  <2>2. n \in present  BY <2>1, FromRow
  <2>3. ASSUME NEW a, On(parent, n, a), a # n PROVE FALSE
    <3>1. PICK y \in closure : y[1] = a /\ y[2] = n  BY <2>2, <2>3, ToRow
    <3>2. y[3] \in Nat /\ y[3] # 0  BY <2>3, <3>1, FromRow
    <3>. QED  BY <2>1, <3>1, <3>2
  <2>. QED  BY <2>2, <2>3, RootsAre
<1>2. ASSUME NEW n \in present, parent[n] = NoNode PROVE n \in FindRoots
  <2>1. On(parent, n, n)  BY OnIs
  <2>2. PICK x \in closure : x[1] = n /\ x[2] = n  BY <2>1, ToRow
  <2>3. x[3] = 0  BY <2>2, FromRow
  <2>4. ASSUME NEW y \in closure, y[2] = n, y[3] > 0 PROVE FALSE
    <3>1. On(parent, n, y[1]) /\ y[1] # n  BY <2>4, FromRow
    <3>. QED  BY <1>2, <3>1, RootsAre
  <2>. QED  BY <2>2, <2>3, <2>4 DEF FindRoots
<1>. QED  BY <1>1, <1>2

LEMMA LeavesFound ==
    ASSUME IsForest(parent, present), closure = ClosureOf(parent, present)
    PROVE  FindLeaves = {n \in present : Children(n) = {}}
<1>1. ASSUME NEW n \in FindLeaves PROVE n \in present /\ Children(n) = {}
  <2>1. PICK x \in closure : x[2] = n /\ x[3] = 0 /\ ~ \E y \in closure : y[1] = x[2] /\ y[3] > 0
    BY <1>1 DEF FindLeaves
  <2>2. n \in present  BY <2>1, FromRow
  <2>3. ASSUME NEW m \in present, On(parent, m, n), m # n PROVE FALSE
    <3>1. PICK y \in closure : y[1] = n /\ y[2] = m  BY <2>3, ToRow
    <3>2. y[3] \in Nat /\ y[3] # 0  BY <2>3, <3>1, FromRow
    <3>. QED  BY <2>1, <3>1, <3>2
  <2>. QED  BY <2>2, <2>3, LeavesAre
<1>2. ASSUME NEW n \in present, Children(n) = {} PROVE n \in FindLeaves
  <2>1. On(parent, n, n)  BY OnIs
  <2>2. PICK x \in closure : x[1] = n /\ x[2] = n  BY <2>1, ToRow
  <2>3. x[3] = 0  BY <2>2, FromRow
  <2>4. ASSUME NEW y \in closure, y[1] = n, y[3] > 0 PROVE FALSE
    <3>1. y[2] \in present /\ On(parent, y[2], n) /\ y[2] # n  BY <2>4, FromRow
    <3>. QED  BY <1>2, <3>1, LeavesAre
  <2>. QED  BY <2>2, <2>3, <2>4 DEF FindLeaves
<1>. QED  BY <1>1, <1>2

LEMMA RelativesFound ==
    ASSUME IsForest(parent, present), closure = ClosureOf(parent, present), NEW n \in present
    PROVE  /\ FindAncestors(n) = AncestorsOf(n)
           /\ FindChildren(n) = Children(n)
           /\ \A d \in 1..2 : FindDescendants(n, d) = Within(n, d)
<1>1. ASSUME NEW a PROVE a \in FindAncestors(n) <=> On(parent, n, a) /\ a # n
  <2>1. ASSUME a \in FindAncestors(n) PROVE On(parent, n, a) /\ a # n
    <3>1. PICK x \in closure : x[1] = a /\ x[2] = n /\ x[3] > 0  BY <2>1 DEF FindAncestors, PathsTo
    <3>. QED  BY <3>1, FromRow
  <2>2. ASSUME On(parent, n, a), a # n PROVE a \in FindAncestors(n)
    <3>1. PICK x \in closure : x[1] = a /\ x[2] = n  BY <2>2, ToRow
    <3>2. x[3] \in Nat /\ x[3] # 0  BY <2>2, <3>1, FromRow
    <3>. QED  BY <3>1, <3>2 DEF FindAncestors, PathsTo
  <2>. QED  BY <2>1, <2>2
<1>2. FindAncestors(n) = AncestorsOf(n)
  <2>1. \A a : a \in FindAncestors(n) <=> a \in AncestorsOf(n)  BY <1>1, AncestorsAre
  <2>. QED  BY <2>1
<1>3. ASSUME NEW m PROVE m \in FindChildren(n) <=> m \in Children(n)
  <2>1. ASSUME m \in FindChildren(n) PROVE m \in Children(n)
    <3>1. PICK x \in closure : x[1] = n /\ x[2] = m /\ x[3] = 1  BY <2>1 DEF FindChildren
    <3>2. m \in present /\ On(parent, m, n) /\ Depth(parent, m) - Depth(parent, n) = 1  BY <3>1, FromRow
    <3>3. Depth(parent, m) \in Nat /\ Depth(parent, n) \in Nat  BY <3>2, ChainHas
    <3>4. Depth(parent, m) = Depth(parent, n) + 1  BY <3>2, <3>3
    <3>. QED  BY <3>2, <3>4, ChildrenAre
  <2>2. ASSUME m \in Children(n) PROVE m \in FindChildren(n)
    <3>1. m \in present /\ On(parent, m, n) /\ Depth(parent, m) = Depth(parent, n) + 1  BY <2>2, ChildrenAre
    <3>2. PICK x \in closure : x[1] = n /\ x[2] = m  BY <3>1, ToRow
    <3>3. x[3] = Depth(parent, m) - Depth(parent, n)  BY <3>2, FromRow
    <3>4. Depth(parent, m) \in Nat /\ Depth(parent, n) \in Nat  BY <3>1, ChainHas
    <3>5. x[3] = 1  BY <3>1, <3>3, <3>4
    <3>. QED  BY <3>2, <3>5 DEF FindChildren
  <2>. QED  BY <2>1, <2>2
<1>4. FindChildren(n) = Children(n)  BY <1>3
<1>5. ASSUME NEW d \in 1..2 PROVE FindDescendants(n, d) = Within(n, d)
  <2>1. ASSUME NEW m \in FindDescendants(n, d) PROVE m \in Within(n, d)
    <3>1. PICK x \in closure : x[1] = n /\ x[2] = m /\ x[3] > 0 /\ x[3] <= d  BY <2>1 DEF FindDescendants
    <3>2. /\ m \in present /\ On(parent, m, n) /\ m # n /\ Depth(parent, m) - Depth(parent, n) <= d
      BY <3>1, FromRow
    <3>3. n \in AncestorsOf(m)  BY <3>2, AncestorsAre
    <3>. QED  BY <3>2, <3>3 DEF Within, Depth
  <2>2. ASSUME NEW m \in Within(n, d) PROVE m \in FindDescendants(n, d)
    <3>1. m \in present /\ n \in AncestorsOf(m) /\ Depth(parent, m) - Depth(parent, n) <= d
      BY <2>2 DEF Within, Depth
    <3>2. On(parent, m, n) /\ m # n  BY <3>1, AncestorsAre
    <3>3. PICK x \in closure : x[1] = n /\ x[2] = m  BY <3>1, <3>2, ToRow
    <3>4. x[3] \in Nat /\ x[3] # 0 /\ x[3] <= d  BY <3>1, <3>2, <3>3, FromRow
    <3>. QED  BY <3>3, <3>4 DEF FindDescendants
  <2>. QED  BY <2>1, <2>2
<1>. QED  BY <1>2, <1>4, <1>5

LEMMA DepthFound ==
    ASSUME IsForest(parent, present), closure = ClosureOf(parent, present), NEW n \in present
    PROVE  GetDepth(n) = Cardinality(AncestorsOf(n))
<1>1. PICK L \in Nat : L = Depth(parent, n) /\ L > 0  BY ChainHas
<1>2. PICK a : a = Chain(parent, n)[1]  OBVIOUS
<1>3. On(parent, n, a) /\ a \in present /\ parent[a] = NoNode
  <2>1. 1 \in 1..Depth(parent, n)  BY <1>1
  <2>2. On(parent, n, a)  BY <1>2, <2>1 DEF On
  <2>. QED  BY <1>2, <2>2, OnIs, ChainHas
<1>4. Depth(parent, a) = 1  BY <1>3, ParentOn
<1>5. PICK x \in closure : x[1] = a /\ x[2] = n  BY <1>3, ToRow
<1>6. x[3] = L - 1  BY <1>1, <1>4, <1>5, FromRow
<1>7. ASSUME NEW y \in PathsTo(n) PROVE y[3] \in Nat /\ y[3] <= L - 1
  <2>1. y \in closure /\ y[2] = n  BY <1>7 DEF PathsTo
  <2>2. y[1] \in present /\ y[3] = L - Depth(parent, y[1]) /\ y[3] \in Nat  BY <1>1, <2>1, FromRow
  <2>3. Depth(parent, y[1]) \in Nat /\ Depth(parent, y[1]) > 0  BY <2>2, ChainHas
  <2>. QED  BY <1>1, <2>2, <2>3
<1>8. x \in PathsTo(n)  BY <1>5 DEF PathsTo
<1>9. PICK D : D = {row[3] : row \in PathsTo(n)}  OBVIOUS
<1>10. L - 1 \in D /\ (\A row \in PathsTo(n) : row[3] <= L - 1)  BY <1>6, <1>7, <1>8, <1>9
<1>11. ASSUME NEW d \in D, \A row \in PathsTo(n) : row[3] <= d PROVE d = L - 1
  <2>1. d \in Nat /\ d <= L - 1  BY <1>7, <1>9
  <2>2. L - 1 <= d  BY <1>6, <1>8, <1>11
  <2>. QED  BY <1>1, <2>1, <2>2
<1>12. GetDepth(n) = CHOOSE d \in D : \A row \in PathsTo(n) : row[3] <= d  BY <1>9 DEF GetDepth
<1>13. GetDepth(n) = L - 1  BY <1>10, <1>11, <1>12
<1>. QED  BY <1>1, <1>13, AncestorsAre

\* A way without its end has the ancestors on it, and different nodes have different ways.
LEMMA FrontOfChain ==
    ASSUME IsForest(parent, present), NEW n \in present, path[n] = Chain(parent, n)
    PROVE  Range(SubSeq(path[n], 1, Len(path[n]) - 1)) = AncestorsOf(n)
<1>1. PICK c : c = Chain(parent, n)  OBVIOUS
<1>2. PICK L \in Nat : L = Depth(parent, n) /\ L > 0 /\ L = Len(c)  BY <1>1, ChainHas DEF Depth
<1>h. /\ Chain(parent, n) \in Seq(Nodes) /\ Chain(parent, n)[Depth(parent, n)] = n
      /\ \A i, j \in 1..Depth(parent, n) : Chain(parent, n)[i] = Chain(parent, n)[j] => i = j
  BY ChainHas
<1>3. c \in Seq(Nodes) /\ c[L] = n /\ \A i, j \in 1..L : c[i] = c[j] => i = j  BY <1>1, <1>2, <1>h
<1>4. DOMAIN c = 1..L  BY <1>2, <1>3
<1>5. PICK f : f = SubSeq(c, 1, L - 1)  OBVIOUS
<1>6. DOMAIN f = 1..(L - 1) /\ \A i \in 1..(L - 1) : f[i] = c[i]  BY <1>2, <1>3, <1>5
<1>7. Range(f) = {c[i] : i \in 1..(L - 1)}  BY <1>6 DEF Range
<1>8. AncestorsOf(n) = {c[i] : i \in 1..L} \ {n}  BY <1>1, <1>4 DEF AncestorsOf
<1>9. {c[i] : i \in 1..L} \ {n} = {c[i] : i \in 1..(L - 1)}
  <2>1. \A i \in 1..(L - 1) : i \in 1..L /\ i # L  BY <1>2
  <2>2. \A i \in 1..L : i = L \/ i \in 1..(L - 1)  BY <1>2
  <2>3. L \in 1..L  BY <1>2
  <2>. QED  BY <1>3, <2>1, <2>2, <2>3
<1>. QED  BY <1>1, <1>2, <1>5, <1>7, <1>8, <1>9

LEMMA ChainTells ==
    ASSUME IsForest(parent, present), \A m \in present : path[m] = Chain(parent, m),
           NEW n \in present, NEW m \in present
    PROVE  path[m] # path[n] <=> m # n
<1>1. Chain(parent, m)[Depth(parent, m)] = m /\ Chain(parent, n)[Depth(parent, n)] = n  BY ChainHas
<1>2. Depth(parent, m) = Len(Chain(parent, m)) /\ Depth(parent, n) = Len(Chain(parent, n))  BY DEF Depth
<1>. QED  BY <1>1, <1>2

\* What the paths answer.
LEMMA PathsAnswer ==
    ASSUME IsForest(parent, present), \A m \in present : path[m] = Chain(parent, m)
    PROVE  /\ PathRoots = {n \in present : parent[n] = NoNode}
           /\ PathLeaves = {n \in present : Children(n) = {}}
           /\ \A n \in present : /\ GetDepthFromPath(path[n]) = Cardinality(AncestorsOf(n))
                                 /\ Range(AncestorIdsFromPath(path[n])) = AncestorsOf(n)
                                 /\ PathDescendants(n) = {m \in present : n \in AncestorsOf(m)}
                                 /\ \A d \in 1..3 : PathDescendantsTo(n, d) = Within(n, d - 1)
<1>1. \A m \in present : Len(path[m]) = Depth(parent, m) /\ Depth(parent, m) \in Nat  BY ChainHas DEF Depth
<1>2. \A m, n \in present : IsPrefix(path[n], path[m]) <=> On(parent, m, n)  BY PrefixOn
<1>3. PathRoots = {n \in present : parent[n] = NoNode}
  <2>1. ASSUME NEW n \in present PROVE Len(path[n]) = 1 <=> parent[n] = NoNode
    <3>1. Len(path[n]) = Depth(parent, n)  BY <1>1
    <3>2. parent[n] = NoNode <=> Depth(parent, n) = 1  BY ParentOn
    <3>. QED  BY <3>1, <3>2
  <2>. QED  BY <2>1 DEF PathRoots
<1>4. PathLeaves = {n \in present : Children(n) = {}}
  <2>1. \A n \in present : Children(n) = {} <=> ~ \E m \in present \ {n} : IsPrefix(path[n], path[m])
    BY <1>2, LeavesAre
  <2>. QED  BY <2>1 DEF PathLeaves
<1>5. ASSUME NEW n \in present
      PROVE  /\ GetDepthFromPath(path[n]) = Cardinality(AncestorsOf(n))
             /\ Range(AncestorIdsFromPath(path[n])) = AncestorsOf(n)
             /\ PathDescendants(n) = {m \in present : n \in AncestorsOf(m)}
             /\ \A d \in 1..3 : PathDescendantsTo(n, d) = Within(n, d - 1)
  <2>1. GetDepthFromPath(path[n]) = Cardinality(AncestorsOf(n))  BY <1>1, AncestorsAre DEF GetDepthFromPath
  <2>2. Range(AncestorIdsFromPath(path[n])) = AncestorsOf(n)  BY FrontOfChain DEF AncestorIdsFromPath
  <2>3. ASSUME NEW m \in present
        PROVE  IsPrefix(path[n], path[m]) /\ path[m] # path[n] <=> n \in AncestorsOf(m)
    <3>1. IsPrefix(path[n], path[m]) <=> On(parent, m, n)  BY <1>2
    <3>2. path[m] # path[n] <=> m # n  BY ChainTells
    <3>3. n \in AncestorsOf(m) <=> On(parent, m, n) /\ n # m  BY AncestorsAre
    <3>. QED  BY <3>1, <3>2, <3>3
  <2>4. PathDescendants(n) = {m \in present : n \in AncestorsOf(m)}  BY <2>3 DEF PathDescendants
  <2>5. ASSUME NEW d \in 1..3 PROVE PathDescendantsTo(n, d) = Within(n, d - 1)
    <3>1. ASSUME NEW m \in present
          PROVE  Separators(path[m]) <= GetDepthFromPath(path[n]) + d + 1
                    <=> Depth(parent, m) - Depth(parent, n) <= d - 1
      <4>1. PICK k \in Nat : k = Depth(parent, m) /\ k = Len(path[m])  BY <1>1
      <4>2. PICK l \in Nat : l = Depth(parent, n) /\ l = Len(path[n])  BY <1>1
      <4>. QED  BY <4>1, <4>2 DEF Separators, GetDepthFromPath
    <3>2. ASSUME NEW m PROVE m \in PathDescendantsTo(n, d) <=> m \in Within(n, d - 1)
      <4>1. m \in PathDescendantsTo(n, d) <=>
                /\ m \in present /\ n \in AncestorsOf(m)
                /\ Separators(path[m]) <= GetDepthFromPath(path[n]) + d + 1
        BY <2>4 DEF PathDescendantsTo
      <4>2. m \in Within(n, d - 1) <=>
                m \in present /\ m # n /\ n \in AncestorsOf(m) /\ Depth(parent, m) - Depth(parent, n) <= d - 1
        BY DEF Within, Depth
      <4>3. m \in present => (n \in AncestorsOf(m) => m # n)  BY AncestorsAre
      <4>. QED  BY <3>1, <4>1, <4>2, <4>3
    <3>. QED  BY <3>2
  <2>. QED  BY <2>1, <2>2, <2>4, <2>5
<1>. QED  BY <1>3, <1>4, <1>5

-----------------------------------------------------------------------------
(* The theorem *)

LEMMA InvMeansTrees == TreesInv => TreesHold
<1>. SUFFICES ASSUME TreesInv PROVE TreesHold  OBVIOUS
<1>1. TreesTyped /\ Sound  BY DEF TreesInv
<1>2. TreesAreForests
  <2>. SUFFICES ASSUME ~tangled, treeKind = "closure" PROVE TreesAreForests  BY DEF TreesAreForests
  <2>1. IsForest(parent, present) /\ closure = ClosureOf(parent, present)  BY <1>1 DEF Sound
  <2>2. Acyclic(parent, present)  BY <2>1, ForestIsAcyclic
  <2>3. FindRoots = {n \in present : parent[n] = NoNode}  BY <2>1, RootsFound
  <2>4. FindLeaves = {n \in present : Children(n) = {}}  BY <2>1, LeavesFound
  <2>5. ASSUME NEW n \in present
        PROVE  /\ FindAncestors(n) = AncestorsOf(n)
               /\ FindChildren(n) = Children(n)
               /\ GetDepth(n) = Cardinality(AncestorsOf(n))
               /\ \A d \in 1..2 : FindDescendants(n, d) = Within(n, d)
    BY <2>1, RelativesFound, DepthFound
  <2>. QED  BY <2>1, <2>2, <2>3, <2>4, <2>5 DEF TreesAreForests
<1>3. PathsAreForests
  <2>. SUFFICES ASSUME ~tangled, treeKind = "path" PROVE PathsAreForests  BY DEF PathsAreForests
  <2>1. /\ IsForest(parent, present) /\ path = PathsOf(parent, present)
        /\ \A m \in present : path[m] = Chain(parent, m)
    BY <1>1, PathsAre
  <2>2. /\ PathRoots = {n \in present : parent[n] = NoNode}
        /\ PathLeaves = {n \in present : Children(n) = {}}
        /\ \A n \in present : /\ GetDepthFromPath(path[n]) = Cardinality(AncestorsOf(n))
                              /\ Range(AncestorIdsFromPath(path[n])) = AncestorsOf(n)
                              /\ PathDescendants(n) = {m \in present : n \in AncestorsOf(m)}
                              /\ \A d \in 1..3 : PathDescendantsTo(n, d) = Within(n, d - 1)
    BY <2>1, PathsAnswer
  <2>. QED  BY <2>1, <2>2 DEF PathsAreForests
<1>. QED  BY <1>2, <1>3 DEF TreesHold

LEMMA TreesInitInv == TreesInit => TreesInv
<1>. SUFFICES ASSUME TreesInit PROVE TreesInv  OBVIOUS
<1>1. PICK k \in TreeKinds, S \in SUBSET Nodes : \E p \in Forests(S) : TreeStart(k, p, S)  BY DEF TreesInit
<1>2. PICK p \in Forests(S) : TreeStart(k, p, S)  BY <1>1
<1>3. /\ treeKind = k /\ parent = p /\ present = S
      /\ closure = IF k = "closure" THEN ClosureOf(p, S) ELSE {}
      /\ path = IF k = "path" THEN PathsOf(p, S) ELSE [n \in Nodes |-> <<>>]
      /\ treeCall = [c \in TreeCallers |-> NoCall]
  BY <1>2 DEF TreeStart
<1>4. IsForest(p, S)  BY <1>2, AcyclicIsForest
<1>5. Sound  BY <1>3, <1>4 DEF Sound
<1>6. TreesTyped
  <2>1. p \in [Nodes -> Nodes \cup {NoNode}]  BY <1>4 DEF IsForest
  <2>2. closure \subseteq Nodes \X Nodes \X Nat
    <3>1. ASSUME NEW x \in ClosureOf(p, S) PROVE x \in Nodes \X Nodes \X Nat
      <4>1. x[1] \in S /\ x[2] \in S /\ x = Row(p, x[1], x[2]) /\ x[3] \in Nat
            /\ x[3] = Depth(p, x[2]) - Depth(p, x[1])
        BY <1>4, <3>1, RowHas
      <4>2. x = <<x[1], x[2], x[3]>>  BY <4>1 DEF Row
      <4>. QED  BY <4>1, <4>2
    <3>. QED  BY <1>3, <3>1
  <2>3. path \in [Nodes -> Seq(Nodes)]
    <3>1. <<>> \in Seq(Nodes)  OBVIOUS
    <3>2. \A n \in S : Chain(p, n) \in Seq(Nodes)  BY <1>4, ChainHas
    <3>3. PathsOf(p, S) \in [Nodes -> Seq(Nodes)]  BY <3>1, <3>2 DEF PathsOf
    <3>4. [n \in Nodes |-> <<>>] \in [Nodes -> Seq(Nodes)]  BY <3>1
    <3>. QED  BY <1>3, <3>3, <3>4
  <2>4. treeCall \in [TreeCallers -> TreeActions]  BY <1>3, NoCallKnows
  <2>. QED  BY <1>3, <2>1, <2>2, <2>3, <2>4 DEF TreesTyped
<1>7. \A c \in TreeCallers : Knows(treeCall[c])  BY <1>3, NoCallKnows
<1>. QED  BY <1>5, <1>6, <1>7 DEF TreesInv

LEMMA TreesNextInv == TreesInv /\ [TreesNext]_treeVars => TreesInv'
<1>. SUFFICES ASSUME TreesInv, [TreesNext]_treeVars PROVE TreesInv'  OBVIOUS
<1>1. CASE TreesNext
  <2>1. PICK c \in TreeCallers :
            \/ \E n \in Nodes, p \in Nodes \cup {NoNode} : InsertNode(c, n, p) \/ BuildPath(c, n, p)
            \/ \E n, to \in Nodes : MoveNode(c, n, to) \/ ReadPaths(c, n, to)
            \/ \E n \in Nodes : DeleteNode(c, n)
            \/ CopyAncestors(c) \/ Detach(c) \/ Attach(c) \/ CallDies(c) \/ MovePaths(c)
    BY <1>1 DEF TreesNext
  <2>2. CASE \E n \in Nodes, p \in Nodes \cup {NoNode} : InsertNode(c, n, p) \/ BuildPath(c, n, p)
    BY <2>2, InsertNodeInv, BuildPathInv
  <2>3. CASE \E n, to \in Nodes : MoveNode(c, n, to) \/ ReadPaths(c, n, to)
    BY <2>3, MoveNodeInv, ReadPathsInv
  <2>4. CASE \E n \in Nodes : DeleteNode(c, n)  BY <2>4, DeleteNodeInv
  <2>5. CASE CopyAncestors(c) \/ Detach(c) \/ Attach(c) \/ CallDies(c) \/ MovePaths(c)
    BY <2>5, CopyAncestorsInv, DetachInv, AttachInv, CallDiesInv, MovePathsInv
  <2>. QED  BY <2>1, <2>2, <2>3, <2>4, <2>5
<1>2. CASE UNCHANGED treeVars
  <2>1. UNCHANGED <<treeKind, parent, present, closure, path, treeCall, tangled>>  BY <1>2 DEF treeVars
  <2>2. TreesTyped /\ (\A e \in TreeCallers : Knows(treeCall[e])) /\ Sound  BY DEF TreesInv
  <2>3. TreesTyped' /\ Sound'  BY <2>1, <2>2 DEF TreesTyped, Sound
  <2>4. \A e \in TreeCallers : Knows(treeCall[e])'  BY <2>1, <2>2 DEF Knows
  <2>. QED  BY <2>3, <2>4 DEF TreesInv
<1>. QED  BY <1>1, <1>2

\* For any nodes, callers, calls that die between two statements and interleavings of
\* their statements: the closure table is the closure of one forest, with its depths, and
\* the paths are those of one forest, and every query answers from it, within the
\* exceptions that the property names.
THEOREM TreesStayForests == TreesSpec => []TreesHold
<1>1. TreesInit => TreesInv  BY TreesInitInv
<1>2. TreesInv /\ [TreesNext]_treeVars => TreesInv'  BY TreesNextInv
<1>3. TreesInv => TreesHold  BY InvMeansTrees
<1>. QED  BY <1>1, <1>2, <1>3, PTL DEF TreesSpec

-----------------------------------------------------------------------------
DiffsSpec == SchemaDiffsInit /\ [][SchemaDiffsNext]_diffVars

Places == {"create", "drop"}
Changes == {"add", "retype", "remove"}
Foreign == {"INTEGER", "int4", "TIMESTAMP", "timestamp", "TEXT"}

\* No two statements of a script are about the same table or the same column of one.
Apart(s, r) ==
    \/ "remark" \in {s.do, r.do}
    \/ s.table # r.table
    \/ s.do \in Changes /\ r.do \in Changes /\ s.column # r.column

Kinds == Places \cup Changes \cup {"remark"}

Tidy(script) ==
    /\ \A i \in 1..Len(script) : script[i].do \in Kinds
    /\ \A i, j \in 1..Len(script) : i # j => Apart(script[i], script[j])

\* What statement s finds in the catalogue that its script meets.
Finds(db, s) ==
    /\ s.do = "create" => s.table \notin DOMAIN db
    /\ s.do \in Changes \cup {"drop"} => s.table \in DOMAIN db
    /\ s.do = "add" => s.column \notin DOMAIN db[s.table]
    /\ s.do \in {"retype", "remove"} => s.column \in DOMAIN db[s.table]

\* What it leaves behind, of the catalogue old.
Leaves(old, db, s) ==
    /\ s.do = "create" => s.table \in DOMAIN db /\ db[s.table] = CreatedTable(s.table)
    /\ s.do = "drop" => s.table \notin DOMAIN db
    /\ s.do \in Changes => s.table \in DOMAIN db
    /\ s.do = "remove" => s.column \notin DOMAIN db[s.table]
    /\ s.do \in {"add", "retype"} =>
           s.column \in DOMAIN db[s.table] /\ db[s.table][s.column].type = DataType(s.type)
    /\ s.do = "add" => db[s.table][s.column].to = None
    /\ s.do = "retype" => db[s.table][s.column].to = old[s.table][s.column].to

NamesTable(script, n, t) == \E i \in 1..n : script[i].do \in Places /\ script[i].table = t
NamesColumn(script, n, t, c) ==
    \E i \in 1..n : script[i].do \in Changes /\ script[i].table = t /\ script[i].column = c

SameColumn(old, db, t, c) ==
    /\ c \in DOMAIN db[t] <=> c \in DOMAIN old[t]
    /\ c \in DOMAIN old[t] => db[t][c] = old[t][c]

\* The catalogue after the first n statements of a script.
After(old, script, n, db) ==
    /\ \A i \in 1..n : Finds(old, script[i]) /\ Leaves(old, db, script[i])
    /\ \A t \in DOMAIN old \cup DOMAIN db :
           ~NamesTable(script, n, t) =>
               /\ t \in DOMAIN old /\ t \in DOMAIN db
               /\ \A c \in DOMAIN old[t] \cup DOMAIN db[t] :
                      ~NamesColumn(script, n, t, c) => SameColumn(old, db, t, c)

\* Tables of a catalogue: finitely many columns each, of types it has itself.
OwnColumns(columns) == IsFiniteSet(DOMAIN columns) /\ \A c \in DOMAIN columns : columns[c].type \notin Foreign
OwnTypes(db) == \A t \in DOMAIN db : OwnColumns(db[t])

CatalogueOf ==
    /\ design \in Designs /\ upTo \in Nat
    /\ DOMAIN catalogue \subseteq ToSet(design.byName) /\ OwnTypes(catalogue)

Decided(d) == d.step \in {"generated", "up", "refused", "down", "stuck"}

\* What a diff has read, and made of it.
Reads(a) ==
    LET d == diff[a] IN
    /\ d = [step |-> d.step, names |-> d.names, seen |-> d.seen, up |-> d.up, down |-> d.down,
            fresh |-> d.fresh, undone |-> d.undone]
    /\ d.step \in {"idle", "reading", "generated", "up", "refused", "down", "stuck"}
    /\ d.names \subseteq ToSet(design.byName)
    /\ DOMAIN d.seen \subseteq d.names \cap Entities /\ OwnTypes(d.seen)
    /\ Decided(d) => /\ DOMAIN d.seen = d.names \cap Entities
                     /\ d.up = UpScript(a) /\ d.down = DownScript(a)

\* names and seen are what db has.
Mirrors(d, db) == d.names = DOMAIN db /\ \A t \in DOMAIN d.seen : d.seen[t] = db[t]

\* What nobody else has moved is as it was read.
Fresh(a) ==
    LET d == diff[a] IN
    d.fresh =>
        /\ d.step \in {"reading", "generated", "refused"} => Mirrors(d, catalogue)
        /\ d.step = "up" => Mirrors(d, before) /\ OwnTypes(before) /\ After(before, d.up, Len(d.up), catalogue)

\* db has come nearer to the entities than what d has read, or is that.
Near(d, db) ==
    /\ DOMAIN db \ Entities \subseteq d.names
    /\ d.names \cap Entities \subseteq DOMAIN db
    /\ \A t \in DOMAIN d.seen :
           /\ DOMAIN design.fields[t] \cap DOMAIN d.seen[t] \subseteq DOMAIN db[t]
           /\ DOMAIN db[t] \ DOMAIN design.fields[t] \subseteq DOMAIN d.seen[t]
           /\ \A c \in DOMAIN design.fields[t] \cap DOMAIN d.seen[t] :
                  db[t][c].type \in {d.seen[t][c].type, DataType(design.fields[t][c].diff)}

\* Where others have run ups only since.
Nearer(a) == ~diff[a].undone /\ diff[a].step \in {"reading", "generated"} => Near(diff[a], catalogue)

DiffsInv ==
    /\ CatalogueOf /\ diff = [a \in Architects |-> diff[a]]
    /\ \A a \in Architects : Reads(a) /\ Fresh(a) /\ Nearer(a)
    /\ DiffsHold

\* A list of the elements of S, each once.
Lists(s, S) ==
    /\ s \in Seq(S)
    /\ \A i, j \in 1..Len(s) : s[i] = s[j] => i = j
    /\ \A x \in S : \E i \in 1..Len(s) : s[i] = x

LEMMA ListOfSet ==
    ASSUME NEW S, IsFiniteSet(S)
    PROVE  Lists(SetToSeq(S), S)
<1>1. PICK n \in Nat : n = Cardinality(S)  BY FS_CardinalityType
<1>2. ExistsBijection(1..n, S)  BY <1>1, FS_CardinalityType
<1>3. PICK g \in Bijection(1..n, S) : TRUE  BY <1>2 DEF ExistsBijection
<1>4. g \in [1..n -> S] /\ \A i, j \in 1..n : g[i] = g[j] => i = j
  BY <1>3 DEF Bijection, Injection, IsInjective
<1>5. IsInjective(g)  BY <1>4 DEF IsInjective
<1>6. PICK s : s = SetToSeq(S)  OBVIOUS
<1>7. s \in [1..n -> S] /\ IsInjective(s)  BY <1>1, <1>4, <1>5, <1>6 DEF SetToSeq
<1>8. s \in Seq(S) /\ Len(s) = n  BY <1>7
<1>9. \A i, j \in 1..n : s[i] = s[j] => i = j  BY <1>7 DEF IsInjective
<1>10. ASSUME NEW x \in S, \A i \in 1..n : s[i] # x PROVE FALSE
  <2>1. s \in [1..n -> S \ {x}]  BY <1>7, <1>10
  <2>2. IsFiniteSet(1..n) /\ Cardinality(1..n) = n  BY FS_Interval
  <2>3. IsFiniteSet(S \ {x}) /\ Cardinality(S \ {x}) = n - 1  BY <1>1, <1>10, FS_RemoveElement
  <2>4. Cardinality(S \ {x}) < Cardinality(1..n)  BY <2>2, <2>3
  <2>5. \E i, j \in 1..n : i # j /\ s[i] = s[j]  BY <2>1, <2>2, <2>3, <2>4, FS_PigeonHole
  <2>. QED  BY <1>9, <2>5
<1>. QED  BY <1>6, <1>8, <1>9, <1>10 DEF Lists

LEMMA ListsJoined ==
    ASSUME NEW p, NEW q, NEW S, NEW T, Lists(p, S), Lists(q, T), S \cap T = {}
    PROVE  Lists(p \o q, S \cup T)
<1>. DEFINE m == Len(p)
            n == Len(q)
<1>1. p \in Seq(S \cup T) /\ q \in Seq(S \cup T) /\ m \in Nat /\ n \in Nat  BY DEF Lists
<1>2. PICK r : r = p \o q  OBVIOUS
<1>3. r \in Seq(S \cup T) /\ Len(r) = m + n  BY <1>1, <1>2
<1>4. \A i \in 1..m : r[i] = p[i] /\ p[i] \in S  BY <1>1, <1>2 DEF Lists
<1>5. \A i \in 1..(m + n) : i > m => r[i] = q[i - m] /\ i - m \in 1..n  BY <1>1, <1>2
<1>6. \A i \in 1..n : q[i] \in T  BY DEF Lists
<1>7. \A i \in 1..n : r[m + i] = q[i] /\ m + i \in 1..(m + n)
  <2>1. ASSUME NEW i \in 1..n PROVE r[m + i] = q[i] /\ m + i \in 1..(m + n)
    <3>1. m + i \in 1..(m + n) /\ m + i > m /\ (m + i) - m = i  BY <1>1
    <3>. QED  BY <1>5, <3>1
  <2>. QED  BY <2>1
<1>8. ASSUME NEW i \in 1..(m + n), NEW j \in 1..(m + n), r[i] = r[j] PROVE i = j
  <2>1. CASE i <= m /\ j <= m
    <3>1. i \in 1..m /\ j \in 1..m  BY <2>1
    <3>2. p[i] = p[j]  BY <1>4, <1>8, <3>1
    <3>. QED  BY <3>1, <3>2 DEF Lists
  <2>2. CASE i > m /\ j > m
    <3>1. i - m \in 1..n /\ j - m \in 1..n /\ q[i - m] = q[j - m]  BY <1>5, <1>8, <2>2
    <3>2. i - m = j - m  BY <3>1 DEF Lists
    <3>. QED  BY <1>1, <3>2
  <2>3. CASE i <= m /\ j > m
    <3>1. i \in 1..m /\ j - m \in 1..n /\ r[j] = q[j - m]  BY <1>5, <2>3
    <3>. QED  BY <1>4, <1>6, <1>8, <3>1
  <2>4. CASE i > m /\ j <= m
    <3>1. j \in 1..m /\ i - m \in 1..n /\ r[i] = q[i - m]  BY <1>5, <2>4
    <3>. QED  BY <1>4, <1>6, <1>8, <3>1
  <2>. QED  BY <1>1, <2>1, <2>2, <2>3, <2>4
<1>9. ASSUME NEW x \in S PROVE \E i \in 1..(m + n) : r[i] = x
  <2>1. PICK i \in 1..m : p[i] = x  BY DEF Lists
  <2>2. i \in 1..(m + n)  BY <1>1
  <2>. QED  BY <1>4, <2>1, <2>2
<1>10. ASSUME NEW x \in T PROVE \E i \in 1..(m + n) : r[i] = x
  <2>1. PICK i \in 1..n : q[i] = x  BY DEF Lists
  <2>. QED  BY <1>7, <2>1
<1>. QED  BY <1>2, <1>3, <1>8, <1>9, <1>10 DEF Lists

\* The first m of a list of lists, put together one after the other.
Joins(seqs, m, g) == g = [i \in 1..m |-> IF i = 1 THEN seqs[i] ELSE g[i - 1] \o seqs[i]]

LEMMA JoinsOneMore ==
    ASSUME NEW seqs, NEW m \in Nat, m > 0, NEW g, Joins(seqs, m - 1, g)
    PROVE  \E h : Joins(seqs, m, h)
<1>0. PICK last : last = g[m - 1] \o seqs[m]  OBVIOUS
<1>1. PICK h : h = [i \in 1..m |-> IF i < m THEN g[i] ELSE IF i = 1 THEN seqs[1] ELSE last]  OBVIOUS
<1>2. g = [i \in 1..(m - 1) |-> IF i = 1 THEN seqs[i] ELSE g[i - 1] \o seqs[i]]  BY DEF Joins
<1>3. ASSUME NEW i \in 1..m PROVE h[i] = IF i = 1 THEN seqs[i] ELSE h[i - 1] \o seqs[i]
  <2>1. CASE i < m
    <3>1. i \in 1..(m - 1) /\ h[i] = g[i]  BY <1>1, <2>1
    <3>2. g[i] = IF i = 1 THEN seqs[i] ELSE g[i - 1] \o seqs[i]  BY <1>2, <3>1
    <3>3. i # 1 => i - 1 \in 1..m /\ i - 1 < m  BY <3>1
    <3>4. i # 1 => h[i - 1] = g[i - 1]  BY <1>1, <3>3
    <3>. QED  BY <3>1, <3>2, <3>4
  <2>2. CASE i = m /\ i = 1
    <3>. QED  BY <1>1, <2>2
  <2>3. CASE i = m /\ i # 1
    <3>1. m - 1 \in 1..m /\ m - 1 < m  BY <2>3
    <3>2. h[m - 1] = g[m - 1]  BY <1>1, <3>1
    <3>3. ~(i < m)  BY <2>3
    <3>4. h[i] = last  BY <1>1, <2>3, <3>3
    <3>. QED  BY <1>0, <2>3, <3>2, <3>4
  <2>. QED  BY <2>1, <2>2, <2>3
<1>4. h = [i \in 1..m |-> h[i]]  BY <1>1
<1>5. h = [i \in 1..m |-> IF i = 1 THEN seqs[i] ELSE h[i - 1] \o seqs[i]]  BY <1>3, <1>4
<1>. QED  BY <1>5 DEF Joins

LEMMA JoinsExist ==
    ASSUME NEW seqs, NEW n \in Nat
    PROVE  \E g : Joins(seqs, n, g)
<1>. SUFFICES ASSUME ~\E g : Joins(seqs, n, g) PROVE FALSE  OBVIOUS
<1>. DEFINE Bad == {m \in Nat : ~\E g : Joins(seqs, m, g)}
<1>1. PICK m \in Bad : \A i \in Bad : m <= i
  <2>1. Bad \in SUBSET Nat /\ Bad # {}  OBVIOUS
  <2>. HIDE DEF Bad
  <2>. QED  BY <2>1, SmallestNumber
<1>2. m # 0
  <2>1. PICK g : g = [i \in 1..0 |-> 0]  OBVIOUS
  <2>2. 1..0 = {}  OBVIOUS
  <2>3. g = [i \in 1..0 |-> IF i = 1 THEN seqs[i] ELSE g[i - 1] \o seqs[i]]  BY <2>1, <2>2
  <2>4. Joins(seqs, 0, g)  BY <2>3 DEF Joins
  <2>. QED  BY <2>4
<1>3. m - 1 \in Nat /\ m - 1 \notin Bad  BY <1>1, <1>2
<1>4. \E g : Joins(seqs, m - 1, g)  BY <1>3
<1>. QED  BY <1>1, <1>2, <1>4, JoinsOneMore

LEMMA FlattenIs ==
    ASSUME NEW seqs, Len(seqs) \in Nat, Len(seqs) > 0
    PROVE  \E g : Joins(seqs, Len(seqs), g) /\ FlattenSeq(seqs) = g[Len(seqs)]
<1>. DEFINE g == CHOOSE f : f = [i \in 1..Len(seqs) |-> IF i = 1 THEN seqs[i] ELSE f[i - 1] \o seqs[i]]
<1>1. FlattenSeq(seqs) = g[Len(seqs)]  BY DEF FlattenSeq
<1>2. Joins(seqs, Len(seqs), g)  BY JoinsExist DEF Joins
<1>. QED  BY <1>1, <1>2

Gathered(sets, n) == UNION {sets[i] : i \in 1..n}

\* The i-th of some lists lists the i-th of as many sets, which have nothing in common.
ListsEach(seqs, sets, n) ==
    /\ \A i \in 1..n : Lists(seqs[i], sets[i])
    /\ \A i, j \in 1..n : i # j => sets[i] \cap sets[j] = {}

LEMMA ListsFlattened ==
    ASSUME NEW n \in Nat, NEW seqs, Len(seqs) = n, NEW sets, ListsEach(seqs, sets, n),
           n = 0 => seqs = <<>>
    PROVE  Lists(FlattenSeq(seqs), Gathered(sets, n))
<1>0. /\ \A i \in 1..n : Lists(seqs[i], sets[i])
      /\ \A i, j \in 1..n : i # j => sets[i] \cap sets[j] = {}
  BY DEF ListsEach
<1>1. CASE n = 0
  <2>1. FlattenSeq(seqs) = seqs /\ seqs = <<>>  BY <1>1 DEF FlattenSeq
  <2>2. 1..n = {}  BY <1>1
  <2>3. Lists(<<>>, {})  BY DEF Lists
  <2>4. Gathered(sets, n) = {}  BY <2>2 DEF Gathered
  <2>. QED  BY <2>1, <2>3, <2>4
<1>2. CASE n > 0
  <2>1. PICK g : Joins(seqs, n, g) /\ FlattenSeq(seqs) = g[n]  BY <1>2, FlattenIs
  <2>2. \A i \in 1..n : g[i] = IF i = 1 THEN seqs[i] ELSE g[i - 1] \o seqs[i]  BY <2>1 DEF Joins
  <2>. DEFINE First(i) == UNION {sets[j] : j \in 1..i}
              Bad == {i \in 1..n : ~Lists(g[i], First(i))}
  <2>. HIDE DEF First
  <2>3. ASSUME NEW k \in Bad PROVE FALSE
    <3>1. PICK i \in Bad : \A j \in Bad : i <= j
      <4>1. 1..n \subseteq Nat  OBVIOUS
      <4>2. Bad \subseteq 1..n /\ Bad # {}  BY <2>3
      <4>. HIDE DEF Bad
      <4>. QED  BY <4>1, <4>2, SmallestNumber
    <3>2. i \in 1..n /\ ~Lists(g[i], First(i))  BY <3>1
    <3>3. i # 1
      <4>1. ASSUME i = 1 PROVE FALSE
        <5>1. g[1] = seqs[1] /\ Lists(seqs[1], sets[1])  BY <1>0, <2>2, <3>2, <4>1
        <5>2. 1..1 = {1}  OBVIOUS
        <5>3. First(1) = sets[1]  BY <5>2 DEF First
        <5>. QED  BY <3>2, <4>1, <5>1, <5>3
      <4>. QED  BY <4>1
    <3>4. i - 1 \in 1..n /\ i - 1 \notin Bad  BY <3>1, <3>2, <3>3
    <3>5. Lists(g[i - 1], First(i - 1))  BY <3>4
    <3>6. g[i] = g[i - 1] \o seqs[i]  BY <2>2, <3>2, <3>3
    <3>7. First(i - 1) \cap sets[i] = {}
      <4>1. \A j \in 1..(i - 1) : j \in 1..n /\ j # i  BY <3>2
      <4>2. \A j \in 1..(i - 1) : sets[j] \cap sets[i] = {}  BY <1>0, <3>2, <4>1
      <4>. QED  BY <4>2 DEF First
    <3>8. First(i) = First(i - 1) \cup sets[i]
      <4>1. 1..i = 1..(i - 1) \cup {i}  BY <3>2
      <4>. QED  BY <4>1 DEF First
    <3>9. Lists(g[i], First(i - 1) \cup sets[i])
      <4>1. Lists(seqs[i], sets[i])  BY <1>0, <3>2
      <4>2. Lists(g[i - 1] \o seqs[i], First(i - 1) \cup sets[i])  BY <3>5, <3>7, <4>1, ListsJoined
      <4>. QED  BY <3>6, <4>2
    <3>. QED  BY <3>2, <3>8, <3>9
  <2>4. n \in 1..n  BY <1>2
  <2>5. Lists(g[n], First(n))  BY <2>3, <2>4
  <2>. QED  BY <2>1, <2>5 DEF First, Gathered
<1>. QED  BY <1>1, <1>2

\* The lists of each of the tables that have one, in the order of the tables.
LEMMA ListsInOrder ==
    ASSUME NEW N, NEW tables \in Seq(N), IsInjective(tables), NEW of, NEW sets,
           DOMAIN of \subseteq ToSet(tables),
           \A t \in DOMAIN of : Lists(of[t], sets[t]),
           \A t, u \in DOMAIN of : t # u => sets[t] \cap sets[u] = {}
    PROVE  Lists(InOrder(tables, of), UNION {sets[t] : t \in DOMAIN of})
<1>. DEFINE n == Len(tables)
            D == DOMAIN of
<1>0. PICK S : S = UNION {sets[t] : t \in D}  OBVIOUS
<1>1. n \in Nat /\ DOMAIN tables = 1..n  OBVIOUS
<1>2. PICK seqs : seqs = [i \in 1..n |-> IF tables[i] \in D THEN of[tables[i]] ELSE <<>>]  OBVIOUS
<1>3. PICK each : each = [i \in 1..n |-> IF tables[i] \in D THEN sets[tables[i]] ELSE {}]  OBVIOUS
<1>4. InOrder(tables, of) = FlattenSeq(seqs)  BY <1>2 DEF InOrder
<1>5. ASSUME NEW i \in 1..n PROVE seqs[i] \in Seq(S) /\ Lists(seqs[i], each[i])
  <2>1. CASE tables[i] \in D
    <3>1. seqs[i] = of[tables[i]] /\ each[i] = sets[tables[i]]  BY <1>2, <1>3, <2>1
    <3>2. Lists(of[tables[i]], sets[tables[i]]) /\ sets[tables[i]] \subseteq S  BY <1>0, <2>1
    <3>3. of[tables[i]] \in Seq(S)  BY <3>2 DEF Lists
    <3>. QED  BY <3>1, <3>2, <3>3
  <2>2. CASE tables[i] \notin D
    <3>1. seqs[i] = <<>> /\ each[i] = {}  BY <1>2, <1>3, <2>2
    <3>2. Lists(<<>>, {}) /\ <<>> \in Seq(S)  BY DEF Lists
    <3>. QED  BY <3>1, <3>2
  <2>. QED  BY <2>1, <2>2
<1>6. seqs \in Seq(Seq(S)) /\ Len(seqs) = n  BY <1>1, <1>2, <1>5
<1>7. ASSUME NEW i \in 1..n, NEW j \in 1..n, i # j PROVE each[i] \cap each[j] = {}
  <2>1. tables[i] # tables[j]  BY <1>1, <1>7 DEF IsInjective
  <2>. QED  BY <1>3, <2>1
<1>8. Lists(FlattenSeq(seqs), Gathered(each, n))
  <2>1. ListsEach(seqs, each, n)  BY <1>5, <1>7 DEF ListsEach
  <2>2. n = 0 => seqs = <<>>  BY <1>6
  <2>. HIDE DEF n
  <2>. QED  BY <1>1, <1>6, <2>1, <2>2, ListsFlattened
<1>9. Gathered(each, n) = UNION {sets[t] : t \in D}
  <2>1. ASSUME NEW x \in Gathered(each, n) PROVE x \in UNION {sets[t] : t \in D}
    <3>1. PICK i \in 1..n : x \in each[i]  BY <2>1 DEF Gathered
    <3>2. tables[i] \in D /\ x \in sets[tables[i]]  BY <1>3, <3>1
    <3>. QED  BY <3>2
  <2>2. ASSUME NEW x \in UNION {sets[t] : t \in D} PROVE x \in Gathered(each, n)
    <3>1. PICK t \in D : x \in sets[t]  BY <2>2
    <3>2. PICK i \in 1..n : tables[i] = t  BY <1>1 DEF ToSet
    <3>3. x \in each[i]  BY <1>3, <3>1, <3>2
    <3>. QED  BY <3>3 DEF Gathered
  <2>. QED  BY <2>1, <2>2
<1>. QED  BY <1>4, <1>8, <1>9

\* What statement s changes.
Moved(db, to, s) ==
    /\ \A t : t # s.table \/ s.do = "remark" =>
           /\ t \in DOMAIN to <=> t \in DOMAIN db
           /\ t \in DOMAIN db => to[t] = db[t]
    /\ s.do \in Changes =>
           /\ s.table \in DOMAIN db
           /\ \A c : c # s.column => SameColumn(db, to, s.table, c)
    /\ Leaves(db, to, s)

LEMMA StatementMoves ==
    ASSUME NEW db, NEW s, s.do \in Kinds, Runs(db, s)
    PROVE  Moved(db, AfterStatement(db, s), s)
<1>. DEFINE t == s.table
            c == s.column
<1>1. PICK to : to = AfterStatement(db, s)  OBVIOUS
<1>2. CASE s.do = "create"
  <2>1. to = [x \in DOMAIN db \cup {t} |-> IF x = t THEN CreatedTable(t) ELSE db[x]]
    BY <1>1, <1>2 DEF AfterStatement, WithTable
  <2>2. Leaves(db, to, s)  BY <1>2, <2>1 DEF Leaves, Changes
  <2>. QED  BY <1>1, <1>2, <2>1, <2>2 DEF Moved, Changes
<1>3. CASE s.do = "drop"
  <2>1. to = [x \in DOMAIN db \ {t} |-> db[x]]  BY <1>1, <1>3 DEF AfterStatement
  <2>2. Leaves(db, to, s)  BY <1>3, <2>1 DEF Leaves, Changes
  <2>. QED  BY <1>1, <1>3, <2>1, <2>2 DEF Moved, Changes
<1>4. CASE s.do = "remark"
  <2>1. to = db  BY <1>1, <1>4 DEF AfterStatement
  <2>2. Leaves(db, to, s)  BY <1>4 DEF Leaves, Changes
  <2>. QED  BY <1>1, <1>4, <2>1, <2>2 DEF Moved, Changes
<1>5. CASE s.do = "add"
  <2>1. PICK columns : columns = WithColumn(db[t], c, [type |-> DataType(s.type), to |-> None])  OBVIOUS
  <2>2. to = [x \in DOMAIN db \cup {t} |-> IF x = t THEN columns ELSE db[x]]
    BY <1>1, <1>5, <2>1 DEF AfterStatement, WithTable
  <2>3. t \in DOMAIN db  BY <1>5 DEF Runs
  <2>4. /\ columns = [x \in DOMAIN db[t] \cup {c} |-> IF x = c THEN columns[c] ELSE db[t][x]]
        /\ columns[c].type = DataType(s.type) /\ columns[c].to = None
    BY <2>1 DEF WithColumn
  <2>5. to[t] = columns /\ t \in DOMAIN to  BY <2>2
  <2>6. \A x : x # c => SameColumn(db, to, t, x)  BY <2>4, <2>5 DEF SameColumn
  <2>7. Leaves(db, to, s)  BY <1>5, <2>4, <2>5 DEF Leaves, Changes
  <2>8. \A x : x # t => (x \in DOMAIN to <=> x \in DOMAIN db) /\ (x \in DOMAIN db => to[x] = db[x])  BY <2>2
  <2>. QED  BY <1>1, <1>5, <2>3, <2>6, <2>7, <2>8 DEF Moved
<1>6. CASE s.do = "retype"
  <2>1. PICK columns : columns = WithColumn(db[t], c, [type |-> DataType(s.type), to |-> db[t][c].to])  OBVIOUS
  <2>2. to = [x \in DOMAIN db \cup {t} |-> IF x = t THEN columns ELSE db[x]]
    BY <1>1, <1>6, <2>1 DEF AfterStatement, WithTable
  <2>3. t \in DOMAIN db  BY <1>6 DEF Runs
  <2>4. /\ columns = [x \in DOMAIN db[t] \cup {c} |-> IF x = c THEN columns[c] ELSE db[t][x]]
        /\ columns[c].type = DataType(s.type) /\ columns[c].to = db[t][c].to
    BY <2>1 DEF WithColumn
  <2>5. to[t] = columns /\ t \in DOMAIN to  BY <2>2
  <2>6. \A x : x # c => SameColumn(db, to, t, x)  BY <2>4, <2>5 DEF SameColumn
  <2>7. Leaves(db, to, s)  BY <1>6, <2>4, <2>5 DEF Leaves, Changes
  <2>8. \A x : x # t => (x \in DOMAIN to <=> x \in DOMAIN db) /\ (x \in DOMAIN db => to[x] = db[x])  BY <2>2
  <2>. QED  BY <1>1, <1>6, <2>3, <2>6, <2>7, <2>8 DEF Moved
<1>7. CASE s.do = "remove"
  <2>1. PICK columns : columns = [x \in DOMAIN db[t] \ {c} |-> db[t][x]]  OBVIOUS
  <2>2. to = [x \in DOMAIN db \cup {t} |-> IF x = t THEN columns ELSE db[x]]
    BY <1>1, <1>7, <2>1 DEF AfterStatement, WithTable
  <2>3. t \in DOMAIN db  BY <1>7 DEF Runs
  <2>5. to[t] = columns /\ t \in DOMAIN to  BY <2>2
  <2>6. \A x : x # c => SameColumn(db, to, t, x)  BY <2>1, <2>5 DEF SameColumn
  <2>7. Leaves(db, to, s)  BY <1>7, <2>1, <2>5 DEF Leaves, Changes
  <2>8. \A x : x # t => (x \in DOMAIN to <=> x \in DOMAIN db) /\ (x \in DOMAIN db => to[x] = db[x])  BY <2>2
  <2>. QED  BY <1>1, <1>7, <2>3, <2>6, <2>7, <2>8 DEF Moved
<1>. QED  BY <1>2, <1>3, <1>4, <1>5, <1>6, <1>7 DEF Kinds, Places, Changes

\* What a statement finds is what the whole script has met.
LEMMA FindsWhatWas ==
    ASSUME NEW old, NEW script, Tidy(script), Len(script) \in Nat, NEW i \in 1..Len(script), NEW db,
           After(old, script, i - 1, db), Finds(db, script[i])
    PROVE  /\ Finds(old, script[i])
           /\ script[i].do # "remark" => ~NamesTable(script, i - 1, script[i].table)
           /\ script[i].do \in Changes => ~NamesColumn(script, i - 1, script[i].table, script[i].column)
<1>. DEFINE s == script[i]
<1>1. \A j \in 1..(i - 1) : j \in 1..Len(script) /\ j # i  OBVIOUS
<1>2. \A j \in 1..(i - 1) : Apart(script[j], s)  BY <1>1 DEF Tidy
<1>3. s.do # "remark" => ~NamesTable(script, i - 1, s.table)
  BY <1>2 DEF NamesTable, Apart, Places, Changes
<1>4. s.do \in Changes => ~NamesColumn(script, i - 1, s.table, s.column)
  BY <1>2 DEF NamesColumn, Apart, Changes
<1>5. s.do # "remark" => (s.table \in DOMAIN old <=> s.table \in DOMAIN db)  BY <1>3 DEF After
<1>6. s.do \in Changes => (s.column \in DOMAIN db[s.table] <=> s.column \in DOMAIN old[s.table])
  <2>. SUFFICES ASSUME s.do \in Changes,
                       s.column \in DOMAIN db[s.table] \/ s.column \in DOMAIN old[s.table]
                PROVE  s.column \in DOMAIN db[s.table] <=> s.column \in DOMAIN old[s.table]
    OBVIOUS
  <2>1. s.table \in DOMAIN db  BY DEF Finds
  <2>2. s.do # "remark"  BY DEF Changes
  <2>3. SameColumn(old, db, s.table, s.column)  BY <1>3, <1>4, <2>1, <2>2 DEF After
  <2>. QED  BY <2>3 DEF SameColumn
<1>7. Finds(old, s)  BY <1>5, <1>6 DEF Finds, Changes
<1>. QED  BY <1>3, <1>4, <1>7

LEMMA RunsFinds ==
    ASSUME NEW db, NEW s, s.do \in Kinds, Runs(db, s)
    PROVE  Finds(db, s)
BY DEF Runs, Finds, Kinds, Places, Changes

LEMMA LeavesStill ==
    ASSUME NEW old, NEW db, NEW to, NEW r, NEW s, r.do \in Kinds,
           Leaves(old, db, r), Moved(db, to, s), Apart(r, s)
    PROVE  Leaves(old, to, r)
<1>. DEFINE t == r.table
            c == r.column
<1>1. CASE r.do = "remark"  BY <1>1 DEF Leaves, Changes
<1>2. CASE s.do = "remark" \/ t # s.table
  <2>1. t \in DOMAIN to <=> t \in DOMAIN db  BY <1>2 DEF Moved
  <2>2. t \in DOMAIN db => to[t] = db[t]  BY <1>2 DEF Moved
  <2>. QED  BY <2>1, <2>2 DEF Leaves, Changes
<1>3. CASE r.do \in Changes /\ s.do \in Changes /\ c # s.column /\ t = s.table
  <2>1. SameColumn(db, to, t, c)  BY <1>3 DEF Moved
  <2>2. t \in DOMAIN to  BY <1>3 DEF Moved, Leaves
  <2>3. c \in DOMAIN to[t] <=> c \in DOMAIN db[t]  BY <2>1 DEF SameColumn
  <2>4. c \in DOMAIN db[t] => to[t][c] = db[t][c]  BY <2>1 DEF SameColumn
  <2>. QED  BY <1>3, <2>2, <2>3, <2>4 DEF Leaves, Changes
<1>. QED  BY <1>1, <1>2, <1>3 DEF Apart

LEMMA AfterOneMore ==
    ASSUME NEW old, NEW script, Tidy(script), Len(script) \in Nat, NEW i \in 1..Len(script), NEW db,
           After(old, script, i - 1, db), Runs(db, script[i])
    PROVE  After(old, script, i, AfterStatement(db, script[i]))
<1>. DEFINE s == script[i]
<1>1. PICK to : to = AfterStatement(db, s)  OBVIOUS
<1>2. s.do \in Kinds  BY DEF Tidy
<1>3. Moved(db, to, s)  BY <1>1, <1>2, StatementMoves
<1>4. Finds(db, s)  BY <1>2, RunsFinds
<1>5. /\ Finds(old, s)
      /\ s.do # "remark" => ~NamesTable(script, i - 1, s.table)
      /\ s.do \in Changes => ~NamesColumn(script, i - 1, s.table, s.column)
  BY <1>4, FindsWhatWas
<1>6. Leaves(old, to, s)
  <2>1. ASSUME s.do = "retype" PROVE db[s.table][s.column].to = old[s.table][s.column].to
    <3>1. s.do \in Changes /\ s.do # "remark"  BY <2>1 DEF Changes
    <3>2. s.table \in DOMAIN old /\ s.column \in DOMAIN old[s.table]  BY <1>5, <2>1, <3>1 DEF Finds
    <3>3. SameColumn(old, db, s.table, s.column)  BY <1>5, <3>1, <3>2 DEF After
    <3>. QED  BY <3>2, <3>3 DEF SameColumn
  <2>2. Leaves(db, to, s)  BY <1>3 DEF Moved
  <2>. QED  BY <2>1, <2>2 DEF Leaves
<1>7. ASSUME NEW j \in 1..i PROVE Finds(old, script[j]) /\ Leaves(old, to, script[j])
  <2>1. CASE j = i  BY <1>5, <1>6, <2>1
  <2>2. CASE j # i
    <3>1. j \in 1..(i - 1) /\ j \in 1..Len(script)  BY <2>2
    <3>2. Finds(old, script[j]) /\ Leaves(old, db, script[j])  BY <3>1 DEF After
    <3>3. Apart(script[j], s) /\ script[j].do \in Kinds  BY <2>2, <3>1 DEF Tidy
    <3>. QED  BY <1>3, <3>2, <3>3, LeavesStill
  <2>. QED  BY <2>1, <2>2
<1>8. ASSUME NEW t \in DOMAIN old \cup DOMAIN to, ~NamesTable(script, i, t)
      PROVE  /\ t \in DOMAIN old /\ t \in DOMAIN to
             /\ \A c \in DOMAIN old[t] \cup DOMAIN to[t] :
                    ~NamesColumn(script, i, t, c) => SameColumn(old, to, t, c)
  <2>1. ~NamesTable(script, i - 1, t)
    <3>1. \A j \in 1..(i - 1) : j \in 1..i  OBVIOUS
    <3>. QED  BY <1>8, <3>1 DEF NamesTable
  <2>2. i \in 1..i  OBVIOUS
  <2>3. t # s.table \/ s.do \in Changes \cup {"remark"}  BY <1>2, <1>8, <2>2 DEF NamesTable, Kinds
  <2>4. t \in DOMAIN to <=> t \in DOMAIN db
    <3>1. CASE t # s.table \/ s.do = "remark"  BY <1>3, <3>1 DEF Moved
    <3>2. CASE t = s.table /\ s.do \in Changes  BY <1>3, <3>2 DEF Moved, Leaves
    <3>. QED  BY <2>3, <3>1, <3>2
  <2>5. /\ t \in DOMAIN old /\ t \in DOMAIN db
        /\ \A c \in DOMAIN old[t] \cup DOMAIN db[t] :
               ~NamesColumn(script, i - 1, t, c) => SameColumn(old, db, t, c)
    BY <2>1, <2>4 DEF After
  <2>6. ASSUME NEW c \in DOMAIN old[t] \cup DOMAIN to[t], ~NamesColumn(script, i, t, c)
        PROVE  SameColumn(old, to, t, c)
    <3>1. ~NamesColumn(script, i - 1, t, c)
      <4>1. \A j \in 1..(i - 1) : j \in 1..i  OBVIOUS
      <4>. QED  BY <2>6, <4>1 DEF NamesColumn
    <3>2. SameColumn(db, to, t, c)
      <4>1. CASE t # s.table \/ s.do = "remark"
        <5>1. t \in DOMAIN db => to[t] = db[t]  BY <1>3, <4>1 DEF Moved
        <5>. QED  BY <2>5, <5>1 DEF SameColumn
      <4>2. CASE t = s.table /\ s.do \in Changes
        <5>1. c # s.column  BY <2>2, <2>6, <4>2 DEF NamesColumn
        <5>. QED  BY <1>3, <4>2, <5>1 DEF Moved
      <4>. QED  BY <2>3, <4>1, <4>2
    <3>3. c \in DOMAIN old[t] \cup DOMAIN db[t]  BY <3>2 DEF SameColumn
    <3>4. SameColumn(old, db, t, c)  BY <2>5, <3>1, <3>3
    <3>. QED  BY <3>2, <3>4 DEF SameColumn
  <2>. QED  BY <2>4, <2>5, <2>6
<1>. QED  BY <1>1, <1>7, <1>8 DEF After

LEMMA AfterNothing == ASSUME NEW db, NEW script PROVE After(db, script, 0, db)
<1>1. 1..0 = {}  OBVIOUS
<1>2. \A t, c : SameColumn(db, db, t, c)  BY DEF SameColumn
<1>. QED  BY <1>1, <1>2 DEF After

-----------------------------------------------------------------------------
\* A script that runs, one statement after the other.
Onward(db, r, s) ==
    IF r.ok /\ Runs(r.db, s) THEN [ok |-> TRUE, db |-> AfterStatement(r.db, s)]
    ELSE [ok |-> FALSE, db |-> db]

Going(db, script, n, f) ==
    f = [i \in 0..n |-> IF i = 0 THEN [ok |-> TRUE, db |-> db] ELSE Onward(db, f[i - 1], script[i])]

LEMMA GoingOneMore ==
    ASSUME NEW db, NEW script, NEW m \in Nat, m > 0, NEW g, Going(db, script, m - 1, g)
    PROVE  \E h : Going(db, script, m, h)
<1>0. PICK last : last = Onward(db, g[m - 1], script[m])  OBVIOUS
<1>1. PICK h : h = [i \in 0..m |-> IF i < m THEN g[i] ELSE last]  OBVIOUS
<1>2. \A i \in 0..(m - 1) : g[i] = IF i = 0 THEN [ok |-> TRUE, db |-> db] ELSE Onward(db, g[i - 1], script[i])
  BY DEF Going
<1>3. ASSUME NEW i \in 0..m
      PROVE h[i] = IF i = 0 THEN [ok |-> TRUE, db |-> db] ELSE Onward(db, h[i - 1], script[i])
  <2>1. i # 0 => i - 1 \in 0..m /\ i - 1 < m  OBVIOUS
  <2>2. i # 0 => h[i - 1] = g[i - 1]  BY <1>1, <2>1
  <2>3. CASE i < m
    <3>1. i \in 0..(m - 1) /\ h[i] = g[i]  BY <1>1, <2>3
    <3>. QED  BY <1>2, <2>2, <3>1
  <2>4. CASE i = m
    <3>1. h[i] = last /\ i # 0  BY <1>1, <2>4
    <3>. QED  BY <1>0, <2>2, <2>4, <3>1
  <2>. QED  BY <2>3, <2>4
<1>4. h = [i \in 0..m |-> h[i]]  BY <1>1
<1>5. h = [i \in 0..m |-> IF i = 0 THEN [ok |-> TRUE, db |-> db] ELSE Onward(db, h[i - 1], script[i])]
  BY <1>3, <1>4
<1>. QED  BY <1>5 DEF Going

LEMMA GoingExists ==
    ASSUME NEW db, NEW script, NEW n \in Nat
    PROVE  \E g : Going(db, script, n, g)
<1>. SUFFICES ASSUME ~\E g : Going(db, script, n, g) PROVE FALSE  OBVIOUS
<1>. DEFINE Bad == {m \in Nat : ~\E g : Going(db, script, m, g)}
<1>1. PICK m \in Bad : \A i \in Bad : m <= i
  <2>1. Bad \in SUBSET Nat /\ Bad # {}  OBVIOUS
  <2>. HIDE DEF Bad
  <2>. QED  BY <2>1, SmallestNumber
<1>2. m # 0
  <2>1. PICK g : g = [i \in 0..0 |-> [ok |-> TRUE, db |-> db]]  OBVIOUS
  <2>2. \A i \in 0..0 : i = 0  OBVIOUS
  <2>3. g = [i \in 0..0 |-> IF i = 0 THEN [ok |-> TRUE, db |-> db] ELSE Onward(db, g[i - 1], script[i])]
    BY <2>1, <2>2
  <2>4. Going(db, script, 0, g)  BY <2>3 DEF Going
  <2>. QED  BY <2>4
<1>3. m - 1 \in Nat /\ m - 1 \notin Bad  BY <1>1, <1>2
<1>4. \E g : Going(db, script, m - 1, g)  BY <1>3
<1>. QED  BY <1>1, <1>2, <1>4, GoingOneMore

LEMMA GoingHas ==
    ASSUME NEW db, NEW script, NEW n \in Nat, NEW f, Going(db, script, n, f)
    PROVE  /\ f[0] = [ok |-> TRUE, db |-> db]
           /\ \A i \in 1..n : f[i] = Onward(db, f[i - 1], script[i])
<1>1. \A i \in 0..n : f[i] = IF i = 0 THEN [ok |-> TRUE, db |-> db] ELSE Onward(db, f[i - 1], script[i])
  BY DEF Going
<1>2. 0 \in 0..n /\ \A i \in 1..n : i \in 0..n /\ i # 0  OBVIOUS
<1>. QED  BY <1>1, <1>2

LEMMA ExecutedIs ==
    ASSUME NEW db, NEW script, Len(script) \in Nat
    PROVE  \E f : Going(db, script, Len(script), f) /\ Executed(db, script) = f[Len(script)]
<1>. DEFINE f == CHOOSE g : g = [i \in 0..Len(script) |->
                     IF i = 0 THEN [ok |-> TRUE, db |-> db]
                     ELSE IF g[i - 1].ok /\ Runs(g[i - 1].db, script[i])
                          THEN [ok |-> TRUE, db |-> AfterStatement(g[i - 1].db, script[i])]
                          ELSE [ok |-> FALSE, db |-> db]]
<1>1. Executed(db, script) = f[Len(script)]  BY DEF Executed
<1>2. \E g : Going(db, script, Len(script), g)  BY GoingExists
<1>3. Going(db, script, Len(script), f)
  <2>1. \E g : g = [i \in 0..Len(script) |->
                      IF i = 0 THEN [ok |-> TRUE, db |-> db]
                      ELSE IF g[i - 1].ok /\ Runs(g[i - 1].db, script[i])
                           THEN [ok |-> TRUE, db |-> AfterStatement(g[i - 1].db, script[i])]
                           ELSE [ok |-> FALSE, db |-> db]]
    BY <1>2 DEF Going, Onward
  <2>2. f = [i \in 0..Len(script) |->
                      IF i = 0 THEN [ok |-> TRUE, db |-> db]
                      ELSE IF f[i - 1].ok /\ Runs(f[i - 1].db, script[i])
                           THEN [ok |-> TRUE, db |-> AfterStatement(f[i - 1].db, script[i])]
                           ELSE [ok |-> FALSE, db |-> db]]
    BY <2>1, Zenon
  <2>. HIDE DEF f
  <2>. QED  BY <2>2 DEF Going, Onward
<1>. QED  BY <1>1, <1>3

\* A script that runs leaves what After says; one that is refused has a first statement
\* that the database does not take.
LEMMA ScriptRuns ==
    ASSUME NEW db, NEW script, Len(script) \in Nat, Tidy(script), Executed(db, script).ok
    PROVE  After(db, script, Len(script), Executed(db, script).db)
<1>. DEFINE n == Len(script)
<1>1. PICK f : Going(db, script, n, f) /\ Executed(db, script) = f[n]  BY ExecutedIs
<1>2. /\ f[0] = [ok |-> TRUE, db |-> db]
      /\ \A i \in 1..n : f[i] = Onward(db, f[i - 1], script[i])
  BY <1>1, GoingHas
<1>. DEFINE Bad == {i \in 0..n : f[i].ok /\ ~After(db, script, i, f[i].db)}
<1>3. ASSUME NEW k \in Bad PROVE FALSE
  <2>1. PICK i \in Bad : \A j \in Bad : i <= j
    <3>1. Bad \in SUBSET Nat /\ Bad # {}  BY <1>3
    <3>. HIDE DEF Bad
    <3>. QED  BY <3>1, SmallestNumber
  <2>2. i # 0
    <3>1. f[0].db = db  BY <1>2
    <3>. QED  BY <2>1, <3>1, AfterNothing
  <2>3. i \in 1..n /\ i - 1 \in 0..n /\ i - 1 \notin Bad  BY <2>1, <2>2
  <2>4. f[i].ok /\ f[i] = Onward(db, f[i - 1], script[i])  BY <1>2, <2>1, <2>3
  <2>5. f[i - 1].ok /\ Runs(f[i - 1].db, script[i]) /\ f[i].db = AfterStatement(f[i - 1].db, script[i])
    BY <2>4 DEF Onward
  <2>6. After(db, script, i - 1, f[i - 1].db)  BY <2>3, <2>5
  <2>7. After(db, script, i, f[i].db)  BY <2>3, <2>5, <2>6, AfterOneMore
  <2>. QED  BY <2>1, <2>7
<1>4. n \in 0..n  OBVIOUS
<1>. QED  BY <1>1, <1>3, <1>4

LEMMA ScriptRefused ==
    ASSUME NEW db, NEW script, Len(script) \in Nat, Tidy(script), ~Executed(db, script).ok
    PROVE  \E i \in 1..Len(script) : \E to : After(db, script, i - 1, to) /\ ~Runs(to, script[i])
<1>. DEFINE n == Len(script)
<1>1. PICK f : Going(db, script, n, f) /\ Executed(db, script) = f[n]  BY ExecutedIs
<1>2. /\ f[0] = [ok |-> TRUE, db |-> db]
      /\ \A i \in 1..n : f[i] = Onward(db, f[i - 1], script[i])
  BY <1>1, GoingHas
<1>. SUFFICES ASSUME \A i \in 1..n : \A to : After(db, script, i - 1, to) => Runs(to, script[i])
              PROVE  FALSE
  OBVIOUS
<1>. DEFINE Bad == {i \in 0..n : ~(f[i].ok /\ After(db, script, i, f[i].db))}
<1>3. n \in Bad  BY <1>1
<1>4. PICK i \in Bad : \A j \in Bad : i <= j
  <2>1. Bad \in SUBSET Nat /\ Bad # {}  BY <1>3
  <2>. HIDE DEF Bad
  <2>. QED  BY <2>1, SmallestNumber
<1>5. i # 0
  <2>1. f[0].ok /\ f[0].db = db  BY <1>2
  <2>. QED  BY <1>4, <2>1, AfterNothing
<1>6. i \in 1..n /\ i - 1 \in 0..n /\ i - 1 \notin Bad  BY <1>4, <1>5
<1>7. f[i - 1].ok /\ After(db, script, i - 1, f[i - 1].db)  BY <1>6
<1>8. Runs(f[i - 1].db, script[i])  BY <1>6, <1>7
<1>9. f[i] = [ok |-> TRUE, db |-> AfterStatement(f[i - 1].db, script[i])]  BY <1>2, <1>6, <1>7, <1>8 DEF Onward
<1>10. f[i].ok /\ f[i].db = AfterStatement(f[i - 1].db, script[i])  BY <1>9
<1>11. After(db, script, i, f[i].db)  BY <1>6, <1>7, <1>8, <1>10, AfterOneMore
<1>. QED  BY <1>4, <1>10, <1>11

-----------------------------------------------------------------------------
\* The statements of the scripts.
UpOf(a, t) ==
    ({Statement("add", t, c, design.fields[t][c].diff) : c \in AddedColumns(a, t)}
     \cup {Statement("retype", t, c, design.fields[t][c].diff) : c \in ModifiedColumns(a, t)})
    \cup {Statement("remove", t, c, None) : c \in RemovedColumns(a, t)}

DownOf(a, t) ==
    ({Statement("remove", t, c, None) : c \in AddedColumns(a, t)}
     \cup {Statement("retype", t, c, diff[a].seen[t][c].type) : c \in ModifiedColumns(a, t)})
    \cup {Statement("add", t, c, "TEXT") : c \in RemovedColumns(a, t)}

Ups(a) ==
    ({Statement("create", t, None, None) : t \in AddedTables(a)}
     \cup UNION {UpOf(a, t) : t \in ModifiedTables(a)})
    \cup {Statement("drop", t, None, None) : t \in RemovedTables(a)}

Downs(a) ==
    ({Statement("drop", t, None, None) : t \in AddedTables(a)}
     \cup UNION {DownOf(a, t) : t \in ModifiedTables(a)})
    \cup {Statement("remark", t, None, None) : t \in RemovedTables(a)}

\* What the scripts of a are made of is there.
Known(a) ==
    /\ design \in Designs
    /\ diff[a].names \subseteq ToSet(design.byName)
    /\ \A t \in ModifiedTables(a) : IsFiniteSet(DOMAIN diff[a].seen[t])

LEMMA FiniteImage ==
    ASSUME NEW C, IsFiniteSet(C), NEW g
    PROVE  IsFiniteSet({g[c] : c \in C})
<1>. DEFINE T == {g[c] : c \in C}
<1>1. PICK f : f = [c \in C |-> g[c]]  OBVIOUS
<1>2. f \in [C -> T] /\ \A x \in T : \E c \in C : f[c] = x  BY <1>1
<1>3. f \in Surjection(C, T)
  <2>. HIDE DEF T
  <2>. QED  BY <1>2 DEF Surjection
<1>4. IsFiniteSet(T)
  <2>. HIDE DEF T
  <2>. QED  BY <1>3, FS_Surjection
<1>. QED  BY <1>4

OnColumns(do, t, C, type) == {Statement(do, t, c, type[c]) : c \in C}

LEMMA FiniteStatements ==
    ASSUME NEW do, NEW t, NEW C, IsFiniteSet(C), NEW type
    PROVE  IsFiniteSet(OnColumns(do, t, C, type))
<1>1. PICK g : g = [c \in C |-> Statement(do, t, c, type[c])]  OBVIOUS
<1>2. IsFiniteSet({g[c] : c \in C})  BY FiniteImage
<1>3. {g[c] : c \in C} = {Statement(do, t, c, type[c]) : c \in C}  BY <1>1
<1>. QED  BY <1>2, <1>3 DEF OnColumns

LEMMA OneStatement == ASSUME NEW s PROVE Lists(<<s>>, {s})
<1>1. PICK q : q = <<s>>  OBVIOUS
<1>2. q \in Seq({s}) /\ Len(q) = 1 /\ q[1] = s  BY <1>1
<1>. QED  BY <1>1, <1>2 DEF Lists

LEMMA ColumnSets ==
    ASSUME NEW a, Known(a), NEW t \in ModifiedTables(a)
    PROVE  IsFiniteSet(AddedColumns(a, t)) /\ IsFiniteSet(ModifiedColumns(a, t)) /\ IsFiniteSet(RemovedColumns(a, t))
<1>1. IsFiniteSet(DOMAIN design.fields[t]) /\ IsFiniteSet(DOMAIN diff[a].seen[t])
  BY SchemaDiffsAssumption DEF Known, ModifiedTables, Entities
<1>2. AddedColumns(a, t) \subseteq DOMAIN design.fields[t]  BY DEF AddedColumns
<1>3. ModifiedColumns(a, t) \subseteq DOMAIN design.fields[t]  BY DEF ModifiedColumns
<1>4. RemovedColumns(a, t) \subseteq DOMAIN diff[a].seen[t]  BY DEF RemovedColumns
<1>. QED  BY <1>1, <1>2, <1>3, <1>4, FS_Subset

LEMMA ThreeLists ==
    ASSUME NEW P, NEW Q, NEW R, IsFiniteSet(P), IsFiniteSet(Q), IsFiniteSet(R),
           P \cap Q = {}, P \cap R = {}, Q \cap R = {}
    PROVE  Lists(SetToSeq(P) \o SetToSeq(Q) \o SetToSeq(R), (P \cup Q) \cup R)
<1>1. Lists(SetToSeq(P), P) /\ Lists(SetToSeq(Q), Q) /\ Lists(SetToSeq(R), R)  BY ListOfSet
<1>2. Lists(SetToSeq(P) \o SetToSeq(Q), P \cup Q)  BY <1>1, ListsJoined
<1>3. (P \cup Q) \cap R = {}  OBVIOUS
<1>. QED  BY <1>1, <1>2, <1>3, ListsJoined

LEMMA UpColumnsListed ==
    ASSUME NEW a, Known(a), NEW t \in ModifiedTables(a)
    PROVE  Lists(UpColumns(a, t), UpOf(a, t))
<1>1. PICK P : P = {Statement("add", t, c, design.fields[t][c].diff) : c \in AddedColumns(a, t)}  OBVIOUS
<1>2. PICK Q : Q = {Statement("retype", t, c, design.fields[t][c].diff) : c \in ModifiedColumns(a, t)}  OBVIOUS
<1>3. PICK R : R = {Statement("remove", t, c, None) : c \in RemovedColumns(a, t)}  OBVIOUS
<1>4. IsFiniteSet(P)
  <2>1. PICK y : y = [c \in AddedColumns(a, t) |-> design.fields[t][c].diff]  OBVIOUS
  <2>2. P = OnColumns("add", t, AddedColumns(a, t), y)  BY <1>1, <2>1 DEF OnColumns
  <2>3. IsFiniteSet(AddedColumns(a, t))  BY ColumnSets
  <2>. QED  BY <2>2, <2>3, FiniteStatements
<1>5. IsFiniteSet(Q)
  <2>1. PICK y : y = [c \in ModifiedColumns(a, t) |-> design.fields[t][c].diff]  OBVIOUS
  <2>2. Q = OnColumns("retype", t, ModifiedColumns(a, t), y)  BY <1>2, <2>1 DEF OnColumns
  <2>3. IsFiniteSet(ModifiedColumns(a, t))  BY ColumnSets
  <2>. QED  BY <2>2, <2>3, FiniteStatements
<1>6. IsFiniteSet(R)
  <2>1. PICK y : y = [c \in RemovedColumns(a, t) |-> None]  OBVIOUS
  <2>2. R = OnColumns("remove", t, RemovedColumns(a, t), y)  BY <1>3, <2>1 DEF OnColumns
  <2>3. IsFiniteSet(RemovedColumns(a, t))  BY ColumnSets
  <2>. QED  BY <2>2, <2>3, FiniteStatements
<1>7. /\ \A s \in P : s.do = "add"
      /\ \A s \in Q : s.do = "retype"
      /\ \A s \in R : s.do = "remove"
  BY <1>1, <1>2, <1>3 DEF Statement
<1>8. P \cap Q = {} /\ P \cap R = {} /\ Q \cap R = {}
  <2>1. ASSUME NEW s, s \in P \cap Q \/ s \in P \cap R \/ s \in Q \cap R PROVE FALSE  BY <1>7, <2>1
  <2>. QED  BY <2>1
<1>9. UpColumns(a, t) = SetToSeq(P) \o SetToSeq(Q) \o SetToSeq(R)  BY <1>1, <1>2, <1>3 DEF UpColumns
<1>10. UpOf(a, t) = (P \cup Q) \cup R  BY <1>1, <1>2, <1>3 DEF UpOf
<1>. QED  BY <1>4, <1>5, <1>6, <1>8, <1>9, <1>10, ThreeLists

LEMMA DownColumnsListed ==
    ASSUME NEW a, Known(a), NEW t \in ModifiedTables(a)
    PROVE  Lists(DownColumns(a, t), DownOf(a, t))
<1>1. PICK P : P = {Statement("remove", t, c, None) : c \in AddedColumns(a, t)}  OBVIOUS
<1>2. PICK Q : Q = {Statement("retype", t, c, diff[a].seen[t][c].type) : c \in ModifiedColumns(a, t)}  OBVIOUS
<1>3. PICK R : R = {Statement("add", t, c, "TEXT") : c \in RemovedColumns(a, t)}  OBVIOUS
<1>4. IsFiniteSet(P)
  <2>1. PICK y : y = [c \in AddedColumns(a, t) |-> None]  OBVIOUS
  <2>2. P = OnColumns("remove", t, AddedColumns(a, t), y)  BY <1>1, <2>1 DEF OnColumns
  <2>3. IsFiniteSet(AddedColumns(a, t))  BY ColumnSets
  <2>. QED  BY <2>2, <2>3, FiniteStatements
<1>5. IsFiniteSet(Q)
  <2>1. PICK y : y = [c \in ModifiedColumns(a, t) |-> diff[a].seen[t][c].type]  OBVIOUS
  <2>2. Q = OnColumns("retype", t, ModifiedColumns(a, t), y)  BY <1>2, <2>1 DEF OnColumns
  <2>3. IsFiniteSet(ModifiedColumns(a, t))  BY ColumnSets
  <2>. QED  BY <2>2, <2>3, FiniteStatements
<1>6. IsFiniteSet(R)
  <2>1. PICK y : y = [c \in RemovedColumns(a, t) |-> "TEXT"]  OBVIOUS
  <2>2. R = OnColumns("add", t, RemovedColumns(a, t), y)  BY <1>3, <2>1 DEF OnColumns
  <2>3. IsFiniteSet(RemovedColumns(a, t))  BY ColumnSets
  <2>. QED  BY <2>2, <2>3, FiniteStatements
<1>7. /\ \A s \in P : s.do = "remove"
      /\ \A s \in Q : s.do = "retype"
      /\ \A s \in R : s.do = "add"
  BY <1>1, <1>2, <1>3 DEF Statement
<1>8. P \cap Q = {} /\ P \cap R = {} /\ Q \cap R = {}
  <2>1. ASSUME NEW s, s \in P \cap Q \/ s \in P \cap R \/ s \in Q \cap R PROVE FALSE  BY <1>7, <2>1
  <2>. QED  BY <2>1
<1>9. DownColumns(a, t) = SetToSeq(P) \o SetToSeq(Q) \o SetToSeq(R)  BY <1>1, <1>2, <1>3 DEF DownColumns
<1>10. DownOf(a, t) = (P \cup Q) \cup R  BY <1>1, <1>2, <1>3 DEF DownOf
<1>. QED  BY <1>4, <1>5, <1>6, <1>8, <1>9, <1>10, ThreeLists

LEMMA DesignIs ==
    ASSUME design \in Designs
    PROVE  /\ design.entities \in Seq(ToSet(design.byName)) /\ IsInjective(design.entities)
           /\ design.byName \in Seq(ToSet(design.byName)) /\ IsInjective(design.byName)
           /\ Entities \subseteq ToSet(design.byName)
           /\ None \notin ToSet(design.byName)
<1>1. /\ design.entities \in Seq(ToSet(design.byName)) /\ IsInjective(design.entities)
      /\ design.byName \in Seq(ToSet(design.byName)) /\ IsInjective(design.byName)
      /\ None \notin ToSet(design.byName)
  BY SchemaDiffsAssumption
<1>2. PICK T : T = ToSet(design.byName)  OBVIOUS
<1>3. PICK e : e = design.entities  OBVIOUS
<1>4. e \in Seq(T)  BY <1>1, <1>2, <1>3
<1>5. \A i \in DOMAIN e : e[i] \in T  BY <1>4
<1>6. Entities \subseteq T  BY <1>3, <1>5 DEF Entities, ToSet
<1>. QED  BY <1>1, <1>2, <1>6

\* The lists of scripts: a single statement for each table, or those of its columns.
LEMMA SinglesListed ==
    ASSUME NEW N, NEW tables \in Seq(N), IsInjective(tables), NEW T, T \subseteq ToSet(tables), NEW do
    PROVE  Lists(InOrder(tables, [t \in T |-> <<Statement(do, t, None, None)>>]),
                 {Statement(do, t, None, None) : t \in T})
<1>. DEFINE S == {Statement(do, t, None, None) : t \in T}
<1>1. PICK of : of = [t \in T |-> <<Statement(do, t, None, None)>>]  OBVIOUS
<1>2. PICK sets : sets = [t \in T |-> {Statement(do, t, None, None)}]  OBVIOUS
<1>3. DOMAIN of = T  BY <1>1
<1>4. ASSUME NEW t \in DOMAIN of PROVE Lists(of[t], sets[t])
  <2>1. of[t] = <<Statement(do, t, None, None)>> /\ sets[t] = {Statement(do, t, None, None)}  BY <1>1, <1>2, <1>3
  <2>2. Lists(<<Statement(do, t, None, None)>>, {Statement(do, t, None, None)})  BY OneStatement
  <2>. QED  BY <2>1, <2>2
<1>5. ASSUME NEW t \in DOMAIN of, NEW u \in DOMAIN of, t # u PROVE sets[t] \cap sets[u] = {}
  <2>1. Statement(do, t, None, None).table = t /\ Statement(do, u, None, None).table = u  BY DEF Statement
  <2>. QED  BY <1>2, <1>3, <1>5, <2>1
<1>6. Lists(InOrder(tables, of), UNION {sets[t] : t \in DOMAIN of})
  <2>1. \A t \in DOMAIN of : Lists(of[t], sets[t])  BY <1>4
  <2>2. \A t, u \in DOMAIN of : t # u => sets[t] \cap sets[u] = {}  BY <1>5
  <2>3. DOMAIN of \subseteq ToSet(tables)  BY <1>3
  <2>. HIDE DEF S
  <2>. QED  BY <2>1, <2>2, <2>3, ListsInOrder
<1>7. UNION {sets[t] : t \in DOMAIN of} = S  BY <1>2, <1>3
<1>. QED  BY <1>1, <1>6, <1>7

LEMMA ColumnsListed ==
    ASSUME NEW N, NEW tables \in Seq(N), IsInjective(tables), NEW T, T \subseteq ToSet(tables),
           NEW of, NEW sets, of = [t \in T |-> of[t]],
           \A t \in T : Lists(of[t], sets[t]) /\ \A s \in sets[t] : s.table = t
    PROVE  Lists(InOrder(tables, of), UNION {sets[t] : t \in T})
<1>1. DOMAIN of = T  OBVIOUS
<1>2. \A t \in DOMAIN of : Lists(of[t], sets[t])  BY <1>1
<1>3. \A t, u \in DOMAIN of : t # u => sets[t] \cap sets[u] = {}  BY <1>1
<1>4. DOMAIN of \subseteq ToSet(tables)  BY <1>1
<1>5. Lists(InOrder(tables, of), UNION {sets[t] : t \in DOMAIN of})  BY <1>2, <1>3, <1>4, ListsInOrder
<1>. QED  BY <1>1, <1>5

\* Creations come first.
CreatesFirst(script) ==
    \A i \in 1..Len(script) : script[i].do = "create" => \A j \in 1..i : script[j].do = "create"

LEMMA FirstStaysFirst ==
    ASSUME NEW p, NEW q, NEW S, NEW T, p \in Seq(S), q \in Seq(T),
           \A s \in S : s.do = "create", \A s \in T : s.do # "create"
    PROVE  CreatesFirst(p \o q)
<1>1. PICK r : r = p \o q  OBVIOUS
<1>2. PICK m \in Nat : m = Len(p)  OBVIOUS
<1>3. Len(r) = m + Len(q) /\ Len(q) \in Nat  BY <1>1, <1>2
<1>4. \A i \in 1..m : r[i] = p[i] /\ p[i] \in S  BY <1>1, <1>2
<1>5. ASSUME NEW i \in 1..Len(r), i > m PROVE r[i].do # "create"
  <2>1. r[i] = q[i - m] /\ i - m \in 1..Len(q)  BY <1>1, <1>2, <1>3, <1>5
  <2>2. q[i - m] \in T  BY <2>1
  <2>. QED  BY <2>1, <2>2
<1>6. ASSUME NEW i \in 1..Len(r), r[i].do = "create", NEW j \in 1..i PROVE r[j].do = "create"
  <2>1. i <= m  BY <1>2, <1>5, <1>6
  <2>2. j \in 1..m  BY <1>2, <2>1
  <2>. QED  BY <1>4, <2>2
<1>. QED  BY <1>1, <1>6 DEF CreatesFirst

LEMMA UpListed ==
    ASSUME NEW a, Known(a)
    PROVE  Lists(UpScript(a), Ups(a)) /\ CreatesFirst(UpScript(a))
<1>. DEFINE N == ToSet(design.byName)
<1>1. PICK P : P = {Statement("create", t, None, None) : t \in AddedTables(a)}  OBVIOUS
<1>2. PICK Q : Q = UNION {UpOf(a, t) : t \in ModifiedTables(a)}  OBVIOUS
<1>3. PICK R : R = {Statement("drop", t, None, None) : t \in RemovedTables(a)}  OBVIOUS
<1>4. PICK p : p = InOrder(design.entities, [t \in AddedTables(a) |-> <<Statement("create", t, None, None)>>])  OBVIOUS
<1>5. PICK of : of = [t \in ModifiedTables(a) |-> UpColumns(a, t)]  OBVIOUS
<1>6. PICK q : q = InOrder(design.entities, of)  OBVIOUS
<1>7. PICK r : r = InOrder(design.byName, [t \in RemovedTables(a) |-> <<Statement("drop", t, None, None)>>])  OBVIOUS
<1>8. UpScript(a) = p \o q \o r  BY <1>4, <1>5, <1>6, <1>7 DEF UpScript
<1>9. /\ design.entities \in Seq(N) /\ IsInjective(design.entities)
      /\ design.byName \in Seq(N) /\ IsInjective(design.byName)
  BY DesignIs DEF Known
<1>10. Lists(p, P)
  <2>1. AddedTables(a) \subseteq ToSet(design.entities)  BY DEF AddedTables, Entities
  <2>. QED  BY <1>1, <1>4, <1>9, <2>1, SinglesListed
<1>11. Lists(r, R)
  <2>1. RemovedTables(a) \subseteq ToSet(design.byName)  BY DEF RemovedTables, Known
  <2>. QED  BY <1>3, <1>7, <1>9, <2>1, SinglesListed
<1>12. Lists(q, Q)
  <2>1. PICK sets : sets = [t \in ModifiedTables(a) |-> UpOf(a, t)]  OBVIOUS
  <2>2. ASSUME NEW t \in ModifiedTables(a) PROVE Lists(of[t], sets[t]) /\ \A s \in sets[t] : s.table = t
    <3>1. of[t] = UpColumns(a, t) /\ sets[t] = UpOf(a, t)  BY <1>5, <2>1
    <3>2. \A s \in UpOf(a, t) : s.table = t  BY DEF UpOf, Statement
    <3>. QED  BY <3>1, <3>2, UpColumnsListed
  <2>3. of = [t \in ModifiedTables(a) |-> of[t]]  BY <1>5
  <2>4. ModifiedTables(a) \subseteq ToSet(design.entities)  BY DEF ModifiedTables, Entities
  <2>5. Lists(q, UNION {sets[t] : t \in ModifiedTables(a)})  BY <1>6, <1>9, <2>2, <2>3, <2>4, ColumnsListed
  <2>6. UNION {sets[t] : t \in ModifiedTables(a)} = Q  BY <1>2, <2>1
  <2>. QED  BY <2>5, <2>6
<1>13. /\ \A s \in P : s.do = "create"
       /\ \A s \in Q : s.do \in Changes
       /\ \A s \in R : s.do = "drop"
  BY <1>1, <1>2, <1>3 DEF Statement, UpOf, Changes
<1>14. P \cap Q = {} /\ (P \cup Q) \cap R = {}
  <2>1. ASSUME NEW s, s \in P \cap Q \/ s \in (P \cup Q) \cap R PROVE FALSE  BY <1>13, <2>1 DEF Changes
  <2>. QED  BY <2>1
<1>15. Lists(p \o q, P \cup Q)  BY <1>10, <1>12, <1>14, ListsJoined
<1>16. Lists(p \o q \o r, (P \cup Q) \cup R)  BY <1>11, <1>14, <1>15, ListsJoined
<1>17. (P \cup Q) \cup R = Ups(a)  BY <1>1, <1>2, <1>3 DEF Ups
<1>18. CreatesFirst(UpScript(a))
  <2>1. p \in Seq(P) /\ q \in Seq(Q) /\ r \in Seq(R)  BY <1>10, <1>11, <1>12 DEF Lists
  <2>2. q \in Seq(Q \cup R) /\ r \in Seq(Q \cup R)  BY <2>1
  <2>3. q \o r \in Seq(Q \cup R)  BY <2>2
  <2>4. p \o q \o r = p \o (q \o r)  BY <2>1, ConcatAssociative, <2>2
  <2>5. \A s \in Q \cup R : s.do # "create"  BY <1>13 DEF Changes
  <2>6. CreatesFirst(p \o (q \o r))  BY <1>13, <2>1, <2>3, <2>5, FirstStaysFirst
  <2>. QED  BY <1>8, <2>4, <2>6
<1>. QED  BY <1>8, <1>16, <1>17, <1>18

LEMMA DownListed ==
    ASSUME NEW a, Known(a)
    PROVE  Lists(DownScript(a), Downs(a))
<1>. DEFINE N == ToSet(design.byName)
<1>1. PICK P : P = {Statement("drop", t, None, None) : t \in AddedTables(a)}  OBVIOUS
<1>2. PICK Q : Q = UNION {DownOf(a, t) : t \in ModifiedTables(a)}  OBVIOUS
<1>3. PICK R : R = {Statement("remark", t, None, None) : t \in RemovedTables(a)}  OBVIOUS
<1>4. PICK p : p = InOrder(design.entities, [t \in AddedTables(a) |-> <<Statement("drop", t, None, None)>>])  OBVIOUS
<1>5. PICK of : of = [t \in ModifiedTables(a) |-> DownColumns(a, t)]  OBVIOUS
<1>6. PICK q : q = InOrder(design.entities, of)  OBVIOUS
<1>7. PICK r : r = InOrder(design.byName, [t \in RemovedTables(a) |-> <<Statement("remark", t, None, None)>>])  OBVIOUS
<1>8. DownScript(a) = p \o q \o r  BY <1>4, <1>5, <1>6, <1>7 DEF DownScript
<1>9. /\ design.entities \in Seq(N) /\ IsInjective(design.entities)
      /\ design.byName \in Seq(N) /\ IsInjective(design.byName)
  BY DesignIs DEF Known
<1>10. Lists(p, P)
  <2>1. AddedTables(a) \subseteq ToSet(design.entities)  BY DEF AddedTables, Entities
  <2>. QED  BY <1>1, <1>4, <1>9, <2>1, SinglesListed
<1>11. Lists(r, R)
  <2>1. RemovedTables(a) \subseteq ToSet(design.byName)  BY DEF RemovedTables, Known
  <2>. QED  BY <1>3, <1>7, <1>9, <2>1, SinglesListed
<1>12. Lists(q, Q)
  <2>1. PICK sets : sets = [t \in ModifiedTables(a) |-> DownOf(a, t)]  OBVIOUS
  <2>2. ASSUME NEW t \in ModifiedTables(a) PROVE Lists(of[t], sets[t]) /\ \A s \in sets[t] : s.table = t
    <3>1. of[t] = DownColumns(a, t) /\ sets[t] = DownOf(a, t)  BY <1>5, <2>1
    <3>2. \A s \in DownOf(a, t) : s.table = t  BY DEF DownOf, Statement
    <3>. QED  BY <3>1, <3>2, DownColumnsListed
  <2>3. of = [t \in ModifiedTables(a) |-> of[t]]  BY <1>5
  <2>4. ModifiedTables(a) \subseteq ToSet(design.entities)  BY DEF ModifiedTables, Entities
  <2>5. Lists(q, UNION {sets[t] : t \in ModifiedTables(a)})  BY <1>6, <1>9, <2>2, <2>3, <2>4, ColumnsListed
  <2>6. UNION {sets[t] : t \in ModifiedTables(a)} = Q  BY <1>2, <2>1
  <2>. QED  BY <2>5, <2>6
<1>13. /\ \A s \in P : s.do = "drop"
       /\ \A s \in Q : s.do \in Changes
       /\ \A s \in R : s.do = "remark"
  BY <1>1, <1>2, <1>3 DEF Statement, DownOf, Changes
<1>14. P \cap Q = {} /\ (P \cup Q) \cap R = {}
  <2>1. ASSUME NEW s, s \in P \cap Q \/ s \in (P \cup Q) \cap R PROVE FALSE  BY <1>13, <2>1 DEF Changes
  <2>. QED  BY <2>1
<1>15. Lists(p \o q, P \cup Q)  BY <1>10, <1>12, <1>14, ListsJoined
<1>16. Lists(p \o q \o r, (P \cup Q) \cup R)  BY <1>11, <1>14, <1>15, ListsJoined
<1>17. (P \cup Q) \cup R = Downs(a)  BY <1>1, <1>2, <1>3 DEF Downs
<1>. QED  BY <1>8, <1>16, <1>17

LEMMA TidyWhenApart ==
    ASSUME NEW script, NEW S, Lists(script, S),
           \A s \in S : s.do \in Kinds, \A s, r \in S : s # r => Apart(s, r)
    PROVE  Tidy(script) /\ Len(script) \in Nat /\ \A i \in 1..Len(script) : script[i] \in S
<1>1. script \in Seq(S)  BY DEF Lists
<1>2. Len(script) \in Nat /\ \A i \in 1..Len(script) : script[i] \in S  BY <1>1
<1>3. ASSUME NEW i \in 1..Len(script), NEW j \in 1..Len(script), i # j PROVE Apart(script[i], script[j])
  <2>1. script[i] # script[j]  BY <1>3 DEF Lists
  <2>. QED  BY <1>2, <2>1
<1>. QED  BY <1>2, <1>3 DEF Tidy

IsStatement(s) == s = Statement(s.do, s.table, s.column, s.type)

\* What an up script says.
UpSays(a, s) ==
    /\ IsStatement(s) /\ s.do \in Places \cup Changes
    /\ s.do = "create" => s.table \in AddedTables(a)
    /\ s.do = "drop" => s.table \in RemovedTables(a)
    /\ s.do \in Places => s.column = None /\ s.type = None
    /\ s.do \in Changes => s.table \in ModifiedTables(a)
    /\ s.do = "add" => s.column \in AddedColumns(a, s.table)
    /\ s.do = "retype" => s.column \in ModifiedColumns(a, s.table)
    /\ s.do \in {"add", "retype"} => s.type = design.fields[s.table][s.column].diff
    /\ s.do = "remove" => s.column \in RemovedColumns(a, s.table) /\ s.type = None

\* What a down script says.
DownSays(a, s) ==
    /\ IsStatement(s) /\ s.do \in Kinds \ {"create"}
    /\ s.do = "drop" => s.table \in AddedTables(a)
    /\ s.do = "drop" => s.column = None /\ s.type = None
    /\ s.do \in Changes => s.table \in ModifiedTables(a)
    /\ s.do = "add" => s.column \in RemovedColumns(a, s.table) /\ s.type = "TEXT"
    /\ s.do = "retype" => s.column \in ModifiedColumns(a, s.table) /\ s.type = diff[a].seen[s.table][s.column].type
    /\ s.do = "remove" => s.column \in AddedColumns(a, s.table) /\ s.type = None

LEMMA StatementIs ==
    ASSUME NEW do, NEW t, NEW c, NEW type, NEW s, s = Statement(do, t, c, type)
    PROVE  IsStatement(s) /\ s.do = do /\ s.table = t /\ s.column = c /\ s.type = type
BY DEF IsStatement, Statement

LEMMA ColumnsApart ==
    ASSUME NEW a, NEW t
    PROVE  /\ AddedColumns(a, t) \cap ModifiedColumns(a, t) = {}
           /\ AddedColumns(a, t) \cap RemovedColumns(a, t) = {}
           /\ ModifiedColumns(a, t) \cap RemovedColumns(a, t) = {}
BY DEF AddedColumns, ModifiedColumns, RemovedColumns

LEMMA TablesApart ==
    ASSUME NEW a
    PROVE  /\ AddedTables(a) \cap ModifiedTables(a) = {} /\ AddedTables(a) \cap RemovedTables(a) = {}
           /\ ModifiedTables(a) \cap RemovedTables(a) = {}
BY DEF AddedTables, ModifiedTables, RemovedTables

LEMMA UpsSay == ASSUME NEW a, NEW s \in Ups(a) PROVE UpSays(a, s)
<1>1. CASE \E t \in AddedTables(a) : s = Statement("create", t, None, None)
  <2>1. PICK t \in AddedTables(a) : s = Statement("create", t, None, None)  BY <1>1
  <2>2. IsStatement(s) /\ s.do = "create" /\ s.table = t /\ s.column = None /\ s.type = None  BY <2>1, StatementIs
  <2>. QED  BY <2>2 DEF UpSays, Places, Changes
<1>2. CASE \E t \in RemovedTables(a) : s = Statement("drop", t, None, None)
  <2>1. PICK t \in RemovedTables(a) : s = Statement("drop", t, None, None)  BY <1>2
  <2>2. IsStatement(s) /\ s.do = "drop" /\ s.table = t /\ s.column = None /\ s.type = None  BY <2>1, StatementIs
  <2>. QED  BY <2>2 DEF UpSays, Places, Changes
<1>3. CASE \E t \in ModifiedTables(a) : s \in UpOf(a, t)
  <2>1. PICK t \in ModifiedTables(a) : s \in UpOf(a, t)  BY <1>3
  <2>2. CASE \E c \in AddedColumns(a, t) : s = Statement("add", t, c, design.fields[t][c].diff)
    <3>1. PICK c \in AddedColumns(a, t) : s = Statement("add", t, c, design.fields[t][c].diff)  BY <2>2
    <3>2. /\ IsStatement(s) /\ s.do = "add" /\ s.table = t /\ s.column = c
          /\ s.type = design.fields[t][c].diff
      BY <3>1, StatementIs
    <3>. QED  BY <3>2 DEF UpSays, Places, Changes
  <2>3. CASE \E c \in ModifiedColumns(a, t) : s = Statement("retype", t, c, design.fields[t][c].diff)
    <3>1. PICK c \in ModifiedColumns(a, t) : s = Statement("retype", t, c, design.fields[t][c].diff)  BY <2>3
    <3>2. /\ IsStatement(s) /\ s.do = "retype" /\ s.table = t /\ s.column = c
          /\ s.type = design.fields[t][c].diff
      BY <3>1, StatementIs
    <3>. QED  BY <3>2 DEF UpSays, Places, Changes
  <2>4. CASE \E c \in RemovedColumns(a, t) : s = Statement("remove", t, c, None)
    <3>1. PICK c \in RemovedColumns(a, t) : s = Statement("remove", t, c, None)  BY <2>4
    <3>2. IsStatement(s) /\ s.do = "remove" /\ s.table = t /\ s.column = c /\ s.type = None  BY <3>1, StatementIs
    <3>. QED  BY <3>2 DEF UpSays, Places, Changes
  <2>. QED  BY <2>1, <2>2, <2>3, <2>4 DEF UpOf
<1>. QED  BY <1>1, <1>2, <1>3 DEF Ups

LEMMA DownsSay == ASSUME NEW a, NEW s \in Downs(a) PROVE DownSays(a, s)
<1>1. CASE \E t \in AddedTables(a) : s = Statement("drop", t, None, None)
  <2>1. PICK t \in AddedTables(a) : s = Statement("drop", t, None, None)  BY <1>1
  <2>2. IsStatement(s) /\ s.do = "drop" /\ s.table = t /\ s.column = None /\ s.type = None  BY <2>1, StatementIs
  <2>. QED  BY <2>2 DEF DownSays, Places, Changes, Kinds
<1>2. CASE \E t \in RemovedTables(a) : s = Statement("remark", t, None, None)
  <2>1. PICK t \in RemovedTables(a) : s = Statement("remark", t, None, None)  BY <1>2
  <2>2. IsStatement(s) /\ s.do = "remark"  BY <2>1, StatementIs
  <2>. QED  BY <2>2 DEF DownSays, Places, Changes, Kinds
<1>3. CASE \E t \in ModifiedTables(a) : s \in DownOf(a, t)
  <2>1. PICK t \in ModifiedTables(a) : s \in DownOf(a, t)  BY <1>3
  <2>2. CASE \E c \in AddedColumns(a, t) : s = Statement("remove", t, c, None)
    <3>1. PICK c \in AddedColumns(a, t) : s = Statement("remove", t, c, None)  BY <2>2
    <3>2. IsStatement(s) /\ s.do = "remove" /\ s.table = t /\ s.column = c /\ s.type = None  BY <3>1, StatementIs
    <3>. QED  BY <3>2 DEF DownSays, Places, Changes, Kinds
  <2>3. CASE \E c \in ModifiedColumns(a, t) : s = Statement("retype", t, c, diff[a].seen[t][c].type)
    <3>1. PICK c \in ModifiedColumns(a, t) : s = Statement("retype", t, c, diff[a].seen[t][c].type)  BY <2>3
    <3>2. PICK type : type = diff[a].seen[t][c].type  OBVIOUS
    <3>3. s = Statement("retype", t, c, type)  BY <3>1, <3>2
    <3>4. IsStatement(s) /\ s.do = "retype" /\ s.table = t /\ s.column = c /\ s.type = type
      BY <3>3, StatementIs
    <3>. QED  BY <3>2, <3>4 DEF DownSays, Places, Changes, Kinds
  <2>4. CASE \E c \in RemovedColumns(a, t) : s = Statement("add", t, c, "TEXT")
    <3>1. PICK c \in RemovedColumns(a, t) : s = Statement("add", t, c, "TEXT")  BY <2>4
    <3>2. IsStatement(s) /\ s.do = "add" /\ s.table = t /\ s.column = c /\ s.type = "TEXT"  BY <3>1, StatementIs
    <3>. QED  BY <3>2 DEF DownSays, Places, Changes, Kinds
  <2>. QED  BY <2>1, <2>2, <2>3, <2>4 DEF DownOf
<1>. QED  BY <1>1, <1>2, <1>3 DEF Downs

LEMMA UpTidy ==
    ASSUME NEW a, Known(a)
    PROVE  /\ Tidy(UpScript(a)) /\ Len(UpScript(a)) \in Nat
           /\ \A i \in 1..Len(UpScript(a)) : UpSays(a, UpScript(a)[i])
<1>1. \A s \in Ups(a) : UpSays(a, s)  BY UpsSay
<1>2. \A s \in Ups(a) : s.do \in Kinds  BY <1>1 DEF UpSays, Kinds
<1>3. ASSUME NEW s \in Ups(a), NEW r \in Ups(a), s # r, ~Apart(s, r) PROVE FALSE
  <2>1. UpSays(a, s) /\ UpSays(a, r) /\ s.table = r.table  BY <1>1, <1>3 DEF Apart
  <2>2. s.do = r.do /\ s.column = r.column
    <3>1. CASE s.do \in Places
      <4>1. s.do = r.do  BY <2>1, <3>1, TablesApart DEF UpSays, Places
      <4>. QED  BY <2>1, <3>1, <4>1 DEF UpSays
    <3>2. CASE s.do \in Changes
      <4>1. r.do \in Changes  BY <2>1, <3>2, TablesApart DEF UpSays, Places
      <4>2. s.column = r.column  BY <1>3, <2>1, <3>2, <4>1 DEF Apart
      <4>3. s.do = r.do  BY <2>1, <3>2, <4>1, <4>2, ColumnsApart DEF UpSays, Changes
      <4>. QED  BY <4>2, <4>3
    <3>. QED  BY <2>1, <3>1, <3>2 DEF UpSays
  <2>3. s.type = r.type  BY <2>1, <2>2 DEF UpSays, Places, Changes
  <2>. QED  BY <1>3, <2>1, <2>2, <2>3 DEF UpSays, IsStatement
<1>4. \A s, r \in Ups(a) : s # r => Apart(s, r)  BY <1>3
<1>5. Lists(UpScript(a), Ups(a))  BY UpListed
<1>. QED  BY <1>1, <1>2, <1>4, <1>5, TidyWhenApart

LEMMA DownTidy ==
    ASSUME NEW a, Known(a)
    PROVE  /\ Tidy(DownScript(a)) /\ Len(DownScript(a)) \in Nat
           /\ \A i \in 1..Len(DownScript(a)) : DownSays(a, DownScript(a)[i])
<1>1. \A s \in Downs(a) : DownSays(a, s)  BY DownsSay
<1>2. \A s \in Downs(a) : s.do \in Kinds  BY <1>1 DEF DownSays
<1>3. ASSUME NEW s \in Downs(a), NEW r \in Downs(a), s # r, ~Apart(s, r) PROVE FALSE
  <2>1. DownSays(a, s) /\ DownSays(a, r) /\ s.table = r.table /\ "remark" \notin {s.do, r.do}
    BY <1>1, <1>3 DEF Apart
  <2>2. s.do = r.do /\ s.column = r.column
    <3>1. CASE s.do = "drop"
      <4>1. s.do = r.do  BY <2>1, <3>1, TablesApart DEF DownSays, Places, Kinds
      <4>. QED  BY <2>1, <3>1, <4>1 DEF DownSays
    <3>2. CASE s.do \in Changes
      <4>1. r.do \in Changes  BY <2>1, <3>2, TablesApart DEF DownSays, Places, Kinds
      <4>2. s.column = r.column  BY <1>3, <2>1, <3>2, <4>1 DEF Apart
      <4>3. s.do = r.do  BY <2>1, <3>2, <4>1, <4>2, ColumnsApart DEF DownSays, Changes
      <4>. QED  BY <4>2, <4>3
    <3>. QED  BY <2>1, <3>1, <3>2 DEF DownSays, Kinds, Places
  <2>3. s.type = r.type  BY <2>1, <2>2 DEF DownSays, Places, Changes, Kinds
  <2>. QED  BY <1>3, <2>1, <2>2, <2>3 DEF DownSays, IsStatement
<1>4. \A s, r \in Downs(a) : s # r => Apart(s, r)  BY <1>3
<1>5. Lists(DownScript(a), Downs(a))  BY DownListed
<1>. QED  BY <1>1, <1>2, <1>4, <1>5, TidyWhenApart

\* A script has a statement about a table, or a column of it.
Has(script, do, t, c) ==
    \E i \in 1..Len(script) : script[i].do = do /\ script[i].table = t /\ script[i].column = c

LEMMA ListHas ==
    ASSUME NEW script, NEW S, Lists(script, S), NEW do, NEW t, NEW c, NEW type, Statement(do, t, c, type) \in S
    PROVE  Has(script, do, t, c)
<1>1. PICK i \in 1..Len(script) : script[i] = Statement(do, t, c, type)  BY DEF Lists
<1>. QED  BY <1>1, StatementIs DEF Has

LEMMA UpHas ==
    ASSUME NEW a, Known(a)
    PROVE  /\ \A t \in AddedTables(a) : Has(UpScript(a), "create", t, None)
           /\ \A t \in RemovedTables(a) : Has(UpScript(a), "drop", t, None)
           /\ \A t \in ModifiedTables(a) :
                  /\ \A c \in AddedColumns(a, t) : Has(UpScript(a), "add", t, c)
                  /\ \A c \in ModifiedColumns(a, t) : Has(UpScript(a), "retype", t, c)
                  /\ \A c \in RemovedColumns(a, t) : Has(UpScript(a), "remove", t, c)
<1>1. Lists(UpScript(a), Ups(a))  BY UpListed
<1>2. /\ \A t \in AddedTables(a) : Statement("create", t, None, None) \in Ups(a)
      /\ \A t \in RemovedTables(a) : Statement("drop", t, None, None) \in Ups(a)
  BY DEF Ups
<1>3. ASSUME NEW t \in ModifiedTables(a)
      PROVE  /\ \A c \in AddedColumns(a, t) : Statement("add", t, c, design.fields[t][c].diff) \in Ups(a)
             /\ \A c \in ModifiedColumns(a, t) : Statement("retype", t, c, design.fields[t][c].diff) \in Ups(a)
             /\ \A c \in RemovedColumns(a, t) : Statement("remove", t, c, None) \in Ups(a)
  <2>1. UpOf(a, t) \subseteq Ups(a)  BY DEF Ups
  <2>. QED  BY <2>1 DEF UpOf
<1>. QED  BY <1>1, <1>2, <1>3, ListHas

LEMMA DownHas ==
    ASSUME NEW a, Known(a)
    PROVE  /\ \A t \in AddedTables(a) : Has(DownScript(a), "drop", t, None)
           /\ \A t \in ModifiedTables(a) :
                  /\ \A c \in AddedColumns(a, t) : Has(DownScript(a), "remove", t, c)
                  /\ \A c \in ModifiedColumns(a, t) : Has(DownScript(a), "retype", t, c)
                  /\ \A c \in RemovedColumns(a, t) : Has(DownScript(a), "add", t, c)
<1>1. Lists(DownScript(a), Downs(a))  BY DownListed
<1>2. \A t \in AddedTables(a) : Statement("drop", t, None, None) \in Downs(a)  BY DEF Downs
<1>3. ASSUME NEW t \in ModifiedTables(a)
      PROVE  /\ \A c \in AddedColumns(a, t) : Statement("remove", t, c, None) \in Downs(a)
             /\ \A c \in ModifiedColumns(a, t) : Statement("retype", t, c, diff[a].seen[t][c].type) \in Downs(a)
             /\ \A c \in RemovedColumns(a, t) : Statement("add", t, c, "TEXT") \in Downs(a)
  <2>1. DownOf(a, t) \subseteq Downs(a)  BY DEF Downs
  <2>. QED  BY <2>1 DEF DownOf
<1>. QED  BY <1>1, <1>2, <1>3, ListHas

-----------------------------------------------------------------------------
\* What a migration makes of the catalogue old.
UpMakes(a, old, db) ==
    /\ AddedTables(a) \cap DOMAIN old = {} /\ RemovedTables(a) \subseteq DOMAIN old
    /\ DOMAIN db = (DOMAIN old \ RemovedTables(a)) \cup AddedTables(a)
    /\ \A t \in AddedTables(a) : db[t] = CreatedTable(t)
    /\ \A t \in DOMAIN old \cap DOMAIN db : \A c :
           IF t \in ModifiedTables(a) /\ c \in AddedColumns(a, t)
           THEN /\ c \notin DOMAIN old[t] /\ c \in DOMAIN db[t]
                /\ db[t][c].type = DataType(design.fields[t][c].diff)
           ELSE IF t \in ModifiedTables(a) /\ c \in ModifiedColumns(a, t)
           THEN /\ c \in DOMAIN old[t] /\ c \in DOMAIN db[t]
                /\ db[t][c].type = DataType(design.fields[t][c].diff)
           ELSE IF t \in ModifiedTables(a) /\ c \in RemovedColumns(a, t)
           THEN c \in DOMAIN old[t] /\ c \notin DOMAIN db[t]
           ELSE SameColumn(old, db, t, c)

DownMakes(a, old, db) ==
    /\ AddedTables(a) \subseteq DOMAIN old
    /\ DOMAIN db = DOMAIN old \ AddedTables(a)
    /\ \A t \in DOMAIN db : \A c :
           IF t \in ModifiedTables(a) /\ c \in AddedColumns(a, t) THEN c \notin DOMAIN db[t]
           ELSE IF t \in ModifiedTables(a) /\ c \in ModifiedColumns(a, t)
           THEN c \in DOMAIN db[t] /\ db[t][c].type = DataType(diff[a].seen[t][c].type)
           ELSE IF t \in ModifiedTables(a) /\ c \in RemovedColumns(a, t)
           THEN c \in DOMAIN db[t] /\ db[t][c].type = "text"
           ELSE SameColumn(old, db, t, c)

LEMMA HasLeft ==
    ASSUME NEW old, NEW script, NEW db, After(old, script, Len(script), db),
           NEW do, NEW t, NEW c, Has(script, do, t, c)
    PROVE  \E i \in 1..Len(script) :
               /\ script[i].do = do /\ script[i].table = t /\ script[i].column = c
               /\ Finds(old, script[i]) /\ Leaves(old, db, script[i])
BY DEF Has, After

LEMMA UpDoes ==
    ASSUME NEW a, Known(a), NEW old, NEW db, After(old, UpScript(a), Len(UpScript(a)), db)
    PROVE  UpMakes(a, old, db)
<1>. DEFINE script == UpScript(a)
            n == Len(UpScript(a))
<1>1. n \in Nat /\ \A i \in 1..n : UpSays(a, script[i])  BY UpTidy
<1>2. ASSUME NEW t, NamesTable(script, n, t) PROVE t \in AddedTables(a) \cup RemovedTables(a)
  BY <1>1, <1>2 DEF NamesTable, UpSays, Places
<1>3. ASSUME NEW t, NEW c, NamesColumn(script, n, t, c)
      PROVE  t \in ModifiedTables(a) /\ c \in AddedColumns(a, t) \cup ModifiedColumns(a, t) \cup RemovedColumns(a, t)
  BY <1>1, <1>3 DEF NamesColumn, UpSays, Changes
<1>4. ASSUME NEW t \in AddedTables(a)
      PROVE  t \notin DOMAIN old /\ t \in DOMAIN db /\ db[t] = CreatedTable(t)
  <2>1. Has(script, "create", t, None)  BY UpHas
  <2>2. PICK i \in 1..n : /\ script[i].do = "create" /\ script[i].table = t
                          /\ Finds(old, script[i]) /\ Leaves(old, db, script[i])
    BY <2>1, HasLeft
  <2>. QED  BY <2>2 DEF Finds, Leaves
<1>5. ASSUME NEW t \in RemovedTables(a)
      PROVE  t \in DOMAIN old /\ t \notin DOMAIN db
  <2>1. Has(script, "drop", t, None)  BY UpHas
  <2>2. PICK i \in 1..n : /\ script[i].do = "drop" /\ script[i].table = t
                          /\ Finds(old, script[i]) /\ Leaves(old, db, script[i])
    BY <2>1, HasLeft
  <2>. QED  BY <2>2 DEF Finds, Leaves
<1>6. ASSUME NEW t, t \notin AddedTables(a) \cup RemovedTables(a) PROVE t \in DOMAIN old <=> t \in DOMAIN db
  BY <1>2, <1>6 DEF After
<1>7. ASSUME NEW t \in DOMAIN old \cap DOMAIN db, NEW c,
             t \in ModifiedTables(a) => c \notin AddedColumns(a, t) \cup ModifiedColumns(a, t) \cup RemovedColumns(a, t)
      PROVE  SameColumn(old, db, t, c)
  <2>1. ~NamesTable(script, n, t)  BY <1>2, <1>4, <1>5
  <2>2. ~NamesColumn(script, n, t, c)  BY <1>3, <1>7
  <2>3. CASE c \in DOMAIN old[t] \cup DOMAIN db[t]  BY <2>1, <2>2, <2>3 DEF After
  <2>4. CASE c \notin DOMAIN old[t] \cup DOMAIN db[t]  BY <2>4 DEF SameColumn
  <2>. QED  BY <2>3, <2>4
<1>8. ASSUME NEW t \in ModifiedTables(a), NEW c \in AddedColumns(a, t)
      PROVE  c \notin DOMAIN old[t] /\ c \in DOMAIN db[t] /\ db[t][c].type = DataType(design.fields[t][c].diff)
  <2>1. Has(script, "add", t, c)  BY UpHas
  <2>2. PICK i \in 1..n : /\ script[i].do = "add" /\ script[i].table = t /\ script[i].column = c
                          /\ Finds(old, script[i]) /\ Leaves(old, db, script[i])
    BY <2>1, HasLeft
  <2>3. script[i].type = design.fields[t][c].diff  BY <1>1, <2>2 DEF UpSays
  <2>. QED  BY <2>2, <2>3 DEF Finds, Leaves
<1>9. ASSUME NEW t \in ModifiedTables(a), NEW c \in ModifiedColumns(a, t)
      PROVE  c \in DOMAIN old[t] /\ c \in DOMAIN db[t] /\ db[t][c].type = DataType(design.fields[t][c].diff)
  <2>1. Has(script, "retype", t, c)  BY UpHas
  <2>2. PICK i \in 1..n : /\ script[i].do = "retype" /\ script[i].table = t /\ script[i].column = c
                          /\ Finds(old, script[i]) /\ Leaves(old, db, script[i])
    BY <2>1, HasLeft
  <2>3. script[i].type = design.fields[t][c].diff  BY <1>1, <2>2 DEF UpSays
  <2>. QED  BY <2>2, <2>3 DEF Finds, Leaves
<1>10. ASSUME NEW t \in ModifiedTables(a), NEW c \in RemovedColumns(a, t)
       PROVE  c \in DOMAIN old[t] /\ c \notin DOMAIN db[t]
  <2>1. Has(script, "remove", t, c)  BY UpHas
  <2>2. PICK i \in 1..n : /\ script[i].do = "remove" /\ script[i].table = t /\ script[i].column = c
                          /\ Finds(old, script[i]) /\ Leaves(old, db, script[i])
    BY <2>1, HasLeft
  <2>. QED  BY <2>2 DEF Finds, Leaves
<1>11. DOMAIN db = (DOMAIN old \ RemovedTables(a)) \cup AddedTables(a)  BY <1>4, <1>5, <1>6
<1>. QED  BY <1>4, <1>5, <1>7, <1>8, <1>9, <1>10, <1>11 DEF UpMakes

LEMMA DownDoes ==
    ASSUME NEW a, Known(a), NEW old, NEW db, After(old, DownScript(a), Len(DownScript(a)), db)
    PROVE  DownMakes(a, old, db)
<1>. DEFINE script == DownScript(a)
            n == Len(DownScript(a))
<1>1. n \in Nat /\ \A i \in 1..n : DownSays(a, script[i])  BY DownTidy
<1>2. ASSUME NEW t, NamesTable(script, n, t) PROVE t \in AddedTables(a)
  BY <1>1, <1>2 DEF NamesTable, DownSays, Places, Kinds
<1>3. ASSUME NEW t, NEW c, NamesColumn(script, n, t, c)
      PROVE  t \in ModifiedTables(a) /\ c \in AddedColumns(a, t) \cup ModifiedColumns(a, t) \cup RemovedColumns(a, t)
  BY <1>1, <1>3 DEF NamesColumn, DownSays, Changes
<1>4. ASSUME NEW t \in AddedTables(a) PROVE t \in DOMAIN old /\ t \notin DOMAIN db
  <2>1. Has(script, "drop", t, None)  BY DownHas
  <2>2. PICK i \in 1..n : /\ script[i].do = "drop" /\ script[i].table = t
                          /\ Finds(old, script[i]) /\ Leaves(old, db, script[i])
    BY <2>1, HasLeft
  <2>. QED  BY <2>2 DEF Finds, Leaves
<1>5. ASSUME NEW t, t \notin AddedTables(a) PROVE t \in DOMAIN old <=> t \in DOMAIN db
  BY <1>2, <1>5 DEF After
<1>6. ASSUME NEW t \in DOMAIN db, NEW c,
             t \in ModifiedTables(a) => c \notin AddedColumns(a, t) \cup ModifiedColumns(a, t) \cup RemovedColumns(a, t)
      PROVE  SameColumn(old, db, t, c)
  <2>1. ~NamesTable(script, n, t)  BY <1>2, <1>4
  <2>2. ~NamesColumn(script, n, t, c)  BY <1>3, <1>6
  <2>3. CASE c \in DOMAIN old[t] \cup DOMAIN db[t]  BY <2>1, <2>2, <2>3 DEF After
  <2>4. CASE c \notin DOMAIN old[t] \cup DOMAIN db[t]  BY <2>4 DEF SameColumn
  <2>. QED  BY <2>3, <2>4
<1>7. ASSUME NEW t \in ModifiedTables(a), NEW c \in AddedColumns(a, t) PROVE c \notin DOMAIN db[t]
  <2>1. Has(script, "remove", t, c)  BY DownHas
  <2>2. PICK i \in 1..n : /\ script[i].do = "remove" /\ script[i].table = t /\ script[i].column = c
                          /\ Leaves(old, db, script[i])
    BY <2>1, HasLeft
  <2>. QED  BY <2>2 DEF Leaves
<1>8. ASSUME NEW t \in ModifiedTables(a), NEW c \in ModifiedColumns(a, t)
      PROVE  c \in DOMAIN db[t] /\ db[t][c].type = DataType(diff[a].seen[t][c].type)
  <2>1. Has(script, "retype", t, c)  BY DownHas
  <2>2. PICK i \in 1..n : /\ script[i].do = "retype" /\ script[i].table = t /\ script[i].column = c
                          /\ Leaves(old, db, script[i])
    BY <2>1, HasLeft
  <2>3. script[i].type = diff[a].seen[t][c].type  BY <1>1, <2>2 DEF DownSays
  <2>. QED  BY <2>2, <2>3 DEF Leaves
<1>9. ASSUME NEW t \in ModifiedTables(a), NEW c \in RemovedColumns(a, t)
      PROVE  c \in DOMAIN db[t] /\ db[t][c].type = "text"
  <2>1. Has(script, "add", t, c)  BY DownHas
  <2>2. PICK i \in 1..n : /\ script[i].do = "add" /\ script[i].table = t /\ script[i].column = c
                          /\ Leaves(old, db, script[i])
    BY <2>1, HasLeft
  <2>3. script[i].type = "TEXT"  BY <1>1, <2>2 DEF DownSays
  <2>4. DataType("TEXT") = "text"  BY DEF DataType
  <2>. QED  BY <2>2, <2>3, <2>4 DEF Leaves
<1>10. DOMAIN db = DOMAIN old \ AddedTables(a)  BY <1>4, <1>5
<1>. QED  BY <1>4, <1>6, <1>7, <1>8, <1>9, <1>10 DEF DownMakes

LEMMA DataTypeIsOwn == ASSUME NEW x PROVE DataType(x) \notin Foreign
BY DEF DataType, Foreign

LEMMA OwnTypeIsItself == ASSUME NEW x, x \notin Foreign PROVE DataType(x) = x
BY DEF DataType, Foreign

LEMMA SameWhenNormalized ==
    ASSUME NEW x, x \notin Foreign, NEW type, NormalizeType(type) = NormalizeType(x)
    PROVE  x = DataType(type)
BY DEF DataType, NormalizeType, Foreign

LEMMA CreatedIsOwn ==
    ASSUME design \in Designs, NEW t \in Entities
    PROVE  OwnColumns(CreatedTable(t))
<1>1. IsFiniteSet(DOMAIN design.fields[t]) /\ IsFiniteSet(DOMAIN design.refers[t])
  BY SchemaDiffsAssumption DEF Entities
<1>2. PICK F : F = DOMAIN design.fields[t] \cup DOMAIN design.refers[t]  OBVIOUS
<1>3. IsFiniteSet(F)  BY <1>1, <1>2, FS_Union
<1>4. PICK columns : columns = CreatedTable(t)  OBVIOUS
<1>5. DOMAIN columns = F  BY <1>2, <1>4 DEF CreatedTable
<1>6. ASSUME NEW c \in F PROVE columns[c].type \notin Foreign
  <2>1. CASE c \in DOMAIN design.fields[t]
    <3>1. columns[c].type = DataType(design.fields[t][c].ddl)  BY <1>2, <1>4, <2>1 DEF CreatedTable
    <3>. QED  BY <3>1, DataTypeIsOwn
  <2>2. CASE c \notin DOMAIN design.fields[t]
    <3>1. columns[c].type = "integer"  BY <1>2, <1>4, <2>2 DEF CreatedTable
    <3>. QED  BY <3>1 DEF Foreign
  <2>. QED  BY <2>1, <2>2
<1>. QED  BY <1>3, <1>4, <1>5, <1>6 DEF OwnColumns

LEMMA UpKeepsOwnTypes ==
    ASSUME NEW a, Known(a), NEW old, NEW db, UpMakes(a, old, db), OwnTypes(old)
    PROVE  OwnTypes(db)
<1>1. ASSUME NEW t \in DOMAIN db PROVE OwnColumns(db[t])
  <2>1. CASE t \in AddedTables(a)
    <3>1. db[t] = CreatedTable(t) /\ t \in Entities  BY <2>1 DEF UpMakes, AddedTables
    <3>. QED  BY <3>1, CreatedIsOwn DEF Known
  <2>2. CASE t \notin AddedTables(a)
    <3>1. t \in DOMAIN old \cap DOMAIN db  BY <2>2 DEF UpMakes
    <3>2. OwnColumns(old[t])  BY <3>1 DEF OwnTypes
    <3>3. PICK F : F = IF t \in ModifiedTables(a) THEN DOMAIN old[t] \cup AddedColumns(a, t) ELSE DOMAIN old[t]  OBVIOUS
    <3>4. IsFiniteSet(F)
      <4>1. IsFiniteSet(DOMAIN old[t])  BY <3>2 DEF OwnColumns
      <4>2. t \in ModifiedTables(a) => IsFiniteSet(AddedColumns(a, t))  BY ColumnSets
      <4>3. CASE t \in ModifiedTables(a)  BY <3>3, <4>1, <4>2, <4>3, FS_Union
      <4>4. CASE t \notin ModifiedTables(a)  BY <3>3, <4>1, <4>4
      <4>. QED  BY <4>3, <4>4
    <3>5. DOMAIN db[t] \subseteq F  BY <3>1, <3>3 DEF UpMakes, SameColumn
    <3>6. IsFiniteSet(DOMAIN db[t])  BY <3>4, <3>5, FS_Subset
    <3>7. ASSUME NEW c \in DOMAIN db[t] PROVE db[t][c].type \notin Foreign
      <4>1. \/ db[t][c].type = DataType(design.fields[t][c].diff)
            \/ c \in DOMAIN old[t] /\ db[t][c] = old[t][c]
        BY <3>1 DEF UpMakes, SameColumn
      <4>. QED  BY <3>2, <4>1, DataTypeIsOwn DEF OwnColumns
    <3>. QED  BY <3>6, <3>7 DEF OwnColumns
  <2>. QED  BY <2>1, <2>2
<1>. QED  BY <1>1 DEF OwnTypes

LEMMA DownKeepsOwnTypes ==
    ASSUME NEW a, Known(a), NEW old, NEW db, DownMakes(a, old, db), OwnTypes(old)
    PROVE  OwnTypes(db)
<1>1. ASSUME NEW t \in DOMAIN db PROVE OwnColumns(db[t])
  <2>1. t \in DOMAIN old  BY DEF DownMakes
  <2>2. OwnColumns(old[t])  BY <2>1 DEF OwnTypes
  <2>3. PICK F : F = IF t \in ModifiedTables(a)
                     THEN DOMAIN old[t] \cup (ModifiedColumns(a, t) \cup RemovedColumns(a, t)) ELSE DOMAIN old[t]  OBVIOUS
  <2>4. IsFiniteSet(F)
    <3>1. IsFiniteSet(DOMAIN old[t])  BY <2>2 DEF OwnColumns
    <3>2. CASE t \in ModifiedTables(a)
      <4>1. IsFiniteSet(ModifiedColumns(a, t)) /\ IsFiniteSet(RemovedColumns(a, t))  BY <3>2, ColumnSets
      <4>2. IsFiniteSet(ModifiedColumns(a, t) \cup RemovedColumns(a, t))  BY <4>1, FS_Union
      <4>. QED  BY <2>3, <3>1, <3>2, <4>2, FS_Union
    <3>3. CASE t \notin ModifiedTables(a)  BY <2>3, <3>1, <3>3
    <3>. QED  BY <3>2, <3>3
  <2>5. DOMAIN db[t] \subseteq F  BY <2>3 DEF DownMakes, SameColumn
  <2>6. IsFiniteSet(DOMAIN db[t])  BY <2>4, <2>5, FS_Subset
  <2>7. ASSUME NEW c \in DOMAIN db[t] PROVE db[t][c].type \notin Foreign
    <3>1. \/ db[t][c].type = DataType(diff[a].seen[t][c].type)
          \/ db[t][c].type = "text"
          \/ c \in DOMAIN old[t] /\ db[t][c] = old[t][c]
      BY DEF DownMakes, SameColumn
    <3>2. "text" \notin Foreign  BY DEF Foreign
    <3>. QED  BY <2>2, <3>1, <3>2, DataTypeIsOwn DEF OwnColumns
  <2>. QED  BY <2>6, <2>7 DEF OwnColumns
<1>. QED  BY <1>1 DEF OwnTypes

\* Whoever runs it, an up brings the catalogue nearer to the entities than what d has read.
LEMMA UpBringsNearer ==
    ASSUME NEW a, Known(a), NEW d, NEW old, NEW db, UpMakes(a, old, db), Near(d, old),
           DOMAIN d.seen \subseteq d.names \cap Entities
    PROVE  Near(d, db)
<1>1. DOMAIN db \ Entities \subseteq d.names  BY DEF UpMakes, Near, AddedTables
<1>2. d.names \cap Entities \subseteq DOMAIN db  BY DEF UpMakes, Near, RemovedTables
<1>3. ASSUME NEW t \in DOMAIN d.seen
      PROVE  /\ DOMAIN design.fields[t] \cap DOMAIN d.seen[t] \subseteq DOMAIN db[t]
             /\ DOMAIN db[t] \ DOMAIN design.fields[t] \subseteq DOMAIN d.seen[t]
             /\ \A c \in DOMAIN design.fields[t] \cap DOMAIN d.seen[t] :
                    db[t][c].type \in {d.seen[t][c].type, DataType(design.fields[t][c].diff)}
  <2>1. t \in DOMAIN old \cap DOMAIN db  BY <1>2 DEF Near
  <2>2. ASSUME NEW c \in DOMAIN design.fields[t] \cap DOMAIN d.seen[t]
        PROVE  c \in DOMAIN db[t] /\ db[t][c].type \in {d.seen[t][c].type, DataType(design.fields[t][c].diff)}
    <3>1. c \in DOMAIN old[t] /\ old[t][c].type \in {d.seen[t][c].type, DataType(design.fields[t][c].diff)}
      BY DEF Near
    <3>2. t \in ModifiedTables(a) => c \notin RemovedColumns(a, t)  BY DEF RemovedColumns
    <3>. QED  BY <2>1, <3>1, <3>2 DEF UpMakes, SameColumn
  <2>3. ASSUME NEW c \in DOMAIN db[t] \ DOMAIN design.fields[t] PROVE c \in DOMAIN d.seen[t]
    <3>1. t \in ModifiedTables(a) => c \notin AddedColumns(a, t) \cup ModifiedColumns(a, t)
      BY DEF AddedColumns, ModifiedColumns
    <3>2. c \in DOMAIN old[t]  BY <2>1, <3>1 DEF UpMakes, SameColumn
    <3>. QED  BY <3>2 DEF Near
  <2>. QED  BY <2>2, <2>3
<1>. QED  BY <1>1, <1>2, <1>3 DEF Near

\* The tables of db are those of the entities, but for the foreign keys of tables that old
\* does not have.
ReachedIn(db, old) ==
    /\ DOMAIN db = Entities
    /\ \A t \in Entities :
           /\ DOMAIN design.fields[t] \subseteq DOMAIN db[t]
           /\ \A c \in DOMAIN design.fields[t] : db[t][c].type \in TypesOf(t, c)
           /\ \A c \in DOMAIN db[t] \ DOMAIN design.fields[t] :
                  c \in DOMAIN design.refers[t] /\ t \notin DOMAIN old

LEMMA UpReaches ==
    ASSUME NEW a, Known(a), NEW old, NEW db, UpMakes(a, old, db), Near(diff[a], old),
           DOMAIN diff[a].seen = diff[a].names \cap Entities, OwnTypes(diff[a].seen)
    PROVE  ReachedIn(db, old)
<1>. DEFINE d == diff[a]
<1>1. DOMAIN db = Entities  BY DEF UpMakes, Near, AddedTables, RemovedTables
<1>2. ASSUME NEW t \in Entities
      PROVE  /\ DOMAIN design.fields[t] \subseteq DOMAIN db[t]
             /\ \A c \in DOMAIN design.fields[t] : db[t][c].type \in TypesOf(t, c)
             /\ \A c \in DOMAIN db[t] \ DOMAIN design.fields[t] :
                    c \in DOMAIN design.refers[t] /\ t \notin DOMAIN old
  <2>1. CASE t \in AddedTables(a)
    <3>1. db[t] = CreatedTable(t) /\ t \notin DOMAIN old  BY <2>1 DEF UpMakes
    <3>2. PICK columns : columns = CreatedTable(t)  OBVIOUS
    <3>3. DOMAIN columns = DOMAIN design.fields[t] \cup DOMAIN design.refers[t]  BY <3>2 DEF CreatedTable
    <3>4. \A c \in DOMAIN design.fields[t] : columns[c].type = DataType(design.fields[t][c].ddl)
      BY <3>2 DEF CreatedTable
    <3>. QED  BY <3>1, <3>2, <3>3, <3>4 DEF TypesOf
  <2>2. CASE t \notin AddedTables(a)
    <3>1. t \in ModifiedTables(a) /\ t \in DOMAIN d.seen /\ t \in DOMAIN old \cap DOMAIN db
      BY <1>1, <2>2 DEF AddedTables, ModifiedTables, UpMakes
    <3>2. ASSUME NEW c \in DOMAIN design.fields[t] PROVE c \in DOMAIN db[t] /\ db[t][c].type \in TypesOf(t, c)
      <4>1. CASE c \notin DOMAIN d.seen[t]
        <5>1. c \in AddedColumns(a, t)  BY <4>1 DEF AddedColumns
        <5>. QED  BY <3>1, <5>1 DEF UpMakes, TypesOf
      <4>2. CASE c \in ModifiedColumns(a, t)
        <5>1. c \notin AddedColumns(a, t)  BY <4>2, ColumnsApart
        <5>. QED  BY <3>1, <4>2, <5>1 DEF UpMakes, TypesOf
      <4>3. CASE c \in DOMAIN d.seen[t] /\ c \notin ModifiedColumns(a, t)
        <5>1. c \notin AddedColumns(a, t) /\ c \notin RemovedColumns(a, t)
          BY <4>3 DEF AddedColumns, RemovedColumns
        <5>2. SameColumn(old, db, t, c)  BY <3>1, <4>3, <5>1 DEF UpMakes
        <5>3. c \in DOMAIN old[t] /\ old[t][c].type \in {d.seen[t][c].type, DataType(design.fields[t][c].diff)}
          BY <3>1, <4>3 DEF Near
        <5>4. d.seen[t][c].type = DataType(design.fields[t][c].diff)
          <6>1. NormalizeType(design.fields[t][c].diff) = NormalizeType(d.seen[t][c].type)
            BY <4>3 DEF ModifiedColumns
          <6>2. d.seen[t][c].type \notin Foreign  BY <3>1, <4>3 DEF OwnTypes, OwnColumns
          <6>. QED  BY <6>1, <6>2, SameWhenNormalized
        <5>. QED  BY <5>2, <5>3, <5>4 DEF SameColumn, TypesOf
      <4>. QED  BY <4>1, <4>2, <4>3
    <3>3. ASSUME NEW c \in DOMAIN db[t] \ DOMAIN design.fields[t] PROVE FALSE
      <4>1. c \notin AddedColumns(a, t) /\ c \notin ModifiedColumns(a, t)  BY DEF AddedColumns, ModifiedColumns
      <4>2. c \notin RemovedColumns(a, t)  BY <3>1, <4>1 DEF UpMakes
      <4>3. c \notin DOMAIN d.seen[t]  BY <4>2 DEF RemovedColumns
      <4>4. c \in DOMAIN old[t]  BY <3>1, <4>1, <4>2 DEF UpMakes, SameColumn
      <4>. QED  BY <3>1, <4>3, <4>4 DEF Near
    <3>. QED  BY <3>2, <3>3
  <2>. QED  BY <2>1, <2>2
<1>. QED  BY <1>1, <1>2 DEF ReachedIn

\* A down that follows its up gives old back.
GivenBackIn(db, old) ==
    /\ DOMAIN db = DOMAIN old \cap Entities
    /\ \A t \in DOMAIN db :
           /\ DOMAIN db[t] = DOMAIN old[t]
           /\ \A c \in DOMAIN db[t] :
                  db[t][c].type = old[t][c].type
                  \/ (c \notin DOMAIN design.fields[t] /\ db[t][c].type = "text")

LEMMA DownGivesBack ==
    ASSUME NEW a, Known(a), NEW old, NEW mid, NEW db, UpMakes(a, old, mid), DownMakes(a, mid, db),
           Mirrors(diff[a], old), DOMAIN diff[a].seen = diff[a].names \cap Entities, OwnTypes(old)
    PROVE  GivenBackIn(db, old)
<1>. DEFINE d == diff[a]
<1>1. d.names = DOMAIN old /\ \A t \in DOMAIN d.seen : d.seen[t] = old[t]  BY DEF Mirrors
<1>2. DOMAIN db = DOMAIN old \cap Entities  BY <1>1 DEF UpMakes, DownMakes, AddedTables, RemovedTables
<1>3. ASSUME NEW t \in DOMAIN db
      PROVE  /\ DOMAIN db[t] = DOMAIN old[t]
             /\ \A c \in DOMAIN db[t] :
                    db[t][c].type = old[t][c].type
                    \/ (c \notin DOMAIN design.fields[t] /\ db[t][c].type = "text")
  <2>1. t \in ModifiedTables(a) /\ d.seen[t] = old[t] /\ t \in DOMAIN old \cap DOMAIN mid
    BY <1>1, <1>2 DEF ModifiedTables, DownMakes
  <2>2. ASSUME NEW c
        PROVE  /\ c \in DOMAIN db[t] <=> c \in DOMAIN old[t]
               /\ c \in DOMAIN old[t] =>
                      db[t][c].type = old[t][c].type
                      \/ (c \notin DOMAIN design.fields[t] /\ db[t][c].type = "text")
    <3>1. CASE c \in AddedColumns(a, t)
      <4>1. c \notin DOMAIN old[t] /\ c \notin DOMAIN db[t]  BY <2>1, <3>1 DEF UpMakes, DownMakes
      <4>. QED  BY <4>1
    <3>2. CASE c \in ModifiedColumns(a, t)
      <4>1. c \notin AddedColumns(a, t)  BY <3>2, ColumnsApart
      <4>2. c \in DOMAIN old[t] /\ c \in DOMAIN db[t] /\ db[t][c].type = DataType(old[t][c].type)
        BY <2>1, <3>2, <4>1 DEF UpMakes, DownMakes
      <4>3. old[t][c].type \notin Foreign  BY <2>1, <4>2 DEF OwnTypes, OwnColumns
      <4>. QED  BY <4>2, <4>3, OwnTypeIsItself
    <3>3. CASE c \in RemovedColumns(a, t)
      <4>1. c \notin AddedColumns(a, t) /\ c \notin ModifiedColumns(a, t)  BY <3>3, ColumnsApart
      <4>2. c \in DOMAIN old[t] /\ c \in DOMAIN db[t] /\ db[t][c].type = "text"
        BY <2>1, <3>3, <4>1 DEF UpMakes, DownMakes
      <4>3. c \notin DOMAIN design.fields[t]  BY <3>3 DEF RemovedColumns
      <4>. QED  BY <4>2, <4>3
    <3>4. CASE c \notin AddedColumns(a, t) \cup ModifiedColumns(a, t) \cup RemovedColumns(a, t)
      <4>1. SameColumn(old, mid, t, c)  BY <2>1, <3>4 DEF UpMakes
      <4>2. SameColumn(mid, db, t, c)  BY <2>1, <3>4 DEF DownMakes
      <4>. QED  BY <4>1, <4>2 DEF SameColumn
    <3>. QED  BY <3>1, <3>2, <3>3, <3>4
  <2>. QED  BY <2>2
<1>. QED  BY <1>2, <1>3 DEF GivenBackIn

-----------------------------------------------------------------------------
\* What is still as it was when a statement comes up that is about no earlier one's.
LEMMA NotNamed ==
    ASSUME NEW script, Tidy(script), Len(script) \in Nat, NEW i \in 1..Len(script), script[i].do \in Places \cup Changes
    PROVE  /\ ~NamesTable(script, i - 1, script[i].table)
           /\ script[i].do \in Changes => ~NamesColumn(script, i - 1, script[i].table, script[i].column)
<1>1. ASSUME NEW j \in 1..(i - 1), script[j].do \in Places \cup Changes, script[j].table = script[i].table
      PROVE  /\ script[j].do \in Changes /\ script[i].do \in Changes
             /\ script[j].column # script[i].column
  <2>1. j \in 1..Len(script) /\ j # i  OBVIOUS
  <2>2. Apart(script[j], script[i])  BY <2>1 DEF Tidy
  <2>. QED  BY <1>1, <2>2 DEF Apart, Places, Changes
<1>2. \A j \in 1..(i - 1) : script[j].do \in Places => script[j].table # script[i].table
  BY <1>1 DEF Places, Changes
<1>3. \A j \in 1..(i - 1) : script[j].do \in Changes /\ script[j].table = script[i].table
          => script[j].column # script[i].column
  BY <1>1
<1>. QED  BY <1>2, <1>3 DEF NamesTable, NamesColumn

\* Why the database refuses statement i of an up.
RefusedAt(a, db, script, i) ==
    LET s == script[i] IN
    \/ s.do = "create" /\ \E c \in DOMAIN design.refers[s.table] :
           design.refers[s.table][c] \notin DOMAIN db \cup {script[j].table : j \in 1..i}
    \/ s.do = "drop" /\ \E t \in DOMAIN db : \E c \in DOMAIN db[t] : db[t][c].to = s.table
    \/ s.do = "drop" /\ \E t \in Entities : \E c \in DOMAIN design.refers[t] : design.refers[t][c] = s.table
    \/ s.do = "retype" /\ ~Casts(db[s.table][s.column].type, DataType(s.type))

LEMMA CreateRefused ==
    ASSUME NEW a, Known(a), NEW db, Mirrors(diff[a], db),
           NEW script, script = UpScript(a), NEW i \in 1..Len(script), NEW to,
           After(db, script, i - 1, to), ~Runs(to, script[i]), script[i].do = "create"
    PROVE  RefusedAt(a, db, script, i)
<1>. DEFINE s == script[i]
<1>1. /\ Tidy(script) /\ Len(script) \in Nat /\ CreatesFirst(script)
      /\ \A j \in 1..Len(script) : UpSays(a, script[j])
  BY UpTidy, UpListed
<1>2. s.table \notin DOMAIN db  BY <1>1 DEF UpSays, Mirrors, AddedTables
<1>3. ~NamesTable(script, i - 1, s.table)  BY <1>1, NotNamed DEF Places
<1>4. s.table \notin DOMAIN to  BY <1>2, <1>3 DEF After
<1>5. PICK c \in DOMAIN design.refers[s.table] : design.refers[s.table][c] \notin DOMAIN to \cup {s.table}
  BY <1>4 DEF Runs
<1>6. \A j \in 1..i : script[j].do = "create"  BY <1>1 DEF CreatesFirst
<1>7. ASSUME NEW j \in 1..i PROVE script[j].table \in DOMAIN to \cup {s.table}
  <2>1. CASE j = i  BY <2>1
  <2>2. CASE j # i
    <3>1. j \in 1..(i - 1)  BY <2>2
    <3>2. Leaves(db, to, script[j])  BY <3>1 DEF After
    <3>. QED  BY <1>6, <3>2 DEF Leaves
  <2>. QED  BY <2>1, <2>2
<1>8. ASSUME NEW t \in DOMAIN db PROVE t \in DOMAIN to
  <2>1. ASSUME NEW j \in 1..(i - 1), script[j].table = t PROVE FALSE
    <3>1. Finds(db, script[j]) /\ script[j].do = "create"  BY <1>6 DEF After
    <3>. QED  BY <2>1, <3>1 DEF Finds
  <2>2. ~NamesTable(script, i - 1, t)  BY <2>1 DEF NamesTable
  <2>. QED  BY <2>2 DEF After
<1>9. design.refers[s.table][c] \notin DOMAIN db \cup {script[j].table : j \in 1..i}  BY <1>5, <1>7, <1>8
<1>. QED  BY <1>9 DEF RefusedAt

LEMMA DropRefused ==
    ASSUME NEW a, Known(a), NEW db, Mirrors(diff[a], db),
           NEW script, script = UpScript(a), NEW i \in 1..Len(script), NEW to,
           After(db, script, i - 1, to), ~Runs(to, script[i]), script[i].do = "drop"
    PROVE  RefusedAt(a, db, script, i)
<1>. DEFINE s == script[i]
<1>1. /\ Tidy(script) /\ Len(script) \in Nat
      /\ \A j \in 1..Len(script) : UpSays(a, script[j])
  BY UpTidy
<1>2. s.table \in DOMAIN db  BY <1>1 DEF UpSays, Mirrors, RemovedTables
<1>3. ~NamesTable(script, i - 1, s.table)  BY <1>1, NotNamed DEF Places
<1>4. s.table \in DOMAIN to  BY <1>2, <1>3 DEF After
<1>5. PICK t \in DOMAIN to \ {s.table} : \E c \in DOMAIN to[t] : to[t][c].to = s.table  BY <1>4 DEF Runs
<1>6. PICK c \in DOMAIN to[t] : to[t][c].to = s.table  BY <1>5
<1>7. s.table # None
  <2>1. UpSays(a, s)  BY <1>1
  <2>2. s.table \in diff[a].names  BY <2>1 DEF UpSays, RemovedTables
  <2>. QED  BY <2>2, DesignIs DEF Known
<1>8. CASE NamesTable(script, i - 1, t)
  <2>1. PICK j \in 1..(i - 1) : script[j].do \in Places /\ script[j].table = t  BY <1>8 DEF NamesTable
  <2>2. UpSays(a, script[j]) /\ Leaves(db, to, script[j])  BY <1>1 DEF After
  <2>3. script[j].do = "create"  BY <2>1, <2>2 DEF Leaves, Places
  <2>4. t \in Entities /\ to[t] = CreatedTable(t)  BY <2>1, <2>2, <2>3 DEF UpSays, Leaves, AddedTables
  <2>5. PICK columns : columns = CreatedTable(t)  OBVIOUS
  <2>6. c \in DOMAIN columns /\ columns[c].to = s.table  BY <1>6, <2>4, <2>5
  <2>7. CASE c \in DOMAIN design.fields[t]
    <3>1. columns[c].to = None  BY <2>5, <2>7 DEF CreatedTable
    <3>. QED  BY <1>7, <2>6, <3>1
  <2>8. CASE c \notin DOMAIN design.fields[t]
    <3>1. c \in DOMAIN design.refers[t] /\ columns[c].to = design.refers[t][c]  BY <2>5, <2>6, <2>8 DEF CreatedTable
    <3>. QED  BY <2>4, <2>6, <3>1 DEF RefusedAt
  <2>. QED  BY <2>7, <2>8
<1>9. CASE ~NamesTable(script, i - 1, t)
  <2>1. t \in DOMAIN db  BY <1>9 DEF After
  <2>2. c \in DOMAIN db[t] /\ db[t][c].to = s.table
    <3>1. CASE NamesColumn(script, i - 1, t, c)
      <4>1. PICK j \in 1..(i - 1) : script[j].do \in Changes /\ script[j].table = t /\ script[j].column = c
        BY <3>1 DEF NamesColumn
      <4>2. Finds(db, script[j]) /\ Leaves(db, to, script[j])  BY DEF After
      <4>3. script[j].do = "retype"  BY <1>6, <1>7, <4>1, <4>2 DEF Leaves, Changes
      <4>. QED  BY <1>6, <4>1, <4>2, <4>3 DEF Finds, Leaves
    <3>2. CASE ~NamesColumn(script, i - 1, t, c)
      <4>1. SameColumn(db, to, t, c)  BY <1>9, <2>1, <3>2 DEF After
      <4>. QED  BY <1>6, <4>1 DEF SameColumn
    <3>. QED  BY <3>1, <3>2
  <2>. QED  BY <2>1, <2>2 DEF RefusedAt
<1>. QED  BY <1>8, <1>9

LEMMA ChangeRefused ==
    ASSUME NEW a, Known(a), NEW db, Mirrors(diff[a], db), DOMAIN diff[a].seen = diff[a].names \cap Entities,
           NEW script, script = UpScript(a), NEW i \in 1..Len(script), NEW to,
           After(db, script, i - 1, to), ~Runs(to, script[i]), script[i].do \in Changes
    PROVE  RefusedAt(a, db, script, i)
<1>. DEFINE s == script[i]
            t == s.table
            c == s.column
<1>1. Tidy(script) /\ Len(script) \in Nat /\ UpSays(a, s)  BY UpTidy
<1>2. ~NamesTable(script, i - 1, t) /\ ~NamesColumn(script, i - 1, t, c)  BY <1>1, NotNamed
<1>3. t \in ModifiedTables(a)  BY <1>1 DEF UpSays
<1>4. t \in DOMAIN db /\ diff[a].seen[t] = db[t]  BY <1>3 DEF ModifiedTables, Mirrors
<1>5. t \in DOMAIN to /\ (c \in DOMAIN db[t] \cup DOMAIN to[t] => SameColumn(db, to, t, c))
  BY <1>2, <1>4 DEF After
<1>6. CASE s.do = "add"
  <2>1. c \notin DOMAIN db[t]  BY <1>1, <1>4, <1>6 DEF UpSays, AddedColumns
  <2>. QED  BY <1>5, <1>6, <2>1 DEF Runs, SameColumn
<1>7. CASE s.do = "remove"
  <2>1. c \in DOMAIN db[t]  BY <1>1, <1>4, <1>7 DEF UpSays, RemovedColumns
  <2>. QED  BY <1>5, <1>7, <2>1 DEF Runs, SameColumn
<1>8. CASE s.do = "retype"
  <2>1. c \in DOMAIN db[t]  BY <1>1, <1>4, <1>8 DEF UpSays, ModifiedColumns
  <2>2. c \in DOMAIN to[t] /\ to[t][c] = db[t][c]  BY <1>5, <2>1 DEF SameColumn
  <2>3. ~Casts(db[t][c].type, DataType(s.type))  BY <1>5, <1>8, <2>2 DEF Runs
  <2>. QED  BY <1>8, <2>3 DEF RefusedAt
<1>. QED  BY <1>6, <1>7, <1>8 DEF Changes

LEMMA UpRefused ==
    ASSUME NEW a, Known(a), NEW db, Mirrors(diff[a], db), DOMAIN diff[a].seen = diff[a].names \cap Entities,
           NEW script, script = UpScript(a), ~Executed(db, script).ok
    PROVE  \E i \in 1..Len(script) : RefusedAt(a, db, script, i)
<1>1. /\ Tidy(script) /\ Len(script) \in Nat
      /\ \A j \in 1..Len(script) : UpSays(a, script[j])
  BY UpTidy
<1>2. PICK i \in 1..Len(script) : \E to : After(db, script, i - 1, to) /\ ~Runs(to, script[i])
  BY <1>1, ScriptRefused
<1>3. PICK to : After(db, script, i - 1, to) /\ ~Runs(to, script[i])  BY <1>2
<1>4. script[i].do \in Places \cup Changes  BY <1>1 DEF UpSays
<1>5. CASE script[i].do = "create"  BY <1>3, <1>5, CreateRefused
<1>6. CASE script[i].do = "drop"  BY <1>3, <1>6, DropRefused
<1>7. CASE script[i].do \in Changes  BY <1>3, <1>7, ChangeRefused
<1>. QED  BY <1>4, <1>5, <1>6, <1>7 DEF Places

-----------------------------------------------------------------------------
\* What does not change while the design, and what a diff has read, do not.
LEMMA ColumnsStay ==
    ASSUME NEW a, design' = design, (diff[a].names)' = diff[a].names, (diff[a].seen)' = diff[a].seen, NEW t
    PROVE  /\ AddedColumns(a, t)' = AddedColumns(a, t)
           /\ RemovedColumns(a, t)' = RemovedColumns(a, t)
           /\ ModifiedColumns(a, t)' = ModifiedColumns(a, t)
<1>1. AddedColumns(a, t)' = AddedColumns(a, t)  BY DEF AddedColumns
<1>2. RemovedColumns(a, t)' = RemovedColumns(a, t)  BY DEF RemovedColumns
<1>3. ModifiedColumns(a, t)' = ModifiedColumns(a, t)  BY DEF ModifiedColumns
<1>. QED  BY <1>1, <1>2, <1>3

LEMMA ColumnScriptsStay ==
    ASSUME NEW a, design' = design, (diff[a].names)' = diff[a].names, (diff[a].seen)' = diff[a].seen, NEW t
    PROVE  UpColumns(a, t)' = UpColumns(a, t) /\ DownColumns(a, t)' = DownColumns(a, t)
<1>1. /\ AddedColumns(a, t)' = AddedColumns(a, t)
      /\ RemovedColumns(a, t)' = RemovedColumns(a, t)
      /\ ModifiedColumns(a, t)' = ModifiedColumns(a, t)
  BY ColumnsStay
<1>. QED  BY <1>1 DEF UpColumns, DownColumns

LEMMA ScriptsStay ==
    ASSUME NEW a, design' = design, (diff[a].names)' = diff[a].names, (diff[a].seen)' = diff[a].seen
    PROVE  UpScript(a)' = UpScript(a) /\ DownScript(a)' = DownScript(a)
<1>1. /\ AddedTables(a)' = AddedTables(a) /\ RemovedTables(a)' = RemovedTables(a)
      /\ ModifiedTables(a)' = ModifiedTables(a)
  BY DEF AddedTables, RemovedTables, ModifiedTables, Entities
<1>2. \A t : UpColumns(a, t)' = UpColumns(a, t) /\ DownColumns(a, t)' = DownColumns(a, t)  BY ColumnScriptsStay
<1>3. UpScript(a)' = UpScript(a)  BY <1>1, <1>2 DEF UpScript
<1>4. DownScript(a)' = DownScript(a)  BY <1>1, <1>2 DEF DownScript
<1>. QED  BY <1>3, <1>4

LEMMA CreatedStays == ASSUME design' = design, NEW t PROVE CreatedTable(t)' = CreatedTable(t)
BY DEF CreatedTable

LEMMA AfterStays ==
    ASSUME design' = design, NEW old, NEW script, NEW n, NEW db, After(old, script, n, db)
    PROVE  After(old, script, n, db)'
<1>1. \A i \in 1..n : Leaves(old, db, script[i])'
  <2>1. \A i \in 1..n : Leaves(old, db, script[i])  BY DEF After
  <2>. QED  BY <2>1, CreatedStays DEF Leaves
<1>. QED  BY <1>1 DEF After, Finds, NamesTable, NamesColumn, SameColumn

Steps == {"idle", "reading", "generated", "up", "refused", "down", "stuck"}

IsDiff(d) == d = [step |-> d.step, names |-> d.names, seen |-> d.seen, up |-> d.up, down |-> d.down,
                  fresh |-> d.fresh, undone |-> d.undone]

\* d knows what diff e does, and is as far.
SameReading(d, e) ==
    /\ IsDiff(d) /\ d.step \in Steps
    /\ d.names = e.names /\ d.seen = e.seen /\ d.up = e.up /\ d.down = e.down
    /\ Decided(d) => Decided(e)

LEMMA ReadsStays ==
    ASSUME NEW a, design' = design, Reads(a), NEW d, d = diff'[a], SameReading(d, diff[a])
    PROVE  Reads(a)'
<1>1. UpScript(a)' = UpScript(a) /\ DownScript(a)' = DownScript(a)  BY ScriptsStay DEF SameReading
<1>2. Entities' = Entities  BY DEF Entities
<1>3. Decided(d) => Decided(diff[a])  BY DEF SameReading
<1>4. Decided(d) => /\ DOMAIN d.seen = d.names \cap Entities
                    /\ d.up = UpScript(a) /\ d.down = DownScript(a)
  BY <1>3 DEF Reads, SameReading
<1>5. d.names \subseteq ToSet(design.byName) /\ DOMAIN d.seen \subseteq d.names \cap Entities /\ OwnTypes(d.seen)
  BY DEF Reads, SameReading
<1>. QED  BY <1>1, <1>2, <1>4, <1>5 DEF Reads, SameReading, IsDiff, Steps, Decided

\* What GivenBack and RefusedForAReason say of one architect.
Told(a) ==
    /\ diff[a].step = "down" /\ diff[a].fresh => GivenBackIn(catalogue, before)
    /\ diff[a].step = "refused" /\ diff[a].fresh =>
           \E i \in 1..Len(diff[a].up) : RefusedAt(a, catalogue, diff[a].up, i)

LEMMA AllTold == GivenBack /\ RefusedForAReason <=> \A a \in Architects : Told(a)
<1>1. GivenBack <=> \A a \in Architects : diff[a].step = "down" /\ diff[a].fresh => GivenBackIn(catalogue, before)
  BY DEF GivenBack, GivenBackIn
<1>2. RefusedForAReason <=> \A a \in Architects : diff[a].step = "refused" /\ diff[a].fresh =>
           \E i \in 1..Len(diff[a].up) : RefusedAt(a, catalogue, diff[a].up, i)
  BY DEF RefusedForAReason, RefusedAt
<1>. QED  BY <1>1, <1>2 DEF Told

Standing(a) == Reads(a) /\ Fresh(a) /\ Nearer(a) /\ Told(a)

LEMMA InvIs ==
    DiffsInv <=> /\ CatalogueOf /\ diff = [a \in Architects |-> diff[a]] /\ Reached
                 /\ \A a \in Architects : Standing(a)
BY AllTold DEF DiffsInv, DiffsHold, Standing

LEMMA RefusedStays ==
    ASSUME design' = design, NEW a, NEW db, NEW script, NEW i, RefusedAt(a, db, script, i)
    PROVE  RefusedAt(a, db, script, i)'
<1>1. PICK s : s = script[i]  OBVIOUS
<1>2. PICK T : T = DOMAIN db \cup {script[j].table : j \in 1..i}  OBVIOUS
<1>3. \/ s.do = "create" /\ \E c \in DOMAIN design.refers[s.table] : design.refers[s.table][c] \notin T
      \/ s.do = "drop" /\ \E t \in DOMAIN db : \E c \in DOMAIN db[t] : db[t][c].to = s.table
      \/ s.do = "drop" /\ \E t \in Entities : \E c \in DOMAIN design.refers[t] : design.refers[t][c] = s.table
      \/ s.do = "retype" /\ ~Casts(db[s.table][s.column].type, DataType(s.type))
  BY <1>1, <1>2 DEF RefusedAt
<1>4. \/ s.do = "create" /\ \E c \in DOMAIN design'.refers[s.table] : design'.refers[s.table][c] \notin T
      \/ s.do = "drop" /\ \E t \in DOMAIN db : \E c \in DOMAIN db[t] : db[t][c].to = s.table
      \/ s.do = "drop" /\ \E t \in Entities' : \E c \in DOMAIN design'.refers[t] : design'.refers[t][c] = s.table
      \/ s.do = "retype" /\ ~Casts(db[s.table][s.column].type, DataType(s.type))
  BY <1>3 DEF Entities
<1>. QED  BY <1>1, <1>2, <1>4 DEF RefusedAt

\* An architect whom a step is not about.
LEMMA SettledStays ==
    ASSUME NEW a, Standing(a), UNCHANGED <<design, catalogue, before>>, diff'[a] = diff[a]
    PROVE  Standing(a)'
<1>1. Reads(a)'
  <2>1. PICK d : d = diff'[a]  OBVIOUS
  <2>2. SameReading(d, diff[a])  BY <2>1 DEF SameReading, Standing, Reads, IsDiff, Steps
  <2>. QED  BY <2>1, <2>2, ReadsStays DEF Standing
<1>2. Fresh(a)'
  <2>1. PICK d : d = diff[a]  OBVIOUS
  <2>2. PICK old, db : old = before /\ db = catalogue  OBVIOUS
  <2>3. /\ d.fresh => /\ d.step \in {"reading", "generated", "refused"} => Mirrors(d, db)
                      /\ d.step = "up" => Mirrors(d, old) /\ OwnTypes(old) /\ After(old, d.up, Len(d.up), db)
    BY <2>1, <2>2 DEF Standing, Fresh
  <2>4. After(old, d.up, Len(d.up), db) => After(old, d.up, Len(d.up), db)'  BY AfterStays
  <2>5. d = diff'[a] /\ old = before' /\ db = catalogue'  BY <2>1, <2>2
  <2>. QED  BY <2>3, <2>4, <2>5 DEF Fresh
<1>3. Nearer(a)'  BY DEF Standing, Nearer, Near, Entities
<1>4. Told(a)'
  <2>1. Told(a)  BY DEF Standing
  <2>2. GivenBackIn(catalogue, before) => GivenBackIn(catalogue, before)'  BY DEF GivenBackIn, Entities
  <2>3. PICK up, db : up = diff[a].up /\ db = catalogue  OBVIOUS
  <2>4. \A i : RefusedAt(a, db, up, i) => RefusedAt(a, db, up, i)'  BY RefusedStays
  <2>5. up = diff'[a].up /\ db = catalogue'  BY <2>3
  <2>6. diff[a].step = "refused" /\ diff[a].fresh => \E i \in 1..Len(up) : RefusedAt(a, db, up, i)
    BY <2>1, <2>3 DEF Told
  <2>. QED  BY <2>1, <2>2, <2>4, <2>5, <2>6 DEF Told
<1>. QED  BY <1>1, <1>2, <1>3, <1>4 DEF Standing

-----------------------------------------------------------------------------
LEMMA SettledFirst == SchemaDiffsInit => DiffsInv
<1>. SUFFICES ASSUME NEW x \in Designs, SchemaDiffsStart(x) PROVE DiffsInv  BY DEF SchemaDiffsInit
<1>1. design = x /\ catalogue = x.stood /\ diff = [a \in Architects |-> NoDiff] /\ upTo = 0
  BY DEF SchemaDiffsStart
<1>2. CatalogueOf
  <2>1. /\ DOMAIN x.stood \subseteq ToSet(x.byName)
        /\ \A t \in DOMAIN x.stood :
               /\ IsFiniteSet(DOMAIN x.stood[t])
               /\ \A c \in DOMAIN x.stood[t] :
                      x.stood[t][c].type \notin {"INTEGER", "int4", "TIMESTAMP", "timestamp", "TEXT"}
    BY SchemaDiffsAssumption
  <2>2. OwnTypes(x.stood)  BY <2>1 DEF OwnTypes, OwnColumns, Foreign
  <2>. QED  BY <1>1, <2>1, <2>2 DEF CatalogueOf
<1>3. ASSUME NEW a \in Architects PROVE Standing(a)
  <2>1. PICK d : d = diff[a]  OBVIOUS
  <2>2. d = NoDiff  BY <1>1, <2>1
  <2>3. /\ d.step = "idle" /\ d.names = {} /\ d.seen = <<>> /\ d.fresh = FALSE /\ d.undone = FALSE
        /\ IsDiff(d)
    BY <2>2 DEF NoDiff, IsDiff
  <2>4. DOMAIN d.seen = {}  BY <2>3
  <2>5. Reads(a)  BY <2>1, <2>3, <2>4 DEF Reads, IsDiff, Decided, OwnTypes
  <2>. QED  BY <2>1, <2>3, <2>5 DEF Standing, Fresh, Nearer, Told
<1>. QED  BY <1>1, <1>2, <1>3, InvIs DEF Reached

LEMMA InvIsNext ==
    DiffsInv' <=> (CatalogueOf /\ diff = [a \in Architects |-> diff[a]] /\ Reached
                   /\ \A a \in Architects : Standing(a))'
<1>1. DiffsInv <=> /\ CatalogueOf /\ diff = [a \in Architects |-> diff[a]] /\ Reached
                   /\ \A a \in Architects : Standing(a)
  BY InvIs
<1>. QED  BY <1>1, PTL

\* A step of one architect that leaves the catalogue.
LEMMA OneSettles ==
    ASSUME DiffsInv, NEW a \in Architects, NEW d, diff' = [diff EXCEPT ![a] = d],
           UNCHANGED <<design, catalogue, before, upTo>>,
           Reads(a)', Fresh(a)', Nearer(a)', Told(a)'
    PROVE  DiffsInv'
<1>1. /\ CatalogueOf /\ diff = [x \in Architects |-> diff[x]] /\ Reached
      /\ \A x \in Architects : Standing(x)
  BY InvIs
<1>2. CatalogueOf'
  <2>1. PICK db : db = catalogue  OBVIOUS
  <2>2. db' = db /\ catalogue' = db  BY <2>1
  <2>. QED  BY <1>1, <2>1, <2>2 DEF CatalogueOf
<1>3. diff' = [x \in Architects |-> diff'[x]] /\ \A x \in Architects \ {a} : diff'[x] = diff[x]  BY <1>1
<1>4. Reached'  BY <1>1 DEF Reached, Entities, TypesOf
<1>5. ASSUME NEW x \in Architects PROVE Standing(x)'
  <2>1. CASE x = a  BY <2>1 DEF Standing
  <2>2. CASE x # a  BY <1>1, <1>3, <2>2, SettledStays
  <2>. QED  BY <2>1, <2>2
<1>6. (CatalogueOf /\ diff = [x \in Architects |-> diff[x]] /\ Reached /\ \A x \in Architects : Standing(x))'
  BY <1>2, <1>3, <1>4, <1>5
<1>. QED  BY <1>6, InvIsNext

LEMMA OneIsNow ==
    ASSUME DiffsInv, NEW a \in Architects, NEW d, diff' = [diff EXCEPT ![a] = d]
    PROVE  diff'[a] = d
BY DEF DiffsInv

LEMMA GetTablesSettles == ASSUME DiffsInv, NEW a \in Architects, GetTables(a) PROVE DiffsInv'
<1>1. PICK d : d = [NoDiff EXCEPT !.step = "reading", !.names = DOMAIN catalogue, !.fresh = TRUE]  OBVIOUS
<1>2. /\ d.step = "reading" /\ d.names = DOMAIN catalogue /\ d.seen = <<>> /\ d.fresh = TRUE
      /\ d.undone = FALSE /\ IsDiff(d)
  BY <1>1 DEF NoDiff, IsDiff
<1>3. diff' = [diff EXCEPT ![a] = d] /\ UNCHANGED <<design, catalogue, before, upTo>>  BY <1>1 DEF GetTables
<1>4. diff'[a] = d  BY <1>3, OneIsNow
<1>5. DOMAIN d.seen = {}  BY <1>2
<1>6. CatalogueOf  BY InvIs
<1>7. Reads(a)'  BY <1>2, <1>3, <1>4, <1>5, <1>6 DEF Reads, IsDiff, Decided, OwnTypes, CatalogueOf
<1>8. Fresh(a)'  BY <1>2, <1>3, <1>4, <1>5 DEF Fresh, Mirrors
<1>9. Nearer(a)'  BY <1>2, <1>3, <1>4, <1>5 DEF Nearer, Near
<1>10. Told(a)'  BY <1>2, <1>4 DEF Told
<1>. QED  BY <1>3, <1>7, <1>8, <1>9, <1>10, OneSettles

\* The table whose columns are read next is one of those that are to be read.
LEMMA NextToRead ==
    ASSUME DiffsInv, NEW a \in Architects, ToRead(a) # {}
    PROVE  design.entities[Min(ToRead(a))] \in Entities \cap (diff[a].names \ DOMAIN diff[a].seen)
<1>1. design.entities \in Seq(ToSet(design.byName))  BY DesignIs DEF DiffsInv, CatalogueOf
<1>2. ToRead(a) \in SUBSET Nat  BY <1>1 DEF ToRead
<1>3. \E i \in ToRead(a) : \A j \in ToRead(a) : i <= j  BY <1>2, SmallestNumber
<1>4. PICK i : i = Min(ToRead(a))  OBVIOUS
<1>5. i \in ToRead(a)  BY <1>3, <1>4 DEF Min
<1>6. design.entities[i] \in diff[a].names \ DOMAIN diff[a].seen /\ i \in DOMAIN design.entities
  BY <1>5 DEF ToRead
<1>7. design.entities[i] \in Entities  BY <1>6 DEF Entities, ToSet
<1>. QED  BY <1>4, <1>6, <1>7

LEMMA GetColumnsSettles == ASSUME DiffsInv, NEW a \in Architects, GetColumns(a) PROVE DiffsInv'
<1>1. PICK t : t = design.entities[Min(ToRead(a))]  OBVIOUS
<1>2. t \in Entities \cap (diff[a].names \ DOMAIN diff[a].seen)  BY <1>1, NextToRead DEF GetColumns
<1>3. PICK e : e = diff[a]  OBVIOUS
<1>4. PICK columns : columns = IF t \in DOMAIN catalogue THEN catalogue[t] ELSE <<>>  OBVIOUS
<1>5. PICK seen : seen = WithTable(e.seen, t, columns)  OBVIOUS
<1>6. PICK d : d = [e EXCEPT !.seen = seen]  OBVIOUS
<1>7. CatalogueOf /\ Standing(a)  BY InvIs
<1>8. IsDiff(e) /\ e.step = "reading"  BY <1>3, <1>7 DEF Standing, Reads, IsDiff, GetColumns
<1>9. /\ d.step = "reading" /\ d.names = e.names /\ d.seen = seen /\ d.fresh = e.fresh
      /\ d.undone = e.undone /\ IsDiff(d)
  BY <1>6, <1>8 DEF IsDiff
<1>10. diff' = [diff EXCEPT ![a] = d] /\ UNCHANGED <<design, catalogue, before, upTo>>
  <2>1. diff = [x \in Architects |-> diff[x]]  BY InvIs
  <2>2. diff' = [diff EXCEPT ![a].seen = WithTable(@, t, columns)]  BY <1>1, <1>4 DEF GetColumns
  <2>. QED  BY <1>3, <1>5, <1>6, <2>1, <2>2 DEF GetColumns
<1>11. diff'[a] = d  BY <1>10, OneIsNow
<1>12. /\ DOMAIN seen = DOMAIN e.seen \cup {t} /\ seen[t] = columns
       /\ \A x \in DOMAIN e.seen : seen[x] = e.seen[x]
  BY <1>2, <1>3, <1>5 DEF WithTable
<1>13. OwnColumns(columns)
  <2>1. CASE t \in DOMAIN catalogue  BY <1>4, <1>7, <2>1 DEF CatalogueOf, OwnTypes
  <2>2. CASE t \notin DOMAIN catalogue
    <3>1. DOMAIN columns = {}  BY <1>4, <2>2
    <3>. QED  BY <3>1, FS_EmptySet DEF OwnColumns
  <2>. QED  BY <2>1, <2>2
<1>14. Reads(a)'
  <2>1. OwnTypes(seen)  BY <1>3, <1>7, <1>12, <1>13 DEF Standing, Reads, OwnTypes
  <2>2. e.names \subseteq ToSet(design.byName) /\ DOMAIN e.seen \subseteq e.names \cap Entities
    BY <1>3, <1>7 DEF Standing, Reads
  <2>3. DOMAIN d.seen \subseteq d.names \cap Entities  BY <1>2, <1>3, <1>9, <1>12, <2>2
  <2>4. Entities' = Entities  BY <1>10 DEF Entities
  <2>. QED  BY <1>9, <1>10, <1>11, <2>1, <2>2, <2>3, <2>4 DEF Reads, IsDiff, Decided
<1>15. Fresh(a)'
  <2>1. e.fresh => Mirrors(e, catalogue)  BY <1>3, <1>7, <1>8 DEF Standing, Fresh
  <2>2. e.fresh => Mirrors(d, catalogue)
    BY <1>2, <1>3, <1>4, <1>9, <1>12, <2>1 DEF Mirrors
  <2>. QED  BY <1>9, <1>10, <1>11, <2>2 DEF Fresh, Mirrors
<1>16. Nearer(a)'
  <2>1. ~e.undone => Near(e, catalogue)  BY <1>3, <1>7, <1>8 DEF Standing, Nearer
  <2>2. ASSUME Near(e, catalogue) PROVE Near(d, catalogue)
    <3>1. columns = catalogue[t]  BY <1>2, <1>3, <1>4, <2>2 DEF Near
    <3>2. ASSUME NEW x \in DOMAIN d.seen
          PROVE  /\ DOMAIN design.fields[x] \cap DOMAIN d.seen[x] \subseteq DOMAIN catalogue[x]
                 /\ DOMAIN catalogue[x] \ DOMAIN design.fields[x] \subseteq DOMAIN d.seen[x]
                 /\ \A c \in DOMAIN design.fields[x] \cap DOMAIN d.seen[x] :
                        catalogue[x][c].type \in {d.seen[x][c].type, DataType(design.fields[x][c].diff)}
      <4>1. CASE x = t
        <5>1. d.seen[x] = catalogue[x]  BY <1>9, <1>12, <3>1, <4>1
        <5>. QED  BY <5>1
      <4>2. CASE x # t
        <5>1. x \in DOMAIN e.seen /\ d.seen[x] = e.seen[x]  BY <1>9, <1>12, <4>2
        <5>. QED  BY <2>2, <5>1 DEF Near
      <4>. QED  BY <4>1, <4>2
    <3>. QED  BY <1>9, <2>2, <3>2 DEF Near
  <2>3. ASSUME Near(d, catalogue) PROVE Near(d, catalogue)'  BY <1>10, <2>3 DEF Near, Entities
  <2>4. ASSUME Near(d, catalogue)' PROVE Nearer(a)'  BY <1>11, <2>4 DEF Nearer, Near, Entities
  <2>5. ASSUME e.undone PROVE Nearer(a)'  BY <1>9, <1>11, <2>5 DEF Nearer
  <2>. QED  BY <2>1, <2>2, <2>3, <2>4, <2>5
<1>17. Told(a)'  BY <1>9, <1>11 DEF Told
<1>. QED  BY <1>10, <1>14, <1>15, <1>16, <1>17, OneSettles

LEMMA AllIsRead ==
    ASSUME DiffsInv, NEW a \in Architects, ToRead(a) = {}
    PROVE  DOMAIN diff[a].seen = diff[a].names \cap Entities
<1>1. DOMAIN diff[a].seen \subseteq diff[a].names \cap Entities  BY DEF DiffsInv, Reads
<1>2. ASSUME NEW t \in Entities \cap diff[a].names PROVE t \in DOMAIN diff[a].seen
  <2>1. PICK i \in DOMAIN design.entities : design.entities[i] = t  BY DEF Entities, ToSet
  <2>. QED  BY <2>1 DEF ToRead
<1>. QED  BY <1>1, <1>2

LEMMA GenerateSettles == ASSUME DiffsInv, NEW a \in Architects, GenerateMigration(a) PROVE DiffsInv'
<1>1. PICK e : e = diff[a]  OBVIOUS
<1>2. PICK up, down : up = UpScript(a) /\ down = DownScript(a)  OBVIOUS
<1>3. PICK d : d = [e EXCEPT !.step = "generated", !.up = up, !.down = down]  OBVIOUS
<1>4. CatalogueOf /\ Standing(a) /\ diff = [x \in Architects |-> diff[x]]  BY InvIs
<1>5. IsDiff(e) /\ e.step = "reading"  BY <1>1, <1>4 DEF Standing, Reads, IsDiff, GenerateMigration
<1>6. /\ d.step = "generated" /\ d.names = e.names /\ d.seen = e.seen /\ d.fresh = e.fresh
      /\ d.undone = e.undone /\ d.up = up /\ d.down = down /\ IsDiff(d)
  BY <1>3, <1>5 DEF IsDiff
<1>7. diff' = [diff EXCEPT ![a] = d] /\ UNCHANGED <<design, catalogue, before, upTo>>
  <2>1. diff' = [diff EXCEPT ![a].step = "generated", ![a].up = up, ![a].down = down]
    BY <1>2 DEF GenerateMigration
  <2>. QED  BY <1>1, <1>3, <1>4, <2>1 DEF GenerateMigration
<1>8. diff'[a] = d  BY <1>7, OneIsNow
<1>9. Reads(a)'
  <2>1. DOMAIN d.seen = d.names \cap Entities  BY <1>1, <1>6, AllIsRead DEF GenerateMigration
  <2>2. UpScript(a)' = up /\ DownScript(a)' = down  BY <1>1, <1>2, <1>6, <1>7, <1>8, ScriptsStay
  <2>3. d.names \subseteq ToSet(design.byName) /\ OwnTypes(d.seen)  BY <1>1, <1>4, <1>6 DEF Standing, Reads
  <2>4. Entities' = Entities  BY <1>7 DEF Entities
  <2>. QED  BY <1>6, <1>7, <1>8, <2>1, <2>2, <2>3, <2>4 DEF Reads, IsDiff, Decided
<1>10. Fresh(a)'
  <2>1. e.fresh => Mirrors(e, catalogue)  BY <1>1, <1>4, <1>5 DEF Standing, Fresh
  <2>. QED  BY <1>6, <1>7, <1>8, <2>1 DEF Fresh, Mirrors
<1>11. Nearer(a)'
  <2>1. ~e.undone => Near(e, catalogue)  BY <1>1, <1>4, <1>5 DEF Standing, Nearer
  <2>2. ASSUME Near(e, catalogue) PROVE Near(d, catalogue)  BY <1>6, <2>2 DEF Near
  <2>3. ASSUME Near(d, catalogue) PROVE Nearer(a)'  BY <1>7, <1>8, <2>3 DEF Nearer, Near, Entities
  <2>4. ASSUME e.undone PROVE Nearer(a)'  BY <1>6, <1>8, <2>4 DEF Nearer
  <2>. QED  BY <2>1, <2>2, <2>3, <2>4
<1>12. Told(a)'  BY <1>6, <1>8 DEF Told
<1>. QED  BY <1>7, <1>9, <1>10, <1>11, <1>12, OneSettles

LEMMA AgainSettles == ASSUME DiffsInv, NEW a \in Architects, Again(a) PROVE DiffsInv'
<1>1. PICK d : d = NoDiff  OBVIOUS
<1>2. /\ d.step = "idle" /\ d.names = {} /\ d.seen = <<>> /\ d.fresh = FALSE
      /\ d.undone = FALSE /\ IsDiff(d)
  BY <1>1 DEF NoDiff, IsDiff
<1>3. diff' = [diff EXCEPT ![a] = d] /\ UNCHANGED <<design, catalogue, before, upTo>>  BY <1>1 DEF Again
<1>4. diff'[a] = d  BY <1>3, OneIsNow
<1>5. DOMAIN d.seen = {}  BY <1>2
<1>6. Reads(a)'  BY <1>2, <1>4, <1>5 DEF Reads, IsDiff, Decided, OwnTypes
<1>7. Fresh(a)' /\ Nearer(a)' /\ Told(a)'  BY <1>2, <1>4 DEF Fresh, Nearer, Told
<1>. QED  BY <1>3, <1>6, <1>7, OneSettles

LEMMA DecidedIsKnown ==
    ASSUME DiffsInv, NEW a \in Architects, Decided(diff[a])
    PROVE  /\ Known(a) /\ OwnTypes(diff[a].seen)
           /\ DOMAIN diff[a].seen = diff[a].names \cap Entities
           /\ diff[a].up = UpScript(a) /\ diff[a].down = DownScript(a)
<1>1. CatalogueOf /\ Reads(a)  BY InvIs DEF Standing
<1>2. /\ diff[a].names \subseteq ToSet(design.byName) /\ OwnTypes(diff[a].seen)
      /\ DOMAIN diff[a].seen = diff[a].names \cap Entities
      /\ diff[a].up = UpScript(a) /\ diff[a].down = DownScript(a)
  BY <1>1 DEF Reads
<1>. QED  BY <1>1, <1>2 DEF Known, ModifiedTables, OwnTypes, OwnColumns, CatalogueOf

\* A script that the database takes: its architect goes on, and all others have read what is
\* no longer so.
LEMMA ScriptSettles ==
    ASSUME DiffsInv, NEW a \in Architects, NEW step \in Steps, NEW undo \in BOOLEAN,
           Decided(diff[a]), diff' = Outdated([diff EXCEPT ![a].step = step], a, undo), design' = design,
           CatalogueOf', Reached', Fresh(a)', Told(a)', step \in {"up", "down"},
           NEW db, catalogue' = db,
           \A x \in Architects \ {a} :
               ~undo /\ ~diff[x].undone /\ diff[x].step \in {"reading", "generated"} => Near(diff[x], db)
    PROVE  DiffsInv'
<1>1. diff = [x \in Architects |-> diff[x]] /\ \A x \in Architects : Standing(x)  BY InvIs
<1>2. diff' = [x \in Architects |-> diff'[x]]
  <2>1. PICK e : e = [diff EXCEPT ![a].step = step]  OBVIOUS
  <2>2. PICK f : f = diff'  OBVIOUS
  <2>3. f = Outdated(e, a, undo)  BY <2>1, <2>2
  <2>4. f = [x \in Architects |-> f[x]]  BY <2>3 DEF Outdated
  <2>. QED  BY <2>2, <2>4
<1>3. diff'[a] = [diff[a] EXCEPT !.step = step]  BY <1>1 DEF Outdated
<1>4. \A x \in Architects \ {a} : diff'[x] = [diff[x] EXCEPT !.fresh = FALSE, !.undone = @ \/ undo]
  BY <1>1 DEF Outdated
<1>5. Standing(a)'
  <2>1. PICK d : d = diff'[a]  OBVIOUS
  <2>2. IsDiff(diff[a])  BY <1>1 DEF Standing, Reads, IsDiff
  <2>3. SameReading(d, diff[a]) /\ d.step = step  BY <1>3, <2>1, <2>2 DEF SameReading, IsDiff, Decided
  <2>4. Reads(a)  BY <1>1 DEF Standing
  <2>5. Reads(a)'  BY <2>1, <2>3, <2>4, ReadsStays
  <2>6. Nearer(a)'  BY <2>1, <2>3 DEF Nearer
  <2>. QED  BY <2>5, <2>6 DEF Standing
<1>6. ASSUME NEW x \in Architects \ {a} PROVE Standing(x)'
  <2>1. PICK d : d = diff'[x]  OBVIOUS
  <2>2. PICK e : e = diff[x]  OBVIOUS
  <2>3. IsDiff(e) /\ e.step \in Steps /\ Reads(x)  BY <1>1, <2>2 DEF Standing, Reads, IsDiff, Steps
  <2>4. d = [e EXCEPT !.fresh = FALSE, !.undone = @ \/ undo]  BY <1>4, <2>1, <2>2
  <2>5. /\ d.step = e.step /\ d.names = e.names /\ d.seen = e.seen /\ d.up = e.up /\ d.down = e.down
        /\ d.fresh = FALSE /\ d.undone = (e.undone \/ undo) /\ IsDiff(d)
    BY <2>3, <2>4 DEF IsDiff
  <2>6. SameReading(d, e)  BY <2>3, <2>5 DEF SameReading, Decided
  <2>7. Reads(x)'  BY <2>1, <2>2, <2>3, <2>6, ReadsStays
  <2>8. Fresh(x)' /\ Told(x)'  BY <2>1, <2>5 DEF Fresh, Told
  <2>9. Nearer(x)'
    <3>1. ASSUME ~d.undone, d.step \in {"reading", "generated"} PROVE Near(d, db)
      <4>1. Near(e, db)  BY <2>2, <2>5, <3>1
      <4>. QED  BY <2>5, <4>1 DEF Near
    <3>2. ASSUME Near(d, db) PROVE Near(diff[x], catalogue)'
      <4>1. Entities' = Entities  BY DEF Entities
      <4>2. db = catalogue' /\ d = diff'[x]  BY <2>1
      <4>3. /\ DOMAIN catalogue' \ Entities' \subseteq diff'[x].names
            /\ diff'[x].names \cap Entities' \subseteq DOMAIN catalogue'
        BY <3>2, <4>1, <4>2 DEF Near
      <4>4. ASSUME NEW t \in DOMAIN diff'[x].seen
            PROVE  /\ DOMAIN design'.fields[t] \cap DOMAIN diff'[x].seen[t] \subseteq DOMAIN catalogue'[t]
                   /\ DOMAIN catalogue'[t] \ DOMAIN design'.fields[t] \subseteq DOMAIN diff'[x].seen[t]
                   /\ \A c \in DOMAIN design'.fields[t] \cap DOMAIN diff'[x].seen[t] :
                          catalogue'[t][c].type \in {diff'[x].seen[t][c].type, DataType(design'.fields[t][c].diff)}
        BY <3>2, <4>2 DEF Near
      <4>. QED  BY <4>3, <4>4 DEF Near
    <3>. QED  BY <2>1, <3>1, <3>2 DEF Nearer
  <2>. QED  BY <2>7, <2>8, <2>9 DEF Standing
<1>7. \A x \in Architects : Standing(x)'  BY <1>5, <1>6
<1>8. (CatalogueOf /\ diff = [x \in Architects |-> diff[x]] /\ Reached /\ \A x \in Architects : Standing(x))'
  BY <1>2, <1>7
<1>. QED  BY <1>8, InvIsNext

LEMMA MigrateUpSettles == ASSUME DiffsInv, NEW a \in Architects, MigrateUp(a) PROVE DiffsInv'
<1>1. PICK e : e = diff[a]  OBVIOUS
<1>2. CatalogueOf /\ Standing(a) /\ diff = [x \in Architects |-> diff[x]] /\ Reached /\ \A x \in Architects : Standing(x)
  BY InvIs
<1>3. e.step = "generated" /\ Decided(e) /\ design' = design  BY <1>1 DEF MigrateUp, Decided
<1>4. PICK up : up = UpScript(a)  OBVIOUS
<1>5. /\ Known(a) /\ OwnTypes(e.seen) /\ DOMAIN e.seen = e.names \cap Entities /\ e.up = up
  BY <1>1, <1>3, <1>4, DecidedIsKnown
<1>6. PICK db : db = Executed(catalogue, up).db  OBVIOUS
<1>7. PICK old : old = catalogue  OBVIOUS
<1>8. e.fresh => Mirrors(e, old)  BY <1>1, <1>2, <1>3, <1>7 DEF Standing, Fresh
<1>9. CASE Executed(catalogue, up).ok
  <2>1. /\ catalogue' = db /\ before' = old
        /\ upTo' = IF e.undone THEN 0 ELSE upTo + 1
        /\ diff' = Outdated([diff EXCEPT ![a].step = "up"], a, FALSE)
    BY <1>1, <1>5, <1>6, <1>7, <1>9 DEF MigrateUp
  <2>2. After(old, up, Len(up), db)
    <3>1. Tidy(up) /\ Len(up) \in Nat  BY <1>4, <1>5, UpTidy
    <3>. QED  BY <1>6, <1>7, <1>9, <3>1, ScriptRuns
  <2>3. UpMakes(a, old, db)  BY <1>4, <1>5, <2>2, UpDoes
  <2>4. CatalogueOf'
    <3>1. DOMAIN db \subseteq DOMAIN old \cup Entities  BY <2>3 DEF UpMakes, AddedTables
    <3>2. Entities \subseteq ToSet(design.byName)  BY <1>2, DesignIs DEF CatalogueOf
    <3>3. DOMAIN old \subseteq ToSet(design.byName) /\ OwnTypes(old)  BY <1>2, <1>7 DEF CatalogueOf
    <3>4. DOMAIN db \subseteq ToSet(design.byName)  BY <3>1, <3>2, <3>3
    <3>5. OwnTypes(db)  BY <1>5, <2>3, <3>3, UpKeepsOwnTypes
    <3>6. upTo' \in Nat  BY <1>2, <2>1 DEF CatalogueOf
    <3>. QED  BY <1>2, <1>3, <2>1, <3>4, <3>5, <3>6 DEF CatalogueOf
  <2>5. Reached'
    <3>1. ASSUME upTo' > 0 PROVE ReachedIn(db, old)
      <4>1. ~e.undone  BY <2>1, <3>1
      <4>2. Near(e, old)  BY <1>1, <1>2, <1>3, <1>7, <4>1 DEF Standing, Nearer
      <4>. QED  BY <1>1, <1>5, <2>3, <4>2, UpReaches
    <3>2. ASSUME ReachedIn(db, old) PROVE Reached'
      BY <1>3, <2>1, <3>2 DEF ReachedIn, Reached, Entities, TypesOf
    <3>. QED  BY <3>1, <3>2 DEF Reached
  <2>6. diff'[a] = [e EXCEPT !.step = "up"]  BY <1>1, <1>2, <2>1 DEF Outdated
  <2>7. PICK d : d = diff'[a]  OBVIOUS
  <2>8. IsDiff(e)  BY <1>1, <1>2 DEF Standing, Reads, IsDiff
  <2>9. /\ d.step = "up" /\ d.names = e.names /\ d.seen = e.seen /\ d.up = up
        /\ d.fresh = e.fresh
    BY <1>5, <2>6, <2>7, <2>8 DEF IsDiff
  <2>10. Fresh(a)'
    <3>1. d.fresh => Mirrors(d, old)  BY <1>8, <2>9 DEF Mirrors
    <3>2. OwnTypes(old)  BY <1>2, <1>7 DEF CatalogueOf
    <3>3. After(old, up, Len(up), db)'  BY <1>3, <2>2, AfterStays
    <3>. QED  BY <2>1, <2>7, <2>9, <3>1, <3>2, <3>3 DEF Fresh
  <2>11. Told(a)'  BY <2>7, <2>9 DEF Told
  <2>12. ASSUME NEW x \in Architects \ {a}, ~diff[x].undone, diff[x].step \in {"reading", "generated"}
         PROVE  Near(diff[x], db)
    <3>1. Near(diff[x], old)  BY <1>2, <1>7, <2>12 DEF Standing, Nearer
    <3>2. DOMAIN diff[x].seen \subseteq diff[x].names \cap Entities  BY <1>2 DEF Standing, Reads
    <3>. QED  BY <1>5, <2>3, <3>1, <3>2, UpBringsNearer
  <2>13. "up" \in Steps /\ FALSE \in BOOLEAN  BY DEF Steps
  <2>. QED  BY <1>1, <1>3, <2>1, <2>4, <2>5, <2>10, <2>11, <2>12, <2>13, ScriptSettles
<1>10. CASE ~Executed(catalogue, up).ok
  <2>1. PICK d : d = [e EXCEPT !.step = "refused"]  OBVIOUS
  <2>2. IsDiff(e)  BY <1>1, <1>2 DEF Standing, Reads, IsDiff
  <2>3. /\ d.step = "refused" /\ d.names = e.names /\ d.seen = e.seen /\ d.up = up /\ d.down = e.down
        /\ d.fresh = e.fresh /\ IsDiff(d)
    BY <1>5, <2>1, <2>2 DEF IsDiff
  <2>4. diff' = [diff EXCEPT ![a] = d] /\ UNCHANGED <<design, catalogue, before, upTo>>
    <3>1. diff' = [diff EXCEPT ![a].step = "refused"] /\ UNCHANGED <<catalogue, before, upTo>>
      BY <1>1, <1>5, <1>10 DEF MigrateUp
    <3>. QED  BY <1>1, <1>2, <1>3, <2>1, <3>1
  <2>5. diff'[a] = d  BY <2>4, OneIsNow
  <2>6. Reads(a)'
    <3>1. SameReading(d, e)  BY <1>3, <1>5, <2>3 DEF SameReading, Steps
    <3>. QED  BY <1>1, <1>2, <1>3, <2>5, <3>1, ReadsStays DEF Standing
  <2>7. Fresh(a)'
    <3>1. d.fresh => Mirrors(d, old)  BY <1>8, <2>3 DEF Mirrors
    <3>. QED  BY <1>7, <2>3, <2>4, <2>5, <3>1 DEF Fresh
  <2>8. Nearer(a)'  BY <2>3, <2>5 DEF Nearer
  <2>9. Told(a)'
    <3>1. ASSUME d.fresh PROVE \E i \in 1..Len(up) : RefusedAt(a, old, up, i)
      <4>1. Mirrors(e, old) /\ ~Executed(old, up).ok  BY <1>7, <1>8, <1>10, <2>3, <3>1
      <4>. QED  BY <1>1, <1>4, <1>5, <4>1, UpRefused
    <3>2. \A i : RefusedAt(a, old, up, i) => RefusedAt(a, old, up, i)'  BY <1>3, RefusedStays
    <3>3. old = catalogue'  BY <1>7, <2>4
    <3>. QED  BY <2>3, <2>5, <3>1, <3>2, <3>3 DEF Told
  <2>. QED  BY <2>4, <2>6, <2>7, <2>8, <2>9, OneSettles
<1>. QED  BY <1>9, <1>10

LEMMA MigrateDownSettles == ASSUME DiffsInv, NEW a \in Architects, MigrateDown(a) PROVE DiffsInv'
<1>1. PICK e : e = diff[a]  OBVIOUS
<1>2. CatalogueOf /\ Standing(a) /\ diff = [x \in Architects |-> diff[x]] /\ Reached /\ \A x \in Architects : Standing(x)
  BY InvIs
<1>3. e.step = "up" /\ Decided(e) /\ design' = design /\ before' = before  BY <1>1 DEF MigrateDown, Decided
<1>4. PICK up, down : up = UpScript(a) /\ down = DownScript(a)  OBVIOUS
<1>5. /\ Known(a) /\ DOMAIN e.seen = e.names \cap Entities /\ e.up = up /\ e.down = down
  BY <1>1, <1>3, <1>4, DecidedIsKnown
<1>6. PICK db : db = Executed(catalogue, down).db  OBVIOUS
<1>7. PICK mid, old : mid = catalogue /\ old = before  OBVIOUS
<1>8. IsDiff(e)  BY <1>1, <1>2 DEF Standing, Reads, IsDiff
<1>9. CASE Executed(catalogue, down).ok
  <2>1. catalogue' = db /\ upTo' = 0 /\ diff' = Outdated([diff EXCEPT ![a].step = "down"], a, TRUE)
    BY <1>1, <1>5, <1>6, <1>9 DEF MigrateDown
  <2>2. After(mid, down, Len(down), db)
    <3>1. Tidy(down) /\ Len(down) \in Nat  BY <1>4, <1>5, DownTidy
    <3>. QED  BY <1>6, <1>7, <1>9, <3>1, ScriptRuns
  <2>3. DownMakes(a, mid, db)  BY <1>4, <1>5, <2>2, DownDoes
  <2>4. CatalogueOf'
    <3>1. DOMAIN mid \subseteq ToSet(design.byName) /\ OwnTypes(mid)  BY <1>2, <1>7 DEF CatalogueOf
    <3>2. DOMAIN db \subseteq ToSet(design.byName)  BY <2>3, <3>1 DEF DownMakes
    <3>3. OwnTypes(db)  BY <1>5, <2>3, <3>1, DownKeepsOwnTypes
    <3>. QED  BY <1>2, <1>3, <2>1, <3>2, <3>3 DEF CatalogueOf
  <2>5. Reached'  BY <2>1 DEF Reached
  <2>6. diff'[a] = [e EXCEPT !.step = "down"]  BY <1>1, <1>2, <2>1 DEF Outdated
  <2>7. PICK d : d = diff'[a]  OBVIOUS
  <2>8. d.step = "down" /\ d.fresh = e.fresh  BY <1>8, <2>6, <2>7 DEF IsDiff
  <2>9. Fresh(a)'  BY <2>7, <2>8 DEF Fresh
  <2>10. Told(a)'
    <3>1. ASSUME e.fresh PROVE GivenBackIn(db, old)
      <4>1. Mirrors(e, old) /\ OwnTypes(old) /\ After(old, up, Len(up), mid)
        BY <1>1, <1>2, <1>3, <1>5, <1>7, <3>1 DEF Standing, Fresh
      <4>2. UpMakes(a, old, mid)  BY <1>4, <1>5, <4>1, UpDoes
      <4>. QED  BY <1>1, <1>5, <2>3, <4>1, <4>2, DownGivesBack
    <3>2. ASSUME GivenBackIn(db, old) PROVE GivenBackIn(db, old)'  BY <1>3, <3>2 DEF GivenBackIn, Entities
    <3>3. db = catalogue' /\ old = before'  BY <1>3, <1>7, <2>1
    <3>. QED  BY <2>7, <2>8, <3>1, <3>2, <3>3 DEF Told
  <2>11. "down" \in Steps /\ TRUE \in BOOLEAN  BY DEF Steps
  <2>. QED  BY <1>1, <1>3, <2>1, <2>4, <2>5, <2>9, <2>10, <2>11, ScriptSettles
<1>10. CASE ~Executed(catalogue, down).ok
  <2>1. PICK d : d = [e EXCEPT !.step = "stuck"]  OBVIOUS
  <2>2. /\ d.step = "stuck" /\ d.names = e.names /\ d.seen = e.seen /\ d.up = e.up /\ d.down = e.down
        /\ IsDiff(d)
    BY <1>8, <2>1 DEF IsDiff
  <2>3. diff' = [diff EXCEPT ![a] = d] /\ UNCHANGED <<design, catalogue, before, upTo>>
    <3>1. diff' = [diff EXCEPT ![a].step = "stuck"] /\ UNCHANGED <<catalogue, upTo>>
      BY <1>1, <1>5, <1>10 DEF MigrateDown
    <3>. QED  BY <1>1, <1>2, <1>3, <2>1, <3>1
  <2>4. diff'[a] = d  BY <2>3, OneIsNow
  <2>5. Reads(a)'
    <3>1. SameReading(d, e)  BY <1>3, <2>2 DEF SameReading, Steps
    <3>. QED  BY <1>1, <1>2, <1>3, <2>4, <3>1, ReadsStays DEF Standing
  <2>6. Fresh(a)' /\ Nearer(a)' /\ Told(a)'  BY <2>2, <2>4 DEF Fresh, Nearer, Told
  <2>. QED  BY <2>3, <2>5, <2>6, OneSettles
<1>. QED  BY <1>9, <1>10

LEMMA DiffsSettle == ASSUME DiffsInv, [SchemaDiffsNext]_diffVars PROVE DiffsInv'
<1>1. CASE UNCHANGED diffVars
  <2>1. CatalogueOf /\ diff = [a \in Architects |-> diff[a]] /\ Reached /\ \A a \in Architects : Standing(a)
    BY InvIs
  <2>2. UNCHANGED <<design, catalogue, before, upTo, diff>>  BY <1>1 DEF diffVars
  <2>3. \A a \in Architects : Standing(a)'  BY <2>1, <2>2, SettledStays
  <2>4. CatalogueOf'
    <3>1. PICK db : db = catalogue  OBVIOUS
    <3>2. catalogue' = db  BY <2>2, <3>1
    <3>. QED  BY <2>1, <2>2, <3>1, <3>2 DEF CatalogueOf
  <2>5. Reached'  BY <2>1, <2>2 DEF Reached, Entities, TypesOf
  <2>6. (CatalogueOf /\ diff = [a \in Architects |-> diff[a]] /\ Reached /\ \A a \in Architects : Standing(a))'
    BY <2>1, <2>2, <2>3, <2>4, <2>5
  <2>. QED  BY <2>6, InvIsNext
<1>2. ASSUME NEW a \in Architects, GetTables(a) PROVE DiffsInv'  BY <1>2, GetTablesSettles
<1>3. ASSUME NEW a \in Architects, GetColumns(a) PROVE DiffsInv'  BY <1>3, GetColumnsSettles
<1>4. ASSUME NEW a \in Architects, GenerateMigration(a) PROVE DiffsInv'  BY <1>4, GenerateSettles
<1>5. ASSUME NEW a \in Architects, MigrateUp(a) PROVE DiffsInv'  BY <1>5, MigrateUpSettles
<1>6. ASSUME NEW a \in Architects, MigrateDown(a) PROVE DiffsInv'  BY <1>6, MigrateDownSettles
<1>7. ASSUME NEW a \in Architects, Again(a) PROVE DiffsInv'  BY <1>7, AgainSettles
<1>. QED  BY <1>1, <1>2, <1>3, <1>4, <1>5, <1>6, <1>7 DEF SchemaDiffsNext

\* A migration that is generated from what the database still is makes it what the entities
\* say, its down gives it back, and the database refuses it for three reasons only:
\* SchemaDiffEngine.diff and generateMigration.
THEOREM MigrationsAreTrue == DiffsSpec => []DiffsHold
<1>1. SchemaDiffsInit => DiffsInv  BY SettledFirst
<1>2. DiffsInv /\ [SchemaDiffsNext]_diffVars => DiffsInv'  BY DiffsSettle
<1>3. DiffsInv => DiffsHold  BY DEF DiffsInv
<1>. QED  BY <1>1, <1>2, <1>3, PTL DEF DiffsSpec

\* For any deployments, versions, designs and scripts: a tenant that is reported as migrated
\* is, and a migration that is generated makes of the database what the entities say.
THEOREM ReportsAreAlwaysTrue == Spec /\ DiffsSpec => []ReportsHold
<1>1. ReportsAreTrue /\ DiffsHold => ReportsHold  BY DEF ReportsHold
<1>. QED  BY <1>1, ReportsStayTrue, MigrationsAreTrue, PTL
=============================================================================
