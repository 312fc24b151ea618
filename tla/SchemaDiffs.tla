---------------------------- MODULE SchemaDiffs ----------------------------
(***************************************************************************)
(* SchemaDiffEngine: the difference between the entities and a database,   *)
(* read table by table, and the migration that is generated from it, run   *)
(* and undone beside others.  A catalogue is what information_schema says: *)
(* its tables, each with its columns, their types and what they reference. *)
(***************************************************************************)
EXTENDS Naturals, Sequences, FiniteSets, SequencesExt

CONSTANTS Architects,
          Designs,    \* records [entities, byName, fields, refers, stood]
          MaxScripts  \* migrations that are run or undone

None == "none"

\* A table has columns, and the names of types that information_schema gives are its own.
ASSUME SchemaDiffsAssumption ==
    /\ MaxScripts \in Nat
    /\ \A x \in Designs :
           /\ x.byName \in Seq(ToSet(x.byName)) /\ IsInjective(x.byName)
           /\ None \notin ToSet(x.byName)
           /\ x.entities \in Seq(ToSet(x.byName)) /\ IsInjective(x.entities)
           /\ DOMAIN x.stood \subseteq ToSet(x.byName)
           /\ \A t \in DOMAIN x.stood :
                  /\ IsFiniteSet(DOMAIN x.stood[t])
                  /\ \A c \in DOMAIN x.stood[t] :
                         x.stood[t][c].type \notin {"INTEGER", "int4", "TIMESTAMP", "timestamp", "TEXT"}
           /\ \A t \in ToSet(x.entities) :
                  IsFiniteSet(DOMAIN x.fields[t]) /\ IsFiniteSet(DOMAIN x.refers[t])

VARIABLES design,     \* the entities in their order, all tables in the order of their names,
                      \* types of fields and foreign keys of each entity, and the first catalogue
          catalogue,
          diff,       \* what an architect's diff has read and generated
          scripts,
          before,     \* history: the catalogue that the last successful script met,
          upTo        \* and how many ups in a row made it what it is

diffVars == <<design, catalogue, diff, scripts, before, upTo>>

NoDiff == [step |-> "idle", names |-> {}, seen |-> <<>>, up |-> <<>>, down |-> <<>>,
           fresh |-> FALSE, undone |-> FALSE]

SchemaDiffsStart(x) ==
    /\ design = x /\ catalogue = x.stood /\ before = x.stood
    /\ diff = [a \in Architects |-> NoDiff]
    /\ scripts = 0 /\ upTo = 0

SchemaDiffsInit == \E x \in Designs : SchemaDiffsStart(x)

-----------------------------------------------------------------------------
\* Types: what information_schema calls them, and which change without USING.
DataType(type) ==
    CASE type \in {"INTEGER", "int4"} -> "integer"
      [] type \in {"TIMESTAMP", "timestamp"} -> "timestamp without time zone"
      [] type = "TEXT" -> "text"
      [] OTHER -> type

Casts(from, to) == from = to \/ to = "text"

NormalizeType(type) ==
    CASE type \in {"INTEGER", "int4", "integer"} -> "integer"
      [] type = "TIMESTAMP" -> "timestamp"
      [] type = "TEXT" -> "text"
      [] OTHER -> type

Entities == ToSet(design.entities)

Statement(do, table, column, type) == [do |-> do, table |-> table, column |-> column, type |-> type]

\* generateCreateTable: the fields with the types of their defaults, and a column for
\* each relation to one entity.
CreatedTable(t) ==
    [c \in DOMAIN design.fields[t] \cup DOMAIN design.refers[t] |->
        IF c \in DOMAIN design.fields[t]
        THEN [type |-> DataType(design.fields[t][c].ddl), to |-> None]
        ELSE [type |-> "integer", to |-> design.refers[t][c]]]

\* A statement the database takes.
Runs(db, s) ==
    \/ s.do = "remark"
    \/ /\ s.do = "create" /\ s.table \notin DOMAIN db
       /\ \A c \in DOMAIN design.refers[s.table] : design.refers[s.table][c] \in DOMAIN db \cup {s.table}
    \/ /\ s.do = "drop" /\ s.table \in DOMAIN db
       /\ \A t \in DOMAIN db \ {s.table} : \A c \in DOMAIN db[t] : db[t][c].to # s.table
    \/ /\ s.do = "add" /\ s.table \in DOMAIN db /\ s.column \notin DOMAIN db[s.table]
    \/ /\ s.do = "remove" /\ s.table \in DOMAIN db /\ s.column \in DOMAIN db[s.table]
    \/ /\ s.do = "retype" /\ s.table \in DOMAIN db /\ s.column \in DOMAIN db[s.table]
       /\ Casts(db[s.table][s.column].type, DataType(s.type))

WithTable(db, t, columns) == [x \in DOMAIN db \cup {t} |-> IF x = t THEN columns ELSE db[x]]

WithColumn(columns, c, column) == [x \in DOMAIN columns \cup {c} |-> IF x = c THEN column ELSE columns[x]]

AfterStatement(db, s) ==
    CASE s.do = "create" -> WithTable(db, s.table, CreatedTable(s.table))
      [] s.do = "drop"   -> [t \in DOMAIN db \ {s.table} |-> db[t]]
      [] s.do = "add"    ->
             WithTable(db, s.table, WithColumn(db[s.table], s.column, [type |-> DataType(s.type), to |-> None]))
      [] s.do = "retype" ->
             WithTable(db, s.table, WithColumn(db[s.table], s.column,
                                               [type |-> DataType(s.type), to |-> db[s.table][s.column].to]))
      [] s.do = "remove" ->
             WithTable(db, s.table, [c \in DOMAIN db[s.table] \ {s.column} |-> db[s.table][c]])
      [] OTHER -> db

\* A script in one transaction.
Executed(db, script) ==
    LET run[i \in 0..Len(script)] ==
            IF i = 0 THEN [ok |-> TRUE, db |-> db]
            ELSE LET r == run[i - 1]
                     s == script[i]
                 IN IF r.ok /\ Runs(r.db, s) THEN [ok |-> TRUE, db |-> AfterStatement(r.db, s)]
                    ELSE [ok |-> FALSE, db |-> db]
    IN run[Len(script)]

-----------------------------------------------------------------------------
\* diff: the names of the tables first, then the columns of one table after the other.
GetTables(a) ==
    /\ diff[a].step = "idle" /\ scripts < MaxScripts
    /\ diff' = [diff EXCEPT ![a] = [NoDiff EXCEPT !.step = "reading", !.names = DOMAIN catalogue,
                                                  !.fresh = TRUE]]
    /\ UNCHANGED <<design, catalogue, scripts, before, upTo>>

\* Where in the list the tables are whose columns are still to be read.
ToRead(a) == {i \in DOMAIN design.entities : design.entities[i] \in diff[a].names \ DOMAIN diff[a].seen}

GetColumns(a) ==
    /\ diff[a].step = "reading" /\ ToRead(a) # {}
    /\ LET t == design.entities[Min(ToRead(a))] IN
       diff' = [diff EXCEPT ![a].seen =
                   WithTable(@, t, IF t \in DOMAIN catalogue THEN catalogue[t] ELSE <<>>)]
    /\ UNCHANGED <<design, catalogue, scripts, before, upTo>>

AddedColumns(a, t) == DOMAIN design.fields[t] \ DOMAIN diff[a].seen[t]

RemovedColumns(a, t) == DOMAIN diff[a].seen[t] \ DOMAIN design.fields[t]

\* As if types were not compared.
NoColumns(a, t) == {}

ModifiedColumns(a, t) ==
    {c \in DOMAIN design.fields[t] \cap DOMAIN diff[a].seen[t] :
        NormalizeType(design.fields[t][c].diff) # NormalizeType(diff[a].seen[t][c].type)}

\* The statements of each of the tables that have some, in the order of a list of tables.
InOrder(tables, of) ==
    FlattenSeq([i \in 1..Len(tables) |-> IF tables[i] \in DOMAIN of THEN of[tables[i]] ELSE <<>>])

AddedTables(a) == Entities \ diff[a].names

RemovedTables(a) == diff[a].names \ Entities

ModifiedTables(a) == Entities \cap diff[a].names

UpColumns(a, t) ==
    SetToSeq({Statement("add", t, c, design.fields[t][c].diff) : c \in AddedColumns(a, t)})
    \o SetToSeq({Statement("retype", t, c, design.fields[t][c].diff) : c \in ModifiedColumns(a, t)})
    \o SetToSeq({Statement("remove", t, c, None) : c \in RemovedColumns(a, t)})

DownColumns(a, t) ==
    SetToSeq({Statement("remove", t, c, None) : c \in AddedColumns(a, t)})
    \o SetToSeq({Statement("retype", t, c, diff[a].seen[t][c].type) : c \in ModifiedColumns(a, t)})
    \o SetToSeq({Statement("add", t, c, "TEXT") : c \in RemovedColumns(a, t)})

\* generateMigration: what the entities want, and how to undo it.
UpScript(a) ==
    InOrder(design.entities, [t \in AddedTables(a) |-> <<Statement("create", t, None, None)>>])
    \o InOrder(design.entities, [t \in ModifiedTables(a) |-> UpColumns(a, t)])
    \o InOrder(design.byName, [t \in RemovedTables(a) |-> <<Statement("drop", t, None, None)>>])

DownScript(a) ==
    InOrder(design.entities, [t \in AddedTables(a) |-> <<Statement("drop", t, None, None)>>])
    \o InOrder(design.entities, [t \in ModifiedTables(a) |-> DownColumns(a, t)])
    \o InOrder(design.byName, [t \in RemovedTables(a) |-> <<Statement("remark", t, None, None)>>])

GenerateMigration(a) ==
    /\ diff[a].step = "reading" /\ ToRead(a) = {}
    /\ diff' = [diff EXCEPT ![a].step = "generated", ![a].up = UpScript(a), ![a].down = DownScript(a)]
    /\ UNCHANGED <<design, catalogue, scripts, before, upTo>>

\* Others have read what is no longer so.
Outdated(d, a, undo) ==
    [x \in Architects |-> IF x = a THEN d[x]
                          ELSE [d[x] EXCEPT !.fresh = FALSE, !.undone = @ \/ undo]]

MigrateUp(a) ==
    LET r == Executed(catalogue, diff[a].up) IN
    /\ diff[a].step = "generated" /\ scripts < MaxScripts /\ scripts' = scripts + 1
    /\ IF r.ok
       THEN /\ catalogue' = r.db /\ before' = catalogue
            /\ upTo' = IF diff[a].undone THEN 0 ELSE upTo + 1
            /\ diff' = Outdated([diff EXCEPT ![a].step = "up"], a, FALSE)
       ELSE /\ diff' = [diff EXCEPT ![a].step = "refused"]
            /\ UNCHANGED <<catalogue, before, upTo>>
    /\ UNCHANGED design

MigrateDown(a) ==
    LET r == Executed(catalogue, diff[a].down) IN
    /\ diff[a].step = "up" /\ scripts < MaxScripts /\ scripts' = scripts + 1
    /\ IF r.ok
       THEN /\ catalogue' = r.db /\ upTo' = 0
            /\ diff' = Outdated([diff EXCEPT ![a].step = "down"], a, TRUE)
       ELSE /\ diff' = [diff EXCEPT ![a].step = "stuck"]
            /\ UNCHANGED <<catalogue, upTo>>
    /\ UNCHANGED <<design, before>>

Again(a) ==
    /\ diff[a].step \in {"up", "down", "refused", "stuck"}
    /\ diff' = [diff EXCEPT ![a] = NoDiff]
    /\ UNCHANGED <<design, catalogue, scripts, before, upTo>>

SchemaDiffsNext ==
    \E a \in Architects : \/ GetTables(a) \/ GetColumns(a) \/ GenerateMigration(a)
                          \/ MigrateUp(a) \/ MigrateDown(a) \/ Again(a)

-----------------------------------------------------------------------------
TypesOf(t, c) == {DataType(design.fields[t][c].ddl), DataType(design.fields[t][c].diff)}

\* After an up the tables are those of the entities, every field has its column, and any
\* other column is a foreign key of a table that an up has just created: the next one drops it.
Reached ==
    upTo > 0 =>
        /\ DOMAIN catalogue = Entities
        /\ \A t \in Entities :
               /\ DOMAIN design.fields[t] \subseteq DOMAIN catalogue[t]
               /\ \A c \in DOMAIN design.fields[t] : catalogue[t][c].type \in TypesOf(t, c)
               /\ \A c \in DOMAIN catalogue[t] \ DOMAIN design.fields[t] :
                      c \in DOMAIN design.refers[t] /\ t \notin DOMAIN before

\* A down right after its up gives back every column of a table that stays, dropped ones
\* as TEXT; tables that were dropped are gone.
GivenBack ==
    \A a \in Architects : diff[a].step = "down" /\ diff[a].fresh =>
        /\ DOMAIN catalogue = DOMAIN before \cap Entities
        /\ \A t \in DOMAIN catalogue :
               /\ DOMAIN catalogue[t] = DOMAIN before[t]
               /\ \A c \in DOMAIN catalogue[t] :
                      catalogue[t][c].type = before[t][c].type
                      \/ (c \notin DOMAIN design.fields[t] /\ catalogue[t][c].type = "text")

\* A migration from what is still so is refused only because it creates a table before the
\* one it references, drops one that is still referenced, or needs a cast that is not there.
RefusedForAReason ==
    \A a \in Architects : diff[a].step = "refused" /\ diff[a].fresh =>
        \E i \in 1..Len(diff[a].up) :
            LET s == diff[a].up[i] IN
            \/ s.do = "create" /\ \E c \in DOMAIN design.refers[s.table] :
                   design.refers[s.table][c] \notin DOMAIN catalogue \cup {diff[a].up[j].table : j \in 1..i}
            \/ s.do = "drop" /\ \E t \in DOMAIN catalogue : \E c \in DOMAIN catalogue[t] : catalogue[t][c].to = s.table
            \/ s.do = "drop" /\ \E t \in Entities : \E c \in DOMAIN design.refers[t] : design.refers[t][c] = s.table
            \/ s.do = "retype" /\ ~Casts(catalogue[s.table][s.column].type, DataType(s.type))

\* What a diff generates from a database that stands still makes it what the entities say,
\* can be undone as far as it tells, and fails for what the database cannot do only.
DiffsHold == Reached /\ GivenBack /\ RefusedForAReason
=============================================================================
