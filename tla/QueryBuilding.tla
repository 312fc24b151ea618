---------------------------- MODULE QueryBuilding ----------------------------
(***************************************************************************)
(* Numbering the placeholders of built SQL.  A criterion is a tree whose   *)
(* leaves carry the caller's values; its SQL is the same tree with the     *)
(* numbers of the placeholders instead.  Every value a caller gives is a   *)
(* new number, so one that lands elsewhere is seen.                        *)
(***************************************************************************)
EXTENDS Naturals, Sequences, FiniteSets, SequencesExt

CONSTANTS BuilderKinds,  \* some of "select", "update", "delete", "insert"
          Arities,       \* values of a criterion: none (IS NULL, IN ()), one, two (BETWEEN)
          MaxBuilderCalls,
          BulkRows, BulkColumns, ChunkSizes

ASSUME BuildingAssumption ==
    /\ BuilderKinds \subseteq {"select", "update", "delete", "insert"}
    /\ Arities \subseteq Nat /\ MaxBuilderCalls \in Nat
    /\ BulkRows \subseteq Nat \ {0} /\ BulkColumns \subseteq Nat \ {0} /\ ChunkSizes \subseteq Nat \ {0}

VARIABLES building,   \* the kind of builder
          clause,     \* clause[c]: the criteria of a clause
          values,     \* values given so far
          built,      \* the last build, or NotBuilt
          builtFrom,  \* history: the clauses it was made from
          builderCalls

buildingVars == <<building, clause, values, built, builtFrom, builderCalls>>

\* In the order of the text of build().
Clauses == <<"cte", "set", "rank", "where", "having", "order", "limit", "offset">>

ClausesOf(kind) == CASE kind = "select" -> ToSet(Clauses) \ {"set"}
                     [] kind = "update" -> {"set", "where"}
                     [] kind = "delete" -> {"where"}
                     [] kind = "insert" -> {"set"}

Leaf(given) == [op |-> "leaf", values |-> given]
Both(op, l, r) == [op |-> op, left |-> l, right |-> r]
Negated(c) == [op |-> "not", left |-> c]

\* The next n values, after the first `from`.
Given(from, n) == [i \in 1..n |-> from + i]

-----------------------------------------------------------------------------
(* toSql(paramOffset) *)

Numbers(n, offset) == [i \in 1..n |-> offset + i - 1]

RECURSIVE ToSql(_, _)
ToSql(c, offset) ==
    CASE c.op = "leaf" -> [sql |-> Leaf(Numbers(Len(c.values), offset)), params |-> c.values]
      [] c.op = "not" -> LET l == ToSql(c.left, offset)
                         IN [sql |-> Negated(l.sql), params |-> l.params]
      [] OTHER -> LET l == ToSql(c.left, offset)
                      r == ToSql(c.right, offset + Len(l.params))
                  IN [sql |-> Both(c.op, l.sql, r.sql), params |-> l.params \o r.params]

RECURSIVE MapLeaves(_, _)
MapLeaves(F(_), c) ==
    CASE c.op = "leaf" -> Leaf([i \in DOMAIN c.values |-> F(c.values[i])])
      [] c.op = "not" -> Negated(MapLeaves(F, c.left))
      [] OTHER -> Both(c.op, MapLeaves(F, c.left), MapLeaves(F, c.right))

\* buildCteQuery: the query is built by itself, then its $n are moved.
CteToSql(c, offset) ==
    LET alone == ToSql(c, 1)
    IN [sql |-> MapLeaves(LAMBDA n : n + offset - 1, alone.sql), params |-> alone.params]

NothingBuilt == [text |-> <<>>, params |-> <<>>]

\* build(): every clause goes on with the number the one before it stopped at.
Build(cl) ==
    LET Add(acc, name) ==
            FoldLeft(LAMBDA b, c :
                        LET one == IF name = "cte" THEN CteToSql(c, Len(b.params) + 1)
                                   ELSE ToSql(c, Len(b.params) + 1)
                        IN [text |-> Append(b.text, one.sql), params |-> b.params \o one.params],
                     acc, cl[name])
    IN FoldLeft(Add, NothingBuilt, Clauses)

-----------------------------------------------------------------------------
(* BulkOperationBuilder *)

RowValues(r, cols) == [c \in 1..cols |-> 10 * r + c]

Lesser(a, b) == IF a <= b THEN a ELSE b

\* chunk: slices of the rows, given by their numbers.
Chunks(rows, size) == [k \in 1..((rows + size - 1) \div size) |->
                          [i \in 1..Lesser(size, rows - (k - 1) * size) |-> (k - 1) * size + i]]

\* buildInsertChunk, buildUpsertChunk: the placeholders of each row.
InsertChunk(rows, cols) ==
    [groups |-> [i \in DOMAIN rows |-> Numbers(cols, (i - 1) * cols + 1)],
     params |-> FlattenSeq([i \in DOMAIN rows |-> RowValues(rows[i], cols)])]

\* buildUpdateChunk: all the ids, then column by column WHEN id THEN value.  The id
\* of a row is its number.
UpdateChunk(rows, cols) ==
    LET n == Len(rows)
    IN [cases |-> [c \in 1..cols |-> [i \in 1..n |-> [id |-> i, value |-> c * n + i]]],
        params |-> rows \o FlattenSeq([c \in 1..cols |-> [i \in 1..n |-> RowValues(rows[i], cols)[c]]])]

InsertedBy(q) == {[c \in DOMAIN q.groups[i] |-> q.params[q.groups[i][c]]] : i \in DOMAIN q.groups}

UpdatedBy(q) == UNION {{[id |-> q.params[q.cases[c][i].id], column |-> c, value |-> q.params[q.cases[c][i].value]]
                           : i \in DOMAIN q.cases[c]} : c \in DOMAIN q.cases}

\* Every row is written by one statement, with its values in their columns.
BulkWritesTheRows ==
    \A rows \in BulkRows, cols \in BulkColumns, size \in ChunkSizes :
        LET chunks == Chunks(rows, size)
        IN /\ FlattenSeq(chunks) = [r \in 1..rows |-> r]
           /\ UNION {InsertedBy(InsertChunk(chunks[k], cols)) : k \in DOMAIN chunks}
                = {RowValues(r, cols) : r \in 1..rows}
           /\ UNION {UpdatedBy(UpdateChunk(chunks[k], cols)) : k \in DOMAIN chunks}
                = {[id |-> r, column |-> c, value |-> RowValues(r, cols)[c]] : r \in 1..rows, c \in 1..cols}

-----------------------------------------------------------------------------
(* A builder in use *)

NotBuilt == [text |-> <<>>, params |-> <<0>>]
NoClauses == [c \in ToSet(Clauses) |-> <<>>]

BuildingStart(kind) ==
    /\ building = kind
    /\ clause = NoClauses /\ values = 0
    /\ built = NotBuilt /\ builtFrom = NoClauses
    /\ builderCalls = 0

BuildingInit == \E kind \in BuilderKinds : BuildingStart(kind)

Called(n) == /\ builderCalls < MaxBuilderCalls /\ builderCalls' = builderCalls + 1
             /\ values' = values + n
             /\ UNCHANGED <<building, built, builtFrom>>

Where(n) ==
    /\ "where" \in ClausesOf(building)
    /\ clause' = [clause EXCEPT !["where"] = <<Leaf(Given(values, n))>>]
    /\ Called(n)

\* and, or: combined with what was there.
Combine(op, n, negated) ==
    /\ "where" \in ClausesOf(building) /\ (op = "or" => building = "select")
    /\ LET leaf == Leaf(Given(values, n))
           c == IF negated THEN Negated(leaf) ELSE leaf
       IN clause' = [clause EXCEPT !["where"] = IF @ = <<>> THEN <<c>> ELSE <<Both(op, @[1], c)>>]
    /\ Called(n)

\* having, limit, offset: the last call counts.
SetClause(name, n) ==
    /\ name \in ClausesOf(building) \cap {"having", "limit", "offset"}
    /\ (name # "having" => n = 1)
    /\ clause' = [clause EXCEPT ![name] = <<Leaf(Given(values, n))>>]
    /\ Called(n)

\* with, addSearchRank, orderByExpression, set: one more.
AddTo(name, n) ==
    /\ name \in ClausesOf(building) \cap {"cte", "rank", "order", "set"}
    /\ (name # "cte" => n = 1)
    /\ clause' = [clause EXCEPT ![name] = Append(@, Leaf(Given(values, n)))]
    /\ Called(n)

\* A builder can be built again, and be used further.
BuildIt ==
    /\ built' = Build(clause) /\ builtFrom' = clause
    /\ UNCHANGED <<building, clause, values, builderCalls>>

BuildingNext ==
    \/ \E n \in Arities : \/ Where(n)
                          \/ \E op \in {"and", "or"}, negated \in BOOLEAN : Combine(op, n, negated)
                          \/ \E c \in ToSet(Clauses) : SetClause(c, n) \/ AddTo(c, n)
    \/ BuildIt

-----------------------------------------------------------------------------
(* Properties *)

Pieces(cl) == FlattenSeq([i \in DOMAIN Clauses |-> cl[Clauses[i]]])

RECURSIVE InText(_)
InText(c) == CASE c.op = "leaf" -> c.values
               [] c.op = "not" -> InText(c.left)
               [] OTHER -> InText(c.left) \o InText(c.right)

\* Every placeholder of a built query stands for the value that was given for its
\* place, whatever clauses come before it (SelectBuilder.build, LogicalCriteria), and
\* they are numbered in the order of the text, on which adapters with ? rely.  Every
\* chunk of a bulk statement writes the rows it was given.
BuiltQueriesBindTheirValues ==
    /\ built # NotBuilt =>
          /\ [i \in DOMAIN built.text |-> MapLeaves(LAMBDA n : built.params[n], built.text[i])] = Pieces(builtFrom)
          /\ FlattenSeq([i \in DOMAIN built.text |-> InText(built.text[i])]) = Numbers(Len(built.params), 1)
    /\ BulkWritesTheRows
=============================================================================
