----------------------------- MODULE Statements -----------------------------
(***************************************************************************)
(* How the parameters of a statement reach the database: prepared, named   *)
(* and batch statements of the eight adapters, PgConnection's statement    *)
(* cache and the PreparedStatementPool, whose statement objects are used   *)
(* again by later callers.                                                 *)
(*                                                                         *)
(* A text is the sequence of its "$n": a token is [n, quoted], quoted if   *)
(* it stands in a string literal.  A database binds by number ("$n") or    *)
(* by position ("?") and refuses a statement with a wrong number of        *)
(* values; what it runs is the value at each placeholder of the text.      *)
(***************************************************************************)
EXTENDS Naturals, Sequences, FiniteSets, SequencesExt, FiniteSetsExt

CONSTANTS Adapters,    \* of "pg", "bunpg", "denopg", "mysql", "sqlite", "bunsqlite", "libsql", "d1"
          Texts,       \* sequences of tokens
          NamedTexts,  \* sequences of names
          ParamValues, Null,
          MaxIndex,    \* bound: index given to setParameter
          MaxRows,     \* bound: rows of a batch
          MaxUses      \* bound: statements prepared

Token == [n : 1..MaxIndex, quoted : BOOLEAN]

ASSUME StatementsAssumption ==
    /\ Adapters \subseteq {"pg", "bunpg", "denopg", "mysql", "sqlite", "bunsqlite", "libsql", "d1"}
    /\ MaxIndex \in Nat /\ MaxRows \in Nat /\ MaxUses \in Nat
    /\ \A t \in Texts : t \in Seq(Token)
    /\ \A names \in NamedTexts : names \in Seq(STRING)
    /\ Null \notin ParamValues

VARIABLES adapter,   \* the adapter in use
          left,      \* left[t]: parameters of the cached statement object of text t
          hand,      \* the statement in the caller's hand
          params,    \* its parameters: a function on the indexes (or names) that are set
          asked,     \* history: what this caller has set
          rows,      \* of a batch: the rows added so far
          askedRows, \* history: the same, as the caller set them
          ran,       \* history: the last execution
          uses

statementVars == <<adapter, left, hand, params, asked, rows, askedRows, ran, uses>>

NoParams == [i \in {} |-> Null]
Uncached == [set |-> FALSE, params |-> NoParams]
NoStatement == [kind |-> "none", text |-> <<>>, pooled |-> FALSE]
NothingRan == [kind |-> "none", text |-> <<>>, asked |-> NoParams, rows |-> <<>>,
               insert |-> FALSE, bound |-> <<>>, refused |-> FALSE]

StatementsStart(a) ==
    /\ adapter = a
    /\ left = [t \in Texts |-> Uncached]
    /\ hand = NoStatement /\ params = NoParams /\ asked = NoParams
    /\ rows = <<>> /\ askedRows = <<>> /\ ran = NothingRan /\ uses = 0

StatementsInit == \E a \in Adapters : StatementsStart(a)

-----------------------------------------------------------------------------
(* Binding *)

\* The elements of a sequence at some of its positions, in their order.
AtPositions(seq, P) ==
    [n \in 1..Cardinality(P) |-> seq[CHOOSE j \in P : Cardinality({i \in P : i <= j}) = n]]

\* A text as the database reads it: the literals hold no placeholders.
Placeholders(text) == AtPositions(text, {j \in DOMAIN text : ~text[j].quoted})

Highest(S) == IF S = {} THEN 0 ELSE Max(S)

Value(p, i) == IF i \in DOMAIN p THEN p[i] ELSE Null

\* collectParameters: the values from 1 to the highest index, null in the gaps.
Collect(p) == [i \in 1..Highest(DOMAIN p) |-> Value(p, i)]

Refused == [refused |-> TRUE, bound |-> <<>>]
Accepted(values) == [refused |-> FALSE, bound |-> values]

\* PostgreSQL: $n takes the n-th value.
ByNumber(text, args) ==
    LET places == Placeholders(text)
    IN IF Len(args) # Highest({k.n : k \in ToSet(places)}) THEN Refused
       ELSE Accepted([j \in DOMAIN places |-> args[places[j].n]])

\* MySQL and SQLite: the k-th "?" takes the k-th value.
ByPosition(marks, args) == IF Len(args) # marks THEN Refused ELSE Accepted(args)

\* convertPositionalParams of packages/jdbc: "?" for every "$n" outside a literal.
ConvertPositionalParams(text) == Len(Placeholders(text))

\* The same function of the D1 and libSQL adapters: every "$n" is converted, and
\* its index is kept; a "?" in a literal is text to the database.
ConvertWithIndices(text) ==
    [marks |-> Len(Placeholders(text)), indices |-> [j \in DOMAIN text |-> text[j].n]]

\* collectParameters(indices)
CollectIndexed(p, indices) ==
    IF indices = <<>> THEN Collect(p) ELSE [j \in DOMAIN indices |-> Value(p, indices[j])]

\* The prepared statements of the adapters.
PgExecute(text, p) == ByNumber(text, Collect(p))
BunPgExecute(text, p) == ByNumber(text, Collect(p))
DenoPgExecute(text, p) == ByNumber(text, Collect(p))
MysqlExecute(text, p) == ByPosition(ConvertPositionalParams(text), Collect(p))
SqliteExecute(text, p) == ByPosition(ConvertPositionalParams(text), Collect(p))
BunSqliteExecute(text, p) == ByPosition(ConvertPositionalParams(text), Collect(p))
LibSqlExecute(text, p) ==
    LET c == ConvertWithIndices(text) IN ByPosition(c.marks, CollectIndexed(p, c.indices))
D1Execute(text, p) ==
    LET c == ConvertWithIndices(text) IN ByPosition(c.marks, CollectIndexed(p, c.indices))

ExecuteText(text, p) ==
    CASE adapter = "pg"        -> PgExecute(text, p)
      [] adapter = "bunpg"     -> BunPgExecute(text, p)
      [] adapter = "denopg"    -> DenoPgExecute(text, p)
      [] adapter = "mysql"     -> MysqlExecute(text, p)
      [] adapter = "sqlite"    -> SqliteExecute(text, p)
      [] adapter = "bunsqlite" -> BunSqliteExecute(text, p)
      [] adapter = "libsql"    -> LibSqlExecute(text, p)
      [] adapter = "d1"        -> D1Execute(text, p)

\* parseNamedParams: a name is the number of its first occurrence.
FirstOccurrences(names) ==
    AtPositions(names, {j \in DOMAIN names : \A i \in 1..(j - 1) : names[i] # names[j]})

ParamOrder(names) == FirstOccurrences(names)

ParseNamedParams(names) ==
    LET order == FirstOccurrences(names)
    IN [j \in DOMAIN names |-> [n |-> CHOOSE i \in DOMAIN order : order[i] = names[j],
                                quoted |-> FALSE]]

\* The named statements: the values in the order of the names.
InParamOrder(names, p) ==
    [j \in DOMAIN ParamOrder(names) |-> Value(p, ParamOrder(names)[j])]
PgNamed(names, p) == ByNumber(ParseNamedParams(names), InParamOrder(names, p))
MysqlNamed(names, p) == ByPosition(ConvertPositionalParams(ParseNamedParams(names)),
                                   InParamOrder(names, p))
SqliteNamed(names, p) == ByPosition(ConvertPositionalParams(ParseNamedParams(names)),
                                    InParamOrder(names, p))

ExecuteNamed(names, p) == CASE adapter = "pg"     -> PgNamed(names, p)
                            [] adapter = "mysql"  -> MysqlNamed(names, p)
                            [] adapter = "sqlite" -> SqliteNamed(names, p)

-----------------------------------------------------------------------------
(* Batches.  The statement of a batch has one row of "$1" .. "$n".          *)

\* The VALUES clause is rewritten to one group for each row, as wide as the first.
MultiRow(batch) ==
    [accepted |-> TRUE,
     stored |-> [r \in DOMAIN batch |-> [c \in 1..Len(batch[1]) |-> Value(batch[r], c)]]]

\* Rows run one by one until one is refused by the database.
OneByOne(batch, failing) == [accepted |-> failing = 0,
                             stored |-> IF failing = 0 THEN batch
                                        ELSE SubSeq(batch, 1, failing - 1)]

AllOrNone(result, failing) == IF failing = 0 THEN result
                              ELSE [accepted |-> FALSE, stored |-> <<>>]

PgBatch(batch, insert, failing) ==
    IF insert THEN AllOrNone(MultiRow(batch), failing) ELSE OneByOne(batch, failing)
MysqlBatch(batch, insert, failing) ==
    IF insert THEN AllOrNone(MultiRow(batch), failing) ELSE OneByOne(batch, failing)

\* db.transaction(...) around the rows.
SqliteBatch(batch, insert, failing) == AllOrNone(OneByOne(batch, 0), failing)

ExecuteRows(batch, insert, failing) ==
    CASE adapter = "pg"     -> PgBatch(batch, insert, failing)
      [] adapter = "mysql"  -> MysqlBatch(batch, insert, failing)
      [] adapter = "sqlite" -> SqliteBatch(batch, insert, failing)

-----------------------------------------------------------------------------
(* Actions *)

Take(kind, text, pooled, p) ==
    /\ hand.kind = "none" /\ uses < MaxUses
    /\ hand' = [kind |-> kind, text |-> text, pooled |-> pooled]
    /\ params' = p
    /\ asked' = NoParams /\ rows' = <<>> /\ askedRows' = <<>>
    /\ ran' = NothingRan
    /\ uses' = uses + 1
    /\ UNCHANGED adapter

\* A hit as it would be without reset().
PrepareWithLeftovers(t) ==
    /\ Take("prepared", t, FALSE, left[t].params)
    /\ left' = [left EXCEPT ![t].set = (adapter = "pg")]

\* prepareStatement: PgConnection returns the cached statement of the same text,
\* after reset().
Prepare(t) == /\ Take("prepared", t, FALSE, NoParams)
              /\ left' = IF adapter = "pg" THEN [left EXCEPT ![t] = [set |-> TRUE, params |-> NoParams]]
                         ELSE left

\* PreparedStatementPool.acquire: on a hit the statement as its last user left it.
Acquire(t) == /\ Take("prepared", t, TRUE, left[t].params)
              /\ left' = [left EXCEPT ![t].set = TRUE]

PrepareNamed(names) == /\ adapter \in {"pg", "mysql", "sqlite"}
                       /\ Take("named", names, FALSE, NoParams)
                       /\ UNCHANGED left

\* A batch shares nothing with other statements: only as the first one (bound).
PrepareBatch == /\ adapter \in {"pg", "mysql", "sqlite"} /\ uses = 0
                /\ Take("batch", <<>>, FALSE, NoParams)
                /\ UNCHANGED left

KeyOf(kind) == IF kind = "named" THEN UNION {ToSet(n) : n \in NamedTexts} ELSE 1..MaxIndex

\* setParameter, setNamedParameter
SetParameter(i, v) ==
    /\ hand.kind # "none" /\ ran.kind = "none" /\ i \in KeyOf(hand.kind)
    /\ params' = [j \in DOMAIN params \cup {i} |-> IF j = i THEN v ELSE params[j]]
    /\ asked' = [j \in DOMAIN asked \cup {i} |-> IF j = i THEN v ELSE asked[j]]
    /\ left' = IF hand.kind = "prepared" /\ left[hand.text].set
               THEN [left EXCEPT ![hand.text].params = params'] ELSE left
    /\ UNCHANGED <<adapter, hand, rows, askedRows, ran, uses>>

AddRow == /\ hand.kind = "batch" /\ ran.kind = "none" /\ Len(rows) < MaxRows
          /\ rows' = Append(rows, Collect(params))
          /\ askedRows' = Append(askedRows, Collect(asked))

AddBatch == /\ AddRow
            /\ params' = NoParams /\ asked' = NoParams
            /\ UNCHANGED <<adapter, left, hand, ran, uses>>

\* executeQuery, executeUpdate
Execute == /\ hand.kind \in {"prepared", "named"} /\ ran.kind = "none"
           /\ LET r == IF hand.kind = "named" THEN ExecuteNamed(hand.text, params)
                       ELSE ExecuteText(hand.text, params)
              IN ran' = [NothingRan EXCEPT !.kind = hand.kind, !.text = hand.text, !.asked = asked,
                                           !.bound = r.bound, !.refused = r.refused]
           /\ UNCHANGED <<adapter, left, hand, params, asked, rows, askedRows, uses>>

\* executeBatch, where the database may refuse a row; an empty batch does nothing.
ExecuteBatch ==
    /\ hand.kind = "batch" /\ ran.kind = "none" /\ rows # <<>>
    /\ \E insert \in BOOLEAN, failing \in 0..Len(rows) :
          LET r == ExecuteRows(rows, insert, failing)
          IN ran' = [NothingRan EXCEPT !.kind = "batch", !.rows = askedRows, !.insert = insert,
                                       !.bound = r.stored, !.refused = ~r.accepted]
    /\ UNCHANGED <<adapter, left, hand, params, asked, rows, askedRows, uses>>

\* close(), or the caller throws before it has executed: the object of a cached
\* statement keeps its parameters.
LetGo == /\ hand.kind # "none"
         /\ hand' = NoStatement /\ params' = NoParams /\ asked' = NoParams
         /\ rows' = <<>> /\ askedRows' = <<>> /\ ran' = NothingRan
         /\ UNCHANGED <<adapter, left, uses>>

StatementsNext ==
    \/ \E t \in Texts : Prepare(t) \/ Acquire(t)
    \/ \E names \in NamedTexts : PrepareNamed(names)
    \/ PrepareBatch
    \/ \E i \in KeyOf(hand.kind), v \in ParamValues : SetParameter(i, v)
    \/ AddBatch \/ Execute \/ ExecuteBatch \/ LetGo

-----------------------------------------------------------------------------
(* Properties *)

\* The texts the query language produces: "$1", "$2", ... in this order.
InOrder(text) == \A j \in DOMAIN Placeholders(text) : Placeholders(text)[j].n = j

Numbered == {"pg", "bunpg", "denopg", "libsql", "d1"}

\* What is run are the values this caller has set, each at its own placeholder,
\* or the statement is refused: never a value of an earlier caller of the same
\* cached statement, never another parameter's.  For the adapters that bind by
\* position this needs "$1", "$2", ... to stand in order, and for a statement of
\* the pool that the caller sets every parameter.
PreparedBindsItsOwn ==
    ran.kind = "prepared" /\ ~ran.refused
    /\ (adapter \in Numbered \/ InOrder(ran.text))
    /\ (hand.pooled => \A k \in ToSet(ran.text) : k.n \in DOMAIN ran.asked) =>
        LET places == Placeholders(ran.text)
        IN ran.bound = [j \in DOMAIN places |-> Value(ran.asked, places[j].n)]

\* A named statement runs with the value of each name at each of its places.
NamedBindsItsOwn ==
    ran.kind = "named" /\ ~ran.refused =>
        ran.bound = [j \in DOMAIN ran.text |-> Value(ran.asked, ran.text[j])]

\* A batch whose rows set the same parameters stores the rows as they were set,
\* each parameter of the row it was set for: all of them or, refused, none (or,
\* one by one, those before the refused one).
BatchStoresItsRows ==
    ran.kind = "batch" /\ (\A r \in DOMAIN ran.rows : Len(ran.rows[r]) = Len(ran.rows[1])) =>
        /\ IsPrefix(ran.bound, ran.rows)
        /\ ~ran.refused => ran.bound = ran.rows
        /\ ran.refused /\ (ran.insert \/ adapter = "sqlite") => ran.bound = <<>>

\* Every value reaches the placeholder it was set for, by position, by name and in a batch.
ParametersArriveWhereSet == PreparedBindsItsOwn /\ NamedBindsItsOwn /\ BatchStoresItsRows

-----------------------------------------------------------------------------
(***************************************************************************)
(* Cursors: the streaming result sets of PostgreSQL, MySQL and SQLite.     *)
(* next() takes rows from a buffer that is filled by reads of cursorSize   *)
(* rows, while the consumer may change cursorSize, pause and resume, also  *)
(* during a read.  The rows of the result are 1 .. resultSize.             *)
(***************************************************************************)

CONSTANTS CursorKinds,   \* of "pg", "mysql", "sqlite"
          CursorSizes,   \* arguments of setCursorSize
          MaxResult,     \* bound: rows of a result
          MaxNext        \* bound: calls of next() that deliver nothing

ASSUME CursorsAssumption ==
    /\ CursorKinds \subseteq {"pg", "mysql", "sqlite"}
    /\ CursorSizes \subseteq Nat \ {0}
    /\ MaxResult \in Nat /\ MaxNext \in Nat

VARIABLES cursorKind, resultSize,
          fetched,      \* rows that have left the server
          buffer, bufferIndex, \* bufferIndex from 1, 0 before the first row
          exhausted, paused, cursorSize,
          reading,      \* the read that is awaited
          delivered,    \* history: rows the consumer got
          answer,       \* history: what next() returned last, and whether paused
          grown,        \* history: cursorSize grew during a read of PostgreSQL
          empties

cursorVars == <<cursorKind, resultSize, fetched, buffer, bufferIndex, exhausted, paused,
                cursorSize, reading, delivered, answer, grown, empties>>

NoRead == [on |-> FALSE, size |-> 0, rows |-> <<>>]
InRead == reading.on

CursorsStart(k, n) ==
    /\ cursorKind = k /\ resultSize = n
    /\ fetched = 0 /\ buffer = <<>> /\ bufferIndex = 0
    /\ exhausted = FALSE /\ paused = FALSE
    /\ cursorSize \in CursorSizes
    /\ reading = NoRead /\ delivered = <<>> /\ answer = "none"
    /\ grown = FALSE /\ empties = 0

CursorsInit == \E k \in CursorKinds, n \in 0..MaxResult : CursorsStart(k, n)

Least(a, b) == IF a < b THEN a ELSE b

\* The next rows of the server, at most so many.
RowsAfter(from, many) == [i \in 1..Least(many, resultSize - from) |-> from + i]

Deliver(row) == /\ delivered' = Append(delivered, row)
                /\ answer' = "row"
                /\ UNCHANGED empties

Nothing(why) == /\ answer' = why
                /\ empties' = empties + 1
                /\ UNCHANGED delivered

CanCall == ~InRead /\ empties < MaxNext

-----------------------------------------------------------------------------
(* next() *)

\* A row of the buffer; pause() does not stop it.
NextBuffered ==
    /\ CanCall /\ cursorKind # "sqlite"
    /\ bufferIndex + 1 <= Len(buffer)
    /\ bufferIndex' = bufferIndex + 1
    /\ Deliver(buffer[bufferIndex + 1])
    /\ UNCHANGED <<cursorKind, resultSize, fetched, buffer, exhausted, paused, cursorSize,
                   reading, grown>>

\* The buffer is used up: an answer without a row, or a read.  The index has moved.
NextBeyond ==
    /\ CanCall /\ cursorKind # "sqlite"
    /\ bufferIndex + 1 > Len(buffer)
    /\ bufferIndex' = bufferIndex + 1
    /\ IF exhausted \/ paused
       THEN /\ Nothing(IF paused THEN "paused" ELSE "end")
            /\ UNCHANGED reading
       ELSE /\ reading' = [on |-> TRUE, size |-> cursorSize, rows |-> <<>>]
            /\ UNCHANGED <<delivered, answer, empties>>
    /\ UNCHANGED <<cursorKind, resultSize, fetched, buffer, exhausted, paused, cursorSize, grown>>

\* The buffer gets what was read, and next() its first row.
Filled(got, noMore) ==
    /\ reading' = NoRead
    /\ IF got = <<>>
       THEN /\ exhausted' = TRUE
            /\ Nothing("end")
            /\ UNCHANGED <<buffer, bufferIndex>>
       ELSE /\ exhausted' = noMore
            /\ buffer' = got /\ bufferIndex' = 1
            /\ Deliver(got[1])

\* cursor.read(cursorSize) of PostgreSQL: fewer rows than cursorSize, as it is
\* now, are the last.
PgRead ==
    /\ InRead /\ cursorKind = "pg"
    /\ LET got == RowsAfter(fetched, reading.size)
       IN /\ fetched' = fetched + Len(got)
          /\ Filled(got, Len(got) < cursorSize)
    /\ UNCHANGED <<cursorKind, resultSize, paused, cursorSize, grown>>

\* MySQL reads row after row, as long as there are fewer than cursorSize.
MysqlReadRow ==
    /\ InRead /\ cursorKind = "mysql"
    /\ Len(reading.rows) < cursorSize /\ fetched < resultSize
    /\ fetched' = fetched + 1
    /\ reading' = [reading EXCEPT !.rows = Append(@, fetched + 1)]
    /\ UNCHANGED <<cursorKind, resultSize, buffer, bufferIndex, exhausted, paused, cursorSize,
                   delivered, answer, grown, empties>>

MysqlFilled ==
    /\ InRead /\ cursorKind = "mysql"
    /\ Len(reading.rows) >= cursorSize \/ fetched = resultSize
    /\ Filled(reading.rows, Len(reading.rows) < cursorSize)
    /\ UNCHANGED <<cursorKind, resultSize, fetched, paused, cursorSize, grown>>

\* SQLite steps its iterator.
SqliteNext ==
    /\ CanCall /\ cursorKind = "sqlite"
    /\ IF exhausted \/ paused
       THEN /\ Nothing(IF paused /\ ~exhausted THEN "paused" ELSE "end")
            /\ UNCHANGED <<fetched, exhausted>>
       ELSE IF fetched = resultSize
       THEN /\ exhausted' = TRUE
            /\ Nothing("end")
            /\ UNCHANGED fetched
       ELSE /\ fetched' = fetched + 1
            /\ Deliver(fetched + 1)
            /\ UNCHANGED exhausted
    /\ UNCHANGED <<cursorKind, resultSize, buffer, bufferIndex, paused, cursorSize, reading, grown>>

-----------------------------------------------------------------------------
(* The consumer's other calls, at any time *)

SetCursorSize(n) ==
    /\ n # cursorSize
    /\ cursorSize' = n
    /\ grown' = (grown \/ (InRead /\ cursorKind = "pg" /\ n > reading.size))
    /\ UNCHANGED <<cursorKind, resultSize, fetched, buffer, bufferIndex, exhausted, paused,
                   reading, delivered, answer, empties>>

PauseOrResume ==
    /\ paused' = ~paused
    /\ UNCHANGED <<cursorKind, resultSize, fetched, buffer, bufferIndex, exhausted, cursorSize,
                   reading, delivered, answer, grown, empties>>

CursorsNext ==
    \/ NextBuffered \/ NextBeyond \/ PgRead \/ MysqlReadRow \/ MysqlFilled \/ SqliteNext
    \/ \E n \in CursorSizes : SetCursorSize(n)
    \/ PauseOrResume

-----------------------------------------------------------------------------
(* Properties *)

\* The consumer gets the rows of the result, in order and each once, and a
\* next() that returns false without a pause means that it has all of them,
\* whatever calls of setCursorSize, pause and resume came between; only a
\* cursorSize that grows during a read of PostgreSQL ends the result early.
CursorDeliversTheResult ==
    /\ delivered = [i \in 1..Len(delivered) |-> i]
    /\ Len(delivered) <= resultSize
    /\ answer = "end" /\ ~grown => Len(delivered) = resultSize

\* What a caller sets reaches its placeholder, and what a cursor is asked for
\* reaches its consumer.
ValuesArrive == ParametersArriveWhereSet /\ CursorDeliversTheResult
=============================================================================
