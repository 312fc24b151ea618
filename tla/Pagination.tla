----------------------------- MODULE Pagination -----------------------------
(***************************************************************************)
(* A client walks through a table page by page while others change it.     *)
(* The page comes from OffsetPaginationStrategy or findAll(pageable), from *)
(* KeysetPaginationStrategy or, in either direction, from                  *)
(* RelayCursorStrategy; the client asks for the page behind the cursor it  *)
(* was given as long as the page says that there is one.                   *)
(***************************************************************************)
EXTENDS Naturals, Sequences, FiniteSets, SequencesExt

CONSTANTS PageSettings,  \* records: strategy, sort, backward, size, maxSize
          RowIds,        \* primary keys, numbers
          SortValues,    \* values of the one column that is sorted by
          SqlNull,       \* NULL, that PostgreSQL sorts behind every value
          MaxRowChanges, MaxPages

ASSUME PaginationAssumption ==
    /\ RowIds \subseteq Nat \ {0} /\ SortValues \subseteq Nat \ {0} /\ IsFiniteSet(RowIds)
    /\ SqlNull \in Nat \ ({0} \cup RowIds) /\ \A v \in SortValues : v < SqlNull
    /\ MaxRowChanges \in Nat /\ MaxPages \in Nat
    /\ \A s \in PageSettings :
           /\ s.strategy \in {"offset", "keyset", "relay"} /\ s.backward \in BOOLEAN
           /\ s.sort \in Seq([column : {"value", "id"}, ascending : BOOLEAN])
           /\ s.size \in Nat \ {0} /\ s.maxSize \in Nat \ {0}
           /\ s.strategy = "keyset" => Len(s.sort) = 1
           /\ s.backward => s.strategy = "relay"

\* The value of the column in a row, and in the place of a row there is not.
NoRow == 0

VARIABLES pageSetting,
          rows,       \* rows[i]: the sort column of row i
          walk,       \* the client: its cursor, the page it is at, the count it was told
          seen,       \* what it was given: <<sort value, id>> of each row
          touched,    \* history: rows changed since the walk began
          nulls,      \* history: a row with NULL was there
          rowChanges

pageVars == <<pageSetting, rows, walk, seen, touched, nulls, rowChanges>>

Present == {i \in RowIds : rows[i] # NoRow}

PageStart(s, r) ==
    /\ pageSetting = s
    /\ rows = r
    /\ walk = [at |-> "ready", cursor |-> <<>>, page |-> 0, total |-> 0]
    /\ seen = <<>>
    /\ touched = {}
    /\ nulls = (\E i \in RowIds : r[i] = SqlNull)
    /\ rowChanges = 0

PagesInit == \E s \in PageSettings, r \in [RowIds -> SortValues \cup {NoRow, SqlNull}] : PageStart(s, r)

\* The ORDER BY lists: pairs of a column and whether it ascends.  Keyset adds the
\* primary key in the direction of the sort; relay ascending, and turns every
\* direction around to go backward; an offset adds nothing.
SortsById == \E k \in DOMAIN pageSetting.sort : pageSetting.sort[k].column = "id"
WithId(up) == IF SortsById THEN pageSetting.sort
              ELSE Append(pageSetting.sort, [column |-> "id", ascending |-> up])

OffsetOrder == pageSetting.sort
KeysetOrder == WithId(pageSetting.sort[1].ascending)
RelayOrder == LET forth == WithId(TRUE)
              IN [k \in DOMAIN forth |-> [forth[k] EXCEPT !.ascending = (@ # pageSetting.backward)]]

OrderBy == CASE pageSetting.strategy = "offset" -> OffsetOrder
             [] pageSetting.strategy = "keyset" -> KeysetOrder
             [] pageSetting.strategy = "relay"  -> RelayOrder

Key(value, i) ==
    [k \in DOMAIN OrderBy |-> IF OrderBy[k].column = "id" THEN i ELSE value]
KeyOf(i) == Key(rows[i], i)

\* ORDER BY puts a before b.
SortedBefore(a, b) ==
    \E k \in DOMAIN OrderBy :
        /\ \A j \in 1..k - 1 : a[j] = b[j]
        /\ IF OrderBy[k].ascending THEN a[k] < b[k] ELSE b[k] < a[k]

\* The comparisons of SQL: with NULL, neither is true.
SqlEqual(x, y) == SqlNull \notin {x, y} /\ x = y
SqlPast(k, x, y) == SqlNull \notin {x, y} /\ IF OrderBy[k].ascending THEN x > y ELSE x < y

\* The cursor conditions.  Keyset: the sort column is past its value, or it is equal and
\* the primary key past its own.  Relay: the first column that differs is past its value.
KeysetBehind(a, cursor) ==
    \/ SqlPast(1, a[1], cursor[1])
    \/ Len(a) = 2 /\ SqlEqual(a[1], cursor[1]) /\ SqlPast(2, a[2], cursor[2])

\* The relay condition with each column compared on its own (for a mutant).
RelayBehindApart(a, cursor) == \A k \in DOMAIN OrderBy : SqlPast(k, a[k], cursor[k])

RelayBehind(a, cursor) ==
    \E k \in DOMAIN OrderBy : /\ \A j \in 1..k - 1 : SqlEqual(a[j], cursor[j])
                              /\ SqlPast(k, a[k], cursor[k])

PageSize == IF pageSetting.size > pageSetting.maxSize THEN pageSetting.maxSize ELSE pageSetting.size

\* Keyset leaves the condition out if the value of the last row was NULL.
Matching ==
    {i \in Present :
        \/ walk.cursor = <<>> \/ pageSetting.strategy = "offset"
        \/ /\ pageSetting.strategy = "keyset"
           /\ walk.cursor[1] = SqlNull \/ KeysetBehind(KeyOf(i), walk.cursor)
        \/ pageSetting.strategy = "relay" /\ RelayBehind(KeyOf(i), walk.cursor)}

\* The rows of the query, in any order that ORDER BY allows.
Answers ==
    {s \in SetToAllKPermutations(Matching) :
        /\ Len(s) = Cardinality(Matching)
        /\ \A j, k \in DOMAIN s : j < k => ~SortedBefore(KeyOf(s[k]), KeyOf(s[j]))}

AsRead(s) == [k \in DOMAIN s |-> <<rows[s[k]], s[k]>>]
Cut(s, first, n) == SubSeq(s, first, IF first + n - 1 < Len(s) THEN first + n - 1 ELSE Len(s))

\* For an offset the total is counted first, by a query of its own.
CountRows ==
    /\ pageSetting.strategy = "offset" /\ walk.at = "ready" /\ walk.page < MaxPages
    /\ walk' = [walk EXCEPT !.at = "counted", !.total = Cardinality(Present)]
    /\ UNCHANGED <<pageSetting, rows, seen, touched, nulls, rowChanges>>

\* createPage: ceil(total / size) pages, of the size that was asked for.
PagesIn(total) == (total + pageSetting.size - 1) \div pageSetting.size

OffsetPage ==
    /\ walk.at = "counted"
    /\ \E s \in Answers :
           LET page == Cut(s, walk.page * PageSize + 1, PageSize)
           IN /\ seen' = seen \o AsRead(page)
              /\ walk' = [walk EXCEPT !.page = @ + 1, !.total = 0,
                             !.at = IF walk.page + 1 < PagesIn(walk.total) THEN "ready" ELSE "done"]
    /\ UNCHANGED <<pageSetting, rows, touched, nulls, rowChanges>>

\* LIMIT size + 1: the row beyond tells that there is more.  The last row of a page is
\* the next cursor; keyset forgets the cursor if there is none.
KeysetPage ==
    /\ pageSetting.strategy = "keyset" /\ walk.at = "ready" /\ walk.page < MaxPages
    /\ \E s \in Answers :
           LET answer == Cut(s, 1, PageSize + 1)
               page == Cut(answer, 1, PageSize)
           IN /\ seen' = seen \o AsRead(page)
              /\ walk' = [walk EXCEPT !.page = @ + 1,
                             !.cursor = IF page = <<>> THEN <<>> ELSE KeyOf(Last(page)),
                             !.at = IF Len(answer) > PageSize THEN "ready" ELSE "done"]
    /\ UNCHANGED <<pageSetting, rows, touched, nulls, rowChanges>>

\* A backward page is turned around again, and the cursor of its first edge is next.
Edges(page) == IF pageSetting.backward THEN Reverse(page) ELSE page

RelayPage ==
    /\ pageSetting.strategy = "relay" /\ walk.at = "ready" /\ walk.page < MaxPages
    /\ \E s \in Answers :
           LET answer == Cut(s, 1, PageSize + 1)
               edges == Edges(Cut(answer, 1, PageSize))
           IN /\ seen' = IF pageSetting.backward THEN AsRead(edges) \o seen
                         ELSE seen \o AsRead(edges)
              /\ walk' = [walk EXCEPT !.page = @ + 1,
                             !.cursor = IF edges = <<>> THEN <<>>
                                        ELSE KeyOf(IF pageSetting.backward THEN Head(edges)
                                                   ELSE Last(edges)),
                             !.at = IF Len(answer) > PageSize THEN "ready" ELSE "done"]
    /\ UNCHANGED <<pageSetting, rows, touched, nulls, rowChanges>>

\* Someone inserts, updates or deletes a row.
ChangeRow(i) ==
    /\ walk.at # "done" /\ rowChanges < MaxRowChanges
    /\ \E v \in (SortValues \cup {NoRow, SqlNull}) \ {rows[i]} :
           /\ rows' = [rows EXCEPT ![i] = v]
           /\ nulls' = (nulls \/ v = SqlNull)
    /\ touched' = touched \cup {i}
    /\ rowChanges' = rowChanges + 1
    /\ UNCHANGED <<pageSetting, walk, seen>>

PagesNext == CountRows \/ OffsetPage \/ KeysetPage \/ RelayPage \/ \E i \in RowIds : ChangeRow(i)

PagesTypeOK ==
    /\ pageSetting \in PageSettings
    /\ rows \in [RowIds -> SortValues \cup {NoRow, SqlNull}]
    /\ walk.at \in {"ready", "counted", "done"} /\ walk.page \in 0..MaxPages
    /\ seen \in Seq((SortValues \cup {SqlNull}) \X RowIds)
    /\ touched \subseteq RowIds /\ nulls \in BOOLEAN /\ rowChanges \in 0..MaxRowChanges

Times(i) == Cardinality({k \in DOMAIN seen : seen[k][2] = i})
ComparesNull == nulls /\ \E k \in DOMAIN pageSetting.sort : pageSetting.sort[k].column # "id"

\* Whatever others insert, move and delete meanwhile, a walk by cursors gives every
\* row that stays as it is exactly once; one by offsets does if nothing changes,
\* the order is total and the size is not above the strategy's maximum.
EachRowOnce ==
    \A i \in RowIds \ touched :
        IF pageSetting.strategy = "offset"
        THEN (touched = {} /\ SortsById /\ pageSetting.size <= pageSetting.maxSize)
             => /\ Times(i) <= 1
                /\ walk.at = "done" /\ rows[i] # NoRow => Times(i) = 1
        ELSE ~ComparesNull => /\ Times(i) <= 1
                              /\ walk.at = "done" /\ rows[i] # NoRow => Times(i) = 1

\* With NULLs in the column an ascending walk of the relay strategy still gives every
\* row that has a value, and gives no row that stays as it is twice.
ValuesBeforeNulls ==
    pageSetting.strategy = "relay" /\ OrderBy[1].column # "id" /\ OrderBy[1].ascending =>
        \A i \in RowIds \ touched :
            /\ Times(i) <= 1
            /\ walk.at = "done" /\ rows[i] \notin {NoRow, SqlNull} => Times(i) = 1

\* The pages of a walk by cursors continue each other: put together they are in the
\* order asked for, forward or backward, with each row as it was when it was read, so
\* that a row comes twice only if it was moved ahead of the cursor.
PagesContinue ==
    pageSetting.strategy # "offset" /\ ~ComparesNull =>
        \A j, k \in DOMAIN seen : j < k =>
            LET a == Key(seen[j][1], seen[j][2])
                b == Key(seen[k][1], seen[k][2])
            IN IF pageSetting.backward THEN SortedBefore(b, a) ELSE SortedBefore(a, b)

\* What a client that pages through a result may rely on: each row once, all values before
\* the NULLs, and a next page where there are more rows.
PagesHold == PagesTypeOK /\ EachRowOnce /\ ValuesBeforeNulls /\ PagesContinue
=============================================================================
