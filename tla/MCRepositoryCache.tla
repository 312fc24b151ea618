------------------------- MODULE MCRepositoryCache -------------------------
(***************************************************************************)
(* RepositoryCache, and what a repository is made of, for TLC: cascades,   *)
(* the query builders, derived finders, bulk writes and filters.  One      *)
(* module moves at a time: `part` says which, the others stay in one       *)
(* initial state.                                                          *)
(***************************************************************************)
EXTENDS RepositoryCache, Cascades, QueryBuilding, DerivedQueries, BulkWrites, Filters, TLC

CONSTANTS root, near, far  \* entities of a graph

VARIABLE part

Plain == [maxCalls |-> 1, cascades |-> FALSE, external |-> FALSE,
          throws |-> FALSE, expiry |-> TRUE, lists |-> TRUE]

\* Two callers at once with transactions, of single entities; calls one at a time, with them, without,
\* with another process, and with throwing callbacks.
ManySettings == {[Plain EXCEPT !.maxCalls = 2, !.cascades = TRUE, !.expiry = FALSE, !.lists = FALSE],
                 Plain,
                 [Plain EXCEPT !.cascades = TRUE],
                 [Plain EXCEPT !.external = TRUE],
                 [Plain EXCEPT !.throws = TRUE]}

OtherProcess == {[Plain EXCEPT !.external = TRUE]}

\* Graphs of three entities: owning relations of every shape (cycles too), and
\* the collections of root and near.
MCRefs == [Entities -> Entities \cup {Nothing}]
Collections(ofRoot, ofNear) ==
    {[x \in Entities |-> IF x = root THEN s ELSE IF x = near THEN t ELSE <<>>] : s \in ofRoot, t \in ofNear}
MCKids == Collections({<<>>, <<near, far>>}, {<<>>, <<far>>})
NoPeers == [x \in Entities |-> <<>>]
MCPeers == {NoPeers, [NoPeers EXCEPT ![root] = <<near>>], [NoPeers EXCEPT ![root] = <<far, near>>, ![far] = <<near>>]}
WholeGraph == [save |-> {"persist", "merge"}, remove |-> TRUE, versioned |-> FALSE, stored |-> {},
               linked |-> FALSE, stale |-> {}, clean |-> FALSE, aborts |-> FALSE]
StoredBefore == [WholeGraph EXCEPT !.stored = Entities, !.linked = TRUE]
MCCascadeSettings ==
    {WholeGraph, [WholeGraph EXCEPT !.aborts = TRUE],
     [WholeGraph EXCEPT !.stored = {root, near}],
     [WholeGraph EXCEPT !.stored = {root, near}, !.linked = TRUE, !.clean = TRUE, !.aborts = TRUE],
     StoredBefore, [StoredBefore EXCEPT !.clean = TRUE, !.aborts = TRUE],
     [WholeGraph EXCEPT !.versioned = TRUE, !.stored = {root}],
     [WholeGraph EXCEPT !.versioned = TRUE, !.stored = {root, near}, !.stale = {root, near}, !.clean = TRUE],
     [WholeGraph EXCEPT !.save = {"persist"}, !.remove = FALSE, !.versioned = TRUE, !.stored = {near}],
     [StoredBefore EXCEPT !.save = {}, !.clean = TRUE]}

\* Finders: every operator alone and in pairs, and of three properties where one
\* begins with a digit; "City", "Zip Code" and "Age" are the properties.
Prop(n, o) == [name |-> n, op |-> o]
ByDescending == <<[name |-> <<"Age">>, dir |-> "Desc"], [name |-> <<"Zip", "Code">>, dir |-> "Asc"]>>
MCProps ==
    [1..1 -> {Prop(<<"Zip", "Code">>, o) : o \in DOMAIN Operators}]
        \cup {<<Prop(<<"Zip", "Code">>, o), Prop(<<"Age">>, q)>> : o, q \in DOMAIN Operators}
        \cup {<<Prop(<<"Line1">>, o), Prop(<<"Age">>, q), Prop(<<"City">>, t)>> :
                  o, q, t \in {"In", "Equals", "SimilarTo", "Between"}}
MCFinders == {[props |-> p, connector |-> IF Len(p) = 1 THEN "And" ELSE c, order |-> o] :
                  p \in MCProps, c \in {"And", "Or"}, o \in {<<>>, ByDescending}}

\* Rows of two tenants, and filters that are on and off by default.
MCRowTenant == [r \in {1, 2, 3} |-> IF r = 3 THEN "b" ELSE "a"]
MCHides == [f |-> {1}, g |-> {2}]
WithOptions(all, off, on) == [all |-> all, off |-> off, on |-> on]
MCOptions == {WithOptions(FALSE, {}, {}), WithOptions(TRUE, {}, {}), WithOptions(FALSE, {}, {"g"}),
              WithOptions(FALSE, {"f"}, {"f", "g"})}
MCFilters == {[declared |-> <<"f", "g">>, defaults |-> [f |-> TRUE, g |-> FALSE], tenanted |-> t,
               filterCalls |-> 3] : t \in BOOLEAN}

NoGraph == [x \in Entities |-> <<>>]

mcVars == <<part, vars, cascadeVars, buildingVars, finderVars, bulkVars, filterVars>>

\* Where a module that does not move stays.
Repository0 == Init /\ setting = CHOOSE s \in Settings : TRUE
Cascades0 == CascadesStart([x \in Entities |-> Nothing], NoGraph, NoGraph, WholeGraph, "save")
Building0 == BuildingStart("select")
Finders0 == FindersStart([props |-> <<Prop(<<"Age">>, "Equals")>>, connector |-> "And", order |-> <<>>])
BulkWrites0 == BulkInit
Filters0 == FiltersStart([declared |-> <<>>, defaults |-> <<>>, tenanted |-> FALSE, filterCalls |-> 0])

MCInit ==
    \/ part = "repository" /\ Init /\ Cascades0 /\ Building0 /\ Finders0 /\ BulkWrites0 /\ Filters0
    \/ part = "cascades" /\ Repository0 /\ CascadesInit /\ Building0 /\ Finders0 /\ BulkWrites0 /\ Filters0
    \/ part = "builders" /\ Repository0 /\ Cascades0 /\ BuildingInit /\ Finders0 /\ BulkWrites0 /\ Filters0
    \/ part = "finders" /\ Repository0 /\ Cascades0 /\ Building0 /\ FindersInit /\ BulkWrites0 /\ Filters0
    \/ part = "bulk" /\ Cascades0 /\ Building0 /\ Finders0 /\ Repository0 /\ BulkInit /\ Filters0
    \/ part = "filters" /\ Cascades0 /\ Building0 /\ Finders0 /\ BulkWrites0 /\ Repository0 /\ FiltersInit

MCNext ==
    /\ UNCHANGED part
    /\ \/ /\ part = "repository" /\ Next
          /\ UNCHANGED <<cascadeVars, buildingVars, finderVars, bulkVars, filterVars>>
       \/ /\ part = "cascades" /\ CascadesNext
          /\ UNCHANGED <<vars, buildingVars, finderVars, bulkVars, filterVars>>
       \/ /\ part = "builders" /\ BuildingNext
          /\ UNCHANGED <<vars, cascadeVars, finderVars, bulkVars, filterVars>>
       \/ /\ part = "finders" /\ FindersNext
          /\ UNCHANGED <<vars, cascadeVars, buildingVars, bulkVars, filterVars>>
       \/ /\ part = "bulk" /\ BulkNext
          /\ UNCHANGED <<vars, cascadeVars, buildingVars, finderVars, filterVars>>
       \/ /\ part = "filters" /\ FiltersNext
          /\ UNCHANGED <<vars, cascadeVars, buildingVars, finderVars, bulkVars>>
       \/ part # "repository" /\ UNCHANGED mcVars  \* their callers may be done

MCSpec == MCInit /\ [][MCNext]_mcVars

\* Callers are interchangeable.
Symmetry == Permutations(Sessions)

\* A save or delete stores the graph, or the list, that it was given.
WritesAreWhole ==
    /\ part = "cascades" => CascadesHold
    /\ part = "bulk" => BulkHolds

\* What is sent to the database, and what it answers, is what the caller asked for.
QueriesMeanWhatIsAsked ==
    /\ part = "builders" => BuiltQueriesBindTheirValues
    /\ part = "finders" => FindersMeanTheirName
    /\ part = "filters" => FiltersHold
=============================================================================
