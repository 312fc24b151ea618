---------------------------- MODULE MCEventStore ----------------------------
(***************************************************************************)
(* EventStore, and what the adapters below it do with transactions,        *)
(* statements and cursors, with trees, buses, commands and endpoints, for  *)
(* TLC.  One module moves at a time: `part` says which, the others stay in *)
(* one initial state.                                                      *)
(***************************************************************************)
EXTENDS EventStore, DriverTransactions, Statements, Trees, Buses, Endpoints, TLC

VARIABLE part

\* $1; $1 $2; $2 $1; $1 twice; and $2 within a literal.
Bare(n) == [n |-> n, quoted |-> FALSE]
MCTexts == {<<Bare(1)>>, <<Bare(1), Bare(2)>>, <<Bare(2), Bare(1)>>, <<Bare(1), Bare(1)>>,
            <<Bare(1), [n |-> 2, quoted |-> TRUE]>>}
MCNamedTexts == {<<"a", "b">>, <<"a", "b", "a">>}

\* REST over a soft-deleted entity, updated and listed, or deleted and restored; and
\* GraphQL over rows that are really deleted.
MCEndpoints ==
    {[api |-> "rest", soft |-> TRUE, verbs |-> {"get", "put", "delete", "deleted"}],
     [api |-> "rest", soft |-> TRUE, verbs |-> {"get", "delete", "deleted", "restore"}],
     [api |-> "graphql", soft |-> FALSE, verbs |-> {"get", "delete"}]}

mcVars == <<part, vars, transactionVars, statementVars, cursorVars, treeVars, busVars, commandVars, endpointVars>>

\* Where a module that does not move stays.
EventStore0 == Init /\ \A s \in Sessions : instance[s].aggregate = CHOOSE a \in Aggregates : TRUE
Transactions0 == TransactionsStart("d1")
Statements0 == StatementsStart("d1")
Cursors0 == CursorsStart("sqlite", 0) /\ cursorSize = 1
Trees0 == TreeStart("path", [n \in Nodes |-> NoNode], {})
Buses0 == BusesStart("events")
Commands0 == CommandsStart
Endpoints0 == EndpointsStart(CHOOSE e \in MCEndpoints : ~e.soft)

MCInit ==
    \/ part = "event store" /\ Init /\ Transactions0 /\ Statements0 /\ Cursors0 /\ Trees0 /\ Buses0 /\ Commands0 /\ Endpoints0
    \/ part = "transactions" /\ EventStore0 /\ TransactionsInit /\ Statements0 /\ Cursors0 /\ Trees0 /\ Buses0 /\ Commands0 /\ Endpoints0
    \/ part = "statements" /\ EventStore0 /\ Transactions0 /\ StatementsInit /\ Cursors0 /\ Trees0 /\ Buses0 /\ Commands0 /\ Endpoints0
    \/ part = "cursors" /\ EventStore0 /\ Transactions0 /\ Statements0 /\ CursorsInit /\ Trees0 /\ Buses0 /\ Commands0 /\ Endpoints0
    \/ part = "trees" /\ EventStore0 /\ Transactions0 /\ Statements0 /\ Cursors0 /\ TreesInit /\ Buses0 /\ Commands0 /\ Endpoints0
    \/ part = "buses" /\ Transactions0 /\ Statements0 /\ Cursors0 /\ Trees0 /\ EventStore0 /\ BusesInit /\ Commands0 /\ Endpoints0
    \/ part = "commands" /\ Transactions0 /\ Statements0 /\ Cursors0 /\ Trees0 /\ Buses0 /\ EventStore0 /\ CommandsStart /\ Endpoints0
    \/ part = "endpoints" /\ Transactions0 /\ Statements0 /\ Cursors0 /\ Trees0 /\ Buses0 /\ Commands0 /\ EventStore0 /\ EndpointsInit

MCNext ==
    /\ UNCHANGED part
    /\ \/ /\ part = "event store" /\ Next
          /\ UNCHANGED <<transactionVars, statementVars, cursorVars, treeVars, busVars, commandVars, endpointVars>>
       \/ /\ part = "transactions" /\ TransactionsNext
          /\ UNCHANGED <<vars, statementVars, cursorVars, treeVars, busVars, commandVars, endpointVars>>
       \/ /\ part = "statements" /\ StatementsNext
          /\ UNCHANGED <<vars, transactionVars, cursorVars, treeVars, busVars, commandVars, endpointVars>>
       \/ /\ part = "cursors" /\ CursorsNext
          /\ UNCHANGED <<vars, transactionVars, statementVars, treeVars, busVars, commandVars, endpointVars>>
       \/ /\ part = "trees" /\ TreesNext
          /\ UNCHANGED <<vars, transactionVars, statementVars, cursorVars, busVars, commandVars, endpointVars>>
       \/ /\ part = "buses" /\ BusesNext
          /\ UNCHANGED <<vars, transactionVars, statementVars, cursorVars, treeVars, commandVars, endpointVars>>
       \/ /\ part = "commands" /\ CommandsNext
          /\ UNCHANGED <<vars, transactionVars, statementVars, cursorVars, treeVars, busVars, endpointVars>>
       \/ /\ part = "endpoints" /\ EndpointsNext
          /\ UNCHANGED <<vars, transactionVars, statementVars, cursorVars, treeVars, busVars, commandVars>>
       \/ part # "event store" /\ UNCHANGED mcVars  \* their callers may be done

MCSpec == MCInit /\ [][MCNext]_mcVars

\* Sessions and aggregates are interchangeable.
Symmetry == Permutations(Sessions) \cup Permutations(Aggregates)

\* Events and commands reach the handlers they are meant for.
MessagesHold == BusesHold /\ CommandsHold
=============================================================================
