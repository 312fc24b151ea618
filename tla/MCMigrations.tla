---------------------------- MODULE MCMigrations ----------------------------
(***************************************************************************)
(* Migrations, and what else an application runs beside its queries, for   *)
(* TLC.  One module moves at a time: `part` says which.                    *)
(***************************************************************************)
EXTENDS Migrations, Notifications, SchemaDiffs

CONSTANTS s1, s2, d1, d2

VARIABLE part

MCSchemas == {s1, s2}

MCDeployers == {d1, d2}

\* Two deployments race over PostgreSQL, one of them with an edited migration;
\* PostgreSQL with rollbacks; and MySQL.
MCSettings ==
    {[transactional |-> TRUE, rollbacks |-> FALSE, concurrency |-> 2, carriesOn |-> FALSE,
      edited |-> {2}, editors |-> {d2}],
     [transactional |-> TRUE, rollbacks |-> TRUE, concurrency |-> 1, carriesOn |-> TRUE,
      edited |-> {}, editors |-> {}],
     [transactional |-> FALSE, rollbacks |-> FALSE, concurrency |-> 1, carriesOn |-> FALSE,
      edited |-> {}, editors |-> {}]}

MCColumn(type, to) == [type |-> type, to |-> to]

\* Accounts and orders as they were before, beside other tables.
MCStood(others) ==
    [t \in {"accounts", "orders"} \cup DOMAIN others |->
        CASE t = "accounts" -> [key |-> MCColumn("integer", "none"), note |-> MCColumn("integer", "none")]
          [] t = "orders" -> [key |-> MCColumn("integer", "none"), kind |-> MCColumn("integer", "none"),
                              account |-> MCColumn("integer", "accounts")]
          [] OTHER -> others[t]]

Same(type) == [ddl |-> type, diff |-> type]

\* Of a new entity, of one that stood with other types, columns and a join table, and of
\* two that reference each other's tables in either order.
MCDesigns ==
    {[entities |-> e, byName |-> <<"accounts", "labels", "links", "orders">>,
      fields |-> [accounts |-> [key |-> Same("int4"), since |-> Same("TIMESTAMP")],
                  orders |-> [key |-> Same("INTEGER"), sum |-> [ddl |-> "INTEGER", diff |-> "TEXT"], kind |-> Same(k)]],
      refers |-> [accounts |-> <<>>, orders |-> [account |-> "accounts"]],
      stood |-> o] :
        e \in {<<"accounts", "orders">>, <<"orders", "accounts">>},
        k \in {"TEXT", "INTEGER"},
        o \in {<<>>, MCStood(<<>>), MCStood([labels |-> [key |-> MCColumn("integer", "none")],
                                          links |-> [label |-> MCColumn("integer", "labels")]]),
               MCStood([links |-> [account |-> MCColumn("integer", "accounts")]])}}

mcVars == <<part, vars, notificationVars, diffVars>>

\* Where a module that does not move stays.
Migrations0 == Init /\ setting = CHOOSE x \in MCSettings : TRUE
Notifications0 == NotificationsStart("poll")

Diffs0 == SchemaDiffsStart(CHOOSE x \in MCDesigns : TRUE)

MCInit ==
    \/ part = "migrations" /\ Init /\ Notifications0 /\ Diffs0
    \/ part = "notifications" /\ Migrations0 /\ NotificationsInit /\ Diffs0
    \/ part = "diffs" /\ Migrations0 /\ Notifications0 /\ SchemaDiffsInit

MCNext ==
    /\ UNCHANGED part
    /\ \/ /\ part = "migrations" /\ Next
          /\ UNCHANGED <<notificationVars, diffVars>>
       \/ /\ part = "notifications" /\ NotificationsNext
          /\ UNCHANGED <<vars, diffVars>>
       \/ /\ part = "diffs" /\ SchemaDiffsNext
          /\ UNCHANGED <<vars, notificationVars>>

\* As in Migrations; an awaited answer of the database comes, and a generator that
\* is asked goes on.
MCFairness ==
    /\ \A d \in Deployers :
           /\ WF_vars(part = "migrations" /\ (StartChunk(d) \/ Settle(d) \/ Return(d)))
           /\ \A s \in Schemas : WF_vars(part = "migrations" /\ Runner(d, s))
    /\ WF_notificationVars(part = "notifications" /\ SourceWork)

MCSpec == MCInit /\ [][MCNext]_mcVars /\ MCFairness

\* What a runner reports about its tenants, and a diff about its database, is so.
ReportsHold == ReportsAreTrue /\ (part = "diffs" => DiffsHold)
=============================================================================
