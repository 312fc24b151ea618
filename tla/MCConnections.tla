---------------------------- MODULE MCConnections ----------------------------
(***************************************************************************)
(* Connections, and the checks of their health, for TLC.  One module moves *)
(* at a time: `part` says which, the others stay in one initial state.     *)
(***************************************************************************)
EXTENDS Connections, HealthChecks

CONSTANTS s1, s2

VARIABLE part

MCSessions == {s1, s2}

\* The defaults with a pre-ping, where a session may wait for the one client;
\* neither check, on a standby; and no reset.
MCSettings ==
    {[max |-> 1, validate |-> TRUE, prePing |-> TRUE, reset |-> TRUE, isolation |-> FALSE],
     [max |-> 2, validate |-> FALSE, prePing |-> FALSE, reset |-> TRUE, isolation |-> TRUE],
     [max |-> 2, validate |-> TRUE, prePing |-> TRUE, reset |-> FALSE, isolation |-> TRUE]}

\* A registry with an interval; composites over connections with a flag and without;
\* a replica; and a warm-up before the schemas are looked for.
Composite(m, f) == [members |-> m, composite |-> TRUE, limited |-> FALSE, flagged |-> f, existing |-> {"a"}]
MCHealth ==
    {[Composite(<<"db">>, TRUE) EXCEPT !.composite = FALSE, !.limited = TRUE]}
    \cup {Composite(m, TRUE) : m \in {<<"pool", "db">>, <<"lag">>, <<"warm", "schemas">>}}
    \cup {Composite(<<"db", "pool">>, FALSE)}

mcVars == <<part, vars, healthVars>>

\* Where a module that does not move stays.
Connections0 == Init /\ setting = CHOOSE x \in MCSettings : TRUE
HealthChecks0 == HealthStart(Composite(<<"lag">>, TRUE))

MCInit ==
    \/ part = "connections" /\ Init /\ HealthChecks0
    \/ part = "health" /\ Connections0 /\ HealthInit

MCNext ==
    /\ UNCHANGED part
    /\ \/ /\ part = "connections" /\ Next
          /\ UNCHANGED <<healthVars>>
       \/ /\ part = "health" /\ HealthNext
          /\ UNCHANGED <<vars>>

\* As in Connections; and a check goes on by itself, by its timer at the latest.
MCFairness ==
    /\ \A s \in Sessions : /\ WF_vars(part = "connections" /\ Progress(s))
                          /\ SF_vars(part = "connections" /\ Close(s))
                          /\ SF_vars(part = "connections" /\ Grant(s))
    /\ WF_vars(part = "connections" /\ EvictIdle) /\ WF_vars(part = "connections" /\ CloseInner)
    /\ \A k \in Checkers : WF_healthVars(part = "health" /\ Checks(k))

MCSpec == MCInit /\ [][MCNext]_mcVars /\ MCFairness

\* Who waits for a connection or for a check is answered.
WaitersAnswered == GetConnectionReturns /\ ChecksEnd

\* Connections are where they belong, as their types say, those of a check too.
ConnectionsInPlace == TypeOK /\ OnePlace /\ HealthHolds
=============================================================================
