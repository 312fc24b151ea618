----------------------- MODULE MCTenantProvisioning -----------------------
(***************************************************************************)
(* TenantProvisioning, the bounded caches of the library, and what else    *)
(* sets an application or its tests up, for TLC.  One module moves at a    *)
(* time: `part` says which, the others stay in one initial state.          *)
(***************************************************************************)
EXTENDS TenantProvisioning, LinkedCaches, Plugins, Testing

VARIABLE part

mcVars == <<part, vars, cacheVars, pluginVars, seedVars, testVars>>

PluginGraph(names, deps, max) == [names |-> names, deps |-> deps, pluginCalls |-> max]

\* What one of three plugins may depend on, an unknown one included.
DependencyLists ==
    {<<>>, <<"A">>, <<"B">>, <<"C">>, <<"A", "B">>, <<"C", "A">>, <<"B", "C">>, <<"C", "B", "A">>, <<"D">>}

\* Two and three plugins that are used, and every graph of three for its order only.
MCPlugins ==
    {PluginGraph(<<"A", "B">>, [A |-> <<"B">>, B |-> <<>>], 4),
     PluginGraph(<<"A", "B", "C">>, [A |-> <<"C">>, B |-> <<"C", "A">>, C |-> <<>>], 3)}
    \cup {PluginGraph(<<"A", "B", "C">>, [A |-> a, B |-> b, C |-> c], 0) :
             a \in DependencyLists, b \in DependencyLists, c \in DependencyLists}

\* The seed that is registered first depends on the other, which may be for one environment.
MCSeeds ==
    {[seeds |-> <<"seed", "base">>, seedDeps |-> [seed |-> <<"base">>, base |-> <<>>],
      only |-> [seed |-> {}, base |-> e], seedCalls |-> 3] : e \in {{}, {"dev"}}}

MCTests == {[bodies |-> 2, testWrites |-> 2, otherWrites |-> 1, cascades |-> c] : c \in BOOLEAN}

\* Where a module that does not move stays.
Tenants0 == Init /\ target = CHOOSE t \in [Admins -> Schemas] : TRUE
Caches0 == CachesStart("entity")
Plugins0 == PluginsStart(PluginGraph(<<>>, <<>>, 0))
Seeding0 == SeedingStart(CHOOSE s \in MCSeeds : TRUE)
Testing0 == TestingStart(CHOOSE t \in MCTests : TRUE)

MCInit ==
    \/ part = "tenants" /\ Init /\ Caches0 /\ Plugins0 /\ Seeding0 /\ Testing0
    \/ part = "caches" /\ Tenants0 /\ CachesInit /\ Plugins0 /\ Seeding0 /\ Testing0
    \/ part = "plugins" /\ Tenants0 /\ Caches0 /\ PluginsInit /\ Seeding0 /\ Testing0
    \/ part = "seeds" /\ Tenants0 /\ Caches0 /\ Plugins0 /\ SeedingInit /\ Testing0
    \/ part = "tests" /\ Tenants0 /\ Caches0 /\ Plugins0 /\ Seeding0 /\ TestingInit

MCNext ==
    /\ UNCHANGED part
    /\ \/ /\ part = "tenants" /\ Next
          /\ UNCHANGED <<cacheVars, pluginVars, seedVars, testVars>>
       \/ /\ part = "caches" /\ CachesNext
          /\ UNCHANGED <<vars, pluginVars, seedVars, testVars>>
       \/ /\ part = "plugins" /\ PluginsNext
          /\ UNCHANGED <<vars, cacheVars, seedVars, testVars>>
       \/ /\ part = "seeds" /\ SeedingNext
          /\ UNCHANGED <<vars, cacheVars, pluginVars, testVars>>
       \/ /\ part = "tests" /\ TestingNext
          /\ UNCHANGED <<vars, cacheVars, pluginVars, seedVars>>

MCFairness ==
    \A a \in Admins : /\ SF_vars(part = "tenants" /\ Lock(a))
                      /\ WF_vars(part = "tenants" /\ Progress(a))

MCSpec == MCInit /\ [][MCNext]_mcVars /\ MCFairness

\* What is provisioned is complete, plugins are alive in the order of their dependencies,
\* seeds ran once, and tests leave nothing behind.
SetUpHolds ==
    /\ part = "tenants" => TypeOK /\ ProvisionedIsComplete
    /\ part = "plugins" => PluginsHold
    /\ part = "seeds" => SeedingHolds
    /\ part = "tests" => TestingHolds
=============================================================================
