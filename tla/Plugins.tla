------------------------------ MODULE Plugins ------------------------------
(***************************************************************************)
(* PluginManager and composeMiddleware: plugins are initialised after what *)
(* they depend on and destroyed before it, and each brings a hook and a    *)
(* middleware.  Calls are cut at their awaits, and nothing in the code     *)
(* keeps one from beginning while another is under way.                    *)
(***************************************************************************)
EXTENDS Naturals, Sequences, FiniteSets, SequencesExt, Dependencies

CONSTANTS PluginKinds,    \* records: names (in the order of registration), deps, and
                          \* pluginCalls, bound: calls of the manager
          PluginCallers,  \* numbers
          MaxPluginFaults \* bound: plugins that throw

ASSUME PluginsAssumption ==
    /\ \A p \in PluginKinds : /\ \A i \in DOMAIN p.names : p.deps[p.names[i]] \in Seq(STRING)
                              /\ p.pluginCalls \in Nat
    /\ PluginCallers \subseteq Nat /\ MaxPluginFaults \in Nat

VARIABLES installed,
          plugins,     \* names, in the order of the Map
          initialized,
          contexts,    \* pluginHooks: <<name, call that made the entry, hooked>> in order
          hooks,       \* the merged list of hooks, by plugin
          middlewares, \* the array of middlewares, by plugin
          alive,       \* alive[n]: init() of n less destroy()
          manager,     \* manager[k]: the call of k
          overlapped,  \* history: calls overlapped, or an init failed, or a plugin was
                       \* removed that others depend on
          lingering,   \* history: plugins that a destroy() or removePlugin() has ended, or
                       \* tried to end, before it threw
          late,        \* history: hooks and middlewares changed under a call that runs them
          pluginCalls, pluginFaults

pluginVars == <<installed, plugins, initialized, contexts, hooks, middlewares, alive, manager,
                overlapped, lingering, late, pluginCalls, pluginFaults>>

NoManagerCall == [op |-> "none", todo |-> <<>>, at |-> "none", done |-> <<>>]

PluginsStart(p) ==
    /\ installed = p
    /\ plugins = p.names /\ initialized = FALSE
    /\ contexts = <<>> /\ hooks = <<>> /\ middlewares = <<>>
    /\ alive = [n \in ToSet(p.names) |-> 0]
    /\ manager = [k \in PluginCallers |-> NoManagerCall]
    /\ overlapped = FALSE /\ lingering = {} /\ late = FALSE
    /\ pluginCalls = 0 /\ pluginFaults = 0

PluginsInit == \E p \in PluginKinds : PluginsStart(p)

Changing(k) == manager[k].op \in {"init", "destroy", "remove"}
Order == DependencyOrder(plugins, installed.deps)

ManagerCalls(k, op, todo) ==
    /\ manager[k].op = "none" /\ pluginCalls < installed.pluginCalls
    /\ \A j \in PluginCallers : manager[j].op = "none" => k <= j
    /\ pluginCalls' = pluginCalls + 1
    /\ manager' = [manager EXCEPT ![k] = [op |-> op, todo |-> todo, at |-> "next", done |-> <<>>]]

\* init() where it does not throw at once.
InitPlugins(k) ==
    /\ ~initialized /\ Order.ok
    /\ ManagerCalls(k, "init", Order.ordered)
    /\ overlapped' = (overlapped \/ \E j \in PluginCallers : Changing(j))
    /\ UNCHANGED <<installed, lingering, plugins, initialized, contexts, hooks, middlewares, alive, late,
                   pluginFaults>>

\* createContext: Map.set keeps the place of a name that is there.
CreateContext(k) ==
    LET n == Head(manager[k].todo)
        entry == <<n, k, FALSE>>
    IN /\ manager[k].op = "init" /\ manager[k].at = "next" /\ manager[k].todo # <<>>
       /\ contexts' = IF \E i \in DOMAIN contexts : contexts[i][1] = n
                      THEN [i \in DOMAIN contexts |-> IF contexts[i][1] = n THEN entry ELSE contexts[i]]
                      ELSE Append(contexts, entry)
       /\ manager' = [manager EXCEPT ![k].at = "awaited"]
       /\ UNCHANGED <<installed, lingering, plugins, initialized, hooks, middlewares, alive, overlapped, late,
                   pluginCalls, pluginFaults>>

\* plugin.init has added its hook to the context it was given.
PluginReady(k) ==
    LET n == Head(manager[k].todo)
    IN /\ manager[k].op = "init" /\ manager[k].at = "awaited"
       /\ alive' = [alive EXCEPT ![n] = @ + 1]
       /\ contexts' = [i \in DOMAIN contexts |->
                          IF contexts[i][1] = n /\ contexts[i][2] = k THEN <<n, k, TRUE>> ELSE contexts[i]]
       /\ manager' = [manager EXCEPT ![k].at = "next", ![k].todo = Tail(@)]
       /\ UNCHANGED <<installed, lingering, plugins, initialized, hooks, middlewares, overlapped, late,
                      pluginCalls, pluginFaults>>

\* It throws, and so does init(): the plugins before it are left as they are.
PluginFails(k) ==
    /\ manager[k].op = "init" /\ manager[k].at = "awaited" /\ pluginFaults < MaxPluginFaults
    /\ pluginFaults' = pluginFaults + 1
    /\ manager' = [manager EXCEPT ![k] = NoManagerCall]
    /\ overlapped' = TRUE
    /\ UNCHANGED <<installed, lingering, plugins, initialized, contexts, hooks, middlewares, alive, late,
                   pluginCalls>>

\* rebuildMergedCollections: both are cleared and filled again, in place.
InFlight(ks) == \E j \in ks : manager[j].op \in {"operate", "hooks"}
Merged(cs) == FoldLeft(LAMBDA s, c : IF c[3] THEN Append(s, c[1]) ELSE s, <<>>, cs)
\* Without the middlewares (for a mutant).
RebuildHooks(cs) ==
    /\ contexts' = cs /\ hooks' = Merged(cs)
    /\ UNCHANGED <<middlewares, late>>

Rebuild(cs) ==
    /\ contexts' = cs /\ hooks' = Merged(cs) /\ middlewares' = Merged(cs)
    /\ late' = (late \/ (InFlight(PluginCallers) /\ Merged(cs) # middlewares))

PluginsReady(k) ==
    /\ manager[k].op = "init" /\ manager[k].at = "next" /\ manager[k].todo = <<>>
    /\ Rebuild(contexts) /\ initialized' = TRUE
    /\ manager' = [manager EXCEPT ![k] = NoManagerCall]
    /\ UNCHANGED <<installed, lingering, plugins, alive, overlapped, pluginCalls, pluginFaults>>

\* destroy() where the order can be found; else it throws and destroys nothing.
DestroyPlugins(k) ==
    /\ initialized /\ Order.ok
    /\ ManagerCalls(k, "destroy", Reverse(Order.ordered))
    /\ overlapped' = (overlapped \/ \E j \in PluginCallers : Changing(j))
    /\ UNCHANGED <<installed, lingering, plugins, initialized, contexts, hooks, middlewares, alive, late,
                   pluginFaults>>

Ended(n) == [alive EXCEPT ![n] = IF @ > 0 THEN @ - 1 ELSE 0]

DestroyNext(k) ==
    /\ manager[k].op = "destroy" /\ manager[k].todo # <<>>
    /\ alive' = Ended(Head(manager[k].todo))
    /\ manager' = [manager EXCEPT ![k].todo = Tail(@), ![k].done = Append(@, Head(manager[k].todo))]
    /\ UNCHANGED <<installed, lingering, plugins, initialized, contexts, hooks, middlewares, overlapped, late,
                   pluginCalls, pluginFaults>>

\* A plugin's destroy() throws, having ended it or not, and so does the manager's: it
\* stays initialised, and what was destroyed before stays registered and merged.
DestroyFails(k) ==
    /\ manager[k].op = "destroy" /\ manager[k].todo # <<>> /\ pluginFaults < MaxPluginFaults
    /\ pluginFaults' = pluginFaults + 1
    /\ alive' \in {alive, Ended(Head(manager[k].todo))}
    /\ lingering' = lingering \cup ToSet(manager[k].done) \cup {Head(manager[k].todo)}
    /\ manager' = [manager EXCEPT ![k] = NoManagerCall]
    /\ UNCHANGED <<installed, plugins, initialized, contexts, hooks, middlewares, overlapped, late,
                   pluginCalls>>

PluginsDestroyed(k) ==
    /\ manager[k].op = "destroy" /\ manager[k].todo = <<>>
    /\ Rebuild(<<>>) /\ plugins' = <<>> /\ initialized' = FALSE
    /\ lingering' = {}
    /\ manager' = [manager EXCEPT ![k] = NoManagerCall]
    /\ UNCHANGED <<installed, alive, overlapped, pluginCalls, pluginFaults>>

\* A plugin is registered, again perhaps; during an init too, which is not over.
RegisterPlugin(n) ==
    /\ ~initialized /\ n \notin ToSet(plugins) /\ pluginCalls < installed.pluginCalls
    /\ pluginCalls' = pluginCalls + 1
    /\ plugins' = Append(plugins, n)
    /\ overlapped' = (overlapped \/ \E j \in PluginCallers : Changing(j))
    /\ UNCHANGED <<installed, lingering, initialized, contexts, hooks, middlewares, alive, manager, late,
                   pluginFaults>>

\* removePlugin: nobody asks who depends on it.
RemovePlugin(k, n) ==
    /\ n \in ToSet(plugins)
    /\ ManagerCalls(k, "remove", <<n>>)
    /\ overlapped' = \/ overlapped \/ \E j \in PluginCallers : Changing(j)
                     \/ \E m \in ToSet(plugins) : n \in ToSet(installed.deps[m])
    /\ UNCHANGED <<installed, lingering, plugins, initialized, contexts, hooks, middlewares, alive, late,
                   pluginFaults>>

PluginRemoved(k) ==
    LET n == Head(manager[k].todo)
    IN /\ manager[k].op = "remove"
       /\ alive' = Ended(n)
       /\ lingering' = lingering \ {n}
       /\ plugins' = SelectSeq(plugins, LAMBDA m : m # n)
       /\ Rebuild(SelectSeq(contexts, LAMBDA c : c[1] # n))
       /\ manager' = [manager EXCEPT ![k] = NoManagerCall]
       /\ UNCHANGED <<installed, initialized, overlapped, pluginCalls, pluginFaults>>

\* Its destroy() throws, having ended it or not: it stays registered and merged.
RemoveFails(k) ==
    LET n == Head(manager[k].todo)
    IN /\ manager[k].op = "remove" /\ pluginFaults < MaxPluginFaults
       /\ pluginFaults' = pluginFaults + 1
       /\ alive' \in {alive, Ended(n)}
       /\ lingering' = lingering \cup {n}
       /\ manager' = [manager EXCEPT ![k] = NoManagerCall]
       /\ UNCHANGED <<installed, plugins, initialized, contexts, hooks, middlewares, overlapped, late,
                      pluginCalls>>

\* executeHooks goes through the list that there is when it is called.
ExecuteHooks(k) ==
    /\ hooks # <<>> /\ ManagerCalls(k, "hooks", hooks)
    /\ UNCHANGED <<installed, lingering, plugins, initialized, contexts, hooks, middlewares, alive, overlapped,
                   late, pluginFaults>>

Hook(k) ==
    /\ manager[k].op = "hooks"
    /\ manager' = [manager EXCEPT ![k] = IF Len(@.todo) = 1 THEN NoManagerCall
                                         ELSE [@ EXCEPT !.todo = Tail(@)]]
    /\ late' = (late /\ (Len(manager[k].todo) > 1 \/ InFlight(PluginCallers \ {k})))
    /\ UNCHANGED <<installed, lingering, plugins, initialized, contexts, hooks, middlewares, alive, overlapped,
                   pluginCalls, pluginFaults>>

\* composeMiddleware over getMiddlewares(), which is the array itself: dispatch(i) looks
\* at it again after every await.
Operate(k) ==
    /\ initialized /\ ManagerCalls(k, "operate", middlewares)
    /\ UNCHANGED <<installed, lingering, plugins, initialized, contexts, hooks, middlewares, alive, overlapped,
                   late, pluginFaults>>

Dispatch(k) ==
    LET i == Len(manager[k].done) + 1
    IN /\ manager[k].op = "operate" /\ manager[k].at = "next"
       /\ manager' = [manager EXCEPT ![k] =
                         IF i <= Len(middlewares) THEN [@ EXCEPT !.done = Append(@, middlewares[i])]
                         ELSE [@ EXCEPT !.at = "operated"]]
       /\ UNCHANGED <<installed, lingering, plugins, initialized, contexts, hooks, middlewares, alive, overlapped,
                      late, pluginCalls, pluginFaults>>

Operated(k) ==
    /\ manager[k].op = "operate" /\ manager[k].at = "operated"
    /\ manager' = [manager EXCEPT ![k] = NoManagerCall]
    /\ late' = (late /\ InFlight(PluginCallers \ {k}))
    /\ UNCHANGED <<installed, lingering, plugins, initialized, contexts, hooks, middlewares, alive, overlapped,
                   pluginCalls, pluginFaults>>

PluginsNext ==
    \/ \E k \in PluginCallers :
           \/ InitPlugins(k) \/ CreateContext(k) \/ PluginReady(k) \/ PluginFails(k) \/ PluginsReady(k)
           \/ DestroyPlugins(k) \/ DestroyNext(k) \/ DestroyFails(k) \/ PluginsDestroyed(k)
           \/ PluginRemoved(k) \/ RemoveFails(k)
           \/ ExecuteHooks(k) \/ Hook(k) \/ Operate(k) \/ Dispatch(k) \/ Operated(k)
           \/ \E n \in ToSet(installed.names) : RemovePlugin(k, n)
    \/ \E n \in ToSet(installed.names) : RegisterPlugin(n)

-----------------------------------------------------------------------------
(* Properties *)

PluginsTypeOK ==
    /\ installed \in PluginKinds
    /\ ToSet(plugins) \subseteq ToSet(installed.names)
    /\ alive \in [ToSet(installed.names) -> Nat]
    /\ ~initialized => OrderedByDependencies(plugins, installed.deps)

\* While one call changes the plugins at a time, inits succeed and nothing is removed that
\* others need: a plugin is alive once, and only while all it depends on is, also when a
\* destroy() throws half-way and is tried again.
DependenciesAlive ==
    ~overlapped =>
        \A n \in DOMAIN alive : /\ alive[n] <= 1
                                /\ alive[n] = 1 => \A d \in ToSet(installed.deps[n]) : alive[d] = 1

\* Between such calls the hooks and the middlewares are those of the plugins that are
\* alive, each after those it depends on; only what a call has ended that then threw
\* stays among them, until a destroy() or its removal succeeds.
MergedIsAlive ==
    ~overlapped /\ (\A k \in PluginCallers : ~Changing(k)) =>
        /\ hooks = middlewares
        /\ {n \in DOMAIN alive : alive[n] = 1} \subseteq ToSet(hooks)
        /\ \A n \in ToSet(hooks) : alive[n] = 1 \/ n \in lingering
        /\ ToSet(hooks) \subseteq ToSet(plugins) /\ lingering \subseteq ToSet(plugins)
        /\ \A i, j \in DOMAIN hooks : hooks[i] \in ToSet(installed.deps[hooks[j]]) => i < j

\* An operation is reached through every middleware there was when it began, once and in
\* order, whatever is initialised or removed meanwhile, unless the array changes under it.
Intercepted ==
    ~late => \A k \in PluginCallers :
                 manager[k].op = "operate" =>
                     /\ manager[k].done = SubSeq(manager[k].todo, 1, Len(manager[k].done))
                     /\ manager[k].at = "operated" => manager[k].done = manager[k].todo

\* While nothing changes the plugins, a hook that runs is one of a plugin that is alive,
\* or lingers so.
HooksAlive ==
    ~overlapped /\ ~late /\ (\A k \in PluginCallers : ~Changing(k)) =>
        \A k \in PluginCallers : manager[k].op = "hooks" => LET n == Head(manager[k].todo)
                                           IN alive[n] = 1 \/ n \in lingering

\* What a plugin may rely on: its dependencies are alive while it is, what it merged is
\* in place then, and only then unless a destroy() threw, every operation passes through
\* it, and its hooks run only while it is in place.
PluginsHold == PluginsTypeOK /\ DependenciesAlive /\ MergedIsAlive /\ Intercepted /\ HooksAlive
=============================================================================
