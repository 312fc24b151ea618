------------------------------ MODULE Routing ------------------------------
(***************************************************************************)
(* TenantRoutingDataSource over one data source for each tenant, which may *)
(* be a ReadReplicaDataSource.  The tenant and the read-only mode are what *)
(* the caller's context (AsyncLocalStorage) says when getConnection is     *)
(* called; routes are added and removed at runtime; close() awaits each.   *)
(***************************************************************************)
EXTENDS Naturals, Sequences, FiniteSets, SequencesExt

CONSTANTS RoutedSources,   \* records: of (its tenant), replicas (how many; none: it is plain)
                           \* and name, to tell them apart
          RoutingKinds,    \* records: default (a tenant or NoTenant), fallback
          RouteKeys,       \* tenants
          NoTenant,
          RoutedCallers,
          MaxScopes,       \* bound: contexts within one another
          MaxAsks,         \* bound: calls of getConnection
          MaxRouteChanges, \* bound: sources added and removed
          MaxRouteFaults   \* bound: connections refused, closes that fail

ASSUME RoutingAssumption ==
    /\ RoutedSources \subseteq [of : RouteKeys, replicas : Nat, name : STRING]
    /\ RoutingKinds \subseteq [default : RouteKeys \cup {NoTenant}, fallback : BOOLEAN]
    /\ NoTenant \notin RouteKeys /\ IsFiniteSet(RouteKeys)
    /\ \A k \in RouteKeys : \E d \in RoutedSources : d.of = k /\ d.name = "first"
    /\ {MaxScopes, MaxAsks, MaxRouteChanges, MaxRouteFaults} \subseteq Nat

VARIABLES routing,
          routes,     \* the Map: <<key, source>> in the order of insertion
          turn,       \* turn[d]: index of the balancer of d
          scopes,     \* scopes[c]: contexts of c, the innermost last
          awaited,    \* awaited[c]: the connection that c awaits
          isOpen,    \* isOpen[d]: d has not been closed
          sweep,      \* close(): where it is, entries visited, whether some failed
          picks,      \* history: picks[d][i], how often replica i of d was picked
          placed,     \* history: sources that were put into the Map after close began
          asks, changes, routeFaults

routingVars == <<routing, routes, turn, scopes, awaited, isOpen, sweep, picks, placed,
                 asks, changes, routeFaults>>

\* The stores of the two AsyncLocalStorages.
Outside == [tenant |-> NoTenant, readOnly |-> FALSE]
NothingAsked == [at |-> "none", source |-> NoTenant, replica |-> 0, scope |-> Outside]
NoSweep == [at |-> "none", visited |-> 0, failed |-> {}]
FirstSource(k) == CHOOSE d \in RoutedSources : d.of = k /\ d.name = "first"

RoutingStart(k) ==
    /\ routing = k
    /\ routes = [i \in 1..Cardinality(RouteKeys) |->
                    LET key == SetToSeq(RouteKeys)[i] IN <<key, FirstSource(key)>>]
    /\ turn = [d \in RoutedSources |-> 0]
    /\ scopes = [c \in RoutedCallers |-> <<>>]
    /\ awaited = [c \in RoutedCallers |-> NothingAsked]
    /\ isOpen = [d \in RoutedSources |-> TRUE]
    /\ sweep = NoSweep
    /\ picks = [d \in RoutedSources |-> [i \in 1..d.replicas |-> 0]]
    /\ placed = {} /\ asks = 0 /\ changes = 0 /\ routeFaults = 0

RoutingInit == \E k \in RoutingKinds : RoutingStart(k)

Scope(c) == IF scopes[c] = <<>> THEN Outside ELSE Last(scopes[c])
RoutedTo(k) == {routes[i][2] : i \in {j \in DOMAIN routes : routes[j][1] = k}}

-----------------------------------------------------------------------------
(* Callers *)

\* TenantContext.run, runReadOnly and runReadWrite: the other store stays.
EnterScope(c) ==
    /\ Len(scopes[c]) < MaxScopes
    /\ \E s \in {[Scope(c) EXCEPT !.tenant = k] : k \in RouteKeys}
                \cup {[Scope(c) EXCEPT !.readOnly = b] : b \in BOOLEAN} :
           /\ s # Scope(c)
           /\ scopes' = [scopes EXCEPT ![c] = Append(@, s)]
    /\ UNCHANGED <<routing, routes, turn, awaited, isOpen, sweep, picks, placed, asks, changes, routeFaults>>

\* fn is done; a promise of it may not be.
LeaveScope(c) ==
    /\ scopes[c] # <<>>
    /\ scopes' = [scopes EXCEPT ![c] = Front(@)]
    /\ UNCHANGED <<routing, routes, turn, awaited, isOpen, sweep, picks, placed, asks, changes, routeFaults>>

\* The default too, when nothing is there for the key (for a mutant).
RouteOrDefault(s) ==
    LET own == RoutedTo(IF s.tenant = NoTenant THEN routing.default ELSE s.tenant)
    IN IF own = {} THEN RoutedTo(routing.default) ELSE own

\* routeResolver() ?? defaultRoute, and what the Map has for it: that or nothing.
Route(s) == RoutedTo(IF s.tenant = NoTenant THEN routing.default ELSE s.tenant)

\* The next replica in turn, in a read-only scope, or else the primary (0).
GetRoutedConnection(c) ==
    /\ awaited[c].at = "none" /\ asks < MaxAsks
    /\ Route(Scope(c)) # {}  \* else it throws
    /\ \E d \in Route(Scope(c)) :
           LET i == IF Scope(c).readOnly /\ d.replicas > 0 THEN turn[d] + 1 ELSE 0
           IN /\ awaited' = [awaited EXCEPT ![c] =
                    [at |-> "asked", source |-> d, replica |-> i, scope |-> Scope(c)]]
              /\ turn' = IF i = 0 THEN turn ELSE [turn EXCEPT ![d] = (@ + 1) % d.replicas]
              /\ picks' = IF i = 0 THEN picks ELSE [picks EXCEPT ![d][i] = @ + 1]
    /\ asks' = asks + 1
    /\ UNCHANGED <<routing, routes, scopes, isOpen, sweep, placed, changes, routeFaults>>

\* There is the connection; what c does with it is not followed.
Given(c) ==
    /\ awaited[c].at = "asked" /\ isOpen[awaited[c].source]
    /\ awaited' = [awaited EXCEPT ![c] = NothingAsked]
    /\ UNCHANGED <<routing, routes, turn, scopes, isOpen, sweep, picks, placed, asks, changes, routeFaults>>

\* The pool refuses, as a closed one always does: the primary is asked instead, if it
\* was a replica and fallbackToPrimary says so.
SourceRefuses(c) ==
    /\ awaited[c].at = "asked"
    /\ IF isOpen[awaited[c].source]
       THEN routeFaults < MaxRouteFaults /\ routeFaults' = routeFaults + 1
       ELSE UNCHANGED routeFaults
    /\ awaited' = [awaited EXCEPT ![c] =
                       IF @.replica > 0 /\ routing.fallback THEN [@ EXCEPT !.replica = 0, !.at = "again"]
                       ELSE NothingAsked]
    /\ UNCHANGED <<routing, routes, turn, scopes, isOpen, sweep, picks, placed, asks, changes>>

\* The primary gives one, or it refuses too.
FallsBack(c) ==
    /\ awaited[c].at = "again"
    /\ awaited' = [awaited EXCEPT ![c] = NothingAsked]
    /\ UNCHANGED <<routing, routes, turn, scopes, isOpen, sweep, picks, placed, asks, changes, routeFaults>>

-----------------------------------------------------------------------------
(* Routes and close *)

\* addDataSource: Map.set keeps the place of a key that is there.
AddDataSource(d) ==
    /\ changes < MaxRouteChanges /\ changes' = changes + 1
    /\ isOpen[d] /\ \A i \in DOMAIN routes : routes[i][2] # d
    /\ routes' = IF RoutedTo(d.of) = {} THEN Append(routes, <<d.of, d>>)
                 ELSE [i \in DOMAIN routes |-> IF routes[i][1] = d.of THEN <<d.of, d>> ELSE routes[i]]
    /\ placed' = IF sweep.at = "none" THEN placed ELSE placed \cup {d}
    /\ UNCHANGED <<routing, turn, scopes, awaited, isOpen, sweep, picks, asks, routeFaults>>

\* removeDataSource closes nothing.  An iterator that has passed the entry steps back.
RemoveDataSource(i) ==
    /\ changes < MaxRouteChanges /\ changes' = changes + 1
    /\ routes' = RemoveAt(routes, i)
    /\ sweep' = IF i <= sweep.visited THEN [sweep EXCEPT !.visited = @ - 1] ELSE sweep
    /\ UNCHANGED <<routing, turn, scopes, awaited, isOpen, picks, placed, asks, routeFaults>>

StartClose ==
    /\ sweep.at = "none"
    /\ sweep' = [sweep EXCEPT !.at = "closing"]
    /\ UNCHANGED <<routing, routes, turn, scopes, awaited, isOpen, picks, placed, asks, changes, routeFaults>>

\* A close that ends at the first failure (for a mutant).
CloseUntilOneFails ==
    /\ sweep.at = "closing" /\ sweep.visited < Len(routes)
    /\ LET d == routes[sweep.visited + 1][2]
       IN \/ /\ isOpen' = [isOpen EXCEPT ![d] = FALSE]
             /\ sweep' = [sweep EXCEPT !.visited = @ + 1]
             /\ UNCHANGED routeFaults
          \/ /\ routeFaults < MaxRouteFaults /\ routeFaults' = routeFaults + 1
             /\ sweep' = [sweep EXCEPT !.at = "threw", !.failed = @ \cup {d}]
             /\ UNCHANGED isOpen
    /\ UNCHANGED <<routing, routes, turn, scopes, awaited, picks, placed, asks, changes>>

\* The next entry of the Map as it is now.  Its close may fail: the error is kept and
\* the others are closed all the same.
CloseNext ==
    /\ sweep.at = "closing" /\ sweep.visited < Len(routes)
    /\ LET d == routes[sweep.visited + 1][2]
       IN \/ /\ isOpen' = [isOpen EXCEPT ![d] = FALSE]
             /\ sweep' = [sweep EXCEPT !.visited = @ + 1]
             /\ UNCHANGED routeFaults
          \/ /\ routeFaults < MaxRouteFaults /\ routeFaults' = routeFaults + 1
             /\ sweep' = [sweep EXCEPT !.visited = @ + 1, !.failed = @ \cup {d}]
             /\ UNCHANGED isOpen
    /\ UNCHANGED <<routing, routes, turn, scopes, awaited, picks, placed, asks, changes>>

EndClose ==
    /\ sweep.at = "closing" /\ sweep.visited = Len(routes)
    /\ sweep' = [sweep EXCEPT !.at = IF sweep.failed = {} THEN "closed" ELSE "threw"]
    /\ UNCHANGED <<routing, routes, turn, scopes, awaited, isOpen, picks, placed, asks, changes, routeFaults>>

RoutingNext ==
    \/ \E c \in RoutedCallers : \/ EnterScope(c) \/ LeaveScope(c) \/ GetRoutedConnection(c) \/ Given(c)
                                \/ SourceRefuses(c) \/ FallsBack(c)
    \/ \E d \in RoutedSources : AddDataSource(d)
    \/ \E i \in DOMAIN routes : RemoveDataSource(i)
    \/ StartClose \/ CloseNext \/ EndClose

-----------------------------------------------------------------------------
(* Properties *)

RoutingTypeOK ==
    /\ routing \in RoutingKinds
    /\ \A i \in DOMAIN routes : routes[i][1] \in RouteKeys /\ routes[i][2] \in RoutedSources
    /\ \A d \in RoutedSources : turn[d] \in 0..d.replicas
    /\ \A c \in RoutedCallers : awaited[c].at \in {"none", "asked", "again"}
    /\ sweep.visited \in 0..Len(routes) /\ sweep.failed \subseteq RoutedSources

\* A connection is asked of a source of the tenant in whose context the caller was, and
\* of the default tenant only without one, though routes come and go, the context is
\* left and the replica refuses; and a connection to a replica only in a read-only scope.
OwnRoute ==
    \A c \in RoutedCallers :
        awaited[c].at # "none" =>
            /\ awaited[c].source.of = IF awaited[c].scope.tenant = NoTenant THEN routing.default
                                      ELSE awaited[c].scope.tenant
            /\ awaited[c].replica > 0 => awaited[c].scope.readOnly

\* The replicas of a source are picked evenly, whichever of them refuse.
Balanced ==
    \A d \in RoutedSources : \A i, j \in 1..d.replicas : picks[d][i] <= picks[d][j] + 1

\* After close() what is in the Map is closed, unless its own close failed or it was put
\* there after close() began (in the place of an entry that has been visited, it stays
\* open); and close() throws if one failed.
RoutesClosed ==
    /\ sweep.at \in {"closed", "threw"} =>
          \A i \in DOMAIN routes : LET d == routes[i][2] IN ~isOpen[d] \/ d \in sweep.failed \cup placed
    /\ sweep.at = "closed" => sweep.failed = {}

\* A connection comes from the caller's own tenant, reads are shared by its replicas, and
\* close() closes every source in place.
RoutingHolds == RoutingTypeOK /\ OwnRoute /\ Balanced /\ RoutesClosed
=============================================================================
