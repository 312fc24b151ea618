------------------------------ MODULE Filters ------------------------------
(***************************************************************************)
(* What the reads of a repository leave out: global filters, which a       *)
(* context turns off and on, and rows of other tenants.  Filters are part  *)
(* of the statement, so what a cache answers has not met them.             *)
(***************************************************************************)
EXTENDS Naturals, Sequences, FiniteSets, SequencesExt

CONSTANTS FilterKinds,   \* records: declared (@Filter, in order), defaults (enabledByDefault),
                         \* tenanted, filterCalls, bound: calls and registrations
          FilterCallers, \* numbers
          Rows, RowTenant,
          Hides,         \* Hides[f]: the rows that f leaves out
          FilterOptions  \* what withFilters is given: all (disabled), off and on (names); one is empty

NoTenant == "no tenant"

ASSUME FiltersAssumption ==
    /\ FilterCallers \subseteq Nat /\ NoTenant \notin {RowTenant[r] : r \in Rows}
    /\ 0 \notin Rows
    /\ \A o \in FilterOptions : {o.off, o.on} \subseteq SUBSET DOMAIN Hides
    /\ \A e \in FilterKinds :
           e.declared \in Seq(DOMAIN Hides) /\ IsInjective(e.declared) /\ e.filterCalls \in Nat

VARIABLES filtered,
          registrations, \* names of the entity's filters
          heldFilters,          \* those the repository took when it was created
          byId,          \* entity cache: tenant and row
          lists,         \* query cache: statement (filters, tenant) and rows
          lookup,        \* lookup[k]: the read of k, or its answer
          filterCalls

filterVars == <<filtered, registrations, heldFilters, byId, lists, lookup, filterCalls>>

NotYet == <<"not created">>
NoLookup == [op |-> "none", id |-> 0, active |-> {}, tenant |-> NoTenant, rows |-> {}, cached |-> FALSE]

FiltersStart(e) ==
    /\ filtered = e /\ registrations = e.declared /\ heldFilters = NotYet
    /\ byId = {} /\ lists = {}
    /\ lookup = [k \in FilterCallers |-> NoLookup]
    /\ filterCalls = 0

FiltersInit == \E e \in FilterKinds : FiltersStart(e)

Counts == filterCalls < filtered.filterCalls /\ filterCalls' = filterCalls + 1

\* A second filter of the same name throws.
RegisterFilter(f) ==
    /\ f \notin ToSet(registrations) /\ Counts
    /\ registrations' = Append(registrations, f)
    /\ UNCHANGED <<filtered, heldFilters, byId, lists, lookup>>

UnregisterFilter(f) ==
    /\ f \in ToSet(registrations) /\ Counts
    /\ \E i \in DOMAIN registrations :
           registrations[i] = f /\ registrations' = RemoveAt(registrations, i)
    /\ UNCHANGED <<filtered, heldFilters, byId, lists, lookup>>

\* getFilters copies the list, for as long as the repository lives.
CreateRepository ==
    /\ heldFilters = NotYet /\ heldFilters' = registrations
    /\ UNCHANGED <<filtered, registrations, byId, lists, lookup, filterCalls>>

\* resolveActiveFilters: disabled comes before enabled, and both before the default.
Active(o) ==
    IF o.all THEN {}
    ELSE {f \in ToSet(heldFilters) : f \notin o.off /\ (f \in o.on \/ filtered.defaults[f])}

\* Only the filters (for a mutant).
VisibleAnyTenant(active, t) == {r \in Rows : \A f \in active : r \notin Hides[f]}

\* What the statement of a read leaves of the table.
Visible(active, t) ==
    {r \in Rows : /\ filtered.tenanted => RowTenant[r] = t
                  /\ \A f \in active : r \notin Hides[f]}

\* A read takes the options of the innermost withFilters or withoutFilters around it, and
\* the tenant of TenantContext.run, and keeps them through its awaits.
Read(op, id, o, t) ==
    [op |-> op, id |-> id, active |-> Active(o), tenant |-> t, rows |-> {}, cached |-> FALSE]
Key(t, r) == <<t, r>>

\* Without a tenant the builder of the statement throws; the cache is asked before.
MayRead(t) == filtered.tenanted => t # NoTenant
Begins(k) == /\ heldFilters # NotYet /\ lookup[k].op = "none" /\ Counts
             /\ \A j \in FilterCallers : j < k => lookup[j].op # "none"

FindById(k, r, o, t) ==
    LET l == Read("find", r, o, t)
    IN /\ Begins(k)
       /\ \/ /\ Key(l.tenant, r) \in byId
             /\ lookup' = [lookup EXCEPT ![k] = [l EXCEPT !.op = "answered", !.rows = {r}, !.cached = TRUE]]
          \/ /\ Key(l.tenant, r) \notin byId /\ MayRead(t)
             /\ lookup' = [lookup EXCEPT ![k] = l]
       /\ UNCHANGED <<filtered, registrations, heldFilters, byId, lists>>

FindAll(k, o, t) ==
    LET l == Read("list", 0, o, t)
        hits == {e \in lists : e.active = l.active /\ e.tenant = l.tenant}
    IN /\ Begins(k) /\ MayRead(t)
       /\ \/ \E e \in hits : /\ lookup' = [lookup EXCEPT ![k] = [l EXCEPT !.op = "answered", !.rows = e.rows]]
                             /\ byId' = byId \cup {Key(t, r) : r \in e.rows}
          \/ hits = {} /\ lookup' = [lookup EXCEPT ![k] = l] /\ UNCHANGED byId
       /\ UNCHANGED <<filtered, registrations, heldFilters, lists>>

\* findAll(projection) executes a statement whose parameters it never sets: it answers
\* only where no filter and no tenant brought one.
FindProjections(k, o) ==
    LET l == Read("list", 0, o, NoTenant)
    IN /\ Begins(k) /\ ~filtered.tenanted /\ l.active = {}
       /\ lookup' = [lookup EXCEPT ![k] = [l EXCEPT !.op = "answered", !.rows = Visible(l.active, l.tenant)]]
       /\ UNCHANGED <<filtered, registrations, heldFilters, byId, lists>>

\* The statement; each entity goes through postLoadEntity, and a list into the query cache.
ReadRows(k) ==
    LET l == lookup[k]
        seen == Visible(l.active, l.tenant)
        rows == IF l.op = "find" THEN seen \cap {l.id} ELSE seen
    IN /\ l.op \in {"find", "list"}
       /\ lookup' = [lookup EXCEPT ![k] = [l EXCEPT !.op = "answered", !.rows = rows]]
       /\ byId' = byId \cup {Key(l.tenant, r) : r \in rows}
       /\ lists' = IF l.op = "find" THEN lists
                   ELSE lists \cup {[active |-> l.active, tenant |-> l.tenant, rows |-> rows]}
       /\ UNCHANGED <<filtered, registrations, heldFilters, filterCalls>>

Forget(k) ==
    /\ lookup[k].op = "answered" /\ lookup' = [lookup EXCEPT ![k] = NoLookup]
    /\ UNCHANGED <<filtered, registrations, heldFilters, byId, lists, filterCalls>>

Tenants == IF filtered.tenanted THEN {NoTenant} \cup {RowTenant[r] : r \in Rows} ELSE {NoTenant}

FiltersNext ==
    \/ CreateRepository
    \/ \E f \in DOMAIN Hides : RegisterFilter(f) \/ UnregisterFilter(f)
    \/ \E k \in FilterCallers :
           \/ ReadRows(k) \/ Forget(k)
           \/ \E o \in FilterOptions :
                  \/ FindProjections(k, o)
                  \/ \E t \in Tenants : FindAll(k, o, t) \/ \E r \in Rows : FindById(k, r, o, t)

-----------------------------------------------------------------------------
(* Properties *)

FiltersTypeOK ==
    /\ filtered \in FilterKinds
    /\ \A e \in lists : e.rows \subseteq Rows
    /\ IsInjective(registrations)

\* No read answers a row of another tenant, from the table or from a cache.
TenantsApart ==
    filtered.tenanted =>
        \A k \in FilterCallers : \A r \in lookup[k].rows : RowTenant[r] = lookup[k].tenant

\* A read answers a row that a filter of its context leaves out only where findById has it
\* from the entity cache; and findAll answers all the others.
FilteredUnlessCached ==
    \A k \in FilterCallers :
        LET l == lookup[k]
            left == UNION {Hides[f] : f \in l.active}
        IN l.op = "answered" =>
               /\ l.rows \cap left # {} => l.cached
               /\ l.id = 0 => \A r \in Rows \ left : ~filtered.tenanted => r \in l.rows

\* One who disables a filter in a context sees no less than one who does not.
FewerFiltersMoreRows ==
    \A k, j \in FilterCallers :
        /\ lookup[k].op = "answered" /\ lookup[j].op = "answered"
        /\ lookup[k].id = 0 /\ lookup[j].id = 0
        /\ lookup[k].active \subseteq lookup[j].active /\ lookup[k].tenant = lookup[j].tenant
        => lookup[j].rows \subseteq lookup[k].rows

\* The filters a repository adds to its queries: tenants stay apart, a filter hides its rows
\* except where a cached result answers, and fewer filters never show fewer rows.
FiltersHold == FiltersTypeOK /\ TenantsApart /\ FilteredUnlessCached /\ FewerFiltersMoreRows
=============================================================================
