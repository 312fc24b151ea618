------------------------- MODULE TenantProvisioning -------------------------
(***************************************************************************)
(* TenantSchemaManager: schemas of tenants and the tables in them, with a  *)
(* limit on their number.  Several admins provision and deprovision, each  *)
(* on a connection of its own that commits statement by statement.  The    *)
(* advisory lock covers the count, and is released before CREATE SCHEMA.   *)
(***************************************************************************)
EXTENDS Naturals, FiniteSets

CONSTANTS Schemas,     \* schemas that tenants can have
          Tables,      \* tables of the entities
          Admins,      \* callers of provisionTenant and deprovisionTenant
          Nobody,      \* holds the advisory lock when it is free
          MaxTenants,  \* options.maxTenants
          MaxCalls,    \* bound: calls of either
          MaxFaults    \* bound: statements that fail for no reason of the model

ASSUME ProvisioningAssumption ==
    /\ IsFiniteSet(Schemas) /\ IsFiniteSet(Admins)
    /\ Admins # {} /\ Nobody \notin Admins
    /\ MaxTenants \in Nat /\ MaxCalls \in Nat /\ MaxFaults \in Nat

VARIABLES schemas,  \* the schemas there are
          tables,   \* tables[s]: the tables in s
          lock,     \* who holds the advisory lock
          step,     \* step[a]: the statement a comes to
          target,   \* target[a]: the schema a provisions or drops
          missing,  \* missing[a]: the tables a has yet to create
          calm,     \* history: calm[a]: target[a] was not dropped since a began
          calls, faults

vars == <<schemas, tables, lock, step, target, missing, calm, calls, faults>>

Steps == {"idle", "lock", "count", "unlock", "refuse", "schema", "tables", "done", "drop"}

Init == /\ schemas = {}
        /\ tables = [s \in Schemas |-> {}]
        /\ lock = Nobody
        /\ step = [a \in Admins |-> "idle"]
        /\ target \in [Admins -> Schemas]
        /\ missing = [a \in Admins |-> {}]
        /\ calm = [a \in Admins |-> FALSE]
        /\ calls = 0 /\ faults = 0

Goto(a, s) == step' = [step EXCEPT ![a] = s]

Fault == faults < MaxFaults /\ faults' = faults + 1

-----------------------------------------------------------------------------
Call(a, next) == /\ step[a] = "idle" /\ calls < MaxCalls
                 /\ calls' = calls + 1
                 /\ Goto(a, next)
                 /\ \E s \in Schemas : target' = [target EXCEPT ![a] = s]
                 /\ UNCHANGED <<schemas, tables, lock, faults>>

ProvisionTenant(a) == /\ Call(a, "lock")
                      /\ missing' = [missing EXCEPT ![a] = Tables]
                      /\ calm' = [calm EXCEPT ![a] = TRUE]

DeprovisionTenant(a) == Call(a, "drop") /\ UNCHANGED <<missing, calm>>

\* pg_advisory_lock waits until the lock is free.
Lock(a) == /\ step[a] = "lock" /\ lock = Nobody
           /\ lock' = a
           /\ Goto(a, "count")
           /\ UNCHANGED <<schemas, tables, target, missing, calm, calls, faults>>

MayHaveOneMore(a) == Cardinality(schemas \ {target[a]}) <= MaxTenants

\* The count leaves out the target, so that a tenant can be provisioned again.
MayProvision(a) == Cardinality(schemas \ {target[a]}) < MaxTenants

CountWithoutFinally(a) ==
    /\ step[a] = "count"
    /\ \/ /\ Goto(a, IF MayProvision(a) THEN "unlock" ELSE "done")
          /\ UNCHANGED faults
       \/ Goto(a, "refuse") /\ Fault
    /\ UNCHANGED <<schemas, tables, lock, target, missing, calm, calls>>

\* listTenantSchemas and the limit.  Whatever comes of it, the finally block
\* unlocks.
Count(a) == /\ step[a] = "count"
            /\ \/ /\ Goto(a, IF MayProvision(a) THEN "unlock" ELSE "refuse")
                  /\ UNCHANGED faults
               \/ Goto(a, "refuse") /\ Fault
            /\ UNCHANGED <<schemas, tables, lock, target, missing, calm, calls>>

\* pg_advisory_unlock, and on to the schema or to the caller with the error.
Unlock(a) == /\ step[a] \in {"unlock", "refuse"}
             /\ lock' = Nobody
             /\ Goto(a, IF step[a] = "unlock" THEN "schema" ELSE "idle")
             /\ missing' = [missing EXCEPT ![a] = IF step[a] = "unlock" THEN @ ELSE {}]
             /\ calm' = [calm EXCEPT ![a] = step[a] = "unlock"]
             /\ UNCHANGED <<schemas, tables, target, calls, faults>>

CreateSchemaOrLeave(a) ==
    /\ step[a] = "schema"
    /\ schemas' = schemas \cup {target[a]}
    /\ Goto(a, IF target[a] \in schemas THEN "done" ELSE "tables")
    /\ UNCHANGED <<tables, lock, target, missing, calm, calls, faults>>

\* CREATE SCHEMA IF NOT EXISTS.
CreateTenantSchema(a) ==
    /\ step[a] = "schema"
    /\ schemas' = schemas \cup {target[a]}
    /\ Goto(a, "tables")
    /\ UNCHANGED <<tables, lock, target, missing, calm, calls, faults>>

\* CREATE TABLE IF NOT EXISTS for the next entity, with its indexes.
CreateTable(a) ==
    /\ step[a] = "tables" /\ target[a] \in schemas
    /\ \E t \in missing[a] :
          /\ tables' = [tables EXCEPT ![target[a]] = @ \cup {t}]
          /\ missing' = [missing EXCEPT ![a] = @ \ {t}]
          /\ Goto(a, IF missing[a] = {t} THEN "done" ELSE "tables")
    /\ UNCHANGED <<schemas, lock, target, calm, calls, faults>>

End(a) == /\ Goto(a, "idle")
          /\ missing' = [missing EXCEPT ![a] = {}]
          /\ calm' = [calm EXCEPT ![a] = FALSE]
          /\ UNCHANGED <<schemas, tables, target, calls>>

Return(a) == step[a] = "done" /\ End(a) /\ UNCHANGED <<lock, faults>>

\* The schema was dropped meanwhile: CREATE TABLE throws.
NoSchema(a) == /\ step[a] = "tables" /\ target[a] \notin schemas
               /\ End(a)
               /\ UNCHANGED <<lock, faults>>

\* A statement fails because the connection breaks, which frees the advisory
\* lock of its session.
Break(a) == /\ step[a] \notin {"idle", "done"}
            /\ Fault
            /\ End(a)
            /\ lock' = IF lock = a THEN Nobody ELSE lock

\* DROP SCHEMA IF EXISTS ... CASCADE, without the lock.
DropTenantSchema(a) ==
    /\ step[a] = "drop"
    /\ schemas' = schemas \ {target[a]}
    /\ tables' = [tables EXCEPT ![target[a]] = {}]
    /\ calm' = [b \in Admins |-> calm[b] /\ target[b] # target[a]]
    /\ Goto(a, "idle")
    /\ UNCHANGED <<lock, target, missing, calls, faults>>

Progress(a) == \/ Count(a) \/ Unlock(a) \/ CreateTenantSchema(a) \/ CreateTable(a)
               \/ NoSchema(a) \/ Return(a) \/ DropTenantSchema(a)

Next == \E a \in Admins : \/ ProvisionTenant(a) \/ DeprovisionTenant(a)
                          \/ Lock(a) \/ Progress(a) \/ Break(a)

\* The server answers every statement, and queues who waits for the lock.
Fairness == \A a \in Admins : SF_vars(Lock(a)) /\ WF_vars(Progress(a))

Spec == Init /\ [][Next]_vars /\ Fairness

-----------------------------------------------------------------------------
(* Properties *)

\* Every variable keeps its type; the lock is held exactly by the admin that
\* is between pg_advisory_lock and pg_advisory_unlock.
TypeOK ==
    /\ schemas \subseteq Schemas
    /\ tables \in [Schemas -> SUBSET Tables]
    /\ lock \in Admins \cup {Nobody}
    /\ step \in [Admins -> Steps]
    /\ target \in [Admins -> Schemas]
    /\ missing \in [Admins -> SUBSET Tables]
    /\ calm \in [Admins -> BOOLEAN]
    /\ calls \in Nat /\ faults \in Nat
    /\ \A a \in Admins : lock = a <=> step[a] \in {"count", "unlock", "refuse"}

\* The limit is overshot by no more than the admins that raced for it: every
\* admin but the first can add one schema beyond maxTenants.
LimitHoldsUpToRaces == Cardinality(schemas) <= MaxTenants + Cardinality(Admins) - 1

\* provisionTenant that returns has left the schema with all its tables,
\* whoever else provisions the same tenant or gave up on it half way, unless
\* the tenant was deprovisioned meanwhile.
ProvisionedIsComplete ==
    \A a \in Admins : step[a] = "done" /\ calm[a] =>
        target[a] \in schemas /\ tables[target[a]] = Tables

\* The limit, as the comment on the advisory lock would have it.
TenantLimit == Cardinality(schemas) <= MaxTenants

\* A call ends, also when the limit refuses it while others wait for the lock.
CallReturns == \A a \in Admins : step[a] # "idle" ~> step[a] = "idle"
=============================================================================
