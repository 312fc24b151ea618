----------------------------- MODULE Endpoints -----------------------------
(***************************************************************************)
(* The generated REST routes and GraphQL resolvers of an entity, one row   *)
(* of its table and the repository's entity cache between them.  Requests  *)
(* of clients are handled concurrently in one process and share the cached *)
(* instance: a handler is cut at its awaits.  A client that updates sends  *)
(* one field, and the version it has read or none.                         *)
(*                                                                         *)
(* A lookup and what it puts into the cache are one step here; what can    *)
(* come between them is a matter of RepositoryCache.                       *)
(***************************************************************************)
EXTENDS Naturals, FiniteSets

CONSTANTS EndpointKinds,   \* records: api ("rest", "graphql"), soft (@SoftDelete), and verbs:
                           \* what is asked, of "get", "put", "delete", "deleted", "restore"
          Requests,        \* numbers, in the order in which they come
          NoRequest,
          Columns,         \* the fields of the entity
          MaxUpdateFaults  \* bound: updates that the database refuses

ASSUME EndpointsAssumption ==
    /\ EndpointKinds \subseteq [api : {"rest", "graphql"}, soft : BOOLEAN,
                          verbs : SUBSET {"get", "put", "delete", "deleted", "restore"}]
    /\ Requests \subseteq Nat /\ NoRequest \notin Requests /\ IsFiniteSet(Requests)
    /\ Columns # {}
    /\ MaxUpdateFaults \in Nat

VARIABLES endpoint,
          record,    \* the row: there or not, hidden (deleted_at), version, values
          managed,   \* managed[r]: the entity that r's lookup made, and its snapshot
          identity,  \* the request whose instance the entity cache holds
          request,   \* what r asks, the instance it works on, where it is, its answer
          stored,    \* history: values that were in the row
          mixed,     \* history: updates that had hold of one instance at a time
          busy,      \* history: get requests during which something else went on
          listed,    \* history: since it was hidden, the row was listed
          rejected   \* history: updates that ended in an error of the database

endpointVars == <<endpoint, record, managed, identity, request, stored, mixed, busy, listed,
                  rejected>>

Values == Requests \cup {NoRequest}
NoValues == [c \in Columns |-> NoRequest]

\* A value is named for the update that sends it.
FirstRecord == [there |-> TRUE, hidden |-> FALSE, version |-> 1, values |-> NoValues]
NoInstance == [version |-> 0, values |-> NoValues, oldVersion |-> 0, oldValues |-> NoValues]
NoAnswer == [status |-> 0, version |-> 0]
NewRequest == [verb |-> "none", sends |-> 0, column |-> CHOOSE c \in Columns : TRUE, on |-> NoRequest,
               at |-> "new", row |-> NoAnswer, answer |-> NoAnswer]

EndpointsStart(e) ==
    /\ endpoint = e
    /\ record = FirstRecord
    /\ managed = [r \in Requests |-> NoInstance]
    /\ identity = NoRequest
    /\ request = [r \in Requests |-> NewRequest]
    /\ stored = {NoRequest}
    /\ mixed = {} /\ busy = {} /\ listed = FALSE /\ rejected = {}

EndpointsInit == \E e \in EndpointKinds : EndpointsStart(e)

Under(r) == request[r].at \notin {"new", "answered"}
Updates(r) == request[r].verb = "put"
Visible == record.there /\ ~record.hidden

\* Versions that clients have been told; the first one by who made the row.
Told == {1} \cup {request[r].answer.version : r \in {q \in Requests : request[q].answer.status = 200}}

\* The instances become h, without those that neither the cache nor a request has.
Heap(h) == managed' = [k \in Requests |->
                           IF identity' = k \/ \E q \in Requests :
                                  request'[q].on = k /\ request'[q].at \notin {"new", "answered"}
                           THEN h[k] ELSE NoInstance]

\* The routes and resolvers there are.
Offered == IF endpoint.soft THEN endpoint.verbs ELSE endpoint.verbs \ {"deleted", "restore"}

\* The columns are alike: the first update sends the first one.
Sends(v) == IF v = "put" /\ \E q \in Requests : Updates(q) THEN Columns ELSE {NewRequest.column}

\* A request comes in; findById, for a get, an update and a GraphQL delete, looks into
\* the cache at once: the instance there is the one, whatever others do with it.
LooksUp(v) == v \in {"get", "put"} \/ (v = "delete" /\ endpoint.api = "graphql")

Ask(r) ==
    /\ request[r].at = "new"
    /\ \A q \in Requests : q < r => request[q].at # "new"
    /\ \E v \in Offered :
           /\ \E n \in (IF v = "put" THEN {0} \cup Told ELSE {0}),
                 c \in Sends(v) :
                  request' = [request EXCEPT ![r] =
                                 [NewRequest EXCEPT !.verb = v, !.sends = n, !.column = c,
                                     !.on = IF LooksUp(v) THEN identity ELSE NoRequest,
                                     !.at = IF LooksUp(v) /\ identity # NoRequest
                                            THEN "found" ELSE "asked"]]
           /\ busy' = busy \cup (IF \E q \in Requests : Under(q) THEN {r} ELSE {})
                          \cup {q \in Requests : Under(q) /\ v # "get"}
           /\ LET others == {q \in Requests : Updates(q) /\ Under(q) /\ request[q].on = identity}
              IN mixed' = IF v = "put" /\ identity # NoRequest /\ others # {}
                          THEN mixed \cup others \cup {r} ELSE mixed
    /\ UNCHANGED <<endpoint, record, managed, identity, stored, listed, rejected>>

Told404 == [NoAnswer EXCEPT !.status = 404]
\* What is told is kept of an update, to compare, and of the rest the version.
Answer(r, a) ==
    request' = [request EXCEPT ![r] =
                   IF Updates(r) THEN [NewRequest EXCEPT !.verb = "put", !.sends = request[r].sends,
                                          !.on = request[r].on, !.at = "answered", !.answer = a]
                   ELSE [NewRequest EXCEPT !.at = "answered", !.answer = a]]

Found(r, k) == request' = [request EXCEPT ![r].on = k, ![r].at = "found"]

\* postLoadEntity: a new instance, its snapshot, and its place in the cache.
Loads(r) ==
    /\ identity' = r
    /\ Heap([managed EXCEPT ![r] = [version |-> record.version, values |-> record.values,
                                     oldVersion |-> record.version, oldValues |-> record.values]])

\* The row is read, whatever has got into the cache meanwhile.
FindRow(r) ==
    /\ request[r].at = "asked" /\ LooksUp(request[r].verb)
    /\ IF Visible THEN Found(r, r) /\ Loads(r)
       ELSE Answer(r, Told404) /\ UNCHANGED <<managed, identity>>
    /\ UNCHANGED <<endpoint, record, stored, mixed, busy, listed, rejected>>

\* createFindByIdHandler: the instance as it is now.
Get(r) ==
    /\ request[r].at = "found" /\ request[r].verb = "get"
    /\ Answer(r, [status |-> 200, version |-> managed[request[r].on].version])
    /\ UNCHANGED <<endpoint, record, identity, stored, mixed, busy, listed, rejected>>
    /\ Heap(managed)

\* The assignment of an update without the version of the client (for a mutant).
AssignValue(r) ==
    LET k == request[r].on
    IN /\ request[r].at = "found" /\ request[r].verb = "put"
       /\ managed' = [managed EXCEPT ![k].values[request[r].column] = r]
       /\ request' = [request EXCEPT ![r].at = "assigned"]
       /\ UNCHANGED <<endpoint, record, identity, stored, mixed, busy, listed, rejected>>

\* createUpdateHandler: Object.assign(existing, safeBody); a body without a version
\* leaves the version that was read.
Assign(r) ==
    LET k == request[r].on
    IN /\ request[r].at = "found" /\ request[r].verb = "put"
       /\ managed' = [managed EXCEPT ![k].values[request[r].column] = r,
                                       ![k].version = IF request[r].sends = 0 THEN @ ELSE request[r].sends]
       /\ request' = [request EXCEPT ![r].at = "assigned"]
       /\ UNCHANGED <<endpoint, record, identity, stored, mixed, busy, listed, rejected>>

\* performUpdate, when the connection is there: nothing for an instance like its
\* snapshot, else the fields that differ from it, in the row of that version, hidden or not.
Clean(i) == i.values = i.oldValues /\ i.version = i.oldVersion
Written(i) == [c \in Columns |-> IF i.values[c] = i.oldValues[c] THEN record.values[c] ELSE i.values[c]]

UpdateRow(r) ==
    LET i == managed[request[r].on]
    IN /\ request[r].at = "assigned"
       /\ IF Clean(i)
          THEN /\ Answer(r, [status |-> 200, version |-> i.version])
               /\ UNCHANGED <<record, stored>>
          ELSE IF record.there /\ record.version = i.version
          THEN /\ record' = [record EXCEPT !.version = @ + 1, !.values = Written(i)]
               /\ stored' = stored \cup {Written(i)[c] : c \in Columns}
               /\ request' = [request EXCEPT ![r].at = "updated",
                                 ![r].row = [status |-> 200, version |-> record.version + 1]]
          ELSE /\ request' = [request EXCEPT ![r].at = "updated", ![r].row = [NoAnswer EXCEPT !.status = 409]]
               /\ UNCHANGED <<record, stored>>
       /\ UNCHANGED <<endpoint, identity, mixed, busy, listed, rejected>>
       /\ Heap(managed)

\* The statement is rejected, by a constraint say: handleError throws it on, and the
\* instance is left in the cache as it was assigned.
UpdateRefused(r) ==
    /\ request[r].at = "assigned" /\ ~Clean(managed[request[r].on])
    /\ Cardinality(rejected) < MaxUpdateFaults
    /\ rejected' = rejected \cup {r}
    /\ Answer(r, [NoAnswer EXCEPT !.status = 500])
    /\ UNCHANGED <<endpoint, record, identity, stored, mixed, busy, listed>>
    /\ Heap(managed)

\* Either way the cached instance goes; the answer is the row, or a conflict.
Updated(r) ==
    /\ request[r].at = "updated"
    /\ identity' = NoRequest
    /\ Answer(r, request[r].row)
    /\ UNCHANGED <<endpoint, record, stored, mixed, busy, listed, rejected>>
    /\ Heap(managed)

\* deleteById: it asks for no version.
DeleteRow(r) ==
    /\ request[r].verb = "delete"
    /\ request[r].at = IF endpoint.api = "graphql" THEN "found" ELSE "asked"
    /\ record' = IF endpoint.soft THEN [record EXCEPT !.hidden = TRUE]
                 ELSE [record EXCEPT !.there = FALSE]
    /\ request' = [request EXCEPT ![r].at = "deleted"]
    /\ listed' = (listed /\ record.hidden)
    /\ UNCHANGED <<endpoint, managed, identity, stored, mixed, busy, rejected>>

\* A delete after which the cached instance stays (for a mutant).
DeletedNotEvicted(r) ==
    /\ request[r].at = "deleted"
    /\ Answer(r, [NoAnswer EXCEPT !.status = 204])
    /\ UNCHANGED <<endpoint, record, identity, stored, mixed, busy, listed, rejected>>
    /\ Heap(managed)

Deleted(r) ==
    /\ request[r].at = "deleted"
    /\ identity' = NoRequest
    /\ Answer(r, [NoAnswer EXCEPT !.status = 204])
    /\ UNCHANGED <<endpoint, record, stored, mixed, busy, listed, rejected>>
    /\ Heap(managed)

\* findOnlyDeleted is findAll without the filter, and caches what it loads.
FindDeleted(r) ==
    /\ request[r].at = "asked" /\ request[r].verb = "deleted"
    /\ Answer(r, [NoAnswer EXCEPT !.status = 200])
    /\ IF record.hidden
       THEN Loads(r) /\ listed' = TRUE
       ELSE UNCHANGED <<managed, identity, listed>>
    /\ UNCHANGED <<endpoint, record, stored, mixed, busy, rejected>>

\* createRestoreHandler looks among all rows, hidden or not, and caches them.
FindToRestore(r) ==
    /\ request[r].at = "asked" /\ request[r].verb = "restore"
    /\ Found(r, r) /\ Loads(r)
    /\ listed' = (listed \/ record.hidden)
    /\ UNCHANGED <<endpoint, record, stored, mixed, busy, rejected>>

RestoreRow(r) ==
    /\ request[r].at = "found" /\ request[r].verb = "restore"
    /\ record' = [record EXCEPT !.hidden = FALSE]
    /\ request' = [request EXCEPT ![r].at = "restored"]
    /\ UNCHANGED <<endpoint, managed, identity, stored, mixed, busy, listed, rejected>>

Restored(r) ==
    /\ request[r].at = "restored"
    /\ identity' = NoRequest
    /\ Answer(r, [status |-> 200, version |-> managed[r].version])
    /\ UNCHANGED <<endpoint, record, stored, mixed, busy, listed, rejected>>
    /\ Heap(managed)

EndpointsNext ==
    \E r \in Requests :
        \/ Ask(r) \/ FindRow(r) \/ Get(r) \/ Assign(r) \/ UpdateRow(r)
        \/ UpdateRefused(r) \/ Updated(r) \/ DeleteRow(r) \/ Deleted(r) \/ FindDeleted(r)
        \/ FindToRestore(r) \/ RestoreRow(r) \/ Restored(r)

EndpointsTypeOK ==
    /\ endpoint \in EndpointKinds
    /\ record.version \in Nat /\ record.values \in [Columns -> Values]
    /\ identity \in Values /\ stored \subseteq Values
    /\ mixed \subseteq Requests /\ busy \subseteq Requests /\ rejected \subseteq Requests
    /\ \A r \in Requests : /\ request[r].answer.status \in {0, 200, 204, 404, 409, 500}
                           /\ request[r].at = "found" => request[r].on # NoRequest

Said(r, status) == Updates(r) /\ request[r].answer.status = status

\* What an update is told is what happened: after 200 its value was in the row, after
\* 404 or 409 it never was, and after an error only if a later update of the instance it
\* has left in the cache stored it too.  Two updates that hold the cached instance at
\* once are excepted: one may store the value of the other, who is told of a conflict.
StatusIsTrue ==
    \A r \in Requests \ mixed :
        /\ Said(r, 200) => r \in stored
        /\ Said(r, 404) \/ Said(r, 409) => r \notin stored
        /\ Said(r, 500) /\ r \in stored =>
               \E q \in Requests \ {r} : /\ request[q].verb = "put" /\ request[q].on = request[r].on
                                       /\ request[q].at \in {"updated", "answered"}

\* Two clients that send the version they have read never both update that version.
NoEditLost ==
    \A q, r \in Requests \ mixed :
        /\ q # r /\ Said(q, 200) /\ Said(r, 200)
        /\ request[q].sends > 0
        => request[q].sends # request[r].sends

\* A get beside which nothing goes on answers what is in the table, and 404 for a row
\* that is deleted, soft or hard, although the cache answers for the table; unless
\* the deleted rows have been listed since, which brings the row back into the cache, or
\* an update that was refused has left its instance there.
GetIsCurrent ==
    \A r \in Requests :
        request[r].verb = "get" /\ request[r].at = "found" /\ r \notin busy =>
            \/ record.hidden /\ listed
            \/ \E q \in rejected : request[q].on = request[r].on
            \/ /\ Visible
               /\ managed[request[r].on].version = record.version
               /\ managed[request[r].on].values = record.values

\* What a REST or GraphQL client may rely on: the status tells what happened, a write loses
\* no edit that it answers for, and a get shows the row.
EndpointsHold == EndpointsTypeOK /\ StatusIsTrue /\ NoEditLost /\ GetIsCurrent
=============================================================================
