------------------------------ MODULE Cascades ------------------------------
(***************************************************************************)
(* One save or delete of CascadeManager over a graph of entities.          *)
(*                                                                         *)
(* ref[o] is the entity an owning relation of o points to (ManyToOne,      *)
(* owning OneToOne), kids[o] the entities whose owning relation belongs to *)
(* o (OneToMany, inverse OneToOne), peers[o] a ManyToMany with a join      *)
(* table.  The call chain is a stack of frames with what each has to do.   *)
(* The row of the root comes back as a new object, Copy, which the later   *)
(* steps use; a related entity only gets its id.  A save of a repository   *)
(* with cascades is one transaction, a delete is in autocommit.            *)
(***************************************************************************)
EXTENDS Naturals, Sequences, FiniteSets, SequencesExt

CONSTANTS Entities, Root, Copy, Nothing,
          Refs, Kids, Peers,  \* sets of functions on Entities
          CascadeSettings     \* records, see CascadesAssumption

\* Of a setting: the cascades; the entities that have rows, and whether these have the
\* keys and pairs of the graph already (linked); those whose rows someone else has
\* updated since they were loaded (stale); that the root was loaded and no column of
\* it edited since (clean); and that a statement the database refuses aborts the
\* transaction, as in PostgreSQL (aborts).

ASSUME CascadesAssumption ==
    /\ Root \in Entities /\ Copy \notin Entities /\ Nothing \notin Entities \cup {Copy}
    /\ \A r \in Refs : r \in [Entities -> Entities \cup {Nothing}]
    /\ \A k \in Kids \cup Peers : k \in [Entities -> Seq(Entities)]
    /\ \A s \in CascadeSettings : /\ s.save \subseteq {"persist", "merge"}
                                  /\ s.remove \in BOOLEAN /\ s.versioned \in BOOLEAN
                                  /\ s.stored \subseteq Entities /\ s.stale \subseteq s.stored
                                  /\ s.linked \in BOOLEAN /\ s.clean \in BOOLEAN /\ s.aborts \in BOOLEAN

Instances == Entities \cup {Copy}

VARIABLES casc,    \* the setting
          op,      \* "save" or "delete"
          ref, kids, peers,
          known,   \* known[o]: o has an id; the id is o itself (Root's for Copy)
          version, \* version[o] in memory, 0 for undefined
          rows,    \* rows[o]: the row of o in the transaction
          pairs,   \* rows of the join table
          aborted, \* the transaction is aborted
          saving,  \* the set `saving`
          stack, result,
          rows0, pairs0,  \* history: rows and pairs as the call found them
          inserts, \* history: rows inserted for o
          asked0   \* history: ref as the caller had set it

cascadeVars == <<casc, op, ref, kids, peers, known, version, rows, pairs, aborted, saving, stack,
                 result, rows0, pairs0, inserts, asked0>>

NoRow == [there |-> FALSE, fk |-> Nothing, version |-> 0]

\* One thing a frame has to do: an entity, and over which relation.
Todo(how, seq) == [i \in DOMAIN seq |-> [how |-> how, to |-> seq[i]]]
RefTodo(o) == IF ref[o] = Nothing THEN <<>> ELSE Todo("ref", <<ref[o]>>)

Frame(o) == [obj |-> o, phase |-> "pre", todo |-> RefTodo(o)]

\* The id of Copy is the row's, which is Root's.
RowOfObject(o) == IF o = Copy THEN Root ELSE o

\* A relation to an entity without an id writes null.
ForeignKey(o) == IF o = Nothing \/ ~known[o] THEN Nothing ELSE RowOfObject(o)

\* A row as the relations say, of an entity among those stored.
StoredRow(r, o, s) == [there |-> TRUE,
                       fk |-> IF s.linked /\ r[o] \in s.stored THEN r[o] ELSE Nothing,
                       version |-> IF o \in s.stale THEN 2 ELSE 1]

CascadesStart(r, k, p, s, o) ==
    /\ casc = s /\ op = o
    /\ ref = [e \in Instances |-> IF e = Copy THEN r[Root] ELSE r[e]]
    /\ kids = [e \in Instances |-> IF e = Copy THEN k[Root] ELSE k[e]]
    /\ peers = [e \in Instances |-> IF e = Copy THEN p[Root] ELSE p[e]]
    /\ known = [e \in Instances |-> e \in s.stored]
    /\ version = [e \in Instances |-> IF e \in s.stored THEN 1 ELSE 0]
    /\ rows = [e \in Entities |-> IF e \in s.stored THEN StoredRow(r, e, s) ELSE NoRow]
    /\ pairs = IF s.linked THEN {<<e, q>> \in s.stored \X s.stored : q \in ToSet(p[e])} ELSE {}
    /\ rows0 = rows /\ pairs0 = pairs
    /\ aborted = FALSE
    /\ saving = {Root} /\ result = "running"
    /\ stack = IF o = "save" THEN << [obj |-> Root, phase |-> "pre",
                                      todo |-> IF r[Root] = Nothing THEN <<>>
                                               ELSE Todo("ref", <<r[Root]>>)] >>
               ELSE << [obj |-> Root, phase |-> "pre",
                        todo |-> IF s.remove THEN Todo("kid", k[Root]) \o Todo("pair", <<Root>>)
                                                  \o Todo("peer", p[Root])
                                 ELSE <<>>] >>
    /\ inserts = [e \in Entities |-> 0]
    /\ asked0 = r

\* An entity is the child of one parent: its owning relation points to one.
CascadesInit ==
    \E r \in Refs, k \in Kids, p \in Peers, s \in CascadeSettings :
        /\ \A e \in Entities : \A f \in Entities \ {e} : ToSet(k[e]) \cap ToSet(k[f]) = {}
        /\ \/ CascadesStart(r, k, p, s, "save")
           \/ /\ \A e \in Entities : \A c \in ToSet(k[e]) : r[c] = e
              /\ ToSet(k[Root]) \cap ToSet(p[Root]) = {}
              /\ r[Root] \notin ToSet(k[Root]) \cup ToSet(p[Root])
              /\ CascadesStart(r, k, p, [s EXCEPT !.stored = Entities, !.linked = TRUE], "delete")

Top == stack[Len(stack)]
Below == SubSeq(stack, 1, Len(stack) - 1)
Running(kind, phase) == op = kind /\ result = "running" /\ stack # <<>> /\ Top.phase = phase
HasTodo == stack # <<>> /\ Top.todo # <<>>
Done1 == Below \o << [Top EXCEPT !.todo = Tail(@)] >>

-----------------------------------------------------------------------------
(* Saving *)

\* isUnassignedRelatedId decides between persist and merge.
CascadeApplies(o) == IF known[o] THEN "merge" \in casc.save ELSE "persist" \in casc.save

\* Descends as it would be if the set did not matter.
DescendsAlways(o) == CascadeApplies(o)

\* cascadeSaveRelatedEntity, which skips what is being saved further up.
Descends(o) == CascadeApplies(o) /\ o \notin saving

Push(o, rest) == /\ stack' = Append(rest, Frame(o))
                 /\ saving' = saving \cup {o}

Unchanged1 == UNCHANGED <<casc, op, kids, peers, rows0, pairs0, asked0>>

\* cascadePreSave: what the owning relations point to comes first.
PreSave ==
    /\ Running("save", "pre") /\ HasTodo
    /\ LET o == Head(Top.todo).to
       IN IF Descends(o) THEN Push(o, Done1)
          ELSE /\ stack' = Done1 /\ UNCHANGED saving
    /\ Unchanged1 /\ UNCHANGED <<ref, known, version, rows, pairs, aborted, result, inserts>>

AfterRow(o) == [obj |-> o, phase |-> "post", todo |-> Todo("kid", kids[o]) \o Todo("peer", peers[o])]

\* A row without the relations, as if the columns of the joins were forgotten.
InsertWithoutKeys ==
    /\ Running("save", "pre") /\ ~HasTodo /\ ~known[Top.obj] /\ ~aborted
    /\ LET o == Top.obj
       IN /\ rows' = [rows EXCEPT ![o] = [there |-> TRUE, fk |-> Nothing, version |-> 1]]
          /\ inserts' = [inserts EXCEPT ![o] = @ + 1]
          /\ known' = [known EXCEPT ![IF o = Root THEN Copy ELSE o] = TRUE]
          /\ stack' = Append(Below, AfterRow(IF o = Root THEN Copy ELSE o))
          /\ saving' = saving \cup {IF o = Root THEN Copy ELSE o}
          /\ version' = IF o = Root THEN [version EXCEPT ![Copy] = 1] ELSE version
    /\ Unchanged1 /\ UNCHANGED <<ref, pairs, aborted, result>>

\* performInsert of the root, cascadeInsertRelated of the others.  The root's row
\* is a new object; a related entity gets its id, not its version.
InsertRow ==
    /\ Running("save", "pre") /\ ~HasTodo /\ ~known[Top.obj] /\ ~aborted
    /\ LET o == Top.obj
           n == IF o = Root THEN Copy ELSE o
       IN /\ rows' = [rows EXCEPT ![o] = [there |-> TRUE, fk |-> ForeignKey(ref[o]), version |-> 1]]
          /\ inserts' = [inserts EXCEPT ![o] = @ + 1]
          /\ known' = [known EXCEPT ![n] = TRUE]
          /\ stack' = Append(Below, AfterRow(n))
          /\ saving' = saving \cup {n}
          /\ version' = IF o = Root THEN [version EXCEPT ![Copy] = 1] ELSE version
    /\ Unchanged1 /\ UNCHANGED <<ref, pairs, aborted, result>>

Updated(o) == [rows EXCEPT ![o].fk = ForeignKey(ref[o]), ![o].version = @ + 1]

\* A failed save that has no transaction.
RefusedOnly == result' = "refused" /\ UNCHANGED <<rows, pairs>>

\* The catch of save().
RolledBack == result' = "refused" /\ rows' = rows0 /\ pairs' = pairs0

\* The root was loaded, and neither a column nor the key of its relation has changed.
IsClean == /\ casc.clean /\ (ref[Root] # Nothing => known[ref[Root]])
           /\ ForeignKey(ref[Root]) = rows0[Root].fk

\* performUpdate of a clean root: no UPDATE, and the later steps use the root itself.
SkipUpdate ==
    /\ Running("save", "pre") /\ ~HasTodo /\ Top.obj = Root /\ known[Root] /\ IsClean
    /\ stack' = Append(Below, IF casc.save = {} THEN [AfterRow(Root) EXCEPT !.todo = <<>>] ELSE AfterRow(Root))
    /\ Unchanged1 /\ UNCHANGED <<ref, known, version, rows, pairs, aborted, saving, result, inserts>>

\* performUpdate of any other: a refused version fails the save.
UpdateRoot ==
    /\ Running("save", "pre") /\ ~HasTodo /\ Top.obj = Root /\ known[Root] /\ ~IsClean /\ ~aborted
    /\ IF casc.versioned /\ version[Root] # rows[Root].version
       THEN RolledBack /\ UNCHANGED <<stack, saving, known, version>>
       ELSE /\ rows' = Updated(Root)
            /\ known' = [known EXCEPT ![Copy] = TRUE]
            /\ version' = [version EXCEPT ![Copy] = rows[Root].version + 1]
            /\ stack' = Append(Below, AfterRow(Copy))
            /\ saving' = saving \cup {Copy}
            /\ UNCHANGED <<pairs, result>>
    /\ Unchanged1 /\ UNCHANGED <<ref, aborted, inserts>>

\* cascadeUpdateRelated: a refused version changes no row, and nobody is told.
UpdateRow ==
    /\ Running("save", "pre") /\ ~HasTodo /\ Top.obj # Root /\ known[Top.obj] /\ ~aborted
    /\ LET o == Top.obj
       IN /\ rows' = IF casc.versioned /\ version[o] # rows[o].version THEN rows ELSE Updated(o)
          /\ stack' = Append(Below, AfterRow(o))
    /\ Unchanged1 /\ UNCHANGED <<ref, known, version, pairs, aborted, saving, result, inserts>>

\* cascadePostSave, OneToMany: the child points to its parent, then it is saved.
PostSaveKid ==
    /\ Running("save", "post") /\ HasTodo /\ Head(Top.todo).how = "kid"
    /\ LET o == Head(Top.todo).to
       IN /\ ref' = [ref EXCEPT ![o] = Top.obj]
          /\ IF Descends(o)
             THEN /\ stack' = Append(Done1, [Frame(o) EXCEPT !.todo = Todo("ref", <<Top.obj>>)])
                  /\ saving' = saving \cup {o}
             ELSE /\ stack' = Done1 /\ UNCHANGED saving
    /\ Unchanged1 /\ UNCHANGED <<known, version, rows, pairs, aborted, result, inserts>>

\* cascadePostSave, ManyToMany: the peer is saved, then the row of the join table.
PostSavePeer ==
    /\ Running("save", "post") /\ HasTodo /\ Head(Top.todo).how = "peer"
    /\ LET o == Head(Top.todo).to
           rest == Below \o << [Top EXCEPT !.todo = <<[how |-> "pair", to |-> o]>> \o Tail(@)] >>
       IN IF Descends(o) THEN Push(o, rest)
          ELSE /\ stack' = rest /\ UNCHANGED saving
    /\ Unchanged1 /\ UNCHANGED <<ref, known, version, rows, pairs, aborted, result, inserts>>

PairTodo == Running("save", "post") /\ HasTodo /\ Head(Top.todo).how = "pair"

\* The row of the join table.  The error that it is there already is ignored; the
\* transaction may be aborted by it.
InsertPair ==
    /\ PairTodo /\ (aborted => ~known[Head(Top.todo).to])
    /\ LET o == Head(Top.todo).to
           row == <<RowOfObject(Top.obj), RowOfObject(o)>>
       IN /\ pairs' = IF known[o] THEN pairs \cup {row} ELSE pairs
          /\ aborted' = (aborted \/ (known[o] /\ row \in pairs /\ casc.aborts))
    /\ stack' = Done1
    /\ Unchanged1 /\ UNCHANGED <<ref, known, version, rows, saving, result, inserts>>

\* Any further statement of an aborted transaction is refused, with an error that
\* nobody ignores.
AbortedStatement ==
    /\ aborted
    /\ \/ Running("save", "pre") /\ ~HasTodo /\ ~(Top.obj = Root /\ known[Root] /\ IsClean)
       \/ PairTodo /\ known[Head(Top.todo).to]
    /\ RolledBack
    /\ Unchanged1 /\ UNCHANGED <<ref, known, version, aborted, saving, stack, inserts>>

\* The finally of cascadeSaveRelatedEntity: the entity may be saved again.
SaveReturns ==
    /\ Running("save", "post") /\ ~HasTodo /\ Len(stack) > 1
    /\ stack' = Below
    /\ saving' = saving \ {Top.obj}
    /\ Unchanged1 /\ UNCHANGED <<ref, known, version, rows, pairs, aborted, result, inserts>>

\* save() commits.  The COMMIT of an aborted transaction rolls it back and is no error.
SaveCommits ==
    /\ Running("save", "post") /\ ~HasTodo /\ Len(stack) = 1
    /\ stack' = Below
    /\ saving' = saving \ {Top.obj}
    /\ result' = "done"
    /\ IF aborted THEN rows' = rows0 /\ pairs' = pairs0 ELSE UNCHANGED <<rows, pairs>>
    /\ Unchanged1 /\ UNCHANGED <<ref, known, version, aborted, inserts>>

-----------------------------------------------------------------------------
(* Deleting.  The database refuses to delete a row that another one refers to. *)
(* delete() opens no transaction: what was deleted before stays deleted.        *)

ReferredTo(o) == \/ \E e \in Entities \ {o} : rows[e].there /\ rows[e].fk = o
                 \/ \E e \in Entities : <<e, o>> \in pairs \/ <<o, e>> \in pairs

RemoveRow(o, next) ==
    /\ IF rows[o].there /\ ReferredTo(o)
       THEN /\ result' = "refused" /\ UNCHANGED <<rows, stack>>
       ELSE /\ rows' = [rows EXCEPT ![o] = NoRow]
            /\ stack' = next
            /\ UNCHANGED result
    /\ Unchanged1 /\ UNCHANGED <<ref, known, version, aborted, saving, inserts>>

\* cascadePreDelete: the children, the rows of the join table, the peers.
PreDelete ==
    /\ Running("delete", "pre") /\ HasTodo /\ Head(Top.todo).how # "pair"
    /\ RemoveRow(Head(Top.todo).to, Done1)
    /\ UNCHANGED pairs

DeletePairs ==
    /\ Running("delete", "pre") /\ HasTodo /\ Head(Top.todo).how = "pair"
    /\ pairs' = {q \in pairs : q[1] # Root}
    /\ stack' = Done1
    /\ Unchanged1 /\ UNCHANGED <<ref, known, version, rows, aborted, saving, result, inserts>>

\* The owning relation's target before the row that points to it.
DeleteTargetFirst ==
    /\ Running("delete", "pre") /\ ~HasTodo
    /\ RemoveRow(IF casc.remove /\ ref[Root] # Nothing THEN ref[Root] ELSE Root,
                 << [obj |-> Root, phase |-> "post", todo |-> Todo("ref", <<Root>>)] >>)
    /\ UNCHANGED pairs

\* The row itself, with its version, then cascadePostDelete: the target of the owning
\* relation.
DeleteRoot ==
    /\ Running("delete", "pre") /\ ~HasTodo
    /\ IF casc.versioned /\ version[Root] # rows[Root].version
       THEN /\ result' = "refused"
            /\ Unchanged1 /\ UNCHANGED <<ref, known, version, rows, aborted, saving, stack, inserts>>
       ELSE RemoveRow(Root, << [obj |-> Root, phase |-> "post",
                                todo |-> IF casc.remove THEN RefTodo(Root) ELSE <<>>] >>)
    /\ UNCHANGED pairs

PostDelete ==
    /\ Running("delete", "post") /\ HasTodo
    /\ RemoveRow(Head(Top.todo).to, Done1)
    /\ UNCHANGED pairs

DeleteReturns ==
    /\ Running("delete", "post") /\ ~HasTodo
    /\ result' = "done" /\ stack' = <<>>
    /\ Unchanged1 /\ UNCHANGED <<ref, known, version, rows, pairs, aborted, saving, inserts>>

CascadesNext ==
    \/ PreSave \/ InsertRow \/ SkipUpdate \/ UpdateRoot \/ UpdateRow
    \/ PostSaveKid \/ PostSavePeer \/ InsertPair \/ AbortedStatement \/ SaveReturns \/ SaveCommits
    \/ PreDelete \/ DeletePairs \/ DeleteRoot \/ PostDelete \/ DeleteReturns

-----------------------------------------------------------------------------
(* Properties *)

Edges(o, r) == ({r[o]} \ {Nothing}) \cup ToSet(kids[o]) \cup ToSet(peers[o])

RECURSIVE Reach(_, _)
Reach(S, r) == LET T == S \cup UNION {Edges(o, r) : o \in S} IN IF T = S THEN S ELSE Reach(T, r)

\* As the relations are now: the children point to their parents.
Graph == [e \in Entities |-> IF ref[e] = Copy THEN Root ELSE ref[e]]

\* The row of e may be written while to, which has no id yet, is on the way.
TargetOnTheWay(e, to) ==
    /\ to \notin casc.stored
    /\ \/ to = Root
       \/ asked0[to] # Nothing /\ e \in Reach({asked0[to]}, asked0)

\* e may be on the way, its row written, when it is made to point to to.
HolderOnTheWay(e, to) ==
    to \in Reach({e}, [asked0 EXCEPT ![e] = IF @ = to THEN Nothing ELSE @])

\* What save() returns: the object made of the row, or the clean root.
Returned == IF known[Copy] THEN Copy ELSE Root

OnCycle(e, to) == TargetOnTheWay(e, to) \/ HolderOnTheWay(e, to)

\* A save whose relations cascade persist and merge stores the whole graph: a row
\* for every entity that can be reached, inserted once; in each row the key of the
\* entity its relation points to, and every pair in the join table.  Only a
\* relation that closes a cycle of unsaved entities, or that points to the instance
\* given to save() itself, may keep null or the old key (or its pair be left out).  With versions, an entity met
\* twice is not written the second time, so keys are promised only without; and nothing
\* is promised of a transaction that was aborted, see SaveIsWhole.
SaveStoresTheGraph ==
    op = "save" /\ result = "done" /\ ~aborted /\ casc.save = {"persist", "merge"} =>
        \A e \in Reach({Root}, Graph) :
            /\ rows[e].there
            /\ ~casc.versioned =>
                  LET to == ref[IF e = Root THEN Returned ELSE e]
                  IN \/ to = Nothing
                     \/ rows[e].fk = RowOfObject(to)
                     \/ rows[e].fk \in {Nothing, asked0[e]} /\ OnCycle(e, IF to = Copy THEN Root ELSE to)
            /\ \A q \in ToSet(peers[e]) : <<e, q>> \in pairs \/ (q \notin casc.stored /\ OnCycle(e, q))

\* The ways on which a save comes to e.
WaysTo(e, r) ==
    UNION {{<<f, how>> : how \in {h \in {"ref", "kid", "peer"} :
                                     \/ h = "ref" /\ r[f] = e
                                     \/ h = "kid" /\ e \in ToSet(kids[f])
                                     \/ h = "peer" /\ e \in ToSet(peers[f])}} : f \in Reach({Root}, r)}

\* A pair of the graph is stored already, or may be met twice by one save.
PairIsThere ==
    \E e \in Reach({Root}, Graph) :
        \/ \E q \in ToSet(peers[e]) : <<e, q>> \in pairs0
        \/ Cardinality(WaysTo(e, asked0) \cup WaysTo(e, Graph)) > 1

\* A save that throws has stored nothing, and throws only for a stale root, or for the
\* statement after one that aborted the transaction; a save that aborted its
\* transaction with its last statement stores nothing either, but resolves.  Only the
\* row of a join table aborts it, in PostgreSQL: one that is stored already, as in any
\* second save of an entity with peers, or whose entity is reached in two ways.
SaveIsWhole ==
    op = "save" =>
        /\ result = "refused" \/ (result = "done" /\ aborted) => rows = rows0 /\ pairs = pairs0
        /\ result = "refused" => aborted \/ (casc.versioned /\ Root \in casc.stale)
        /\ aborted => casc.aborts /\ PairIsThere

\* No entity is inserted twice, nor saved within its own save.
SavedOnce ==
    /\ \A e \in Entities : inserts[e] <= 1
    /\ \A i, j \in DOMAIN stack : i # j => stack[i].obj # stack[j].obj

\* What a delete is to delete, and the references to it from other rows: the order of
\* children, row and owner never trips over the keys between them.
Deleted == {Root} \cup (IF casc.remove
                        THEN ToSet(kids[Root]) \cup ToSet(peers[Root]) \cup ({asked0[Root]} \ {Nothing})
                        ELSE {})
FromOutside ==
    \/ \E e \in Entities : \E f \in Deleted \ {e} :
          /\ asked0[e] = f
          /\ ~(f = Root /\ e \in ToSet(kids[Root]) \cap Deleted)
          /\ ~(e = Root /\ casc.remove)
    \/ \E q \in pairs : q[1] # Root \/ ~casc.remove

\* A delete is refused only for such a reference, one that it does not follow, or for a
\* stale root; refused or not, only rows and pairs that the delete was to remove are gone,
\* and a delete that was not refused has removed them all.
DeleteOrder ==
    op = "delete" =>
        /\ result = "refused" => FromOutside \/ (casc.versioned /\ Root \in casc.stale)
        /\ \A e \in Entities \ Deleted : rows[e] = rows0[e]
        /\ pairs0 \ pairs \subseteq {q \in pairs0 : casc.remove /\ q[1] = Root}
        /\ result = "done" => \A e \in Deleted : ~rows[e].there

\* A save stores the graph it reaches, each entity of it once, or nothing, and a delete
\* goes in an order that the foreign keys allow.
CascadesHold == SaveStoresTheGraph /\ SaveIsWhole /\ SavedOnce /\ DeleteOrder
=============================================================================
