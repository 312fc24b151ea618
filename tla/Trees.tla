------------------------------- MODULE Trees -------------------------------
(***************************************************************************)
(* Trees of entities, by one of two managers: ClosureTableManager keeps a  *)
(* row for every ancestor and descendant, in several statements per call,  *)
(* MaterializedPathManager a path in every node.  Callers run in           *)
(* autocommit; a statement is atomic.  parent is the tree the calls have   *)
(* made so far, by their effects.                                          *)
(***************************************************************************)
EXTENDS Naturals, Sequences, FiniteSets, SequencesExt

CONSTANTS TreeKinds,     \* of "closure", "path"
          Nodes, TreeCallers,
          NoNode,
          MaxTreeCalls, MaxTreeFaults

ASSUME TreesAssumption ==
    /\ TreeKinds \subseteq {"closure", "path"}
    /\ NoNode \notin Nodes /\ IsFiniteSet(Nodes)
    /\ MaxTreeCalls \in Nat /\ MaxTreeFaults \in Nat

VARIABLES treeKind,
          parent,    \* history: parent[n], NoNode for a root
          present,   \* nodes in the tree
          closure,   \* rows <<ancestor, descendant, depth>>
          path,      \* path[n]: the ids from the root to n, <<>> if not present
          treeCall,  \* what each caller is at
          tangled,   \* history: a call acted on a node that is no longer as it was
          treeCalls, treeFaults

treeVars == <<treeKind, parent, present, closure, path, treeCall, tangled, treeCalls, treeFaults>>

NoCall == [at |-> "idle", node |-> NoNode, to |-> NoNode, from |-> <<>>, under |-> <<>>]

\* From n to its root; a parent relation with a cycle is cut.
Chain(p, n) ==
    LET up[k \in 0..Cardinality(Nodes)] ==
            IF k = 0 THEN <<n>>
            ELSE IF p[Head(up[k - 1])] = NoNode THEN up[k - 1]
            ELSE <<p[Head(up[k - 1])]>> \o up[k - 1]
    IN up[Cardinality(Nodes)]

Acyclic(p, S) == \A n \in S : Len(Chain(p, n)) <= Cardinality(S)

\* The closure and the paths of a forest.
ClosureOf(p, S) ==
    UNION {{<<Chain(p, n)[i], n, Len(Chain(p, n)) - i>> : i \in DOMAIN Chain(p, n)} : n \in S}
PathsOf(p, S) == [n \in Nodes |-> IF n \in S THEN Chain(p, n) ELSE <<>>]

Forests(S) == {p \in [Nodes -> S \cup {NoNode}] : (\A n \in Nodes \ S : p[n] = NoNode) /\ Acyclic(p, S)}

TreeStart(k, p, S) ==
    /\ treeKind = k
    /\ parent = p /\ present = S
    /\ closure = IF k = "closure" THEN ClosureOf(p, S) ELSE {}
    /\ path = IF k = "path" THEN PathsOf(p, S) ELSE [n \in Nodes |-> <<>>]
    /\ treeCall = [c \in TreeCallers |-> NoCall]
    /\ tangled = FALSE /\ treeCalls = 0 /\ treeFaults = 0

TreesInit == \E k \in TreeKinds, S \in SUBSET Nodes : \E p \in Forests(S) : TreeStart(k, p, S)

-----------------------------------------------------------------------------
(* Calls *)

Enter(c, call) == /\ treeCall[c] = NoCall /\ treeCalls < MaxTreeCalls
                  /\ treeCalls' = treeCalls + 1
                  /\ treeCall' = [treeCall EXCEPT ![c] = call]

Leave(c) == treeCall' = [treeCall EXCEPT ![c] = NoCall]

At(c, where) == treeCall[c].at = where

-----------------------------------------------------------------------------
(* ClosureTableManager *)

SubtreeIds(n) == {row[2] : row \in {x \in closure : x[1] = n}}
PathsTo(n) == {row \in closure : row[2] = n}
IsUnder(n, m) == \E row \in closure : row[1] = m /\ row[2] = n /\ row[3] > 0

\* insertNode: the row of the node itself ...
InsertNode(c, n, p) ==
    /\ treeKind = "closure" /\ n \notin present /\ p \in present \cup {NoNode}
    /\ Enter(c, IF p = NoNode THEN NoCall ELSE [NoCall EXCEPT !.at = "copy", !.node = n, !.to = p])
    /\ present' = present \cup {n}
    /\ closure' = closure \cup {<<n, n, 0>>}
    /\ UNCHANGED <<treeKind, parent, path, tangled, treeFaults>>

\* An INSERT that meets a row with the same ancestor and descendant is refused.
Conflicts(rows) == \E x \in rows, y \in closure : x[1] = y[1] /\ x[2] = y[2]

\* n comes under to, as far as that is there; astray: not as the call has left it.
Attached(n, to, astray) ==
    /\ parent' = [parent EXCEPT ![n] = IF to \in present /\ n \in present THEN to ELSE NoNode]
    /\ tangled' = (tangled \/ astray \/ parent[n] # NoNode \/ to \in SubtreeIds(n))

\* ... and the rows of its parent's ancestors, if there is a parent.
CopyAncestors(c) ==
    /\ At(c, "copy")
    /\ LET n == treeCall[c].node
           rows == {<<row[1], n, row[3] + 1>> : row \in PathsTo(treeCall[c].to)}
       IN IF Conflicts(rows) THEN UNCHANGED <<closure, parent, tangled>>
          ELSE /\ closure' = closure \cup rows
               /\ Attached(n, treeCall[c].to, SubtreeIds(n) # {n})
    /\ Leave(c)
    /\ UNCHANGED <<treeKind, present, path, treeCalls, treeFaults>>

\* moveNode: not under a descendant or itself, as the table is now.
MoveNode(c, n, to) ==
    /\ treeKind = "closure" /\ {n, to} \subseteq present /\ n # to
    /\ ~IsUnder(to, n)
    /\ Enter(c, [NoCall EXCEPT !.at = "detach", !.node = n, !.to = to])
    /\ UNCHANGED <<treeKind, parent, present, closure, path, tangled, treeFaults>>

\* The rows within the subtree go, too.
DetachAll(c) ==
    /\ At(c, "detach")
    /\ LET n == treeCall[c].node
       IN /\ closure' = {row \in closure : row[2] \in SubtreeIds(n) => row[1] = row[2]}
          /\ parent' = [parent EXCEPT ![n] = NoNode]
    /\ treeCall' = [treeCall EXCEPT ![c].at = "attach"]
    /\ UNCHANGED <<treeKind, present, path, tangled, treeCalls, treeFaults>>

\* Its first write: the rows from outside into the subtree go.
Detach(c) ==
    /\ At(c, "detach")
    /\ LET n == treeCall[c].node
       IN /\ closure' = {row \in closure : row[2] \in SubtreeIds(n) => row[1] \in SubtreeIds(n)}
          /\ parent' = [parent EXCEPT ![n] = NoNode]
    /\ treeCall' = [treeCall EXCEPT ![c].at = "attach"]
    /\ UNCHANGED <<treeKind, present, path, tangled, treeCalls, treeFaults>>

\* Its second: every ancestor of the new parent gets every node of the subtree.
NewRows(n, to) ==
    {<<a[1], d[2], a[3] + d[3] + 1>> : a \in PathsTo(to), d \in {row \in closure : row[1] = n}}

Attach(c) ==
    /\ At(c, "attach")
    /\ LET n == treeCall[c].node
           rows == NewRows(n, treeCall[c].to)
       IN IF Conflicts(rows) \/ \E x, y \in rows : x # y /\ x[1] = y[1] /\ x[2] = y[2]
          THEN UNCHANGED <<closure, parent, tangled>>
          ELSE /\ closure' = closure \cup rows
               /\ Attached(n, treeCall[c].to, FALSE)
    /\ Leave(c)
    /\ UNCHANGED <<treeKind, present, path, treeCalls, treeFaults>>

\* deleteNode: all rows into the subtree.
DeleteNode(c, n) ==
    /\ treeKind = "closure" /\ n \in present
    /\ Enter(c, NoCall)
    /\ closure' = {row \in closure : row[2] \notin SubtreeIds(n)}
    /\ present' = present \ SubtreeIds(n)
    /\ parent' = [m \in Nodes |-> IF m \in SubtreeIds(n) THEN NoNode ELSE parent[m]]
    /\ UNCHANGED <<treeKind, path, tangled, treeFaults>>

\* A statement fails, or the caller dies, between two statements.
CallDies(c) ==
    /\ treeCall[c] # NoCall /\ treeFaults < MaxTreeFaults
    /\ treeFaults' = treeFaults + 1
    /\ Leave(c)
    /\ UNCHANGED <<treeKind, parent, present, closure, path, tangled, treeCalls>>

-----------------------------------------------------------------------------
(* MaterializedPathManager.  An id has no separator and no wildcard of LIKE *)
(* in it and every path begins and ends with a separator, so that LIKE      *)
(* path% is the prefix of the ids.                                          *)

\* buildPath, and the INSERT of the entity.
BuildPath(c, n, p) ==
    /\ treeKind = "path" /\ n \notin present /\ p \in present \cup {NoNode}
    /\ Enter(c, NoCall)
    /\ present' = present \cup {n}
    /\ path' = [path EXCEPT ![n] = IF p = NoNode THEN <<n>> ELSE Append(path[p], n)]
    /\ parent' = [parent EXCEPT ![n] = p]
    /\ UNCHANGED <<treeKind, closure, tangled, treeFaults>>

\* A caller of moveNode has read the paths of both nodes.
ReadPaths(c, n, to) ==
    /\ treeKind = "path" /\ {n, to} \subseteq present
    /\ Enter(c, [at |-> "move", node |-> n, to |-> to, from |-> path[n], under |-> path[to]])
    /\ UNCHANGED <<treeKind, parent, present, closure, path, tangled, treeFaults>>

\* moveNode: refused if the new path begins with the old one; every path that
\* begins with the old one gets the new one in its place.
MovePaths(c) ==
    /\ At(c, "move")
    /\ LET n == treeCall[c].node
           old == treeCall[c].from
           new == Append(treeCall[c].under, n)
       IN IF IsPrefix(old, treeCall[c].under) THEN UNCHANGED <<path, parent, tangled>>
          ELSE /\ path' = [m \in Nodes |-> IF m \in present /\ IsPrefix(old, path[m])
                                           THEN new \o SubSeq(path[m], Len(old) + 1, Len(path[m]))
                                           ELSE path[m]]
               /\ parent' = [parent EXCEPT ![n] = treeCall[c].to]
               /\ tangled' = (tangled \/ path[n] # old \/ path[treeCall[c].to] # treeCall[c].under)
    /\ Leave(c)
    /\ UNCHANGED <<treeKind, present, closure, treeCalls, treeFaults>>

TreesNext ==
    \E c \in TreeCallers :
        \/ \E n \in Nodes, p \in Nodes \cup {NoNode} : InsertNode(c, n, p) \/ BuildPath(c, n, p)
        \/ \E n, to \in Nodes : MoveNode(c, n, to) \/ ReadPaths(c, n, to)
        \/ \E n \in Nodes : DeleteNode(c, n)
        \/ CopyAncestors(c) \/ Detach(c) \/ Attach(c) \/ CallDies(c) \/ MovePaths(c)

-----------------------------------------------------------------------------
(* What the managers answer *)

FindDescendants(n, maxDepth) == {row[2] : row \in {x \in closure : x[1] = n /\ x[3] > 0 /\ x[3] <= maxDepth}}
FindAncestors(n) == {row[1] : row \in {x \in PathsTo(n) : x[3] > 0}}
FindRoots == {row[1] : row \in {x \in closure : x[3] = 0 /\ ~ \E y \in closure : y[2] = x[1] /\ y[3] > 0}}
FindLeaves == {row[2] : row \in {x \in closure : x[3] = 0 /\ ~ \E y \in closure : y[1] = x[2] /\ y[3] > 0}}
GetDepth(n) == CHOOSE d \in {row[3] : row \in PathsTo(n)} : \A row \in PathsTo(n) : row[3] <= d
FindChildren(n) == {row[2] : row \in {x \in closure : x[1] = n /\ x[3] = 1}}

GetDepthFromPath(q) == Len(q) - 1
AncestorIdsFromPath(q) == SubSeq(q, 1, Len(q) - 1)
Separators(q) == Len(q) + 1   \* one before each id, and the last one

\* findDescendants, without and with a maxDepth.
PathDescendants(n) == {m \in present : IsPrefix(path[n], path[m]) /\ path[m] # path[n]}
PathDescendantsTo(n, maxDepth) ==
    {m \in PathDescendants(n) : Separators(path[m]) <= GetDepthFromPath(path[n]) + maxDepth + 1}
PathRoots == {n \in present : Len(path[n]) = 1}
PathLeaves == {n \in present : ~ \E m \in present \ {n} : IsPrefix(path[n], path[m])}

-----------------------------------------------------------------------------
(* Properties *)

Children(n) == {m \in present : parent[m] = n}
AncestorsOf(n) == {Chain(parent, n)[i] : i \in DOMAIN Chain(parent, n)} \ {n}
Within(n, d) == {m \in present \ {n} : n \in AncestorsOf(m) /\ Len(Chain(parent, m)) - Len(Chain(parent, n)) <= d}

\* The closure table is the reflexive and transitive closure of a forest, with its
\* depths, after every statement of every call, although callers move, insert and
\* delete beside each other, fail between two statements and leave a subtree
\* detached; the paths are those of the forest; and what the managers find in them
\* is what the forest has.  Only two moves of one node, a move under what another
\* call has meanwhile put into its subtree, or a node that is deleted or gets a
\* child between the two statements of its insertion, put it in disorder, and for
\* paths a move with a path that is no longer true.
TreesAreForests ==
    ~tangled /\ treeKind = "closure" =>
        /\ Acyclic(parent, present)
        /\ closure = ClosureOf(parent, present)
        /\ FindRoots = {n \in present : parent[n] = NoNode}
        /\ FindLeaves = {n \in present : Children(n) = {}}
        /\ \A n \in present : /\ FindAncestors(n) = AncestorsOf(n)
                              /\ FindChildren(n) = Children(n)
                              /\ GetDepth(n) = Cardinality(AncestorsOf(n))
                              /\ \A d \in 1..2 : FindDescendants(n, d) = Within(n, d)

\* The same of the materialized paths, but for a findDescendants with a maxDepth: the
\* node itself has its depth and two separators, and the query allows its descendants
\* maxDepth + 1 beyond the depth.  It finds those less than maxDepth below the node,
\* none for 1, where the closure table finds those at most maxDepth below.
PathsAreForests ==
    ~tangled /\ treeKind = "path" =>
        /\ path = PathsOf(parent, present)
        /\ PathRoots = {n \in present : parent[n] = NoNode}
        /\ PathLeaves = {n \in present : Children(n) = {}}
        /\ \A n \in present : /\ GetDepthFromPath(path[n]) = Cardinality(AncestorsOf(n))
                              /\ Range(AncestorIdsFromPath(path[n])) = AncestorsOf(n)
                              /\ PathDescendants(n) = {m \in present : n \in AncestorsOf(m)}
                              /\ \A d \in 1..3 : PathDescendantsTo(n, d) = Within(n, d - 1)

\* Whichever way a tree is stored, its queries answer from a forest.
TreesHold == TreesAreForests /\ PathsAreForests
=============================================================================
