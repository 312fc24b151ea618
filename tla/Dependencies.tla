---------------------------- MODULE Dependencies ----------------------------
(***************************************************************************)
(* The depth-first order of plugins, and of seeds, by what they depend on. *)
(***************************************************************************)
EXTENDS Naturals, Sequences, FiniteSets, SequencesExt

\* visit(name): what is found after names that were found before.
RECURSIVE Visit(_, _, _)
Visit(n, deps, s) ==
    IF ~s.ok \/ n \in ToSet(s.ordered) THEN s
    ELSE IF n \in s.visiting \/ n \notin s.known THEN [s EXCEPT !.ok = FALSE]
    ELSE LET after == FoldLeft(LAMBDA t, d : Visit(d, deps, t),
                               [s EXCEPT !.visiting = @ \cup {n}], deps[n])
         IN IF after.ok THEN [after EXCEPT !.ordered = Append(@, n), !.visiting = @ \ {n}]
            ELSE after

\* The order of registration (for a mutant).
DependencyOrderAnyway(names, deps) ==
    [ordered |-> names, visiting |-> {}, known |-> ToSet(names), ok |-> TRUE]

\* The names in the order of their dependencies, or ok = FALSE: it throws.
DependencyOrder(names, deps) ==
    FoldLeft(LAMBDA s, n : Visit(n, deps, s),
             [ordered |-> <<>>, visiting |-> {}, known |-> ToSet(names), ok |-> TRUE], names)

\* What the order has to be: there is one unless a name is unknown or depends on itself,
\* and then every name comes once, after all that it depends on.
Dependable(names, deps) ==
    /\ \A i \in DOMAIN names : ToSet(deps[names[i]]) \subseteq ToSet(names)
    /\ \A s \in SUBSET ToSet(names) : s # {} => \E n \in s : ToSet(deps[n]) \cap s = {}

OrderedByDependencies(names, deps) ==
    LET o == DependencyOrder(names, deps)
    IN /\ o.ok <=> Dependable(names, deps)
       /\ o.ok => /\ ToSet(o.ordered) = ToSet(names) /\ Len(o.ordered) = Len(names)
                  /\ \A i \in DOMAIN o.ordered :
                         ToSet(deps[o.ordered[i]]) \subseteq {o.ordered[j] : j \in 1..(i - 1)}
=============================================================================
