--------------------------- MODULE DerivedQueries ---------------------------
(***************************************************************************)
(* Finders that are named, not written: a method name is parsed, compiled  *)
(* once, and bound to arguments by every call; a call under a filter       *)
(* builds its query from criteria instead.  A name is the sequence of its  *)
(* capitalised words.                                                      *)
(***************************************************************************)
EXTENDS Naturals, Sequences, FiniteSets, SequencesExt

CONSTANTS Finders,        \* descriptors [props, connector, order]
          DigitWords,     \* words that end in a digit
          InLengths,      \* lengths of the array given to In
          MaxFinderCalls

ASSUME FindersAssumption == InLengths \subseteq Nat /\ MaxFinderCalls \in Nat

VARIABLES finder,     \* what the caller means: the descriptor its name was made from
          descriptors, \* descriptorCache: <<>>, or the parsed name
          compiled,   \* compiledQueryCache: <<>>, or the compiled query
          lengths,    \* of the arrays of the last call
          answered,   \* what the last call sends to the database, and by which path
          finderCalls

finderVars == <<finder, descriptors, compiled, lengths, answered, finderCalls>>

\* The operators, by how they use their arguments.
Operators == [Equals |-> <<>>, Containing |-> <<"Containing">>, Between |-> <<"Between">>,
              In |-> <<"In">>, NotIn |-> <<"Not", "In">>, Not |-> <<"Not">>, IsNull |-> <<"Is", "Null">>,
              SimilarTo |-> <<"Similar", "To">>]

ArgCount(op) == CASE op = "Between" -> 2 [] op = "IsNull" -> 0 [] OTHER -> 1
Spreads(op) == op \in {"In", "NotIn"}

\* The name that a descriptor is written as.
MethodName(d) ==
    [predicate |-> FlattenSeq([i \in DOMAIN d.props |->
                       (IF i = 1 THEN <<>> ELSE <<d.connector>>) \o d.props[i].name \o Operators[d.props[i].op]]),
     order |-> FlattenSeq([i \in DOMAIN d.order |-> d.order[i].name \o <<d.order[i].dir>>])]

-----------------------------------------------------------------------------
(* parseDerivedQueryMethod *)

\* findConnectorPositions: a capital follows every word, but a lower case letter
\* must stand before the connector.
ConnectorsIn(words, connector) ==
    {i \in DOMAIN words : words[i] = connector /\ (i = 1 \/ words[i - 1] \notin DigitWords)}

RECURSIVE SplitAt(_, _)
SplitAt(words, at) ==
    IF at = {} THEN <<words>>
    ELSE LET i == CHOOSE i \in at : \A j \in at : i <= j
         IN <<SubSeq(words, 1, i - 1)>> \o
            SplitAt(SubSeq(words, i + 1, Len(words)), {j - i : j \in at \ {i}})

EndsWith(words, suffix) ==
    /\ suffix # <<>> /\ Len(words) > Len(suffix)
    /\ SubSeq(words, Len(words) - Len(suffix) + 1, Len(words)) = suffix

\* The shortest operator that fits.
ParsePropertyShortest(words) ==
    LET fits == {op \in DOMAIN Operators : EndsWith(words, Operators[op])}
        op == IF fits = {} THEN "Equals"
              ELSE CHOOSE o \in fits : \A q \in fits : Len(Operators[o]) <= Len(Operators[q])
    IN [name |-> SubSeq(words, 1, Len(words) - Len(Operators[op])), op |-> op]

\* parsePropertyExpression: the longest operator that leaves a name.
ParseProperty(words) ==
    LET fits == {op \in DOMAIN Operators : EndsWith(words, Operators[op])}
        op == IF fits = {} THEN "Equals"
              ELSE CHOOSE o \in fits : \A q \in fits : Len(Operators[o]) >= Len(Operators[q])
    IN [name |-> SubSeq(words, 1, Len(words) - Len(Operators[op])), op |-> op]

\* splitProperties: And wins over Or.
ParsePredicate(words) ==
    LET ands == ConnectorsIn(words, "And")
        ors == ConnectorsIn(words, "Or")
        connector == IF ands = {} /\ ors # {} THEN "Or" ELSE "And"
        parts == SelectSeq(SplitAt(words, IF connector = "Or" THEN ors ELSE ands), LAMBDA p : p # <<>>)
    IN [props |-> [i \in DOMAIN parts |-> ParseProperty(parts[i])], connector |-> connector]

\* extractOrderBy: up to the first direction, and so on.
RECURSIVE ParseOrder(_)
ParseOrder(words) ==
    LET at == {i \in 2..Len(words) : words[i] \in {"Asc", "Desc"}}
    IN IF words = <<>> THEN <<>>
       ELSE IF at = {} THEN <<[name |-> words, dir |-> "Asc"]>>
       ELSE LET i == CHOOSE i \in at : \A j \in at : i <= j
            IN <<[name |-> SubSeq(words, 1, i - 1), dir |-> words[i]]>>
               \o ParseOrder(SubSeq(words, i + 1, Len(words)))

Parse(name) ==
    LET p == ParsePredicate(name.predicate)
    IN [props |-> p.props, connector |-> p.connector, order |-> ParseOrder(name.order)]

-----------------------------------------------------------------------------
(* Arguments: for a property that spreads an array, for the others a value.  Every *)
(* value is told by the argument it is part of.                                     *)

ArgsBefore(d, i) == FoldLeft(LAMBDA n, p : n + ArgCount(p.op), 0, SubSeq(d.props, 1, i - 1))

ArrayOf(a, len) == [k \in 1..len[a] |-> <<a, k>>]

Wrapped(op, v) == IF op = "Containing" THEN <<"like", v>> ELSE v

\* What the caller of a finder means by property i, with these arguments.
Meant(d, i, len) ==
    LET a == ArgsBefore(d, i) + 1
        op == d.props[i].op
    IN [name |-> d.props[i].name, op |-> op,
        values |-> IF Spreads(op) THEN ArrayOf(a, len)
                   ELSE [k \in 1..ArgCount(op) |-> Wrapped(op, <<a + k - 1, 0>>)]]

-----------------------------------------------------------------------------
(* QueryCompiler.compile and bindCompiledQuery *)

Near(d) == {i \in DOMAIN d.props : d.props[i].op = "SimilarTo"}

\* The placeholders in the order of the text: distances are in the ORDER BY.
InTextOrder(d) ==
    SelectSeq([i \in DOMAIN d.props |-> i], LAMBDA i : i \notin Near(d))
    \o SelectSeq([i \in DOMAIN d.props |-> i], LAMBDA i : i \in Near(d))

\* Placeholders are numbered, and arguments bound, in the order of the name.
Compile(d) ==
    [text |-> FlattenSeq([k \in DOMAIN InTextOrder(d) |->
                 LET i == InTextOrder(d)[k]
                 IN [n \in 1..ArgCount(d.props[i].op) |-> [prop |-> i, number |-> ArgsBefore(d, i) + n]]]),
     bindings |-> FlattenSeq([i \in DOMAIN d.props |->
                 [n \in 1..ArgCount(d.props[i].op) |-> [arg |-> ArgsBefore(d, i) + n, op |-> d.props[i].op]]]),
     order |-> d.order, distances |-> "first"]

\* As if all elements of an array took the number of the first.
RewrittenOnce(text, at, from, n) == [text EXCEPT ![at] = [prop |-> @.prop, numbers |-> [k \in 1..n |-> from]]]

\* No placeholder of an empty array is left: (1=0).
Rewritten(text, at, from, n) == [text EXCEPT ![at] = [prop |-> @.prop, numbers |-> [k \in 1..n |-> from + k - 1]]]

Bind(q, len) ==
    LET template == [k \in DOMAIN q.text |-> [prop |-> q.text[k].prop, numbers |-> <<q.text[k].number>>]]
        Step(acc, b) ==
            LET there == {k \in DOMAIN q.text : k > acc.at /\ q.text[k].number = acc.template}
                k == CHOOSE k \in there : TRUE
                n == IF Spreads(b.op) THEN len[b.arg] ELSE 1
                new == IF Spreads(b.op) THEN ArrayOf(b.arg, len) ELSE <<Wrapped(b.op, <<b.arg, 0>>)>>
            IN IF there = {}
               THEN [acc EXCEPT !.template = @ + 1,
                                !.params = IF Spreads(b.op) THEN @ ELSE @ \o new,
                                !.out = IF Spreads(b.op) THEN @ ELSE @ + 1]
               ELSE [template |-> acc.template + 1, at |-> k, out |-> acc.out + n,
                     params |-> acc.params \o new, text |-> Rewritten(acc.text, k, acc.out, n)]
    IN IF \A i \in DOMAIN q.bindings : ~Spreads(q.bindings[i].op)
       THEN [text |-> template,
             params |-> [i \in DOMAIN q.bindings |-> Wrapped(q.bindings[i].op, <<q.bindings[i].arg, 0>>)]]
       ELSE FoldLeft(Step, [template |-> 1, at |-> 0, out |-> 1, params |-> <<>>, text |-> template], q.bindings)

\* The values that the placeholders of property i stand for.
BoundTo(b, i) ==
    LET mine == SelectSeq(b.text, LAMBDA t : t.prop = i)
        numbers == FlattenSeq([k \in DOMAIN mine |-> mine[k].numbers])
    IN [k \in DOMAIN numbers |-> IF numbers[k] \in DOMAIN b.params THEN b.params[numbers[k]] ELSE "unbound"]

Sent(d, b, distances) ==
    [props |-> [i \in DOMAIN d.props |-> [name |-> d.props[i].name, op |-> d.props[i].op, values |-> BoundTo(b, i)]],
     connector |-> d.connector, order |-> d.order,
     distances |-> IF Near(d) = {} \/ d.order = <<>> THEN "any" ELSE distances]

\* buildDerivedQuery: the criteria in the order of the name, the filter's after them,
\* the distances last of the ORDER BY, each numbered as it is built.
BuildDerived(d, len) ==
    LET order == InTextOrder(d)
        Step(acc, i) ==
            LET m == Meant(d, i, len).values
            IN [text |-> Append(acc.text, [prop |-> i, numbers |-> [k \in DOMAIN m |-> Len(acc.params) + k]]),
                params |-> acc.params \o m]
        upToWhere == FoldLeft(Step, [text |-> <<>>, params |-> <<>>],
                              SelectSeq(order, LAMBDA i : i \notin Near(d)))
        filtered == [upToWhere EXCEPT !.params = Append(@, <<"filter", 0>>),
                                      !.text = Append(@, [prop |-> 0, numbers |-> <<Len(upToWhere.params) + 1>>])]
    IN FoldLeft(Step, filtered, SelectSeq(order, LAMBDA i : i \in Near(d)))

-----------------------------------------------------------------------------

NotSent == [path |-> "none"]

FindersStart(d) ==
    /\ finder = d
    /\ descriptors = <<>> /\ compiled = <<>> /\ lengths = <<>>
    /\ answered = NotSent
    /\ finderCalls = 0

FindersInit == \E d \in Finders : FindersStart(d)

\* getCachedDescriptor, getCompiledQuery
Descriptor == IF descriptors = <<>> THEN Parse(MethodName(finder)) ELSE descriptors[1]
Compiled == IF compiled = <<>> THEN Compile(Descriptor) ELSE compiled[1]

NumberOfArgs == ArgsBefore(finder, Len(finder.props) + 1)

\* createDerivedMethod: the first call of a name compiles it, filtered or not.
CallFinder(filtered, len) ==
    /\ finderCalls < MaxFinderCalls /\ finderCalls' = finderCalls + 1
    /\ descriptors' = <<Descriptor>> /\ compiled' = <<Compiled>>
    /\ lengths' = len
    /\ answered' = [path |-> IF filtered THEN "built" ELSE "compiled",
                    sent |-> IF filtered THEN Sent(Descriptor, BuildDerived(Descriptor, len), "last")
                             ELSE Sent(Descriptor, Bind(Compiled, len), Compiled.distances)]
    /\ UNCHANGED finder

\* Only the arguments that are arrays have a length to choose.
ArrayArgs == {ArgsBefore(finder, i) + 1 : i \in {j \in DOMAIN finder.props : Spreads(finder.props[j].op)}}
Lengths == {[a \in 1..NumberOfArgs |-> IF a \in ArrayArgs THEN f[a] ELSE 0] : f \in [ArrayArgs -> InLengths]}

FindersNext == \E filtered \in BOOLEAN, len \in Lengths : CallFinder(filtered, len)

-----------------------------------------------------------------------------
(* Properties *)

\* Every word before a connector ends in a lower case letter; no name ends as an
\* operator does.
Readable(d) ==
    /\ \A i \in DOMAIN d.props :
          LET words == d.props[i].name \o Operators[d.props[i].op]
          IN (i < Len(d.props) => words[Len(words)] \notin DigitWords)
    /\ \A i \in DOMAIN d.props : \A op \in DOMAIN Operators : ~EndsWith(d.props[i].name, Operators[op])

\* A distance that is not last in the name, or that comes with another order, is
\* where the compiled query goes wrong or differs from the built one.
PlainDistance(d) ==
    \A i \in Near(d) : /\ \A j \in DOMAIN d.props : j > i => j \in Near(d)
                       /\ d.order = <<>>

\* Whatever the arrays, a readable finder sends what its name means: its properties
\* in their order, each with its own arguments, by the compiled query as by the one
\* that is built beside a filter (createDerivedMethod, bindCompiledQuery).
FindersMeanTheirName ==
    answered # NotSent /\ Readable(finder) /\ PlainDistance(finder) =>
        answered.sent = [props |-> [i \in DOMAIN finder.props |-> Meant(finder, i, lengths)],
                         connector |-> finder.connector, order |-> finder.order,
                         distances |-> "any"]
=============================================================================
