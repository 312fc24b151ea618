------------------------------ MODULE EventLog ------------------------------
(***************************************************************************)
(* What the event store promises its callers: every aggregate has an       *)
(* append-only stream of events, a batch goes on the end of its stream in  *)
(* one step and only if the caller knew the stream's current length, and   *)
(* no event is ever in a stream twice.                                     *)
(***************************************************************************)
EXTENDS Naturals, Sequences

CONSTANTS Aggregates,  \* aggregate ids
          EventIds     \* every event the application may ever apply

VARIABLE log           \* log[a]: the events of aggregate a, oldest first

Init == log = [a \in Aggregates |-> <<>>]

\* Whether event e is already in some stream.
Recorded(e) == \E a \in Aggregates : \E i \in DOMAIN log[a] : log[a][i] = e

Append1(a, batch, expectedVersion) ==
    /\ batch # <<>>
    /\ Len(log[a]) = expectedVersion
    /\ \A i \in DOMAIN batch : ~ Recorded(batch[i])
    /\ \A i, j \in DOMAIN batch : i # j => batch[i] # batch[j]
    /\ log' = [log EXCEPT ![a] = @ \o batch]

\* A batch is a new tail of one stream; quantifying over the new stream
\* itself would not be checkable, so a step is recognised by what it added.
Next ==
    \E a \in Aggregates :
        LET old == Len(log[a])
            new == Len(log'[a])
        IN  /\ new > old
            /\ Append1(a, SubSeq(log'[a], old + 1, new), old)

Spec == Init /\ [][Next]_log
=============================================================================
