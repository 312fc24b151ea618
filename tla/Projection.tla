----------------------------- MODULE Projection -----------------------------
(***************************************************************************)
(* Reading the event store in batches: ProjectionRunner.processEvents and  *)
(* EventReplayer.replay are the same loop over EventStore.loadAllEvents.   *)
(*                                                                         *)
(* An event is its sequence number.  The database draws the number when    *)
(* the INSERT runs and shows the row when its transaction commits, so a    *)
(* lower number may appear after a higher one.  The caller of              *)
(* processNewEvents passes the highest sequence it has handled.            *)
(***************************************************************************)
EXTENDS Naturals, Sequences, FiniteSets, SequencesExt

CONSTANTS MaxSequence,    \* bound: sequence numbers drawn
          BatchSize,      \* events per loadAllEvents
          MaxRuns,        \* bound: calls of rebuild and processNewEvents
          NumericSequence \* drivers: whether one returns BIGSERIAL as a number

ASSUME ProjectionAssumption ==
    /\ MaxSequence \in Nat /\ BatchSize \in Nat \ {0} /\ MaxRuns \in Nat
    /\ NumericSequence \subseteq BOOLEAN

VARIABLES numeric,      \* the driver in use returns numbers
          drawn,        \* highest sequence number drawn
          visible,      \* committed events
          wasted,       \* numbers of INSERTs that were rolled back
          pc,           \* idle, load, handle, or how the last call ended
          lastSequence, \* of processEvents; 0 is undefined
          prevSequence, \* of processEvents
          fetched,      \* length of the batch last loaded
          events,       \* the part of the batch not yet handled
          since,        \* the call's argument
          atCall,       \* history: events visible when the call was made
          processed,    \* history: what the call has handled, at most MaxSequence entries
          handled,      \* history: what any call has handled
          runs          \* calls so far

vars == <<numeric, drawn, visible, wasted, pc, lastSequence, prevSequence, fetched,
          events, since, atCall, processed, handled, runs>>

table == <<numeric, drawn, visible, wasted>>

Init == /\ numeric \in NumericSequence
        /\ drawn = 0 /\ visible = {} /\ wasted = {}
        /\ pc = "idle"
        /\ lastSequence = 0 /\ prevSequence = 0 /\ fetched = 0
        /\ events = <<>>
        /\ since = 0 /\ atCall = {} /\ processed = <<>>
        /\ handled = {}
        /\ runs = 0

-----------------------------------------------------------------------------
\* An append: the number is drawn, and the transaction ends some time later.
Insert == /\ drawn < MaxSequence
          /\ drawn' = drawn + 1
          /\ UNCHANGED <<numeric, visible, wasted, pc, lastSequence, prevSequence, fetched,
                         events, since, atCall, processed, handled, runs>>

EndTransaction ==
    /\ \E n \in 1..drawn :
          /\ n \notin visible \cup wasted
          /\ \/ visible' = visible \cup {n} /\ UNCHANGED wasted
             \/ wasted' = wasted \cup {n} /\ UNCHANGED visible
    /\ UNCHANGED <<numeric, drawn, pc, lastSequence, prevSequence, fetched, events,
                   since, atCall, processed, handled, runs>>

-----------------------------------------------------------------------------
Highest(S) == CHOOSE m \in S \cup {0} : \A n \in S : n <= m

\* rebuild and replay start from nothing, processNewEvents from the checkpoint.
Call == /\ pc \notin {"load", "handle"} /\ runs < MaxRuns
        /\ runs' = runs + 1
        /\ \E from \in {0, Highest(handled)} :
              since' = from /\ lastSequence' = from /\ prevSequence' = from
        /\ pc' = "load"
        /\ atCall' = visible
        /\ processed' = <<>> /\ events' = <<>> /\ fetched' = 0
        /\ UNCHANGED <<table, handled>>

\* ORDER BY sequence ASC, of numbers no two of which are equal.
Ascending(S) == CHOOSE order \in [1..Cardinality(S) -> S] :
                    \A i, j \in DOMAIN order : i < j => order[i] < order[j]

\* loadAllEvents: WHERE sequence > from ORDER BY sequence ASC LIMIT limit
LoadAllEvents(from, limit) ==
    LET sorted == Ascending({n \in visible : n > from})
    IN SubSeq(sorted, 1, IF Len(sorted) < limit THEN Len(sorted) ELSE limit)

LoadBatch == /\ pc = "load"
             /\ LET batch == LoadAllEvents(lastSequence, BatchSize)
                IN /\ events' = batch
                   /\ fetched' = Len(batch)
                   /\ pc' = IF batch = <<>> THEN "returned" ELSE "handle"
             /\ prevSequence' = lastSequence
             /\ UNCHANGED <<table, lastSequence, since, atCall, processed, handled, runs>>

\* typeof event.sequence === "number"
Advance(n) == IF numeric THEN n ELSE lastSequence

\* The awaited handler returns.
Handle == /\ pc = "handle" /\ events # <<>>
          /\ events' = Tail(events)
          /\ processed' = IF Len(processed) < MaxSequence
                          THEN Append(processed, Head(events)) ELSE processed
          /\ handled' = handled \cup {Head(events)}
          /\ lastSequence' = Advance(Head(events))
          /\ UNCHANGED <<table, pc, prevSequence, fetched, since, atCall, runs>>

HandlerThrows == /\ pc = "handle" /\ events # <<>>
                 /\ pc' = "threw"
                 /\ events' = <<>>
                 /\ UNCHANGED <<table, lastSequence, prevSequence, fetched, since,
                                atCall, processed, handled, runs>>

StopsAfterFirstBatch == fetched <= BatchSize

StopsOnShortBatch == fetched < BatchSize

\* No progress, or the last batch.
Stops == \/ lastSequence = prevSequence /\ fetched = BatchSize
         \/ fetched < BatchSize

BatchDone == /\ pc = "handle" /\ events = <<>>
             /\ pc' = IF Stops THEN "returned" ELSE "load"
             /\ UNCHANGED <<table, lastSequence, prevSequence, fetched, events, since,
                            atCall, processed, handled, runs>>

Next == \/ Insert \/ EndTransaction
        \/ Call \/ LoadBatch \/ Handle \/ HandlerThrows \/ BatchDone

\* The awaits of the loop settle.
Spec == Init /\ [][Next]_vars /\ WF_vars(LoadBatch \/ Handle \/ BatchDone)

-----------------------------------------------------------------------------
(* Properties *)

\* Every variable keeps its type; the loop's position never runs ahead of what
\* it has handled.
TypeOK ==
    /\ drawn \in 0..MaxSequence
    /\ visible \subseteq 1..drawn /\ wasted \subseteq 1..drawn
    /\ pc \in {"idle", "load", "handle", "returned", "threw"}
    /\ fetched \in 0..BatchSize /\ runs \in 0..MaxRuns
    /\ events \in Seq(visible) /\ Len(events) <= fetched
    /\ handled \subseteq visible /\ atCall \subseteq visible
    /\ lastSequence \in {since} \cup ToSet(processed)

\* One call hands every event to its handler at most once and in the order of
\* the sequence, although events become visible between its batches.
OncePerCall ==
    \A i, j \in DOMAIN processed : i < j => processed[i] < processed[j]

\* A call that returns has handled every event after its starting point that
\* was in the store when it was made, however many batches that took, if the
\* driver returns numbers.
CompleteAtReturn ==
    pc = "returned" /\ numeric => {n \in atCall : n > since} \subseteq ToSet(processed)

\* One call hands over what was in the store, each event once and in order
\* (processEvents).
EveryEventOnce == TypeOK /\ OncePerCall /\ CompleteAtReturn

\* A call ends although appends go on: the loop cannot turn for ever on the
\* same batch.
CallEnds == pc = "load" ~> pc \in {"returned", "threw"}

\* The same whatever the driver returns.
CompleteWithAnyDriver ==
    pc = "returned" => {n \in atCall : n > since} \subseteq ToSet(processed)
=============================================================================
