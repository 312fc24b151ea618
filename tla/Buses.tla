------------------------------- MODULE Buses -------------------------------
(***************************************************************************)
(* Who handles a message: EventBus of the repositories                     *)
(* (data/src/events/event-bus.ts), for one event; InMemoryEventBusAdapter  *)
(* of the outbox; and CommandBus with its built-in middlewares             *)
(* (event-sourcing/src/command), for one type of command.                  *)
(*                                                                         *)
(* A list of handlers is an object that running emits share with the bus:  *)
(* the lists are kept in a sequence, and the bus, like an emit, has the    *)
(* index of one.  What handlers do, themselves or while others await, is   *)
(* any call of the bus.  A middleware is its kind; the chain of a dispatch *)
(* is read from the outside in, as `use` has registered it.  Between two   *)
(* awaits of a dispatch anything may happen to the bus.                    *)
(***************************************************************************)
EXTENDS Naturals, Sequences, FiniteSets, SequencesExt

CONSTANTS BusKinds,     \* of "events", "adapter"
          Handlers, Emitters,
          EventKinds,
          MaxEntries,   \* registrations, by on, once or subscribe
          MaxEmits,
          Dispatchers,
          Middlewares,     \* of "log", "validate", "retry"
          MaxMiddlewares, MaxRetries,
          MaxRegistrations, MaxDispatches

ASSUME BusesAssumption ==
    /\ BusKinds \subseteq {"events", "adapter"}
    /\ IsFiniteSet(Emitters) /\ IsFiniteSet(EventKinds)
    /\ MaxEntries \in Nat /\ MaxEmits \in Nat

ASSUME CommandsAssumption ==
    /\ Middlewares \subseteq {"log", "validate", "retry"}
    /\ MaxMiddlewares \in Nat /\ MaxRetries \in Nat /\ MaxRegistrations \in Nat /\ MaxDispatches \in Nat

VARIABLES bus,
          entries,   \* entries[i]: the registration i
          lists,     \* lists[k]: the entries of a list, in their order
          listeners, \* the list of the event, 0 if it has none
          emit,      \* what each emit is at
          emits,
          unlisted,  \* history: an emit has removed a list that was not its own
          subscriptions, \* id |-> what was subscribed, as a sequence of records
          connected,
          publishing     \* the running publish

busVars == <<bus, entries, lists, listeners, emit, emits, unlisted, subscriptions, connected, publishing>>

NoEmit == [list |-> 0, snapshot |-> <<>>, next |-> 1, once |-> {}]
NotPublishing == [events |-> <<>>, event |-> 0, at |-> 0]

Listed == IF listeners = 0 THEN <<>> ELSE lists[listeners]

BusesStart(k) ==
    /\ bus = k
    /\ entries = <<>> /\ lists = <<>> /\ listeners = 0
    /\ emit = [m \in Emitters |-> NoEmit] /\ emits = 0 /\ unlisted = FALSE
    /\ subscriptions = <<>> /\ connected = FALSE /\ publishing = NotPublishing

BusesInit == \E k \in BusKinds : BusesStart(k)

Adapter == <<bus, subscriptions, connected, publishing>>

-----------------------------------------------------------------------------
(* EventBus *)

\* addHandler, of on and once.
AddHandler(h, once) ==
    /\ bus = "events" /\ Len(entries) < MaxEntries
    /\ entries' = Append(entries, [handler |-> h, once |-> once, consumed |-> FALSE,
                                   calls |-> 0, due |-> 0, removed |-> FALSE])
    /\ IF listeners = 0
       THEN /\ lists' = Append(lists, <<Len(entries) + 1>>)
            /\ listeners' = Len(lists) + 1
       ELSE /\ lists' = [lists EXCEPT ![listeners] = Append(@, Len(entries) + 1)]
            /\ UNCHANGED listeners
    /\ UNCHANGED <<emit, emits, unlisted, Adapter>>

Gone(S) == [i \in DOMAIN entries |-> [entries[i] EXCEPT !.removed = @ \/ i \in S]]

\* off: the first entry of the handler, and the list with its last entry.
Off(h) ==
    /\ \E i \in ToSet(Listed) : entries[i].handler = h
    /\ LET at == SelectInSeq(Listed, LAMBDA i : entries[i].handler = h)
           rest == RemoveAt(Listed, at)
       IN /\ lists' = [lists EXCEPT ![listeners] = rest]
          /\ entries' = Gone({Listed[at]})
          /\ listeners' = IF rest = <<>> THEN 0 ELSE listeners
    /\ UNCHANGED <<emit, emits, unlisted, Adapter>>

\* The list itself keeps its entries.
RemoveAllListeners ==
    /\ listeners # 0
    /\ listeners' = 0
    /\ entries' = Gone(ToSet(Listed))
    /\ UNCHANGED <<lists, emit, emits, unlisted, Adapter>>

\* The first entry of the snapshot from i on that was not consumed.
ToCall(snapshot, i) ==
    LET rest == {k \in i..Len(snapshot) : ~(entries[snapshot[k]].once /\ entries[snapshot[k]].consumed)}
    IN IF rest = {} THEN 0 ELSE CHOOSE k \in rest : \A l \in rest : k <= l

\* History: an emit that begins has to call everything in its snapshot.
Due(e) == [i \in DOMAIN entries |->
              [entries[i] EXCEPT !.due = IF e.next = 1 /\ i \in ToSet(e.snapshot) THEN @ + 1 ELSE @]]

\* As if nobody marked an entry of once.
CalledUnmarked(m, e, k) ==
    /\ emit' = [emit EXCEPT ![m] = [e EXCEPT !.next = k]]
    /\ entries' = [Due(e) EXCEPT ![e.snapshot[k]].calls = @ + 1]

\* The handler is called, its entry is marked before.
Called(m, e, k) ==
    /\ emit' = [emit EXCEPT ![m] = [e EXCEPT !.next = k]]
    /\ entries' = [Due(e) EXCEPT ![e.snapshot[k]].consumed = @ \/ entries[e.snapshot[k]].once,
                                  ![e.snapshot[k]].calls = @ + 1]

\* The once entries it has called leave its list; an empty list is no longer the
\* event's, and the event has none, whichever list it has now.
Finished(m, e) ==
    LET rest == SelectSeq(lists[e.list], LAMBDA i : i \notin e.once)
    IN /\ lists' = [lists EXCEPT ![e.list] = rest]
       /\ listeners' = IF rest = <<>> THEN 0 ELSE listeners
       /\ unlisted' = (unlisted \/ (rest = <<>> /\ listeners \notin {0, e.list}))
       /\ emit' = [emit EXCEPT ![m] = NoEmit]
       /\ entries' = Due(e)

\* On with the snapshot, until a handler is called or none is left.
Continue(m, e) ==
    LET k == ToCall(e.snapshot, e.next)
    IN IF k = 0 THEN Finished(m, e)
       ELSE Called(m, e, k) /\ UNCHANGED <<lists, listeners, unlisted>>

Emit(m) ==
    /\ emit[m] = NoEmit /\ emits < MaxEmits
    /\ Listed # <<>>
    /\ emits' = emits + 1
    /\ Continue(m, [NoEmit EXCEPT !.list = listeners, !.snapshot = Listed])
    /\ UNCHANGED Adapter

\* Its handler has returned, or has thrown: the error waits for the end.
HandlerReturns(m) ==
    /\ emit[m] # NoEmit
    /\ LET e == emit[m]
           i == e.snapshot[e.next]
       IN Continue(m, [e EXCEPT !.next = @ + 1, !.once = IF entries[i].once THEN @ \cup {i} ELSE @])
    /\ UNCHANGED <<emits, Adapter>>

-----------------------------------------------------------------------------
(* InMemoryEventBusAdapter *)

Bus == <<bus, entries, lists, listeners, emit, emits, unlisted>>

Connect ==
    /\ bus = "adapter" /\ ~connected
    /\ connected' = TRUE
    /\ UNCHANGED <<subscriptions, publishing, Bus>>

\* The ids go up: a later subscription comes later in the Map.
Subscribe(kinds) ==
    /\ connected
    /\ Len(subscriptions) < MaxEntries
    /\ subscriptions' = Append(subscriptions, [kinds |-> kinds, live |-> TRUE, got |-> <<>>,
                                               since |-> publishing.event])
    /\ UNCHANGED <<connected, publishing, Bus>>

Unsubscribe(i) ==
    /\ subscriptions[i].live
    /\ subscriptions' = [subscriptions EXCEPT ![i].live = FALSE]
    /\ UNCHANGED <<connected, publishing, Bus>>

Disconnect ==
    /\ connected
    /\ connected' = FALSE
    /\ subscriptions' = [i \in DOMAIN subscriptions |-> [subscriptions[i] EXCEPT !.live = FALSE]]
    /\ UNCHANGED <<publishing, Bus>>

Wanted(kinds, k) == kinds = {} \/ k \in kinds   \* {} stands for "*"

\* The deliveries of p that are left, in their order, as the Map is now.
Left(p) == {d \in (DOMAIN p.events) \X (DOMAIN subscriptions) :
               /\ subscriptions[d[2]].live /\ Wanted(subscriptions[d[2]].kinds, p.events[d[1]])
               /\ \/ d[1] > p.event
                  \/ (d[1] = p.event /\ d[2] > p.at)}

Before(d, e) == d[1] < e[1] \/ (d[1] = e[1] /\ d[2] <= e[2])

\* History: no publish runs.
Fresh(subs) == [i \in DOMAIN subs |-> [subs[i] EXCEPT !.got = <<>>, !.since = 0]]

\* On to the next handler, until none is left.
Visit(p, got) ==
    IF Left(p) = {} THEN publishing' = NotPublishing /\ subscriptions' = Fresh(got)
    ELSE LET d == CHOOSE x \in Left(p) : \A y \in Left(p) : Before(x, y)
         IN /\ publishing' = [p EXCEPT !.event = d[1], !.at = d[2]]
            /\ subscriptions' = [got EXCEPT ![d[2]].got = Append(@, d[1])]

Publish(news) ==
    /\ connected /\ publishing = NotPublishing /\ emits < MaxEmits
    /\ emits' = emits + 1
    /\ Visit([events |-> news, event |-> 1, at |-> 0],
               [i \in DOMAIN subscriptions |-> [subscriptions[i] EXCEPT !.got = <<>>, !.since = 1]])
    /\ UNCHANGED <<entries, lists, listeners, emit, unlisted, connected, bus>>

SubscriberReturns ==
    /\ publishing # NotPublishing
    /\ Visit(publishing, subscriptions)
    /\ UNCHANGED <<connected, Bus>>

\* The rest of the subscribers, and of the events, get nothing: publish throws.
SubscriberThrows ==
    /\ publishing # NotPublishing
    /\ publishing' = NotPublishing
    /\ subscriptions' = Fresh(subscriptions)
    /\ UNCHANGED <<connected, Bus>>

BusesNext ==
    \/ \E h \in Handlers, once \in BOOLEAN : AddHandler(h, once)
    \/ \E h \in Handlers : Off(h)
    \/ RemoveAllListeners \/ Connect \/ Disconnect \/ SubscriberReturns \/ SubscriberThrows
    \/ \E m \in Emitters : Emit(m) \/ HandlerReturns(m)
    \/ \E kinds \in SUBSET EventKinds : Subscribe(kinds)
    \/ \E i \in DOMAIN subscriptions : Unsubscribe(i)
    \/ \E a, b \in EventKinds : Publish(<<a, b>>)

-----------------------------------------------------------------------------
(* Properties of events *)

\* However many emits run, a handler of once is called by one of them, and any
\* other by each that began while it was registered, also when it is removed or
\* others are added or removed during the emit.
EmitsCallTheirHandlers ==
    \A i \in DOMAIN entries :
        /\ entries[i].once => entries[i].calls <= 1
        /\ (\A m \in Emitters : emit[m] = NoEmit) =>
              IF entries[i].once THEN entries[i].due > 0 => entries[i].calls = 1
              ELSE entries[i].calls = entries[i].due

\* A handler stays registered until it is removed, or was the one of once, and then
\* leaves with the emit that called it; unless an emit has removed a list that is
\* not its own (listeners.delete(event), when the list it captured is empty).
HandlersStayRegistered ==
    /\ \A i \in DOMAIN entries :
           ~unlisted /\ ~entries[i].removed /\ ~entries[i].consumed => i \in ToSet(Listed)
    /\ \A i \in ToSet(Listed) :
           /\ ~entries[i].removed
           /\ entries[i].consumed => \E m \in Emitters : emit[m] # NoEmit /\ i \in ToSet(emit[m].snapshot)

\* A subscriber gets the events it wants of a publish once and in order, those from
\* the one on during which it has subscribed, up to the handler that runs.
SubscribersGetTheEvents ==
    publishing # NotPublishing =>
        \A i \in DOMAIN subscriptions :
            subscriptions[i].live =>
                LET reached == IF i <= publishing.at THEN publishing.event ELSE publishing.event - 1
                IN subscriptions[i].got =
                       SelectSeq([k \in 1..reached |-> k],
                                 LAMBDA k : k >= subscriptions[i].since
                                            /\ Wanted(subscriptions[i].kinds, publishing.events[k]))

\* What the event bus and the notification streams promise: whom an emit calls, who stays
\* registered, and what a subscriber gets.
BusesHold == EmitsCallTheirHandlers /\ HandlersStayRegistered /\ SubscribersGetTheEvents

-----------------------------------------------------------------------------
(* CommandBus *)

VARIABLES handler,        \* the number of its registration, 0 for none
          registrations, dispatches,
          middlewares,    \* of the bus
          dispatch        \* what each caller's dispatch is at

commandVars == <<handler, registrations, dispatches, middlewares, dispatch>>

\* history: runs by outcome, the verdict each validator gave last, the registered
\* handler when the dispatch began.
NotDispatching ==
    [at |-> "idle", chain |-> <<>>, handler |-> 0, attempt |-> <<>>, waits |-> 0, result |-> "none",
     ran |-> <<>>, verdict |-> <<>>]

CommandsStart == /\ handler = 0 /\ registrations = 0 /\ dispatches = 0 /\ middlewares = <<>>
                 /\ dispatch = [d \in Dispatchers |-> NotDispatching]

Register ==
    /\ handler = 0 /\ registrations < MaxRegistrations
    /\ registrations' = registrations + 1
    /\ handler' = registrations + 1
    /\ UNCHANGED <<dispatches, middlewares, dispatch>>

Unregister ==
    /\ handler # 0
    /\ handler' = 0
    /\ UNCHANGED <<registrations, dispatches, middlewares, dispatch>>

Use(k) ==
    /\ Len(middlewares) < MaxMiddlewares
    /\ middlewares' = Append(middlewares, k)
    /\ UNCHANGED <<handler, registrations, dispatches, dispatch>>

-----------------------------------------------------------------------------
(* The chain *)

Where(s, kind) == {i \in DOMAIN s.chain : s.chain[i] = kind}

\* As if a retry did not look at what it got.
RetriesAnything(result) == result # "thrown"

\* A result that says it failed; an error that is thrown is not caught.
Retries(result) == result = "failed"

\* What position i has returned goes out to the retry around it, which waits for
\* another attempt or gives it up.
RECURSIVE Return(_, _, _)
Return(s, i, result) ==
    LET around == {k \in Where(s, "retry") : k < i}
        r == CHOOSE k \in around : \A l \in around : l <= k
    IN IF around = {} \/ ~Retries(result) THEN [s EXCEPT !.at = "done", !.result = result]
       ELSE IF s.attempt[r] < MaxRetries THEN [s EXCEPT !.at = "waiting", !.waits = r]
       ELSE Return(s, r, result)

\* From position i down to the handler: the retries begin their attempts, the
\* validators pass the command on, or one, at refused, returns its error.
GoDown(s, i, refused) ==
    LET down == [s EXCEPT !.attempt = [k \in DOMAIN s.chain |-> IF k >= i THEN 0 ELSE @[k]],
                          !.verdict = [k \in DOMAIN s.chain |->
                              IF k >= i /\ k <= refused /\ s.chain[k] = "validate" THEN k # refused ELSE @[k]]]
    IN IF refused <= Len(s.chain) THEN Return(down, refused, "failed")
       ELSE [down EXCEPT !.at = "handling"]

\* Where the command may be refused from position i on, or past the chain: nowhere.
Refusals(s, i) == {k \in Where(s, "validate") : k >= i} \cup {Len(s.chain) + 1}

-----------------------------------------------------------------------------
(* A dispatch *)

Becomes(d, s) == /\ dispatch' = [dispatch EXCEPT ![d] = s]
                 /\ UNCHANGED <<handler, registrations, middlewares>>

\* The handler and the chain are those of this moment.
Dispatch(d) ==
    /\ dispatch[d].at = "idle" /\ dispatches < MaxDispatches
    /\ dispatches' = dispatches + 1
    /\ LET s == [NotDispatching EXCEPT !.chain = middlewares, !.handler = handler,
                                       !.attempt = [k \in DOMAIN middlewares |-> 0],
                                       !.verdict = [k \in DOMAIN middlewares |-> FALSE]]
       IN IF handler = 0 THEN Becomes(d, [s EXCEPT !.at = "done", !.result = "unknown"])
          ELSE \E refused \in Refusals(s, 1) : Becomes(d, GoDown(s, 1, refused))

\* The handler returns that it succeeded or failed, or throws.
HandleCommand(d) ==
    /\ dispatch[d].at = "handling"
    /\ \E outcome \in {"ok", "failed", "thrown"} :
           LET s == [dispatch[d] EXCEPT !.ran = Append(@, outcome)]
           IN Becomes(d, Return(s, Len(s.chain) + 1, outcome))
    /\ UNCHANGED dispatches

\* The timer of a retry.
NextAttempt(d) ==
    /\ dispatch[d].at = "waiting"
    /\ LET r == dispatch[d].waits
           s == [dispatch[d] EXCEPT !.attempt[r] = @ + 1, !.waits = 0]
       IN \E refused \in Refusals(s, r + 1) : Becomes(d, GoDown(s, r + 1, refused))
    /\ UNCHANGED dispatches

\* The caller has its result.
Resolved(d) ==
    /\ dispatch[d].at = "done"
    /\ Becomes(d, NotDispatching)
    /\ UNCHANGED dispatches

CommandsNext ==
    \/ Register \/ Unregister
    \/ \E k \in Middlewares : Use(k)
    \/ \E d \in Dispatchers : Dispatch(d) \/ HandleCommand(d) \/ NextAttempt(d) \/ Resolved(d)

-----------------------------------------------------------------------------
(* Properties of commands *)

Tries(n) == [k \in 0..MaxMiddlewares |-> (MaxRetries + 1)^k][n]

\* A command that succeeded, or threw, is not handled again, whatever retries are
\* in the chain, and its dispatch returns what it said; a result that failed
\* without a validator is returned only after all attempts of all retries, nested
\* ones multiplied.
HandledOnce ==
    \A d \in Dispatchers :
        LET s == dispatch[d]
            retried == Tries(Cardinality(Where(s, "retry")))
        IN /\ \A i \in DOMAIN s.ran : s.ran[i] # "failed" => i = Len(s.ran) /\ s.at = "done"
           /\ Len(s.ran) <= retried
           /\ s.at = "done" /\ s.result \in {"ok", "thrown"} => s.ran # <<>> /\ s.result = s.ran[Len(s.ran)]
           /\ s.at = "done" /\ s.result = "failed" /\ Where(s, "validate") = {} => Len(s.ran) = retried

\* A handler runs only when the validators have passed the command, each at the
\* attempt of every retry around it, and only in a dispatch that found it.
HandledWhenValid ==
    \A d \in Dispatchers :
        LET s == dispatch[d]
        IN /\ s.at = "handling" => s.handler # 0 /\ \A k \in Where(s, "validate") : s.verdict[k]
           /\ s.result = "unknown" <=> (s.at = "done" /\ s.handler = 0)

\* A dispatched command is handled as often as its middlewares say, and only a valid one.
CommandsHold == HandledOnce /\ HandledWhenValid
=============================================================================
