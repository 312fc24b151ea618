--------------------------- MODULE Notifications ---------------------------
(***************************************************************************)
(* From a change in the database to the browsers (packages/realtime): a    *)
(* ChangeNotificationListener or a PollingChangeDetector, the ChangeStream *)
(* over it, and the connections of an SSE endpoint that share the stream.  *)
(* All three are async generators: nothing runs in them until somebody     *)
(* asks for the next value, and the asks for a generator wait in a queue.  *)
(***************************************************************************)
EXTENDS Naturals, Sequences, FiniteSets, SequencesExt

CONSTANTS SourceKinds,    \* of "listen", "poll"
          MaxNotes, MaxStreams, QueueSize, MaxPolls,
          MaxSourceFaults \* bound: failed statements and connections

ASSUME NotificationsAssumption ==
    /\ SourceKinds \subseteq {"listen", "poll"}
    /\ MaxNotes \in Nat /\ MaxStreams \in Nat /\ QueueSize \in Nat /\ MaxPolls \in Nat /\ MaxSourceFaults \in Nat

VARIABLES source,
          gen,       \* where its generator is
          taken,     \* the entry of activeChannels, or the abortController
          sourceAborted, sourceClosed,
          sourceConn,   \* its connection: "none", "held", "closed"
          hears,     \* LISTEN is in effect; for polling, always
          attached,  \* the handler of the client's notifications
          notes,     \* the changes made so far: "wanted", or "other", which do not parse or pass
          unread,    \* changes the polling query would return
          sourceQueue,
          asks,      \* who waits for the next event of the stream, or its return
          streamAborted, streamEnded,
          clients,   \* the connections of the endpoint: what each is at, what it was sent
          heard, lost, \* history: changes the source has got, that nobody got from it
          polls, sourceFaults

sourceVars == <<source, gen, taken, sourceAborted, sourceClosed, sourceConn, hears, attached>>
changeVars == <<notes, unread, sourceQueue, heard, lost>>
streamVars == <<asks, streamAborted, streamEnded, clients>>
notificationVars == <<sourceVars, changeVars, streamVars, polls, sourceFaults>>

\* An ask of the stream to return, among those of the connections.
ToReturn == 0

NotificationsStart(k) ==
    /\ source = k /\ gen = "new" /\ taken = FALSE
    /\ sourceAborted = FALSE /\ sourceClosed = FALSE
    /\ sourceConn = "none" /\ hears = FALSE /\ attached = FALSE
    /\ notes = <<>> /\ unread = <<>> /\ sourceQueue = <<>>
    /\ asks = <<>> /\ streamAborted = FALSE /\ streamEnded = FALSE
    /\ clients = <<>> /\ heard = {} /\ lost = {}
    /\ polls = 0 /\ sourceFaults = 0

NotificationsInit == \E k \in SourceKinds : NotificationsStart(k)

Asked == asks # <<>>

-----------------------------------------------------------------------------
(* Changes, and what the source hears of them *)

\* pg_notify of the trigger, or of notify(); a handler with a full queue drops it.
Notify(kind) ==
    /\ Len(notes) < MaxNotes
    /\ notes' = Append(notes, kind)
    /\ LET n == Len(notes) + 1
       IN IF source = "poll" THEN /\ unread' = Append(unread, n)
                                  /\ UNCHANGED <<sourceQueue, heard>>
          ELSE /\ sourceQueue' = IF attached /\ Len(sourceQueue) < QueueSize
                                 THEN Append(sourceQueue, n) ELSE sourceQueue
               /\ heard' = IF attached /\ Len(sourceQueue) < QueueSize THEN heard \cup {n} ELSE heard
               /\ UNCHANGED unread
    /\ UNCHANGED <<sourceVars, lost, streamVars, polls, sourceFaults>>

-----------------------------------------------------------------------------
(* ChangeNotificationListener.listen and PollingChangeDetector.watch *)

\* The generator throws, or returns: the stream and its readers end with it.
Dead == /\ streamEnded' = TRUE
        /\ lost' = lost \cup ToSet(sourceQueue)
        /\ sourceQueue' = <<>>
        /\ asks' = <<>>
        /\ clients' = [i \in DOMAIN clients |->
                          [clients[i] EXCEPT !.reads = FALSE,
                                             !.at = IF clients[i].reads /\ @ = "open" THEN "ended" ELSE @]]

\* The first ask; refused when it was closed before.
Begins ==
    /\ gen = "new" /\ Asked
    /\ IF sourceClosed THEN gen' = "ended" /\ Dead /\ UNCHANGED taken
       ELSE gen' = "connecting" /\ taken' = TRUE /\ UNCHANGED <<streamEnded, lost, sourceQueue, asks, clients>>
    /\ UNCHANGED <<source, sourceAborted, sourceClosed, sourceConn, hears, attached, notes, unread,
                   heard, streamAborted, polls, sourceFaults>>

Connected ==
    /\ gen = "connecting"
    /\ gen' = "preparing" /\ sourceConn' = "held"
    /\ UNCHANGED <<source, taken, sourceAborted, sourceClosed, hears, attached, changeVars, streamVars,
                   polls, sourceFaults>>

\* getConnection rejects: listen() is not in its try yet, and keeps the channel.
NotConnected ==
    /\ gen = "connecting" /\ sourceFaults < MaxSourceFaults
    /\ sourceFaults' = sourceFaults + 1
    /\ gen' = "ended" /\ Dead
    /\ taken' = (source = "listen")
    /\ UNCHANGED <<source, sourceAborted, sourceClosed, sourceConn, hears, attached, notes, unread, heard,
                   streamAborted, polls>>

\* LISTEN takes effect, and ...
Listens ==
    /\ gen = "preparing" /\ source = "listen" /\ ~hears
    /\ hears' = TRUE
    /\ UNCHANGED <<source, gen, taken, sourceAborted, sourceClosed, sourceConn, attached, changeVars,
                   streamVars, polls, sourceFaults>>

\* ... its answer, after which the handler is there.
Attaches ==
    /\ gen = "preparing" /\ hears
    /\ gen' = "running" /\ attached' = TRUE
    /\ UNCHANGED <<source, taken, sourceAborted, sourceClosed, sourceConn, hears, changeVars, streamVars,
                   polls, sourceFaults>>

\* LISTEN fails: no finally closes the connection.
ListenFails ==
    /\ gen = "preparing" /\ source = "listen" /\ ~hears /\ sourceFaults < MaxSourceFaults
    /\ sourceFaults' = sourceFaults + 1
    /\ gen' = "ended" /\ Dead /\ taken' = FALSE
    /\ UNCHANGED <<source, sourceAborted, sourceClosed, sourceConn, hears, attached, notes, unread, heard,
                   streamAborted, polls>>

\* One poll reads every row.
Polled ==
    /\ gen = "preparing" /\ source = "poll"
    /\ gen' = "running"
    /\ sourceQueue' = unread /\ unread' = <<>>
    /\ heard' = heard \cup ToSet(unread)
    /\ UNCHANGED <<source, taken, sourceAborted, sourceClosed, sourceConn, hears, attached, notes, lost,
                   streamVars, polls, sourceFaults>>

PollFails ==
    /\ gen = "preparing" /\ source = "poll" /\ sourceFaults < MaxSourceFaults
    /\ sourceFaults' = sourceFaults + 1
    /\ gen' = "ended" /\ Dead /\ taken' = FALSE /\ sourceConn' = "closed"
    /\ UNCHANGED <<source, sourceAborted, sourceClosed, hears, attached, notes, unread, heard,
                   streamAborted, polls>>

\* The rows are out: the connection goes back until the interval is over.
PollDone ==
    /\ gen = "running" /\ source = "poll" /\ sourceQueue = <<>> /\ Asked /\ Head(asks) # ToReturn
    /\ sourceConn' = "closed"
    /\ gen' = "waiting"
    /\ UNCHANGED <<source, taken, sourceAborted, sourceClosed, hears, attached, changeVars, streamVars,
                   polls, sourceFaults>>

NextPoll ==
    /\ gen = "waiting" /\ ~sourceAborted /\ polls < MaxPolls
    /\ polls' = polls + 1
    /\ gen' = "connecting"
    /\ UNCHANGED <<source, taken, sourceAborted, sourceClosed, sourceConn, hears, attached, changeVars,
                   streamVars, sourceFaults>>

\* As if the interval did not see the abort.
StopsWhenAsked ==
    \/ gen = "running" /\ source = "listen" /\ sourceAborted /\ Asked
    \/ gen = "running" /\ Asked /\ Head(asks) = ToReturn

\* The loop sees the abort when it is asked, a poll between two polls, where a
\* return does not reach it; or the stream returns it, at its yield.
Stops ==
    \/ gen = "running" /\ source = "listen" /\ sourceAborted /\ Asked
    \/ gen = "waiting" /\ sourceAborted
    \/ gen = "running" /\ Asked /\ Head(asks) = ToReturn

\* As if the channel stayed taken.
ReleasesConnection == /\ sourceConn' = "closed" /\ hears' = FALSE /\ attached' = FALSE
                      /\ UNCHANGED taken

\* UNLISTEN, at best, the connection and the channel.
Releases == /\ sourceConn' = "closed" /\ hears' = FALSE /\ attached' = FALSE
            /\ taken' = FALSE

CleansUp ==
    /\ Stops
    /\ gen' = "ended"
    /\ Releases /\ Dead
    /\ UNCHANGED <<source, sourceAborted, sourceClosed, notes, unread, heard, streamAborted, polls,
                   sourceFaults>>

\* unlisten(), stop(): only what has begun can be aborted.
Abort ==
    /\ taken /\ ~sourceAborted
    /\ sourceAborted' = TRUE
    /\ UNCHANGED <<source, gen, taken, sourceClosed, sourceConn, hears, attached, changeVars, streamVars,
                   polls, sourceFaults>>

\* close() of the listener empties activeChannels, too.
CloseSource ==
    /\ ~sourceClosed
    /\ sourceClosed' = TRUE
    /\ sourceAborted' = (sourceAborted \/ taken)
    /\ taken' = (taken /\ source = "poll")
    /\ UNCHANGED <<source, gen, sourceConn, hears, attached, changeVars, streamVars, polls, sourceFaults>>

-----------------------------------------------------------------------------
(* ChangeStream.watch and SseEndpointGenerator *)

\* What parses, and is not filtered, is an event.
Passes(n) == notes[n] = "wanted"

\* break: the reader asks the stream to return, behind those that wait already.
LeavesStream(c) == Append(Tail(asks), ToReturn)

\* The next change that the source has, for who has asked first.
Take ==
    /\ gen = "running" /\ sourceQueue # <<>> /\ Asked /\ Head(asks) # ToReturn
    /\ source = "listen" => ~sourceAborted
    /\ LET n == Head(sourceQueue)
           c == Head(asks)
       IN /\ sourceQueue' = Tail(sourceQueue)
          /\ IF streamAborted
             THEN /\ asks' = <<ToReturn>> \o asks
                  /\ lost' = lost \cup {n}
                  /\ UNCHANGED clients
             ELSE IF ~Passes(n) THEN UNCHANGED <<asks, lost, clients>>
             ELSE IF clients[c].at = "open"
             THEN /\ asks' = Append(Tail(asks), c)
                  /\ clients' = [clients EXCEPT ![c].sent = Append(@, n)]
                  /\ UNCHANGED lost
             ELSE /\ asks' = LeavesStream(c)
                  /\ lost' = lost \cup {n}
                  /\ clients' = [clients EXCEPT ![c].reads = FALSE]
    /\ UNCHANGED <<sourceVars, notes, unread, heard, streamAborted, streamEnded, polls, sourceFaults>>

\* close() of the stream: seen at the next change only.
CloseStream ==
    /\ Asked /\ ~streamAborted /\ ~streamEnded
    /\ streamAborted' = TRUE
    /\ UNCHANGED <<sourceVars, changeVars, asks, streamEnded, clients, polls, sourceFaults>>

\* A browser connects; the stream may have ended.
Open ==
    /\ Len(clients) < MaxStreams
    /\ clients' = Append(clients, [at |-> IF streamEnded THEN "ended" ELSE "open", reads |-> ~streamEnded,
                                   sent |-> <<>>])
    /\ asks' = IF streamEnded THEN asks ELSE Append(asks, Len(clients) + 1)
    /\ UNCHANGED <<sourceVars, changeVars, streamAborted, streamEnded, polls, sourceFaults>>

\* A browser is gone; its reader still waits for the next event.
BrowserLeaves(c) ==
    /\ clients[c].at = "open"
    /\ clients' = [clients EXCEPT ![c].at = "closed"]
    /\ UNCHANGED <<sourceVars, changeVars, asks, streamAborted, streamEnded, polls, sourceFaults>>

SourceWork == Begins \/ Connected \/ Listens \/ Attaches \/ Polled \/ PollDone \/ NextPoll \/ CleansUp \/ Take

NotificationsNext ==
    \/ \E kind \in {"wanted", "other"} : Notify(kind)
    \/ Begins \/ Connected \/ NotConnected \/ Listens \/ Attaches \/ ListenFails
    \/ Polled \/ PollFails \/ PollDone \/ NextPoll \/ CleansUp \/ Abort \/ CloseSource
    \/ Take \/ CloseStream \/ Open \/ \E c \in DOMAIN clients : BrowserLeaves(c)

-----------------------------------------------------------------------------
(* Properties *)

Sent(c) == ToSet(clients[c].sent)

\* Every change that the source has got and the filters pass is sent to exactly one
\* connection, in order, or waits in the queue, or was lost with a reader that found
\* its browser gone, a stream that found itself closed, or a source that ended.
ChangesArriveOnce ==
    /\ \A c \in DOMAIN clients :
           /\ \A i, j \in DOMAIN clients[c].sent : i < j => clients[c].sent[i] < clients[c].sent[j]
           /\ Sent(c) \subseteq heard /\ \A n \in Sent(c) : Passes(n)
           /\ \A d \in DOMAIN clients : c # d => Sent(c) \cap Sent(d) = {}
    /\ {n \in heard : Passes(n)} \subseteq
           (UNION {Sent(c) : c \in DOMAIN clients}) \cup ToSet(sourceQueue) \cup lost
    /\ lost # {} => streamEnded \/ streamAborted \/ \E c \in DOMAIN clients : clients[c].at = "closed"

\* A generator that has ended has given its connection and its channel back, except
\* for the connection of a LISTEN that failed and the channel of a connection that
\* was refused; one that polls has no connection between two polls.
SourceCleansUp ==
    /\ gen = "ended" =>
           /\ sourceConn = "held" => source = "listen" /\ sourceFaults > 0
           /\ taken => source = "listen" /\ sourceFaults > 0 /\ sourceConn = "none"
           /\ ~attached /\ ~hears /\ asks = <<>>
    /\ gen = "waiting" => sourceConn = "closed"

\* As long as the stream has not ended, a connection that is open has a reader, that
\* waits for its turn; so no event passes by an open connection for ever.
OpenMeansReading ==
    \A c \in DOMAIN clients :
        clients[c].at = "open" => clients[c].reads /\ Cardinality({i \in DOMAIN asks : asks[i] = c}) = 1

\* What a client of the change stream may rely on: each change once, no source left running
\* for nobody, and an open stream is read.
NotificationsHold == ChangesArriveOnce /\ SourceCleansUp /\ OpenMeansReading

\* A source that was aborted while somebody reads ends.
AbortEnds == sourceAborted /\ asks # <<>> ~> gen = "ended"
EndReachesBrowsers == gen = "ended" ~> \A c \in DOMAIN clients : clients[c].at # "open"
\* unlisten(), stop() and close() end what somebody reads, and every browser gets its
\* end, although nothing changes any more.
NotificationsEnd == AbortEnds /\ EndReachesBrowsers
=============================================================================
