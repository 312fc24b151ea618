----------------------------- MODULE Snapshots -----------------------------
(***************************************************************************)
(* Rehydrating an aggregate from its snapshot and the events after it,     *)
(* beside others that append, save and delete.  The stream of the          *)
(* aggregate is 1..length, one event per version; a state is the sequence  *)
(* of the events that were applied to it.                                  *)
(***************************************************************************)
EXTENDS Naturals, Sequences, SequencesExt

CONSTANTS Rehydrators, MaxLength, MaxRehydrations

ASSUME SnapshotsAssumption == MaxLength \in Nat /\ MaxRehydrations \in Nat

VARIABLES length,         \* of the stream of the aggregate
          snapshot,       \* its row, or {}: a set of at most one [version, state]
          holder,         \* what a rehydrator has got
          rehydrations

snapshotVars == <<length, snapshot, holder, rehydrations>>

Holding(step, s, n) ==
    [step |-> step, state |-> s, covers |-> Len(s), version |-> 0, since |-> n, refused |-> FALSE]

Nothing == Holding("none", <<>>, 0)

SnapshotsStart(n) ==
    /\ length = n /\ snapshot = {} /\ rehydrations = 0
    /\ holder = [h \in Rehydrators |-> Nothing]

SnapshotsInit == \E n \in 0..1 : SnapshotsStart(n)

\* SnapshotStore.load: the state starts from the snapshot, or empty.
LoadSnapshot(h) ==
    /\ holder[h].step = "none" /\ rehydrations < MaxRehydrations
    /\ \/ snapshot = {} /\ holder' = [holder EXCEPT ![h] = Holding("snapshot", <<>>, length)]
       \/ \E row \in snapshot :
              holder' = [holder EXCEPT ![h] = [Holding("snapshot", row.state, length)
                                                  EXCEPT !.covers = row.version]]
    /\ rehydrations' = rehydrations + 1
    /\ UNCHANGED <<length, snapshot>>

\* loadEvents(fromVersion) as if its comparison were strict.
EventsAfter(from) == [i \in 1..(length - from) |-> from + i]

\* EventStore.loadEvents(fromVersion): the version asked for is among them.
EventsFrom(from) == [i \in 1..(length + 1 - from) |-> from + i - 1]

\* loadEvents behind the snapshot and loadFromHistory: the version of the aggregate is
\* private to it and moves with the events of the history only.
LoadHistory(h) ==
    LET tail == EventsFrom(holder[h].covers + 1) IN
    /\ holder[h].step = "snapshot"
    /\ holder' = [holder EXCEPT ![h].step = "loaded",
                                ![h].state = @ \o tail,
                                ![h].covers = @ + Len(tail),
                                ![h].version = IF tail = <<>> THEN 0 ELSE Last(tail)]
    /\ UNCHANGED <<length, snapshot, rehydrations>>

\* SnapshotStore.save of what was applied: an upsert, whatever version is there.
SaveSnapshot(h) ==
    /\ holder[h].step = "loaded" /\ holder[h].covers > 0
    /\ snapshot' = {[version |-> holder[h].covers, state |-> holder[h].state]}
    /\ UNCHANGED <<length, holder, rehydrations>>

DeleteSnapshot ==
    /\ snapshot # {} /\ snapshot' = {}
    /\ UNCHANGED <<length, holder, rehydrations>>

\* apply, append with the version of the aggregate, and the aggregate is let go.
AppendFrom(h) ==
    /\ holder[h].step = "loaded" /\ length < MaxLength
    /\ IF holder[h].version = length
       THEN length' = length + 1 /\ holder' = [holder EXCEPT ![h] = Nothing]
       ELSE length' = length /\ holder' = [holder EXCEPT ![h].step = "over", ![h].refused = TRUE]
    /\ UNCHANGED <<snapshot, rehydrations>>

LetGo(h) ==
    /\ holder[h].step \in {"loaded", "over"}
    /\ holder' = [holder EXCEPT ![h] = Nothing]
    /\ UNCHANGED <<length, snapshot, rehydrations>>

\* Another process appends.
StoreEvent ==
    /\ length < MaxLength /\ length' = length + 1
    /\ UNCHANGED <<snapshot, holder, rehydrations>>

SnapshotsNext ==
    \/ DeleteSnapshot \/ StoreEvent
    \/ \E h \in Rehydrators :
           \/ LoadSnapshot(h) \/ LoadHistory(h) \/ SaveSnapshot(h)
           \/ AppendFrom(h) \/ LetGo(h)

FirstEvents(n) == [i \in 1..n |-> i]

\* An aggregate that comes from a snapshot, however old or early deleted, has applied
\* every event once and in order, no fewer than there were when it was asked for; and its
\* append is refused only when others were faster, or when it had no event to load behind
\* its snapshot, so that its version is 0.
SnapshotsHold ==
    /\ \A row \in snapshot : row.version <= length /\ row.state = FirstEvents(row.version)
    /\ \A h \in Rehydrators :
           LET x == holder[h] IN
           x.step \in {"loaded", "over"} =>
               /\ x.state = FirstEvents(x.covers)
               /\ x.covers >= x.since
               /\ x.refused => x.covers < length \/ x.version = 0
=============================================================================
