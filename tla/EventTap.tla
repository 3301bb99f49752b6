------------------------------ MODULE EventTap ------------------------------
(***************************************************************************)
(* session/event_tap.rs: the read-only broadcast of every event to the     *)
(* observers attached to --watch-socket.  Two threads share the history    *)
(* and the list of senders, each behind a lock of its own: the driver      *)
(* appends to the one, then writes to the other; the accept thread holds   *)
(* both while it replays the history to a new observer and registers it.   *)
(* Events are numbered in the order they are emitted.                      *)
(***************************************************************************)
EXTENDS Integers, Sequences, FiniteSets

CONSTANT Observers     \* connections to the tap; one that returns is a new one

VARIABLES
    tapHistory,  \* the events already in the history
    casting,     \* an event in the history that the senders have not got: {} or {e}
    observer,    \* per observer: "new", "attached" or "dropped"
    seen,        \* per observer: the lines written to it
    left         \* the observers that have closed their end

tapVars == <<tapHistory, casting, observer, seen, left>>

TapTypeOK ==
    /\ tapHistory \in Seq(Nat)
    /\ casting \subseteq Nat
    /\ observer \in [Observers -> {"new", "attached", "dropped"}]
    /\ seen \in [Observers -> Seq(Nat)]
    /\ left \subseteq Observers

TapInit ==
    /\ tapHistory = <<>>
    /\ casting = {}
    /\ observer = [o \in Observers |-> "new"]
    /\ seen = [o \in Observers |-> <<>>]
    /\ left = {}

-----------------------------------------------------------------------------
\* broadcast, under the lock of the history.
Remember(e) ==
    /\ casting = {}
    /\ tapHistory' = Append(tapHistory, e)
    /\ casting' = {e}
    /\ UNCHANGED <<observer, seen, left>>

\* broadcast, under the lock of the senders: a write to an observer that has
\* left fails, and drops it.
Broadcast ==
    LET attached == {o \in Observers : observer[o] = "attached"}
    IN /\ casting # {}
       /\ \E e \in casting :
              seen' = [o \in Observers |-> IF o \in attached \ left
                                           THEN Append(seen[o], e) ELSE seen[o]]
       /\ observer' = [o \in Observers |-> IF o \in attached \intersect left
                                           THEN "dropped" ELSE observer[o]]
       /\ casting' = {}
       /\ UNCHANGED <<tapHistory, left>>

ObserverLeaves(o) ==
    /\ observer[o] = "attached"
    /\ left' = left \union {o}
    /\ UNCHANGED <<tapHistory, casting, observer, seen>>

\* Mutant: a new observer is registered without the replay.
OnboardLive(o) ==
    /\ observer[o] = "new"
    /\ observer' = [observer EXCEPT ![o] = "attached"]
    /\ UNCHANGED <<tapHistory, casting, seen, left>>

\* onboard_observer, under both locks: replay, then register. An observer that
\* has left in the meantime is dropped when the replay fails.
Onboard(o) ==
    /\ observer[o] = "new"
    /\ \/ /\ tapHistory # <<>>
          /\ observer' = [observer EXCEPT ![o] = "dropped"]
          /\ UNCHANGED seen
       \/ /\ observer' = [observer EXCEPT ![o] = "attached"]
          /\ seen' = [seen EXCEPT ![o] = tapHistory]
    /\ UNCHANGED <<tapHistory, casting, left>>

-----------------------------------------------------------------------------
Indices(s) == 1 .. Len(s)
Lines(s) == {s[i] : i \in Indices(s)}

\* An attached observer has been sent every event emitted so far, in order;
\* only the one being broadcast may still be missing. A late attacher has no
\* gap between its replay and the live events.
ObserversMissNothing ==
    \A o \in Observers : observer[o] = "attached" =>
        /\ Lines(tapHistory) \subseteq Lines(seen[o]) \union casting
        /\ \A i, j \in Indices(seen[o]) : i < j => seen[o][i] <= seen[o][j]

\* "Receives a JSONL replay of every event the orchestrator has already
\* emitted. Then receives every new event live" (event_tap.rs:14): an event
\* reaches an observer once, in the replay or live.
ObserversSeeOnce == \A o \in Observers : Cardinality(Lines(seen[o])) = Len(seen[o])
=============================================================================
