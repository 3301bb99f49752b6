------------------------------ MODULE LspClient ------------------------------
(***************************************************************************)
(* The rust-analyzer client of session/lsp.rs: one client of one child     *)
(* process in a static behind a mutex that is held over everything, from   *)
(* the start of the child, over the requests of a tool call, to the        *)
(* teardown.  A reader thread takes frames off the child's stdout and puts *)
(* them in a bounded channel that only a thread waiting for an answer      *)
(* empties.                                                                *)
(*                                                                         *)
(* Since only the holder of the mutex has a client, one variable stands    *)
(* for the client in the static, the one start() is building and the one   *)
(* Drop tears down.  What rust-analyzer does is a choice: it answers late  *)
(* or never, sends what nobody asked for, garbles a frame, or dies.        *)
(***************************************************************************)
EXTENDS Integers, Sequences

CONSTANTS
    Callers,     \* the threads that run tool calls
    Capacity     \* INCOMING_CHANNEL_CAPACITY

ASSUME LspClientAssumption == Capacity \in Nat \ {0}

\* The threads beside the callers: lsp::prewarm's, and the one that leaves.
Warmer == "prewarm"
Leaver == "main"
Nobody == "nobody"
ASSUME ThreadsDiffer == {Warmer, Leaver, Nobody} \cap Callers = {}
Threads == Callers \union {Warmer, Leaver}

VARIABLES
    lock,     \* who holds CLIENT
    client,
    th        \* what each thread does with the client

lspVars == <<lock, client, th>>

\* The id of a frame matters only so far as it is the one waited for: an
\* "answer" is, any other frame that decodes is a "note".
Ends == {"garbled", "eof"}     \* what ends the reader
Frames == {"note", "answer"} \union Ends

NoClient == [child |-> "none", asked |-> FALSE, chan |-> <<>>, reader |-> "gone", held |-> "note"]

Labels == {"off", "lock", "initialize", "quiescent", "ask", "await", "join", "returned"}
Waits == {"initialize", "quiescent", "await"}
Starts == {"initialize", "quiescent"}

LspTypeOK ==
    /\ lock \in Threads \union {Nobody}
    /\ client \in [child : {"none", "up", "exited"}, asked : BOOLEAN, chan : Seq(Frames),
                   reader : {"reading", "full", "gone"}, held : Frames]
    /\ Len(client.chan) <= Capacity
    /\ th \in [Threads -> [at : Labels, more : Nat]]

LspInit ==
    /\ lock = Nobody
    /\ client = NoClient
    /\ th = [t \in Threads |-> [at |-> "off", more |-> 0]]

-----------------------------------------------------------------------------
(* The reader thread and rust-analyzer.                                    *)

\* tx.send: waits while the channel is full, for the receiver lives as long
\* as the client.  A frame it could not read is the reader's last.
Sends(c, f) ==
    IF Len(c.chan) < Capacity
    THEN [c EXCEPT !.chan = Append(@, f),
                   !.reader = IF f \in Ends THEN "gone" ELSE "reading",
                   !.held = "note"]
    ELSE [c EXCEPT !.reader = "full", !.held = f]

\* reader_loop meets a frame.  A child that has exited may have left some in
\* the pipe.
Reads ==
    /\ client.reader = "reading"
    /\ \/ \E f \in {"note", "garbled"} : client' = Sends(client, f)
       \/ client.asked /\ client' = Sends([client EXCEPT !.asked = FALSE], "answer")
    /\ UNCHANGED <<lock, th>>

ReadsEof ==
    /\ client.reader = "reading"
    /\ client.child = "exited"
    /\ client' = Sends(client, "eof")
    /\ UNCHANGED <<lock, th>>

SendsHeld ==
    /\ client.reader = "full"
    /\ Len(client.chan) < Capacity
    /\ client' = Sends(client, client.held)
    /\ UNCHANGED <<lock, th>>

ChildDies ==
    /\ client.child = "up"
    /\ client' = [client EXCEPT !.child = "exited"]
    /\ UNCHANGED <<lock, th>>

-----------------------------------------------------------------------------
(* The threads.  All of it but Wants is done under the mutex.              *)

\* with_client for a closure of n requests, lsp::prewarm with none, and
\* shutdown_client, wait for the mutex.
Wants(t, n) ==
    /\ th[t].at = "off"
    /\ th' = [th EXCEPT ![t] = [@ EXCEPT !.at = "lock", !.more = n]]
    /\ UNCHANGED <<lock, client>>

LeavesClient(t) ==
    /\ th' = [th EXCEPT ![t] = [at |-> "returned", more |-> 0]]
    /\ lock' = Nobody

\* RustAnalyzerClient::drop up to the join: the farewell nobody waits for,
\* the kill, the wait.
Drops(t) ==
    /\ client' = [client EXCEPT !.child = "exited"]
    /\ th' = [th EXCEPT ![t] = [at |-> "join", more |-> 0]]
    /\ lock' = t

\* The client is gone with Drop, and the mutex is released.
Joins(t) ==
    /\ th[t].at = "join"
    /\ client.reader = "gone"
    /\ client' = NoClient
    /\ LeavesClient(t)

\* A new request of thread t, with an id of its own.
Asks(t, c, label) ==
    /\ client' = [c EXCEPT !.asked = TRUE]
    /\ th' = [th EXCEPT ![t].at = label]

\* No request is waited for: should the answer still come, it is a note.
Forgotten(c) ==
    LET noted(f) == IF f = "answer" THEN "note" ELSE f IN
    [c EXCEPT !.asked = FALSE, !.held = noted(@), !.chan = [i \in DOMAIN @ |-> noted(@[i])]]

\* start: spawns the child and the reader, asks initialize.
Spawns(t) ==
    /\ th[t].at = "lock" /\ lock = Nobody /\ t # Leaver
    /\ client = NoClient
    /\ lock' = t
    /\ Asks(t, [NoClient EXCEPT !.child = "up", !.reader = "reading"], "initialize")

\* No such binary.
SpawnFails(t) ==
    /\ th[t].at = "lock" /\ lock = Nobody /\ t # Leaver
    /\ client = NoClient
    /\ LeavesClient(t)
    /\ UNCHANGED client

Attaches(t) ==
    /\ th[t].at = "lock" /\ lock = Nobody /\ t # Leaver
    /\ client # NoClient
    /\ lock' = t
    /\ th' = [th EXCEPT ![t].at = "ask"]
    /\ UNCHANGED client

\* An error of the closure evicts the client if it is fatal; one of start
\* drops the client that never got into the static.
Fails(t, fatal) ==
    IF fatal \/ th[t].at \in Starts THEN Drops(t)
    ELSE LeavesClient(t) /\ client' = Forgotten(client)

\* The closure: its next request, whose write fails once the child is gone,
\* or its end.
Requests(t) ==
    /\ th[t].at = "ask"
    /\ \/ /\ th[t].more = 0
          /\ LeavesClient(t)
          /\ UNCHANGED client
       \/ /\ th[t].more > 0 /\ client.child = "up"
          /\ Asks(t, client, "await")
          /\ UNCHANGED lock
       \/ /\ th[t].more > 0 /\ client.child = "exited"
          /\ Fails(t, TRUE)

\* initialize is answered, and initialized is sent; a request of the closure
\* is answered, maybe with an error of the server or with nothing that a
\* further request could be about.
Answered(t, c) ==
    \/ /\ th[t].at = "initialize"
       /\ IF c.child = "up"
          THEN th' = [th EXCEPT ![t] = [@ EXCEPT !.at = "quiescent"]] /\ client' = c /\ UNCHANGED lock
          ELSE Drops(t)
    \/ /\ th[t].at = "await"
       /\ \/ LeavesClient(t)
          \/ \E n \in {0, th[t].more - 1} :
                th' = [th EXCEPT ![t] = [at |-> "ask", more |-> n]] /\ UNCHANGED lock
       /\ client' = c

\* One frame of the channel, in request or wait_for_quiescent.  The child may
\* have exited since the loop asked for its status.
Receives(t) ==
    /\ th[t].at \in Waits
    /\ client.chan # <<>>
    /\ LET f == Head(client.chan)
           c == [client EXCEPT !.chan = Tail(@)]
       IN \/ /\ f \in Ends
             /\ IF f = "garbled" /\ th[t].at = "await"
                THEN LeavesClient(t) /\ client' = Forgotten(c)
                ELSE Drops(t)
          \/ f = "answer" /\ Answered(t, c)
          \/ /\ f = "note" /\ th[t].at = "quiescent"    \* it is quiescent
             /\ th' = [th EXCEPT ![t].at = "ask"]
             /\ client' = c
             /\ UNCHANGED lock
          \/ /\ f = "note"
             /\ client' = c
             /\ UNCHANGED <<lock, th>>

\* try_wait finds the child exited, or the reader has gone and left nothing.
FindsItDead(t) ==
    /\ th[t].at \in Waits
    /\ client.child = "exited" \/ (client.chan = <<>> /\ client.reader = "gone")
    /\ Fails(t, TRUE)

\* Mutant: the blocking read that a deadline was put on.
NeverTimesOut(t) == FALSE /\ th[t].at \in Waits /\ UNCHANGED lspVars

\* READY_TIMEOUT or REQUEST_TIMEOUT; not fatal.
TimesOut(t) ==
    /\ th[t].at \in Waits
    /\ Fails(t, FALSE)

\* shutdown_client, called by main before the process ends.
TearsDown(t) ==
    /\ t = Leaver /\ th[t].at = "lock" /\ lock = Nobody
    /\ IF client = NoClient THEN LeavesClient(t) /\ UNCHANGED client ELSE Drops(t)

\* The thread has its result; a prewarm only logs it.
Takes(t) ==
    /\ th[t].at = "returned"
    /\ th' = [th EXCEPT ![t] = [@ EXCEPT !.at = "off"]]
    /\ UNCHANGED <<lock, client>>

Reader == Reads \/ ReadsEof \/ SendsHeld

Works(t) ==
    \/ Spawns(t) \/ SpawnFails(t) \/ Attaches(t) \/ TearsDown(t)
    \/ Requests(t) \/ Receives(t) \/ FindsItDead(t) \/ TimesOut(t)
    \/ Joins(t)

-----------------------------------------------------------------------------
\* Drop waits for a reader that waits for room in a channel that nobody
\* empties any more: notifications are read only while a request waits.
JoinStuck ==
    /\ \E t \in Threads : th[t].at = "join"
    /\ client.reader = "full" /\ Len(client.chan) = Capacity
=============================================================================
