----------------------------- MODULE SocketHost -----------------------------
(***************************************************************************)
(* session/socket_host.rs: SocketPresenter, the connection between a       *)
(* driver and the clients that attach to it one after another.  An accept  *)
(* thread hands connections over through a channel; the driver's thread    *)
(* looks at the channel only inside send and recv, reads the Hello of the  *)
(* connection it adopts, replays the history of events to it, and drops    *)
(* the one it had.                                                         *)
(*                                                                         *)
(* Connecting and being accepted are one step: the driver cannot tell a    *)
(* late accept from a late connect.  A write to a client that is connected *)
(* succeeds: a client reads what it is sent.  The SessionEnd attempted     *)
(* after a call of the driver has failed is left out.                      *)
(***************************************************************************)
EXTENDS Integers, Sequences

CONSTANTS
    Clients,     \* connections, numbered as they come; a client that returns is a new one
    Malformed,   \* BOOLEAN: clients also send lines that do not parse
    MaxSays      \* bound: lines the clients send besides their Hellos

Hello == <<"hello">>
Bad == <<"bad">>
Says == {"say"} \X (1 .. MaxSays)
Line == {Hello, Bad} \union Says

VARIABLES
    at,           \* where the driver's thread is
    link,         \* per client: the server's end of its connection
    channel,      \* accept_rx: connections accepted and not taken
    gone,         \* the clients that have closed their end
    outbox,       \* per client: lines it sent and nobody read
    greeted,      \* the clients that have sent their first line
    says,         \* how many lines the clients sent besides their Hellos
    inbox,        \* per client: the events written to it
    history,      \* every event sent
    pendingHello, \* a Hello read while attaching and not yet returned by recv
    received      \* what recv has returned

hostVars == <<at, link, channel, gone, outbox, greeted, says, inbox,
              history, pendingHello, received>>

Positions == {"idle", "send", "recv", "sendHello", "recvHello", "write", "read", "failed"}
Links == {"new", "channel", "attaching", "active", "dropped"}

ASSUME SocketHostAssumption ==
    /\ Clients \subseteq Nat
    /\ Malformed \in BOOLEAN
    /\ MaxSays \in Nat

HostTypeOK ==
    /\ at \in Positions
    /\ link \in [Clients -> Links]
    /\ channel \in Seq(Clients)
    /\ gone \subseteq Clients
    /\ outbox \in [Clients -> Seq(Line)]
    /\ greeted \subseteq Clients
    /\ says \in 0 .. MaxSays
    /\ inbox \in [Clients -> Seq(Nat)]
    /\ history \in Seq(Nat)
    /\ pendingHello \in BOOLEAN
    /\ received \in Seq({Hello} \union Says)

HostInit ==
    /\ at = "idle"
    /\ link = [c \in Clients |-> "new"]
    /\ channel = <<>>
    /\ gone = {}
    /\ outbox = [c \in Clients |-> <<>>]
    /\ greeted = {}
    /\ says = 0
    /\ inbox = [c \in Clients |-> <<>>]
    /\ history = <<>>
    /\ pendingHello = FALSE
    /\ received = <<>>

Linked(how) == {c \in Clients : link[c] = how}
Active == Linked("active")

-----------------------------------------------------------------------------
(* The clients and the accept thread.                                      *)

Connect(c) ==
    /\ link[c] = "new"
    /\ \A d \in Clients : d < c => link[d] # "new"
    /\ link' = [link EXCEPT ![c] = "channel"]
    /\ channel' = Append(channel, c)
    /\ UNCHANGED <<at, gone, outbox, greeted, says, inbox, history, pendingHello, received>>

Connected(c) == link[c] \in {"channel", "attaching", "active"} /\ c \notin gone

Writes(c, line) ==
    /\ Connected(c)
    /\ outbox' = [outbox EXCEPT ![c] = Append(@, line)]
    /\ greeted' = greeted \union {c}
    /\ UNCHANGED <<at, link, channel, gone, inbox, history, pendingHello, received>>

SayHello(c) ==
    /\ c \notin greeted
    /\ Writes(c, Hello)
    /\ UNCHANGED says

Speak(c) ==
    /\ says < MaxSays
    /\ \/ c \in greeted /\ Writes(c, <<"say", says + 1>>)
       \/ Malformed /\ Writes(c, Bad)
    /\ says' = says + 1

Leave(c) ==
    /\ Connected(c)
    /\ gone' = gone \union {c}
    /\ UNCHANGED <<at, link, channel, outbox, greeted, says, inbox, history, pendingHello,
                   received>>

-----------------------------------------------------------------------------
(* The driver's thread.                                                    *)

Goes(to) == at' = to /\ UNCHANGED <<gone, greeted, says>>

StartSend ==
    /\ at = "idle"
    /\ Goes("send")
    /\ UNCHANGED <<link, channel, outbox, inbox, history, pendingHello, received>>

StartRecv ==
    /\ at = "idle"
    /\ Goes("recv")
    /\ UNCHANGED <<link, channel, outbox, inbox, history, pendingHello, received>>

\* Mutant: the oldest waiting connection is kept instead of the latest.
DrainOldest(to) ==
    /\ channel # <<>>
    /\ link' = [c \in Clients |-> CASE c = Head(channel)     -> "attaching"
                                    [] link[c] = "channel"   -> "dropped"
                                    [] OTHER                 -> link[c]]
    /\ channel' = <<>>
    /\ Goes(to)

\* drain_latest_stream: of the waiting connections only the latest is kept.
DrainLatest(to) ==
    /\ channel # <<>>
    /\ link' = [c \in Clients |-> CASE c = channel[Len(channel)] -> "attaching"
                                    [] link[c] = "channel"       -> "dropped"
                                    [] OTHER                     -> link[c]]
    /\ channel' = <<>>
    /\ Goes(to)

\* Mutant: send waits for a client when it has none.
SendAdoptsWaiting ==
    /\ at = "send"
    /\ \/ DrainLatest("sendHello")
       \/ channel = <<>> /\ Active # {} /\ Goes("write") /\ UNCHANGED <<link, channel>>
    /\ UNCHANGED <<outbox, inbox, history, pendingHello, received>>

SendAdopts ==
    /\ at = "send"
    /\ \/ DrainLatest("sendHello")
       \/ channel = <<>> /\ Goes("write") /\ UNCHANGED <<link, channel>>
    /\ UNCHANGED <<outbox, inbox, history, pendingHello, received>>

\* Mutant: the Hello of an attaching client is thrown away.
RecvPendingDiscarded ==
    /\ at = "recv"
    /\ pendingHello
    /\ pendingHello' = FALSE
    /\ Goes("recv")
    /\ UNCHANGED <<link, channel, outbox, inbox, history, received>>

RecvPending ==
    /\ at = "recv"
    /\ pendingHello
    /\ received' = Append(received, Hello)
    /\ pendingHello' = FALSE
    /\ Goes("idle")
    /\ UNCHANGED <<link, channel, outbox, inbox, history>>

\* Without a client recv waits for the next connection, the oldest one;
\* otherwise it looks at the channel, then reads.
RecvAdopts ==
    /\ at = "recv"
    /\ ~pendingHello
    /\ \/ /\ Active = {}
          /\ channel # <<>>
          /\ link' = [link EXCEPT ![Head(channel)] = "attaching"]
          /\ channel' = Tail(channel)
          /\ Goes("recvHello")
       \/ /\ Active # {}
          /\ DrainLatest("recvHello")
       \/ /\ Active # {}
          /\ channel = <<>>
          /\ Goes("read")
          /\ UNCHANGED <<link, channel>>
    /\ UNCHANGED <<outbox, inbox, history, pendingHello, received>>

Attaching == at \in {"sendHello", "recvHello"}

\* attach_stream and replay_history_to_active: the Hello is read and kept, the
\* previous client dropped, the history written.
Attach ==
    /\ Attaching
    /\ \E c \in Linked("attaching") :
           /\ outbox[c] # <<>>
           /\ Head(outbox[c]) = Hello
           /\ outbox' = [outbox EXCEPT ![c] = Tail(@)]
           /\ LET lost == c \in gone /\ history # <<>>
              IN /\ link' = [d \in Clients |-> CASE d = c /\ ~lost -> "active"
                                                 [] d = c \/ link[d] = "active" -> "dropped"
                                                 [] OTHER -> link[d]]
                 /\ inbox' = IF lost THEN inbox ELSE [inbox EXCEPT ![c] = history]
                 /\ Goes(CASE lost             -> "failed"
                           [] at = "sendHello" -> "write"
                           [] OTHER            -> "recv")
    /\ pendingHello' = TRUE
    /\ UNCHANGED <<channel, history, received>>

\* read_attach_hello fails, and `?` propagates the error to the driver.
AttachFails ==
    /\ Attaching
    /\ \E c \in Linked("attaching") :
           \/ outbox[c] = <<>> /\ c \in gone
           \/ outbox[c] # <<>> /\ Head(outbox[c]) # Hello
    /\ Goes("failed")
    /\ UNCHANGED <<link, channel, outbox, inbox, history, pendingHello, received>>

\* Mutant: a write that fails leaves the client attached.
WriteUnchecked(e) ==
    /\ at = "write"
    /\ history' = Append(history, e)
    /\ inbox' = [c \in Clients |-> IF c \in Active \ gone THEN Append(inbox[c], e) ELSE inbox[c]]
    /\ Goes("idle")
    /\ UNCHANGED <<link, channel, outbox, pendingHello, received>>

\* The end of send: the event enters the history and goes to the client; a
\* write that fails drops the client.
Write(e) ==
    /\ at = "write"
    /\ history' = Append(history, e)
    /\ inbox' = [c \in Clients |-> IF c \in Active \ gone THEN Append(inbox[c], e) ELSE inbox[c]]
    /\ link' = [c \in Clients |-> IF c \in Active \intersect gone THEN "dropped" ELSE link[c]]
    /\ Goes("idle")
    /\ UNCHANGED <<channel, outbox, pendingHello, received>>

\* read_host_event blocks until there is a line or the end of the stream; a
\* line that does not parse costs the connection.
Read ==
    /\ at = "read"
    /\ \E c \in Active :
           \/ /\ outbox[c] # <<>>
              /\ Head(outbox[c]) \in Says
              /\ received' = Append(received, Head(outbox[c]))
              /\ outbox' = [outbox EXCEPT ![c] = Tail(@)]
              /\ Goes("idle")
              /\ UNCHANGED link
           \/ /\ \/ outbox[c] # <<>> /\ Head(outbox[c]) = Bad
                 \/ outbox[c] = <<>> /\ c \in gone
              /\ link' = [link EXCEPT ![c] = "dropped"]
              /\ Goes("recv")
              /\ UNCHANGED <<received, outbox>>
    /\ UNCHANGED <<channel, inbox, history, pendingHello>>

-----------------------------------------------------------------------------
(* Correctness.                                                            *)

\* The first thing recv ever returns is a Hello, which the handshake of the
\* run insists on: also when several clients came and went before it.
HelloFirst == received # <<>> => received[1] = Hello

\* The attached client has been sent every event once and in order, whenever it
\* attached, also while the driver is about to send the next one.
ClientSeesHistory == \A c \in Active : inbox[c] = history

\* While clients say Hello or leave, send returns: it never waits for one.
SendReturns == at = "send" ~> at \in {"idle", "failed"}

\* The latest client to connect, once all others are gone, becomes the attached
\* one if it stays and its lines parse.
Undisturbed(c) ==
    /\ c \notin gone
    /\ \A i \in 1 .. Len(outbox[c]) : outbox[c][i] # Bad
    /\ \A d \in Clients \ {c} : link[d] \in {"new", "dropped"} \/ d \in gone

LatestIsServed ==
    \A c \in Clients :
        channel # <<>> /\ channel[Len(channel)] = c /\ Undisturbed(c)
            ~> link[c] = "active" \/ at = "failed" \/ ~Undisturbed(c)

\* "SocketPresenter keeps the orchestrator alive across host disconnects"
\* (socket_host.rs:5): once the session has started, a client that goes away
\* does not end it.
SurvivesDisconnects == received # <<>> => at # "failed"
=============================================================================
