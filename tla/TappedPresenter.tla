-------------------------- MODULE TappedPresenter --------------------------
(***************************************************************************)
(* The driver's connection as `sim-flow auto` builds it: a TappedPresenter *)
(* (session/event_tap.rs) around the SocketPresenter.  An event goes to    *)
(* the tap first and then to the client; what is received comes from the   *)
(* client.  The driver starts by receiving, the handshake, and ends when a *)
(* call fails.                                                             *)
(***************************************************************************)
EXTENDS EventTap, SocketHost

CONSTANT MaxEvents    \* bound: events the driver sends

ASSUME TappedPresenterAssumption == MaxEvents \in Nat

vars == <<tapVars, hostVars>>

TypeOK == TapTypeOK /\ HostTypeOK

Init == TapInit /\ HostInit

\* The event is in the tap and not yet with the client.
InnerIsDue == casting = {} /\ tapHistory # history

Send ==
    /\ at = "idle"
    /\ received # <<>>
    /\ casting = {}
    /\ tapHistory = history
    /\ Len(history) < MaxEvents
    /\ Remember(Len(history) + 1)
    /\ UNCHANGED hostVars

Recv == tapHistory = history /\ StartRecv /\ UNCHANGED tapVars

Driver ==
    \/ Send
    \/ Broadcast /\ UNCHANGED hostVars
    \/ /\ \/ InnerIsDue /\ StartSend
          \/ SendAdopts \/ Write(Len(history) + 1)
          \/ RecvPending \/ RecvAdopts \/ Attach \/ AttachFails \/ Read
       /\ UNCHANGED tapVars
    \/ Recv

Environment ==
    \/ /\ \E c \in Clients : Connect(c) \/ SayHello(c) \/ Speak(c) \/ Leave(c)
       /\ UNCHANGED tapVars
    \/ /\ \E o \in Observers : Onboard(o) \/ ObserverLeaves(o)
       /\ UNCHANGED hostVars

Next == Driver \/ Environment

Spec == Init /\ [][Next]_vars

\* The driver goes on while it can, and a client says Hello as soon as it is
\* connected (the pump of the extension does so in its connect callback),
\* unless it leaves.  Nobody has to connect, to speak or to leave.
Greets(c) == SayHello(c) /\ UNCHANGED tapVars

FairSpec ==
    /\ Spec
    /\ WF_vars(Driver)
    /\ \A c \in Clients : WF_vars(Greets(c))
=============================================================================
