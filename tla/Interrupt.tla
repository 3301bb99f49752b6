------------------------------ MODULE Interrupt ------------------------------
(***************************************************************************)
(* What ends the work of a sub-session early.  The session threads of one  *)
(* process, the driver's or the workers of a walk, call the LLM and        *)
(* the language server in turn.  A Stop of the user comes through the      *)
(* control socket as a flag they share, which a waiting LLM call looks at  *)
(* every 50 ms and every new sub-session clears; a call of the language    *)
(* server does not look at it.  At its end the process tears the language  *)
(* server down.                                                            *)
(*                                                                         *)
(* The call is one of three: a request over HTTP, a child process whose    *)
(* output is buffered, or one whose output is streamed.  The LLM answers,  *)
(* fails or never does.  A session that is parked waits for the user, not  *)
(* for a call, and is left to Session.                                     *)
(***************************************************************************)
EXTENDS LspClient

CONSTANTS
    Transports,    \* the calls met
    MaxSessions,   \* bound: sub-sessions of the process
    MaxCalls,      \* bound: LLM calls of a sub-session
    MaxRequests,   \* bound: requests of a tool call
    MaxStops       \* bound: Stops of the user

ASSUME InterruptAssumption ==
    /\ Transports \subseteq {"http", "child", "child stream"}
    /\ {MaxSessions, MaxCalls, MaxRequests, MaxStops} \subseteq Nat

VARIABLES
    flag,       \* the shared cancel flag
    stops,      \* Stops sent
    session,    \* per thread: position, kind of its call, other end of it, calls left
    sessions,
    process     \* "running", "leaving" (in main's teardown), "gone"

\* History variables: no guard reads them.
VARIABLES
    told,       \* sessions a Stop was raised in
    spurious    \* a session was cancelled without one

ownVars == <<flag, stops, session, sessions, process, told, spurious>>
interruptVars == <<lspVars, ownVars>>

Idle == [at |-> "idle", kind |-> "", far |-> "", calls |-> 0]
Running(d) == session[d].at # "idle"

InterruptTypeOK ==
    /\ LspTypeOK
    /\ flag \in BOOLEAN
    /\ stops \in 0 .. MaxStops
    /\ session \in [Callers -> [at : {"idle", "turn", "replied", "poll", "killed", "settle", "tool"},
                                kind : Transports \union {""},
                                far : {"", "busy", "closed", "term", "ended"},
                                calls : 0 .. MaxCalls]]
    /\ sessions \in 0 .. MaxSessions
    /\ process \in {"running", "leaving", "gone"}
    /\ told \subseteq Callers
    /\ spurious \in BOOLEAN

InterruptInit ==
    /\ LspInit
    /\ flag = FALSE
    /\ stops = 0
    /\ session = [d \in Callers |-> Idle]
    /\ sessions = 0
    /\ process = "running"
    /\ told = {}
    /\ spurious = FALSE

-----------------------------------------------------------------------------
(* A sub-session.                                                          *)

\* Mutant: the flag is left as the last Stop set it.
FlagStays == flag' = flag

\* reset_cancel_flag
ResetFlag == flag' = FALSE

\* The session of a step that needs the framework's API starts the language
\* server in a thread of its own; those run alone.
Prewarm == (\A e \in Callers : ~Running(e)) /\ Wants(Warmer, 0)

\* run_subsession_scoped
StartSession(d, warm) ==
    /\ process = "running"
    /\ ~Running(d)
    /\ sessions < MaxSessions
    /\ sessions' = sessions + 1
    /\ session' = [session EXCEPT ![d] = [Idle EXCEPT !.at = "turn", !.calls = MaxCalls]]
    /\ ResetFlag
    /\ told' = told \ {d}
    /\ IF warm THEN Prewarm ELSE UNCHANGED lspVars
    /\ UNCHANGED <<stops, process, spurious>>

At(d, label) == session' = [session EXCEPT ![d].at = label]
SessionOver(d) == session' = [session EXCEPT ![d] = Idle] /\ told' = told \ {d}
Uncancelled == UNCHANGED <<told, spurious>>

Other == UNCHANGED <<flag, stops, sessions, process, lspVars>>

\* The next LLM call; a child has read its prompt when the polling begins.
Dispatch(d, k) ==
    /\ session[d].at \in {"turn", "replied"} /\ session[d].calls > 0
    /\ session' = [session EXCEPT ![d] =
          [at |-> "poll", kind |-> k, far |-> "busy", calls |-> @.calls - 1]]
    /\ Other /\ Uncancelled

\* The other end of the call: it answers, fails, or closes its output first.
\* A child that was sent a SIGTERM or has closed its output ends.
FarEnds(d) ==
    /\ session[d].at = "poll" /\ session[d].far = "busy"
    /\ \E f \in {"ended", "closed"} :
          /\ f = "closed" => session[d].kind = "child stream"
          /\ session' = [session EXCEPT ![d].far = f]
    /\ Other /\ Uncancelled

ChildEnds(d) ==
    /\ session[d].far \in {"term", "closed"}
    /\ session' = [session EXCEPT ![d].far = "ended"]
    /\ Other /\ Uncancelled

\* The call returns what the other end said.
Replied(d) == session' = [session EXCEPT ![d] = [Idle EXCEPT !.at = "replied", !.calls = session[d].calls]]
Answers(d) == session[d].far = "ended" /\ Replied(d)

\* Error::Cancelled, or the partial answer of a stream: the session is over.
Cancelled(d) ==
    /\ SessionOver(d)
    /\ spurious' = (spurious \/ d \notin told)

\* Mutant: the child is left alone and waited for.
NoSigterm(d) == At(d, "killed") /\ Uncancelled

Sigterm(d) ==
    /\ session' = [session EXCEPT ![d] =
          [@ EXCEPT !.at = "killed", !.far = IF @ = "ended" THEN @ ELSE "term"]]
    /\ Uncancelled

\* run_cancellable and the two HTTP streams: the flag comes first.
PollHttp(d) ==
    /\ session[d].kind = "http"
    /\ IF flag THEN Cancelled(d) ELSE Answers(d) /\ Uncancelled

\* wait_with_cancel: an exit comes first.
PollChild(d) ==
    /\ session[d].kind = "child"
    /\ \/ Answers(d) /\ Uncancelled
       \/ session[d].far # "ended" /\ flag /\ Sigterm(d)

\* wait_with_cancel_streaming: the flag comes first; once the output is
\* closed the child is waited for and the flag not looked at.
PollChildStream(d) ==
    /\ session[d].kind = "child stream"
    /\ IF flag THEN Sigterm(d)
       ELSE /\ \/ Answers(d)
               \/ session[d].far = "closed" /\ At(d, "settle")
            /\ Uncancelled

Poll(d) ==
    /\ session[d].at = "poll"
    /\ PollHttp(d) \/ PollChild(d) \/ PollChildStream(d)
    /\ Other

\* child.wait() returns.
Reaped(d) ==
    /\ session[d].far = "ended"
    /\ \/ session[d].at = "killed" /\ Cancelled(d)
       \/ session[d].at = "settle" /\ Replied(d) /\ Uncancelled
    /\ Other

\* A tool call that asks the language server, with one request or more
\* (api_hover).  Bound: one call for each answer of the LLM.
ToolCall(d) ==
    /\ session[d].at = "replied"
    /\ At(d, "tool")
    /\ Wants(d, MaxRequests)
    /\ UNCHANGED <<flag, stops, sessions, process>> /\ Uncancelled

ToolReturns(d) ==
    /\ session[d].at = "tool"
    /\ At(d, "turn")
    /\ Takes(d)
    /\ UNCHANGED <<flag, stops, sessions, process>> /\ Uncancelled

EndSession(d) ==
    /\ session[d].at \in {"turn", "replied"}
    /\ SessionOver(d)
    /\ Other /\ UNCHANGED spurious

-----------------------------------------------------------------------------
(* The user, and the end.                                                  *)

\* control_accept_loop reads the line; a click whose line never came, or
\* waits behind an open connection, is a Stop that comes later or never.
Stop ==
    /\ process # "gone"
    /\ stops < MaxStops
    /\ stops' = stops + 1
    /\ flag' = TRUE
    /\ told' = {d \in Callers : Running(d)}
    /\ UNCHANGED <<lspVars, session, sessions, process, spurious>>

\* commands::run has returned; main calls shutdown_client.
Leaves ==
    /\ process = "running"
    /\ \A d \in Callers : ~Running(d)
    /\ process' = "leaving"
    /\ Wants(Leaver, 0)
    /\ UNCHANGED <<flag, stops, session, sessions>> /\ Uncancelled

Exits ==
    /\ process = "leaving" /\ th[Leaver].at = "returned"
    /\ process' = "gone"
    /\ UNCHANGED <<lspVars, flag, stops, session, sessions>> /\ Uncancelled

Session(d) ==
    \/ \E w \in BOOLEAN : StartSession(d, w)
    \/ \E k \in Transports : Dispatch(d, k)
    \/ ToolCall(d) \/ Poll(d) \/ Reaped(d) \/ ToolReturns(d) \/ EndSession(d)

\* A thread of the language server's client, while the process lives.
LspStep(t) == process # "gone" /\ Works(t) /\ UNCHANGED ownVars
WarmerReturns == process # "gone" /\ Takes(Warmer) /\ UNCHANGED ownVars
LspReads == process # "gone" /\ Reader /\ UNCHANGED ownVars
LspDies == process # "gone" /\ ChildDies /\ UNCHANGED ownVars
FarSide == \E d \in Callers : FarEnds(d) \/ ChildEnds(d)

InterruptNext ==
    \/ \E d \in Callers : Session(d)
    \/ FarSide
    \/ \E t \in Threads : LspStep(t)
    \/ WarmerReturns \/ LspReads \/ LspDies
    \/ Stop \/ Leaves \/ Exits

InterruptSpec == InterruptInit /\ [][InterruptNext]_interruptVars

\* No fairness between threads: one that can run does, and time passes, also
\* while frames keep coming.  A child that was sent a SIGTERM, or has closed
\* its output, ends.  The LLM may never answer, rust-analyzer never say
\* anything, the user stop nothing.
Moves == \E d \in Callers : Session(d) \/ ChildEnds(d)
Serves ==
    /\ process # "gone"
    /\ (\E t \in Threads : Works(t)) \/ ReadsEof \/ SendsHeld
    /\ UNCHANGED ownVars
TimePasses == process # "gone" /\ (\E t \in Threads : TimesOut(t)) /\ UNCHANGED ownVars

FairInterruptSpec == InterruptSpec /\ WF_interruptVars(Moves) /\ WF_interruptVars(Serves) /\ WF_interruptVars(TimePasses) /\ WF_interruptVars(Exits)

-----------------------------------------------------------------------------
\* A Stop ends every session that runs: the flag stays up until the session
\* is over, whatever it is at, also when it is in a call of the language
\* server that other threads are in front of.  Two things are excepted, a
\* session of another thread that starts and clears the flag, and the join.
StopEndsSession == flag ~> (~flag \/ (\A d \in Callers : ~Running(d)) \/ JoinStuck)

\* Once main has begun to leave, the process ends, whatever the prewarm
\* thread is at and whatever state rust-analyzer is in, save the join.
ExitReturns == (process = "leaving") ~> (process = "gone" \/ JoinStuck)

\* A sub-session is cancelled only by a Stop that came while it ran: the
\* flag does not outlive the session it cancelled, nor does a click between
\* two sessions cancel the next.
NoStaleCancel == ~spurious

\* What the code says and does not hold.

\* lsp.rs:529: the reader ends once the child is killed, and Drop returns.
JoinReturns == \A t \in Threads : th[t].at = "join" ~> th[t].at # "join"

\* socket_host.rs:322: a Stop lands in the LLM call of the session it was clicked
\* in.  In a walk the next session of another thread clears it first.
StopReachesAll == \A d \in Callers : d \in told ~> d \notin told

\* lsp.rs:567: a run does not leave a rust-analyzer behind that nobody told
\* to end.  A prewarm that waits for the mutex starts one after the teardown.
LeavesNothing == process = "gone" => client.child # "up"
=============================================================================
