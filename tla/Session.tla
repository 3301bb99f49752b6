------------------------------- MODULE Session -------------------------------
(***************************************************************************)
(* The turn loop of a sub-session (orchestrator/dispatch.rs) and what it   *)
(* owns of the ask_user protocol: sessions of one step, one after another, *)
(* each a loop of LLM calls whose answers are written, run and judged      *)
(* until the session ends or parks for the user.  A session may be killed  *)
(* and the next one finds what it left on disk.                            *)
(*                                                                         *)
(* An answer of the model is the shape of it: whether it has text, the     *)
(* same as before or not, artifacts and tool calls; what the calls do, what *)
(* the validators and the gate say is chosen.  The limits that the code    *)
(* fixes (five failing turns, ten investigations, ...) are constants here. *)
(***************************************************************************)
EXTENDS Integers, FiniteSets

CONSTANTS
    Threads,           \* ids of ask_user threads, never used twice
    Modes,             \* the options sessions are started with
    MaxRequests,       \* max_llm_requests, not 0 (the loop has no other bound)
    MaxAutoIters,      \* max_auto_iters
    MaxIdentical,      \* max_identical_responses
    MaxToolErrors,     \* MAX_CONSECUTIVE_TOOL_ERROR_TURNS
    MaxPhaseIters,     \* MAX_ITER_PER_PHASE
    MaxInvestigation,  \* MAX_INVESTIGATION_ONLY_TURNS
    MaxDeclared,       \* MAX_DECLARED_FIXES
    MaxSessions        \* bound: sessions started

Kinds == {"work", "critique"}

\* Unattended or not, the kind, and blockers of an earlier critique to fix.
Mode == [auto : BOOLEAN, kind : Kinds, blockers : BOOLEAN]

ASSUME SessionAssumption ==
    /\ Modes \subseteq Mode
    /\ MaxRequests \in Nat \ {0} /\ MaxAutoIters \in Nat /\ MaxIdentical \in Nat
    /\ MaxToolErrors \in Nat /\ MaxPhaseIters \in Nat
    /\ MaxInvestigation \in Nat /\ MaxDeclared \in Nat /\ MaxSessions \in Nat

NoThread == "none"
ASSUME ThreadsAssumption == NoThread \notin Threads

VARIABLES
    at,        \* position of the loop
    mode,      \* the options of the session
    turns,     \* turn_index
    resp,      \* the answer of this turn
    n,         \* the counters of the session
    sticky,    \* touched_existing_since_last_test or declared_fix_pending
    wrote,     \* session_persisted_writes
    capTold,   \* a diagnostic of a cap went out: the presenter has queued a Cancel
    ask,       \* the slot of the pending question
    open,      \* the registry: turns of every open thread
    disk,      \* pending-ask.toml, ask-threads/, entries in the spec, critique
    sessions,  \* sessions started
    ended      \* how the last one ended

\* History variables: no guard reads them but `used`, for ids not used twice.
VARIABLES
    used,      \* thread ids generated
    replies,   \* replies of the user, by thread
    fault      \* an I/O error, or a kill between a reply and its record

askVars == <<ask, open, used, replies, fault>>
loopVars == <<mode, turns, resp, n, sticky, wrote, capTold>>
sessionVars == <<sessions, ended>>
vars == <<at, loopVars, askVars, disk, sessionVars>>

Labels == {"off", "request", "critique", "files", "calls", "refused", "checks", "tail",
           "input", "delete", "ask", "closing", "keeping", "answered"}

Endings == {"none", "completed", "cancelled", "runaway", "error"}

\* Where the loop waits for the host.
Parked == {"input", "delete", "ask"}

Response == [text : {"none", "failed", "some"},
             files : {"none", "written", "mixed", "rejected"},
             calls : {"none", "native", "fenced"}]

NoResponse == [text |-> "none", files |-> "none", calls |-> "none"]

Counters == [auto : Nat, noProgress : Nat, investigation : Nat, declared : Nat,
             toolErrors : Nat, phase : Nat, empty : Nat, same : Nat]

NoCounts == [auto |-> 0, noProgress |-> 0, investigation |-> 0, declared |-> 0,
             toolErrors |-> 0, phase |-> 0, empty |-> 0, same |-> 0]

Idle == [auto |-> FALSE, kind |-> "work", blockers |-> FALSE]
NoAsk == [pending |-> FALSE, thread |-> NoThread, closes |-> FALSE]

\* Turns by thread, for the threads that are open.
IsOpenThreads(f) == DOMAIN f \subseteq Threads /\ f \in [DOMAIN f -> Nat]
NoOpen == [t \in {} |-> 0]

TypeOK ==
    /\ at \in Labels
    /\ mode \in Mode
    /\ turns \in 0 .. MaxRequests
    /\ resp \in Response
    /\ n \in Counters
    /\ sticky \in BOOLEAN
    /\ wrote \in BOOLEAN
    /\ capTold \in BOOLEAN
    /\ ask \in [pending : BOOLEAN, thread : Threads \union {NoThread}, closes : BOOLEAN]
    /\ IsOpenThreads(open)
    /\ disk \in [pending : Threads \union {NoThread}, files : {disk.files},
                 recorded : [Threads -> Nat], critique : BOOLEAN]
    /\ IsOpenThreads(disk.files)
    /\ sessions \in 0 .. MaxSessions
    /\ ended \in Endings
    /\ used \subseteq Threads
    /\ replies \in [Threads -> Nat]
    /\ fault \in BOOLEAN

\* The memory of a process that has no session.
Forgotten ==
    /\ mode' = Idle
    /\ turns' = 0
    /\ resp' = NoResponse
    /\ n' = NoCounts
    /\ sticky' = FALSE
    /\ wrote' = FALSE
    /\ capTold' = FALSE
    /\ ask' = NoAsk
    /\ open' = NoOpen

Init ==
    /\ at = "off"
    /\ mode = Idle
    /\ turns = 0
    /\ resp = NoResponse
    /\ n = NoCounts
    /\ sticky = FALSE
    /\ wrote = FALSE
    /\ capTold = FALSE
    /\ ask = NoAsk
    /\ open = NoOpen
    /\ disk = [pending |-> NoThread, files |-> NoOpen,
               recorded |-> [t \in Threads |-> 0], critique |-> FALSE]
    /\ sessions = 0
    /\ ended = "none"
    /\ used = {}
    /\ replies = [t \in Threads |-> 0]
    /\ fault = FALSE

-----------------------------------------------------------------------------
(* Starting and ending.                                                    *)

\* SessionEnd, or an error: nothing on disk is cleaned up.
Ends(reason) ==
    /\ at' = "off"
    /\ ended' = reason
    /\ Forgotten
    /\ UNCHANGED <<disk, sessions, used, replies, fault>>

\* The handshake is done; recover_from_checkpoint takes the question and the
\* threads of an earlier session, and nothing waits for the reply.
Start ==
    /\ at = "off"
    /\ sessions < MaxSessions
    /\ sessions' = sessions + 1
    /\ ended' = "none"
    /\ mode' \in Modes
    /\ at' = "request"
    /\ open' = disk.files
    /\ ask' = [pending |-> disk.pending # NoThread, thread |-> disk.pending, closes |-> FALSE]
    /\ UNCHANGED <<turns, resp, n, sticky, wrote, capTold, disk, used, replies, fault>>

\* The process is killed, or an event cannot be sent.
Kill ==
    /\ at # "off"
    /\ at' = "off"
    /\ ended' = "error"
    /\ Forgotten
    /\ fault' = (fault \/ at \in {"closing", "keeping"})
    /\ UNCHANGED <<disk, sessions, used, replies>>

-----------------------------------------------------------------------------
(* An LLM request and its answer.                                          *)

\* A step of the turn: neither the session nor a question changes.
GoTo(label) ==
    /\ at' = label
    /\ UNCHANGED <<mode, turns, askVars, sessionVars>>

\* `continue`: the next request, with the answer of this turn forgotten.
NextTurn ==
    /\ GoTo("request")
    /\ resp' = NoResponse

\* Mutant: a turn whose last calls failed is not counted.
CountedIfWell == IF n.toolErrors > 0 THEN turns ELSE turns + 1

Counted == turns + 1

OverBudget == Counted > MaxRequests

\* The two guards at the top of the loop.
RunawayGuard ==
    /\ at = "request"
    /\ OverBudget \/ n.toolErrors >= MaxToolErrors
    /\ Ends("runaway")

\* A request goes out and comes back with r.
Answered(r) ==
    /\ at = "request"
    /\ ~OverBudget
    /\ n.toolErrors < MaxToolErrors
    /\ turns' = Counted
    /\ resp' = r

\* Cancelled through the control socket; what was streamed is not acted on.
DispatchCancelled ==
    /\ at = "request"
    /\ ~OverBudget
    /\ n.toolErrors < MaxToolErrors
    /\ Ends("cancelled")

DispatchFails ==
    /\ Answered([NoResponse EXCEPT !.text = "failed"])
    /\ at' = "tail"
    /\ UNCHANGED <<mode, n, sticky, wrote, capTold, askVars, disk, sessionVars>>

\* Neither text nor calls: one nudge, then the tail.
EmptyAnswer ==
    /\ Answered(NoResponse)
    /\ \/ n.empty < 1 /\ at' = "request" /\ n' = [n EXCEPT !.empty = @ + 1]
       \/ n.empty >= 1 /\ at' = "tail" /\ n' = [n EXCEPT !.empty = 0]
    /\ UNCHANGED <<mode, sticky, wrote, capTold, askVars, disk, sessionVars>>

\* The shapes of an answer that is not empty: files and fenced calls are in
\* its text, and how a call was written matters to a critique only.
Shapes == {r \in Response :
              /\ r.text # "failed" /\ r # NoResponse
              /\ r.text = "none" => r.files = "none" /\ r.calls # "fenced"}

\* Length of the row of texts that are the same but for their digits, after
\* an answer: a new text, or the last one again.
Rows(r) ==
    IF r.text = "none" THEN {n.same}
    ELSE {1} \union (IF n.same > 0 THEN {n.same + 1} ELSE {})

TooMany(row) == MaxIdentical >= 2 /\ row >= MaxIdentical

Identical ==
    /\ at = "request" /\ ~OverBudget /\ n.toolErrors < MaxToolErrors
    /\ n.same > 0 /\ TooMany(n.same + 1)
    /\ Ends("runaway")

Answer ==
    \E r \in Shapes : \E row \in Rows(r) :
        /\ r.calls = "fenced" => mode.kind = "critique"
        /\ r.text = "none" \/ ~TooMany(row)
        /\ Answered(r)
        /\ at' = IF mode.kind = "critique" THEN "critique" ELSE "files"
        /\ n' = [n EXCEPT !.empty = 0, !.same = row]
        /\ UNCHANGED <<mode, sticky, wrote, capTold, askVars, disk, sessionVars>>

-----------------------------------------------------------------------------
(* A critique that came as prose.                                          *)

OnlyProse == resp.files = "none" /\ resp.calls = "none"

\* Findings or the JSON of a critique in the text: it becomes the artifact.
ProseIsCritique ==
    /\ at = "critique"
    /\ OnlyProse /\ ~disk.critique
    /\ GoTo("files")
    /\ \E f \in {"written", "rejected"} : resp' = [resp EXCEPT !.files = f]
    /\ UNCHANGED <<n, sticky, wrote, capTold, disk>>

\* Nothing that could be one: the agent is asked again.
ProseIsNoCritique ==
    /\ at = "critique"
    /\ OnlyProse /\ ~disk.critique
    /\ NextTurn
    /\ UNCHANGED <<n, sticky, wrote, capTold, disk>>

\* It was written by an earlier turn, and this one is its summary.
CritiqueIsDone ==
    /\ at = "critique"
    /\ mode.auto /\ OnlyProse /\ disk.critique
    /\ Ends("completed")

CritiqueGoesOn ==
    /\ at = "critique"
    /\ ~(OnlyProse /\ (mode.auto \/ ~disk.critique))
    /\ GoTo("files")
    /\ UNCHANGED <<resp, n, sticky, wrote, capTold, disk>>

-----------------------------------------------------------------------------
(* Artifacts of the text.                                                  *)

\* In a critique session what is written may be the critique.
Wrote ==
    \/ mode.kind = "critique" /\ disk' = [disk EXCEPT !.critique = TRUE]
    \/ disk' = disk

WriteFiles ==
    /\ at = "files"
    /\ resp.files \in {"none", "written"}
    /\ GoTo(IF resp.calls # "none" THEN "calls"
            ELSE IF resp.files = "written" THEN "checks" ELSE "tail")
    /\ IF resp.files = "written"
       THEN n' = [n EXCEPT !.toolErrors = 0] /\ wrote' = TRUE /\ Wrote
       ELSE UNCHANGED <<n, wrote, disk>>
    /\ UNCHANGED <<resp, sticky, capTold>>

\* A rejection is fed back before any call of the turn is run.
RejectFiles ==
    /\ at = "files"
    /\ resp.files \in {"mixed", "rejected"}
    /\ NextTurn
    /\ IF resp.files = "mixed"
       THEN n' = [n EXCEPT !.toolErrors = 0] /\ wrote' = TRUE /\ Wrote
       ELSE n' = [n EXCEPT !.toolErrors = @ + 1] /\ UNCHANGED <<wrote, disk>>
    /\ UNCHANGED <<sticky, capTold>>

-----------------------------------------------------------------------------
(* Tool calls.                                                             *)

\* What the calls of a turn do, taken together: one of them succeeds or
\* none does, something is written, artifacts of the step are touched or a
\* fix is declared, the tests are run.
Outcome == {c \in [ok : BOOLEAN, persisted : BOOLEAN, fix : {"none", "touched", "declared"},
                   tests : {"none", "fewer", "asBefore"}] :
              c.persisted \/ c.fix = "declared" => c.ok}

Touches(c) == c.fix = "touched" => c.persisted \/ resp.files = "written"

Streak(c) == IF c.ok THEN 0 ELSE n.toolErrors + 1

\* classify_progress: the failing tests, and what was done since the last run.
Classified(c, fix) ==
    IF c.tests = "none" THEN n
    ELSE IF c.tests = "fewer"
         THEN [n EXCEPT !.noProgress = 0, !.investigation = 0]
         ELSE IF fix
              THEN [n EXCEPT !.noProgress = @ + 1, !.investigation = 0]
              ELSE [n EXCEPT !.investigation = @ + 1]

HitsCap(c, m) ==
    \/ c.tests # "none" /\ m.noProgress >= MaxAutoIters
    \/ m.investigation >= MaxInvestigation
    \/ m.declared >= MaxDeclared

\* The turn of calls that run to their end, and the caps of an unattended
\* session: a cap is told, and the turn goes on to its checks.
CallsDone(c) ==
    LET fix == sticky \/ c.fix # "none"
        m == [Classified(c, fix) EXCEPT
                 !.toolErrors = Streak(c),
                 !.declared = @ + (IF c.fix = "declared" THEN 1 ELSE 0)]
        capped == mode.auto /\ HitsCap(c, m)
    IN  /\ n' = m
        /\ sticky' = (fix /\ c.tests = "none")
        /\ wrote' = (wrote \/ c.persisted)
        /\ IF c.persisted THEN Wrote ELSE UNCHANGED disk
        /\ IF capped
           THEN /\ GoTo(IF resp.files = "written" THEN "checks" ELSE "tail")
                /\ capTold' = TRUE
                /\ UNCHANGED resp
           ELSE /\ NextTurn
                /\ UNCHANGED capTold

\* A call of the turn may have been refused already.
AtCalls == at \in {"calls", "refused"}

CallTools ==
    /\ AtCalls
    /\ \E c \in Outcome : Touches(c) /\ CallsDone(c)

\* A delete outside the write paths needs the user, if there is one.
AskDelete ==
    /\ AtCalls
    /\ ~mode.auto
    /\ GoTo("delete")
    /\ UNCHANGED <<resp, n, sticky, wrote, capTold, disk>>

\* Yes, no, or an event that is neither: the turn goes on.
DeleteAnswered ==
    /\ at = "delete"
    /\ \E c \in Outcome : Touches(c) /\ CallsDone(c)

DeleteCancelled ==
    /\ at = "delete"
    /\ Ends("cancelled")

-----------------------------------------------------------------------------
(* ask_user: the question is the last call of its turn.                    *)

\* A thread for it: a fresh one, or one that is open.
Asks(t) ==
    /\ AtCalls
    /\ ~ask.pending
    /\ t \in DOMAIN open \/ t \notin used
    /\ used' = used \union {t}

Opened(t) ==
    [u \in DOMAIN open \union {t} |-> IF u \in DOMAIN open THEN open[u] ELSE 0]

\* suspend_for_user_ask: checkpoint, open threads, then the slot.  What the
\* calls before it wrote goes by without session_persisted_writes.
Suspend ==
    \E t \in Threads, closes \in BOOLEAN :
        /\ Asks(t)
        /\ at' = "ask"
        /\ ask' = [pending |-> TRUE, thread |-> t, closes |-> closes]
        /\ open' = Opened(t)
        /\ disk' = [disk EXCEPT !.pending = t, !.files = Opened(t)]
        /\ UNCHANGED <<mode, turns, resp, n, sticky, wrote, capTold, replies, fault, sessionVars>>

\* The checkpoint or a thread file cannot be written: a call that failed,
\* and a thread that stays in the registry.
SuspendFails ==
    \E t \in Threads, saved \in BOOLEAN :
        /\ at = "calls" /\ Asks(t)   \* bound: once in a turn
        /\ at' = "refused"
        /\ open' = Opened(t)
        /\ disk' = IF saved THEN [disk EXCEPT !.pending = t] ELSE disk
        /\ UNCHANGED <<loopVars, ask, replies, fault, sessionVars>>

\* resume_from_user_ask: the turn is in the thread; a cancelled one and one
\* with record_as close it.
Reply ==
    /\ at = "ask" /\ ~capTold
    /\ \E closes \in {ask.closes, TRUE} :
         LET t == ask.thread IN
         /\ ask' = [ask EXCEPT !.pending = FALSE]
         /\ replies' = [replies EXCEPT ![t] = @ + 1]
         /\ IF closes
            THEN /\ at' = "closing"
                 /\ open' = [u \in DOMAIN open \ {t} |-> open[u]]
                 /\ disk' = [disk EXCEPT !.files = [u \in DOMAIN @ \ {t} |-> @[u]]]
            ELSE /\ at' = "keeping"
                 /\ open' = [open EXCEPT ![t] = @ + 1]
                 /\ disk' = disk
    /\ UNCHANGED <<loopVars, used, fault, sessionVars>>

\* Mutant: a thread that the user cancelled leaves no entry.
RecordUnlessCancelled ==
    /\ at \in {"closing", "keeping"}
    /\ GoTo("answered")
    /\ disk' = IF at = "keeping" THEN [disk EXCEPT !.files = open]
               ELSE IF ask.closes THEN [disk EXCEPT !.recorded[ask.thread] = @ + 1] ELSE disk
    /\ UNCHANGED <<resp, n, sticky, wrote, capTold>>

\* The answer is written: to the spec, or with the threads that stay open.
Record ==
    /\ at \in {"closing", "keeping"}
    /\ GoTo("answered")
    /\ disk' = IF at = "closing" THEN [disk EXCEPT !.recorded[ask.thread] = @ + 1]
               ELSE [disk EXCEPT !.files = open]
    /\ UNCHANGED <<resp, n, sticky, wrote, capTold>>

\* It cannot be written: the session fails, and the checkpoint stays.
RecordFails ==
    /\ at \in {"closing", "keeping"}
    /\ at' = "off" /\ ended' = "error"
    /\ Forgotten
    /\ fault' = TRUE
    /\ UNCHANGED <<disk, sessions, used, replies>>

Resume ==
    /\ at = "answered"
    /\ at' = "request" /\ resp' = NoResponse
    /\ ask' = NoAsk
    /\ disk' = [disk EXCEPT !.pending = NoThread]
    /\ UNCHANGED <<mode, turns, n, sticky, wrote, capTold, open, used, replies, fault, sessionVars>>

AskCancelled ==
    /\ at = "ask"
    /\ Ends("cancelled")

-----------------------------------------------------------------------------
(* Checks of a turn that wrote artifacts.                                  *)

\* The validator of the phase, when it has one.
PhaseFails ==
    /\ at = "checks"
    /\ n.phase + 1 < MaxPhaseIters
    /\ NextTurn
    /\ n' = [n EXCEPT !.phase = @ + 1]
    /\ UNCHANGED <<sticky, wrote, capTold, disk>>

\* The counter of the phase after a validator that passed, was not there,
\* or failed once too often.
PhaseCounts == {0, n.phase} \union (IF n.phase + 1 >= MaxPhaseIters THEN {n.phase + 1} ELSE {})

\* An unattended work session is judged by its structural gate.
GateClean ==
    /\ at = "checks"
    /\ mode.auto /\ mode.kind = "work"
    /\ Ends("completed")

\* Mutant: the diagnostic of the cap is not one the presenter knows it by.
CountAutoQuietly(m) ==
    /\ n' = [m EXCEPT !.auto = @ + 1]
    /\ UNCHANGED <<sticky, wrote, disk, capTold>>
    /\ IF m.auto + 1 >= MaxAutoIters THEN UNCHANGED resp /\ GoTo("input") ELSE NextTurn

\* auto_iterations at its cap is told.
CountAuto(m) ==
    /\ n' = [m EXCEPT !.auto = @ + 1]
    /\ UNCHANGED <<sticky, wrote, disk>>
    /\ IF m.auto + 1 >= MaxAutoIters
       THEN capTold' = TRUE /\ UNCHANGED resp /\ GoTo("input")
       ELSE UNCHANGED capTold /\ NextTurn

\* A validator that failed once too often says that it pauses, and leaves it to
\* the gate all the same.
GateDirty ==
    /\ at = "checks"
    /\ mode.auto /\ mode.kind = "work"
    /\ \E p \in PhaseCounts : CountAuto([n EXCEPT !.phase = p])

NoGate ==
    /\ at = "checks"
    /\ ~(mode.auto /\ mode.kind = "work")
    /\ GoTo("tail")
    /\ \E p \in PhaseCounts : n' = [n EXCEPT !.phase = p]
    /\ UNCHANGED <<resp, sticky, wrote, capTold, disk>>

-----------------------------------------------------------------------------
(* The tail: wind down, pump, or ask the user.                             *)

\* Prose of a critique session counts as its artifact.
EffectivelyEmpty ==
    /\ resp.files = "none"
    /\ ~(mode.kind = "critique" /\ resp.calls # "fenced" /\ resp.text # "none")

Pumped == mode.auto /\ EffectivelyEmpty /\ resp.text # "failed"

\* Mutant: a clean gate is enough.
CanAlwaysWindDown == TRUE

\* A retry on blockers has to write before it may say that it is done.
CanWindDown == ~mode.blockers \/ wrote

\* The gate is clean, or the milestone of the session is done.
WindDown ==
    /\ at = "tail"
    /\ Pumped /\ mode.kind = "work" /\ CanWindDown
    /\ Ends("completed")

Pump ==
    /\ at = "tail"
    /\ Pumped
    /\ CountAuto(n)

AskUser ==
    /\ at = "tail"
    /\ ~Pumped
    /\ GoTo("input")
    /\ UNCHANGED <<resp, n, sticky, wrote, capTold, disk>>

\* A message, /retry after a failure, or an event that is not expected.
InputGoesOn ==
    /\ at = "input" /\ ~capTold
    /\ NextTurn
    /\ \E e \in {0, n.empty} : n' = [n EXCEPT !.empty = e]
    /\ UNCHANGED <<sticky, wrote, capTold, disk>>

InputEnds ==
    /\ at = "input"
    /\ \/ Ends("cancelled")
       \/ ~capTold /\ Ends("completed")   \* /end-session

-----------------------------------------------------------------------------
Loop ==
    \/ RunawayGuard \/ DispatchCancelled \/ DispatchFails \/ EmptyAnswer
    \/ Identical \/ Answer
    \/ ProseIsCritique \/ ProseIsNoCritique \/ CritiqueIsDone \/ CritiqueGoesOn
    \/ WriteFiles \/ RejectFiles
    \/ CallTools \/ AskDelete \/ Suspend \/ SuspendFails
    \/ Record \/ RecordFails \/ Resume
    \/ PhaseFails \/ GateClean \/ GateDirty \/ NoGate
    \/ WindDown \/ Pump \/ AskUser

User ==
    \/ DeleteAnswered \/ DeleteCancelled
    \/ Reply \/ AskCancelled
    \/ InputGoesOn \/ InputEnds

Next == Start \/ Kill \/ Loop \/ User

Spec == Init /\ [][Next]_vars

\* A request comes back, the loop goes on, and the Cancel that the presenter
\* queued with a cap is read; the user need not answer.
FairSpec == Spec /\ WF_vars(Loop \/ (capTold /\ User))

-----------------------------------------------------------------------------
(* Properties.                                                             *)

Recording(t) == at \in {"closing", "keeping"} /\ ask.thread = t

\* No reply of the user is lost or recorded twice: as long as no write failed
\* and no kill fell between a reply and its record, a thread that was answered
\* is on disk with all its turns, or it is closed and recorded once, whatever
\* sessions ended meanwhile (resume_from_user_ask, recover_from_checkpoint).
AnswersAreKept ==
    \A t \in Threads :
        /\ disk.recorded[t] <= 1
        /\ ~fault /\ replies[t] > 0 =>
              \/ Recording(t)
              \/ disk.recorded[t] = 1 /\ t \notin DOMAIN disk.files
              \/ t \in DOMAIN disk.files /\ disk.files[t] = replies[t]

\* An unattended work session waits for a user who may not be there only when
\* the LLM failed or a cap was told, for which the presenter has queued a Cancel
\* (dispatch.rs:338, "intentionally includes `max_auto_iters`"): every other turn
\* of it, with files, calls, prose or nothing, ends it or makes a request.
AutoWorkParksForCause ==
    at = "input" /\ mode.auto /\ mode.kind = "work" => resp.text = "failed" \/ capTold

\* A work session that retries on blockers ends as completed only after a
\* write of its own, unless a user ended it (work_retry_has_prior_blockers).
RetryIsNotIdle ==
    [][ mode.auto /\ mode.kind = "work" /\ mode.blockers
        /\ at \notin {"off", "input"} /\ ended' = "completed" => wrote ]_vars

\* A session never spins: again and again it has ended or waits for the user,
\* and not on a Cancel that is queued, so one that told a cap ends even if the
\* turn that told it went on to another request.
SessionSettles == []<>(at = "off" \/ (at \in Parked /\ ~capTold))

\* A question is pending only while the loop waits for its reply
\* (ask_user/runtime.rs, has_pending: "`true` when an `ask_user` call has
\* parked the LLM turn and hasn't been resumed yet").
PendingIsParked == ask.pending => at = "ask"

\* dispatch.rs:2077: "phase exceeded {MAX_ITER_PER_PHASE} iterations; pausing for
\* user input".
PhaseCapPauses ==
    [][n'.phase > n.phase /\ n'.phase >= MaxPhaseIters => at' \in {"tail", "input"}]_vars
=============================================================================
