----------------------------- MODULE AutoDriver -----------------------------
(***************************************************************************)
(* One `sim-flow auto` process: the run loop of session/auto.rs, the       *)
(* AutoPresenter between it and its host, and the work and critique        *)
(* sub-sessions it runs one after another on the same connection.          *)
(*                                                                         *)
(* The host talks whenever it likes, but its events are read one at a time *)
(* and only where the code calls recv(): the first handshake, the park of  *)
(* the manual loop, and the parks of a sub-session.  Reading is therefore  *)
(* a choice of the event made there.                                       *)
(*                                                                         *)
(* The LLM, the gates and the critique files are the environment: how many *)
(* findings a critique leaves and what a gate answers are choices.  Steps  *)
(* are the numbers 1 .. Steps, in flow order.  The StateFile module covers *)
(* state.toml; here an advance and a reset take effect at once.            *)
(***************************************************************************)
EXTENDS Integers, Sequences

CONSTANTS
    Steps,              \* how many steps the flow has
    MaxCritiqueIters,   \* opts.max_critique_iters
    MaxNoProgressIters, \* opts.max_critique_no_progress_iters; 0 disables it
    MaxLlmRequests,     \* opts.max_llm_requests
    WalkCap,            \* MILESTONE_WALK_CAP
    Parallel,           \* the kinds of parallel walk met: {}, "worktree", "inplace"
    Stubs,              \* pending milestones of a parallel walk
    MaxFindings,        \* bound: gate-failing findings of a critique
    MaxHostEvents,      \* bound: events the host sends after its Hello
    MaxKills            \* bound: deaths of the process

ASSUME AutoDriverAssumption ==
    /\ Steps \in Nat \ {0}
    /\ MaxCritiqueIters \in Nat /\ MaxNoProgressIters \in Nat
    /\ MaxLlmRequests \in Nat \ {0} /\ WalkCap \in Nat \ {0} /\ Stubs \in Nat \ {0}
    /\ Parallel \subseteq {"worktree", "inplace"}
    /\ MaxFindings \in Nat /\ MaxHostEvents \in Nat /\ MaxKills \in Nat

Modes == {"auto", "manual"}
Findings == 0 .. MaxFindings
NoCount == -1   \* prev_blocker_count = None

\* The host's events. SetStepMode and the end of the connection have actions
\* of their own; Stray stands for every event no recv() of the driver knows.
Commands == {"work", "critique", "gate", "advance", "reset"} \X (1 .. Steps)
Hello == <<"hello">>
Cancel == <<"cancel">>
Shutdown == <<"shutdown">>
UserMessage == <<"user">>
ContinueFlow == <<"continue">>
Stray == <<"stray">>

VARIABLES
    pc,         \* the run loop's position; during a sub-session, where it returns to
    sub,        \* the sub-session's position, "none" outside
    turns,      \* LLM requests the sub-session has made
    pr,         \* the AutoPresenter: queue, consume, cap, mode, shutdown
    closed,     \* the host is gone: recv returns None
    job,        \* the locals of the auto loop or of an Advance
    lastSub,    \* last manual sub-session: <<>> or <<kind, step>>
    disk,       \* state.toml's current_step, checkpoint.json (<<>> if absent)
    exit,       \* how run_auto returned
    events, kills  \* the bounded counters

\* History variables: no guard reads them.
VARIABLES
    ended,      \* SessionEnd events the host received
    refused,    \* a step command was refused while no sub-session ran
    capped,     \* a cap tripped in the auto loop and the host has not said `auto` since
    passes,     \* work passes of the auto loop on one target since the loop was entered
    late        \* sub-sessions begun in a row although the host has asked to stop

bounds == <<events, kills>>
marks == <<ended, refused, capped, passes>>
ghosts == <<marks, late>>
vars == <<pc, sub, turns, pr, closed, job, lastSub, disk, exit, bounds, ghosts>>

AutoLabels == {"loop", "worked", "critiqued"}
WalkLabels == {"walk", "walked"}
AdvanceLabels == {"advance", "advanceWorked"}
Labels == {"hello", "dispatch", "parked", "exited"}
              \union AutoLabels \union WalkLabels \union AdvanceLabels

AutoPresenter == [queue    : Seq({Hello, Cancel} \union Commands),
                  consume  : BOOLEAN,
                  cap      : BOOLEAN,
                  mode     : Modes,
                  shutdown : BOOLEAN]

Counters == [iters      : 0 .. MaxCritiqueIters + 1,
             noProgress : Nat,
             prev       : Findings \union {NoCount}]

Job == [at : 1 .. Steps, counters : Counters, walks : 0 .. WalkCap, left : 0 .. Stubs]

AutoCheckpoint == [step : 1 .. Steps, counters : Counters]

TypeOK ==
    /\ pc \in Labels
    /\ sub \in {"none", "handshake", "turn", "park"}
    /\ turns \in 0 .. MaxLlmRequests
    /\ pr \in AutoPresenter
    /\ job \in Job
    /\ lastSub = <<>> \/ lastSub \in {"work", "critique"} \X (1 .. Steps)
    /\ disk \in [step : 1 .. Steps, checkpoint : Seq(AutoCheckpoint)]
    /\ exit \in {"", "ok", "error", "gotCommand", "gotCancel"}
    /\ events \in Nat /\ kills \in Nat /\ ended \in Nat /\ passes \in Nat
    /\ late \in Nat
    /\ closed \in BOOLEAN /\ refused \in BOOLEAN /\ capped \in BOOLEAN

-----------------------------------------------------------------------------
new(m) == [queue |-> <<>>, consume |-> FALSE, cap |-> FALSE, mode |-> m,
           shutdown |-> FALSE]

ZeroCounters == [iters |-> 0, noProgress |-> 0, prev |-> NoCount]
JobOn(s, c) == [at |-> s, counters |-> c, walks |-> 0, left |-> 0]
NoJob == JobOn(1, ZeroCounters)

Init ==
    /\ pc = "hello"
    /\ sub = "none"
    /\ turns = 0
    /\ pr \in {new(m) : m \in Modes}
    /\ closed = FALSE
    /\ job = NoJob
    /\ lastSub = <<>>
    /\ disk = [step |-> 1, checkpoint |-> <<>>]
    /\ exit = ""
    /\ events = 0
    /\ kills = 0
    /\ ended = 0
    /\ refused = FALSE
    /\ capped = FALSE
    /\ passes = 0
    /\ late = 0

\* The process dies and is started again, by a host of its own; what is on
\* disk stays.
Kill ==
    /\ pc # "exited"
    /\ kills < MaxKills
    /\ kills' = kills + 1
    /\ pc' = "hello"
    /\ sub' = "none"
    /\ turns' = 0
    /\ pr' \in {new(m) : m \in Modes}
    /\ closed' = FALSE
    /\ job' = NoJob
    /\ lastSub' = <<>>
    /\ ended' = 0
    /\ capped' = FALSE
    /\ passes' = 0
    /\ late' = 0
    /\ UNCHANGED <<disk, exit, events, refused>>

-----------------------------------------------------------------------------
(* run_auto returns.                                                       *)

Leaves(how) ==
    /\ pc' = "exited"
    /\ exit' = how
    /\ sub' = "none"
    /\ turns' = 0
    /\ job' = NoJob

\* AutoPresenter::send of a SessionEnd: swallowed once per sub-session.
SendSessionEnd(p) ==
    /\ pr' = [p EXCEPT !.consume = FALSE]
    /\ ended' = IF p.consume THEN ended ELSE ended + 1

\* The clean end, which always tells the host.
Finishes(p) ==
    /\ Leaves("ok")
    /\ SendSessionEnd([p EXCEPT !.consume = FALSE])

\* A read, a write, a load or a check failed: `?` propagates the error.
EnvironmentError ==
    /\ pc # "exited"
    /\ Leaves("error")
    /\ UNCHANGED <<pr, closed, lastSub, disk, bounds, ghosts>>

Exited == pc = "exited" /\ UNCHANGED vars

-----------------------------------------------------------------------------
(* AutoPresenter::recv: queued events first, then the host's.              *)

AtRecv == sub = "park" \/ (sub = "none" /\ pc \in {"hello", "parked"})

\* The presenter once the event it returns is off its queue.
Rest == IF pr.queue = <<>> THEN pr ELSE [pr EXCEPT !.queue = Tail(@)]

HostSends ==
    /\ pr.queue = <<>>
    /\ ~closed
    /\ events < MaxHostEvents
    /\ events' = events + 1

\* Mutant: the queue is consulted only inside a sub-session.
ReadsFromHost(e) ==
    \/ /\ pr.queue # <<>>
       /\ sub # "none"
       /\ e = Head(pr.queue)
       /\ UNCHANGED events
    \/ /\ HostSends
       /\ e \in Commands => pr.mode = "manual"

\* recv returns e, from the queue or, a command only in manual mode, the host.
Reads(e) ==
    \/ /\ pr.queue # <<>>
       /\ e = Head(pr.queue)
       /\ UNCHANGED events
    \/ /\ HostSends
       /\ e \in Commands => pr.mode = "manual"

\* recv returns None.
HostGone == pr.queue = <<>> /\ closed' = TRUE /\ UNCHANGED events

\* Two events recv handles itself before it reads on.
SetStepMode(m) ==
    /\ AtRecv
    /\ HostSends
    /\ pr' = [pr EXCEPT !.mode = m]
    /\ capped' = (capped /\ m # "auto")
    /\ UNCHANGED <<pc, sub, turns, closed, job, lastSub, disk, exit, kills, ended,
                   refused, passes, late>>

RefuseCommand ==
    /\ AtRecv
    /\ HostSends
    /\ pr.mode = "auto"
    /\ refused' = (refused \/ pc = "parked")
    /\ UNCHANGED <<pc, sub, turns, pr, closed, job, lastSub, disk, exit, kills, ended,
                   capped, passes, late>>

-----------------------------------------------------------------------------
(* A sub-session: run_subsession_scoped around run_session.                *)

\* Mutant: a sub-session's SessionEnd is not marked for swallowing.
OpenedLoud(p) == [p EXCEPT !.queue = Append(@, Hello), !.cap = FALSE]

Opened(p) == [p EXCEPT !.queue = Append(@, Hello), !.consume = TRUE, !.cap = FALSE]

\* A Shutdown was read, or in the auto loop and its walk a change to manual mode.
AskedToStop(p) == p.shutdown \/ (p.mode = "manual" /\ pc \in AutoLabels \union WalkLabels)

RunSubsession(p, returnTo) ==
    /\ pr' = Opened(p)
    /\ sub' = "handshake"
    /\ turns' = 0
    /\ pc' = returnTo
    /\ late' = IF AskedToStop(p) THEN late + 1 ELSE 0

\* run_session's first recv must give a Hello.
Handshake ==
    /\ sub = "handshake"
    /\ \/ /\ Head(pr.queue) = Hello
          /\ pr' = Rest
          /\ sub' = "turn"
          /\ UNCHANGED <<pc, turns, job, exit, ended>>
       \/ /\ Head(pr.queue) # Hello
          /\ Leaves(IF Head(pr.queue) = Cancel THEN "gotCancel" ELSE "gotCommand")
          /\ SendSessionEnd(Rest)
    /\ UNCHANGED <<closed, lastSub, disk, bounds, refused, capped, passes, late>>

\* Mutant: every such diagnostic queues a Cancel, not only the first.
CapTrippedAgain(p) == [p EXCEPT !.cap = TRUE, !.queue = Append(@, Cancel)]

\* AutoPresenter::send of a diagnostic that names max_auto_iters.
CapTripped(p) ==
    IF p.cap THEN p ELSE [p EXCEPT !.cap = TRUE, !.queue = Append(@, Cancel)]

\* One LLM request and what follows it up to the next: another request or a
\* park, with or without the diagnostic of a cap on the way.
LlmTurn ==
    /\ sub = "turn"
    /\ turns < MaxLlmRequests
    /\ turns' = turns + 1
    /\ sub' \in {"turn", "park"}
    /\ \/ UNCHANGED <<pr, capped>>
       \/ /\ pr' = CapTripped(pr)
          /\ capped' = (capped \/ pc \in AutoLabels)
    /\ UNCHANGED <<pc, closed, job, lastSub, disk, exit, bounds, ended, refused, passes,
                   late>>

EndsSubsession(p) ==
    /\ sub' = "none"
    /\ turns' = 0
    /\ SendSessionEnd(p)
    /\ UNCHANGED <<pc, job, lastSub, disk, exit, kills, refused, capped, passes, late>>

\* Gate clean, runaway guard, or the LLM call was cancelled.
SessionCompletes ==
    /\ sub = "turn"
    /\ EndsSubsession(pr)
    /\ UNCHANGED <<closed, events>>

\* The park hands an event to the session: it goes on, or it ends.
ParkResumes ==
    /\ sub = "park"
    /\ Reads(UserMessage) \/ Reads(ContinueFlow) \/ Reads(Stray)
    /\ sub' = "turn"
    /\ UNCHANGED <<pc, turns, pr, closed, job, lastSub, disk, exit, kills, ghosts>>

ParkEnds ==
    /\ sub = "park"
    /\ \/ Reads(UserMessage) /\ EndsSubsession(pr) /\ UNCHANGED closed
       \/ Reads(Cancel) /\ EndsSubsession(Rest) /\ UNCHANGED closed
       \/ HostGone /\ EndsSubsession(pr)

\* recv turns a Shutdown into a Cancel, and a command into a Cancel with the
\* command queued for the manual loop.
ParkInterrupted ==
    /\ sub = "park"
    /\ HostSends
    /\ \/ EndsSubsession([pr EXCEPT !.shutdown = TRUE])
       \/ /\ pr.mode = "manual"
          /\ \E c \in Commands : EndsSubsession([pr EXCEPT !.queue = Append(@, c)])
    /\ UNCHANGED closed

-----------------------------------------------------------------------------
(* run_auto.                                                               *)

InitialHandshake ==
    /\ pc = "hello"
    /\ \/ pc' = "dispatch" /\ UNCHANGED <<sub, turns, pr, closed, job, exit, events, ended>>
       \/ /\ HostSends
          /\ Leaves("error")
          /\ SendSessionEnd(pr)
          /\ UNCHANGED closed
       \/ HostGone /\ Leaves("error") /\ UNCHANGED <<pr, ended>>
    /\ UNCHANGED <<lastSub, disk, kills, refused, capped, passes, late>>

\* Stop on a shutdown, enter run_auto_loop, or park in wait_for_command.
Dispatch ==
    /\ pc = "dispatch"
    /\ sub = "none"
    /\ \/ /\ pr.shutdown
          /\ Finishes(pr)
          /\ UNCHANGED <<disk, passes>>
       \/ /\ ~pr.shutdown
          /\ pr.mode = "auto"
          /\ LET c == disk.checkpoint
                 resumed == c # <<>> /\ c[1].step = disk.step
             IN /\ job' = JobOn(disk.step, IF resumed THEN c[1].counters ELSE ZeroCounters)
                /\ disk' = [disk EXCEPT !.checkpoint = IF resumed THEN @ ELSE <<>>]
          /\ pc' = "loop"
          /\ passes' = 0
          /\ UNCHANGED <<sub, turns, pr, exit, ended>>
       \/ /\ ~pr.shutdown
          /\ pr.mode = "manual"
          /\ pc' = "parked"
          /\ UNCHANGED <<sub, turns, pr, job, disk, exit, ended, passes>>
    /\ UNCHANGED <<closed, lastSub, bounds, refused, capped, late>>

-----------------------------------------------------------------------------
(* wait_for_command, in manual mode.                                       *)

Parked == pc = "parked" /\ sub = "none"

\* The step a finished advance leaves as the current one.
Successor(s) == IF s < Steps THEN s + 1 ELSE s

StartAdvance(s) ==
    /\ pr' = Rest
    /\ job' = JobOn(s, ZeroCounters)
    /\ lastSub' = <<>>
    /\ pc' = "advance"
    /\ UNCHANGED <<sub, turns, late>>

StartManual(kind, s) ==
    /\ RunSubsession(Rest, "dispatch")
    /\ lastSub' = <<kind, s>>
    /\ UNCHANGED job

RunStep ==
    /\ Parked
    /\ \E kind \in {"work", "critique"}, s \in 1 .. Steps :
           Reads(<<kind, s>>) /\ StartManual(kind, s)
    /\ UNCHANGED <<closed, disk, exit, kills, marks>>

Advance ==
    /\ Parked
    /\ \E s \in 1 .. Steps : Reads(<<"advance", s>>) /\ StartAdvance(s)
    /\ UNCHANGED <<closed, disk, exit, kills, marks>>

Reset ==
    /\ Parked
    /\ \E s \in 1 .. Steps : /\ Reads(<<"reset", s>>)
                             /\ disk' = [disk EXCEPT !.step = s]
    /\ pr' = Rest
    /\ lastSub' = <<>>
    /\ pc' = "dispatch"
    /\ UNCHANGED <<sub, turns, closed, job, exit, kills, ghosts>>

\* The action the driver itself takes for next: work, then critique, then
\* whichever of the two the critique on disk asks for.
Continue ==
    LET midStep(kind) == lastSub = <<kind, disk.step>>
    IN /\ Parked
       /\ Reads(ContinueFlow)
       /\ \/ ~midStep("work") /\ StartManual("work", disk.step)
          \/ midStep("work") /\ StartManual("critique", disk.step)
          \/ midStep("critique") /\ StartAdvance(disk.step)
       /\ UNCHANGED <<closed, disk, exit, kills, marks>>

\* A gate run, a question answered by the LLM, an event nobody expects.
Answer ==
    /\ Parked
    /\ \/ \E s \in 1 .. Steps : Reads(<<"gate", s>>)
       \/ \E e \in {UserMessage, Stray, Cancel} : Reads(e)
    /\ pr' = Rest
    /\ pc' = "dispatch"
    /\ UNCHANGED <<sub, turns, closed, job, lastSub, disk, exit, kills, ghosts>>

StopWaiting ==
    /\ Parked
    /\ \/ /\ Reads(Shutdown)
          /\ Finishes([Rest EXCEPT !.shutdown = TRUE])
          /\ UNCHANGED closed
       \/ HostGone /\ Finishes(pr)
    /\ UNCHANGED <<lastSub, disk, kills, refused, capped, passes, late>>

-----------------------------------------------------------------------------
(* The retry counters, shared by the auto loop and run_manual_advance.     *)

\* A critique left n findings: the streak without a strict decrease.
Counted(c, n) ==
    [c EXCEPT !.noProgress = IF c.prev = NoCount THEN @ ELSE IF n < c.prev THEN 0 ELSE @ + 1,
              !.prev = n]

Retried(c) == [c EXCEPT !.iters = @ + 1]

\* Mutant: the absolute cap allows one retry too many.
OutOfBudgetLate(c) ==
    \/ c.iters > MaxCritiqueIters + 1
    \/ MaxNoProgressIters > 0 /\ c.noProgress > MaxNoProgressIters

OutOfBudget(c) ==
    \/ c.iters > MaxCritiqueIters
    \/ MaxNoProgressIters > 0 /\ c.noProgress > MaxNoProgressIters

-----------------------------------------------------------------------------
(* run_auto_loop.                                                          *)

InLoop == sub = "none" /\ pc \in AutoLabels \union {"walked"}

\* Mutants: the cap, or the shutdown, is not looked at.
MustStopButForCap == pr.shutdown \/ pr.mode = "manual"
MustStopButForShutdown == (pc # "loop" /\ pr.cap) \/ pr.mode = "manual"

\* check_pre_subsession at the top of the loop, check_post_subsession after a
\* sub-session: the cap is only looked at after one.
MustStop == pr.shutdown \/ (pc # "loop" /\ pr.cap) \/ pr.mode = "manual"

FlipToManual == pr' = [pr EXCEPT !.mode = "manual"]

ReturnFromLoop ==
    /\ pc' = "dispatch"
    /\ job' = NoJob
    /\ UNCHANGED <<sub, turns, exit, ended>>

Stop ==
    /\ InLoop
    /\ MustStop
    /\ IF pr.shutdown THEN Finishes(pr) ELSE FlipToManual /\ ReturnFromLoop
    /\ UNCHANGED <<closed, lastSub, disk, bounds, refused, capped, passes, late>>

RunWork ==
    /\ InLoop /\ pc = "loop" /\ ~MustStop
    /\ RunSubsession(pr, "worked")
    /\ passes' = passes + 1
    /\ UNCHANGED <<closed, job, lastSub, disk, exit, bounds, ended, refused, capped>>

RunCritique ==
    /\ InLoop /\ pc = "worked" /\ ~MustStop
    /\ RunSubsession(pr, "critiqued")
    /\ UNCHANGED <<closed, job, lastSub, disk, exit, bounds, marks>>

\* The step is done: on to the next one of the list made at entry.
NextOfList ==
    IF job.at < Steps
    THEN /\ job' = JobOn(job.at + 1, ZeroCounters)
         /\ pc' = "loop"
         /\ passes' = 0
         /\ UNCHANGED <<sub, turns, pr, exit, ended>>
    ELSE Finishes(pr) /\ UNCHANGED passes

\* n gate-failing findings: advance, move to the next milestone, retry or stop.
JudgeCritique(n) ==
    LET c == Counted(job.counters, n)
        Save(counters) == disk' = [disk EXCEPT !.checkpoint =
                                       <<[step |-> job.at, counters |-> counters]>>]
    IN \/ /\ n = 0     \* AdvanceOutcome::Advanced
          /\ disk' = [step |-> Successor(job.at), checkpoint |-> <<>>]
          /\ NextOfList
       \/ /\ n = 0     \* AdvanceOutcome::MoreMilestonesPending
          /\ Save(ZeroCounters)
          /\ job' = [job EXCEPT !.counters = ZeroCounters]
          /\ pc' = "loop"
          /\ passes' = 0
          /\ UNCHANGED <<sub, turns, pr, exit, ended>>
       \/ /\ n = 0 \/ OutOfBudget(Retried(c))     \* AdvanceOutcome::Stuck, or a cap
          /\ Save(c)
          /\ FlipToManual
          /\ ReturnFromLoop
          /\ UNCHANGED passes
       \/ /\ n > 0 /\ ~OutOfBudget(Retried(c))
          /\ Save(c)
          /\ job' = [job EXCEPT !.counters = Retried(c)]
          /\ pc' = "loop"
          /\ UNCHANGED <<sub, turns, pr, exit, ended, passes>>

\* The findings of the critique session, or, for the first step of the flow,
\* those of a deterministic check that makes the session unnecessary.
Judge ==
    /\ InLoop /\ ~MustStop
    /\ \/ pc = "critiqued" /\ \E n \in Findings : JudgeCritique(n)
       \/ pc = "worked" /\ job.at = 1 /\ \E n \in Findings \ {0} : JudgeCritique(n)
    /\ UNCHANGED <<closed, lastSub, bounds, refused, capped, late>>

-----------------------------------------------------------------------------
(* run_plan_detail_walk_parallel, seen from the run loop.                  *)

\* The workers have presenters of their own; their events, the diagnostic of
\* a cap among them, are forwarded through this one.
ParallelWork ==
    /\ InLoop /\ pc = "loop" /\ ~MustStop
    /\ pr' \in {pr, CapTripped(pr)}
    /\ \/ /\ "worktree" \in Parallel     \* the workers do the critiques as well
          /\ pc' = "walked"
          /\ UNCHANGED job
       \/ /\ "inplace" \in Parallel
          /\ pc' = "walk"
          /\ job' = [job EXCEPT !.left = Stubs]
    /\ UNCHANGED <<sub, turns, closed, lastSub, disk, exit, bounds, ghosts>>

\* In place, the critiques follow one by one.
WalkCritique ==
    /\ pc = "walk" /\ sub = "none"
    /\ \/ /\ job.left > 0
          /\ RunSubsession(pr, "walk")
          /\ job' = [job EXCEPT !.left = @ - 1]
       \/ /\ job.left = 0
          /\ pc' = "walked"
          /\ UNCHANGED <<sub, turns, pr, job, late>>
    /\ UNCHANGED <<closed, lastSub, disk, exit, bounds, marks>>

\* Findings flip the mode; without any, the list goes on whatever
\* try_advance_classified returned.
WalkEnds ==
    /\ InLoop /\ pc = "walked" /\ ~MustStop
    /\ \/ FlipToManual /\ ReturnFromLoop /\ UNCHANGED <<disk, passes>>
       \/ /\ \E s \in {disk.step, Successor(job.at)} : disk' = [step |-> s, checkpoint |-> <<>>]
          /\ NextOfList
    /\ UNCHANGED <<closed, lastSub, bounds, refused, capped, late>>

-----------------------------------------------------------------------------
(* run_manual_advance.                                                     *)

AdvanceReturns == pc' = "dispatch" /\ job' = NoJob /\ UNCHANGED <<sub, turns, pr, late>>

\* Mutant: the milestones walked are counted from zero in every pass.
ReworkUnwalked(c, w) == job' = JobOn(job.at, c) /\ RunSubsession(pr, "advanceWorked")

Rework(c, w) ==
    /\ job' = [job EXCEPT !.counters = c, !.walks = w]
    /\ RunSubsession(pr, "advanceWorked")

TryAdvance ==
    LET c == job.counters
        stuck == Retried(c)
    IN /\ pc = "advance" /\ sub = "none"
       /\ \/ /\ \E n \in Findings \ {0} :
                   LET d == Retried(Counted(c, n))
                   IN IF OutOfBudget(d) THEN AdvanceReturns ELSE Rework(d, job.walks)
             /\ UNCHANGED disk
          \/ /\ disk' = [disk EXCEPT !.step = Successor(job.at)]
             /\ AdvanceReturns
          \/ /\ IF stuck.iters > MaxCritiqueIters
                THEN AdvanceReturns ELSE Rework(stuck, job.walks)
             /\ UNCHANGED disk
          \/ /\ IF job.walks < WalkCap
                THEN Rework(ZeroCounters, job.walks + 1) ELSE AdvanceReturns
             /\ UNCHANGED disk
       /\ UNCHANGED <<closed, lastSub, exit, bounds, marks>>

AdvanceCritique ==
    /\ pc = "advanceWorked" /\ sub = "none"
    /\ RunSubsession(pr, "advance")
    /\ UNCHANGED <<closed, job, lastSub, disk, exit, bounds, marks>>

-----------------------------------------------------------------------------
\* What the process does by itself.
Driver ==
    \/ Handshake \/ LlmTurn \/ SessionCompletes \/ Dispatch
    \/ Stop \/ RunWork \/ RunCritique \/ Judge
    \/ ParallelWork \/ WalkCritique \/ WalkEnds
    \/ TryAdvance \/ AdvanceCritique

\* What it does once recv has given it something, from the queue or the host.
Receive ==
    \/ InitialHandshake \/ RefuseCommand \/ \E m \in Modes : SetStepMode(m)
    \/ ParkResumes \/ ParkEnds \/ ParkInterrupted
    \/ RunStep \/ Advance \/ Reset \/ Continue \/ Answer \/ StopWaiting

Next == Driver \/ Receive \/ EnvironmentError \/ Kill \/ Exited

Spec == Init /\ [][Next]_vars

\* The process runs while it can; a queued event is read like any other step,
\* the host owes it nothing.
Runs == Driver \/ (pr.queue # <<>> /\ Receive)

FairSpec == Spec /\ WF_vars(Runs)

-----------------------------------------------------------------------------
(* Correctness.                                                            *)

\* The host of a run that ends cleanly gets one SessionEnd, whatever the
\* sub-sessions sent; before that, and of a sub-session, it never gets any.
OneSessionEnd ==
    /\ exit = "ok" => ended = 1
    /\ exit # "ok" => ended <= (IF exit = "error" THEN 1 ELSE 0)

Begins == sub = "none" /\ sub' = "handshake"

\* The work passes an Advance can make: its retries of the first milestone and
\* of each of the others it walks on to, and the first pass of each of these.
AdvanceWork == (WalkCap + 1) * MaxCritiqueIters + WalkCap

\* How many sub-sessions still begin after the host has asked to stop: an
\* Advance and the critiques of a parallel walk do not look at the presenter.
Overhang ==
    CASE pc \in AdvanceLabels -> 2 * AdvanceWork - 1
      [] pc = "walk" -> Stubs - 1
      [] OTHER -> 0

\* A Shutdown, or in the auto loop a change to manual mode, that is read while a
\* sub-session is parked is heeded: at once in the auto loop, and elsewhere after
\* at most the critiques of one walk, or the retries and milestones of one
\* Advance, whatever the critiques find and the host goes on to say.
HostIsHeeded == sub = "handshake" => late <= Overhang

\* After a cap tripped in a sub-session of the auto loop, no other one starts
\* there until the host says `auto` again, or the process is started again.
CapStopsTheLoop == [][Begins /\ pc \in AutoLabels => ~capped]_vars

\* max_critique_iters: without an advance, a new milestone or a new entry into
\* the loop, at most that many work passes follow the first; also when the
\* counters come from a checkpoint.
RetryBudget == passes <= MaxCritiqueIters + 1

\* The queue of the presenter stays short: at most a cancellation, a command
\* and the Hello of the sub-session being started, in that order.
QueueIsShort ==
    LET q == pr.queue
        isCommand(e) == e \in Commands
    IN pc # "exited" =>
       /\ Len(q) <= 2
       /\ \A i \in 1 .. Len(q) : q[i] = Hello => i = Len(q) /\ sub = "handshake"
       /\ \A i, j \in 1 .. Len(q) : i # j => q[i] # q[j] /\ ~(isCommand(q[i]) /\ isCommand(q[j]))

\* A Shutdown that reaches a parked manual loop or a serial auto loop ends the
\* process, whatever the host does next.
ShutdownExits ==
    pr.shutdown /\ pc \in AutoLabels \union {"parked", "dispatch"}
        ~> pc = "exited" \/ ~pr.shutdown

\* A command accepted while a sub-session was parked does not stay queued.
CommandQueued == \E i \in 1 .. Len(pr.queue) : pr.queue[i] \in Commands

QueuedCommandRuns == CommandQueued ~> pc = "exited" \/ ~CommandQueued

-----------------------------------------------------------------------------
(* What the comments and the protocol documentation say, and the code does *)
(* not do. The README tells how to see each of them fail.                  *)

\* "`run_subsession` emits SubSessionEnded, and the outer loop's next read
\* picks up the queued manual command" (auto.rs:4185): a command accepted
\* while a sub-session is parked never breaks the run.
QueuedCommandIsDispatched == exit # "gotCommand"

\* "The run loop sees the flag and emits a final SessionEnd before returning"
\* (auto.rs:33): after a Shutdown no sub-session is started.
ShutdownWins == [][Begins => ~pr.shutdown]_vars

\* "Manual -> auto: orchestrator stays parked until the user's next RunStep or
\* Advance" (protocol.rs:272): the parked loop takes that command.
ParkedTakesCommands == ~refused

\* The auto loop works on the step state.toml calls the current one: it leaves
\* a step only when the step has advanced.
LoopFollowsState ==
    pc \in AutoLabels \union WalkLabels => job.at = disk.step
=============================================================================
