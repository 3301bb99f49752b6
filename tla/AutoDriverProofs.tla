-------------------------- MODULE AutoDriverProofs --------------------------
(***************************************************************************)
(* Theorems about AutoDriver, for any number of steps, findings and host   *)
(* events and any value of the caps.                                       *)
(***************************************************************************)
EXTENDS AutoDriver, SequenceTheorems, TLAPS

(***************************************************************************)
(* The host's events, and the operators on the presenter and the counters. *)
(***************************************************************************)

\* What the presenter's queue can hold.
Queueable == {Hello, Cancel} \union Commands

\* No two kinds of event are confused.
LEMMA EventsDiffer ==
    /\ Hello # Cancel /\ Hello \notin Commands /\ Cancel \notin Commands
    /\ ContinueFlow \notin {Hello, Cancel} \union Commands
    /\ UserMessage \notin {Hello, Cancel} \union Commands
    /\ Stray \notin {Hello, Cancel} \union Commands
    /\ Shutdown \notin {Hello, Cancel} \union Commands
BY DEF Hello, Cancel, ContinueFlow, UserMessage, Stray, Shutdown, Commands

\* The fields of a presenter.
LEMMA PresenterFields ==
    ASSUME NEW p \in AutoPresenter
    PROVE  /\ p.queue \in Seq(Queueable)
           /\ p.consume \in BOOLEAN /\ p.cap \in BOOLEAN /\ p.mode \in Modes
           /\ p.shutdown \in BOOLEAN
BY DEF AutoPresenter, Queueable

\* Each change of one field leaves the others alone.
LEMMA SetQueue ==
    ASSUME NEW p \in AutoPresenter, NEW v \in Seq(Queueable)
    PROVE  LET q == [p EXCEPT !.queue = v]
           IN /\ q \in AutoPresenter
              /\ q.queue = v /\ q.consume = p.consume /\ q.cap = p.cap
              /\ q.mode = p.mode /\ q.shutdown = p.shutdown
BY DEF AutoPresenter, Queueable

LEMMA SetConsume ==
    ASSUME NEW p \in AutoPresenter, NEW v \in BOOLEAN
    PROVE  LET q == [p EXCEPT !.consume = v]
           IN /\ q \in AutoPresenter
              /\ q.queue = p.queue /\ q.consume = v /\ q.cap = p.cap
              /\ q.mode = p.mode /\ q.shutdown = p.shutdown
BY DEF AutoPresenter

LEMMA SetCap ==
    ASSUME NEW p \in AutoPresenter, NEW v \in BOOLEAN
    PROVE  LET q == [p EXCEPT !.cap = v]
           IN /\ q \in AutoPresenter
              /\ q.queue = p.queue /\ q.consume = p.consume /\ q.cap = v
              /\ q.mode = p.mode /\ q.shutdown = p.shutdown
BY DEF AutoPresenter

LEMMA SetMode ==
    ASSUME NEW p \in AutoPresenter, NEW v \in Modes
    PROVE  LET q == [p EXCEPT !.mode = v]
           IN /\ q \in AutoPresenter
              /\ q.queue = p.queue /\ q.consume = p.consume /\ q.cap = p.cap
              /\ q.mode = v /\ q.shutdown = p.shutdown
BY DEF AutoPresenter

LEMMA SetShutdown ==
    ASSUME NEW p \in AutoPresenter, NEW v \in BOOLEAN
    PROVE  LET q == [p EXCEPT !.shutdown = v]
           IN /\ q \in AutoPresenter
              /\ q.queue = p.queue /\ q.consume = p.consume /\ q.cap = p.cap
              /\ q.mode = p.mode /\ q.shutdown = v
BY DEF AutoPresenter

\* Opening a sub-session queues its Hello, arms the swallowing of its
\* SessionEnd and forgets the cap of the one before.
LEMMA OpenedFields ==
    ASSUME NEW p \in AutoPresenter
    PROVE  /\ Opened(p) \in AutoPresenter
           /\ Opened(p).queue = Append(p.queue, Hello)
           /\ Opened(p).consume = TRUE
           /\ Opened(p).cap = FALSE
           /\ Opened(p).mode = p.mode
           /\ Opened(p).shutdown = p.shutdown
<1> DEFINE a == [p EXCEPT !.queue = Append(@, Hello)]
           b == [a EXCEPT !.consume = TRUE]
<1>1. Append(p.queue, Hello) \in Seq(Queueable)
  BY PresenterFields DEF Queueable
<1>2. /\ a \in AutoPresenter
      /\ a.queue = Append(p.queue, Hello) /\ a.mode = p.mode /\ a.shutdown = p.shutdown
  BY <1>1, SetQueue, Zenon
<1> HIDE DEF a
<1>3. /\ b \in AutoPresenter /\ b.consume = TRUE
      /\ b.queue = a.queue /\ b.mode = a.mode /\ b.shutdown = a.shutdown
  BY <1>2, SetConsume
<1>4. Opened(p) = [b EXCEPT !.cap = FALSE]
  BY Zenon DEF Opened, a
<1> HIDE DEF b
<1>5. QED
  BY <1>2, <1>3, <1>4, SetCap

\* The diagnostic of a cap queues a Cancel the first time only.
LEMMA CapTrippedFields ==
    ASSUME NEW p \in AutoPresenter
    PROVE  /\ CapTripped(p) \in AutoPresenter
           /\ CapTripped(p).queue = IF p.cap THEN p.queue ELSE Append(p.queue, Cancel)
           /\ CapTripped(p).consume = p.consume
           /\ CapTripped(p).cap = TRUE
           /\ CapTripped(p).mode = p.mode
           /\ CapTripped(p).shutdown = p.shutdown
<1> DEFINE a == [p EXCEPT !.cap = TRUE]
<1>1. CASE p.cap
  BY <1>1, PresenterFields DEF CapTripped
<1>2. CASE ~p.cap
  <2>1. /\ a \in AutoPresenter /\ a.cap = TRUE
        /\ a.queue = p.queue /\ a.consume = p.consume /\ a.mode = p.mode
        /\ a.shutdown = p.shutdown
    BY SetCap
  <2>2. CapTripped(p) = [a EXCEPT !.queue = Append(a.queue, Cancel)]
    BY <1>2, Zenon DEF CapTripped
  <2> HIDE DEF a
  <2>3. Append(a.queue, Cancel) \in Seq(Queueable)
    BY <2>1, PresenterFields DEF Queueable
  <2> DEFINE b == [a EXCEPT !.queue = Append(a.queue, Cancel)]
  <2>4. /\ b \in AutoPresenter /\ b.queue = Append(a.queue, Cancel)
        /\ b.consume = a.consume /\ b.cap = a.cap /\ b.mode = a.mode
        /\ b.shutdown = a.shutdown
    BY <2>1, <2>3, SetQueue, Zenon
  <2> HIDE DEF b
  <2>5. CapTripped(p) = b
    BY <2>2 DEF b
  <2>6. QED
    BY <1>2, <2>1, <2>4, <2>5
<1>3. QED
  BY <1>1, <1>2

\* Reading takes the head of the queue and nothing else.
LEMMA RestFields ==
    ASSUME pr \in AutoPresenter
    PROVE  /\ Rest \in AutoPresenter
           /\ Rest.queue = IF pr.queue = <<>> THEN <<>> ELSE Tail(pr.queue)
           /\ Rest.consume = pr.consume
           /\ Rest.cap = pr.cap
           /\ Rest.mode = pr.mode
           /\ Rest.shutdown = pr.shutdown
<1>1. pr.queue \in Seq(Queueable)
  BY PresenterFields
<1>2. CASE pr.queue = <<>>
  BY <1>2 DEF Rest
<1>3. CASE pr.queue # <<>>
  <2>1. Tail(pr.queue) \in Seq(Queueable)
    BY <1>1, <1>3
  <2>2. Rest = [pr EXCEPT !.queue = Tail(pr.queue)]
    BY <1>3, Zenon DEF Rest
  <2>3. QED
    BY <1>3, <2>1, <2>2, SetQueue
<1>4. QED
  BY <1>2, <1>3

\* A process starts with an empty queue.
LEMMA NewPresenter ==
    ASSUME NEW m \in Modes
    PROVE  /\ new(m) \in AutoPresenter /\ new(m).queue = <<>>
           /\ new(m).consume = FALSE
BY DEF AutoPresenter, new

\* A critique's findings move the streak; only a retry moves the counter that
\* max_critique_iters bounds.
LEMMA CounterFacts ==
    ASSUME NEW c \in Counters, NEW n \in Findings
    PROVE  /\ Counted(c, n) \in Counters
           /\ Counted(c, n).iters = c.iters
           /\ c.iters \in Nat
           /\ Retried(c).iters = c.iters + 1
           /\ c.iters <= MaxCritiqueIters => Retried(c) \in Counters
           /\ ZeroCounters \in Counters /\ ZeroCounters.iters = 0
<1> DEFINE streak == IF c.prev = NoCount THEN c.noProgress
                     ELSE IF n < c.prev THEN 0 ELSE c.noProgress + 1
           a == [c EXCEPT !.noProgress = streak]
<1>0. Findings \subseteq Int /\ NoCount \notin Findings
  BY AutoDriverAssumption DEF Findings, NoCount
<1>1. streak \in Nat
  BY <1>0 DEF Counters
<1>2. Counted(c, n) = [a EXCEPT !.prev = n]
  BY Zenon DEF Counted
<1> HIDE DEF streak
<1>3. a \in Counters /\ a.iters = c.iters
  BY <1>1 DEF Counters
<1> HIDE DEF a
<1>4. Counted(c, n) \in Counters /\ Counted(c, n).iters = c.iters
  BY <1>2, <1>3 DEF Counters
<1>5. /\ Retried(c).iters = c.iters + 1
      /\ c.iters \in Nat
      /\ c.iters <= MaxCritiqueIters => Retried(c) \in Counters
  BY AutoDriverAssumption DEF Counters, Retried
<1>6. ZeroCounters \in Counters /\ ZeroCounters.iters = 0
  BY AutoDriverAssumption DEF Counters, ZeroCounters
<1>7. QED
  BY <1>4, <1>5, <1>6

\* A job starts with the counters it is given and no walk behind it.
LEMMA JobFacts ==
    ASSUME NEW s \in 1 .. Steps, NEW c \in Counters
    PROVE  /\ JobOn(s, c) \in Job
           /\ JobOn(s, c).counters = c
           /\ JobOn(s, c).at = s
<1>1. 0 \in 0 .. WalkCap /\ 0 \in 0 .. Stubs
  BY AutoDriverAssumption
<1>2. QED
  BY <1>1 DEF Job, JobOn

\* Outside its loops the process has no job.
LEMMA NoJobFacts ==
    /\ ZeroCounters \in Counters /\ ZeroCounters.iters = 0
    /\ NoJob \in Job /\ NoJob.counters = ZeroCounters
<1>1. ZeroCounters \in Counters /\ ZeroCounters.iters = 0
  BY AutoDriverAssumption DEF Counters, ZeroCounters
<1>2. 1 \in 1 .. Steps
  BY AutoDriverAssumption
<1>3. QED
  BY <1>1, <1>2, JobFacts DEF NoJob

\* Sequences of one and two events.
LEMMA ShortQueues ==
    ASSUME NEW e, NEW f
    PROVE  /\ Append(<<>>, f) = <<f>> /\ Append(<<e>>, f) = <<e, f>>
           /\ Head(<<e>>) = e /\ Head(<<e, f>>) = e
           /\ Tail(<<e>>) = <<>>
           /\ <<e>> # <<>> /\ <<e, f>> # <<>> /\ <<e>> # <<f, e>>
           /\ <<e>> = <<f>> => e = f
<1> DEFINE a == Append(<<e>>, f)
           b == <<e, f>>
<1>1. a \in Seq({e, f}) /\ b \in Seq({e, f})
  OBVIOUS
<1>2. Len(a) = 2 /\ Len(b) = 2 /\ a[1] = e /\ a[2] = f /\ b[1] = e /\ b[2] = f
  OBVIOUS
<1>3. \A i \in 1 .. Len(a) : a[i] = b[i]
  BY <1>2
<1> HIDE DEF a, b
<1>4. a = b
  BY <1>1, <1>2, <1>3, SeqEqual
<1>5. Append(<<e>>, f) = <<e, f>>
  BY <1>4 DEF a, b
<1>6. Append(<<>>, f) = <<f>> /\ Head(<<e>>) = e /\ Head(<<e, f>>) = e /\ Tail(<<e>>) = <<>>
  OBVIOUS
<1>7. <<e>> # <<>> /\ <<e, f>> # <<>> /\ <<e>> # <<f, e>> /\ (<<e>> = <<f>> => e = f)
  OBVIOUS
<1>8. QED
  BY <1>5, <1>6, <1>7

-----------------------------------------------------------------------------
(***************************************************************************)
(* What the operators the actions are built from do to the variables.      *)
(***************************************************************************)

\* A SessionEnd reaches the host unless the presenter swallows it.
LEMMA SessionEndFacts ==
    ASSUME NEW p \in AutoPresenter, SendSessionEnd(p)
    PROVE  /\ pr' \in AutoPresenter
           /\ pr'.queue = p.queue /\ pr'.consume = FALSE /\ pr'.cap = p.cap
           /\ pr'.mode = p.mode /\ pr'.shutdown = p.shutdown
           /\ ended' = IF p.consume THEN ended ELSE ended + 1
BY SetConsume DEF SendSessionEnd

\* The clean end tells the host once more, whatever was to be swallowed.
LEMMA FinishFacts ==
    ASSUME NEW p \in AutoPresenter, Finishes(p)
    PROVE  /\ pr' \in AutoPresenter
           /\ ended' = ended + 1
           /\ pc' = "exited" /\ exit' = "ok" /\ sub' = "none" /\ turns' = 0 /\ job' = NoJob
<1> DEFINE q == [p EXCEPT !.consume = FALSE]
<1>1. q \in AutoPresenter /\ q.consume = FALSE
  BY SetConsume
<1>2. SendSessionEnd(q)
  BY DEF Finishes
<1> HIDE DEF q
<1>3. pr' \in AutoPresenter /\ ended' = ended + 1
  BY <1>1, <1>2, SessionEndFacts
<1>4. QED
  BY <1>3 DEF Finishes, Leaves

\* A sub-session is opened.
LEMMA OpeningFacts ==
    ASSUME NEW p \in AutoPresenter, NEW returnTo, RunSubsession(p, returnTo)
    PROVE  /\ pr' \in AutoPresenter
           /\ pr'.queue = Append(p.queue, Hello) /\ pr'.consume = TRUE /\ pr'.cap = FALSE
           /\ pr'.mode = p.mode /\ pr'.shutdown = p.shutdown
           /\ sub' = "handshake" /\ turns' = 0 /\ pc' = returnTo
BY OpenedFields DEF RunSubsession

\* The mode goes to manual.
LEMMA FlipFacts ==
    ASSUME pr \in AutoPresenter, FlipToManual
    PROVE  /\ pr' \in AutoPresenter
           /\ pr'.queue = pr.queue /\ pr'.consume = pr.consume /\ pr'.cap = pr.cap
           /\ pr'.mode = "manual" /\ pr'.shutdown = pr.shutdown
BY SetMode DEF FlipToManual, Modes

-----------------------------------------------------------------------------
(***************************************************************************)
(* The inductive invariant.                                                *)
(***************************************************************************)

\* Where the run loop is never inside a sub-session.
Position == pc \in {"hello", "parked", "loop", "walked", "exited"} => sub = "none"

\* What is queued where: the Hello of a sub-session being opened, behind at
\* most one leftover; a Cancel of the cap whose flag still says so; a command,
\* between sub-sessions and in manual mode.
QueueInv ==
    /\ sub = "handshake" =>
          \/ pr.queue = <<Hello>>
          \/ \E e \in {Cancel} \union Commands : pr.queue = <<e, Hello>>
    /\ pc # "exited" /\ sub # "handshake" =>
          \/ pr.queue = <<>>
          \/ pr.queue = <<Cancel>> /\ pr.cap
          \/ /\ sub = "none" /\ pr.mode = "manual"
             /\ \E c \in Commands : pr.queue = <<c>>

\* The host has heard no SessionEnd while the process runs, and will not hear
\* that of a sub-session.
EndInv ==
    /\ pc # "exited" => exit = "" /\ ended = 0
    /\ pc = "exited" => exit # "" /\ OneSessionEnd
    /\ sub # "none" => pr.consume

\* A cap that tripped is remembered until the loop has looked at it; then the
\* mode is manual.
CapInv ==
    capped => \/ pr.mode = "manual"
              \/ pc \in {"worked", "critiqued"} /\ pr.cap
              \/ pc = "exited"

\* The retry counter is ahead of the passes made, in memory and, as a
\* checkpoint will bring it back, on disk.
BudgetInv ==
    /\ job.counters.iters <= MaxCritiqueIters
    /\ disk.checkpoint # <<>> => disk.checkpoint[1].counters.iters <= MaxCritiqueIters
    /\ pc = "loop" => passes <= job.counters.iters
    /\ pc \in {"worked", "critiqued"} => passes <= job.counters.iters + 1
    /\ passes <= MaxCritiqueIters + 1

\* TypeOK, its conjuncts named for the steps below.
ControlType ==
    /\ pc \in Labels
    /\ sub \in {"none", "handshake", "turn", "park"}
    /\ turns \in 0 .. MaxLlmRequests
    /\ lastSub = <<>> \/ lastSub \in {"work", "critique"} \X (1 .. Steps)
    /\ exit \in {"", "ok", "error", "gotCommand", "gotCancel"}
    /\ events \in Nat /\ kills \in Nat /\ ended \in Nat /\ passes \in Nat
    /\ closed \in BOOLEAN /\ refused \in BOOLEAN /\ capped \in BOOLEAN

DiskType == disk \in [step : 1 .. Steps, checkpoint : Seq(AutoCheckpoint)]

IInv ==
    /\ ControlType /\ DiskType /\ pr \in AutoPresenter /\ job \in Job
    /\ Position /\ QueueInv /\ EndInv /\ CapInv /\ BudgetInv

\* TypeOK is the first line of it.
LEMMA TypesSplit ==
    TypeOK <=> ControlType /\ DiskType /\ pr \in AutoPresenter /\ job \in Job /\ late \in Nat
BY DEF TypeOK, ControlType, DiskType

\* The least values the bounds leave room for.
LEMMA Bounds ==
    /\ 1 \in 1 .. Steps /\ Steps \in Nat
    /\ 0 \in 0 .. MaxLlmRequests /\ MaxLlmRequests \in Nat
    /\ 0 <= MaxCritiqueIters /\ 0 <= MaxCritiqueIters + 1 /\ MaxCritiqueIters \in Nat
    /\ WalkCap \in Nat /\ Stubs \in Nat
BY AutoDriverAssumption

\* A process that has just started.
LEMMA IInvInit == Init => IInv
<1> SUFFICES ASSUME Init PROVE IInv
  OBVIOUS
<1>1. PICK m \in Modes : pr = new(m)
  BY DEF Init
<1>a. /\ pc = "hello" /\ sub = "none" /\ turns = 0 /\ closed = FALSE /\ job = NoJob
      /\ lastSub = <<>> /\ disk = [step |-> 1, checkpoint |-> <<>>] /\ exit = ""
      /\ events = 0 /\ kills = 0 /\ ended = 0 /\ refused = FALSE /\ capped = FALSE
      /\ passes = 0
  BY DEF Init
<1>2. pr \in AutoPresenter /\ pr.queue = <<>>
  BY <1>1, NewPresenter
<1>3. job \in Job /\ job.counters.iters = 0
  BY <1>a, NoJobFacts
<1>4. ControlType
  BY <1>a, Bounds DEF ControlType, Labels
<1>5. DiskType
  <2>1. <<>> \in Seq(AutoCheckpoint)
    OBVIOUS
  <2>2. QED
    BY <1>a, <2>1, Bounds DEF DiskType
<1>6. Position /\ QueueInv /\ EndInv /\ CapInv
  BY <1>a, <1>2 DEF Position, QueueInv, EndInv, CapInv
<1>7. BudgetInv
  BY <1>a, <1>3, Bounds DEF BudgetInv
<1>8. QED
  BY <1>2, <1>3, <1>4, <1>5, <1>6, <1>7 DEF IInv

-----------------------------------------------------------------------------
(***************************************************************************)
(* The steps that read an event, and those of a sub-session.               *)
(***************************************************************************)

\* The host sends on an empty queue, and its events are counted.
LEMMA HostSendsFacts ==
    ASSUME IInv, HostSends
    PROVE  pr.queue = <<>> /\ events' \in Nat
<1>1. pr.queue = <<>> /\ events' = events + 1
  BY Zenon DEF HostSends
<1>2. events \in Nat
  BY DEF IInv, ControlType
<1>3. QED
  BY <1>1, <1>2

\* Where recv is called the queue holds at most one event, and what is read
\* from it is that one.
LEMMA ReadingFacts ==
    ASSUME IInv, AtRecv, NEW e, Reads(e)
    PROVE  /\ pc # "exited"
           /\ Rest \in AutoPresenter /\ Rest.queue = <<>>
           /\ Rest.consume = pr.consume /\ Rest.cap = pr.cap /\ Rest.mode = pr.mode
           /\ Rest.shutdown = pr.shutdown
           /\ events' \in Nat
<1>1. pc # "exited" /\ sub # "handshake"
  BY DEF AtRecv, IInv, Position
<1>2. pr.queue = <<>> \/ \E f \in Queueable : pr.queue = <<f>>
  BY <1>1 DEF IInv, QueueInv, Queueable
<1>3. Rest.queue = <<>>
  BY <1>2, ShortQueues, RestFields DEF IInv
<1>4. events' \in Nat
  <2>1. events \in Nat
    BY DEF IInv, ControlType
  <2>2. UNCHANGED events \/ HostSends
    BY DEF Reads
  <2>3. QED
    BY <2>1, <2>2, HostSendsFacts
<1>5. QED
  BY <1>1, <1>3, <1>4, RestFields DEF IInv

\* The host's mode and the refusal of a command touch nothing else.
LEMMA HostTalks ==
    ASSUME IInv, (\E m \in Modes : SetStepMode(m)) \/ RefuseCommand
    PROVE  IInv'
<1> USE DEF IInv
<1>1. HostSends /\ AtRecv
  BY DEF SetStepMode, RefuseCommand
<1>0. pc # "exited" /\ sub # "handshake" /\ pr.queue = <<>> /\ events' \in Nat
  BY <1>1, HostSendsFacts DEF AtRecv, Position
<1>2. CASE RefuseCommand
  <2>1. /\ UNCHANGED <<pc, sub, turns, pr, closed, job, lastSub, disk, exit, kills, ended,
                       capped, passes>>
    BY <1>2, Zenon DEF RefuseCommand
  <2>2. refused' \in BOOLEAN
    BY <1>2, Zenon DEF RefuseCommand
  <2>3. ControlType' /\ DiskType' /\ Position' /\ QueueInv' /\ EndInv' /\ BudgetInv'
    BY <1>0, <2>1, <2>2
    DEF ControlType, DiskType, Position, QueueInv, EndInv, OneSessionEnd, BudgetInv
  <2>4. CapInv'
    BY <2>1, Zenon DEF CapInv
  <2>5. QED
    BY <2>1, <2>3, <2>4
<1>3. ASSUME NEW m \in Modes, SetStepMode(m)
      PROVE  IInv'
  <2>1. /\ UNCHANGED <<pc, sub, turns, closed, job, lastSub, disk, exit, kills, ended,
                       refused, passes>>
        /\ pr' = [pr EXCEPT !.mode = m]
        /\ capped' = (capped /\ m # "auto")
    BY <1>3, Zenon DEF SetStepMode
  <2>2. /\ pr' \in AutoPresenter /\ pr'.queue = <<>> /\ pr'.consume = pr.consume
        /\ pr'.cap = pr.cap /\ pr'.mode = m
    BY <1>0, <2>1, SetMode
  <2>a. capped' \in BOOLEAN
    BY <2>1, Zenon
  <2>b. capped' => m # "auto"
    BY <2>1, Zenon
  <2>3. ControlType' /\ DiskType' /\ Position' /\ EndInv' /\ BudgetInv'
    BY <1>0, <2>1, <2>2, <2>a
    DEF ControlType, DiskType, Position, EndInv, OneSessionEnd, BudgetInv
  <2>4. QueueInv'
    BY <2>1, <2>2 DEF QueueInv
  <2>5. CapInv'
    BY <2>2, <2>b, Zenon DEF CapInv, Modes
  <2>6. QED
    BY <2>1, <2>2, <2>3, <2>4, <2>5
<1>4. QED
  BY <1>2, <1>3

\* The first event of a sub-session: its Hello, or the end of the process.
LEMMA HandshakeStep == ASSUME IInv, Handshake PROVE IInv'
<1> USE DEF IInv
<1>1. /\ sub = "handshake" /\ pc # "exited" /\ exit = "" /\ ended = 0 /\ pr.consume
      /\ UNCHANGED <<closed, lastSub, disk, bounds, refused, capped, passes>>
  BY DEF Handshake, Position, EndInv
<1>2. pr.queue = <<Hello>> \/ \E e \in {Cancel} \union Commands : pr.queue = <<e, Hello>>
  BY <1>1 DEF QueueInv
<1>3. /\ Rest \in AutoPresenter /\ Rest.consume = pr.consume /\ Rest.cap = pr.cap
      /\ Rest.mode = pr.mode
  BY RestFields
<1>4. CASE Head(pr.queue) = Hello
  <2>1. pr' = Rest /\ sub' = "turn" /\ UNCHANGED <<pc, turns, job, exit, ended>>
    BY <1>4 DEF Handshake
  <2>2. pr.queue = <<Hello>>
    BY <1>2, <1>4, EventsDiffer, ShortQueues
  <2>3. pr'.queue = <<>>
    BY <2>1, <2>2, RestFields, ShortQueues
  <2>4. ControlType' /\ DiskType' /\ Position' /\ EndInv' /\ BudgetInv'
    BY <1>1, <1>3, <2>1
    DEF bounds, ControlType, DiskType, Position, EndInv, OneSessionEnd, BudgetInv
  <2>5. QueueInv' /\ CapInv'
    BY <1>1, <1>3, <2>1, <2>3 DEF QueueInv, CapInv
  <2>6. QED
    BY <1>3, <2>1, <2>4, <2>5
<1>5. CASE Head(pr.queue) # Hello
  <2>1. /\ Leaves(IF Head(pr.queue) = Cancel THEN "gotCancel" ELSE "gotCommand")
        /\ SendSessionEnd(Rest)
    BY <1>5 DEF Handshake
  <2>2. pr' \in AutoPresenter /\ ended' = 0
    BY <1>1, <1>3, <2>1, SessionEndFacts
  <2>3. /\ pc' = "exited" /\ sub' = "none" /\ turns' = 0 /\ job' = NoJob
        /\ exit' \in {"gotCancel", "gotCommand"}
    BY <2>1 DEF Leaves
  <2>8. ControlType'
    BY <1>1, <2>2, <2>3, Bounds DEF bounds, ControlType, Labels
  <2>9. OneSessionEnd'
    BY <2>2, <2>3 DEF OneSessionEnd
  <2>4. Position' /\ EndInv' /\ QueueInv'
    BY <2>3, <2>9 DEF Position, EndInv, QueueInv
  <2>7. CapInv'
    BY <2>3, Zenon DEF CapInv
  <2>5. DiskType' /\ job' \in Job /\ BudgetInv'
    BY <1>1, <2>3, Bounds, NoJobFacts DEF DiskType, BudgetInv
  <2>6. QED
    BY <2>2, <2>4, <2>5, <2>7, <2>8
<1>6. QED
  BY <1>4, <1>5

\* One LLM request, with or without a cap's diagnostic.
LEMMA LlmTurnStep == ASSUME IInv, LlmTurn PROVE IInv'
<1> USE DEF IInv
<1>0. /\ sub = "turn" /\ sub' \in {"turn", "park"}
      /\ turns < MaxLlmRequests /\ turns' = turns + 1
      /\ UNCHANGED <<pc, closed, job, lastSub, disk, exit, events, kills, ended, refused,
                     passes>>
  BY Zenon DEF LlmTurn, bounds
<1>1. pc # "exited" /\ turns' \in 0 .. MaxLlmRequests
  <2>1. pc # "exited"
    BY <1>0 DEF Position
  <2>2. turns \in 0 .. MaxLlmRequests
    BY DEF ControlType
  <2>3. turns' \in 0 .. MaxLlmRequests
    BY <1>0, <2>2, Bounds
  <2>4. QED
    BY <2>1, <2>3
<1>2. pr.queue = <<>> \/ (pr.queue = <<Cancel>> /\ pr.cap)
  BY <1>0, <1>1 DEF QueueInv
<1>3. CASE UNCHANGED <<pr, capped>>
  <2>1. ControlType' /\ DiskType' /\ Position' /\ EndInv' /\ BudgetInv'
    BY <1>0, <1>1, <1>3
    DEF ControlType, DiskType, Position, EndInv, OneSessionEnd, BudgetInv
  <2>2. QueueInv'
    BY <1>0, <1>1, <1>2, <1>3 DEF QueueInv
  <2>3. CapInv'
    BY <1>0, <1>3, Zenon DEF CapInv
  <2>4. QED
    BY <1>0, <1>3, <2>1, <2>2, <2>3
<1>4. CASE pr' = CapTripped(pr) /\ capped' = (capped \/ pc \in AutoLabels)
  <2>1. /\ pr' \in AutoPresenter /\ pr'.consume = pr.consume /\ pr'.cap = TRUE
        /\ pr'.mode = pr.mode
        /\ pr'.queue = IF pr.cap THEN pr.queue ELSE Append(pr.queue, Cancel)
    BY <1>4, CapTrippedFields
  <2>2. pr'.queue = <<>> \/ pr'.queue = <<Cancel>>
    BY <1>2, <2>1, ShortQueues
  <2>a. capped' \in BOOLEAN
    BY <1>4, Zenon
  <2>3. ControlType' /\ DiskType' /\ Position' /\ EndInv' /\ BudgetInv'
    BY <1>0, <1>1, <2>1, <2>a
    DEF ControlType, DiskType, Position, EndInv, OneSessionEnd, BudgetInv
  <2>4. QueueInv'
    BY <1>0, <1>1, <2>1, <2>2 DEF QueueInv
  <2>5. pc \in AutoLabels => pc \in {"worked", "critiqued"}
    BY <1>0 DEF AutoLabels, Position
  <2>6. CapInv'
    BY <1>0, <1>4, <2>1, <2>5, Zenon DEF CapInv
  <2>7. QED
    BY <1>0, <2>1, <2>3, <2>4, <2>6
<1>5. QED
  BY <1>3, <1>4 DEF LlmTurn

\* A sub-session ends: its SessionEnd is swallowed.
LEMMA EndsStep ==
    ASSUME IInv, NEW p \in AutoPresenter, EndsSubsession(p),
           sub \in {"turn", "park"},
           p.consume = pr.consume, p.cap = pr.cap, p.mode = pr.mode,
           \/ p.queue = <<>>
           \/ p.queue = <<Cancel>> /\ p.cap
           \/ p.mode = "manual" /\ \E c \in Commands : p.queue = <<c>>,
           closed' \in BOOLEAN, events' \in Nat
    PROVE  IInv'
<1> USE DEF IInv
<1>1. /\ pc # "exited" /\ exit = "" /\ ended = 0 /\ pr.consume
      /\ pc \notin {"hello", "parked", "loop", "walked"}
  BY DEF Position, EndInv
<1>2. /\ sub' = "none" /\ turns' = 0
      /\ UNCHANGED <<pc, job, lastSub, disk, exit, kills, refused, capped, passes>>
      /\ SendSessionEnd(p)
  BY DEF EndsSubsession
<1>3. /\ pr' \in AutoPresenter /\ pr'.queue = p.queue /\ pr'.cap = pr.cap
      /\ pr'.mode = pr.mode /\ ended' = 0
  BY <1>1, <1>2, SessionEndFacts
<1>4. ControlType' /\ DiskType' /\ Position' /\ EndInv' /\ BudgetInv'
  BY <1>1, <1>2, <1>3, Bounds
  DEF ControlType, DiskType, Position, EndInv, OneSessionEnd, BudgetInv
<1>5. QueueInv' /\ CapInv'
  BY <1>1, <1>2, <1>3 DEF QueueInv, CapInv
<1>6. QED
  BY <1>2, <1>3, <1>4, <1>5

\* A sub-session that completes, one that goes on after its park, and the
\* ways a park ends one.
LEMMA SubsessionSteps ==
    ASSUME IInv, SessionCompletes \/ ParkResumes \/ ParkEnds \/ ParkInterrupted
    PROVE  IInv'
<1> USE DEF IInv
<1>1. CASE SessionCompletes
  <2>1. /\ sub = "turn" /\ EndsSubsession(pr) /\ closed' \in BOOLEAN /\ events' \in Nat
        /\ pc # "exited"
    BY <1>1 DEF SessionCompletes, ControlType, Position
  <2>2. pr.queue = <<>> \/ (pr.queue = <<Cancel>> /\ pr.cap)
    BY <2>1 DEF QueueInv
  <2>3. QED
    BY <2>1, <2>2, EndsStep
<1>2. CASE ParkResumes
  <2>1. /\ sub = "park" /\ sub' = "turn" /\ pc # "exited"
        /\ UNCHANGED <<pc, turns, pr, closed, job, lastSub, disk, exit, kills, ended,
                       refused, capped, passes>>
    BY <1>2 DEF ParkResumes, ghosts, marks, Position
  <2>2. events' \in Nat
    BY <1>2, HostSendsFacts DEF ParkResumes, Reads, ControlType
  <2>3. QED
    BY <2>1, <2>2
    DEF ControlType, DiskType, Position, EndInv, OneSessionEnd, BudgetInv, QueueInv, CapInv
<1>3. CASE ParkEnds
  <2>1. sub = "park" /\ AtRecv /\ pc # "exited"
    BY <1>3 DEF ParkEnds, AtRecv, Position
  <2>2. pr.queue = <<>> \/ (pr.queue = <<Cancel>> /\ pr.cap)
    BY <2>1 DEF QueueInv
  <2>3. CASE Reads(UserMessage) /\ EndsSubsession(pr) /\ UNCHANGED closed
    BY <2>1, <2>2, <2>3, ReadingFacts, EndsStep DEF ControlType
  <2>4. CASE Reads(Cancel) /\ EndsSubsession(Rest) /\ UNCHANGED closed
    BY <2>1, <2>4, ReadingFacts, EndsStep DEF ControlType
  <2>5. CASE HostGone /\ EndsSubsession(pr)
    <3>1. pr.queue = <<>> /\ closed' = TRUE /\ UNCHANGED events
      BY <2>5 DEF HostGone
    <3>2. closed' \in BOOLEAN /\ events' \in Nat
      BY <3>1 DEF ControlType
    <3>3. QED
      BY <2>1, <2>5, <3>1, <3>2, EndsStep
  <2>6. QED
    BY <1>3, <2>3, <2>4, <2>5 DEF ParkEnds
<1>4. CASE ParkInterrupted
  <2>1. sub = "park" /\ pr.queue = <<>> /\ events' \in Nat /\ closed' \in BOOLEAN
    BY <1>4, HostSendsFacts DEF ParkInterrupted, ControlType
  <2>2. CASE EndsSubsession([pr EXCEPT !.shutdown = TRUE])
    <3> DEFINE p == [pr EXCEPT !.shutdown = TRUE]
    <3>1. /\ p \in AutoPresenter /\ p.queue = <<>> /\ p.consume = pr.consume
          /\ p.cap = pr.cap /\ p.mode = pr.mode
      BY <2>1, SetShutdown
    <3>2. EndsSubsession(p)
      BY <2>2
    <3> HIDE DEF p
    <3>3. QED
      BY <2>1, <3>1, <3>2, EndsStep
  <2>3. ASSUME pr.mode = "manual", NEW c \in Commands,
               EndsSubsession([pr EXCEPT !.queue = Append(@, c)])
        PROVE  IInv'
    <3> DEFINE p == [pr EXCEPT !.queue = Append(@, c)]
    <3>1. Append(pr.queue, c) = <<c>> /\ <<c>> \in Seq(Queueable)
      BY <2>1, ShortQueues DEF Queueable
    <3>2. /\ p \in AutoPresenter /\ p.queue = Append(pr.queue, c)
          /\ p.consume = pr.consume /\ p.cap = pr.cap /\ p.mode = pr.mode
      BY <3>1, SetQueue, Zenon
    <3>3. EndsSubsession(p)
      BY <2>3
    <3> HIDE DEF p
    <3>4. QED
      BY <2>1, <2>3, <3>1, <3>2, <3>3, EndsStep
  <2>4. QED
    BY <1>4, <2>2, <2>3 DEF ParkInterrupted
<1>5. QED
  BY <1>1, <1>2, <1>3, <1>4

-----------------------------------------------------------------------------
(***************************************************************************)
(* The kinds of step the run loop is made of: it opens a sub-session, ends *)
(* the process, or moves between its positions outside sub-sessions.       *)
(***************************************************************************)

\* What is on disk may be resumed from.
DiskFits == DiskType /\ (disk.checkpoint # <<>> =>
                             disk.checkpoint[1].counters.iters <= MaxCritiqueIters)

\* The variables no step of the loop gets wrong.
Bystanders ==
    /\ lastSub = <<>> \/ lastSub \in {"work", "critique"} \X (1 .. Steps)
    /\ events \in Nat /\ kills \in Nat
    /\ closed \in BOOLEAN /\ refused \in BOOLEAN

\* They are part of the invariant.
LEMMA IInvParts == ASSUME IInv PROVE DiskFits /\ Bystanders
BY DEF IInv, DiskFits, Bystanders, ControlType, BudgetInv

\* A queue with nothing in it but what was left over.
Leftover(p) ==
    \/ p.queue = <<>>
    \/ \E e \in {Cancel} \union Commands : p.queue = <<e>>

\* Outside a handshake the presenter's queue is such a queue.
LEMMA QueueIsLeftover ==
    ASSUME IInv, pc # "exited", sub # "handshake"
    PROVE  Leftover(pr)
BY DEF IInv, QueueInv, Leftover

\* A sub-session is opened between two others.
LEMMA OpensStep ==
    ASSUME IInv, pc # "exited",
           NEW p \in AutoPresenter, p.mode = pr.mode, Leftover(p),
           NEW l \in {"worked", "critiqued", "dispatch", "walk", "advance", "advanceWorked"},
           RunSubsession(p, l),
           job' \in Job, job'.counters.iters <= MaxCritiqueIters,
           passes' \in Nat, passes' <= MaxCritiqueIters + 1,
           l \in {"worked", "critiqued"} => passes' <= job'.counters.iters + 1,
           capped => pr.mode = "manual",
           Bystanders',
           UNCHANGED <<disk, exit, ended, capped>>
    PROVE  IInv'
<1>1. /\ pr' \in AutoPresenter /\ pr'.queue = Append(p.queue, Hello) /\ pr'.consume = TRUE
      /\ pr'.mode = pr.mode
      /\ sub' = "handshake" /\ turns' = 0 /\ pc' = l
  BY OpeningFacts
<1>2. exit = "" /\ ended = 0
  BY DEF IInv, EndInv
<1>3. ControlType'
  <2>1. pc' \in Labels
    BY <1>1 DEF Labels, AutoLabels, WalkLabels, AdvanceLabels
  <2>2. capped' \in BOOLEAN
    BY DEF IInv, ControlType
  <2>3. QED
    BY <1>1, <1>2, <2>1, <2>2, Bounds DEF Bystanders, ControlType
<1>4. DiskFits'
  BY IInvParts DEF DiskFits, DiskType
<1>5. Position' /\ EndInv'
  BY <1>1, <1>2 DEF Position, EndInv
<1>6. QueueInv'
  <2>1. CASE p.queue = <<>>
    BY <1>1, <2>1, ShortQueues DEF QueueInv
  <2>2. ASSUME NEW e \in {Cancel} \union Commands, p.queue = <<e>>
        PROVE  QueueInv'
    <3>1. pr'.queue = <<e, Hello>>
      BY <1>1, <2>2, ShortQueues
    <3>2. QED
      BY <1>1, <3>1 DEF QueueInv
  <2>3. QED
    BY <2>1, <2>2 DEF Leftover
<1>7. CapInv'
  BY <1>1, Zenon DEF CapInv
<1>8. BudgetInv'
  <2>1. job'.counters.iters \in Nat
    BY DEF Job, Counters
  <2>2. disk'.checkpoint # <<>> => disk'.checkpoint[1].counters.iters <= MaxCritiqueIters
    BY <1>4 DEF DiskFits
  <2>3. QED
    BY <1>1, <2>1, <2>2 DEF BudgetInv
<1>9. QED
  BY <1>1, <1>3, <1>4, <1>5, <1>6, <1>7, <1>8 DEF IInv, DiskFits

\* The process ends by itself.
LEMMA LeavesStep ==
    ASSUME IInv, pc # "exited",
           NEW how \in {"ok", "error"}, Leaves(how),
           pr' \in AutoPresenter, ended' \in Nat,
           IF how = "ok" THEN ended' = 1 ELSE ended' <= 1,
           passes' \in Nat, passes' <= MaxCritiqueIters + 1,
           capped' \in BOOLEAN, DiskFits', Bystanders'
    PROVE  IInv'
<1>1. pc' = "exited" /\ exit' = how /\ sub' = "none" /\ turns' = 0 /\ job' = NoJob
  BY DEF Leaves
<1>2. ControlType'
  BY <1>1, Bounds DEF Bystanders, ControlType, Labels
<1>3. OneSessionEnd'
  BY <1>1 DEF OneSessionEnd
<1>4. Position' /\ QueueInv' /\ EndInv' /\ CapInv'
  BY <1>1, <1>3 DEF Position, QueueInv, EndInv, CapInv
<1>5. BudgetInv'
  BY <1>1, Bounds, NoJobFacts DEF BudgetInv, DiskFits
<1>6. QED
  BY <1>1, <1>2, <1>4, <1>5, NoJobFacts DEF IInv, DiskFits

\* The clean end.
LEMMA FinishesStep ==
    ASSUME IInv, pc # "exited", NEW p \in AutoPresenter, Finishes(p),
           passes' \in Nat, passes' <= MaxCritiqueIters + 1,
           capped' \in BOOLEAN, DiskFits', Bystanders'
    PROVE  IInv'
<1>1. pr' \in AutoPresenter /\ ended' = ended + 1 /\ Leaves("ok")
  BY FinishFacts DEF Finishes
<1>2. ended' = 1
  <2>1. ended = 0
    BY DEF IInv, EndInv
  <2>2. QED
    BY <1>1, <2>1
<1>3. QED
  BY <1>1, <1>2, LeavesStep

\* The process stays, outside sub-sessions, and goes to position l.
LEMMA MovesStep ==
    ASSUME IInv, pc # "exited", sub = "none",
           NEW l \in {"dispatch", "parked", "loop", "walk", "walked", "advance"},
           pc' = l, UNCHANGED <<sub, turns, exit, ended, capped>>,
           pr' \in AutoPresenter,
           \/ pr'.queue = <<>>
           \/ pr'.queue = <<Cancel>> /\ pr'.cap
           \/ pr'.mode = "manual" /\ \E c \in Commands : pr'.queue = <<c>>,
           capped => pr'.mode = "manual",
           job' \in Job, job'.counters.iters <= MaxCritiqueIters,
           passes' \in Nat, passes' <= MaxCritiqueIters + 1,
           l = "loop" => passes' <= job'.counters.iters,
           DiskFits', Bystanders'
    PROVE  IInv'
<1>1. exit = "" /\ ended = 0 /\ turns \in 0 .. MaxLlmRequests /\ capped \in BOOLEAN
  BY DEF IInv, EndInv, ControlType
<1>2. ControlType'
  <2>1. pc' \in Labels
    BY DEF Labels, AutoLabels, WalkLabels, AdvanceLabels
  <2>2. QED
    BY <1>1, <2>1 DEF Bystanders, ControlType
<1>3. Position' /\ EndInv'
  BY <1>1 DEF Position, EndInv
<1>4. QueueInv'
  BY DEF QueueInv
<1>5. CapInv'
  BY Zenon DEF CapInv
<1>6. BudgetInv'
  BY DEF BudgetInv, DiskFits
<1>7. QED
  BY <1>2, <1>3, <1>4, <1>5, <1>6 DEF IInv, DiskFits

\* The disk after a checkpoint, or after an advance took the checkpoint away.
LEMMA CheckpointFits ==
    ASSUME IInv, NEW c \in Counters, c.iters <= MaxCritiqueIters,
           disk' = [disk EXCEPT !.checkpoint = <<[step |-> job.at, counters |-> c]>>]
    PROVE  DiskFits'
<1> DEFINE r == [step |-> job.at, counters |-> c]
           q == <<r>>
<1>1. r \in AutoCheckpoint /\ r.counters = c
  BY DEF IInv, Job, AutoCheckpoint
<1> HIDE DEF r
<1>2. q \in Seq(AutoCheckpoint) /\ q[1] = r
  BY <1>1
<1>3. disk' = [disk EXCEPT !.checkpoint = q]
  BY DEF r
<1> HIDE DEF q
<1>4. disk' \in [step : 1 .. Steps, checkpoint : Seq(AutoCheckpoint)] /\ disk'.checkpoint = q
  BY <1>2, <1>3 DEF IInv, DiskType
<1>5. QED
  BY <1>1, <1>2, <1>4 DEF DiskFits, DiskType

LEMMA AdvancedFits ==
    ASSUME NEW s \in 1 .. Steps, disk' = [step |-> s, checkpoint |-> <<>>]
    PROVE  DiskFits'
<1>1. <<>> \in Seq(AutoCheckpoint)
  OBVIOUS
<1>2. QED
  BY <1>1 DEF DiskFits, DiskType

LEMMA StepSetFits ==
    ASSUME IInv, NEW s \in 1 .. Steps, disk' = [disk EXCEPT !.step = s]
    PROVE  DiskFits'
<1>1. /\ disk' \in [step : 1 .. Steps, checkpoint : Seq(AutoCheckpoint)]
      /\ disk'.checkpoint = disk.checkpoint
  BY DEF IInv, DiskType
<1>2. QED
  BY <1>1, IInvParts DEF DiskFits, DiskType

\* The step after the last is the last.
LEMMA SuccessorFacts == ASSUME NEW s \in 1 .. Steps PROVE Successor(s) \in 1 .. Steps
BY AutoDriverAssumption DEF Successor

-----------------------------------------------------------------------------
(***************************************************************************)
(* The actions, one lemma for each part of the loop.                       *)
(***************************************************************************)

\* A process that dies and comes back, and one that an error ends.
LEMMA KillStep == ASSUME IInv, Kill PROVE IInv'
<1>1. PICK m \in Modes : pr' = new(m)
  BY Zenon DEF Kill
<1>2. pr' \in AutoPresenter /\ pr'.queue = <<>>
  BY <1>1, NewPresenter
<1>3. /\ pc # "exited" /\ kills' = kills + 1 /\ pc' = "hello" /\ sub' = "none" /\ turns' = 0
      /\ closed' = FALSE /\ job' = NoJob /\ lastSub' = <<>> /\ ended' = 0
      /\ capped' = FALSE /\ passes' = 0
      /\ UNCHANGED <<disk, exit, events, refused>>
  BY Zenon DEF Kill
<1>4. exit = "" /\ kills' \in Nat /\ events \in Nat /\ refused \in BOOLEAN
  <2>1. kills \in Nat
    BY DEF IInv, ControlType
  <2>2. exit = "" /\ events \in Nat /\ refused \in BOOLEAN
    BY <1>3 DEF IInv, EndInv, ControlType
  <2>3. kills' = kills + 1
    BY <1>3
  <2>4. kills' \in Nat
    BY <2>1, <2>3
  <2>5. QED
    BY <2>2, <2>4
<1>5. ControlType'
  BY <1>3, <1>4, Bounds DEF ControlType, Labels
<1>6. DiskFits'
  BY <1>3, IInvParts DEF DiskFits, DiskType
<1>7. Position' /\ QueueInv' /\ EndInv' /\ CapInv'
  BY <1>2, <1>3, <1>4 DEF Position, QueueInv, EndInv, CapInv
<1>8. BudgetInv'
  BY <1>3, <1>6, Bounds, NoJobFacts DEF BudgetInv, DiskFits
<1>9. QED
  BY <1>2, <1>3, <1>5, <1>6, <1>7, <1>8, NoJobFacts DEF IInv, DiskFits

\* What the lemmas above ask of the variables an action leaves alone.
LEMMA Unmoved ==
    ASSUME IInv
    PROVE  /\ passes \in Nat /\ passes <= MaxCritiqueIters + 1
           /\ ended \in Nat /\ capped \in BOOLEAN
           /\ pc # "exited" => ended = 0
           /\ job \in Job /\ job.counters \in Counters /\ job.at \in 1 .. Steps
           /\ job.counters.iters <= MaxCritiqueIters /\ job.counters.iters \in Nat
           /\ pr \in AutoPresenter
           /\ disk.step \in 1 .. Steps
<1>1. /\ passes \in Nat /\ ended \in Nat /\ capped \in BOOLEAN
  BY DEF IInv, ControlType
<1>2. passes <= MaxCritiqueIters + 1 /\ job.counters.iters <= MaxCritiqueIters
  BY DEF IInv, BudgetInv
<1>3. pc # "exited" => ended = 0
  BY DEF IInv, EndInv
<1>4. job \in Job /\ job.counters \in Counters /\ job.at \in 1 .. Steps
  BY DEF IInv, Job
<1>5. job.counters.iters \in Nat
  BY <1>4 DEF Counters
<1>6. pr \in AutoPresenter /\ disk.step \in 1 .. Steps
  BY DEF IInv, DiskType
<1>7. QED
  BY <1>1, <1>2, <1>3, <1>4, <1>5, <1>6

LEMMA ErrorStep == ASSUME IInv, EnvironmentError PROVE IInv'
<1>1. /\ pc # "exited" /\ Leaves("error")
      /\ UNCHANGED <<pr, closed, lastSub, disk, events, kills, ended, refused, capped, passes>>
  BY Zenon DEF EnvironmentError, bounds, ghosts, marks
<1>2. DiskFits' /\ Bystanders'
  BY <1>1, IInvParts DEF DiskFits, DiskType, Bystanders
<1>3. ended' <= 1
  <2>1. ended' = 0
    BY <1>1, Unmoved
  <2>2. QED
    BY <2>1
<1>4. QED
  BY <1>1, <1>2, <1>3, Unmoved, LeavesStep

\* run_auto's first recv.
LEMMA InitialHandshakeStep == ASSUME IInv, InitialHandshake PROVE IInv'
<1>1. /\ pc = "hello" /\ sub = "none"
      /\ UNCHANGED <<lastSub, disk, kills, refused, capped, passes>>
  BY DEF InitialHandshake, IInv, Position
<1>2. DiskFits' /\ passes' \in Nat /\ passes' <= MaxCritiqueIters + 1 /\ capped' \in BOOLEAN
  BY <1>1, IInvParts, Unmoved DEF DiskFits, DiskType
<1>3. CASE pc' = "dispatch" /\ UNCHANGED <<sub, turns, pr, closed, job, exit, events, ended>>
  <2>1. Bystanders'
    BY <1>1, <1>3, IInvParts DEF Bystanders
  <2>2. \/ pr'.queue = <<>>
        \/ pr'.queue = <<Cancel>> /\ pr'.cap
        \/ pr'.mode = "manual" /\ \E c \in Commands : pr'.queue = <<c>>
    BY <1>1, <1>3 DEF IInv, QueueInv
  <2>3. capped => pr'.mode = "manual"
    BY <1>1, <1>3 DEF IInv, CapInv
  <2>4. QED
    BY <1>1, <1>2, <1>3, <2>1, <2>2, <2>3, Unmoved, MovesStep
<1>4. CASE HostSends /\ Leaves("error") /\ SendSessionEnd(pr) /\ UNCHANGED closed
  <2>1. Bystanders'
    BY <1>1, <1>4, IInvParts, HostSendsFacts DEF Bystanders
  <2>2. pr' \in AutoPresenter /\ (ended' = ended \/ ended' = ended + 1)
    BY <1>4, Unmoved, SessionEndFacts
  <2>3. ended = 0
    BY <1>1, Unmoved
  <2>4. ended' \in Nat /\ ended' <= 1
    BY <2>2, <2>3
  <2>5. QED
    BY <1>1, <1>2, <1>4, <2>1, <2>2, <2>4, LeavesStep
<1>5. CASE HostGone /\ Leaves("error") /\ UNCHANGED <<pr, ended>>
  <2>1. Bystanders'
    BY <1>1, <1>5, IInvParts DEF Bystanders, HostGone
  <2>2. ended' = 0 /\ ended' \in Nat
    BY <1>1, <1>5, Unmoved
  <2>3. ended' <= 1
    BY <2>2
  <2>4. QED
    BY <1>1, <1>2, <1>5, <2>1, <2>2, <2>3, Unmoved, LeavesStep
<1>6. QED
  BY <1>3, <1>4, <1>5 DEF InitialHandshake

\* run_auto's dispatch, on entry and after every return.
LEMMA DispatchStep == ASSUME IInv, Dispatch PROVE IInv'
<1>1. /\ pc = "dispatch" /\ sub = "none"
      /\ UNCHANGED <<closed, lastSub, events, kills, refused, capped>>
  BY Zenon DEF Dispatch, bounds
<1>2. Bystanders' /\ capped' \in BOOLEAN
  BY <1>1, IInvParts, Unmoved DEF Bystanders
<1>3. \/ pr.queue = <<>>
      \/ pr.queue = <<Cancel>> /\ pr.cap
      \/ pr.mode = "manual" /\ \E c \in Commands : pr.queue = <<c>>
  BY <1>1 DEF IInv, QueueInv
<1>4. capped => pr.mode = "manual"
  BY <1>1 DEF IInv, CapInv
<1>5. CASE Finishes(pr) /\ UNCHANGED <<disk, passes>>
  <2>1. DiskFits'
    BY <1>5, IInvParts DEF DiskFits, DiskType
  <2>2. QED
    BY <1>1, <1>2, <1>5, <2>1, Unmoved, FinishesStep
<1>6. CASE /\ pc' = "parked"
           /\ UNCHANGED <<sub, turns, pr, job, disk, exit, ended, passes>>
  <2>1. DiskFits'
    BY <1>6, IInvParts DEF DiskFits, DiskType
  <2>2. QED
    BY <1>1, <1>2, <1>3, <1>4, <1>6, <2>1, Unmoved, MovesStep
<1>7. ASSUME NEW resumed \in BOOLEAN,
             resumed <=> disk.checkpoint # <<>> /\ disk.checkpoint[1].step = disk.step,
             job' = JobOn(disk.step, IF resumed THEN disk.checkpoint[1].counters
                                                ELSE ZeroCounters),
             disk' = [disk EXCEPT !.checkpoint = IF resumed THEN @ ELSE <<>>],
             pc' = "loop", passes' = 0,
             UNCHANGED <<sub, turns, pr, exit, ended>>
      PROVE  IInv'
  <2>1. disk \in [step : 1 .. Steps, checkpoint : Seq(AutoCheckpoint)]
    BY DEF IInv, DiskType
  <2>2. resumed => disk.checkpoint[1] \in AutoCheckpoint
    BY <1>7, <2>1
  <2>3. /\ disk' \in [step : 1 .. Steps, checkpoint : Seq(AutoCheckpoint)]
        /\ disk'.checkpoint = disk.checkpoint \/ disk'.checkpoint = <<>>
    <3>1. CASE resumed
      <4>1. disk' = [disk EXCEPT !.checkpoint = disk.checkpoint]
        BY <1>7, <3>1, Zenon
      <4>2. QED
        BY <2>1, <4>1
    <3>2. CASE ~resumed
      <4>1. disk' = [disk EXCEPT !.checkpoint = <<>>]
        BY <1>7, <3>2, Zenon
      <4>2. <<>> \in Seq(AutoCheckpoint)
        OBVIOUS
      <4>3. QED
        BY <2>1, <4>1, <4>2
    <3>3. QED
      BY <3>1, <3>2
  <2>4. DiskFits'
    BY <2>3, IInvParts DEF DiskFits, DiskType
  <2>5. PICK c \in Counters : job' = JobOn(disk.step, c) /\ c.iters <= MaxCritiqueIters
    <3>1. CASE resumed
      <4>1. disk.checkpoint[1].counters \in Counters
        BY <2>2, <3>1 DEF AutoCheckpoint
      <4>2. disk.checkpoint[1].counters.iters <= MaxCritiqueIters
        BY <1>7, <3>1, IInvParts DEF DiskFits
      <4>3. job' = JobOn(disk.step, disk.checkpoint[1].counters)
        BY <1>7, <3>1, Zenon
      <4>4. QED
        BY <4>1, <4>2, <4>3
    <3>2. CASE ~resumed
      <4>1. job' = JobOn(disk.step, ZeroCounters)
        BY <1>7, <3>2, Zenon
      <4>2. QED
        BY <4>1, NoJobFacts, Bounds
    <3>3. QED
      BY <3>1, <3>2
  <2>6. job' \in Job /\ job'.counters.iters <= MaxCritiqueIters /\ job'.counters.iters \in Nat
    BY <2>5, Unmoved, JobFacts DEF Counters
  <2>7. passes' \in Nat /\ passes' <= MaxCritiqueIters + 1 /\ passes' <= job'.counters.iters
    BY <1>7, <2>6, Bounds
  <2>8. QED
    BY <1>1, <1>2, <1>3, <1>4, <1>7, <2>4, <2>6, <2>7, Unmoved, MovesStep
<1>8. CASE ~pr.shutdown /\ pr.mode = "auto"
  <2> DEFINE resumed == disk.checkpoint # <<>> /\ disk.checkpoint[1].step = disk.step
  <2>1. \/ Finishes(pr) /\ UNCHANGED <<disk, passes>>
        \/ /\ job' = JobOn(disk.step, IF resumed THEN disk.checkpoint[1].counters
                                                 ELSE ZeroCounters)
           /\ disk' = [disk EXCEPT !.checkpoint = IF resumed THEN @ ELSE <<>>]
           /\ pc' = "loop" /\ passes' = 0
           /\ UNCHANGED <<sub, turns, pr, exit, ended>>
    BY <1>8, Zenon DEF Dispatch, Modes
  <2>2. resumed \in BOOLEAN
    OBVIOUS
  <2>3. resumed <=> disk.checkpoint # <<>> /\ disk.checkpoint[1].step = disk.step
    OBVIOUS
  <2> HIDE DEF resumed
  <2>4. QED
    BY <1>5, <1>7, <2>1, <2>2, <2>3
<1>9. CASE pr.shutdown \/ pr.mode # "auto"
  <2>1. \/ Finishes(pr) /\ UNCHANGED <<disk, passes>>
        \/ pc' = "parked" /\ UNCHANGED <<sub, turns, pr, job, disk, exit, ended, passes>>
    BY <1>9, Zenon DEF Dispatch
  <2>2. QED
    BY <1>5, <1>6, <2>1
<1>10. QED
  BY <1>8, <1>9

\* wait_for_command: what it reads leaves the queue, and starts at most one
\* sub-session or one Advance.
LEMMA ParkedSteps ==
    ASSUME IInv, RunStep \/ Advance \/ Reset \/ Continue \/ Answer \/ StopWaiting
    PROVE  IInv'
<1>1. /\ pc = "parked" /\ sub = "none" /\ AtRecv
  BY DEF RunStep, Advance, Reset, Continue, Answer, StopWaiting, Parked, AtRecv
<1>2. ASSUME NEW e, Reads(e)
      PROVE  /\ Rest \in AutoPresenter /\ Rest.queue = <<>>
             /\ Rest.cap = pr.cap /\ Rest.mode = pr.mode
             /\ events' \in Nat
  BY <1>1, <1>2, ReadingFacts
<1>3. capped => pr.mode = "manual"
  BY <1>1 DEF IInv, CapInv
<1>4. ASSUME NEW e, Reads(e), NEW kind \in {"work", "critique"}, NEW s \in 1 .. Steps,
             StartManual(kind, s),
             UNCHANGED <<closed, disk, exit, kills, ended, refused, capped, passes>>
      PROVE  IInv'
  <2>1. RunSubsession(Rest, "dispatch") /\ lastSub' = <<kind, s>> /\ UNCHANGED job
    BY <1>4 DEF StartManual
  <2>2. Bystanders'
    BY <1>2, <1>4, <2>1, IInvParts DEF Bystanders
  <2>3. Leftover(Rest)
    BY <1>2, <1>4 DEF Leftover
  <2>4. job' \in Job /\ job'.counters.iters <= MaxCritiqueIters
    BY <2>1, Unmoved
  <2>5. passes' \in Nat /\ passes' <= MaxCritiqueIters + 1
    BY <1>4, Unmoved
  <2>6. Rest \in AutoPresenter /\ Rest.mode = pr.mode
    BY <1>2, <1>4
  <2>7. QED
    BY <1>1, <1>3, <1>4, <2>1, <2>2, <2>3, <2>4, <2>5, <2>6, OpensStep
<1>5. ASSUME NEW e, Reads(e), NEW s \in 1 .. Steps, StartAdvance(s),
             UNCHANGED <<closed, disk, exit, kills, ended, refused, capped, passes>>
      PROVE  IInv'
  <2>1. /\ pr' = Rest /\ job' = JobOn(s, ZeroCounters) /\ lastSub' = <<>>
        /\ pc' = "advance" /\ UNCHANGED <<sub, turns>>
    BY <1>5 DEF StartAdvance
  <2>2. Bystanders'
    BY <1>2, <1>5, <2>1, IInvParts DEF Bystanders
  <2>3. job' \in Job /\ job'.counters.iters <= MaxCritiqueIters
    BY <2>1, NoJobFacts, JobFacts, Bounds
  <2>4. passes' \in Nat /\ passes' <= MaxCritiqueIters + 1 /\ DiskFits'
    BY <1>5, Unmoved, IInvParts DEF DiskFits, DiskType
  <2>5. pr' \in AutoPresenter /\ pr'.queue = <<>> /\ pr'.mode = pr.mode
    BY <1>2, <1>5, <2>1
  <2>6. QED
    BY <1>1, <1>3, <1>5, <2>1, <2>2, <2>3, <2>4, <2>5, MovesStep
<1>6. CASE RunStep
  BY <1>4, <1>6 DEF RunStep, ghosts, marks
<1>7. CASE Advance
  BY <1>5, <1>7 DEF Advance, ghosts, marks
<1>8. CASE Continue
  <2>1. /\ Reads(ContinueFlow)
        /\ UNCHANGED <<closed, disk, exit, kills, ended, refused, capped, passes>>
        /\ \/ StartManual("work", disk.step)
           \/ StartManual("critique", disk.step)
           \/ StartAdvance(disk.step)
    BY <1>8, Zenon DEF Continue, ghosts, marks
  <2>2. disk.step \in 1 .. Steps
    BY Unmoved
  <2>3. QED
    BY <1>4, <1>5, <2>1, <2>2
<1>9. CASE Reset \/ Answer
  <2>1. /\ \E e : Reads(e)
        /\ DiskFits'
        /\ pr' = Rest /\ pc' = "dispatch"
        /\ UNCHANGED <<sub, turns, closed, job, exit, kills, ended, refused, capped, passes>>
        /\ lastSub' = lastSub \/ lastSub' = <<>>
    <3>1. CASE Reset
      <4>1. PICK s \in 1 .. Steps : Reads(<<"reset", s>>) /\ disk' = [disk EXCEPT !.step = s]
        BY <3>1 DEF Reset
      <4>2. DiskFits'
        BY <4>1, StepSetFits
      <4>3. QED
        BY <3>1, <4>1, <4>2 DEF Reset, ghosts, marks
    <3>2. CASE Answer
      <4>1. UNCHANGED disk
        BY <3>2 DEF Answer
      <4>2. DiskFits'
        BY <4>1, IInvParts DEF DiskFits, DiskType
      <4>3. QED
        BY <3>2, <4>2 DEF Answer, ghosts, marks
    <3>3. QED
      BY <1>9, <3>1, <3>2
  <2>2. PICK e : Reads(e)
    BY <2>1
  <2>3. Bystanders'
    BY <1>2, <2>1, <2>2, IInvParts DEF Bystanders
  <2>4. pr' \in AutoPresenter /\ pr'.queue = <<>> /\ pr'.mode = pr.mode
    BY <1>2, <2>1, <2>2
  <2>5. /\ job' \in Job /\ job'.counters.iters <= MaxCritiqueIters
        /\ passes' \in Nat /\ passes' <= MaxCritiqueIters + 1
    BY <2>1, Unmoved
  <2>6. QED
    BY <1>1, <1>3, <2>1, <2>3, <2>4, <2>5, MovesStep
<1>10. CASE StopWaiting
  <2>1. UNCHANGED <<lastSub, disk, kills, refused, capped, passes>>
    BY <1>10 DEF StopWaiting
  <2>2. /\ DiskFits' /\ passes' \in Nat /\ passes' <= MaxCritiqueIters + 1
        /\ capped' \in BOOLEAN
    BY <2>1, IInvParts, Unmoved DEF DiskFits, DiskType
  <2>3. CASE /\ Reads(Shutdown)
             /\ Finishes([Rest EXCEPT !.shutdown = TRUE])
             /\ UNCHANGED closed
    <3> DEFINE p == [Rest EXCEPT !.shutdown = TRUE]
    <3>1. p \in AutoPresenter
      BY <1>2, <2>3, SetShutdown
    <3>2. Finishes(p)
      BY <2>3
    <3>3. Bystanders'
      BY <1>2, <2>1, <2>3, IInvParts DEF Bystanders
    <3> HIDE DEF p
    <3>4. QED
      BY <1>1, <2>2, <3>1, <3>2, <3>3, FinishesStep
  <2>4. CASE HostGone /\ Finishes(pr)
    <3>1. Bystanders'
      BY <2>1, <2>4, IInvParts DEF Bystanders, HostGone
    <3>2. QED
      BY <1>1, <2>2, <2>4, <3>1, Unmoved, FinishesStep
  <2>5. QED
    BY <1>10, <2>3, <2>4 DEF StopWaiting
<1>11. QED
  BY <1>6, <1>7, <1>8, <1>9, <1>10

\* The loop's stop conditions, and the sub-sessions it starts.
LEMMA LoopSubsessions ==
    ASSUME IInv, Stop \/ RunWork \/ RunCritique
    PROVE  IInv'
<1>1. /\ sub = "none" /\ pc \in AutoLabels \union {"walked"} /\ pc # "exited"
      /\ UNCHANGED <<closed, lastSub, disk, events, kills, refused, capped>>
  BY DEF Stop, RunWork, RunCritique, InLoop, AutoLabels, bounds, ghosts, marks
<1>2. DiskFits' /\ Bystanders' /\ capped' \in BOOLEAN
  BY <1>1, IInvParts, Unmoved DEF DiskFits, DiskType, Bystanders
<1>3. Leftover(pr)
  BY <1>1, QueueIsLeftover
<1>4. CASE Stop
  <2>1. UNCHANGED passes
    BY <1>4 DEF Stop
  <2>2. passes' \in Nat /\ passes' <= MaxCritiqueIters + 1
    BY <2>1, Unmoved
  <2>3. CASE Finishes(pr)
    BY <1>1, <1>2, <2>2, <2>3, Unmoved, FinishesStep
  <2>4. CASE FlipToManual /\ ReturnFromLoop
    <3>1. /\ pr' \in AutoPresenter /\ pr'.queue = pr.queue /\ pr'.cap = pr.cap
          /\ pr'.mode = "manual"
      BY <2>4, Unmoved, FlipFacts
    <3>2. pc' = "dispatch" /\ job' = NoJob /\ UNCHANGED <<sub, turns, exit, ended>>
      BY <2>4 DEF ReturnFromLoop
    <3>3. job' \in Job /\ job'.counters.iters <= MaxCritiqueIters
      BY <3>2, NoJobFacts, Bounds
    <3>4. \/ pr'.queue = <<>>
          \/ pr'.queue = <<Cancel>> /\ pr'.cap
          \/ pr'.mode = "manual" /\ \E c \in Commands : pr'.queue = <<c>>
      BY <1>1, <3>1 DEF IInv, QueueInv
    <3>5. QED
      BY <1>1, <1>2, <2>2, <3>1, <3>2, <3>3, <3>4, MovesStep
  <2>5. QED
    BY <1>4, <2>3, <2>4, Zenon DEF Stop
<1>5. CASE RunWork
  <2>1. /\ pc = "loop" /\ RunSubsession(pr, "worked") /\ passes' = passes + 1
        /\ UNCHANGED <<job, exit, ended>>
    BY <1>5, Zenon DEF RunWork
  <2>2. passes <= job.counters.iters
    BY <2>1 DEF IInv, BudgetInv
  <2>3. /\ passes' \in Nat /\ passes' <= MaxCritiqueIters + 1
        /\ passes' <= job'.counters.iters + 1
    BY <2>1, <2>2, Unmoved, Bounds
  <2>4. capped => pr.mode = "manual"
    BY <2>1 DEF IInv, CapInv
  <2>5. job' \in Job /\ job'.counters.iters <= MaxCritiqueIters
    BY <2>1, Unmoved
  <2>6. QED
    BY <1>1, <1>2, <1>3, <2>1, <2>3, <2>4, <2>5, Unmoved, OpensStep
<1>6. CASE RunCritique
  <2>1. /\ pc = "worked" /\ RunSubsession(pr, "critiqued")
        /\ UNCHANGED <<job, exit, ended, passes>>
    BY <1>6, Zenon DEF RunCritique, ghosts, marks
  <2>2. pr.mode # "manual" /\ ~pr.cap
    BY <1>6, Zenon DEF RunCritique, MustStop
  <2>3. passes <= job.counters.iters + 1
    BY <2>1 DEF IInv, BudgetInv
  <2>4. ~capped
    BY <2>1, <2>2, Zenon DEF IInv, CapInv
  <2>5. /\ job' \in Job /\ job'.counters.iters <= MaxCritiqueIters
        /\ passes' \in Nat /\ passes' <= MaxCritiqueIters + 1
        /\ passes' <= job'.counters.iters + 1
    BY <2>1, <2>3, Unmoved
  <2>6. QED
    BY <1>1, <1>2, <1>3, <2>1, <2>4, <2>5, Unmoved, OpensStep
<1>7. QED
  BY <1>4, <1>5, <1>6

\* The list of steps goes on, or the run ends.
LEMMA ListGoesOn ==
    ASSUME IInv, pc # "exited", sub = "none", pc \notin {"loop"},
           pr.mode = "auto", ~capped, NextOfList,
           DiskFits', Bystanders', UNCHANGED capped
    PROVE  IInv'
<1>1. CASE /\ job' = JobOn(job.at + 1, ZeroCounters) /\ job.at < Steps
           /\ pc' = "loop" /\ passes' = 0
           /\ UNCHANGED <<sub, turns, pr, exit, ended>>
  <2>1. job.at + 1 \in 1 .. Steps
    BY <1>1, Unmoved, Bounds
  <2>2. job' \in Job /\ job'.counters.iters = 0
    BY <1>1, <2>1, NoJobFacts, JobFacts
  <2>3. /\ job'.counters.iters <= MaxCritiqueIters
        /\ passes' \in Nat /\ passes' <= MaxCritiqueIters + 1
        /\ passes' <= job'.counters.iters
    BY <1>1, <2>2, Bounds
  <2>4. pr'.queue = <<>> \/ (pr'.queue = <<Cancel>> /\ pr'.cap)
    BY <1>1 DEF IInv, QueueInv
  <2>5. QED
    BY <1>1, <2>2, <2>3, <2>4, Unmoved, MovesStep
<1>2. CASE Finishes(pr) /\ UNCHANGED passes
  BY <1>2, Unmoved, FinishesStep
<1>3. QED
  BY <1>1, <1>2, Zenon DEF NextOfList

\* The loop goes back to dispatch in manual mode.
LEMMA FlipsBack ==
    ASSUME IInv, pc # "exited", sub = "none", FlipToManual, ReturnFromLoop,
           DiskFits', Bystanders', UNCHANGED <<capped, passes>>
    PROVE  IInv'
<1>1. /\ pr' \in AutoPresenter /\ pr'.queue = pr.queue /\ pr'.cap = pr.cap
      /\ pr'.mode = "manual"
  BY Unmoved, FlipFacts
<1>2. pc' = "dispatch" /\ job' = NoJob /\ UNCHANGED <<sub, turns, exit, ended>>
  BY DEF ReturnFromLoop
<1>3. /\ job' \in Job /\ job'.counters.iters <= MaxCritiqueIters
      /\ passes' \in Nat /\ passes' <= MaxCritiqueIters + 1
  BY <1>2, NoJobFacts, Bounds, Unmoved
<1>4. \/ pr'.queue = <<>>
      \/ pr'.queue = <<Cancel>> /\ pr'.cap
      \/ pr'.mode = "manual" /\ \E c \in Commands : pr'.queue = <<c>>
  BY <1>1 DEF IInv, QueueInv
<1>5. QED
  BY <1>1, <1>2, <1>3, <1>4, MovesStep

\* In the loop past its stop conditions nothing is pending.
LEMMA GoesOnFacts ==
    ASSUME IInv, InLoop, ~MustStop
    PROVE  /\ sub = "none" /\ pc # "exited" /\ pr.mode = "auto" /\ ~pr.shutdown
           /\ pc # "loop" => ~pr.cap
           /\ ~capped
<1>1. sub = "none" /\ pc # "exited"
  BY DEF InLoop, AutoLabels
<1>2. pr.mode # "manual" /\ ~pr.shutdown /\ (pc # "loop" => ~pr.cap)
  BY Zenon DEF MustStop
<1>3. pr.mode = "auto"
  BY <1>2, PresenterFields DEF IInv, Modes
<1>4. ~capped
  <2>1. pc \in {"worked", "critiqued"} => pc # "loop"
    OBVIOUS
  <2>2. QED
    BY <1>1, <1>2, <2>1, Zenon DEF IInv, CapInv
<1>5. QED
  BY <1>1, <1>2, <1>3, <1>4

\* What a critique's findings lead to.
LEMMA JudgeStep == ASSUME IInv, Judge PROVE IInv'
<1>1. /\ InLoop /\ ~MustStop /\ pc \in {"worked", "critiqued"}
      /\ UNCHANGED <<closed, lastSub, events, kills, refused, capped>>
  BY Zenon DEF Judge, bounds
<1>2. PICK n \in Findings : JudgeCritique(n)
  BY Zenon DEF Judge
<1>3. sub = "none" /\ pc # "exited" /\ pr.mode = "auto" /\ ~capped
  BY <1>1, GoesOnFacts
<1>4. Bystanders' /\ capped' \in BOOLEAN
  BY <1>1, IInvParts, Unmoved DEF Bystanders
<1> DEFINE c == Counted(job.counters, n)
           Saves(k) == disk' = [disk EXCEPT !.checkpoint =
                                    <<[step |-> job.at, counters |-> k]>>]
<1>5. /\ c \in Counters /\ c.iters = job.counters.iters /\ c.iters <= MaxCritiqueIters
      /\ Retried(c).iters = job.counters.iters + 1
      /\ Retried(c) \in Counters
  <2>1. c \in Counters /\ c.iters = job.counters.iters
    BY Unmoved, CounterFacts
  <2>2. c.iters <= MaxCritiqueIters
    BY <2>1, Unmoved
  <2>3. Retried(c).iters = c.iters + 1 /\ Retried(c) \in Counters
    BY <2>1, <2>2, CounterFacts
  <2>4. QED
    BY <2>1, <2>2, <2>3
<1>6. \/ /\ disk' = [step |-> Successor(job.at), checkpoint |-> <<>>]
         /\ NextOfList
      \/ /\ Saves(ZeroCounters)
         /\ job' = [job EXCEPT !.counters = ZeroCounters]
         /\ pc' = "loop" /\ passes' = 0
         /\ UNCHANGED <<sub, turns, pr, exit, ended>>
      \/ Saves(c) /\ FlipToManual /\ ReturnFromLoop /\ UNCHANGED passes
      \/ /\ ~OutOfBudget(Retried(c))
         /\ Saves(c)
         /\ job' = [job EXCEPT !.counters = Retried(c)]
         /\ pc' = "loop"
         /\ UNCHANGED <<sub, turns, pr, exit, ended, passes>>
  BY <1>2, Zenon DEF JudgeCritique
<1> HIDE DEF c
<1>7. ASSUME NEW k \in Counters, k.iters <= MaxCritiqueIters,
             job' = [job EXCEPT !.counters = k], pc' = "loop", DiskFits',
             UNCHANGED <<sub, turns, pr, exit, ended>>,
             passes' \in Nat, passes' <= k.iters
      PROVE  IInv'
  <2>1. job' \in Job /\ job'.counters = k
    BY <1>7, Unmoved DEF Job
  <2>2. k.iters \in Nat
    BY DEF Counters
  <2>3. passes' <= MaxCritiqueIters + 1
    BY <1>7, <2>2, Bounds
  <2>4. pr'.queue = <<>> \/ (pr'.queue = <<Cancel>> /\ pr'.cap)
    BY <1>3, <1>7 DEF IInv, QueueInv
  <2>5. QED
    BY <1>1, <1>3, <1>4, <1>7, <2>1, <2>3, <2>4, Unmoved, MovesStep
<1>8. CASE /\ disk' = [step |-> Successor(job.at), checkpoint |-> <<>>]
           /\ NextOfList
  <2>1. DiskFits'
    BY <1>8, Unmoved, SuccessorFacts, AdvancedFits
  <2>2. QED
    BY <1>1, <1>3, <1>4, <1>8, <2>1, ListGoesOn
<1>9. CASE /\ Saves(ZeroCounters)
           /\ job' = [job EXCEPT !.counters = ZeroCounters]
           /\ pc' = "loop" /\ passes' = 0
           /\ UNCHANGED <<sub, turns, pr, exit, ended>>
  <2>1. ZeroCounters \in Counters /\ ZeroCounters.iters <= MaxCritiqueIters
    BY NoJobFacts, Bounds
  <2>2. DiskFits'
    BY <1>9, <2>1, CheckpointFits
  <2>3. passes' \in Nat /\ passes' <= ZeroCounters.iters
    BY <1>9, NoJobFacts
  <2>4. QED
    BY <1>7, <1>9, <2>1, <2>2, <2>3
<1>10. CASE Saves(c) /\ FlipToManual /\ ReturnFromLoop /\ UNCHANGED passes
  <2>1. DiskFits'
    BY <1>5, <1>10, CheckpointFits
  <2>2. QED
    BY <1>1, <1>3, <1>4, <1>10, <2>1, FlipsBack
<1>11. CASE /\ ~OutOfBudget(Retried(c))
            /\ Saves(c)
            /\ job' = [job EXCEPT !.counters = Retried(c)]
            /\ pc' = "loop"
            /\ UNCHANGED <<sub, turns, pr, exit, ended, passes>>
  <2>1. DiskFits'
    BY <1>5, <1>11, CheckpointFits
  <2>2. ~(Retried(c).iters > MaxCritiqueIters)
    BY <1>11, Zenon DEF OutOfBudget
  <2>3. Retried(c).iters <= MaxCritiqueIters
    BY <1>5, <2>2, Unmoved, Bounds
  <2>4. passes <= job.counters.iters + 1
    BY <1>1 DEF IInv, BudgetInv
  <2>5. passes' \in Nat /\ passes' <= Retried(c).iters
    BY <1>5, <1>11, <2>4, Unmoved
  <2>6. QED
    BY <1>5, <1>7, <1>11, <2>1, <2>3, <2>5
<1>12. QED
  BY <1>6, <1>8, <1>9, <1>10, <1>11

\* The parallel walk, seen from the loop.
LEMMA WalkSteps == ASSUME IInv, ParallelWork \/ WalkCritique \/ WalkEnds PROVE IInv'
<1>1. CASE ParallelWork
  <2>1. /\ InLoop /\ ~MustStop /\ pc = "loop"
        /\ pr' \in {pr, CapTripped(pr)}
        /\ pc' \in {"walked", "walk"}
        /\ job' = job \/ job' = [job EXCEPT !.left = Stubs]
        /\ UNCHANGED <<sub, turns, closed, lastSub, disk, exit, events, kills, ended, refused,
                       capped, passes>>
    BY <1>1, Zenon DEF ParallelWork, bounds, ghosts, marks
  <2>2. sub = "none" /\ pc # "exited" /\ pr.mode = "auto" /\ ~capped
    BY <2>1, GoesOnFacts
  <2>3. DiskFits' /\ Bystanders' /\ passes' \in Nat /\ passes' <= MaxCritiqueIters + 1
    BY <2>1, IInvParts, Unmoved DEF DiskFits, DiskType, Bystanders
  <2>4. job' \in Job /\ job'.counters = job.counters
    <3>1. Stubs \in 0 .. Stubs
      BY Bounds
    <3>2. QED
      BY <2>1, <3>1, Unmoved DEF Job
  <2>5. pr.queue = <<>> \/ (pr.queue = <<Cancel>> /\ pr.cap)
    BY <2>2 DEF IInv, QueueInv
  <2>6. /\ pr' \in AutoPresenter
        /\ pr'.queue = <<>> \/ (pr'.queue = <<Cancel>> /\ pr'.cap)
    <3>1. CASE pr' = pr
      BY <2>5, <3>1, Unmoved
    <3>2. CASE pr' = CapTripped(pr)
      <4>1. /\ pr' \in AutoPresenter /\ pr'.cap = TRUE
            /\ pr'.queue = IF pr.cap THEN pr.queue ELSE Append(pr.queue, Cancel)
        BY <3>2, Unmoved, CapTrippedFields
      <4>2. pr'.queue = <<>> \/ pr'.queue = <<Cancel>>
        BY <2>5, <4>1, ShortQueues
      <4>3. pr.cap => pr'.queue = <<>> \/ pr'.queue = <<Cancel>>
        BY <4>2
      <4>4. QED
        BY <4>1, <4>2
    <3>3. QED
      BY <2>1, <3>1, <3>2
  <2>7. job'.counters.iters <= MaxCritiqueIters
    BY <2>4, Unmoved
  <2>8. QED
    BY <2>1, <2>2, <2>3, <2>4, <2>6, <2>7, MovesStep
<1>2. CASE WalkCritique
  <2>1. /\ pc = "walk" /\ sub = "none"
        /\ UNCHANGED <<closed, lastSub, disk, exit, events, kills, ended, refused, capped,
                       passes>>
    BY <1>2, Zenon DEF WalkCritique, bounds, ghosts, marks
  <2>2. DiskFits' /\ Bystanders' /\ passes' \in Nat /\ passes' <= MaxCritiqueIters + 1
    BY <2>1, IInvParts, Unmoved DEF DiskFits, DiskType, Bystanders
  <2>3. capped => pr.mode = "manual"
    BY <2>1 DEF IInv, CapInv
  <2>4. CASE /\ job.left > 0
             /\ RunSubsession(pr, "walk")
             /\ job' = [job EXCEPT !.left = @ - 1]
    <3>1. job.left \in 0 .. Stubs
      BY Unmoved DEF Job
    <3>2. job.left - 1 \in 0 .. Stubs
      BY <2>4, <3>1, Bounds
    <3>3. job' \in Job /\ job'.counters = job.counters
      BY <2>4, <3>2, Unmoved DEF Job
    <3>4. job'.counters.iters <= MaxCritiqueIters
      BY <3>3, Unmoved
    <3>5. Leftover(pr)
      BY <2>1, QueueIsLeftover
    <3>6. QED
      BY <2>1, <2>2, <2>3, <2>4, <3>3, <3>4, <3>5, Unmoved, OpensStep
  <2>5. CASE pc' = "walked" /\ UNCHANGED <<sub, turns, pr, job>>
    <3>1. \/ pr'.queue = <<>>
          \/ pr'.queue = <<Cancel>> /\ pr'.cap
          \/ pr'.mode = "manual" /\ \E c \in Commands : pr'.queue = <<c>>
      BY <2>1, <2>5 DEF IInv, QueueInv
    <3>2. QED
      BY <2>1, <2>2, <2>3, <2>5, <3>1, Unmoved, MovesStep
  <2>6. QED
    BY <1>2, <2>4, <2>5, Zenon DEF WalkCritique
<1>3. CASE WalkEnds
  <2>1. /\ InLoop /\ pc = "walked" /\ ~MustStop
        /\ UNCHANGED <<closed, lastSub, events, kills, refused, capped>>
    BY <1>3, Zenon DEF WalkEnds, bounds
  <2>2. sub = "none" /\ pc # "exited" /\ pr.mode = "auto" /\ ~capped
    BY <2>1, GoesOnFacts
  <2>3. Bystanders'
    BY <2>1, IInvParts DEF Bystanders
  <2>4. CASE FlipToManual /\ ReturnFromLoop /\ UNCHANGED <<disk, passes>>
    <3>1. DiskFits'
      BY <2>4, IInvParts DEF DiskFits, DiskType
    <3>2. QED
      BY <2>1, <2>2, <2>3, <2>4, <3>1, FlipsBack
  <2>5. ASSUME NEW s \in {disk.step, Successor(job.at)},
               disk' = [step |-> s, checkpoint |-> <<>>], NextOfList
        PROVE  IInv'
    <3>1. DiskFits'
      BY <2>5, Unmoved, SuccessorFacts, AdvancedFits
    <3>2. QED
      BY <2>1, <2>2, <2>3, <2>5, <3>1, ListGoesOn
  <2>6. QED
    BY <1>3, <2>4, <2>5, Zenon DEF WalkEnds
<1>4. QED
  BY <1>1, <1>2, <1>3

\* run_manual_advance.
LEMMA AdvanceSteps == ASSUME IInv, TryAdvance \/ AdvanceCritique PROVE IInv'
<1>1. /\ pc \in {"advance", "advanceWorked"} /\ sub = "none"
      /\ UNCHANGED <<closed, lastSub, exit, events, kills, ended, refused, capped, passes>>
  BY DEF TryAdvance, AdvanceCritique, bounds, ghosts, marks
<1>2. Bystanders' /\ passes' \in Nat /\ passes' <= MaxCritiqueIters + 1 /\ Leftover(pr)
  BY <1>1, IInvParts, Unmoved, QueueIsLeftover DEF Bystanders
<1>3. capped => pr.mode = "manual"
  BY <1>1 DEF IInv, CapInv
<1>4. ASSUME DiskFits', AdvanceReturns
      PROVE  IInv'
  <2>1. pc' = "dispatch" /\ job' = NoJob /\ UNCHANGED <<sub, turns, pr>>
    BY <1>4 DEF AdvanceReturns
  <2>2. job' \in Job /\ job'.counters.iters <= MaxCritiqueIters
    BY <2>1, NoJobFacts, Bounds
  <2>3. \/ pr'.queue = <<>>
        \/ pr'.queue = <<Cancel>> /\ pr'.cap
        \/ pr'.mode = "manual" /\ \E c \in Commands : pr'.queue = <<c>>
    BY <1>1, <2>1 DEF IInv, QueueInv
  <2>4. QED
    BY <1>1, <1>2, <1>3, <1>4, <2>1, <2>2, <2>3, Unmoved, MovesStep
<1>5. ASSUME UNCHANGED disk, NEW k \in Counters, k.iters <= MaxCritiqueIters,
             NEW w \in 0 .. WalkCap, Rework(k, w)
      PROVE  IInv'
  <2> DEFINE a == [job EXCEPT !.counters = k]
  <2>1. a \in Job /\ a.counters = k
    BY Unmoved DEF Job
  <2>2. job' = [a EXCEPT !.walks = w] /\ RunSubsession(pr, "advanceWorked")
    BY <1>5, Zenon DEF Rework
  <2> HIDE DEF a
  <2>3. job' \in Job /\ job'.counters = k
    BY <2>1, <2>2 DEF Job
  <2>4. job'.counters.iters <= MaxCritiqueIters
    BY <1>5, <2>3
  <2>5. QED
    BY <1>1, <1>2, <1>3, <1>5, <2>2, <2>3, <2>4, Unmoved, OpensStep
<1>6. DiskFits /\ (UNCHANGED disk => DiskFits')
  BY IInvParts DEF DiskFits, DiskType
<1>7. job.walks \in 0 .. WalkCap
  BY Unmoved DEF Job
<1>8. ASSUME NEW k \in Counters, ~(k.iters > MaxCritiqueIters)
      PROVE  k.iters <= MaxCritiqueIters
  BY <1>8, Bounds DEF Counters
<1>9. CASE AdvanceCritique
  <2>1. RunSubsession(pr, "advance") /\ UNCHANGED <<job, disk>>
    BY <1>9 DEF AdvanceCritique
  <2>2. job' \in Job /\ job'.counters.iters <= MaxCritiqueIters
    BY <2>1, Unmoved
  <2>3. QED
    BY <1>1, <1>2, <1>3, <2>1, <2>2, Unmoved, OpensStep
<1>10. CASE TryAdvance
  <2>1. \/ /\ \E n \in Findings \ {0} :
                 LET d == Retried(Counted(job.counters, n))
                 IN IF OutOfBudget(d) THEN AdvanceReturns ELSE Rework(d, job.walks)
           /\ UNCHANGED disk
        \/ disk' = [disk EXCEPT !.step = Successor(job.at)] /\ AdvanceReturns
        \/ /\ IF Retried(job.counters).iters > MaxCritiqueIters
              THEN AdvanceReturns ELSE Rework(Retried(job.counters), job.walks)
           /\ UNCHANGED disk
        \/ /\ IF job.walks < WalkCap
              THEN Rework(ZeroCounters, job.walks + 1) ELSE AdvanceReturns
           /\ UNCHANGED disk
    BY <1>10, Zenon DEF TryAdvance
  <2>2. ASSUME UNCHANGED disk, NEW n \in Findings \ {0},
               IF OutOfBudget(Retried(Counted(job.counters, n)))
               THEN AdvanceReturns
               ELSE Rework(Retried(Counted(job.counters, n)), job.walks)
        PROVE  IInv'
    <3> DEFINE c == Counted(job.counters, n)
               d == Retried(c)
    <3>1. c \in Counters /\ c.iters = job.counters.iters
      BY Unmoved, CounterFacts
    <3>2. d \in Counters
      BY <3>1, Unmoved, CounterFacts
    <3>3. ~OutOfBudget(d) => ~(d.iters > MaxCritiqueIters)
      BY Zenon DEF OutOfBudget
    <3>4. AdvanceReturns \/ (~OutOfBudget(d) /\ Rework(d, job.walks))
      BY <2>2
    <3> HIDE DEF c, d
    <3>5. QED
      BY <1>4, <1>5, <1>6, <1>7, <1>8, <2>2, <3>2, <3>3, <3>4
  <2>3. CASE disk' = [disk EXCEPT !.step = Successor(job.at)] /\ AdvanceReturns
    <3>1. DiskFits'
      BY <2>3, Unmoved, SuccessorFacts, StepSetFits
    <3>2. QED
      BY <1>4, <2>3, <3>1
  <2>4. CASE /\ IF Retried(job.counters).iters > MaxCritiqueIters
                THEN AdvanceReturns ELSE Rework(Retried(job.counters), job.walks)
             /\ UNCHANGED disk
    <3> DEFINE d == Retried(job.counters)
    <3>1. 0 \in Findings
      BY AutoDriverAssumption DEF Findings
    <3>2. d \in Counters
      BY <3>1, Unmoved, CounterFacts
    <3>3. AdvanceReturns \/ (~(d.iters > MaxCritiqueIters) /\ Rework(d, job.walks))
      BY <2>4
    <3> HIDE DEF d
    <3>4. QED
      BY <1>4, <1>5, <1>6, <1>7, <1>8, <2>4, <3>2, <3>3
  <2>5. CASE /\ IF job.walks < WalkCap
                THEN Rework(ZeroCounters, job.walks + 1) ELSE AdvanceReturns
             /\ UNCHANGED disk
    <3>1. ZeroCounters \in Counters /\ ZeroCounters.iters <= MaxCritiqueIters
      BY NoJobFacts, Bounds
    <3>2. job.walks < WalkCap => job.walks + 1 \in 0 .. WalkCap
      BY <1>7, Bounds
    <3>3. QED
      BY <1>4, <1>5, <1>6, <2>5, <3>1, <3>2
  <2>6. QED
    BY <2>1, <2>2, <2>3, <2>4, <2>5
<1>11. QED
  BY <1>9, <1>10

\* No step breaks the invariant.
LEMMA IInvStep == IInv /\ [Next]_vars => IInv'
<1> SUFFICES ASSUME IInv, [Next]_vars PROVE IInv'
  OBVIOUS
<1>1. CASE Driver
  BY <1>1, HandshakeStep, LlmTurnStep, SubsessionSteps, DispatchStep, LoopSubsessions,
     JudgeStep, WalkSteps, AdvanceSteps
  DEF Driver
<1>2. CASE Receive
  BY <1>2, InitialHandshakeStep, HostTalks, SubsessionSteps, ParkedSteps DEF Receive
<1>3. CASE EnvironmentError
  BY <1>3, ErrorStep
<1>4. CASE Kill
  BY <1>4, KillStep
<1>5. CASE UNCHANGED vars
  <2>1. /\ pc' = pc /\ sub' = sub /\ turns' = turns /\ pr' = pr /\ closed' = closed
        /\ job' = job /\ lastSub' = lastSub /\ disk' = disk /\ exit' = exit
        /\ events' = events /\ kills' = kills /\ ended' = ended /\ refused' = refused
        /\ capped' = capped /\ passes' = passes
    BY <1>5, Zenon DEF vars, bounds, ghosts, marks
  <2>2. ControlType' /\ DiskType' /\ (pr \in AutoPresenter)' /\ (job \in Job)'
    BY <2>1, Zenon DEF IInv, ControlType, DiskType
  <2>3. Position' /\ QueueInv'
    BY <2>1 DEF IInv, Position, QueueInv
  <2>4. EndInv'
    BY <2>1, Zenon DEF IInv, EndInv, OneSessionEnd
  <2>5. CapInv'
    BY <2>1, Zenon DEF IInv, CapInv
  <2>6. BudgetInv'
    BY <2>1 DEF IInv, BudgetInv
  <2>7. QED
    BY <2>2, <2>3, <2>4, <2>5, <2>6 DEF IInv
<1>6. QED
  BY <1>1, <1>2, <1>3, <1>4, <1>5 DEF Next, Exited

-----------------------------------------------------------------------------
(***************************************************************************)
(* What is still begun after the host has asked to stop.                   *)
(***************************************************************************)

\* The work passes left to an Advance: the retries of its milestone, and for
\* each milestone it may still walk to as many again and a first pass.
WorkLeft(j) ==
    (MaxCritiqueIters - j.counters.iters) + (WalkCap - j.walks) * (MaxCritiqueIters + 1)

\* Every pass is a work session and its critique.
InAdvance ==
    /\ pc = "advance" => \/ late + 2 * WorkLeft(job) <= 2 * AdvanceWork - 1
                         \/ WorkLeft(job) = AdvanceWork /\ sub = "none" /\ ~pr.shutdown
    /\ pc = "advanceWorked" => late + 2 * WorkLeft(job) + 1 <= 2 * AdvanceWork - 1

InWalk ==
    pc = "walk" => \/ late + job.left <= Stubs - 1
                   \/ job.left = Stubs /\ sub = "none" /\ ~pr.shutdown /\ pr.mode = "auto"

\* Elsewhere no sub-session begins once the host has asked to stop.
InLoops ==
    /\ pc = "parked" => ~pr.shutdown
    /\ pc \in {"worked", "critiqued", "dispatch"} /\ sub = "handshake" => late = 0

LateInv == late \in Nat /\ InAdvance /\ InWalk /\ InLoops

\* What may still begin is not negative.
LEMMA WorkLeftIsNat ==
    ASSUME NEW i \in Nat, i <= MaxCritiqueIters, NEW w \in 0 .. WalkCap
    PROVE  (MaxCritiqueIters - i) + (WalkCap - w) * (MaxCritiqueIters + 1) \in Nat
<1>1. MaxCritiqueIters - i \in Nat /\ WalkCap - w \in Nat /\ MaxCritiqueIters + 1 \in Nat
  BY Bounds
<1>2. \A a, b \in Nat : a * b \in Nat
  OBVIOUS
<1>3. (WalkCap - w) * (MaxCritiqueIters + 1) \in Nat
  BY <1>1, <1>2
<1>4. QED
  BY <1>1, <1>3

\* A new Advance has all of its passes before it.
LEMMA AllWorkLeft ==
    (MaxCritiqueIters - 0) + (WalkCap - 0) * (MaxCritiqueIters + 1) = AdvanceWork
BY Bounds DEF AdvanceWork

\* A pass on the next milestone leaves fewer than before.
LEMMA MilestoneLeaves ==
    ASSUME NEW i \in Nat, i <= MaxCritiqueIters, NEW w \in 0 .. WalkCap
    PROVE  (MaxCritiqueIters - 0) + (WalkCap - (w + 1)) * (MaxCritiqueIters + 1) + 1
              <= (MaxCritiqueIters - i) + (WalkCap - w) * (MaxCritiqueIters + 1)
<1> DEFINE m == MaxCritiqueIters + 1
           k == WalkCap - w
<1>1. m \in Int /\ k \in Int /\ WalkCap - (w + 1) = k - 1
  BY Bounds
<1>2. \A a, b \in Int : (a - 1) * b = a * b - b
  OBVIOUS
<1>3. (WalkCap - (w + 1)) * m = k * m - m /\ k * m \in Int
  BY <1>1, <1>2
<1> HIDE DEF k
<1>4. QED
  <2>1. \A x \in Int : (MaxCritiqueIters - 0) + (x - m) + 1 <= (MaxCritiqueIters - i) + x
    BY Bounds
  <2>2. (MaxCritiqueIters - 0) + (k * m - m) + 1 <= (MaxCritiqueIters - i) + k * m
    BY <1>3, <2>1
  <2>3. QED
    BY <1>3, <2>2 DEF k

\* A job's numbers.
LEMMA WorkLeftFacts ==
    ASSUME IInv
    PROVE  /\ WorkLeft(job) \in Nat /\ AdvanceWork \in Nat
           /\ job.counters.iters \in Nat /\ job.counters.iters <= MaxCritiqueIters
           /\ job.counters \in Counters
           /\ job.walks \in 0 .. WalkCap /\ job.left \in 0 .. Stubs
<1>1. /\ job.counters.iters \in Nat /\ job.counters.iters <= MaxCritiqueIters
      /\ job.counters \in Counters
      /\ job.walks \in 0 .. WalkCap /\ job.left \in 0 .. Stubs
  BY DEF IInv, BudgetInv, Job, Counters
<1>2. WorkLeft(job) \in Nat
  BY <1>1, WorkLeftIsNat DEF WorkLeft
<1>3. AdvanceWork \in Nat
  <2>1. 0 \in Nat /\ 0 <= MaxCritiqueIters /\ 0 \in 0 .. WalkCap
    BY Bounds
  <2>2. QED
    BY <2>1, WorkLeftIsNat, AllWorkLeft
<1>4. QED
  BY <1>1, <1>2, <1>3

LEMMA LateInit == Init => LateInv
<1>1. Init => pc = "hello" /\ late = 0
  BY Zenon DEF Init
<1>2. QED
  BY <1>1 DEF LateInv, InAdvance, InWalk, InLoops

\* A step of a sub-session, or one that leaves the presenter's flags alone.
LEMMA LateQuiet ==
    ASSUME IInv, LateInv, pc' = pc, job' = job, late' = late, sub' # "handshake",
           \/ sub # "none"
           \/ sub' = "none" /\ pr'.shutdown = pr.shutdown /\ pc # "walk"
    PROVE  LateInv'
<1>1. pc = "parked" => sub = "none"
  BY DEF IInv, Position
<1>2. InAdvance'
  BY DEF LateInv, InAdvance
<1>3. InWalk'
  BY DEF LateInv, InWalk
<1>4. InLoops'
  BY <1>1 DEF LateInv, InLoops
<1>5. QED
  BY <1>2, <1>3, <1>4 DEF LateInv

\* A step out of the loops, or to where the next round begins.
LEMMA LateLeaves ==
    ASSUME LateInv, late' = late \/ late' = 0, sub' # "handshake",
           pc' \in {"hello", "dispatch", "loop", "walked", "exited"}
    PROVE  LateInv'
BY DEF LateInv, InAdvance, InWalk, InLoops

\* A sub-session that begins where the presenter has been looked at.
LEMMA LateHeeds ==
    ASSUME NEW p, NEW returnTo \in {"worked", "critiqued", "dispatch"},
           RunSubsession(p, returnTo), ~AskedToStop(p)
    PROVE  LateInv'
<1>1. late' = 0 /\ pc' \in {"worked", "critiqued", "dispatch"}
  BY DEF RunSubsession
<1>2. QED
  BY <1>1 DEF LateInv, InAdvance, InWalk, InLoops

\* Otherwise it counts once at most.
LEMMA LateCounts ==
    ASSUME LateInv, NEW p, NEW returnTo, RunSubsession(p, returnTo)
    PROVE  /\ late' \in Nat /\ late' <= late + 1 /\ sub' = "handshake" /\ pc' = returnTo
           /\ ~AskedToStop(p) => late' = 0
BY DEF RunSubsession, LateInv

-----------------------------------------------------------------------------
(* The kinds of step once more.                                            *)

LEMMA LateSubsession ==
    ASSUME IInv, LateInv,
           Handshake \/ LlmTurn \/ SessionCompletes \/ ParkResumes \/ ParkEnds \/ ParkInterrupted
    PROVE  LateInv'
<1>1. CASE Handshake
  <2>1. late' = late /\ sub = "handshake"
    BY <1>1 DEF Handshake
  <2>2. CASE UNCHANGED <<pc, turns, job, exit, ended>> /\ sub' = "turn"
    BY <2>1, <2>2, LateQuiet
  <2>3. CASE pc' = "exited" /\ sub' = "none"
    BY <2>1, <2>3, LateLeaves
  <2>4. QED
    BY <1>1, <2>2, <2>3 DEF Handshake, Leaves
<1>2. CASE LlmTurn
  BY <1>2, LateQuiet DEF LlmTurn
<1>3. CASE ParkResumes
  BY <1>3, LateQuiet DEF ParkResumes, ghosts
<1>4. CASE SessionCompletes \/ ParkEnds \/ ParkInterrupted
  <2>1. sub \in {"turn", "park"} /\ \E p : EndsSubsession(p)
    BY <1>4 DEF SessionCompletes, ParkEnds, ParkInterrupted
  <2>2. sub' = "none" /\ pc' = pc /\ job' = job /\ late' = late
    BY <2>1 DEF EndsSubsession
  <2>3. QED
    BY <2>1, <2>2, LateQuiet
<1>5. QED
  BY <1>1, <1>2, <1>3, <1>4

LEMMA LateHostTalks ==
    ASSUME IInv, LateInv, (\E m \in Modes : SetStepMode(m)) \/ RefuseCommand
    PROVE  LateInv'
<1>1. /\ AtRecv /\ pc' = pc /\ sub' = sub /\ job' = job /\ late' = late
      /\ pr' = pr \/ \E m \in Modes : SetStepMode(m)
  BY DEF SetStepMode, RefuseCommand
<1>2. pr'.shutdown = pr.shutdown
  <2>1. ASSUME NEW m \in Modes, SetStepMode(m) PROVE pr'.shutdown = pr.shutdown
    <3>1. pr' = [pr EXCEPT !.mode = m]
      BY <2>1, Zenon DEF SetStepMode
    <3>2. QED
      BY <3>1, SetMode DEF IInv
  <2>2. QED
    BY <1>1, <2>1
<1>3. QED
  BY <1>1, <1>2, LateQuiet DEF AtRecv

LEMMA LateDispatch ==
    ASSUME IInv, LateInv, InitialHandshake \/ Dispatch \/ EnvironmentError \/ Kill
    PROVE  LateInv'
<1>1. CASE InitialHandshake
  <2>1. pc = "hello" /\ sub = "none" /\ late' = late
    BY <1>1 DEF InitialHandshake, IInv, Position
  <2>2. pc' \in {"dispatch", "exited"} /\ sub' = "none"
    BY <1>1, <2>1 DEF InitialHandshake, Leaves
  <2>3. QED
    BY <2>1, <2>2, LateLeaves
<1>2. CASE Dispatch
  <2>1. sub = "none" /\ late' = late
    BY <1>2 DEF Dispatch
  <2>2. CASE Finishes(pr)
    BY <2>1, <2>2, LateLeaves DEF Finishes, Leaves
  <2>3. CASE pc' = "loop" /\ sub' = sub
    BY <2>1, <2>3, LateLeaves
  <2>4. CASE pc' = "parked" /\ ~pr.shutdown /\ pr' = pr
    BY <2>1, <2>4 DEF LateInv, InAdvance, InWalk, InLoops
  <2>5. QED
    BY <1>2, <2>2, <2>3, <2>4, Zenon DEF Dispatch
<1>3. CASE EnvironmentError
  BY <1>3, LateLeaves DEF EnvironmentError, Leaves, ghosts
<1>4. CASE Kill
  BY <1>4, LateLeaves DEF Kill
<1>5. QED
  BY <1>1, <1>2, <1>3, <1>4

LEMMA LateParked ==
    ASSUME IInv, LateInv, RunStep \/ Advance \/ Reset \/ Continue \/ Answer \/ StopWaiting
    PROVE  LateInv'
<1>1. pc = "parked" /\ sub = "none" /\ ~pr.shutdown
  BY DEF RunStep, Advance, Reset, Continue, Answer, StopWaiting, Parked, LateInv, InLoops
<1>2. ~Rest.shutdown /\ ~AskedToStop(Rest)
  BY <1>1, RestFields DEF IInv, AskedToStop, AutoLabels, WalkLabels
<1>3. ASSUME NEW kind, NEW s, StartManual(kind, s)
      PROVE  LateInv'
  BY <1>2, <1>3, LateHeeds DEF StartManual
<1>4. ASSUME NEW s \in 1 .. Steps, StartAdvance(s)
      PROVE  LateInv'
  <2>1. /\ pc' = "advance" /\ sub' = "none" /\ late' = late /\ pr' = Rest
        /\ job' = JobOn(s, ZeroCounters)
    BY <1>1, <1>4 DEF StartAdvance
  <2>2. job'.counters.iters = 0 /\ job'.walks = 0
    BY <2>1 DEF JobOn, ZeroCounters
  <2>3. WorkLeft(job') = AdvanceWork
    BY <2>2, AllWorkLeft DEF WorkLeft
  <2>4. QED
    BY <1>2, <2>1, <2>3 DEF LateInv, InAdvance, InWalk, InLoops
<1>5. disk.step \in 1 .. Steps
  BY DEF IInv, DiskType
<1>6. CASE Reset \/ Answer
  BY <1>1, <1>6, LateLeaves DEF Reset, Answer, ghosts
<1>7. CASE StopWaiting
  BY <1>7, LateLeaves DEF StopWaiting, Finishes, Leaves
<1>8. QED
  BY <1>3, <1>4, <1>5, <1>6, <1>7 DEF RunStep, Advance, Continue

LEMMA LateLoop ==
    ASSUME IInv, LateInv, Stop \/ RunWork \/ RunCritique \/ Judge \/ WalkEnds
    PROVE  LateInv'
<1>1. sub = "none"
  BY DEF Stop, RunWork, RunCritique, Judge, WalkEnds, InLoop
<1>2. CASE RunWork \/ RunCritique
  <2>1. InLoop /\ ~MustStop
    BY <1>2 DEF RunWork, RunCritique
  <2>2. ~AskedToStop(pr)
    BY <2>1 DEF MustStop, AskedToStop
  <2>3. QED
    BY <1>2, <2>2, LateHeeds DEF RunWork, RunCritique
<1>3. CASE Stop \/ Judge \/ WalkEnds
  <2>1. late' = late
    BY <1>3 DEF Stop, Judge, WalkEnds
  <2>2. pc' \in {"loop", "dispatch", "exited"} /\ sub' = "none"
    BY <1>1, <1>3
    DEF Stop, Judge, WalkEnds, JudgeCritique, NextOfList, Finishes, Leaves, ReturnFromLoop
  <2>3. QED
    BY <2>1, <2>2, LateLeaves
<1>4. QED
  BY <1>2, <1>3

LEMMA LateWalk ==
    ASSUME IInv, LateInv, ParallelWork \/ WalkCritique
    PROVE  LateInv'
<1>1. CASE ParallelWork
  <2>1. /\ InLoop /\ ~MustStop /\ sub' = sub /\ late' = late
        /\ pr' = pr \/ pr' = CapTripped(pr)
        /\ \/ pc' = "walked"
           \/ pc' = "walk" /\ job' = [job EXCEPT !.left = Stubs]
    BY <1>1 DEF ParallelWork, ghosts
  <2>2. sub = "none" /\ pr.mode = "auto" /\ ~pr.shutdown
    BY <2>1, GoesOnFacts DEF InLoop, MustStop
  <2>3. pr'.mode = "auto" /\ ~pr'.shutdown
    <3>1. pr \in AutoPresenter
      BY DEF IInv
    <3>2. pr' = CapTripped(pr) => pr'.mode = pr.mode /\ pr'.shutdown = pr.shutdown
      BY <3>1, CapTrippedFields
    <3>3. QED
      BY <2>1, <2>2, <3>2
  <2>4. job' = [job EXCEPT !.left = Stubs] => job'.left = Stubs
    BY DEF IInv, Job
  <2>5. CASE pc' = "walked"
    BY <2>1, <2>2, <2>5, LateLeaves
  <2>6. CASE pc' = "walk" /\ job' = [job EXCEPT !.left = Stubs]
    BY <2>1, <2>2, <2>3, <2>4, <2>6 DEF LateInv, InAdvance, InWalk, InLoops
  <2>7. QED
    BY <2>1, <2>5, <2>6
<1>2. CASE WalkCritique
  <2>1. pc = "walk" /\ sub = "none"
    BY <1>2 DEF WalkCritique
  <2>2. CASE pc' = "walked" /\ UNCHANGED <<sub, late>>
    BY <2>1, <2>2, LateLeaves
  <2>3. CASE /\ job.left > 0 /\ RunSubsession(pr, "walk")
             /\ job' = [job EXCEPT !.left = @ - 1]
    <3>1. job'.left = job.left - 1 /\ job.left \in Nat /\ job.left <= Stubs /\ Stubs \in Nat
      <4>1. job' = [job EXCEPT !.left = job.left - 1] /\ job \in Job
        BY <2>3, Zenon DEF IInv
      <4>2. job'.left = job.left - 1
        BY <4>1 DEF Job
      <4>3. QED
        BY <4>2, WorkLeftFacts, Bounds
    <3>2. /\ late' \in Nat /\ late' <= late + 1 /\ sub' = "handshake" /\ pc' = "walk"
          /\ ~AskedToStop(pr) => late' = 0
      BY <2>3, LateCounts
    <3>3. late \in Nat /\ (late + job.left <= Stubs - 1 \/ (job.left = Stubs /\ ~AskedToStop(pr)))
      BY <2>1 DEF LateInv, InWalk, AskedToStop
    <3>4. late' + job'.left <= Stubs - 1
      BY <3>1, <3>2, <3>3
    <3>5. QED
      BY <3>2, <3>4 DEF LateInv, InAdvance, InWalk, InLoops
  <2>4. QED
    BY <1>2, <2>2, <2>3 DEF WalkCritique
<1>3. QED
  BY <1>1, <1>2

LEMMA LateAdvance ==
    ASSUME IInv, LateInv, TryAdvance \/ AdvanceCritique
    PROVE  LateInv'
<1>1. sub = "none" /\ pc \in AdvanceLabels
  BY DEF TryAdvance, AdvanceCritique, AdvanceLabels
<1>2. late \in Nat /\ WorkLeft(job) \in Nat /\ AdvanceWork \in Nat
  BY WorkLeftFacts DEF LateInv
<1>3. ~AskedToStop(pr) <=> ~pr.shutdown
  BY <1>1 DEF AskedToStop, AutoLabels, WalkLabels, AdvanceLabels
<1>4. CASE AdvanceCritique
  <2>1. pc = "advanceWorked" /\ RunSubsession(pr, "advance") /\ job' = job
    BY <1>4 DEF AdvanceCritique
  <2>2. late' \in Nat /\ late' <= late + 1 /\ sub' = "handshake" /\ pc' = "advance"
    BY <2>1, LateCounts
  <2>3. late + 2 * WorkLeft(job) + 1 <= 2 * AdvanceWork - 1
    BY <2>1 DEF LateInv, InAdvance
  <2>4. late' + 2 * WorkLeft(job') <= 2 * AdvanceWork - 1
    BY <1>2, <2>1, <2>2, <2>3
  <2>5. QED
    BY <2>2, <2>4 DEF LateInv, InAdvance, InWalk, InLoops
<1>5. ASSUME AdvanceReturns PROVE LateInv'
  BY <1>1, <1>5, LateLeaves DEF AdvanceReturns
<1>6. ASSUME pc = "advance", NEW k \in Counters, NEW w \in 0 .. WalkCap, Rework(k, w),
             (MaxCritiqueIters - k.iters) + (WalkCap - w) * (MaxCritiqueIters + 1) + 1
                <= WorkLeft(job)
      PROVE  LateInv'
  <2> DEFINE l == (MaxCritiqueIters - k.iters) + (WalkCap - w) * (MaxCritiqueIters + 1)
  <2>1. job'.counters = k /\ job'.walks = w
    BY <1>6 DEF Rework, IInv, Job
  <2>2. WorkLeft(job') = l
    BY <2>1 DEF WorkLeft
  <2>3. l \in Int
    <3>1. k.iters \in Int /\ w \in Int /\ MaxCritiqueIters \in Int /\ WalkCap \in Int
      BY Bounds DEF Counters
    <3>2. \A a, b, c, d \in Int : (a - b) + (c - d) * (a + 1) \in Int
      OBVIOUS
    <3>3. QED
      BY <3>1, <3>2
  <2>4. l + 1 <= WorkLeft(job)
    BY <1>6
  <2> HIDE DEF l
  <2>5. /\ late' \in Nat /\ late' <= late + 1 /\ sub' = "handshake" /\ pc' = "advanceWorked"
        /\ ~pr.shutdown => late' = 0
    BY <1>3, <1>6, LateCounts DEF Rework
  <2>6. \/ late + 2 * WorkLeft(job) <= 2 * AdvanceWork - 1
        \/ WorkLeft(job) = AdvanceWork /\ late' = 0
    BY <1>6, <2>5 DEF LateInv, InAdvance
  <2>7. late' + 2 * l + 1 <= 2 * AdvanceWork - 1
    <3>1. \A a, b \in Nat : \A k1 \in Int : \A v, n \in Nat :
             /\ b <= a + 1 /\ k1 + 1 <= v
             /\ a + 2 * v <= 2 * n - 1 \/ (v = n /\ b = 0)
             => b + 2 * k1 + 1 <= 2 * n - 1
      OBVIOUS
    <3>2. QED
      BY <1>2, <2>3, <2>4, <2>5, <2>6, <3>1
  <2>8. QED
    BY <2>2, <2>5, <2>7 DEF LateInv, InAdvance, InWalk, InLoops
<1>7. CASE TryAdvance
  <2>1. /\ pc = "advance"
        /\ \/ AdvanceReturns
           \/ \E n \in Findings \ {0} :
                 LET d == Retried(Counted(job.counters, n))
                 IN ~OutOfBudget(d) /\ Rework(d, job.walks)
           \/ /\ ~(Retried(job.counters).iters > MaxCritiqueIters)
              /\ Rework(Retried(job.counters), job.walks)
           \/ job.walks < WalkCap /\ Rework(ZeroCounters, job.walks + 1)
    BY <1>7, Zenon DEF TryAdvance
  <2>2. ASSUME NEW k \in Counters, k.iters = job.counters.iters + 1, Rework(k, job.walks)
        PROVE  LateInv'
    <3>1. (MaxCritiqueIters - k.iters) + (WalkCap - job.walks) * (MaxCritiqueIters + 1) + 1
             <= WorkLeft(job)
      <4>1. /\ job.counters.iters \in Int /\ MaxCritiqueIters \in Int
            /\ (WalkCap - job.walks) * (MaxCritiqueIters + 1) \in Int
        <5>1. WalkCap - job.walks \in Int /\ MaxCritiqueIters + 1 \in Int
          BY WorkLeftFacts, Bounds
        <5>2. \A a, b \in Int : a * b \in Int
          OBVIOUS
        <5>3. QED
          BY <5>1, <5>2, WorkLeftFacts, Bounds
      <4>2. \A a, b, x \in Int : (a - (b + 1)) + x + 1 <= (a - b) + x
        OBVIOUS
      <4>3. QED
        BY <2>2, <4>1, <4>2 DEF WorkLeft
    <3>2. QED
      BY <1>6, <2>1, <2>2, <3>1, WorkLeftFacts
  <2>3. ASSUME NEW n \in Findings \ {0},
               ~OutOfBudget(Retried(Counted(job.counters, n))),
               Rework(Retried(Counted(job.counters, n)), job.walks)
        PROVE  LateInv'
    <3> DEFINE c == Counted(job.counters, n)
               d == Retried(c)
    <3>1. c \in Counters /\ c.iters = job.counters.iters
      BY WorkLeftFacts, CounterFacts
    <3>2. d \in Counters /\ d.iters = job.counters.iters + 1
      BY <3>1, WorkLeftFacts, CounterFacts
    <3> HIDE DEF c, d
    <3>3. Rework(d, job.walks)
      BY <2>3 DEF c, d
    <3>4. QED
      BY <2>2, <3>2, <3>3
  <2>4. CASE Rework(Retried(job.counters), job.walks)
    <3>1. 0 \in Findings
      BY AutoDriverAssumption DEF Findings
    <3>2. /\ Retried(job.counters) \in Counters
          /\ Retried(job.counters).iters = job.counters.iters + 1
      BY <3>1, WorkLeftFacts, CounterFacts
    <3>3. QED
      BY <2>2, <2>4, <3>2
  <2>5. CASE job.walks < WalkCap /\ Rework(ZeroCounters, job.walks + 1)
    <3>1. ZeroCounters \in Counters /\ ZeroCounters.iters = 0
      BY NoJobFacts
    <3>2. job.walks + 1 \in 0 .. WalkCap
      BY <2>5, WorkLeftFacts, Bounds
    <3>3. (MaxCritiqueIters - ZeroCounters.iters)
             + (WalkCap - (job.walks + 1)) * (MaxCritiqueIters + 1) + 1 <= WorkLeft(job)
      BY <3>1, WorkLeftFacts, MilestoneLeaves DEF WorkLeft
    <3>4. QED
      BY <1>6, <2>1, <2>5, <3>1, <3>2, <3>3
  <2>6. QED
    BY <1>5, <2>1, <2>3, <2>4, <2>5
<1>8. QED
  BY <1>4, <1>7

LEMMA LateStep == IInv /\ LateInv /\ [Next]_vars => LateInv'
<1> SUFFICES ASSUME IInv, LateInv, [Next]_vars PROVE LateInv'
  OBVIOUS
<1>1. CASE Driver
  BY <1>1, LateSubsession, LateDispatch, LateLoop, LateWalk, LateAdvance DEF Driver
<1>2. CASE Receive
  BY <1>2, LateSubsession, LateDispatch, LateHostTalks, LateParked DEF Receive
<1>3. CASE EnvironmentError \/ Kill
  BY <1>3, LateDispatch
<1>4. CASE UNCHANGED vars
  <2>1. pc' = pc /\ sub' = sub /\ pr' = pr /\ job' = job /\ late' = late
    BY <1>4 DEF vars, ghosts
  <2>2. QED
    BY <2>1 DEF LateInv, InAdvance, InWalk, InLoops
<1>5. QED
  BY <1>1, <1>2, <1>3, <1>4 DEF Next, Exited

-----------------------------------------------------------------------------
(* Theorems.                                                               *)

\* So both hold in every run.
THEOREM Invariant == Spec => [](IInv /\ LateInv)
BY IInvInit, IInvStep, LateInit, LateStep, PTL DEF Spec

\* Every variable keeps its type: the retry counters stay below their caps and
\* the presenter queues nothing but events.
THEOREM TypeCorrect == Spec => []TypeOK
<1>1. IInv /\ LateInv => TypeOK
  BY TypesSplit DEF IInv, LateInv
<1>2. QED
  BY <1>1, Invariant, PTL

\* After the host has asked to stop, the auto loop begins nothing, and an
\* Advance or a walk no more than its caps leave it, for every value of the caps.
THEOREM StopsAreHeeded == Spec => []HostIsHeeded
<1>1. ASSUME IInv, LateInv, sub = "handshake" PROVE late <= Overhang
  <2>1. /\ late \in Nat /\ WorkLeft(job) \in Nat /\ AdvanceWork \in Nat
        /\ job.left \in Nat /\ Stubs \in Nat
    BY <1>1, WorkLeftFacts, Bounds DEF LateInv
  <2>2. CASE pc \in AdvanceLabels
    <3>1. late + 2 * WorkLeft(job) <= 2 * AdvanceWork - 1
      BY <1>1, <2>1, <2>2 DEF LateInv, InAdvance, AdvanceLabels
    <3>2. late <= 2 * AdvanceWork - 1
      BY <2>1, <3>1
    <3>3. QED
      BY <2>2, <3>2 DEF Overhang, AdvanceLabels
  <2>3. CASE pc = "walk"
    <3>1. late + job.left <= Stubs - 1
      BY <1>1, <2>3 DEF LateInv, InWalk
    <3>2. late <= Stubs - 1
      BY <2>1, <3>1
    <3>3. QED
      BY <2>3, <3>2 DEF Overhang, AdvanceLabels
  <2>4. CASE pc \notin AdvanceLabels /\ pc # "walk"
    <3>1. pc \in {"worked", "critiqued", "dispatch"}
      BY <1>1, <2>4 DEF IInv, ControlType, Labels, Position, AutoLabels, WalkLabels, AdvanceLabels
    <3>2. late = 0
      BY <1>1, <3>1 DEF LateInv, InLoops
    <3>3. QED
      BY <2>4, <3>2 DEF Overhang
  <2>5. QED
    BY <2>2, <2>3, <2>4
<1>2. IInv /\ LateInv => HostIsHeeded
  BY <1>1 DEF HostIsHeeded
<1>3. QED
  BY <1>2, Invariant, PTL

\* The host of a run that ends cleanly gets one SessionEnd, and none before:
\* what the sub-sessions send is swallowed in the presenter.
THEOREM HostHearsOneEnd == Spec => []OneSessionEnd
<1>1. ASSUME IInv PROVE OneSessionEnd
  <2>1. CASE pc = "exited"
    BY <1>1, <2>1 DEF IInv, EndInv
  <2>2. CASE pc # "exited"
    <3>1. exit = "" /\ ended = 0
      BY <1>1, <2>2 DEF IInv, EndInv
    <3>2. exit # "ok" /\ exit # "error"
      BY <3>1
    <3>3. ended <= (IF exit = "error" THEN 1 ELSE 0)
      <4>1. (IF exit = "error" THEN 1 ELSE 0) = 0
        BY <3>2
      <4>2. 0 <= 0
        OBVIOUS
      <4>3. QED
        BY <3>1, <4>1, <4>2
    <3>4. QED
      BY <3>2, <3>3 DEF OneSessionEnd
  <2>3. QED
    BY <2>1, <2>2
<1>2. QED
  BY <1>1, Invariant, PTL

\* max_critique_iters bounds the work passes on one target of the auto loop,
\* for every value of the caps and whatever checkpoint the loop resumed from.
THEOREM RetriesAreBounded == Spec => []RetryBudget
<1>1. IInv => RetryBudget
  BY DEF IInv, BudgetInv, RetryBudget
<1>2. QED
  BY <1>1, Invariant, PTL

\* The presenter's queue holds at most two events, the Hello of an opening
\* sub-session last, whatever the host and the caps queue.
THEOREM QueueStaysShort == Spec => []QueueIsShort
<1>1. ASSUME IInv, pc # "exited"
      PROVE  \/ pr.queue = <<>>
             \/ \E e \in {Cancel} \union Commands : pr.queue = <<e>>
             \/ pr.queue = <<Hello>> /\ sub = "handshake"
             \/ /\ \E e \in {Cancel} \union Commands : pr.queue = <<e, Hello>>
                /\ sub = "handshake"
  BY <1>1 DEF IInv, QueueInv
<1>2. ASSUME IInv PROVE QueueIsShort
  <2> SUFFICES ASSUME pc # "exited"
               PROVE  /\ Len(pr.queue) <= 2
                      /\ \A i \in 1 .. Len(pr.queue) :
                             pr.queue[i] = Hello => i = Len(pr.queue) /\ sub = "handshake"
                      /\ \A i, j \in 1 .. Len(pr.queue) : i # j =>
                             /\ pr.queue[i] # pr.queue[j]
                             /\ ~(pr.queue[i] \in Commands /\ pr.queue[j] \in Commands)
    BY DEF QueueIsShort
  <2>1. CASE pr.queue = <<>>
    BY <2>1
  <2>2. CASE \E e \in {Cancel} \union Commands : pr.queue = <<e>>
    BY <2>2, EventsDiffer
  <2>3. CASE pr.queue = <<Hello>> /\ sub = "handshake"
    BY <2>3
  <2>4. ASSUME NEW e \in {Cancel} \union Commands, pr.queue = <<e, Hello>>,
               sub = "handshake"
        PROVE  QueueIsShort
    <3>1. e # Hello /\ Hello \notin Commands
      BY EventsDiffer
    <3>2. Len(pr.queue) = 2 /\ pr.queue[1] = e /\ pr.queue[2] = Hello
      BY <2>4
    <3>3. 1 .. Len(pr.queue) = {1, 2}
      BY <3>2
    <3>4. QED
      BY <2>4, <3>1, <3>2, <3>3 DEF QueueIsShort
  <2>5. QED
    BY <1>1, <1>2, <2>1, <2>2, <2>3, <2>4 DEF QueueIsShort
<1>3. QED
  BY <1>2, Invariant, PTL

\* Which steps start a sub-session while the auto loop holds control.
LEMMA LoopBegins ==
    ASSUME IInv, Next, Begins, pc \in AutoLabels
    PROVE  InLoop /\ ~MustStop
<1>1. sub = "none" /\ sub' = "handshake" /\ pc \in {"loop", "worked", "critiqued"}
  BY DEF Begins, AutoLabels
<1>2. ~(Handshake \/ LlmTurn \/ SessionCompletes)
  BY <1>1 DEF Handshake, LlmTurn, SessionCompletes
<1>3. ~(Dispatch \/ WalkCritique \/ TryAdvance \/ AdvanceCritique)
  BY <1>1 DEF Dispatch, WalkCritique, TryAdvance, AdvanceCritique
<1>4. ~(InitialHandshake \/ RefuseCommand \/ ParkResumes \/ ParkEnds \/ ParkInterrupted)
  BY <1>1 DEF InitialHandshake, RefuseCommand, ParkResumes, ParkEnds, ParkInterrupted
<1>5. ~(\E m \in Modes : SetStepMode(m))
  BY <1>1 DEF SetStepMode
<1>6. ~(RunStep \/ Advance \/ Reset \/ Continue \/ Answer \/ StopWaiting)
  BY <1>1 DEF RunStep, Advance, Reset, Continue, Answer, StopWaiting, Parked
<1>7. ~(EnvironmentError \/ Kill \/ Exited)
  BY <1>1 DEF EnvironmentError, Leaves, Kill, Exited, vars
<1>8. ~Stop
  BY <1>1 DEF Stop, Finishes, Leaves, ReturnFromLoop
<1>9. InLoop /\ ~MustStop
  BY <1>2, <1>3, <1>4, <1>5, <1>6, <1>7, <1>8
  DEF Next, Driver, Receive, RunWork, RunCritique, Judge, ParallelWork, WalkEnds
<1>10. QED
  BY <1>9

\* After a cap tripped in the auto loop no sub-session starts there until the
\* host says `auto` again: the flag the presenter keeps is looked at before a
\* new sub-session forgets it.
THEOREM CapsHold == Spec => CapStopsTheLoop
<1>1. IInv /\ [Next]_vars => [Begins /\ pc \in AutoLabels => ~capped]_vars
  BY LoopBegins, GoesOnFacts
<1>2. QED
  BY <1>1, Invariant, PTL DEF Spec, CapStopsTheLoop
=============================================================================
