---------------------------- MODULE SessionProofs ----------------------------
(***************************************************************************)
(* Theorems about Session, for any threads, limits and modes: its type     *)
(* invariant, that no reply of the user is lost or recorded twice, that an *)
(* unattended work session parks only for a cause, that a retry on         *)
(* blockers ends only after a write, and what becomes of a question that a *)
(* session leaves behind.                                                  *)
(***************************************************************************)
EXTENDS Session, TLAPS

-----------------------------------------------------------------------------
(* Types.                                                                  *)

\* The types of the counters and of the limits they are compared with.
LEMMA LimitTypes ==
    /\ Modes \subseteq Mode
    /\ MaxRequests \in Nat \ {0}
    /\ MaxAutoIters \in Nat
    /\ MaxIdentical \in Nat
    /\ MaxToolErrors \in Nat
    /\ MaxPhaseIters \in Nat
    /\ MaxInvestigation \in Nat
    /\ MaxDeclared \in Nat
    /\ MaxSessions \in Nat
BY SessionAssumption

\* What one turn changes at most, with the types it keeps.
TurnType ==
    /\ at \in Labels
    /\ turns \in 0 .. MaxRequests
    /\ resp \in Response
    /\ n \in Counters
    /\ sticky \in BOOLEAN
    /\ wrote \in BOOLEAN
    /\ capTold \in BOOLEAN

\* The threads of ask_user, in memory and on disk.
ThreadType ==
    /\ ask \in [pending : BOOLEAN, thread : Threads \union {NoThread}, closes : BOOLEAN]
    /\ IsOpenThreads(open)
    /\ disk \in [pending : Threads \union {NoThread}, files : {disk.files},
                 recorded : [Threads -> Nat], critique : BOOLEAN]
    /\ IsOpenThreads(disk.files)
    /\ used \subseteq Threads
    /\ replies \in [Threads -> Nat]
    /\ fault \in BOOLEAN

RestType ==
    /\ mode \in Mode
    /\ sessions \in 0 .. MaxSessions
    /\ ended \in Endings

LEMMA TypesSplit == TypeOK <=> TurnType /\ ThreadType /\ RestType
BY Zenon DEF TypeOK, TurnType, ThreadType, RestType

\* A counter of the session set to a number leaves counters.
LEMMA CountersKept ==
    ASSUME NEW c \in Counters, NEW k \in Nat
    PROVE  /\ [c EXCEPT !.auto = k] \in Counters
           /\ [c EXCEPT !.noProgress = k] \in Counters
           /\ [c EXCEPT !.investigation = k] \in Counters
           /\ [c EXCEPT !.declared = k] \in Counters
           /\ [c EXCEPT !.toolErrors = k] \in Counters
           /\ [c EXCEPT !.phase = k] \in Counters
           /\ [c EXCEPT !.empty = k] \in Counters
           /\ [c EXCEPT !.same = k] \in Counters
BY DEF Counters

LEMMA CounterTypes ==
    ASSUME NEW c \in Counters
    PROVE  /\ c.auto \in Nat /\ c.noProgress \in Nat
           /\ c.investigation \in Nat /\ c.declared \in Nat
           /\ c.toolErrors \in Nat /\ c.phase \in Nat
           /\ c.empty \in Nat /\ c.same \in Nat
BY DEF Counters

LEMMA NoTypes ==
    /\ Idle \in Mode
    /\ NoResponse \in Response
    /\ NoCounts \in Counters
    /\ IsOpenThreads(NoOpen)
    /\ DOMAIN NoOpen = {}
    /\ NoAsk \in [pending : BOOLEAN, thread : Threads \union {NoThread}, closes : BOOLEAN]
<1>1. Idle \in Mode
  BY DEF Idle, Mode, Kinds
<1>2. NoResponse \in Response
  BY DEF NoResponse, Response
<1>3. NoCounts \in Counters
  BY DEF NoCounts, Counters
<1>4. DOMAIN NoOpen = {} /\ IsOpenThreads(NoOpen)
  BY DEF NoOpen, IsOpenThreads
<1>5. NoAsk \in [pending : BOOLEAN, thread : Threads \union {NoThread}, closes : BOOLEAN]
  BY DEF NoAsk
<1>6. QED
  BY <1>1, <1>2, <1>3, <1>4, <1>5

LEMMA TypeInit == Init => TypeOK
<1> SUFFICES ASSUME Init PROVE TypeOK
  OBVIOUS
<1>1. TurnType
  <2>1. /\ at = "off" /\ turns = 0 /\ resp = NoResponse /\ n = NoCounts
        /\ sticky = FALSE /\ wrote = FALSE /\ capTold = FALSE
    BY DEF Init
  <2>2. turns \in 0 .. MaxRequests
    BY <2>1, LimitTypes
  <2>3. QED
    BY <2>1, <2>2, NoTypes DEF TurnType, Labels
<1>2. ThreadType
  <2>1. /\ disk = [pending |-> NoThread, files |-> NoOpen,
                   recorded |-> [t \in Threads |-> 0], critique |-> FALSE]
        /\ ask = NoAsk /\ open = NoOpen /\ used = {} /\ fault = FALSE
        /\ replies = [t \in Threads |-> 0]
    BY DEF Init
  <2>2. disk.files = NoOpen
    BY <2>1
  <2>3. disk \in [pending : Threads \union {NoThread}, files : {disk.files},
                  recorded : [Threads -> Nat], critique : BOOLEAN]
    BY <2>1
  <2>4. QED
    BY <2>1, <2>2, <2>3, NoTypes DEF ThreadType
<1>3. RestType
  <2>1. mode = Idle /\ sessions = 0 /\ ended = "none"
    BY DEF Init
  <2>2. sessions \in 0 .. MaxSessions
    BY <2>1, LimitTypes
  <2>3. QED
    BY <2>1, <2>2, NoTypes DEF RestType, Endings
<1>4. QED
  BY <1>1, <1>2, <1>3, TypesSplit

-----------------------------------------------------------------------------
(* What a step does to the threads.                                        *)

AskLabels == {"off", "ask", "closing", "keeping", "answered"}

\* A step of the turn that leaves them alone; a critique may be written.
Quiet ==
    /\ at \notin AskLabels
    /\ at' \notin AskLabels
    /\ UNCHANGED <<mode, askVars, sessionVars>>
    /\ disk' = disk \/ disk' = [disk EXCEPT !.critique = TRUE]

\* The end of a session: the memory of them goes, the disk stays.
Over ==
    /\ at # "off"
    /\ at' = "off"
    /\ Forgotten
    /\ ended' \in Endings
    /\ UNCHANGED <<disk, sessions, used, replies>>
    /\ fault' \in BOOLEAN
    /\ at \in {"closing", "keeping"} => fault' = TRUE
    /\ fault = TRUE => fault' = TRUE

LEMMA EndsIsOver ==
    ASSUME NEW reason \in Endings, Ends(reason), at \notin {"off", "closing", "keeping"}, fault \in BOOLEAN
    PROVE  Over
BY Zenon DEF Ends, Over

LEMMA KillIsOver ==
    ASSUME Kill, fault \in BOOLEAN
    PROVE  Over
<1>1. /\ at # "off" /\ at' = "off" /\ Forgotten /\ ended' = "error"
      /\ UNCHANGED <<disk, sessions, used, replies>>
  BY Zenon DEF Kill
<1>2. fault' = (fault \/ at \in {"closing", "keeping"})
  BY Zenon DEF Kill
<1>3. CASE fault \/ at \in {"closing", "keeping"}
  <2>1. fault' = TRUE
    BY <1>2, <1>3, Zenon
  <2>2. QED
    BY <1>1, <2>1, Zenon DEF Over, Endings
<1>4. CASE ~(fault \/ at \in {"closing", "keeping"})
  <2>1. fault' = FALSE /\ at \notin {"closing", "keeping"} /\ fault # TRUE
    BY <1>2, <1>4, Zenon
  <2>2. QED
    BY <1>1, <2>1, Zenon DEF Over, Endings
<1>5. QED
  BY <1>3, <1>4

LEMMA RecordFailsIsOver ==
    ASSUME RecordFails
    PROVE  Over
BY Zenon DEF RecordFails, Over, Endings

\* The pieces of a turn that several actions share.
LEMMA GoToIsQuiet ==
    ASSUME NEW label, GoTo(label), at \notin AskLabels, label \notin AskLabels,
           disk' = disk \/ disk' = [disk EXCEPT !.critique = TRUE]
    PROVE  Quiet
BY Zenon DEF GoTo, Quiet

LEMMA NextTurnIsQuiet ==
    ASSUME NextTurn, at \notin AskLabels,
           disk' = disk \/ disk' = [disk EXCEPT !.critique = TRUE]
    PROVE  Quiet
<1>1. GoTo("request") /\ "request" \notin AskLabels
  BY DEF NextTurn, AskLabels
<1>2. QED
  BY <1>1, GoToIsQuiet

LEMMA WroteFacts ==
    ASSUME Wrote
    PROVE  disk' = disk \/ disk' = [disk EXCEPT !.critique = TRUE]
BY Zenon DEF Wrote

LEMMA CallsDoneIsQuiet ==
    ASSUME NEW c, CallsDone(c), at \in {"calls", "refused", "delete"}
    PROVE  Quiet
<1>1. at \notin AskLabels /\ "checks" \notin AskLabels /\ "tail" \notin AskLabels
  BY DEF AskLabels
<1>2. disk' = disk \/ disk' = [disk EXCEPT !.critique = TRUE]
  <2>1. (IF c.persisted THEN Wrote ELSE UNCHANGED disk)
    BY Zenon DEF CallsDone
  <2>2. QED
    BY <2>1, WroteFacts
<1>3. GoTo("checks") \/ GoTo("tail") \/ NextTurn
  BY Zenon DEF CallsDone
<1>4. QED
  BY <1>1, <1>2, <1>3, GoToIsQuiet, NextTurnIsQuiet, Zenon

LEMMA CountAutoIsQuiet ==
    ASSUME NEW m, CountAuto(m), at \notin AskLabels
    PROVE  Quiet
<1>1. "input" \notin AskLabels
  BY DEF AskLabels
<1>2. disk' = disk /\ (GoTo("input") \/ NextTurn)
  BY Zenon DEF CountAuto
<1>3. QED
  BY <1>1, <1>2, GoToIsQuiet, NextTurnIsQuiet, Zenon

\* Every step is of one of these kinds.
LEMMA LoopKinds ==
    ASSUME Loop, fault \in BOOLEAN
    PROVE  Quiet \/ Over \/ Suspend \/ SuspendFails \/ Record \/ Resume
<1> USE Zenon DEF AskLabels, Endings
<1>1. CASE RunawayGuard
  <2>1. at = "request" /\ Ends("runaway")
    BY <1>1 DEF RunawayGuard
  <2>2. QED
    BY <2>1, EndsIsOver
<1>2. CASE DispatchCancelled
  <2>1. at = "request" /\ Ends("cancelled")
    BY <1>2 DEF DispatchCancelled
  <2>2. QED
    BY <2>1, EndsIsOver
<1>3. CASE DispatchFails
  <2>1. at = "request" /\ at' = "tail" /\ UNCHANGED <<mode, askVars, disk, sessionVars>>
    BY <1>3 DEF DispatchFails, Answered
  <2>2. QED
    BY <2>1 DEF Quiet
<1>4. CASE EmptyAnswer
  <2>1. at = "request" /\ (at' = "request" \/ at' = "tail") /\ UNCHANGED <<mode, askVars, disk, sessionVars>>
    BY <1>4 DEF EmptyAnswer, Answered
  <2>2. QED
    BY <2>1 DEF Quiet
<1>5. CASE Identical
  <2>1. at = "request" /\ Ends("runaway")
    BY <1>5 DEF Identical
  <2>2. QED
    BY <2>1, EndsIsOver
<1>6. CASE Answer
  <2>1. at = "request" /\ (at' = "critique" \/ at' = "files") /\ UNCHANGED <<mode, askVars, disk, sessionVars>>
    BY <1>6 DEF Answer, Answered
  <2>2. QED
    BY <2>1 DEF Quiet
<1>7. CASE ProseIsCritique
  <2>1. at = "critique" /\ GoTo("files") /\ disk' = disk
    BY <1>7 DEF ProseIsCritique
  <2>2. QED
    BY <2>1, GoToIsQuiet
<1>8. CASE ProseIsNoCritique
  <2>1. at = "critique" /\ NextTurn /\ disk' = disk
    BY <1>8 DEF ProseIsNoCritique
  <2>2. QED
    BY <2>1, NextTurnIsQuiet
<1>9. CASE CritiqueIsDone
  <2>1. at = "critique" /\ Ends("completed")
    BY <1>9 DEF CritiqueIsDone
  <2>2. QED
    BY <2>1, EndsIsOver
<1>10. CASE CritiqueGoesOn
  <2>1. at = "critique" /\ GoTo("files") /\ disk' = disk
    BY <1>10 DEF CritiqueGoesOn
  <2>2. QED
    BY <2>1, GoToIsQuiet
<1>11. CASE WriteFiles
  <2>1. /\ at = "files"
        /\ GoTo("calls") \/ GoTo("checks") \/ GoTo("tail")
        /\ Wrote \/ disk' = disk
    BY <1>11 DEF WriteFiles
  <2>2. QED
    BY <2>1, GoToIsQuiet, WroteFacts
<1>12. CASE RejectFiles
  <2>1. at = "files" /\ NextTurn /\ (Wrote \/ disk' = disk)
    BY <1>12 DEF RejectFiles
  <2>2. QED
    BY <2>1, NextTurnIsQuiet, WroteFacts
<1>13. CASE CallTools
  BY <1>13, CallsDoneIsQuiet DEF CallTools, AtCalls
<1>14. CASE AskDelete
  <2>1. at \in {"calls", "refused"} /\ GoTo("delete") /\ disk' = disk
    BY <1>14 DEF AskDelete, AtCalls
  <2>2. QED
    BY <2>1, GoToIsQuiet
<1>15. CASE RecordFails
  BY <1>15, RecordFailsIsOver
<1>16. CASE PhaseFails
  <2>1. at = "checks" /\ NextTurn /\ disk' = disk
    BY <1>16 DEF PhaseFails
  <2>2. QED
    BY <2>1, NextTurnIsQuiet
<1>17. CASE GateClean
  <2>1. at = "checks" /\ Ends("completed")
    BY <1>17 DEF GateClean
  <2>2. QED
    BY <2>1, EndsIsOver
<1>18. CASE GateDirty
  <2>1. at = "checks" /\ \E m : CountAuto(m)
    BY <1>18 DEF GateDirty
  <2>2. QED
    BY <2>1, CountAutoIsQuiet
<1>19. CASE NoGate
  <2>1. at = "checks" /\ GoTo("tail") /\ disk' = disk
    BY <1>19 DEF NoGate
  <2>2. QED
    BY <2>1, GoToIsQuiet
<1>20. CASE WindDown
  <2>1. at = "tail" /\ Ends("completed")
    BY <1>20 DEF WindDown
  <2>2. QED
    BY <2>1, EndsIsOver
<1>21. CASE Pump
  <2>1. at = "tail" /\ CountAuto(n)
    BY <1>21 DEF Pump
  <2>2. QED
    BY <2>1, CountAutoIsQuiet
<1>22. CASE AskUser
  <2>1. at = "tail" /\ GoTo("input") /\ disk' = disk
    BY <1>22 DEF AskUser
  <2>2. QED
    BY <2>1, GoToIsQuiet
<1>23. QED
  BY <1>1, <1>2, <1>3, <1>4, <1>5, <1>6, <1>7, <1>8, <1>9, <1>10, <1>11, <1>12, <1>13,
     <1>14, <1>15, <1>16, <1>17, <1>18, <1>19, <1>20, <1>21, <1>22
  DEF Loop

LEMMA UserKinds ==
    ASSUME User, fault \in BOOLEAN
    PROVE  Quiet \/ Over \/ Reply
<1> USE Zenon DEF AskLabels, Endings
<1>1. CASE DeleteAnswered
  BY <1>1, CallsDoneIsQuiet DEF DeleteAnswered
<1>2. CASE DeleteCancelled
  <2>1. at = "delete" /\ Ends("cancelled")
    BY <1>2 DEF DeleteCancelled
  <2>2. QED
    BY <2>1, EndsIsOver
<1>3. CASE AskCancelled
  <2>1. at = "ask" /\ Ends("cancelled")
    BY <1>3 DEF AskCancelled
  <2>2. QED
    BY <2>1, EndsIsOver
<1>4. CASE InputGoesOn
  <2>1. at = "input" /\ NextTurn /\ disk' = disk
    BY <1>4 DEF InputGoesOn
  <2>2. QED
    BY <2>1, NextTurnIsQuiet
<1>5. CASE InputEnds
  <2>1. at = "input" /\ (Ends("cancelled") \/ Ends("completed"))
    BY <1>5 DEF InputEnds
  <2>2. QED
    BY <2>1, EndsIsOver
<1>6. QED
  BY <1>1, <1>2, <1>3, <1>4, <1>5 DEF User

LEMMA NextKinds ==
    ASSUME Next, fault \in BOOLEAN
    PROVE  \/ Start \/ Quiet \/ Over
           \/ Suspend \/ SuspendFails \/ Reply \/ Record \/ Resume
BY LoopKinds, UserKinds, KillIsOver, Zenon DEF Next

-----------------------------------------------------------------------------
(* The threads of ask_user.                                                *)

\* A thread is open in memory as long as its turns are on disk, and holds as
\* many turns as the user replied; the one that is asked is open.
OpenInv ==
    /\ at # "off" => DOMAIN disk.files \subseteq DOMAIN open
    /\ DOMAIN open \subseteq used
    /\ DOMAIN disk.files \subseteq used
    /\ at \in {"ask", "keeping"} => ask.thread \in DOMAIN open
    /\ fault = FALSE => \A t \in DOMAIN open : open[t] = replies[t]

\* A thread that is over is neither in memory nor on disk, nor asked again.
IsOver(t) == t \in used /\ t \notin DOMAIN open /\ t \notin DOMAIN disk.files

ReplyInv ==
    \A t \in Threads :
       /\ replies[t] > 0 => t \in used
       /\ disk.recorded[t] > 0 => disk.recorded[t] = 1 /\ IsOver(t)
       /\ at = "closing" /\ ask.thread = t => disk.recorded[t] = 0 /\ IsOver(t)
       /\ fault = FALSE /\ t \in DOMAIN disk.files =>
             disk.files[t] = replies[t] \/ (at = "keeping" /\ ask.thread = t)
       /\ fault = FALSE /\ replies[t] > 0 =>
             Recording(t) \/ disk.recorded[t] = 1 \/ t \in DOMAIN disk.files

ThreadInv == ThreadType /\ OpenInv /\ ReplyInv

\* A document on disk, and what changing one field of it leaves.
Disk(d) ==
    /\ d \in [pending : Threads \union {NoThread}, files : {d.files},
              recorded : [Threads -> Nat], critique : BOOLEAN]
    /\ IsOpenThreads(d.files)

LEMMA DiskPending ==
    ASSUME NEW d, Disk(d), NEW t \in Threads \union {NoThread}
    PROVE  /\ Disk([d EXCEPT !.pending = t])
           /\ [d EXCEPT !.pending = t].files = d.files
           /\ [d EXCEPT !.pending = t].recorded = d.recorded
BY DEF Disk

LEMMA DiskFiles ==
    ASSUME NEW d, Disk(d), NEW f, IsOpenThreads(f)
    PROVE  /\ Disk([d EXCEPT !.files = f])
           /\ [d EXCEPT !.files = f].files = f
           /\ [d EXCEPT !.files = f].recorded = d.recorded
BY DEF Disk

LEMMA DiskRecorded ==
    ASSUME NEW d, Disk(d), NEW r \in [Threads -> Nat]
    PROVE  /\ Disk([d EXCEPT !.recorded = r])
           /\ [d EXCEPT !.recorded = r].files = d.files
           /\ [d EXCEPT !.recorded = r].recorded = r
BY DEF Disk

LEMMA DiskCritique ==
    ASSUME NEW d, Disk(d)
    PROVE  /\ Disk([d EXCEPT !.critique = TRUE])
           /\ [d EXCEPT !.critique = TRUE].files = d.files
           /\ [d EXCEPT !.critique = TRUE].recorded = d.recorded
BY DEF Disk

LEMMA DiskType == ThreadType => Disk(disk)
BY Zenon DEF ThreadType, Disk

LEMMA OpenedThreads ==
    ASSUME ThreadType, NEW t \in Threads
    PROVE  /\ IsOpenThreads(Opened(t))
           /\ DOMAIN Opened(t) = DOMAIN open \union {t}
           /\ \A u \in DOMAIN open : Opened(t)[u] = open[u]
           /\ t \notin DOMAIN open => Opened(t)[t] = 0
<1>1. DOMAIN open \subseteq Threads /\ open \in [DOMAIN open -> Nat]
  BY DEF ThreadType, IsOpenThreads
<1>2. QED
  BY <1>1 DEF Opened, IsOpenThreads

LEMMA OthersOpen ==
    ASSUME NEW f, IsOpenThreads(f), NEW t \in Threads
    PROVE  LET g == [u \in DOMAIN f \ {t} |-> f[u]] IN
           /\ IsOpenThreads(g)
           /\ DOMAIN g = DOMAIN f \ {t}
           /\ \A u \in DOMAIN g : g[u] = f[u]
BY DEF IsOpenThreads

LEMMA ThreadInit == Init => ThreadInv
<1> SUFFICES ASSUME Init PROVE ThreadInv
  OBVIOUS
<1>1. ThreadType
  BY TypeInit, TypesSplit
<1>2. /\ disk = [pending |-> NoThread, files |-> NoOpen,
                 recorded |-> [t \in Threads |-> 0], critique |-> FALSE]
      /\ at = "off" /\ open = NoOpen /\ replies = [t \in Threads |-> 0]
  BY DEF Init
<1>3. disk.files = NoOpen /\ disk.recorded = [t \in Threads |-> 0]
  BY <1>2
<1>4. QED
  BY <1>1, <1>2, <1>3, NoTypes DEF ThreadInv, OpenInv, ReplyInv

LEMMA QuietStep == ThreadInv /\ Quiet => ThreadInv'
<1> SUFFICES ASSUME ThreadInv, Quiet PROVE ThreadInv'
  OBVIOUS
<1>1. /\ ask' = ask /\ open' = open /\ used' = used /\ replies' = replies /\ fault' = fault
      /\ disk' = disk \/ disk' = [disk EXCEPT !.critique = TRUE]
      /\ at \notin {"off", "ask", "closing", "keeping", "answered"}
      /\ at' \notin {"off", "ask", "closing", "keeping", "answered"}
  BY Zenon DEF Quiet, askVars, AskLabels
<1>2. Disk(disk') /\ disk'.files = disk.files /\ disk'.recorded = disk.recorded
  BY <1>1, DiskType, DiskCritique, Zenon DEF ThreadInv
<1>3. ThreadType'
  BY <1>1, <1>2 DEF ThreadInv, ThreadType, Disk
<1>4. OpenInv'
  BY <1>1, <1>2 DEF ThreadInv, OpenInv
<1>5. ReplyInv'
  BY <1>1, <1>2 DEF ThreadInv, ReplyInv, IsOver, Recording
<1>6. QED
  BY <1>3, <1>4, <1>5 DEF ThreadInv

LEMMA OverStep == ThreadInv /\ Over => ThreadInv'
<1> SUFFICES ASSUME ThreadInv, Over PROVE ThreadInv'
  OBVIOUS
<1>1. /\ ask' = NoAsk /\ open' = NoOpen /\ disk' = disk /\ used' = used /\ replies' = replies
      /\ fault' \in BOOLEAN
      /\ at # "off" /\ at' = "off"
      /\ at \in {"closing", "keeping"} => fault' = TRUE
      /\ fault = TRUE => fault' = TRUE
      /\ fault \in BOOLEAN
  BY Zenon DEF Over, Forgotten, ThreadInv, ThreadType
<1>2. ThreadType'
  BY <1>1, NoTypes DEF ThreadInv, ThreadType
<1>3. OpenInv'
  BY <1>1, NoTypes DEF ThreadInv, OpenInv
<1>4. ReplyInv'
  BY <1>1, NoTypes DEF ThreadInv, ReplyInv, IsOver, Recording
<1>5. QED
  BY <1>2, <1>3, <1>4 DEF ThreadInv

\* The threads of an earlier session come back with the turns on disk.
LEMMA StartStep == ThreadInv /\ Start => ThreadInv'
<1> SUFFICES ASSUME ThreadInv, Start PROVE ThreadInv'
  OBVIOUS
<1>1. /\ open' = disk.files /\ disk' = disk /\ used' = used /\ replies' = replies
      /\ fault' = fault /\ at = "off" /\ at' = "request"
      /\ ask' = [pending |-> disk.pending # NoThread, thread |-> disk.pending, closes |-> FALSE]
  BY Zenon DEF Start
<1>2. ThreadType'
  BY <1>1 DEF ThreadInv, ThreadType
<1>3. OpenInv'
  BY <1>1 DEF ThreadInv, ThreadType, IsOpenThreads, OpenInv, ReplyInv
<1>4. ReplyInv'
  BY <1>1 DEF ThreadInv, ReplyInv, IsOver, Recording
<1>5. QED
  BY <1>2, <1>3, <1>4 DEF ThreadInv

\* What opening a thread for a question does, suspended on or refused.
LEMMA AsksFacts ==
    ASSUME ThreadInv, NEW t \in Threads, Asks(t), open' = Opened(t)
    PROVE  /\ used' = used \union {t}
           /\ DOMAIN open' = DOMAIN open \union {t}
           /\ IsOpenThreads(open')
           /\ disk.recorded[t] = 0
           /\ fault = FALSE => \A u \in DOMAIN open' : open'[u] = replies[u]
<1>1. /\ used' = used \union {t}
      /\ t \in DOMAIN open \/ t \notin used
  BY DEF Asks
<1>2. /\ DOMAIN open' = DOMAIN open \union {t}
      /\ \A u \in DOMAIN open : open'[u] = open[u]
      /\ t \notin DOMAIN open => open'[t] = 0
      /\ IsOpenThreads(open')
  BY OpenedThreads DEF ThreadInv
<1>3. /\ disk.recorded[t] \in Nat
      /\ replies[t] \in Nat
  BY DEF ThreadInv, ThreadType
<1>4. disk.recorded[t] = 0
  BY <1>1, <1>3 DEF ThreadInv, ReplyInv, IsOver
<1>5. t \notin used => replies[t] = 0
  BY <1>3 DEF ThreadInv, ReplyInv
<1>6. fault = FALSE => \A u \in DOMAIN open' : open'[u] = replies[u]
  BY <1>1, <1>2, <1>5 DEF ThreadInv, OpenInv
<1>7. QED
  BY <1>1, <1>2, <1>4, <1>6

LEMMA SuspendStep == ThreadInv /\ Suspend => ThreadInv'
<1> SUFFICES ASSUME ThreadInv, Suspend PROVE ThreadInv'
  OBVIOUS
<1>1. PICK t \in Threads, closes \in BOOLEAN :
        /\ Asks(t)
        /\ at' = "ask"
        /\ ask' = [pending |-> TRUE, thread |-> t, closes |-> closes]
        /\ open' = Opened(t)
        /\ disk' = [disk EXCEPT !.pending = t, !.files = Opened(t)]
        /\ replies' = replies /\ fault' = fault
  BY Zenon DEF Suspend
<1>2. /\ used' = used \union {t}
      /\ DOMAIN open' = DOMAIN open \union {t}
      /\ IsOpenThreads(open')
      /\ disk.recorded[t] = 0
      /\ fault = FALSE => \A u \in DOMAIN open' : open'[u] = replies[u]
  BY <1>1, AsksFacts
<1>3. at \in {"calls", "refused"}
  BY <1>1 DEF Asks, AtCalls
<1>4. Disk(disk') /\ disk'.files = open' /\ disk'.recorded = disk.recorded
  <2> DEFINE d == [disk EXCEPT !.pending = t]
  <2>1. Disk(d) /\ d.recorded = disk.recorded
    BY DiskType, DiskPending, Zenon DEF ThreadInv
  <2>2. disk' = [d EXCEPT !.files = open']
    BY <1>1, Zenon
  <2> HIDE DEF d
  <2>3. QED
    BY <1>2, <2>1, <2>2, DiskFiles, Zenon
<1>5. ThreadType'
  BY <1>1, <1>2, <1>4 DEF ThreadInv, ThreadType, Disk
<1>6. OpenInv'
  BY <1>1, <1>2, <1>4 DEF ThreadInv, OpenInv
<1>7. ReplyInv'
  <2> SUFFICES ASSUME NEW u \in Threads
               PROVE  /\ replies'[u] > 0 => u \in used'
                      /\ disk'.recorded[u] > 0 => disk'.recorded[u] = 1 /\ IsOver(u)'
                      /\ fault' = FALSE /\ u \in DOMAIN disk'.files =>
                            disk'.files[u] = replies'[u]
                      /\ fault' = FALSE /\ replies'[u] > 0 =>
                            disk'.recorded[u] = 1 \/ u \in DOMAIN disk'.files
    BY <1>1 DEF ReplyInv
  <2>1. /\ replies[u] > 0 => u \in used
        /\ disk.recorded[u] > 0 =>
              /\ disk.recorded[u] = 1 /\ u \in used
              /\ u \notin DOMAIN open /\ u \notin DOMAIN disk.files
        /\ fault = FALSE /\ replies[u] > 0 => disk.recorded[u] = 1 \/ u \in DOMAIN disk.files
        /\ DOMAIN disk.files \subseteq DOMAIN open
    BY <1>3 DEF ThreadInv, ReplyInv, OpenInv, IsOver, Recording
  <2>2. disk.recorded[u] > 0 => u # t
    BY <1>2
  <2>3. IsOver(u)' <=> u \in used' /\ u \notin DOMAIN open' /\ u \notin DOMAIN disk'.files
    BY DEF IsOver
  <2>4. QED
    BY <1>1, <1>2, <1>4, <2>1, <2>2, <2>3
<1>8. QED
  BY <1>5, <1>6, <1>7 DEF ThreadInv

LEMMA SuspendFailsStep == ThreadInv /\ SuspendFails => ThreadInv'
<1> SUFFICES ASSUME ThreadInv, SuspendFails PROVE ThreadInv'
  OBVIOUS
<1>1. PICK t \in Threads, saved \in BOOLEAN :
        /\ at = "calls" /\ Asks(t)
        /\ at' = "refused"
        /\ open' = Opened(t)
        /\ disk' = IF saved THEN [disk EXCEPT !.pending = t] ELSE disk
        /\ ask' = ask /\ replies' = replies /\ fault' = fault
  BY Zenon DEF SuspendFails
<1>2. /\ used' = used \union {t}
      /\ DOMAIN open' = DOMAIN open \union {t}
      /\ IsOpenThreads(open')
      /\ disk.recorded[t] = 0
      /\ fault = FALSE => \A u \in DOMAIN open' : open'[u] = replies[u]
  BY <1>1, AsksFacts
<1>3. Disk(disk') /\ disk'.files = disk.files /\ disk'.recorded = disk.recorded
  <2>1. disk' = disk \/ disk' = [disk EXCEPT !.pending = t]
    BY <1>1, Zenon
  <2>2. Disk(disk)
    BY DiskType, Zenon DEF ThreadInv
  <2>3. CASE disk' = [disk EXCEPT !.pending = t]
    BY <2>2, <2>3, DiskPending, Zenon
  <2>4. QED
    BY <2>1, <2>2, <2>3, Zenon
<1>4. ThreadType'
  BY <1>1, <1>2, <1>3 DEF ThreadInv, ThreadType, Disk
<1>5. OpenInv'
  BY <1>1, <1>2, <1>3 DEF ThreadInv, OpenInv, AskLabels
<1>6. ReplyInv'
  BY <1>1, <1>2, <1>3 DEF ThreadInv, ReplyInv, IsOver, Recording
<1>7. QED
  BY <1>4, <1>5, <1>6 DEF ThreadInv

\* A reply closes its thread or leaves it open with one turn more.
LEMMA ReplyStep == ThreadInv /\ Reply => ThreadInv'
<1> SUFFICES ASSUME ThreadInv, Reply PROVE ThreadInv'
  OBVIOUS
<1> DEFINE t == ask.thread
<1>1. /\ at = "ask"
      /\ ask' = [ask EXCEPT !.pending = FALSE]
      /\ replies' = [replies EXCEPT ![t] = @ + 1]
      /\ \/ /\ at' = "closing"
            /\ open' = [u \in DOMAIN open \ {t} |-> open[u]]
            /\ disk' = [disk EXCEPT !.files = [u \in DOMAIN @ \ {t} |-> @[u]]]
         \/ /\ at' = "keeping"
            /\ open' = [open EXCEPT ![t] = @ + 1]
            /\ disk' = disk
      /\ used' = used /\ fault' = fault
  BY Zenon DEF Reply
<1>2. /\ t \in Threads /\ t \in DOMAIN open /\ t \in used
      /\ IsOpenThreads(open) /\ IsOpenThreads(disk.files) /\ Disk(disk)
      /\ replies \in [Threads -> Nat] /\ disk.recorded \in [Threads -> Nat]
  <2>1. t \in DOMAIN open
    BY <1>1 DEF ThreadInv, OpenInv
  <2>2. IsOpenThreads(open) /\ IsOpenThreads(disk.files) /\ Disk(disk)
    BY DiskType DEF ThreadInv, ThreadType
  <2>3. QED
    BY <2>1, <2>2 DEF ThreadInv, ThreadType, OpenInv, IsOpenThreads, Disk
<1>3. /\ ask'.thread = t
      /\ ask' \in [pending : BOOLEAN, thread : Threads \union {NoThread}, closes : BOOLEAN]
  <2>1. ask \in [pending : BOOLEAN, thread : Threads \union {NoThread}, closes : BOOLEAN]
    BY DEF ThreadInv, ThreadType
  <2>2. QED
    BY <1>1, <2>1
<1>4. /\ replies' \in [Threads -> Nat]
      /\ replies'[t] = replies[t] + 1
      /\ \A u \in Threads : u # t => replies'[u] = replies[u]
  BY <1>1, <1>2
<1>5. disk.recorded[t] = 0
  BY <1>2 DEF ThreadInv, ReplyInv, IsOver
<1> HIDE DEF t
<1>6. CASE at' = "closing"
  <2> DEFINE g == [u \in DOMAIN disk.files \ {t} |-> disk.files[u]]
  <2>1. /\ open' = [u \in DOMAIN open \ {t} |-> open[u]]
        /\ disk' = [disk EXCEPT !.files = g]
    BY <1>1, <1>6
  <2>2. /\ IsOpenThreads(g) /\ DOMAIN g = DOMAIN disk.files \ {t}
        /\ \A u \in DOMAIN g : g[u] = disk.files[u]
    BY <1>2, OthersOpen
  <2>3. /\ IsOpenThreads(open') /\ DOMAIN open' = DOMAIN open \ {t}
        /\ \A u \in DOMAIN open' : open'[u] = open[u]
    BY <1>2, <2>1, OthersOpen
  <2> HIDE DEF g
  <2>4. Disk(disk') /\ disk'.files = g /\ disk'.recorded = disk.recorded
    BY <1>2, <2>1, <2>2, DiskFiles, Zenon
  <2>5. ThreadType'
    BY <1>1, <1>3, <1>4, <2>3, <2>4 DEF ThreadInv, ThreadType, Disk
  <2>6. OpenInv'
    BY <1>1, <1>2, <1>4, <1>6, <2>2, <2>3, <2>4 DEF ThreadInv, OpenInv, IsOpenThreads
  <2>7. ReplyInv'
    <3> SUFFICES ASSUME NEW u \in Threads
                 PROVE  /\ replies'[u] > 0 => u \in used'
                        /\ disk'.recorded[u] > 0 => disk'.recorded[u] = 1 /\ IsOver(u)'
                        /\ t = u => disk'.recorded[u] = 0 /\ IsOver(u)'
                        /\ fault' = FALSE /\ u \in DOMAIN disk'.files =>
                              disk'.files[u] = replies'[u]
                        /\ fault' = FALSE /\ replies'[u] > 0 =>
                              t = u \/ disk'.recorded[u] = 1 \/ u \in DOMAIN disk'.files
      BY <1>3, <1>6 DEF ReplyInv, Recording
    <3>1. /\ replies[u] > 0 => u \in used
          /\ disk.recorded[u] > 0 =>
                /\ disk.recorded[u] = 1 /\ u \in used
                /\ u \notin DOMAIN open /\ u \notin DOMAIN disk.files
          /\ fault = FALSE /\ u \in DOMAIN disk.files => disk.files[u] = replies[u]
          /\ fault = FALSE /\ replies[u] > 0 =>
                disk.recorded[u] = 1 \/ u \in DOMAIN disk.files
      BY <1>1 DEF ThreadInv, ReplyInv, IsOver, Recording
    <3>2. IsOver(u)' <=> u \in used' /\ u \notin DOMAIN open' /\ u \notin DOMAIN disk'.files
      BY DEF IsOver
    <3>3. QED
      BY <1>1, <1>2, <1>4, <1>5, <2>2, <2>3, <2>4, <3>1, <3>2
  <2>8. QED
    BY <2>5, <2>6, <2>7 DEF ThreadInv
<1>7. CASE at' = "keeping"
  <2>1. open' = [open EXCEPT ![t] = @ + 1] /\ disk' = disk
    BY <1>1, <1>7
  <2>2. /\ IsOpenThreads(open') /\ DOMAIN open' = DOMAIN open
        /\ open'[t] = open[t] + 1
        /\ \A u \in DOMAIN open : u # t => open'[u] = open[u]
    BY <1>2, <2>1 DEF IsOpenThreads
  <2>3. ThreadType'
    BY <1>1, <1>3, <1>4, <2>1, <2>2 DEF ThreadInv, ThreadType
  <2>4. OpenInv'
    <3>1. fault' = FALSE => \A u \in DOMAIN open' : open'[u] = replies'[u]
      BY <1>1, <1>2, <1>4, <2>2 DEF ThreadInv, OpenInv, IsOpenThreads
    <3>2. QED
      BY <1>1, <1>2, <1>3, <1>7, <2>1, <2>2, <3>1 DEF ThreadInv, OpenInv
  <2>5. ReplyInv'
    <3> SUFFICES ASSUME NEW u \in Threads
                 PROVE  /\ replies'[u] > 0 => u \in used'
                        /\ disk'.recorded[u] > 0 => disk'.recorded[u] = 1 /\ IsOver(u)'
                        /\ fault' = FALSE /\ u \in DOMAIN disk'.files =>
                              disk'.files[u] = replies'[u] \/ t = u
                        /\ fault' = FALSE /\ replies'[u] > 0 =>
                              t = u \/ disk'.recorded[u] = 1 \/ u \in DOMAIN disk'.files
      BY <1>3, <1>7 DEF ReplyInv, Recording
    <3>1. /\ replies[u] > 0 => u \in used
          /\ disk.recorded[u] > 0 =>
                /\ disk.recorded[u] = 1 /\ u \in used
                /\ u \notin DOMAIN open /\ u \notin DOMAIN disk.files
          /\ fault = FALSE /\ u \in DOMAIN disk.files => disk.files[u] = replies[u]
          /\ fault = FALSE /\ replies[u] > 0 =>
                disk.recorded[u] = 1 \/ u \in DOMAIN disk.files
      BY <1>1 DEF ThreadInv, ReplyInv, IsOver, Recording
    <3>2. IsOver(u)' <=> u \in used' /\ u \notin DOMAIN open' /\ u \notin DOMAIN disk'.files
      BY DEF IsOver
    <3>3. QED
      BY <1>1, <1>2, <1>4, <2>1, <2>2, <3>1, <3>2
  <2>6. QED
    BY <2>3, <2>4, <2>5 DEF ThreadInv
<1>8. QED
  BY <1>1, <1>6, <1>7

\* The record of it makes good what the reply began.
LEMMA RecordStep == ThreadInv /\ Record => ThreadInv'
<1> SUFFICES ASSUME ThreadInv, Record PROVE ThreadInv'
  OBVIOUS
<1> DEFINE t == ask.thread
<1>1. /\ at \in {"closing", "keeping"} /\ at' = "answered"
      /\ disk' = IF at = "closing" THEN [disk EXCEPT !.recorded[t] = @ + 1]
                 ELSE [disk EXCEPT !.files = open]
      /\ ask' = ask /\ open' = open /\ used' = used /\ replies' = replies /\ fault' = fault
  BY Zenon DEF Record, GoTo, askVars
<1>2. /\ IsOpenThreads(open) /\ Disk(disk) /\ disk.recorded \in [Threads -> Nat]
      /\ t \in Threads \union {NoThread}
  BY DiskType DEF ThreadInv, ThreadType, Disk
<1> HIDE DEF t
<1>3. CASE at = "closing"
  <2> DEFINE r == [disk.recorded EXCEPT ![t] = @ + 1]
  <2>1. disk' = [disk EXCEPT !.recorded = r]
    BY <1>1, <1>3
  <2>2. /\ r \in [Threads -> Nat]
        /\ t \in Threads => r[t] = disk.recorded[t] + 1
        /\ \A u \in Threads : u # t => r[u] = disk.recorded[u]
    <3> DEFINE f == disk.recorded
    <3>1. f \in [Threads -> Nat]
      BY <1>2
    <3>2. r = [f EXCEPT ![t] = f[t] + 1]
      OBVIOUS
    <3> HIDE DEF f, r
    <3>3. r = [u \in Threads |-> IF u = t THEN f[t] + 1 ELSE f[u]]
      BY <3>1, <3>2
    <3>4. QED
      BY <3>1, <3>3 DEF f
  <2> HIDE DEF r
  <2>3. Disk(disk') /\ disk'.files = disk.files /\ disk'.recorded = r
    BY <1>2, <2>1, <2>2, DiskRecorded, Zenon
  <2>4. ThreadType'
    BY <1>1, <2>3 DEF ThreadInv, ThreadType, Disk
  <2>5. OpenInv'
    BY <1>1, <1>3, <2>3 DEF ThreadInv, OpenInv
  <2>6. ReplyInv'
    <3> SUFFICES ASSUME NEW u \in Threads
                 PROVE  /\ replies'[u] > 0 => u \in used'
                        /\ disk'.recorded[u] > 0 => disk'.recorded[u] = 1 /\ IsOver(u)'
                        /\ fault' = FALSE /\ u \in DOMAIN disk'.files =>
                              disk'.files[u] = replies'[u]
                        /\ fault' = FALSE /\ replies'[u] > 0 =>
                              disk'.recorded[u] = 1 \/ u \in DOMAIN disk'.files
      BY <1>1 DEF ReplyInv, Recording
    <3>1. /\ replies[u] > 0 => u \in used
          /\ disk.recorded[u] > 0 => disk.recorded[u] = 1 /\ IsOver(u)
          /\ u = t => disk.recorded[u] = 0 /\ IsOver(u)
          /\ fault = FALSE /\ u \in DOMAIN disk.files => disk.files[u] = replies[u]
          /\ fault = FALSE /\ replies[u] > 0 =>
                u = t \/ disk.recorded[u] = 1 \/ u \in DOMAIN disk.files
      BY <1>3 DEF ThreadInv, ReplyInv, Recording, t
    <3>2. IsOver(u)' <=> IsOver(u)
      BY <1>1, <2>3 DEF IsOver
    <3>3. QED
      BY <1>1, <2>2, <2>3, <3>1, <3>2
  <2>7. QED
    BY <2>4, <2>5, <2>6 DEF ThreadInv
<1>4. CASE at = "keeping"
  <2>1. disk' = [disk EXCEPT !.files = open]
    BY <1>1, <1>4
  <2>2. Disk(disk') /\ disk'.files = open /\ disk'.recorded = disk.recorded
    BY <1>2, <2>1, DiskFiles, Zenon
  <2>3. ThreadType'
    BY <1>1, <2>2 DEF ThreadInv, ThreadType, Disk
  <2>4. OpenInv'
    BY <1>1, <1>4, <2>2 DEF ThreadInv, OpenInv
  <2>5. ReplyInv'
    BY <1>1, <1>4, <2>2 DEF ThreadInv, ReplyInv, OpenInv, IsOver, Recording
  <2>6. QED
    BY <2>3, <2>4, <2>5 DEF ThreadInv
<1>5. QED
  BY <1>1, <1>3, <1>4

LEMMA ResumeStep == ThreadInv /\ Resume => ThreadInv'
<1> SUFFICES ASSUME ThreadInv, Resume PROVE ThreadInv'
  OBVIOUS
<1>1. /\ at = "answered" /\ at' = "request" /\ ask' = NoAsk
      /\ disk' = [disk EXCEPT !.pending = NoThread]
      /\ open' = open /\ used' = used /\ replies' = replies /\ fault' = fault
  BY Zenon DEF Resume
<1>2. Disk(disk') /\ disk'.files = disk.files /\ disk'.recorded = disk.recorded
  <2>1. Disk(disk) /\ NoThread \in Threads \union {NoThread}
    BY DiskType DEF ThreadInv
  <2>2. QED
    BY <1>1, <2>1, DiskPending, Zenon
<1>3. ThreadType'
  BY <1>1, <1>2, NoTypes DEF ThreadInv, ThreadType, Disk
<1>4. OpenInv'
  BY <1>1, <1>2 DEF ThreadInv, OpenInv
<1>5. ReplyInv'
  BY <1>1, <1>2 DEF ThreadInv, ReplyInv, IsOver, Recording
<1>6. QED
  BY <1>3, <1>4, <1>5 DEF ThreadInv

LEMMA ThreadStep == ThreadInv /\ [Next]_vars => ThreadInv'
<1> SUFFICES ASSUME ThreadInv, [Next]_vars PROVE ThreadInv'
  OBVIOUS
<1>1. CASE Next
  <2>1. fault \in BOOLEAN
    BY DEF ThreadInv, ThreadType
  <2>2. \/ Start \/ Quiet \/ Over
        \/ Suspend \/ SuspendFails \/ Reply \/ Record \/ Resume
    BY <1>1, <2>1, NextKinds
  <2>3. QED
    BY <2>2, StartStep, QuietStep, OverStep, SuspendStep, SuspendFailsStep, ReplyStep,
       RecordStep, ResumeStep
<1>2. CASE UNCHANGED vars
  <2>1. /\ at' = at /\ ask' = ask /\ open' = open /\ disk' = disk /\ used' = used
        /\ replies' = replies /\ fault' = fault
    BY <1>2, Zenon DEF vars, askVars
  <2>2. QED
    BY <2>1 DEF ThreadInv, ThreadType, OpenInv, ReplyInv, IsOver, Recording
<1>3. QED
  BY <1>1, <1>2

THEOREM ThreadInvariant == Spec => []ThreadInv
BY ThreadInit, ThreadStep, PTL DEF Spec

\* No reply of the user is lost or recorded twice, whatever sessions ended or
\* were killed, as long as no write failed and no kill fell between a reply and
\* its record.
THEOREM RepliesAreKept == Spec => []AnswersAreKept
<1>1. ASSUME ThreadInv PROVE AnswersAreKept
  <2> SUFFICES ASSUME NEW t \in Threads
               PROVE  /\ disk.recorded[t] <= 1
                      /\ ~fault /\ replies[t] > 0 =>
                            \/ Recording(t)
                            \/ disk.recorded[t] = 1 /\ t \notin DOMAIN disk.files
                            \/ t \in DOMAIN disk.files /\ disk.files[t] = replies[t]
    BY DEF AnswersAreKept
  <2>1. /\ disk.recorded[t] \in Nat /\ fault \in BOOLEAN
        /\ disk.recorded[t] > 0 => disk.recorded[t] = 1 /\ t \notin DOMAIN disk.files
        /\ fault = FALSE /\ t \in DOMAIN disk.files => disk.files[t] = replies[t] \/ Recording(t)
        /\ fault = FALSE /\ replies[t] > 0 =>
              Recording(t) \/ disk.recorded[t] = 1 \/ t \in DOMAIN disk.files
    BY <1>1 DEF ThreadInv, ThreadType, ReplyInv, IsOver, Recording
  <2>2. disk.recorded[t] <= 1
    BY <2>1
  <2>3. ASSUME ~fault, replies[t] > 0
        PROVE  \/ Recording(t)
               \/ disk.recorded[t] = 1 /\ t \notin DOMAIN disk.files
               \/ t \in DOMAIN disk.files /\ disk.files[t] = replies[t]
    <3>1. fault = FALSE
      BY <2>1, <2>3, Zenon
    <3>2. disk.recorded[t] = 1 => t \notin DOMAIN disk.files
      BY <2>1
    <3>3. QED
      BY <2>1, <2>3, <3>1, <3>2, Zenon
  <2>4. QED
    BY <2>2, <2>3
<1>2. QED
  BY <1>1, ThreadInvariant, PTL

-----------------------------------------------------------------------------
(* The turn.                                                               *)

\* Where the loop is and what it holds there: files that were written count as
\* a write of the session before the checks, only a critique gets to the place
\* where prose is judged, and what comes to the tail of an unattended work
\* session brought no files unless a cap was told.
TurnInv ==
    /\ at # "off" => ended = "none"
    /\ at = "critique" => mode.kind = "critique"
    /\ at \in {"calls", "refused", "delete", "checks"} /\ resp.files = "written" => wrote
    /\ at = "checks" => resp.files = "written"
    /\ at = "tail" /\ mode.auto /\ mode.kind = "work" => resp.files = "none" \/ capTold
    /\ AutoWorkParksForCause

LoopInv == TurnType /\ RestType /\ TurnInv

\* The steps of a turn that end in a new request, or count one against
\* max_auto_iters first.
LEMMA RequestNext ==
    ASSUME LoopInv, NextTurn, at # "off", n' \in Counters,
           sticky' \in BOOLEAN, wrote' \in BOOLEAN, capTold' \in BOOLEAN
    PROVE  TurnType' /\ TurnInv'
<1>1. at' = "request" /\ resp' = NoResponse /\ turns' = turns /\ ended' = ended
  BY Zenon DEF NextTurn, GoTo, sessionVars
<1>2. TurnType'
  <2>1. "request" \in Labels
    BY DEF Labels
  <2>2. QED
    BY <1>1, <2>1, NoTypes, Zenon DEF LoopInv, TurnType
<1>3. TurnInv'
  BY <1>1, Zenon DEF LoopInv, TurnInv, AutoWorkParksForCause
<1>4. QED
  BY <1>2, <1>3

LEMMA CountAutoNext ==
    ASSUME LoopInv, NEW m \in Counters, CountAuto(m), at # "off"
    PROVE  TurnType' /\ TurnInv'
<1>1. n' \in Counters
  <2>1. m.auto + 1 \in Nat
    BY CounterTypes
  <2>2. n' = [m EXCEPT !.auto = m.auto + 1]
    BY Zenon DEF CountAuto
  <2>3. QED
    BY <2>1, <2>2, CountersKept, Zenon
<1>2. /\ sticky' = sticky /\ wrote' = wrote
      /\ \/ capTold' = TRUE /\ resp' = resp /\ GoTo("input")
         \/ capTold' = capTold /\ NextTurn
  BY Zenon DEF CountAuto
<1>3. sticky' \in BOOLEAN /\ wrote' \in BOOLEAN /\ capTold \in BOOLEAN
  BY <1>2, Zenon DEF LoopInv, TurnType
<1>4. CASE capTold' = capTold /\ NextTurn
  BY <1>1, <1>3, <1>4, RequestNext, Zenon
<1>5. CASE capTold' = TRUE /\ resp' = resp /\ GoTo("input")
  <2>1. at' = "input" /\ turns' = turns /\ ended' = ended /\ mode' = mode
    BY <1>5, Zenon DEF GoTo, sessionVars
  <2>2. TurnType'
    <3>1. "input" \in Labels
      BY DEF Labels
    <3>2. QED
      BY <1>1, <1>3, <1>5, <2>1, <3>1, Zenon DEF LoopInv, TurnType
  <2>3. TurnInv'
    BY <1>5, <2>1, Zenon DEF LoopInv, TurnInv, AutoWorkParksForCause
  <2>4. QED
    BY <2>2, <2>3
<1>6. QED
  BY <1>2, <1>4, <1>5

\* The counters of a turn with calls.
LEMMA ClassifiedTypes ==
    ASSUME n \in Counters, NEW c \in Outcome, NEW fix \in BOOLEAN
    PROVE  /\ Classified(c, fix) \in Counters
           /\ Streak(c) \in Nat
<1>1. /\ n.noProgress + 1 \in Nat /\ n.investigation + 1 \in Nat
      /\ n.toolErrors + 1 \in Nat /\ 0 \in Nat
  BY CounterTypes
<1>2. [n EXCEPT !.investigation = n.investigation + 1] \in Counters
  BY <1>1, CountersKept, Zenon
<1>3. \A k \in Nat : [n EXCEPT !.noProgress = k, !.investigation = 0] \in Counters
  <2> TAKE k \in Nat
  <2> DEFINE d == [n EXCEPT !.noProgress = k]
  <2>1. d \in Counters
    BY CountersKept, Zenon
  <2>2. [n EXCEPT !.noProgress = k, !.investigation = 0] = [d EXCEPT !.investigation = 0]
    BY Zenon
  <2> HIDE DEF d
  <2>3. [d EXCEPT !.investigation = 0] \in Counters
    BY <1>1, <2>1, CountersKept, Zenon
  <2>4. QED
    BY <2>2, <2>3, Zenon
<1>4. /\ [n EXCEPT !.noProgress = 0, !.investigation = 0] \in Counters
      /\ [n EXCEPT !.noProgress = n.noProgress + 1, !.investigation = 0] \in Counters
  BY <1>1, <1>3, Zenon
<1>5. Classified(c, fix) \in Counters
  BY <1>2, <1>4, Zenon DEF Classified
<1>6. Streak(c) \in Nat
  BY <1>1, Zenon DEF Streak
<1>7. QED
  BY <1>5, <1>6

LEMMA CallsDoneNext ==
    ASSUME LoopInv, NEW c \in Outcome, CallsDone(c), at \in {"calls", "refused", "delete"}
    PROVE  TurnType' /\ TurnInv'
<1> DEFINE fix == sticky \/ c.fix # "none"
           k == IF c.fix = "declared" THEN 1 ELSE 0
           d == Classified(c, fix)
           e == [d EXCEPT !.toolErrors = Streak(c)]
<1>1. /\ n' = [d EXCEPT !.toolErrors = Streak(c), !.declared = @ + k]
      /\ sticky' = (fix /\ c.tests = "none")
      /\ wrote' = (wrote \/ c.persisted)
      /\ \/ /\ GoTo(IF resp.files = "written" THEN "checks" ELSE "tail")
            /\ capTold' = TRUE
            /\ resp' = resp
         \/ NextTurn /\ capTold' = capTold
  BY Zenon DEF CallsDone
<1>2. n \in Counters /\ resp \in Response /\ turns \in 0 .. MaxRequests /\ capTold \in BOOLEAN
  BY Zenon DEF LoopInv, TurnType
<1>3. fix \in BOOLEAN /\ sticky' \in BOOLEAN /\ wrote' \in BOOLEAN
  BY <1>1, Zenon
<1>4. n' \in Counters
  <2>1. d \in Counters /\ Streak(c) \in Nat
    BY <1>2, <1>3, ClassifiedTypes, Zenon
  <2> HIDE DEF d
  <2>2. e \in Counters
    BY <2>1, CountersKept, Zenon
  <2>3. n' = [e EXCEPT !.declared = e.declared + k]
    <3>1. n' = [e EXCEPT !.declared = @ + k]
      BY <1>1, Zenon
    <3>2. QED
      BY <3>1, Zenon
  <2> HIDE DEF e
  <2>4. k \in Nat
    OBVIOUS
  <2> HIDE DEF k
  <2>5. e.declared + k \in Nat
    BY <2>2, <2>4, CounterTypes
  <2>6. QED
    BY <2>2, <2>3, <2>5, CountersKept, Zenon
<1> HIDE DEF fix, k, d, e
<1>5. CASE NextTurn /\ capTold' = capTold
  <2>1. at # "off"
    OBVIOUS
  <2>2. QED
    BY <1>2, <1>3, <1>4, <1>5, <2>1, RequestNext, Zenon
<1>6. CASE /\ GoTo(IF resp.files = "written" THEN "checks" ELSE "tail")
           /\ capTold' = TRUE
           /\ resp' = resp
  <2>1. /\ at' = IF resp.files = "written" THEN "checks" ELSE "tail"
        /\ turns' = turns /\ ended' = ended /\ mode' = mode
    BY <1>6, Zenon DEF GoTo, sessionVars
  <2>2. at' \in Labels
    BY <2>1 DEF Labels
  <2>3. TurnType'
    BY <1>2, <1>3, <1>4, <1>6, <2>1, <2>2, Zenon DEF TurnType
  <2>4. resp.files = "written" => wrote'
    BY <1>1, Zenon DEF LoopInv, TurnInv
  <2>5. TurnInv'
    BY <1>6, <2>1, <2>4, Zenon DEF LoopInv, TurnInv, AutoWorkParksForCause
  <2>6. QED
    BY <2>3, <2>5
<1>7. QED
  BY <1>1, <1>5, <1>6

\* A request that is answered is counted, below the cap.
LEMMA AnsweredFacts ==
    ASSUME LoopInv, NEW r \in Response, Answered(r)
    PROVE  /\ at = "request" /\ resp' = r
           /\ turns' \in 0 .. MaxRequests
<1>1. at = "request" /\ ~(turns + 1 > MaxRequests) /\ turns' = turns + 1 /\ resp' = r
  BY Zenon DEF Answered, OverBudget, Counted
<1>2. turns \in 0 .. MaxRequests /\ MaxRequests \in Nat
  BY LimitTypes DEF LoopInv, TurnType
<1>3. turns' \in 0 .. MaxRequests
  BY <1>1, <1>2
<1>4. QED
  BY <1>1, <1>3

\* Once a session is over there is nothing to say of its turn.
LEMMA OverNext == ASSUME Over PROVE TurnType' /\ TurnInv'
<1>1. /\ at' = "off" /\ turns' = 0 /\ resp' = NoResponse /\ n' = NoCounts
      /\ sticky' = FALSE /\ wrote' = FALSE /\ capTold' = FALSE
  BY Zenon DEF Over, Forgotten
<1>2. 0 \in 0 .. MaxRequests
  BY LimitTypes
<1>3. TurnType'
  BY <1>1, <1>2, NoTypes DEF TurnType, Labels
<1>4. TurnInv'
  BY <1>1, Zenon DEF TurnInv, AutoWorkParksForCause
<1>5. QED
  BY <1>3, <1>4

\* A step that leaves the counters, the answer and the flags as they are.
LEMMA GoToNext ==
    ASSUME LoopInv, NEW label \in Labels, GoTo(label), at # "off",
           resp' \in Response, n' \in Counters, UNCHANGED <<sticky, wrote, capTold>>
    PROVE  TurnType' /\ at' = label /\ ended' = "none" /\ mode' = mode /\ capTold' = capTold
<1>1. at' = label /\ turns' = turns /\ ended' = ended /\ mode' = mode
  BY Zenon DEF GoTo, sessionVars
<1>2. TurnType'
  BY <1>1, Zenon DEF LoopInv, TurnType
<1>3. QED
  BY <1>1, <1>2, Zenon DEF LoopInv, TurnInv

LEMMA ResponseFields ==
    ASSUME NEW r \in Response
    PROVE  /\ r.text \in {"none", "failed", "some"}
           /\ r.files \in {"none", "written", "mixed", "rejected"}
           /\ r.calls \in {"none", "native", "fenced"}
           /\ \A f \in {"written", "rejected"} :
                 [r EXCEPT !.files = f] \in Response
BY DEF Response

LEMMA RequestSteps ==
    ASSUME LoopInv, DispatchFails \/ EmptyAnswer \/ Answer
    PROVE  TurnType' /\ TurnInv'
<1>1. n \in Counters /\ sticky \in BOOLEAN /\ wrote \in BOOLEAN /\ capTold \in BOOLEAN
  BY Zenon DEF LoopInv, TurnType
<1>2. CASE DispatchFails
  <2> DEFINE r == [NoResponse EXCEPT !.text = "failed"]
  <2>1. r \in Response /\ r.files = "none"
    BY DEF NoResponse, Response
  <2>2. Answered(r)
    BY <1>2, Zenon DEF DispatchFails
  <2> HIDE DEF r
  <2>3. at = "request" /\ resp' = r /\ turns' \in 0 .. MaxRequests
    BY <2>1, <2>2, AnsweredFacts
  <2>4. /\ at' = "tail" /\ mode' = mode /\ n' = n /\ sticky' = sticky /\ wrote' = wrote
        /\ capTold' = capTold /\ ended' = ended
    BY <1>2, Zenon DEF DispatchFails, sessionVars
  <2>5. TurnType'
    BY <1>1, <2>1, <2>3, <2>4 DEF TurnType, Labels
  <2>6. TurnInv'
    BY <2>1, <2>3, <2>4, Zenon DEF LoopInv, TurnInv, AutoWorkParksForCause
  <2>7. QED
    BY <2>5, <2>6
<1>3. CASE EmptyAnswer
  <2>1. NoResponse \in Response /\ NoResponse.files = "none"
    BY NoTypes DEF NoResponse
  <2>2. Answered(NoResponse)
    BY <1>3, Zenon DEF EmptyAnswer
  <2>3. at = "request" /\ resp' = NoResponse /\ turns' \in 0 .. MaxRequests
    BY <2>1, <2>2, AnsweredFacts
  <2>4. /\ at' \in {"request", "tail"} /\ mode' = mode /\ sticky' = sticky /\ wrote' = wrote
        /\ capTold' = capTold /\ ended' = ended
        /\ n' = [n EXCEPT !.empty = n.empty + 1] \/ n' = [n EXCEPT !.empty = 0]
    BY <1>3, Zenon DEF EmptyAnswer, sessionVars
  <2>5. n' \in Counters
    <3>1. n.empty + 1 \in Nat /\ 0 \in Nat
      BY <1>1, CounterTypes
    <3>2. QED
      BY <1>1, <2>4, <3>1, CountersKept, Zenon
  <2>6. TurnType'
    BY <1>1, <2>1, <2>3, <2>4, <2>5 DEF TurnType, Labels
  <2>7. TurnInv'
    BY <2>1, <2>3, <2>4, Zenon DEF LoopInv, TurnInv, AutoWorkParksForCause
  <2>8. QED
    BY <2>6, <2>7
<1>4. CASE Answer
  <2>1. PICK r \in Shapes : \E row \in Rows(r) :
           /\ Answered(r)
           /\ at' = IF mode.kind = "critique" THEN "critique" ELSE "files"
           /\ n' = [n EXCEPT !.empty = 0, !.same = row]
           /\ mode' = mode /\ sticky' = sticky /\ wrote' = wrote
           /\ capTold' = capTold /\ ended' = ended
    BY <1>4, Zenon DEF Answer, sessionVars
  <2>2. PICK row \in Rows(r) :
           /\ Answered(r)
           /\ at' = IF mode.kind = "critique" THEN "critique" ELSE "files"
           /\ n' = [n EXCEPT !.empty = 0, !.same = row]
           /\ mode' = mode /\ sticky' = sticky /\ wrote' = wrote
           /\ capTold' = capTold /\ ended' = ended
    BY <2>1
  <2>3. r \in Response
    BY DEF Shapes
  <2>4. at = "request" /\ resp' = r /\ turns' \in 0 .. MaxRequests
    BY <2>3, <2>2, AnsweredFacts
  <2>5. row \in Nat
    <3>1. n.same \in Nat
      BY <1>1, CounterTypes
    <3>2. QED
      BY <3>1 DEF Rows
  <2>6. n' \in Counters
    <3> DEFINE d == [n EXCEPT !.empty = 0]
    <3>1. d \in Counters
      BY <1>1, CountersKept
    <3>2. n' = [d EXCEPT !.same = row]
      BY <2>2, Zenon
    <3> HIDE DEF d
    <3>3. QED
      BY <2>5, <3>1, <3>2, CountersKept, Zenon
  <2>7. at' \in Labels
    BY <2>2 DEF Labels
  <2>8. TurnType'
    BY <1>1, <2>3, <2>4, <2>6, <2>7, <2>2, Zenon DEF TurnType
  <2>9. TurnInv'
    BY <2>4, <2>2, Zenon DEF LoopInv, TurnInv, AutoWorkParksForCause
  <2>10. QED
    BY <2>8, <2>9
<1>5. QED
  BY <1>2, <1>3, <1>4

LEMMA CritiqueSteps ==
    ASSUME LoopInv, ProseIsCritique \/ ProseIsNoCritique \/ CritiqueGoesOn
    PROVE  TurnType' /\ TurnInv'
<1>1. /\ n \in Counters /\ sticky \in BOOLEAN /\ wrote \in BOOLEAN /\ capTold \in BOOLEAN
      /\ resp \in Response /\ "files" \in Labels
  BY Zenon DEF LoopInv, TurnType, Labels
<1>2. CASE ProseIsNoCritique
  <2>1. at # "off" /\ NextTurn /\ n' = n /\ sticky' = sticky /\ wrote' = wrote /\ capTold' = capTold
    BY <1>2, Zenon DEF ProseIsNoCritique
  <2>2. QED
    BY <1>1, <2>1, RequestNext, Zenon
<1>3. CASE ProseIsCritique \/ CritiqueGoesOn
  <2>1. /\ at # "off" /\ GoTo("files") /\ n' = n /\ UNCHANGED <<sticky, wrote, capTold>>
        /\ \/ resp' = resp
           \/ \E f \in {"written", "rejected"} : resp' = [resp EXCEPT !.files = f]
    BY <1>3, Zenon DEF ProseIsCritique, CritiqueGoesOn
  <2>2. resp' \in Response
    BY <1>1, <2>1, ResponseFields, Zenon
  <2>3. TurnType' /\ at' = "files" /\ ended' = "none"
    BY <1>1, <2>1, <2>2, GoToNext, Zenon
  <2>4. TurnInv'
    BY <2>3, Zenon DEF TurnInv, AutoWorkParksForCause
  <2>5. QED
    BY <2>3, <2>4
<1>4. QED
  BY <1>2, <1>3

LEMMA FileSteps ==
    ASSUME LoopInv, WriteFiles \/ RejectFiles
    PROVE  TurnType' /\ TurnInv'
<1>1. /\ n \in Counters /\ sticky \in BOOLEAN /\ wrote \in BOOLEAN /\ capTold \in BOOLEAN
      /\ resp \in Response
  BY Zenon DEF LoopInv, TurnType
<1>2. /\ [n EXCEPT !.toolErrors = 0] \in Counters
      /\ [n EXCEPT !.toolErrors = n.toolErrors + 1] \in Counters
  <2>1. 0 \in Nat /\ n.toolErrors + 1 \in Nat
    BY <1>1, CounterTypes
  <2>2. QED
    BY <1>1, <2>1, CountersKept, Zenon
<1>3. CASE RejectFiles
  <2>1. /\ at # "off" /\ NextTurn /\ sticky' = sticky /\ capTold' = capTold
        /\ \/ n' = [n EXCEPT !.toolErrors = 0] /\ wrote' = TRUE
           \/ n' = [n EXCEPT !.toolErrors = n.toolErrors + 1] /\ wrote' = wrote
    BY <1>3, Zenon DEF RejectFiles
  <2>2. n' \in Counters /\ wrote' \in BOOLEAN /\ sticky' \in BOOLEAN /\ capTold' \in BOOLEAN
    BY <1>1, <1>2, <2>1, Zenon
  <2>3. QED
    BY <2>1, <2>2, RequestNext, Zenon
<1>4. CASE WriteFiles
  <2>1. /\ at = "files" /\ resp.files \in {"none", "written"}
        /\ GoTo(IF resp.calls # "none" THEN "calls"
                ELSE IF resp.files = "written" THEN "checks" ELSE "tail")
        /\ resp' = resp /\ sticky' = sticky /\ capTold' = capTold
        /\ \/ resp.files = "written" /\ n' = [n EXCEPT !.toolErrors = 0] /\ wrote' = TRUE
           \/ resp.files # "written" /\ n' = n /\ wrote' = wrote
    BY <1>4, Zenon DEF WriteFiles
  <2>2. /\ at' = IF resp.calls # "none" THEN "calls"
                 ELSE IF resp.files = "written" THEN "checks" ELSE "tail"
        /\ turns' = turns /\ ended' = ended /\ mode' = mode
    BY <2>1, Zenon DEF GoTo, sessionVars
  <2>3. at' \in Labels
    BY <2>2 DEF Labels
  <2>4. n' \in Counters /\ wrote' \in BOOLEAN
    BY <1>1, <1>2, <2>1, Zenon
  <2>5. TurnType'
    BY <1>1, <2>1, <2>2, <2>3, <2>4, Zenon DEF LoopInv, TurnType
  <2>6. TurnInv'
    BY <2>1, <2>2, Zenon DEF LoopInv, TurnInv, AutoWorkParksForCause
  <2>7. QED
    BY <2>5, <2>6
<1>5. QED
  BY <1>3, <1>4

\* The questions leave the turn as it was.
LEMMA AskSteps ==
    ASSUME LoopInv,
           AskDelete \/ Suspend \/ SuspendFails \/ Reply \/ Record \/ Resume \/ Start
    PROVE  TurnType' /\ TurnInv'
<1>1. /\ n \in Counters /\ sticky \in BOOLEAN /\ wrote \in BOOLEAN /\ capTold \in BOOLEAN
      /\ resp \in Response
  BY Zenon DEF LoopInv, TurnType
<1>2. /\ sticky' = sticky /\ wrote' = wrote /\ capTold' = capTold /\ n' = n /\ turns' = turns
      /\ \/ AskDelete /\ resp' = resp /\ ended' = ended /\ at' = "delete" /\ at \in {"calls", "refused"}
         \/ Suspend /\ resp' = resp /\ ended' = ended /\ at' = "ask" /\ at # "off"
         \/ SuspendFails /\ resp' = resp /\ ended' = ended /\ at' = "refused" /\ at = "calls"
         \/ Reply /\ resp' = resp /\ ended' = ended /\ at' \in {"closing", "keeping"} /\ at # "off"
         \/ Record /\ resp' = resp /\ ended' = ended /\ at' = "answered" /\ at # "off"
         \/ Resume /\ resp' = NoResponse /\ ended' = ended /\ at' = "request" /\ at # "off"
         \/ Start /\ resp' = resp /\ ended' = "none" /\ at' = "request"
  BY Zenon
  DEF AskDelete, Suspend, Asks, AtCalls, SuspendFails, Reply, Record, Resume, Start, GoTo,
      loopVars, sessionVars
<1>3. at' \in Labels
  BY <1>2 DEF Labels
<1>4. TurnType'
  BY <1>1, <1>2, <1>3, NoTypes, Zenon DEF LoopInv, TurnType
<1>5. TurnInv'
  BY <1>2, Zenon DEF LoopInv, TurnInv, AutoWorkParksForCause
<1>6. QED
  BY <1>4, <1>5

LEMMA PhaseTypes ==
    ASSUME n \in Counters
    PROVE  /\ n.phase + 1 \in Nat
           /\ \A p \in PhaseCounts : p \in Nat /\ [n EXCEPT !.phase = p] \in Counters
<1>1. n.phase \in Nat /\ n.phase + 1 \in Nat
  BY CounterTypes
<1>2. \A p \in PhaseCounts : p \in Nat
  BY <1>1 DEF PhaseCounts
<1>3. QED
  BY <1>1, <1>2, CountersKept

LEMMA CheckSteps ==
    ASSUME LoopInv, PhaseFails \/ GateDirty \/ NoGate
    PROVE  TurnType' /\ TurnInv'
<1>1. /\ n \in Counters /\ sticky \in BOOLEAN /\ wrote \in BOOLEAN /\ capTold \in BOOLEAN
      /\ resp \in Response
  BY Zenon DEF LoopInv, TurnType
<1>2. CASE PhaseFails
  <2>1. /\ at # "off" /\ NextTurn /\ n' = [n EXCEPT !.phase = n.phase + 1]
        /\ sticky' = sticky /\ wrote' = wrote /\ capTold' = capTold
    BY <1>2, Zenon DEF PhaseFails
  <2>2. n.phase + 1 \in Nat
    BY <1>1, PhaseTypes
  <2>3. n' \in Counters
    BY <1>1, <2>1, <2>2, CountersKept, Zenon
  <2>4. QED
    BY <1>1, <2>1, <2>3, RequestNext, Zenon
<1>3. CASE GateDirty
  <2>1. PICK p \in PhaseCounts : at # "off" /\ CountAuto([n EXCEPT !.phase = p])
    BY <1>3, Zenon DEF GateDirty
  <2>2. [n EXCEPT !.phase = p] \in Counters
    BY <1>1, PhaseTypes
  <2>3. QED
    BY <2>1, <2>2, CountAutoNext, Zenon
<1>4. CASE NoGate
  <2>1. /\ at = "checks" /\ ~(mode.auto /\ mode.kind = "work")
        /\ GoTo("tail") /\ resp' = resp /\ UNCHANGED <<sticky, wrote, capTold>>
        /\ \E p \in PhaseCounts : n' = [n EXCEPT !.phase = p]
    BY <1>4, Zenon DEF NoGate
  <2>2. n' \in Counters
    BY <1>1, <2>1, PhaseTypes, Zenon
  <2>3. "tail" \in Labels
    BY DEF Labels
  <2>4. TurnType' /\ at' = "tail" /\ ended' = "none" /\ mode' = mode
    BY <1>1, <2>1, <2>2, <2>3, GoToNext, Zenon
  <2>5. TurnInv'
    BY <2>1, <2>4, Zenon DEF TurnInv, AutoWorkParksForCause
  <2>6. QED
    BY <2>4, <2>5
<1>5. QED
  BY <1>2, <1>3, <1>4

\* The tail asks the user only after a failure, or when a cap was told.
LEMMA TailSteps ==
    ASSUME LoopInv, Pump \/ AskUser \/ InputGoesOn
    PROVE  TurnType' /\ TurnInv'
<1>1. /\ n \in Counters /\ sticky \in BOOLEAN /\ wrote \in BOOLEAN /\ capTold \in BOOLEAN
      /\ resp \in Response
  BY Zenon DEF LoopInv, TurnType
<1>2. CASE Pump
  <2>1. at # "off" /\ CountAuto(n)
    BY <1>2, Zenon DEF Pump
  <2>2. QED
    BY <1>1, <2>1, CountAutoNext
<1>3. CASE AskUser
  <2>1. /\ at = "tail" /\ ~Pumped
        /\ GoTo("input") /\ resp' = resp /\ n' = n /\ UNCHANGED <<sticky, wrote, capTold>>
    BY <1>3, Zenon DEF AskUser
  <2>2. "input" \in Labels
    BY DEF Labels
  <2>3. TurnType' /\ at' = "input" /\ ended' = "none" /\ mode' = mode /\ capTold' = capTold
    BY <1>1, <2>1, <2>2, GoToNext, Zenon
  <2>4. mode.auto /\ mode.kind = "work" => resp.text = "failed" \/ capTold
    <3>1. mode.auto /\ mode.kind = "work" /\ resp.files = "none" => resp.text = "failed"
      BY <2>1, Zenon DEF Pumped, EffectivelyEmpty
    <3>2. QED
      BY <2>1, <3>1, Zenon DEF LoopInv, TurnInv
  <2>5. mode'.auto /\ mode'.kind = "work" => resp'.text = "failed" \/ capTold'
    <3>1. resp' = resp
      BY <2>1, Zenon
    <3>2. QED
      BY <2>3, <2>4, <3>1, Zenon
  <2>6. TurnInv'
    BY <2>3, <2>5, Zenon DEF TurnInv, AutoWorkParksForCause
  <2>7. QED
    BY <2>3, <2>6
<1>4. CASE InputGoesOn
  <2>1. /\ at # "off" /\ NextTurn /\ UNCHANGED <<sticky, wrote, capTold>>
        /\ \E e \in {0, n.empty} : n' = [n EXCEPT !.empty = e]
    BY <1>4, Zenon DEF InputGoesOn
  <2>2. n' \in Counters
    <3>1. \A e \in {0, n.empty} : e \in Nat
      BY <1>1, CounterTypes
    <3>2. QED
      BY <1>1, <2>1, <3>1, CountersKept, Zenon
  <2>3. QED
    BY <1>1, <2>1, <2>2, RequestNext, Zenon
<1>5. QED
  BY <1>2, <1>3, <1>4

LEMMA CallSteps ==
    ASSUME LoopInv, CallTools \/ DeleteAnswered
    PROVE  TurnType' /\ TurnInv'
<1>1. \E c \in Outcome : CallsDone(c) /\ at \in {"calls", "refused", "delete"}
  BY Zenon DEF CallTools, DeleteAnswered, AtCalls
<1>2. QED
  BY <1>1, CallsDoneNext

\* The steps that end a session.
EndSteps == \/ RunawayGuard \/ DispatchCancelled \/ Identical \/ CritiqueIsDone
            \/ GateClean \/ WindDown \/ RecordFails
            \/ DeleteCancelled \/ AskCancelled \/ InputEnds \/ Kill

LEMMA EndStepsAreOver == ASSUME EndSteps, fault \in BOOLEAN PROVE Over
<1>1. ASSUME RecordFails \/ Kill PROVE Over
  BY <1>1, RecordFailsIsOver, KillIsOver
<1>2. ASSUME EndSteps, ~(RecordFails \/ Kill) PROVE Over
  <2>1. /\ at \in {"request", "critique", "checks", "tail", "delete", "ask", "input"}
        /\ Ends("runaway") \/ Ends("cancelled") \/ Ends("completed")
    BY <1>2, Zenon
    DEF EndSteps, RunawayGuard, DispatchCancelled, Identical, CritiqueIsDone, GateClean, WindDown,
        DeleteCancelled, AskCancelled, InputEnds
  <2>2. at \notin {"off", "closing", "keeping"}
    BY <2>1
  <2>3. QED
    BY <2>1, <2>2, EndsIsOver, Zenon DEF Endings
<1>3. QED
  BY <1>1, <1>2

LEMMA RestStep ==
    ASSUME LoopInv, Next, fault \in BOOLEAN
    PROVE  RestType'
<1>1. mode \in Mode /\ sessions \in 0 .. MaxSessions /\ ended \in Endings
  BY DEF LoopInv, RestType
<1>2. \/ Start \/ Quiet \/ Over
      \/ Suspend \/ SuspendFails \/ Reply \/ Record \/ Resume
  BY NextKinds
<1>3. CASE Start
  <2>1. sessions < MaxSessions /\ sessions' = sessions + 1 /\ ended' = "none" /\ mode' \in Modes
    BY <1>3, Zenon DEF Start
  <2>2. sessions' \in 0 .. MaxSessions
    BY <1>1, <2>1, LimitTypes
  <2>3. QED
    BY <2>1, <2>2, LimitTypes DEF RestType, Endings
<1>4. CASE Over
  <2>1. mode' = Idle /\ sessions' = sessions /\ ended' \in Endings
    BY <1>4, Zenon DEF Over, Forgotten
  <2>2. QED
    BY <1>1, <2>1, NoTypes DEF RestType
<1>5. CASE Quiet \/ Suspend \/ SuspendFails \/ Reply \/ Record \/ Resume
  <2>1. mode' = mode /\ sessions' = sessions /\ ended' = ended
    BY <1>5, Zenon
    DEF Quiet, Suspend, SuspendFails, Reply, Record, GoTo, Resume, loopVars, sessionVars
  <2>2. QED
    BY <1>1, <2>1 DEF RestType
<1>6. QED
  BY <1>2, <1>3, <1>4, <1>5

LEMMA LoopStep == LoopInv /\ ThreadInv /\ [Next]_vars => LoopInv'
<1> SUFFICES ASSUME LoopInv, ThreadInv, [Next]_vars PROVE LoopInv'
  OBVIOUS
<1>1. fault \in BOOLEAN
  BY DEF ThreadInv, ThreadType
<1>2. CASE Next
  <2>1. RestType'
    BY <1>1, <1>2, RestStep
  <2>2. TurnType' /\ TurnInv'
    <3>1. \/ EndSteps
          \/ DispatchFails \/ EmptyAnswer \/ Answer
          \/ ProseIsCritique \/ ProseIsNoCritique \/ CritiqueGoesOn
          \/ WriteFiles \/ RejectFiles
          \/ AskDelete \/ Suspend \/ SuspendFails \/ Reply \/ Record \/ Resume \/ Start
          \/ PhaseFails \/ GateDirty \/ NoGate
          \/ Pump \/ AskUser \/ InputGoesOn
          \/ CallTools \/ DeleteAnswered
      BY <1>2, Zenon DEF Next, Loop, User, EndSteps
    <3>2. CASE EndSteps
      BY <1>1, <3>2, EndStepsAreOver, OverNext
    <3>3. QED
      BY <3>1, <3>2, RequestSteps, CritiqueSteps, FileSteps, AskSteps, CheckSteps, TailSteps,
         CallSteps, Zenon
  <2>3. QED
    BY <2>1, <2>2 DEF LoopInv
<1>3. CASE UNCHANGED vars
  <2>1. /\ at' = at /\ mode' = mode /\ turns' = turns /\ resp' = resp /\ n' = n
        /\ sticky' = sticky /\ wrote' = wrote /\ capTold' = capTold
        /\ sessions' = sessions /\ ended' = ended
    BY <1>3, Zenon DEF vars, loopVars, sessionVars
  <2>2. QED
    BY <2>1, Zenon DEF LoopInv, TurnType, RestType, TurnInv, AutoWorkParksForCause
<1>4. QED
  BY <1>2, <1>3

LEMMA LoopInit == Init => LoopInv
<1> SUFFICES ASSUME Init PROVE LoopInv
  OBVIOUS
<1>1. TurnType /\ RestType
  BY TypeInit, TypesSplit
<1>2. at = "off"
  BY DEF Init
<1>3. TurnInv
  BY <1>2, Zenon DEF TurnInv, AutoWorkParksForCause
<1>4. QED
  BY <1>1, <1>3 DEF LoopInv

THEOREM LoopInvariant == Spec => [](LoopInv /\ ThreadInv)
<1>1. Init => LoopInv /\ ThreadInv
  BY LoopInit, ThreadInit
<1>2. (LoopInv /\ ThreadInv) /\ [Next]_vars => (LoopInv /\ ThreadInv)'
  BY LoopStep, ThreadStep
<1>3. QED
  BY <1>1, <1>2, PTL DEF Spec

\* Every variable keeps its type: the turns stay within max_llm_requests and
\* the open threads on disk are threads with a number of turns.
THEOREM TypeCorrect == Spec => []TypeOK
<1>1. LoopInv /\ ThreadInv => TypeOK
  BY TypesSplit DEF LoopInv, ThreadInv
<1>2. QED
  BY <1>1, LoopInvariant, PTL

\* An unattended work session waits for the user only after the LLM failed or
\* a cap was told, whatever its answers hold and wherever the limits are.
THEOREM ParksForCause == Spec => []AutoWorkParksForCause
<1>1. LoopInv /\ ThreadInv => AutoWorkParksForCause
  BY Zenon DEF LoopInv, TurnInv
<1>2. QED
  BY <1>1, LoopInvariant, PTL

\* A retry on blockers ends as completed only after a write of its own, by
\* whichever of the ends the loop has, unless a user ended it.
THEOREM RetriesWork == Spec => RetryIsNotIdle
<1>1. LoopInv /\ ThreadInv /\ [Next]_vars =>
          [ mode.auto /\ mode.kind = "work" /\ mode.blockers
            /\ at \notin {"off", "input"} /\ ended' = "completed" => wrote ]_vars
  <2> SUFFICES ASSUME LoopInv, ThreadInv, Next, mode.auto, mode.kind = "work", mode.blockers,
                      at \notin {"off", "input"}, ended' = "completed"
               PROVE  wrote
    BY Zenon
  <2>1. ended = "none"
    BY Zenon DEF LoopInv, TurnInv
  <2>2. \/ CritiqueIsDone \/ GateClean \/ WindDown
    <3>1. fault \in BOOLEAN
      BY DEF ThreadInv, ThreadType
    <3>2. ~Start
      BY Zenon DEF Start
    <3>3. ~(Quiet \/ Suspend \/ SuspendFails \/ Reply \/ Record \/ Resume)
      BY <2>1, Zenon
      DEF Quiet, Suspend, SuspendFails, Reply, Record, GoTo, Resume, sessionVars
    <3>4. ~(Kill \/ RecordFails \/ RunawayGuard \/ DispatchCancelled \/ Identical)
      BY Zenon DEF Kill, RecordFails, RunawayGuard, DispatchCancelled, Identical, Ends
    <3>5. ~(DeleteCancelled \/ AskCancelled \/ InputEnds)
      BY Zenon DEF DeleteCancelled, AskCancelled, InputEnds, Ends
    <3>6. ~(DispatchFails \/ EmptyAnswer \/ Answer)
      BY <2>1, Zenon DEF DispatchFails, EmptyAnswer, Answer, sessionVars
    <3>7. ended' = ended => FALSE
      BY <2>1
    <3>8. ~(ProseIsCritique \/ ProseIsNoCritique \/ CritiqueGoesOn \/ WriteFiles \/ RejectFiles)
      BY <3>7, Zenon
      DEF ProseIsCritique, ProseIsNoCritique, CritiqueGoesOn, WriteFiles, RejectFiles, NextTurn,
          GoTo, sessionVars
    <3>9. ~(CallTools \/ DeleteAnswered \/ AskDelete)
      BY <3>7, Zenon
      DEF CallTools, DeleteAnswered, AskDelete, CallsDone, NextTurn, GoTo, sessionVars
    <3>10. ~(PhaseFails \/ GateDirty \/ NoGate \/ Pump \/ AskUser \/ InputGoesOn)
      BY <3>7, Zenon
      DEF PhaseFails, GateDirty, NoGate, Pump, AskUser, InputGoesOn, CountAuto, NextTurn, GoTo,
          sessionVars
    <3>11. QED
      BY <3>2, <3>3, <3>4, <3>5, <3>6, <3>8, <3>9, <3>10, Zenon DEF Next, Loop, User
  <2>3. ~CritiqueIsDone
    BY Zenon DEF CritiqueIsDone, LoopInv, TurnInv
  <2>4. GateClean => wrote
    BY Zenon DEF GateClean, LoopInv, TurnInv
  <2>5. WindDown => wrote
    BY Zenon DEF WindDown, CanWindDown
  <2>6. QED
    BY <2>2, <2>3, <2>4, <2>5, Zenon
<1>2. QED
  BY <1>1, LoopInvariant, PTL DEF Spec, RetryIsNotIdle

-----------------------------------------------------------------------------
(* A question that nobody waits for.                                       *)

\* A checkpoint is on disk, and no session is waiting for its reply.
Orphaned ==
    /\ disk.pending # NoThread
    /\ at = "off" \/ (ask.pending /\ at # "ask")

\* The slot holds the question of the checkpoint, and no reply empties it but
\* the one that is waited for.
SlotInv ==
    /\ ask.pending => disk.pending = ask.thread
    /\ at \in {"closing", "keeping", "answered"} => ~ask.pending

LEMMA SlotInit == Init => SlotInv
BY DEF Init, SlotInv, NoAsk

\* What a step does to the slot and the checkpoint.
LEMMA QuietSlot ==
    ASSUME ThreadInv, SlotInv, Quiet
    PROVE  SlotInv' /\ (Orphaned => Orphaned' /\ replies' = replies)
<1>1. disk'.pending = disk.pending
  <2>1. disk' = disk \/ disk' = [disk EXCEPT !.critique = TRUE]
    BY Zenon DEF Quiet
  <2>2. [disk EXCEPT !.critique = TRUE].pending = disk.pending
    BY DEF ThreadInv, ThreadType
  <2>3. QED
    BY <2>1, <2>2, Zenon
<1>2. /\ ask' = ask /\ replies' = replies
      /\ at \notin {"off", "ask"} /\ at' \notin {"ask", "closing", "keeping", "answered"}
  BY Zenon DEF Quiet, askVars, AskLabels
<1>3. QED
  BY <1>1, <1>2 DEF SlotInv, Orphaned

LEMMA OverSlot ==
    ASSUME Over
    PROVE  SlotInv' /\ (Orphaned => Orphaned' /\ replies' = replies)
<1>1. at' = "off" /\ ask' = NoAsk /\ disk' = disk /\ replies' = replies
  BY Zenon DEF Over, Forgotten
<1>2. QED
  BY <1>1 DEF SlotInv, Orphaned, NoAsk

LEMMA StartSlot ==
    ASSUME Start
    PROVE  SlotInv' /\ (Orphaned => Orphaned' /\ replies' = replies)
BY DEF Start, SlotInv, Orphaned

LEMMA SuspendSlot ==
    ASSUME ThreadInv, SlotInv, Suspend
    PROVE  SlotInv' /\ ~Orphaned
<1>1. PICK t \in Threads, closes \in BOOLEAN :
         /\ at' = "ask" /\ ask' = [pending |-> TRUE, thread |-> t, closes |-> closes]
         /\ disk' = [disk EXCEPT !.pending = t, !.files = Opened(t)]
         /\ Asks(t)
  BY Zenon DEF Suspend
<1>2. /\ at \in {"calls", "refused"} /\ ~ask.pending
  BY <1>1 DEF Asks, AtCalls
<1>3. DOMAIN disk = {"pending", "files", "recorded", "critique"}
  BY DEF ThreadInv, ThreadType
<1>4. disk'.pending = t
  BY <1>1, <1>3
<1>5. QED
  BY <1>1, <1>2, <1>4 DEF SlotInv, Orphaned

LEMMA SuspendFailsSlot ==
    ASSUME SlotInv, SuspendFails
    PROVE  SlotInv' /\ ~Orphaned
<1>1. /\ at = "calls" /\ at' = "refused" /\ ask' = ask
      /\ ~ask.pending
  BY DEF SuspendFails, Asks
<1>2. QED
  BY <1>1 DEF SlotInv, Orphaned

LEMMA ReplySlot ==
    ASSUME ThreadInv, Reply
    PROVE  SlotInv' /\ ~Orphaned
<1>1. at = "ask" /\ ask' = [ask EXCEPT !.pending = FALSE]
  BY DEF Reply
<1>2. ~ask'.pending
  BY <1>1 DEF ThreadInv, ThreadType
<1>3. QED
  BY <1>1, <1>2 DEF SlotInv, Orphaned

LEMMA RecordSlot ==
    ASSUME SlotInv, Record
    PROVE  SlotInv' /\ ~Orphaned
<1>1. at \in {"closing", "keeping"} /\ ask' = ask
  BY DEF Record, GoTo, askVars
<1>2. ~ask.pending
  BY <1>1 DEF SlotInv
<1>3. QED
  BY <1>1, <1>2 DEF SlotInv, Orphaned

LEMMA ResumeSlot ==
    ASSUME SlotInv, Resume
    PROVE  SlotInv' /\ ~Orphaned
<1>1. at = "answered" /\ ask' = NoAsk
  BY DEF Resume
<1>2. QED
  BY <1>1 DEF SlotInv, Orphaned, NoAsk

LEMMA SlotStep ==
    ASSUME ThreadInv, SlotInv, [Next]_vars
    PROVE  SlotInv' /\ (Orphaned => Orphaned' /\ replies' = replies)
<1>1. CASE Next
  <2>1. fault \in BOOLEAN
    BY DEF ThreadInv, ThreadType
  <2>2. \/ Start \/ Quiet \/ Over
        \/ Suspend \/ SuspendFails \/ Reply \/ Record \/ Resume
    BY <1>1, <2>1, NextKinds
  <2>3. QED
    BY <2>2, StartSlot, QuietSlot, OverSlot, SuspendSlot, SuspendFailsSlot, ReplySlot,
       RecordSlot, ResumeSlot
<1>2. CASE UNCHANGED vars
  <2>1. at' = at /\ ask' = ask /\ disk' = disk /\ replies' = replies
    BY <1>2, Zenon DEF vars, askVars
  <2>2. QED
    BY <2>1 DEF SlotInv, Orphaned
<1>3. QED
  BY <1>1, <1>2

\* The question in the slot is the one of the checkpoint, so that a kill while
\* the loop waits for the reply leaves that question on disk and no other
\* (suspend_for_user_ask saves it before it fills the slot).
PendingIsSaved == ask.pending => disk.pending = ask.thread

THEOREM QuestionIsSaved == Spec => []PendingIsSaved
<1>1. SlotInv => PendingIsSaved
  BY DEF SlotInv, PendingIsSaved
<1>2. ThreadInv /\ SlotInv /\ [Next]_vars => SlotInv'
  BY SlotStep
<1>3. QED
  BY <1>1, <1>2, SlotInit, ThreadInvariant, PTL DEF Spec

\* Where PendingIsParked fails, it fails for good: once a session has ended with
\* its checkpoint on disk, every later session of the step recovers the question
\* into a slot that nobody empties (dispatch.rs:158), and no reply of the user is
\* taken any more, however many sessions follow, as long as the files are there
\* and can be read.
OrphansStay == [][Orphaned => Orphaned' /\ UNCHANGED replies]_vars

THEOREM OrphansStayOrphaned == Spec => OrphansStay
<1>1. ThreadInv /\ SlotInv /\ [Next]_vars => SlotInv'
  BY SlotStep
<1>2. ThreadInv /\ SlotInv /\ [Next]_vars => [Orphaned => Orphaned' /\ UNCHANGED replies]_vars
  BY SlotStep
<1>3. QED
  BY <1>1, <1>2, SlotInit, ThreadInvariant, PTL DEF Spec, OrphansStay
=============================================================================
