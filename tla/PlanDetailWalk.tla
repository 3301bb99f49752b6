--------------------------- MODULE PlanDetailWalk ---------------------------
(***************************************************************************)
(* A plan-detail step (DM2cd, DM3ad, DM4ad) in the auto loop: stubs of     *)
(* milestones are detailed by work sessions and judged by critique         *)
(* sessions, by a pool of threads (run_plan_detail_walk_parallel) or one   *)
(* after another (the rest of run_auto_loop), until the gate lets the step *)
(* advance or the loop gives up.  The step may be entered again, with      *)
(* another setting, on whatever the last attempt left on disk.             *)
(*                                                                         *)
(* In a git work tree every worker has a checkout of HEAD of its own and   *)
(* does both sessions there; the coordinator merges what they leave.       *)
(* Otherwise the workers share the project, and the critiques follow one   *)
(* by one.  What a session leaves is a choice: it details its stub or not, *)
(* it writes a verdict or none, it may trip a cap and it may fail.         *)
(***************************************************************************)
EXTENDS Integers, Sequences, FiniteSets

CONSTANTS
    N,            \* the milestones of the plan
    MaxParallel,  \* the settings of max_parallel_requests met
    MaxRetries,   \* max_critique_iters
    Heads,        \* bound: what HEAD holds of the critique, or "no git"
    MaxEntries    \* bound: times the step is entered

ASSUME PlanDetailWalkAssumption ==
    /\ N \in Nat
    /\ MaxParallel \subseteq Nat
    /\ Heads \subseteq {"no git", "none", "clean", "dirty"}
    /\ MaxRetries \in Nat /\ MaxEntries \in Nat

\* The milestones, numbered in walker order, and as many threads at most.
Stubs == 1 .. N
Workers == 1 .. N

Verdicts == {"clean", "dirty", "malformed"}
None == "none"
NoStub == 0
NoTree == [there |-> FALSE, detailed |-> FALSE, critique |-> None, fresh |-> FALSE]

VARIABLES
    disk,      \* the project: which stubs are detailed, legacy critique, shards
    head,      \* "no git", or the critique of the step committed in HEAD
    at,        \* position of the auto loop
    max,       \* opts.max_parallel_requests of this entry
    host,      \* the loop's presenter: send has failed; a cap and its Cancel
    capFlag,   \* cap_exceeded_flag of the pool
    todo,      \* the queue of stubs; pop takes the last one
    wat,       \* position of every worker thread
    wstub,     \* the stub it is at
    channel,   \* the report of a cap is on its way to the coordinator
    trees,     \* the worktrees that exist
    contribs,  \* contributions of the workers, in order of arrival
    left,      \* stubs whose serial critique is to come
    iters,     \* critique_iters of the serial passes
    entries

\* History variables: no guard reads them.
VARIABLES
    settled,   \* stubs whose worker has finished well in this walk
    judged,    \* milestones whose present content a critique has found clean
    gap,       \* a session or an entry left a milestone without its verdict
    late,      \* stubs a worker took after the cap was forwarded
    outcome    \* how the pool returned

pool == <<capFlag, todo, wat, wstub, channel, trees, contribs>>
ghosts == <<settled, judged, gap, late, outcome>>
vars == <<disk, head, at, max, host, pool, left, iters, entries, ghosts>>

Labels == {"idle", "entered", "walking", "merging", "critiques", "walked",
           "work", "critique", "judge", "advanced"}
WorkerLabels == {"off", "check", "pop", "checkout", "work", "critique", "done", "failed"}

Disk == [detailed : SUBSET Stubs, legacy : Verdicts \union {None},
         dir : BOOLEAN, shards : [Stubs -> Verdicts \union {None}]]
Tree == [there : BOOLEAN, detailed : BOOLEAN, critique : Verdicts \union {None}, fresh : BOOLEAN]

TypeOK ==
    /\ disk \in Disk
    /\ head \in Heads
    /\ at \in Labels
    /\ max \in MaxParallel
    /\ host \in [failed : BOOLEAN, cap : BOOLEAN, cancel : BOOLEAN]
    /\ capFlag \in BOOLEAN
    /\ todo \subseteq Stubs
    /\ wat \in [Workers -> WorkerLabels]
    /\ wstub \in [Workers -> Stubs \union {NoStub}]
    /\ channel \in BOOLEAN
    /\ trees \in [Stubs -> Tree]
    /\ contribs \in Seq(Stubs)
    /\ left \subseteq Stubs
    /\ iters \in Nat
    /\ entries \in 0 .. MaxEntries
    /\ settled \subseteq Stubs
    /\ judged \subseteq Stubs
    /\ gap \in BOOLEAN
    /\ late \in [Workers -> Nat]
    /\ outcome \in {None, "ok", "error"}

\* The first and the last milestone of S, as a set: empty when S is.
First(S) == {s \in S : \A t \in S : s <= t}
Last(S) == {s \in S : \A t \in S : s >= t}

Unjudged == [s \in Stubs |-> None]
NoTrees == [s \in Stubs |-> NoTree]
QuietHost == [failed |-> FALSE, cap |-> FALSE, cancel |-> FALSE]

\* No thread left and nothing queued.
ThreadsEnd ==
    /\ capFlag' = FALSE
    /\ todo' = {}
    /\ wat' = [w \in Workers |-> "off"]
    /\ wstub' = [w \in Workers |-> NoStub]
    /\ channel' = FALSE
    /\ settled' = {}
    /\ late' = [w \in Workers |-> 0]

PoolEnds == ThreadsEnd /\ trees' = NoTrees /\ contribs' = <<>>

Init ==
    /\ disk = [detailed |-> {}, legacy |-> None, dir |-> FALSE, shards |-> Unjudged]
    /\ head \in Heads
    /\ at = "idle"
    /\ max \in MaxParallel
    /\ host = QuietHost
    /\ capFlag = FALSE
    /\ todo = {}
    /\ wat = [w \in Workers |-> "off"]
    /\ wstub = [w \in Workers |-> NoStub]
    /\ channel = FALSE
    /\ trees = NoTrees
    /\ contribs = <<>>
    /\ left = {}
    /\ iters = 0
    /\ entries = 0
    /\ settled = {}
    /\ late = [w \in Workers |-> 0]
    /\ judged = {}
    /\ gap = FALSE
    /\ outcome = None

-----------------------------------------------------------------------------
(* The critique files, as the gate and the loop read them.                 *)

Pending == Stubs \ disk.detailed

ShardVerdicts == {disk.shards[s] : s \in Stubs} \ {None}

\* read_gate_findings: the shard directory first; a file that does not parse
\* has no findings.
HasFindings == IF disk.dir THEN "dirty" \in ShardVerdicts ELSE disk.legacy = "dirty"

\* Mutant: a directory without a dirty shard is clean, also when it is empty.
LenientGate ==
    IF "malformed" \in ShardVerdicts THEN "error"
    ELSE IF "dirty" \in ShardVerdicts THEN "failing" ELSE "clean"

\* gate::evaluate of the step: every stub detailed, and critique_dir_clean.
Gate ==
    IF "malformed" \in ShardVerdicts THEN "error"
    ELSE IF Pending # {} \/ ~disk.dir \/ ShardVerdicts = {} \/ "dirty" \in ShardVerdicts
         THEN "failing" ELSE "clean"

-----------------------------------------------------------------------------
(* Entering and leaving the step.                                          *)

Leave(label) ==
    /\ at' = label
    /\ host' = QuietHost
    /\ left' = {}
    /\ iters' = 0

EnterStep ==
    /\ at = "idle"
    /\ entries < MaxEntries
    /\ entries' = entries + 1
    /\ at' = "entered"
    /\ max' \in MaxParallel
    /\ outcome' = None
    /\ UNCHANGED <<disk, head, host, pool, left, iters, settled, judged, gap, late>>

\* min(max_parallel_requests, pending), 0 for no limit.
PoolSize == IF max = 0 \/ max > Cardinality(Pending) THEN Cardinality(Pending) ELSE max

\* The critiques of the step are deleted whatever comes next.
Invalidated == [disk EXCEPT !.legacy = None, !.dir = FALSE, !.shards = Unjudged]

\* The setting 1 asks for the serial path before anything is touched; fewer
\* than two pending stubs lead there after the critiques are gone.
GoSerial ==
    /\ at = "entered"
    /\ \/ max = 1 /\ UNCHANGED disk
       \/ max # 1 /\ Cardinality(Pending) < 2 /\ disk' = Invalidated
    /\ gap' = TRUE
    /\ at' = "work"
    /\ UNCHANGED <<head, max, host, pool, left, iters, entries, settled, judged, late, outcome>>

StartWalk ==
    /\ at = "entered"
    /\ max # 1
    /\ Cardinality(Pending) >= 2
    /\ disk' = Invalidated
    /\ gap' = (gap \/ disk.detailed # {})
    /\ at' = "walking"
    /\ todo' = Pending
    /\ wat' = [w \in Workers |-> IF w <= PoolSize THEN "check" ELSE "off"]
    /\ left' = IF head = "no git" THEN Pending ELSE {}
    /\ UNCHANGED <<head, max, host, capFlag, wstub, channel, trees, contribs, iters,
                   entries, settled, judged, late, outcome>>

-----------------------------------------------------------------------------
(* A worker thread.                                                        *)

\* History: the verdict v on the present content of the milestones in S.
Judge(S, v) == IF v = "clean" THEN judged \union S ELSE judged \ S

Moves(w, label) == wat' = [wat EXCEPT ![w] = label]

\* Mutant: a worker never looks at the flag.
TakeOn(w) ==
    /\ wat[w] = "check"
    /\ Moves(w, "pop")
    /\ UNCHANGED <<disk, head, at, max, host, capFlag, todo, wstub, channel, trees, contribs,
                   left, iters, entries, ghosts>>

\* The look at the cap flag before a stub is taken.
CheckCap(w) ==
    /\ wat[w] = "check"
    /\ Moves(w, IF capFlag THEN "done" ELSE "pop")
    /\ UNCHANGED <<disk, head, at, max, host, capFlag, todo, wstub, channel, trees, contribs,
                   left, iters, entries, ghosts>>

Pop(w) ==
    /\ wat[w] = "pop"
    /\ \/ /\ todo = {}
          /\ Moves(w, "done")
          /\ UNCHANGED <<todo, wstub, late>>
       \/ \E s \in Last(todo) :
             /\ Moves(w, IF head = "no git" THEN "work" ELSE "checkout")
             /\ wstub' = [wstub EXCEPT ![w] = s]
             /\ todo' = todo \ {s}
             /\ late' = [late EXCEPT ![w] = IF capFlag THEN @ + 1 ELSE @]
    /\ UNCHANGED <<disk, head, at, max, host, capFlag, channel, trees, contribs, left, iters,
                   entries, settled, judged, gap, outcome>>

\* WorktreeManager::checkout: off HEAD, so neither the critiques deleted nor
\* the milestones detailed since the last commit show there.
Checkout(w) ==
    /\ wat[w] = "checkout"
    /\ head # "no git"
    /\ \/ /\ Moves(w, "work")
          /\ trees' = [trees EXCEPT ![wstub[w]] =
                           [there |-> TRUE, detailed |-> FALSE, critique |-> head,
                            fresh |-> FALSE]]
       \/ Moves(w, "failed") /\ UNCHANGED trees
    /\ UNCHANGED <<disk, head, at, max, host, capFlag, todo, wstub, channel, contribs, left,
                   iters, entries, ghosts>>

\* A session sends its events, the diagnostic of a cap among them or not.
Reports == channel' \in {channel, TRUE}

\* The worker's function returns an error; what it held of a worktree goes.
Fails(w) ==
    /\ Moves(w, "failed")
    /\ trees' = [trees EXCEPT ![wstub[w]] = NoTree]
    /\ UNCHANGED <<wstub, settled>>

\* The stub is finished: back to the look at the flag.
Settles(w) ==
    /\ Moves(w, "check")
    /\ wstub' = [wstub EXCEPT ![w] = NoStub]
    /\ settled' = settled \union {wstub[w]}

\* The work session in the project itself; its critique comes after the walk.
WorkInPlace(w) ==
    /\ wat[w] = "work"
    /\ head = "no git"
    /\ Reports
    /\ disk' \in {disk, [disk EXCEPT !.detailed = @ \union {wstub[w]}]}
    /\ judged' = judged \ {wstub[w]}
    /\ Fails(w) \/ (Settles(w) /\ UNCHANGED trees)
    /\ UNCHANGED <<head, at, max, host, capFlag, todo, contribs, left, iters, entries,
                   gap, late, outcome>>

\* The work session in the worktree.
WorkInTree(w) ==
    /\ wat[w] = "work"
    /\ head # "no git"
    /\ Reports
    /\ \/ Fails(w)
       \/ /\ Moves(w, "critique")
          /\ trees' \in {trees, [trees EXCEPT ![wstub[w]].detailed = TRUE]}
          /\ UNCHANGED <<wstub, settled>>
    /\ UNCHANGED <<disk, head, at, max, host, capFlag, todo, contribs, left, iters, entries,
                   judged, gap, late, outcome>>

\* The critique session in the worktree, which then becomes a contribution.
CritiqueOf(w) ==
    LET s == wstub[w]
    IN /\ wat[w] = "critique"
       /\ Reports
       /\ \/ Fails(w) /\ UNCHANGED contribs
          \/ /\ Settles(w)
             /\ contribs' = Append(contribs, s)
             /\ \E v \in Verdicts \union {None} :
                    trees' = IF v = None THEN trees
                             ELSE [trees EXCEPT ![s].critique = v, ![s].fresh = TRUE]
       /\ UNCHANGED <<disk, head, at, max, host, capFlag, todo, left, iters, entries,
                      judged, gap, late, outcome>>

Worker(w) ==
    /\ at = "walking"
    /\ CheckCap(w) \/ Pop(w) \/ Checkout(w)
       \/ WorkInPlace(w) \/ WorkInTree(w) \/ CritiqueOf(w)

-----------------------------------------------------------------------------
(* The coordinator.                                                        *)

\* AutoPresenter::send of the diagnostic of a cap.
CapTripped(h) == [h EXCEPT !.cap = TRUE, !.cancel = TRUE]

\* The diagnostic of a cap sets the flag of the pool, also when the host is
\* no longer there to be told.
Forward ==
    /\ at = "walking"
    /\ channel
    /\ channel' = FALSE
    /\ capFlag' = TRUE
    /\ host' = IF host.failed THEN host ELSE CapTripped(host)
    /\ UNCHANGED <<disk, head, at, max, todo, wat, wstub, trees, contribs, left, iters,
                   entries, ghosts>>

\* An event cannot be sent to the host. From then on the events are drained.
HostLost ==
    /\ at = "walking"
    /\ host' = [host EXCEPT !.failed = TRUE]
    /\ UNCHANGED <<disk, head, at, max, pool, left, iters, entries, ghosts>>

\* Mutant: the coordinator waits for the good end of every worker.
DrainedIfAllWell == ~channel /\ \A w \in Workers : wat[w] \in {"off", "done"}

PoolDrained == ~channel /\ \A w \in Workers : wat[w] \in {"off", "done", "failed"}

\* Mutant: an error of a worker is lost when the host is fine.
PoolFailedQuietly == host.failed

\* The first error: of the host, or else of a worker.
PoolFailed == host.failed \/ \E w \in Workers : wat[w] = "failed"

\* All handles are joined; after an error nothing is merged.
Join ==
    /\ at = "walking"
    /\ PoolDrained
    /\ IF PoolFailed
       THEN /\ Leave("idle")
            /\ outcome' = "error"
            /\ PoolEnds
            /\ UNCHANGED disk
       ELSE /\ outcome' = "ok"
            /\ UNCHANGED <<host, left, iters>>
            /\ IF head = "no git"
               THEN /\ at' = "critiques"
                    /\ disk' = [disk EXCEPT !.dir = TRUE]
                    /\ PoolEnds
               ELSE /\ at' = "merging"
                    /\ ThreadsEnd
                    /\ UNCHANGED <<disk, trees, contribs>>
    /\ UNCHANGED <<head, max, entries, judged, gap>>

\* The project once the contribution of s is merged: its file, and its verdict
\* as a shard if there is a verdict that parses.
Merged(d, s, t) ==
    LET copied == [d EXCEPT !.detailed = IF t.detailed THEN @ \union {s} ELSE @]
    IN IF t.critique \in {None, "malformed"} THEN copied
       ELSE [copied EXCEPT !.dir = TRUE, !.shards[s] = t.critique]

\* merge_contributions, one contribution at a time; a malformed critique ends
\* it in the middle.
Merge ==
    /\ at = "merging"
    /\ contribs # <<>>
    /\ LET s == Head(contribs)
           t == trees[s]
       IN /\ disk' = Merged(disk, s, t)
          /\ judged' = Judge({s}, IF t.fresh THEN t.critique ELSE None)
          /\ gap' = (gap \/ ~t.fresh \/ t.critique = "malformed")
          /\ IF t.critique = "malformed"
             THEN /\ Leave("idle")
                  /\ trees' = NoTrees
                  /\ contribs' = <<>>
             ELSE /\ contribs' = Tail(contribs)
                  /\ UNCHANGED <<at, host, left, iters, trees>>
    /\ UNCHANGED <<head, max, capFlag, todo, wat, wstub, channel, entries, settled, late, outcome>>

\* Mutant: the worktrees of a walk that went well are not removed.
KeepTrees ==
    /\ at = "merging"
    /\ contribs = <<>>
    /\ at' = "walked"
    /\ UNCHANGED <<disk, head, max, host, capFlag, todo, wat, wstub, channel, trees, contribs,
                   left, iters, entries, ghosts>>

\* Every worktree is removed once all are merged.
MergeDone ==
    /\ at = "merging"
    /\ contribs = <<>>
    /\ at' = "walked"
    /\ trees' = NoTrees
    /\ UNCHANGED <<disk, head, max, host, capFlag, todo, wat, wstub, channel, contribs, left,
                   iters, entries, ghosts>>

\* In place: the critique of the next stub, whose file becomes its shard. A
\* session clears the cap, reads a Cancel left in the queue instead of its
\* Hello, and may trip a cap of its own.
WalkCritique ==
    /\ at = "critiques"
    /\ left # {}
    /\ \/ /\ host.cancel
          /\ Leave("idle")
          /\ UNCHANGED <<disk, judged, gap>>
       \/ /\ ~host.cancel
          /\ \E s \in First(left), v \in Verdicts \union {None}, cap \in BOOLEAN :
                /\ disk' = IF v = None THEN disk ELSE [disk EXCEPT !.shards[s] = v]
                /\ judged' = Judge({s}, v)
                /\ gap' = (gap \/ v = None)
                /\ left' = left \ {s}
                /\ host' = [host EXCEPT !.cap = cap]
          /\ UNCHANGED <<at, iters>>
    /\ UNCHANGED <<head, max, pool, entries, settled, late, outcome>>

WalkCritiquesDone ==
    /\ at = "critiques"
    /\ left = {}
    /\ at' = "walked"
    /\ UNCHANGED <<disk, head, max, host, pool, left, iters, entries, ghosts>>

\* The loop after a parallel walk: a cap or findings flip it to manual mode;
\* otherwise it advances if the gate says so, and leaves the step either way.
WalkEnds ==
    /\ at = "walked"
    /\ Leave(IF ~host.cap /\ ~HasFindings /\ Gate = "clean" THEN "advanced" ELSE "idle")
    /\ UNCHANGED <<disk, head, max, pool, entries, ghosts>>

-----------------------------------------------------------------------------
(* The serial path, one milestone per pass.                                *)

\* find_current_milestone: after findings the last one touched, else the first
\* one pending. The findings are those of the unsharded critique.
WorkTarget ==
    IF disk.legacy = "dirty" /\ disk.detailed # {} THEN Last(disk.detailed) ELSE First(Pending)

SerialWork ==
    /\ at = "work"
    /\ \/ \E s \in WorkTarget, done \in BOOLEAN :
             /\ disk' = [disk EXCEPT !.detailed = IF done THEN @ \union {s} ELSE @]
             /\ judged' = judged \ {s}
       \/ WorkTarget = {} /\ UNCHANGED <<disk, judged>>
    /\ at' = "critique"
    /\ UNCHANGED <<head, max, host, pool, left, iters, entries, settled, gap, late, outcome>>

\* The critique of the last milestone touched, in the unsharded file.
SerialCritique ==
    /\ at = "critique"
    /\ \E v \in Verdicts \union {None} :
          /\ disk' = [disk EXCEPT !.legacy = IF v = None THEN @ ELSE v]
          /\ judged' = IF v = None THEN judged ELSE Judge(Last(disk.detailed), v)
    /\ at' = "judge"
    /\ UNCHANGED <<head, max, host, pool, left, iters, entries, settled, gap, late, outcome>>

\* Findings ask for another pass while there is budget; without any, a clean
\* gate advances and a pending milestone asks for a pass on a new budget.
SerialJudge ==
    /\ at = "judge"
    /\ \/ HasFindings /\ iters < MaxRetries /\ at' = "entered" /\ iters' = iters + 1
          /\ UNCHANGED <<host, left>>
       \/ HasFindings /\ iters >= MaxRetries /\ Leave("idle")
       \/ ~HasFindings /\ Gate = "clean" /\ Leave("advanced")
       \/ /\ ~HasFindings /\ Gate = "failing" /\ Pending # {}
          /\ at' = "entered" /\ iters' = 0
          /\ UNCHANGED <<host, left>>
       \/ ~HasFindings /\ Gate = "failing" /\ Pending = {} /\ Leave("idle")
       \/ ~HasFindings /\ Gate = "error" /\ Leave("idle")
    /\ UNCHANGED <<disk, head, max, pool, entries, ghosts>>

\* Outside the pool: a session, a write or a load fails, a cap, a toggle or a
\* shutdown ends the loop.
LoopEnds ==
    /\ at \in {"entered", "merging", "critiques", "walked", "work", "critique", "judge"}
    /\ Leave("idle")
    /\ trees' = NoTrees
    /\ contribs' = <<>>
    /\ UNCHANGED <<disk, head, max, capFlag, todo, wat, wstub, channel, entries, ghosts>>

\* The process is killed: the worktrees stay behind under names that no other
\* process uses.
Kill ==
    /\ at \notin {"idle", "advanced"}
    /\ entries < MaxEntries
    /\ Leave("idle")
    /\ PoolEnds
    /\ outcome' = "error"
    /\ UNCHANGED <<disk, head, max, entries, judged, gap>>

Loop ==
    \/ GoSerial \/ StartWalk \/ Forward \/ Join \/ Merge \/ MergeDone
    \/ WalkCritique \/ WalkCritiquesDone \/ WalkEnds
    \/ SerialWork \/ SerialCritique \/ SerialJudge

Next == EnterStep \/ Loop \/ HostLost \/ LoopEnds \/ Kill \/ \E w \in Workers : Worker(w)

Spec == Init /\ [][Next]_vars

\* The threads run, their sessions end (each has its caps), the loop goes on.
FairSpec ==
    /\ Spec
    /\ WF_vars(Loop)
    /\ \A w \in Workers : WF_vars(Worker(w))

-----------------------------------------------------------------------------
(* Correctness.                                                            *)

\* The pool keeps its promise: no stub is given to two workers, and a walk
\* that returns without an error has settled every stub or met a cap.
Pool == INSTANCE StubPool WITH
            doing <- {wstub[w] : w \in Workers} \ {NoStub},
            capped <- capFlag

PoolKeepsPromise == Pool!Spec

\* The cap reaches the workers late but soon: once its diagnostic has been
\* forwarded, a worker takes at most one more stub.
CapReachesWorkers == \A w \in Workers : late[w] <= 1

\* A worktree lives as long as something in it is to be merged, and none
\* outlives the walk, however it ends.
WorktreesLive ==
    /\ \A i \in 1 .. Len(contribs) : trees[contribs[i]].there
    /\ at \notin {"walking", "merging"} => trees = NoTrees

\* The step advances only with every stub detailed, and past a milestone
\* whose present content was not found clean only if a session left no
\* verdict, the step was entered again, or a pass was serial.
AdvanceIsJudged ==
    at = "advanced" => /\ Pending = {}
                       /\ gap \/ judged = Stubs

\* A walk always returns: failed workers, a lost host and a cap included.
WalkReturns == at = "walking" ~> at # "walking"

-----------------------------------------------------------------------------
(* What comments of the code say, and the code does not do.                *)

\* "the directory-mode gate sees the empty slot and the run flips to manual"
\* (worktree.rs:304): the step never advances past a milestone that has no
\* verdict.
NoEmptySlot == at = "advanced" => \A s \in Stubs : disk.shards[s] # None

\* "MILESTONE_WALK_CAP in the caller bounds total iterations" (auto.rs:2364):
\* the loop leaves the step, whatever the sessions do.
LoopIsBounded == at = "entered" ~> at \in {"idle", "advanced"}
=============================================================================
