------------------------ MODULE PlanDetailWalkProofs ------------------------
(***************************************************************************)
(* Theorems about PlanDetailWalk, for any number of milestones, settings,  *)
(* retries and entries.                                                    *)
(***************************************************************************)
EXTENDS PlanDetailWalk, FiniteSetTheorems, TLAPS

(***************************************************************************)
(* Types.                                                                  *)
(***************************************************************************)

Presenter == [failed : BOOLEAN, cap : BOOLEAN, cancel : BOOLEAN]

\* The bounds are naturals.
LEMMA Bounds == N \in Nat /\ MaxEntries \in Nat
BY PlanDetailWalkAssumption

\* First and Last choose from their set.
LEMMA Chosen == ASSUME NEW S PROVE First(S) \subseteq S /\ Last(S) \subseteq S
BY DEF First, Last

\* The fixed values have their types.
LEMMA FixedTypes ==
    /\ Unjudged \in [Stubs -> Verdicts \union {None}]
    /\ NoTree \in Tree
    /\ NoTrees \in [Stubs -> Tree]
    /\ QuietHost \in Presenter
<1>1. Unjudged \in [Stubs -> Verdicts \union {None}]
  BY DEF Unjudged
<1>2. NoTree \in Tree
  BY DEF NoTree, Tree
<1>3. NoTrees \in [Stubs -> Tree]
  BY <1>2 DEF NoTrees
<1>4. QuietHost \in Presenter
  BY DEF QuietHost, Presenter
<1>5. QED
  BY <1>1, <1>2, <1>3, <1>4

\* Deleting the critiques keeps the project a project.
LEMMA InvalidatedType == disk \in Disk => Invalidated \in Disk
BY FixedTypes DEF Invalidated, Disk

\* The initial states have their types.
LEMMA TypeInit == Init => TypeOK
<1> SUFFICES ASSUME Init PROVE TypeOK
  OBVIOUS
<1>1. disk \in Disk
  BY FixedTypes DEF Init, Disk
<1>2. at \in Labels /\ host \in Presenter
  BY FixedTypes DEF Init, Labels
<1>3. wat \in [Workers -> WorkerLabels]
  BY DEF Init, WorkerLabels
<1>4. wstub \in [Workers -> Stubs \union {NoStub}] /\ late \in [Workers -> Nat]
  BY DEF Init
<1>5. trees \in [Stubs -> Tree]
  BY FixedTypes DEF Init
<1>6. contribs \in Seq(Stubs)
  BY DEF Init
<1>7. iters \in Nat /\ entries \in 0 .. MaxEntries
  <2>1. iters = 0 /\ entries = 0
    BY DEF Init
  <2>2. QED
    BY <2>1, Bounds
<1>8. /\ head \in Heads /\ max \in MaxParallel /\ capFlag \in BOOLEAN /\ channel \in BOOLEAN
      /\ todo \subseteq Stubs /\ left \subseteq Stubs /\ settled \subseteq Stubs
      /\ judged \subseteq Stubs /\ gap \in BOOLEAN /\ outcome \in {None, "ok", "error"}
  BY DEF Init
<1>9. QED
  BY <1>1, <1>2, <1>3, <1>4, <1>5, <1>6, <1>7, <1>8 DEF TypeOK, Presenter

\* The end of the threads and of the pool has the types.
LEMMA EndTypes ==
    /\ ThreadsEnd => /\ capFlag' \in BOOLEAN /\ channel' \in BOOLEAN
                     /\ todo' \subseteq Stubs /\ settled' \subseteq Stubs
                     /\ wat' \in [Workers -> WorkerLabels]
                     /\ wstub' \in [Workers -> Stubs \union {NoStub}]
                     /\ late' \in [Workers -> Nat]
    /\ PoolEnds => /\ ThreadsEnd
                   /\ trees' \in [Stubs -> Tree]
                   /\ contribs' \in Seq(Stubs)
<1> USE DEF ThreadsEnd
<1>1. ThreadsEnd => capFlag' \in BOOLEAN /\ channel' \in BOOLEAN
  OBVIOUS
<1>2. ThreadsEnd => todo' \subseteq Stubs /\ settled' \subseteq Stubs
  OBVIOUS
<1>3. ThreadsEnd => wat' \in [Workers -> WorkerLabels]
  BY DEF WorkerLabels
<1>4. ThreadsEnd => wstub' \in [Workers -> Stubs \union {NoStub}]
  OBVIOUS
<1>5. ThreadsEnd => late' \in [Workers -> Nat]
  OBVIOUS
<1>6. PoolEnds => trees' \in [Stubs -> Tree]
  BY FixedTypes DEF PoolEnds
<1>7. PoolEnds => contribs' \in Seq(Stubs)
  BY DEF PoolEnds
<1>8. QED
  BY <1>1, <1>2, <1>3, <1>4, <1>5, <1>6, <1>7 DEF PoolEnds

\* Leaving the step has the types.
LEMMA LeaveTypes ==
    ASSUME NEW label \in Labels, Leave(label)
    PROVE  at' \in Labels /\ left' \subseteq Stubs /\ iters' \in Nat /\ host' \in Presenter
BY FixedTypes DEF Leave

\* Assigning one field of a worker or of a tree keeps the types.
LEMMA AssignTypes ==
    ASSUME TypeOK, NEW w \in Workers
    PROVE  /\ \A label \in WorkerLabels : Moves(w, label) => wat' \in [Workers -> WorkerLabels]
           /\ \A s \in Stubs \union {NoStub} :
                 wstub' = [wstub EXCEPT ![w] = s] => wstub' \in [Workers -> Stubs \union {NoStub}]
           /\ \A s : \A t \in Tree :
                 trees' = [trees EXCEPT ![s] = t] => trees' \in [Stubs -> Tree]
<1> USE DEF TypeOK
<1>1. \A label \in WorkerLabels : Moves(w, label) => wat' \in [Workers -> WorkerLabels]
  BY DEF Moves
<1>2. \A s \in Stubs \union {NoStub} :
         wstub' = [wstub EXCEPT ![w] = s] => wstub' \in [Workers -> Stubs \union {NoStub}]
  OBVIOUS
<1>3. \A s : \A t \in Tree : trees' = [trees EXCEPT ![s] = t] => trees' \in [Stubs -> Tree]
  OBVIOUS
<1>4. QED
  BY <1>1, <1>2, <1>3

\* A worker holds a stub from the pop to the end of its sessions.
Held == \A w \in Workers :
    wat[w] \in {"checkout", "work", "critique", "failed"} <=> wstub[w] \in Stubs

\* A step of a worker keeps the types.
LEMMA TypeWorker ==
    ASSUME TypeOK, Held, NEW w \in Workers, Worker(w)
    PROVE  TypeOK'
<1> USE AssignTypes
<1>0. late \in [Workers -> Nat] /\ trees \in [Stubs -> Tree]
  BY DEF TypeOK
<1>1. disk \in Disk /\ contribs \in Seq(Stubs) /\ todo \subseteq Stubs
  BY DEF TypeOK
<1>2. Fails(w) => /\ wat' \in [Workers -> WorkerLabels]
                  /\ trees' \in [Stubs -> Tree]
                  /\ wstub' \in [Workers -> Stubs \union {NoStub}]
                  /\ settled' \subseteq Stubs
  BY FixedTypes DEF Fails, WorkerLabels, TypeOK
<1>3. wstub[w] \in Stubs /\ Settles(w)
         => /\ wat' \in [Workers -> WorkerLabels]
            /\ wstub' \in [Workers -> Stubs \union {NoStub}]
            /\ settled' \subseteq Stubs
  BY DEF Settles, WorkerLabels, TypeOK
<1>4. Reports => channel' \in BOOLEAN
  BY DEF Reports, TypeOK
<1>5. CASE CheckCap(w)
  <2>1. wat' \in [Workers -> WorkerLabels]
    BY <1>5 DEF CheckCap, WorkerLabels
  <2>2. QED
    BY <1>5, <2>1 DEF CheckCap, TypeOK, ghosts
<1>6. CASE Pop(w)
  <2>1. CASE Moves(w, "done") /\ UNCHANGED <<todo, wstub, late>>
    <3>1. wat' \in [Workers -> WorkerLabels]
      BY <2>1 DEF WorkerLabels
    <3>2. QED
      BY <1>6, <2>1, <3>1 DEF Pop, TypeOK
  <2>2. ASSUME NEW s \in Last(todo),
               Moves(w, IF head = "no git" THEN "work" ELSE "checkout"),
               wstub' = [wstub EXCEPT ![w] = s],
               todo' = todo \ {s},
               late' = [late EXCEPT ![w] = IF capFlag THEN @ + 1 ELSE @]
        PROVE  TypeOK'
    <3>1. s \in Stubs
      BY Chosen DEF TypeOK
    <3>2. wat' \in [Workers -> WorkerLabels]
      BY <2>2 DEF WorkerLabels
    <3>3. wstub' \in [Workers -> Stubs \union {NoStub}]
      BY <2>2, <3>1
    <3>4. todo' \subseteq Stubs
      BY <1>1, <2>2
    <3>5. late' \in [Workers -> Nat]
      <4>1. late[w] \in Nat /\ late[w] + 1 \in Nat
        BY <1>0
      <4>2. QED
        BY <1>0, <2>2, <4>1
    <3>6. UNCHANGED <<disk, head, at, max, host, capFlag, channel, trees, contribs, left, iters,
                      entries, settled, judged, gap, outcome>>
      BY <1>6 DEF Pop
    <3>7. QED
      BY <3>2, <3>3, <3>4, <3>5, <3>6 DEF TypeOK
  <2>3. QED
    BY <1>6, <2>1, <2>2 DEF Pop
<1>7. CASE Checkout(w)
  <2>1. CASE Moves(w, "failed") /\ UNCHANGED trees
    <3>1. wat' \in [Workers -> WorkerLabels]
      BY <2>1 DEF WorkerLabels
    <3>2. QED
      BY <1>7, <2>1, <3>1 DEF Checkout, TypeOK, ghosts
  <2>2. ASSUME Moves(w, "work"),
               trees' = [trees EXCEPT ![wstub[w]] =
                            [there |-> TRUE, detailed |-> FALSE, critique |-> head,
                             fresh |-> FALSE]]
        PROVE  TypeOK'
    <3>1. wat' \in [Workers -> WorkerLabels]
      BY <2>2 DEF WorkerLabels
    <3>2. head \in Verdicts \union {None}
      BY <1>7, PlanDetailWalkAssumption DEF Checkout, TypeOK, Verdicts, None
    <3>3. [there |-> TRUE, detailed |-> FALSE, critique |-> head, fresh |-> FALSE] \in Tree
      BY <3>2 DEF Tree
    <3>4. trees' \in [Stubs -> Tree]
      BY <2>2, <3>3
    <3>5. QED
      BY <1>7, <3>1, <3>4 DEF Checkout, TypeOK, ghosts
  <2>3. QED
    BY <1>7, <2>1, <2>2 DEF Checkout
<1>8. CASE WorkInPlace(w)
  <2>1. wstub[w] \in Stubs
    BY <1>8 DEF WorkInPlace, Held
  <2>2. disk' \in Disk
    <3>1. [disk EXCEPT !.detailed = @ \union {wstub[w]}] \in Disk
      BY <1>1, <2>1 DEF Disk
    <3>2. QED
      BY <1>1, <1>8, <3>1 DEF WorkInPlace
  <2>3. judged' \subseteq Stubs /\ channel' \in BOOLEAN
    BY <1>8, <1>4 DEF WorkInPlace, TypeOK
  <2>4. /\ wat' \in [Workers -> WorkerLabels]
        /\ trees' \in [Stubs -> Tree]
        /\ wstub' \in [Workers -> Stubs \union {NoStub}]
        /\ settled' \subseteq Stubs
    BY <1>8, <1>2, <1>3, <2>1 DEF WorkInPlace, TypeOK
  <2>5. QED
    BY <1>8, <2>2, <2>3, <2>4 DEF WorkInPlace, TypeOK
<1>9. CASE WorkInTree(w)
  <2>1. channel' \in BOOLEAN
    BY <1>9, <1>4 DEF WorkInTree
  <2>2. /\ wat' \in [Workers -> WorkerLabels]
        /\ trees' \in [Stubs -> Tree]
        /\ wstub' \in [Workers -> Stubs \union {NoStub}]
        /\ settled' \subseteq Stubs
    <3>1. CASE Fails(w)
      BY <1>2, <3>1
    <3>2. CASE /\ Moves(w, "critique")
               /\ trees' \in {trees, [trees EXCEPT ![wstub[w]].detailed = TRUE]}
               /\ UNCHANGED <<wstub, settled>>
      <4>1. wat' \in [Workers -> WorkerLabels]
        BY <3>2 DEF WorkerLabels
      <4>2. trees' \in [Stubs -> Tree]
        BY <1>0, <3>2 DEF Tree
      <4>3. QED
        BY <3>2, <4>1, <4>2 DEF TypeOK
    <3>3. QED
      BY <1>9, <3>1, <3>2 DEF WorkInTree
  <2>3. QED
    BY <1>9, <2>1, <2>2 DEF WorkInTree, TypeOK
<1>10. CASE CritiqueOf(w)
  <2>1. wstub[w] \in Stubs
    BY <1>10 DEF CritiqueOf, Held
  <2>2. channel' \in BOOLEAN
    BY <1>10, <1>4 DEF CritiqueOf
  <2>3. /\ wat' \in [Workers -> WorkerLabels]
        /\ wstub' \in [Workers -> Stubs \union {NoStub}]
        /\ settled' \subseteq Stubs
    BY <1>10, <1>2, <1>3, <2>1 DEF CritiqueOf
  <2>4. contribs' \in Seq(Stubs)
    BY <1>1, <1>10, <2>1 DEF CritiqueOf, Fails, Settles
  <2>5. trees' \in [Stubs -> Tree]
    <3>1. CASE Fails(w)
      BY <1>2, <3>1
    <3>2. ASSUME NEW v \in Verdicts \union {None},
                 trees' = IF v = None THEN trees
                          ELSE [trees EXCEPT ![wstub[w]].critique = v, ![wstub[w]].fresh = TRUE]
          PROVE  trees' \in [Stubs -> Tree]
      BY <1>0, <3>2 DEF Tree
    <3>3. QED
      BY <1>10, <3>1, <3>2 DEF CritiqueOf
  <2>6. QED
    BY <1>10, <2>2, <2>3, <2>4, <2>5 DEF CritiqueOf, TypeOK
<1>11. QED
  BY <1>5, <1>6, <1>7, <1>8, <1>9, <1>10 DEF Worker

\* A step outside the workers keeps the types.
LEMMA TypeCoordinator ==
    ASSUME TypeOK, EnterStep \/ GoSerial \/ StartWalk \/ Forward \/ HostLost \/ Join
    PROVE  TypeOK'
<1>0. disk \in Disk /\ host \in Presenter /\ entries \in 0 .. MaxEntries
  BY DEF TypeOK, Presenter
<1>1. CASE EnterStep
  <2>1. entries' \in 0 .. MaxEntries
    <3>1. entries < MaxEntries /\ entries' = entries + 1
      BY <1>1 DEF EnterStep
    <3>2. QED
      BY <1>0, <3>1, Bounds
  <2>2. at' \in Labels
    BY <1>1 DEF EnterStep, Labels
  <2>3. QED
    BY <1>1, <2>1, <2>2 DEF EnterStep, pool, TypeOK
<1>2. CASE GoSerial
  <2>1. disk' \in Disk
    BY <1>0, <1>2, InvalidatedType DEF GoSerial
  <2>2. at' \in Labels /\ gap' \in BOOLEAN
    BY <1>2 DEF GoSerial, Labels
  <2>3. QED
    BY <1>2, <2>1, <2>2 DEF GoSerial, pool, TypeOK
<1>3. CASE StartWalk
  <2>1. disk' \in Disk
    BY <1>0, <1>3, InvalidatedType DEF StartWalk
  <2>2. at' \in Labels /\ gap' \in BOOLEAN
    BY <1>3 DEF StartWalk, Labels
  <2>3. todo' \subseteq Stubs /\ left' \subseteq Stubs
    BY <1>3 DEF StartWalk, Pending
  <2>4. wat' \in [Workers -> WorkerLabels]
    BY <1>3 DEF StartWalk, WorkerLabels
  <2>5. QED
    BY <1>3, <2>1, <2>2, <2>3, <2>4 DEF StartWalk, TypeOK
<1>4. CASE Forward
  <2>1. host' \in Presenter
    BY <1>0, <1>4 DEF Forward, CapTripped, Presenter
  <2>2. QED
    BY <1>4, <2>1 DEF Forward, TypeOK, ghosts, Presenter
<1>5. CASE HostLost
  <2>1. host' \in Presenter
    BY <1>0, <1>5 DEF HostLost, Presenter
  <2>2. QED
    BY <1>5, <2>1 DEF HostLost, TypeOK, pool, ghosts, Presenter
<1>6. CASE Join
  <2>1. CASE PoolFailed
    <3>1. at' \in Labels /\ left' \subseteq Stubs /\ iters' \in Nat /\ host' \in Presenter
      BY <1>6, <2>1, LeaveTypes DEF Join, Labels
    <3>2. PoolEnds /\ outcome' = "error" /\ UNCHANGED <<disk, head, max, entries, judged, gap>>
      BY <1>6, <2>1 DEF Join
    <3>3. QED
      BY <3>1, <3>2, EndTypes DEF TypeOK, Presenter
  <2>2. CASE ~PoolFailed
    <3>1. /\ outcome' = "ok"
          /\ UNCHANGED <<host, left, iters, head, max, entries, judged, gap>>
      BY <1>6, <2>2 DEF Join
    <3>2. CASE head = "no git"
      <4>1. disk' = [disk EXCEPT !.dir = TRUE] /\ at' = "critiques" /\ PoolEnds
        BY <1>6, <2>2, <3>2 DEF Join
      <4>2. disk' \in Disk /\ at' \in Labels
        BY <1>0, <4>1 DEF Disk, Labels
      <4>3. QED
        BY <3>1, <4>1, <4>2, EndTypes DEF TypeOK
    <3>3. CASE head # "no git"
      <4>1. at' = "merging" /\ ThreadsEnd /\ UNCHANGED <<disk, trees, contribs>>
        BY <1>6, <2>2, <3>3 DEF Join
      <4>2. at' \in Labels
        BY <4>1 DEF Labels
      <4>3. QED
        BY <3>1, <4>1, <4>2, EndTypes DEF TypeOK
    <3>4. QED
      BY <3>2, <3>3
  <2>3. QED
    BY <2>1, <2>2
<1>7. QED
  BY <1>1, <1>2, <1>3, <1>4, <1>5, <1>6

\* A step after the pool, of the serial path or at the end keeps the types.
LEMMA TypeRest ==
    ASSUME TypeOK,
           \/ Merge \/ MergeDone \/ WalkCritique \/ WalkCritiquesDone \/ WalkEnds
           \/ SerialWork \/ SerialCritique \/ SerialJudge \/ LoopEnds \/ Kill
    PROVE  TypeOK'
<1>0. disk \in Disk /\ host \in Presenter /\ iters \in Nat
  BY DEF TypeOK, Presenter
<1>1. trees \in [Stubs -> Tree] /\ contribs \in Seq(Stubs) /\ judged \subseteq Stubs
  BY DEF TypeOK
<1>2. \A S \in SUBSET Stubs : \A v : Judge(S, v) \subseteq Stubs
  BY <1>1 DEF Judge
<1>3. CASE Merge
  <2> DEFINE s == Head(contribs)
             t == trees[s]
  <2>1. s \in Stubs /\ Tail(contribs) \in Seq(Stubs)
    BY <1>1, <1>3 DEF Merge
  <2>2. t \in Tree
    BY <1>1, <2>1
  <2> HIDE DEF s, t
  <2>3. disk' \in Disk
    <3>1. disk' = Merged(disk, s, t)
      BY <1>3 DEF Merge, s, t
    <3>2. [disk EXCEPT !.detailed = IF t.detailed THEN @ \union {s} ELSE @] \in Disk
      BY <1>0, <2>1 DEF Disk
    <3>3. \A d \in Disk : t.critique \in Verdicts
            => [d EXCEPT !.dir = TRUE, !.shards[s] = t.critique] \in Disk
      BY <2>1 DEF Disk
    <3>4. t.critique \in {None, "malformed"} \/ t.critique \in Verdicts
      BY <2>2 DEF Tree
    <3>5. QED
      BY <3>1, <3>2, <3>3, <3>4 DEF Merged
  <2>4. judged' \subseteq Stubs
    BY <1>2, <1>3, <2>1 DEF Merge, s
  <2>5. gap' \in BOOLEAN
    BY <1>3 DEF Merge
  <2>6. UNCHANGED <<head, max, capFlag, todo, wat, wstub, channel, entries, settled, late, outcome>>
    BY <1>3 DEF Merge
  <2>7. CASE Leave("idle") /\ trees' = NoTrees /\ contribs' = <<>>
    <3>1. at' \in Labels /\ left' \subseteq Stubs /\ iters' \in Nat /\ host' \in Presenter
      BY <2>7, LeaveTypes DEF Labels
    <3>2. trees' \in [Stubs -> Tree] /\ contribs' \in Seq(Stubs)
      BY <2>7, FixedTypes
    <3>3. QED
      BY <2>3, <2>4, <2>5, <2>6, <3>1, <3>2 DEF TypeOK, Presenter
  <2>8. CASE contribs' = Tail(contribs) /\ UNCHANGED <<at, host, left, iters, trees>>
    BY <2>1, <2>3, <2>4, <2>5, <2>6, <2>8 DEF TypeOK
  <2>9. QED
    BY <1>3, <2>7, <2>8 DEF Merge
<1>4. CASE MergeDone
  <2>1. trees' \in [Stubs -> Tree] /\ at' \in Labels
    BY <1>4, FixedTypes DEF MergeDone, Labels
  <2>2. QED
    BY <1>4, <2>1 DEF MergeDone, TypeOK, ghosts
<1>5. CASE WalkCritique
  <2>1. UNCHANGED <<head, max, pool, entries, settled, late, outcome>>
    BY <1>5 DEF WalkCritique
  <2>2. CASE Leave("idle") /\ UNCHANGED <<disk, judged, gap>>
    <3>1. at' \in Labels /\ left' \subseteq Stubs /\ iters' \in Nat /\ host' \in Presenter
      BY <2>2, LeaveTypes DEF Labels
    <3>2. QED
      BY <2>1, <2>2, <3>1 DEF TypeOK, Presenter, pool
  <2>3. ASSUME NEW s \in First(left), NEW v \in Verdicts \union {None}, NEW cap \in BOOLEAN,
               disk' = IF v = None THEN disk ELSE [disk EXCEPT !.shards[s] = v],
               judged' = Judge({s}, v), gap' = (gap \/ v = None), left' = left \ {s},
               host' = [host EXCEPT !.cap = cap], UNCHANGED <<at, iters>>
        PROVE  TypeOK'
    <3>1. s \in Stubs
      BY Chosen DEF TypeOK
    <3>2. disk' \in Disk
      BY <1>0, <2>3, <3>1 DEF Disk
    <3>3. judged' \subseteq Stubs /\ left' \subseteq Stubs /\ gap' \in BOOLEAN
      BY <1>2, <2>3, <3>1 DEF TypeOK
    <3>4. host' \in Presenter
      BY <1>0, <2>3 DEF Presenter
    <3>5. QED
      BY <2>1, <2>3, <3>2, <3>3, <3>4 DEF TypeOK, Presenter, pool
  <2>4. QED
    BY <1>5, <2>2, <2>3 DEF WalkCritique
<1>6. CASE WalkCritiquesDone
  BY <1>6 DEF WalkCritiquesDone, TypeOK, Labels, pool, ghosts
<1>7. CASE WalkEnds
  <2>1. at' \in Labels /\ left' \subseteq Stubs /\ iters' \in Nat /\ host' \in Presenter
    BY <1>7, LeaveTypes DEF WalkEnds, Labels
  <2>2. QED
    BY <1>7, <2>1 DEF WalkEnds, TypeOK, Presenter, pool, ghosts
<1>8. CASE SerialWork
  <2>1. WorkTarget \subseteq Stubs
    BY <1>0, Chosen DEF WorkTarget, Pending, Disk
  <2>2. \A s \in Stubs, done \in BOOLEAN :
           [disk EXCEPT !.detailed = IF done THEN @ \union {s} ELSE @] \in Disk
    BY <1>0 DEF Disk
  <2>3. disk' \in Disk /\ judged' \subseteq Stubs
    BY <1>0, <1>1, <1>8, <2>1, <2>2 DEF SerialWork
  <2>4. at' \in Labels
    BY <1>8 DEF SerialWork, Labels
  <2>5. UNCHANGED <<head, max, host, pool, left, iters, entries, settled, gap, late, outcome>>
    BY <1>8 DEF SerialWork
  <2>6. QED
    BY <2>3, <2>4, <2>5 DEF TypeOK, pool
<1>9. CASE SerialCritique
  <2>1. Last(disk.detailed) \subseteq Stubs
    BY <1>0, Chosen DEF Disk
  <2>2. \A v \in Verdicts \union {None} :
           [disk EXCEPT !.legacy = IF v = None THEN @ ELSE v] \in Disk
    BY <1>0 DEF Disk
  <2>3. disk' \in Disk /\ judged' \subseteq Stubs
    BY <1>1, <1>2, <1>9, <2>1, <2>2 DEF SerialCritique
  <2>4. at' \in Labels
    BY <1>9 DEF SerialCritique, Labels
  <2>5. UNCHANGED <<head, max, host, pool, left, iters, entries, settled, gap, late, outcome>>
    BY <1>9 DEF SerialCritique
  <2>6. QED
    BY <2>3, <2>4, <2>5 DEF TypeOK, pool
<1>10. CASE SerialJudge
  <2>1. at' \in Labels /\ left' \subseteq Stubs /\ iters' \in Nat /\ host' \in Presenter
    <3>1. Leave("idle") \/ Leave("advanced") \/ (at' = "entered" /\ iters' \in Nat /\ UNCHANGED <<host, left>>)
      BY <1>0, <1>10 DEF SerialJudge
    <3>2. "idle" \in Labels /\ "advanced" \in Labels /\ "entered" \in Labels
      BY DEF Labels
    <3>3. left \subseteq Stubs
      BY DEF TypeOK
    <3>4. QED
      BY <1>0, <3>1, <3>2, <3>3, LeaveTypes
  <2>2. UNCHANGED <<disk, head, max, pool, entries, ghosts>>
    BY <1>10 DEF SerialJudge
  <2>3. QED
    BY <2>1, <2>2 DEF TypeOK, Presenter, pool, ghosts
<1>11. CASE LoopEnds
  <2>1. at' \in Labels /\ left' \subseteq Stubs /\ iters' \in Nat /\ host' \in Presenter
    BY <1>11, LeaveTypes DEF LoopEnds, Labels
  <2>2. trees' \in [Stubs -> Tree] /\ contribs' \in Seq(Stubs)
    BY <1>11, FixedTypes DEF LoopEnds
  <2>3. QED
    BY <1>11, <2>1, <2>2 DEF LoopEnds, TypeOK, Presenter, ghosts
<1>12. CASE Kill
  <2>1. at' \in Labels /\ left' \subseteq Stubs /\ iters' \in Nat /\ host' \in Presenter
    BY <1>12, LeaveTypes DEF Kill, Labels
  <2>2. QED
    BY <1>12, <2>1, EndTypes DEF Kill, TypeOK, Presenter
<1>13. QED
  BY <1>3, <1>4, <1>5, <1>6, <1>7, <1>8, <1>9, <1>10, <1>11, <1>12

(***************************************************************************)
(* The pool: who holds which stub, and what every thread has seen.         *)
(***************************************************************************)

\* Outside a walk there is no thread and nothing to take.
Quiet == at # "walking" =>
    /\ \A w \in Workers : wat[w] = "off"
    /\ todo = {} /\ settled = {} /\ capFlag = FALSE

\* A stub that is held is not in the queue, and no two workers hold it.
Distinct == \A v, w \in Workers :
    wstub[w] \in Stubs => wstub[w] \notin todo /\ (v # w => wstub[v] # wstub[w])

\* A worker ends because the queue was empty or the cap was out.
DoneSeen == \A w \in Workers : wat[w] = "done" => capFlag \/ todo = {}

Staffed == at = "walking" => \E w \in Workers : wat[w] # "off"

\* A stub taken late is the worker's last: the next look at the flag ends it.
LastTake == \A w \in Workers :
    /\ late[w] <= 1
    /\ late[w] = 1 => capFlag /\ wat[w] # "pop"

PoolInv == Held /\ Quiet /\ Distinct /\ DoneSeen /\ Staffed /\ LastTake

\* No milestone has the number that stands for no stub.
LEMMA NoStubFact == NoStub \notin Stubs
BY Bounds DEF NoStub, Stubs

\* The initial states satisfy the invariant of the pool.
LEMMA PoolInit == Init => PoolInv
BY NoStubFact DEF Init, PoolInv, Held, Quiet, Distinct, DoneSeen, Staffed, LastTake

\* The end of the threads satisfies it, in any position but the walk.
LEMMA PoolAtEnd == ASSUME ThreadsEnd, at' # "walking" PROVE PoolInv'
BY NoStubFact
   DEF ThreadsEnd, PoolInv, Held, Quiet, Distinct, DoneSeen, Staffed, LastTake

\* A step that leaves the pool alone and does not start or end a walk keeps it.
LEMMA PoolFrame ==
    ASSUME PoolInv, UNCHANGED <<capFlag, todo, wat, wstub, settled, late>>,
           at = "walking" <=> at' = "walking"
    PROVE  PoolInv'
BY DEF PoolInv, Held, Quiet, Distinct, DoneSeen, Staffed, LastTake

\* The walk starts with a pool of at least one worker, none of them holding a stub.
LEMMA PoolStart == ASSUME TypeOK, PoolInv, StartWalk PROVE PoolInv'
<1>0. wat' = [w \in Workers |-> IF w <= PoolSize THEN "check" ELSE "off"]
  BY DEF StartWalk
<1>1. at = "entered" /\ at' = "walking" /\ UNCHANGED <<wstub, capFlag, settled, late>>
  BY DEF StartWalk
<1>2. \A w \in Workers : wstub[w] \notin Stubs /\ late[w] <= 1 /\ late[w] # 1
  BY <1>1 DEF PoolInv, Held, Quiet, LastTake
<1>3. \A w \in Workers : wat'[w] \in {"check", "off"}
  BY <1>0
<1>4. \E w \in Workers : wat'[w] # "off"
  <2>1. PoolSize >= 1 /\ Cardinality(Stubs) \in Nat /\ Stubs # {}
    <3>1. IsFiniteSet(Stubs) /\ Pending \subseteq Stubs
      BY Bounds, FS_Interval DEF Stubs, Pending
    <3>2. Cardinality(Pending) \in Nat /\ Cardinality(Stubs) \in Nat
      BY <3>1, FS_Subset, FS_CardinalityType
    <3>3. Cardinality(Pending) >= 2 /\ max # 1 /\ max \in Nat
      BY PlanDetailWalkAssumption DEF StartWalk, TypeOK
    <3>4. Stubs # {}
      BY <3>1, <3>2, <3>3, FS_EmptySet
    <3>5. QED
      BY <3>2, <3>3, <3>4 DEF PoolSize
  <2>2. 1 \in Workers
    BY <2>1, Bounds DEF Stubs, Workers
  <2>3. wat'[1] = "check"
    BY <1>0, <2>1, <2>2
  <2>4. QED
    BY <2>2, <2>3
<1>5. QED
  BY <1>1, <1>2, <1>3, <1>4 DEF PoolInv, Held, Quiet, Distinct, DoneSeen, Staffed, LastTake

\* A step of a worker keeps the invariant of the pool.
LEMMA PoolWorker ==
    ASSUME TypeOK, PoolInv, NEW w \in Workers, Worker(w)
    PROVE  PoolInv'
<1>0. wat \in [Workers -> WorkerLabels] /\ wstub \in [Workers -> Stubs \union {NoStub}]
  BY DEF TypeOK
<1>1. at = "walking" /\ at' = "walking" /\ UNCHANGED capFlag
  BY DEF Worker, CheckCap, Pop, Checkout, WorkInPlace, WorkInTree, CritiqueOf
<1>2. \A label : Moves(w, label) => \A v \in Workers : wat'[v] = IF v = w THEN label ELSE wat[v]
  BY <1>0 DEF Moves
<1> USE <1>1, NoStubFact DEF PoolInv, Held, Quiet, Distinct, DoneSeen, Staffed, LastTake
<1>3. CASE CheckCap(w)
  <2>1. UNCHANGED <<todo, wstub, late>> /\ wat[w] = "check"
    BY <1>3 DEF CheckCap, ghosts
  <2>2. \A v \in Workers : wat'[v] = IF v = w THEN (IF capFlag THEN "done" ELSE "pop") ELSE wat[v]
    BY <1>2, <1>3 DEF CheckCap
  <2>3. QED
    BY <2>1, <2>2
<1>4. CASE Pop(w)
  <2>1. CASE todo = {} /\ Moves(w, "done") /\ UNCHANGED <<todo, wstub, late>>
    <3>1. \A v \in Workers : wat'[v] = IF v = w THEN "done" ELSE wat[v]
      BY <1>2, <2>1
    <3>2. wat[w] = "pop"
      BY <1>4 DEF Pop
    <3>3. QED
      BY <2>1, <3>1, <3>2
  <2>2. ASSUME NEW s \in Last(todo),
               Moves(w, IF head = "no git" THEN "work" ELSE "checkout"),
               wstub' = [wstub EXCEPT ![w] = s],
               todo' = todo \ {s},
               late' = [late EXCEPT ![w] = IF capFlag THEN @ + 1 ELSE @]
        PROVE  PoolInv'
    <3>1. s \in todo /\ s \in Stubs
      BY Chosen DEF TypeOK
    <3>2. wat[w] = "pop" /\ wstub[w] \notin Stubs
      BY <1>4 DEF Pop
    <3>3. \A v \in Workers : wat'[v] = IF v = w THEN (IF head = "no git" THEN "work" ELSE "checkout")
                                        ELSE wat[v]
      BY <1>2, <2>2
    <3>4. \A v \in Workers : wstub'[v] = IF v = w THEN s ELSE wstub[v]
      BY <1>0, <2>2
    <3>5. Held' /\ Quiet' /\ Staffed' /\ DoneSeen'
      BY <2>2, <3>1, <3>2, <3>3, <3>4
    <3>6. Distinct'
      <4> SUFFICES ASSUME NEW u \in Workers, NEW v \in Workers, wstub'[v] \in Stubs
                   PROVE  wstub'[v] \notin todo' /\ (u # v => wstub'[u] # wstub'[v])
        OBVIOUS
      <4>0. todo' = todo \ {s}
        BY <2>2
      <4>1. \A x \in Workers \ {w} : wstub'[x] = wstub[x] /\ wstub[x] # s
        BY <3>1, <3>4
      <4>2. wstub'[w] = s
        BY <3>4
      <4>3. CASE v = w
        BY <4>0, <3>1, <4>1, <4>2, <4>3
      <4>4. CASE v # w
        <5>1. wstub'[v] = wstub[v] /\ wstub[v] \in Stubs /\ wstub[v] # s
          BY <4>1, <4>4
        <5>2. wstub[v] \notin todo /\ (u # v => wstub[u] # wstub[v])
          BY <5>1
        <5>3. wstub'[u] = wstub[u] \/ wstub'[u] = s
          BY <4>1, <4>2
        <5>4. QED
          BY <4>0, <5>1, <5>2, <5>3
      <4>5. QED
        BY <4>3, <4>4
    <3>7. LastTake'
      <4>1. late[w] \in Nat /\ late \in [Workers -> Nat]
        BY DEF TypeOK
      <4>2. late[w] = 0
        BY <3>2, <4>1
      <4>3. CASE capFlag
        <5>1. late' = [late EXCEPT ![w] = late[w] + 1]
          BY <2>2, <4>3
        <5>2. \A v \in Workers : late'[v] = IF v = w THEN 1 ELSE late[v]
          BY <4>1, <4>2, <5>1
        <5>3. \A v \in Workers : late'[v] <= 1
          BY <5>2
        <5>4. \A v \in Workers : wat'[v] # "pop" \/ (v # w /\ wat[v] = "pop")
          BY <3>3
        <5>5. \A v \in Workers : late'[v] = 1 => wat'[v] # "pop"
          BY <5>2, <5>4
        <5>6. QED
          BY <4>3, <5>3, <5>5
      <4>4. CASE ~capFlag
        <5>1. late' = late
          BY <2>2, <4>1, <4>4
        <5>2. QED
          BY <3>3, <4>4, <5>1
      <4>5. QED
        BY <4>3, <4>4
    <3>8. QED
      BY <3>5, <3>6, <3>7
  <2>3. QED
    BY <1>4, <2>1, <2>2 DEF Pop
<1>5. CASE Checkout(w)
  <2>1. UNCHANGED <<todo, wstub, late>> /\ wat[w] = "checkout"
    BY <1>5 DEF Checkout, ghosts
  <2>2. \E label \in {"work", "failed"} :
           \A v \in Workers : wat'[v] = IF v = w THEN label ELSE wat[v]
    BY <1>2, <1>5 DEF Checkout
  <2>3. QED
    BY <2>1, <2>2
<1>6. ASSUME Fails(w), UNCHANGED <<todo, late>>, wat[w] \in {"work", "critique"}
      PROVE  PoolInv'
  <2>1. \A v \in Workers : wat'[v] = IF v = w THEN "failed" ELSE wat[v]
    BY <1>2, <1>6 DEF Fails
  <2>2. UNCHANGED wstub
    BY <1>6 DEF Fails
  <2>3. QED
    BY <1>6, <2>1, <2>2
<1>7. ASSUME Settles(w), UNCHANGED <<todo, late>>, wat[w] \in {"work", "critique"}
      PROVE  PoolInv'
  <2>1. \A v \in Workers : wat'[v] = IF v = w THEN "check" ELSE wat[v]
    BY <1>2, <1>7 DEF Settles
  <2>2. \A v \in Workers : wstub'[v] = IF v = w THEN NoStub ELSE wstub[v]
    BY <1>0, <1>7 DEF Settles
  <2>3. QED
    BY <1>7, <2>1, <2>2
<1>8. CASE WorkInPlace(w)
  BY <1>6, <1>7, <1>8 DEF WorkInPlace
<1>9. CASE WorkInTree(w)
  <2>1. UNCHANGED <<todo, late>> /\ wat[w] = "work"
    BY <1>9 DEF WorkInTree
  <2>2. CASE Moves(w, "critique") /\ UNCHANGED wstub
    <3>1. \A v \in Workers : wat'[v] = IF v = w THEN "critique" ELSE wat[v]
      BY <1>2, <2>2
    <3>2. QED
      BY <2>1, <2>2, <3>1
  <2>3. QED
    BY <1>6, <1>9, <2>1, <2>2 DEF WorkInTree
<1>10. CASE CritiqueOf(w)
  BY <1>6, <1>7, <1>10 DEF CritiqueOf
<1>11. QED
  BY <1>3, <1>4, <1>5, <1>8, <1>9, <1>10 DEF Worker

\* Every step keeps the types and the invariant of the pool.
LEMMA PoolStep == TypeOK /\ PoolInv /\ [Next]_vars => TypeOK' /\ PoolInv'
<1> SUFFICES ASSUME TypeOK, PoolInv, [Next]_vars PROVE TypeOK' /\ PoolInv'
  OBVIOUS
<1>1. CASE EnterStep
  BY <1>1, TypeCoordinator, PoolFrame DEF EnterStep, pool
<1>2. CASE GoSerial
  BY <1>2, TypeCoordinator, PoolFrame DEF GoSerial, pool
<1>3. CASE StartWalk
  BY <1>3, TypeCoordinator, PoolStart
<1>4. CASE Forward
  <2>1. UNCHANGED <<todo, wat, wstub, settled, late, at>> /\ capFlag' /\ at = "walking"
    BY <1>4 DEF Forward, ghosts
  <2>2. PoolInv'
    BY <2>1 DEF PoolInv, Held, Quiet, Distinct, DoneSeen, Staffed, LastTake
  <2>3. QED
    BY <1>4, <2>2, TypeCoordinator
<1>5. CASE HostLost
  BY <1>5, TypeCoordinator, PoolFrame DEF HostLost, pool, ghosts
<1>6. CASE Join
  <2>1. ThreadsEnd /\ at' # "walking"
    BY <1>6 DEF Join, PoolEnds, Leave
  <2>2. QED
    BY <1>6, <2>1, TypeCoordinator, PoolAtEnd
<1>7. CASE Merge \/ MergeDone
  <2>1. /\ UNCHANGED <<capFlag, todo, wat, wstub, settled, late>>
        /\ at # "walking" /\ at' # "walking"
    BY <1>7 DEF Merge, MergeDone, Leave, ghosts
  <2>2. QED
    BY <1>7, <2>1, TypeRest, PoolFrame
<1>8. CASE WalkCritique \/ WalkCritiquesDone \/ WalkEnds
  <2>1. /\ UNCHANGED <<capFlag, todo, wat, wstub, settled, late>>
        /\ at # "walking" /\ at' # "walking"
    BY <1>8 DEF WalkCritique, WalkCritiquesDone, WalkEnds, Leave, pool, ghosts
  <2>2. QED
    BY <1>8, <2>1, TypeRest, PoolFrame
<1>9. CASE SerialWork \/ SerialCritique \/ SerialJudge \/ LoopEnds
  <2>1. /\ UNCHANGED <<capFlag, todo, wat, wstub, settled, late>>
        /\ at # "walking" /\ at' # "walking"
    BY <1>9 DEF SerialWork, SerialCritique, SerialJudge, LoopEnds, Leave, pool, ghosts
  <2>2. QED
    BY <1>9, <2>1, TypeRest, PoolFrame
<1>10. CASE Kill
  <2>1. ThreadsEnd /\ at' # "walking"
    BY <1>10 DEF Kill, PoolEnds, Leave
  <2>2. QED
    BY <1>10, <2>1, TypeRest, PoolAtEnd
<1>11. ASSUME NEW w \in Workers, Worker(w) PROVE TypeOK' /\ PoolInv'
  BY <1>11, TypeWorker, PoolWorker DEF PoolInv
<1>12. CASE UNCHANGED vars
  <2>1. TypeOK'
    BY <1>12 DEF TypeOK, vars, pool, ghosts
  <2>2. QED
    BY <1>12, <2>1, PoolFrame DEF vars, pool, ghosts
<1>13. QED
  BY <1>1, <1>2, <1>3, <1>4, <1>5, <1>6, <1>7, <1>8, <1>9, <1>10, <1>11, <1>12 DEF Next, Loop

\* The specification keeps its types and the invariant of the pool.
THEOREM TypeCorrect == Spec => []TypeOK
<1>1. Spec => [](TypeOK /\ PoolInv)
  BY TypeInit, PoolInit, PoolStep, PTL DEF Spec
<1>2. QED
  BY <1>1, PTL

\* After the cap is out a worker takes at most one more stub: between the look
\* at the flag and the pop nothing stops it.
THEOREM CapIsPrompt == Spec => []CapReachesWorkers
<1>1. Spec => [](TypeOK /\ PoolInv)
  BY TypeInit, PoolInit, PoolStep, PTL DEF Spec
<1>2. PoolInv => CapReachesWorkers
  BY DEF PoolInv, LastTake, CapReachesWorkers
<1>3. QED
  BY <1>1, <1>2, PTL

(***************************************************************************)
(* The walk implements StubPool.                                           *)
(***************************************************************************)

\* The stubs that are held, as StubPool sees them.
Doing == {wstub[w] : w \in Workers} \ {NoStub}

\* The loop has no result of a pool before its walk.
Undecided == at \in {"entered", "walking", "work", "critique", "judge"} => outcome = None

\* The initial states and every step keep it.
LEMMA UndecidedStep ==
    /\ Init => Undecided
    /\ Undecided /\ [Next]_vars => Undecided'
<1>1. Init => Undecided
  BY DEF Init, Undecided
<1> SUFFICES ASSUME Undecided, [Next]_vars PROVE Undecided'
  BY <1>1
<1> USE DEF Undecided
<1>2. CASE EnterStep
  BY <1>2 DEF EnterStep
<1>3. CASE GoSerial \/ StartWalk \/ Forward \/ HostLost
  BY <1>3 DEF GoSerial, StartWalk, Forward, HostLost, ghosts
<1>4. CASE Join \/ Merge \/ MergeDone
  BY <1>4 DEF Join, Merge, MergeDone, Leave, ghosts
<1>5. CASE WalkCritique \/ WalkCritiquesDone \/ WalkEnds
  BY <1>5 DEF WalkCritique, WalkCritiquesDone, WalkEnds, Leave, ghosts
<1>6. CASE SerialWork \/ SerialCritique \/ SerialJudge
  BY <1>6 DEF SerialWork, SerialCritique, SerialJudge, Leave, ghosts
<1>7. CASE LoopEnds \/ Kill
  BY <1>7 DEF LoopEnds, Kill, Leave
<1>8. ASSUME NEW w \in Workers, Worker(w) PROVE Undecided'
  <2>1. UNCHANGED <<at, outcome>>
    BY <1>8 DEF Worker, CheckCap, Pop, Checkout, WorkInPlace, WorkInTree, CritiqueOf, ghosts
  <2>2. QED
    BY <2>1
<1>9. CASE UNCHANGED vars
  BY <1>9 DEF vars, ghosts
<1>10. QED
  BY <1>2, <1>3, <1>4, <1>5, <1>6, <1>7, <1>8, <1>9 DEF Next, Loop

\* A step that leaves the variables of the pool alone is a stutter of StubPool.
LEMMA PoolStutter ==
    ASSUME UNCHANGED <<todo, wstub, settled, capFlag, outcome>>
    PROVE  UNCHANGED Pool!vars
BY DEF Pool!vars

\* Without a thread nothing is held, and the pool of StubPool is closed.
LEMMA ClosedPool ==
    /\ TypeOK /\ PoolInv /\ at # "walking" => Pool!Closed
    /\ ThreadsEnd => Pool!Closed'
<1>1. ASSUME TypeOK, PoolInv, at # "walking" PROVE Pool!Closed
  <2>1. \A w \in Workers : wstub[w] = NoStub
    BY <1>1 DEF TypeOK, PoolInv, Held, Quiet
  <2>2. QED
    BY <1>1, <2>1 DEF Pool!Closed, PoolInv, Quiet
<1>2. ASSUME ThreadsEnd PROVE Pool!Closed'
  BY <1>2 DEF ThreadsEnd, Pool!Closed
<1>3. QED
  BY <1>1, <1>2

\* The initial states are initial states of StubPool.
LEMMA PoolRefinesInit == Init => Pool!Init
BY DEF Init, Pool!Init, Pool!Closed, None

\* A step of a worker is a take, a settlement or nothing at all.
LEMMA PoolRefinesWorker ==
    ASSUME TypeOK, PoolInv, NEW w \in Workers, Worker(w)
    PROVE  [Pool!Next]_(Pool!vars)
<1>0. wstub \in [Workers -> Stubs \union {NoStub}] /\ NoStub \notin Stubs
  BY NoStubFact DEF TypeOK
<1>1. UNCHANGED <<capFlag, outcome>>
  BY DEF Worker, CheckCap, Pop, Checkout, WorkInPlace, WorkInTree, CritiqueOf, ghosts
<1>2. CASE UNCHANGED <<todo, wstub, settled>>
  BY <1>1, <1>2, PoolStutter
<1>3. ASSUME NEW s \in Last(todo), wat[w] = "pop", wstub' = [wstub EXCEPT ![w] = s],
             todo' = todo \ {s}, UNCHANGED settled
      PROVE  [Pool!Next]_(Pool!vars)
  <2>1. s \in todo /\ s \in Stubs
    BY Chosen DEF TypeOK
  <2>2. wstub[w] = NoStub
    BY <1>0, <1>3 DEF PoolInv, Held
  <2>3. \A v \in Workers : wstub'[v] = IF v = w THEN s ELSE wstub[v]
    BY <1>0, <1>3
  <2>4. Doing' = Doing \union {s}
    BY <1>0, <2>1, <2>2, <2>3 DEF Doing
  <2>5. Pool!Take(s)
    BY <1>1, <1>3, <2>1, <2>4 DEF Pool!Take, Doing
  <2>6. QED
    BY <2>1, <2>5 DEF Pool!Next
<1>4. ASSUME wat[w] \in {"work", "critique"}, Settles(w), UNCHANGED todo
      PROVE  [Pool!Next]_(Pool!vars)
  <2>1. PICK held \in Stubs : held = wstub[w]
    BY <1>4 DEF PoolInv, Held
  <2>2. \A v \in Workers : wstub'[v] = IF v = w THEN NoStub ELSE wstub[v]
    BY <1>0, <1>4 DEF Settles
  <2>3. \A v \in Workers \ {w} : wstub[v] # held
    BY <2>1 DEF PoolInv, Distinct
  <2>4. Doing' = Doing \ {held} /\ held \in Doing
    BY <1>0, <2>1, <2>2, <2>3 DEF Doing
  <2>5. settled' = settled \union {held}
    BY <1>4, <2>1 DEF Settles
  <2>6. Pool!Settle(held)
    BY <1>1, <1>4, <2>4, <2>5 DEF Pool!Settle, Doing
  <2>7. QED
    BY <2>1, <2>6 DEF Pool!Next
<1>5. CASE CheckCap(w) \/ Checkout(w)
  BY <1>2, <1>5 DEF CheckCap, Checkout, ghosts
<1>6. CASE Pop(w)
  BY <1>2, <1>3, <1>6 DEF Pop
<1>7. CASE WorkInPlace(w)
  BY <1>2, <1>4, <1>7 DEF WorkInPlace, Fails
<1>8. CASE WorkInTree(w)
  BY <1>2, <1>8 DEF WorkInTree, Fails
<1>9. CASE CritiqueOf(w)
  BY <1>2, <1>4, <1>9 DEF CritiqueOf, Fails
<1>10. QED
  BY <1>5, <1>6, <1>7, <1>8, <1>9 DEF Worker

\* The end of the walk closes the pool: well only when every thread found the
\* queue empty or the cap out and none failed.
LEMMA PoolRefinesJoin ==
    ASSUME TypeOK, PoolInv, Join
    PROVE  Pool!Next
<1>1. at = "walking" /\ PoolDrained
  BY DEF Join
<1>2. Pool!Closed'
  BY ClosedPool DEF Join, PoolEnds
<1>3. CASE PoolFailed
  BY <1>2, <1>3 DEF Join, Pool!Next, Pool!CloseBadly
<1>4. CASE ~PoolFailed
  <2>1. \A w \in Workers : wat[w] \in {"off", "done"}
    BY <1>1, <1>4 DEF PoolDrained, PoolFailed
  <2>2. Doing = {}
    BY <2>1 DEF TypeOK, PoolInv, Held, Doing
  <2>3. \E w \in Workers : wat[w] = "done"
    BY <1>1, <2>1 DEF PoolInv, Staffed
  <2>4. todo = {} \/ capFlag
    BY <2>3 DEF PoolInv, DoneSeen
  <2>5. outcome' = "ok"
    BY <1>4 DEF Join
  <2>6. Pool!CloseWell
    BY <1>2, <2>2, <2>4, <2>5 DEF Pool!CloseWell, Doing
  <2>7. QED
    BY <2>6 DEF Pool!Next
<1>5. QED
  BY <1>3, <1>4

\* Every step is a step of StubPool or none.
LEMMA PoolRefinesStep ==
    ASSUME TypeOK, PoolInv, Undecided, [Next]_vars
    PROVE  [Pool!Next]_(Pool!vars)
<1>1. CASE EnterStep
  <2>1. Pool!Closed /\ UNCHANGED <<todo, wstub, settled, capFlag>>
    BY <1>1, ClosedPool DEF EnterStep, pool
  <2>2. todo' = {} /\ outcome' = "none"
    BY <1>1, <2>1 DEF EnterStep, Pool!Closed, None
  <2>3. Pool!Open({})
    BY <2>1, <2>2 DEF Pool!Open
  <2>4. QED
    BY <2>3 DEF Pool!Next
<1>2. CASE StartWalk
  <2>1. Pool!Closed /\ UNCHANGED <<wstub, settled, capFlag, outcome>> /\ outcome = "none"
    BY <1>2, ClosedPool DEF StartWalk, Undecided, None
  <2>2. todo' = Pending /\ Pending \in SUBSET Stubs
    BY <1>2 DEF StartWalk, Pending
  <2>3. Pool!Open(Pending)
    BY <2>1, <2>2 DEF Pool!Open
  <2>4. QED
    BY <2>2, <2>3 DEF Pool!Next
<1>3. CASE Forward
  <2>1. capFlag' = TRUE /\ UNCHANGED <<todo, wstub, settled, outcome>>
    BY <1>3 DEF Forward, ghosts
  <2>2. Pool!Cap
    BY <2>1 DEF Pool!Cap
  <2>3. QED
    BY <2>2 DEF Pool!Next
<1>4. CASE Join
  BY <1>4, PoolRefinesJoin
<1>5. CASE Kill
  <2>1. Pool!Closed' /\ outcome' = "error"
    BY <1>5, ClosedPool DEF Kill, PoolEnds
  <2>2. QED
    BY <2>1 DEF Pool!Next, Pool!CloseBadly
<1>6. ASSUME NEW w \in Workers, Worker(w) PROVE [Pool!Next]_(Pool!vars)
  BY <1>6, PoolRefinesWorker
<1>7. CASE GoSerial \/ HostLost \/ Merge \/ MergeDone
  BY <1>7, PoolStutter DEF GoSerial, HostLost, Merge, MergeDone, pool, ghosts
<1>8. CASE WalkCritique \/ WalkCritiquesDone \/ WalkEnds
  BY <1>8, PoolStutter DEF WalkCritique, WalkCritiquesDone, WalkEnds, pool, ghosts
<1>9. CASE SerialWork \/ SerialCritique \/ SerialJudge \/ LoopEnds
  BY <1>9, PoolStutter DEF SerialWork, SerialCritique, SerialJudge, LoopEnds, pool, ghosts
<1>10. CASE UNCHANGED vars
  BY <1>10, PoolStutter DEF vars, pool, ghosts
<1>11. QED
  BY <1>1, <1>2, <1>3, <1>4, <1>5, <1>6, <1>7, <1>8, <1>9, <1>10 DEF Next, Loop

\* The pool of threads of a walk keeps its promise, for any number of stubs and
\* workers: each stub is worked on by one worker at most, and a walk that
\* returns without an error has settled them all or met a cap.
THEOREM WalkImplementsPool == Spec => PoolKeepsPromise
<1>1. Spec => [](TypeOK /\ PoolInv)
  BY TypeInit, PoolInit, PoolStep, PTL DEF Spec
<1>2. Spec => []Undecided
  BY UndecidedStep, PTL DEF Spec
<1>3. TypeOK /\ PoolInv /\ Undecided /\ [Next]_vars => [Pool!Next]_(Pool!vars)
  BY PoolRefinesStep
<1>4. QED
  BY <1>1, <1>2, <1>3, PoolRefinesInit, PTL DEF Spec, PoolKeepsPromise, Pool!Spec

(***************************************************************************)
(* The worktrees.                                                          *)
(***************************************************************************)

\* The stubs with a worktree, with a contribution waiting, and with a verdict
\* of this walk that is none.
Live == {s \in Stubs : trees[s].there = TRUE}
Waiting == {contribs[i] : i \in 1 .. Len(contribs)}
Blank == {s \in Stubs : trees[s].fresh = TRUE /\ trees[s].critique = None}

\* A contribution waits in its worktree, which is in no other hands, and a
\* worker in a session has its worktree.
Sessions == \A w \in Workers :
    wat[w] = "critique" \/ (wat[w] = "work" /\ head # "no git") => wstub[w] \in Live
Contributions ==
    /\ Waiting \subseteq Live
    /\ \A s \in Waiting : s \notin todo /\ \A w \in Workers : wstub[w] # s
TreesAtRest == at \notin {"walking", "merging"} => trees = NoTrees /\ contribs = <<>>

TreesInv == TreesAtRest /\ Sessions /\ Contributions /\ Blank = {}

\* What the operations on the contributions do to the set of those waiting.
LEMMA WaitingFacts ==
    ASSUME contribs \in Seq(Stubs)
    PROVE  /\ Waiting \subseteq Stubs
           /\ contribs = <<>> => Waiting = {}
           /\ \A s \in Stubs : contribs' = Append(contribs, s) => Waiting' = Waiting \union {s}
           /\ contribs # <<>> => Head(contribs) \in Waiting
           /\ contribs # <<>> /\ contribs' = Tail(contribs) => Waiting' \subseteq Waiting
<1>1. Waiting \subseteq Stubs
  BY DEF Waiting
<1>2. contribs = <<>> => Waiting = {}
  BY DEF Waiting
<1>3. ASSUME NEW s \in Stubs, contribs' = Append(contribs, s)
      PROVE  Waiting' = Waiting \union {s}
  <2>1. Len(contribs') = Len(contribs) + 1 /\ Len(contribs) \in Nat
    BY <1>3
  <2>2. \A i \in 1 .. Len(contribs) : contribs'[i] = contribs[i]
    BY <1>3
  <2>3. contribs'[Len(contribs) + 1] = s
    BY <1>3
  <2>4. \A i \in 1 .. Len(contribs') : i \in 1 .. Len(contribs) \/ i = Len(contribs) + 1
    BY <2>1
  <2>5. Waiting' \subseteq Waiting \union {s}
    BY <2>1, <2>2, <2>3, <2>4 DEF Waiting
  <2>6. Waiting \subseteq Waiting'
    <3>1. \A i \in 1 .. Len(contribs) : i \in 1 .. Len(contribs')
      BY <2>1
    <3>2. QED
      BY <2>2, <3>1 DEF Waiting
  <2>7. s \in Waiting'
    <3>1. Len(contribs) + 1 \in 1 .. Len(contribs')
      BY <2>1
    <3>2. QED
      BY <2>3, <3>1 DEF Waiting
  <2>8. QED
    BY <2>5, <2>6, <2>7
<1>4. contribs # <<>> => Head(contribs) \in Waiting
  <2> SUFFICES ASSUME contribs # <<>> PROVE Head(contribs) \in Waiting
    OBVIOUS
  <2>1. 1 \in 1 .. Len(contribs) /\ Head(contribs) = contribs[1]
    OBVIOUS
  <2>2. QED
    BY <2>1 DEF Waiting
<1>5. ASSUME contribs # <<>>, contribs' = Tail(contribs)
      PROVE  Waiting' \subseteq Waiting
  <2>1. Len(contribs') = Len(contribs) - 1 /\ Len(contribs) \in Nat
    BY <1>5
  <2>2. \A i \in 1 .. Len(contribs') : contribs'[i] = contribs[i + 1]
    BY <1>5
  <2>3. \A i \in 1 .. Len(contribs') : i + 1 \in 1 .. Len(contribs)
    BY <2>1
  <2>4. QED
    BY <2>2, <2>3 DEF Waiting
<1>6. QED
  BY <1>1, <1>2, <1>3, <1>4, <1>5

NothingLeft ==
    trees = NoTrees /\ contribs = <<>> /\ \A w \in Workers : wat[w] \in {"off", "check"}

\* Without worktrees and contributions there is nothing to keep.
LEMMA NoTreesLeft == (NothingLeft => TreesInv) /\ (NothingLeft' => TreesInv')
<1>1. NothingLeft => TreesInv
  <2> SUFFICES ASSUME NothingLeft PROVE TreesInv
    OBVIOUS
  <2>1. Waiting = {}
    BY DEF NothingLeft, Waiting
  <2>2. Blank = {}
    BY DEF NothingLeft, Blank, NoTrees, NoTree
  <2>3. Sessions
    BY DEF NothingLeft, Sessions
  <2>4. QED
    BY <2>1, <2>2, <2>3 DEF NothingLeft, TreesInv, TreesAtRest, Contributions
<1>2. NothingLeft' => TreesInv'
  BY <1>1, PTL
<1>3. QED
  BY <1>1, <1>2

\* What an assignment to the worktree of s does to the sets.
LEMMA TreesAssigned ==
    ASSUME trees \in [Stubs -> Tree], NEW s \in Stubs, NEW t \in Tree,
           trees' = [trees EXCEPT ![s] = t]
    PROVE  /\ Live' = IF t.there THEN Live \union {s} ELSE Live \ {s}
           /\ ~(t.fresh /\ t.critique = None) => Blank' \subseteq Blank
<1>1. \A x \in Stubs : trees'[x] = IF x = s THEN t ELSE trees[x]
  OBVIOUS
<1>2. t.there \in BOOLEAN /\ t.fresh \in BOOLEAN
  BY DEF Tree
<1>3. QED
  BY <1>1, <1>2 DEF Live, Blank

\* A failure takes the worktree of its worker only.
LEMMA TreesFail ==
    ASSUME TypeOK, PoolInv, TreesInv, NEW w \in Workers, wstub[w] \in Stubs, Fails(w),
           at = "walking", UNCHANGED <<todo, contribs, head, at>>
    PROVE  TreesInv'
<1>1. \A v \in Workers : wat'[v] = IF v = w THEN "failed" ELSE wat[v]
  BY DEF Fails, Moves, TypeOK
<1>2. UNCHANGED wstub
  BY DEF Fails
<1>3. Live' = Live \ {wstub[w]} /\ Blank' \subseteq Blank
  BY TreesAssigned, FixedTypes DEF TypeOK, Fails, NoTree
<1>4. Waiting' = Waiting
  BY DEF Waiting
<1>5. \A v \in Workers : v # w /\ wat[v] \in {"work", "critique"} => wstub[v] # wstub[w]
  BY DEF PoolInv, Held, Distinct
<1>6. Sessions'
  BY <1>1, <1>2, <1>3, <1>5 DEF TreesInv, Sessions
<1>7. Contributions'
  BY <1>2, <1>3, <1>4 DEF TreesInv, Contributions
<1>8. QED
  BY <1>3, <1>6, <1>7 DEF TreesInv, TreesAtRest

\* A step of a worker keeps the worktrees it has to.
LEMMA TreesWorker ==
    ASSUME TypeOK, PoolInv, TreesInv, NEW w \in Workers, Worker(w)
    PROVE  TreesInv'
<1>1. at = "walking" /\ UNCHANGED <<at, head>>
  BY DEF Worker, CheckCap, Pop, Checkout, WorkInPlace, WorkInTree, CritiqueOf
<1>2. \A label : Moves(w, label) => \A v \in Workers : wat'[v] = IF v = w THEN label ELSE wat[v]
  BY DEF Moves, TypeOK
<1>3. /\ trees \in [Stubs -> Tree] /\ contribs \in Seq(Stubs)
      /\ wstub \in [Workers -> Stubs \union {NoStub}] /\ todo \subseteq Stubs
  BY DEF TypeOK
<1>4. Waiting \subseteq Stubs /\ NoStub \notin Waiting
  BY <1>3, WaitingFacts, NoStubFact
<1>5. wat[w] \in {"checkout", "work", "critique"} => wstub[w] \in Stubs
  BY DEF PoolInv, Held
<1>6. UNCHANGED contribs => UNCHANGED Waiting
  BY DEF Waiting
<1>7. UNCHANGED trees => UNCHANGED <<Live, Blank>>
  BY DEF Live, Blank
<1>8. TreesAtRest'
  BY <1>1 DEF TreesAtRest
<1>9. CASE CheckCap(w)
  <2>1. UNCHANGED <<trees, contribs, wstub, todo>>
    BY <1>9 DEF CheckCap
  <2>2. \A v \in Workers : wat'[v] \in {"work", "critique"} => wat'[v] = wat[v]
    BY <1>2, <1>9 DEF CheckCap
  <2>3. Sessions' /\ Contributions'
    BY <1>1, <1>6, <1>7, <2>1, <2>2 DEF TreesInv, Sessions, Contributions
  <2>4. QED
    BY <1>7, <1>8, <2>1, <2>3 DEF TreesInv
<1>10. CASE Pop(w)
  <2>1. UNCHANGED <<trees, contribs>>
    BY <1>10 DEF Pop
  <2>2. CASE Moves(w, "done") /\ UNCHANGED <<todo, wstub>>
    <3>1. \A v \in Workers : wat'[v] \in {"work", "critique"} => wat'[v] = wat[v]
      BY <1>2, <2>2
    <3>2. Sessions' /\ Contributions'
      BY <1>1, <1>6, <1>7, <2>1, <2>2, <3>1 DEF TreesInv, Sessions, Contributions
    <3>3. QED
      BY <1>7, <1>8, <2>1, <3>2 DEF TreesInv
  <2>3. ASSUME NEW s \in Last(todo),
               Moves(w, IF head = "no git" THEN "work" ELSE "checkout"),
               wstub' = [wstub EXCEPT ![w] = s], todo' = todo \ {s}
        PROVE  TreesInv'
    <3>1. s \in todo /\ s \notin Waiting
      BY Chosen DEF TreesInv, Contributions
    <3>2. \A v \in Workers : wstub'[v] = IF v = w THEN s ELSE wstub[v]
      BY <1>3, <2>3
    <3>3. wat'[w] # "critique" /\ (wat'[w] = "work" => head = "no git")
      <4>1. \A v \in Workers :
               wat'[v] = IF v = w THEN (IF head = "no git" THEN "work" ELSE "checkout") ELSE wat[v]
        BY <1>2, <2>3
      <4>2. QED
        BY <4>1
    <3>4. \A v \in Workers : v # w => wat'[v] = wat[v]
      BY <1>2, <2>3
    <3>5. Sessions'
      BY <1>1, <1>7, <2>1, <3>2, <3>3, <3>4 DEF TreesInv, Sessions
    <3>6. todo' \subseteq todo
      BY <2>3
    <3>7. Contributions'
      BY <1>6, <1>7, <2>1, <3>1, <3>2, <3>6 DEF TreesInv, Contributions
    <3>8. QED
      BY <1>7, <1>8, <2>1, <3>5, <3>7 DEF TreesInv
  <2>4. QED
    BY <1>10, <2>2, <2>3 DEF Pop
<1>11. CASE Checkout(w)
  <2>1. UNCHANGED <<contribs, wstub, todo>> /\ wstub[w] \in Stubs /\ head # "no git"
    BY <1>5, <1>11 DEF Checkout
  <2>2. CASE Moves(w, "failed") /\ UNCHANGED trees
    <3>1. \A v \in Workers : wat'[v] \in {"work", "critique"} => wat'[v] = wat[v]
      BY <1>2, <2>2
    <3>2. Sessions' /\ Contributions'
      BY <1>1, <1>6, <1>7, <2>1, <2>2, <3>1 DEF TreesInv, Sessions, Contributions
    <3>3. QED
      BY <1>7, <1>8, <2>2, <3>2 DEF TreesInv
  <2>3. ASSUME Moves(w, "work"),
               trees' = [trees EXCEPT ![wstub[w]] =
                            [there |-> TRUE, detailed |-> FALSE, critique |-> head,
                             fresh |-> FALSE]]
        PROVE  TreesInv'
    <3>1. head \in Verdicts \union {None}
      BY <2>1, PlanDetailWalkAssumption DEF TypeOK, Verdicts, None
    <3>2. [there |-> TRUE, detailed |-> FALSE, critique |-> head, fresh |-> FALSE] \in Tree
      BY <3>1 DEF Tree
    <3>3. Live' = Live \union {wstub[w]} /\ Blank' \subseteq Blank
      BY <1>3, <2>1, <2>3, <3>2, TreesAssigned
    <3>4. \A v \in Workers : wat'[v] = IF v = w THEN "work" ELSE wat[v]
      BY <1>2, <2>3
    <3>5. Sessions'
      BY <1>1, <2>1, <3>3, <3>4 DEF TreesInv, Sessions
    <3>6. Contributions'
      BY <1>6, <2>1, <3>3 DEF TreesInv, Contributions
    <3>7. QED
      BY <1>8, <3>3, <3>5, <3>6 DEF TreesInv
  <2>4. QED
    BY <1>11, <2>2, <2>3 DEF Checkout
<1>12. CASE WorkInPlace(w)
  <2>1. UNCHANGED <<todo, contribs>> /\ wat[w] = "work"
    BY <1>12 DEF WorkInPlace
  <2>2. CASE Settles(w) /\ UNCHANGED trees
    <3>1. \A v \in Workers : wstub'[v] = IF v = w THEN NoStub ELSE wstub[v]
      BY <1>3, <2>2 DEF Settles
    <3>2. \A v \in Workers : wat'[v] = IF v = w THEN "check" ELSE wat[v]
      BY <1>2, <2>2 DEF Settles
    <3>3. Sessions'
      BY <1>1, <1>7, <2>2, <3>1, <3>2 DEF TreesInv, Sessions
    <3>4. Contributions'
      BY <1>4, <1>6, <1>7, <2>1, <2>2, <3>1 DEF TreesInv, Contributions
    <3>5. QED
      BY <1>7, <1>8, <2>2, <3>3, <3>4 DEF TreesInv
  <2>3. QED
    BY <1>1, <1>5, <1>12, <2>1, <2>2, TreesFail DEF WorkInPlace
<1>13. CASE WorkInTree(w)
  <2>1. UNCHANGED <<todo, contribs>> /\ wat[w] = "work" /\ head # "no git"
    BY <1>13 DEF WorkInTree
  <2>2. CASE /\ Moves(w, "critique")
             /\ trees' \in {trees, [trees EXCEPT ![wstub[w]].detailed = TRUE]}
             /\ UNCHANGED wstub
    <3>1. \A s \in Stubs : /\ trees'[s].there = trees[s].there
                           /\ trees'[s].fresh = trees[s].fresh
                           /\ trees'[s].critique = trees[s].critique
      BY <1>3, <2>2 DEF Tree
    <3>2. UNCHANGED <<Live, Blank>>
      BY <3>1 DEF Live, Blank
    <3>3. \A v \in Workers : wat'[v] = IF v = w THEN "critique" ELSE wat[v]
      BY <1>2, <2>2
    <3>4. Sessions'
      BY <1>1, <2>1, <2>2, <3>2, <3>3 DEF TreesInv, Sessions
    <3>5. Contributions'
      BY <1>6, <2>1, <2>2, <3>2 DEF TreesInv, Contributions
    <3>6. QED
      BY <1>8, <3>2, <3>4, <3>5 DEF TreesInv
  <2>3. QED
    BY <1>1, <1>5, <1>13, <2>1, <2>2, TreesFail DEF WorkInTree
<1>14. CASE CritiqueOf(w)
  <2>1. UNCHANGED todo /\ wat[w] = "critique" /\ wstub[w] \in Stubs
    BY <1>5, <1>14 DEF CritiqueOf
  <2>2. ASSUME Settles(w), contribs' = Append(contribs, wstub[w]),
               NEW v \in Verdicts \union {None},
               trees' = IF v = None THEN trees
                        ELSE [trees EXCEPT ![wstub[w]].critique = v, ![wstub[w]].fresh = TRUE]
        PROVE  TreesInv'
    <3>1. \A s \in Stubs :
             /\ trees'[s].there = trees[s].there
             /\ \/ trees'[s].fresh = trees[s].fresh /\ trees'[s].critique = trees[s].critique
                \/ trees'[s].critique # None
      BY <1>3, <2>2 DEF Tree
    <3>2. UNCHANGED Live /\ Blank' \subseteq Blank
      BY <3>1 DEF Live, Blank
    <3>3. \A u \in Workers : wat'[u] = IF u = w THEN "check" ELSE wat[u]
      BY <1>2, <2>2 DEF Settles
    <3>4. \A u \in Workers : wstub'[u] = IF u = w THEN NoStub ELSE wstub[u]
      BY <1>3, <2>2 DEF Settles
    <3>5. \A u \in Workers : wstub'[u] # wstub[w]
      BY <2>1, <3>4, NoStubFact DEF PoolInv, Distinct
    <3>6. wstub[w] \notin todo /\ wstub[w] \in Live
      BY <2>1 DEF PoolInv, Distinct, TreesInv, Sessions
    <3>7. Waiting' = Waiting \union {wstub[w]}
      BY <1>3, <2>1, <2>2, WaitingFacts
    <3>8. Sessions'
      BY <1>1, <3>2, <3>3, <3>4 DEF TreesInv, Sessions
    <3>9. Contributions'
      BY <1>4, <2>1, <3>2, <3>4, <3>5, <3>6, <3>7 DEF TreesInv, Contributions
    <3>10. QED
      BY <1>8, <3>2, <3>8, <3>9 DEF TreesInv
  <2>3. QED
    BY <1>1, <1>14, <2>1, <2>2, TreesFail DEF CritiqueOf
<1>15. QED
  BY <1>9, <1>10, <1>11, <1>12, <1>13, <1>14 DEF Worker

\* The initial states and every step keep the worktrees that have to be there.
LEMMA TreesStep ==
    /\ Init => TreesInv
    /\ TypeOK /\ PoolInv /\ TreesInv /\ [Next]_vars => TreesInv'
<1>1. Init => TreesInv
  BY NoTreesLeft DEF Init, NothingLeft
<1> SUFFICES ASSUME TypeOK, PoolInv, TreesInv, [Next]_vars PROVE TreesInv'
  BY <1>1
<1>2. PoolInv'
  BY PoolStep
<1>3. at' # "walking" => \A w \in Workers : wat'[w] = "off"
  BY <1>2 DEF PoolInv, Quiet
<1>4. ASSUME trees' = NoTrees, contribs' = <<>>, \A w \in Workers : wat'[w] \in {"off", "check"}
      PROVE  TreesInv'
  BY <1>4, NoTreesLeft DEF NothingLeft
<1>5. ASSUME at \notin {"walking", "merging"}, UNCHANGED <<trees, contribs>>, at' # "walking"
      PROVE  TreesInv'
  BY <1>3, <1>4, <1>5 DEF TreesInv, TreesAtRest
<1>6. ASSUME UNCHANGED <<at, head, todo, wat, wstub, trees, contribs>> PROVE TreesInv'
  <2>1. UNCHANGED <<Live, Waiting, Blank>>
    BY <1>6 DEF Live, Waiting, Blank
  <2>2. QED
    BY <1>6, <2>1 DEF TreesInv, TreesAtRest, Sessions, Contributions
<1>7. CASE EnterStep \/ GoSerial \/ SerialWork \/ SerialCritique \/ SerialJudge
  BY <1>5, <1>7 DEF EnterStep, GoSerial, SerialWork, SerialCritique, SerialJudge, Leave, pool
<1>8. CASE WalkCritique \/ WalkCritiquesDone \/ WalkEnds
  BY <1>5, <1>8 DEF WalkCritique, WalkCritiquesDone, WalkEnds, Leave, pool
<1>9. CASE StartWalk
  <2>1. \A w \in Workers : wat'[w] \in {"off", "check"}
    BY <1>9 DEF StartWalk
  <2>2. trees' = NoTrees /\ contribs' = <<>>
    BY <1>9 DEF StartWalk, TreesInv, TreesAtRest
  <2>3. QED
    BY <1>4, <2>1, <2>2
<1>10. CASE Forward \/ HostLost
  BY <1>6, <1>10 DEF Forward, HostLost, pool
<1>11. CASE Join
  <2>1. CASE PoolEnds
    BY <1>3, <1>4, <1>11, <2>1 DEF PoolEnds, ThreadsEnd
  <2>2. CASE /\ at' = "merging" /\ ThreadsEnd
             /\ UNCHANGED <<disk, trees, contribs, head>>
    <3>1. UNCHANGED <<Live, Waiting, Blank>>
      BY <2>2 DEF Live, Waiting, Blank
    <3>2. Waiting \subseteq Stubs
      BY WaitingFacts DEF TypeOK
    <3>3. \A w \in Workers : wat'[w] = "off" /\ wstub'[w] = NoStub
      BY <2>2 DEF ThreadsEnd
    <3>4. Contributions'
      BY <2>2, <3>1, <3>2, <3>3, NoStubFact DEF TreesInv, Contributions, ThreadsEnd
    <3>5. Sessions' /\ TreesAtRest'
      BY <2>2, <3>3 DEF Sessions, TreesAtRest
    <3>6. QED
      BY <3>1, <3>4, <3>5 DEF TreesInv
  <2>3. QED
    BY <1>11, <2>1, <2>2 DEF Join
<1>12. CASE Merge
  <2>1. CASE trees' = NoTrees /\ contribs' = <<>> /\ Leave("idle")
    BY <1>3, <1>4, <2>1 DEF Leave
  <2>2. CASE contribs' = Tail(contribs) /\ UNCHANGED <<at, trees>>
    <3>1. UNCHANGED <<todo, wstub, head>> /\ at = "merging" /\ contribs # <<>>
      BY <1>12 DEF Merge
    <3>2. Waiting' \subseteq Waiting
      BY <2>2, <3>1, WaitingFacts DEF TypeOK
    <3>3. UNCHANGED <<Live, Blank>>
      BY <2>2 DEF Live, Blank
    <3>4. Contributions'
      BY <3>1, <3>2, <3>3 DEF TreesInv, Contributions
    <3>5. Sessions' /\ TreesAtRest'
      BY <1>3, <2>2, <3>1 DEF Sessions, TreesAtRest
    <3>6. QED
      BY <3>3, <3>4, <3>5 DEF TreesInv
  <2>3. QED
    BY <1>12, <2>1, <2>2 DEF Merge
<1>13. CASE MergeDone
  BY <1>3, <1>4, <1>13 DEF MergeDone
<1>14. CASE LoopEnds
  BY <1>3, <1>4, <1>14 DEF LoopEnds, Leave
<1>15. CASE Kill
  BY <1>3, <1>4, <1>15 DEF Kill, Leave, PoolEnds
<1>16. ASSUME NEW w \in Workers, Worker(w) PROVE TreesInv'
  BY <1>16, TreesWorker
<1>17. CASE UNCHANGED vars
  BY <1>6, <1>17 DEF vars, pool
<1>18. QED
  BY <1>7, <1>8, <1>9, <1>10, <1>11, <1>12, <1>13, <1>14, <1>15, <1>16, <1>17 DEF Next, Loop

\* What is to be merged is still there when it is merged, whatever the other
\* workers did, and no worktree outlives its walk.
THEOREM WorktreesSafe == Spec => []WorktreesLive
<1>1. Spec => [](TypeOK /\ PoolInv /\ TreesInv)
  BY TypeInit, PoolInit, PoolStep, TreesStep, PTL DEF Spec
<1>2. TypeOK /\ TreesInv => WorktreesLive
  <2> SUFFICES ASSUME TypeOK, TreesInv PROVE WorktreesLive
    OBVIOUS
  <2>1. \A i \in 1 .. Len(contribs) : contribs[i] \in Live
    BY DEF TreesInv, Contributions, Waiting
  <2>2. QED
    BY <2>1 DEF WorktreesLive, TreesInv, TreesAtRest, Live
<1>3. QED
  BY <1>1, <1>2, PTL

(***************************************************************************)
(* What an advance has seen.                                               *)
(***************************************************************************)

\* The milestones with a shard that keeps the step from advancing.
Blocking == {s \in Stubs : disk.shards[s] \in {"dirty", "malformed"}}
Walk == {"walking", "merging", "critiques", "walked"}

\* In a walk without a gap every detailed milestone has been found clean, is
\* blocking, or has its critique still to come.
Covered == at \in Walk /\ ~gap => disk.detailed \subseteq judged \union Blocking \union left
Critiqued ==
    /\ at = "walking" /\ head = "no git" /\ ~gap => left = Stubs
    /\ at = "walking" /\ head # "no git" => left = {} /\ (gap \/ disk.detailed = {})
    /\ at \in {"merging", "walked"} => left = {}
    /\ at \in {"work", "critique", "judge"} => gap

JudgeInv == Covered /\ Critiqued /\ AdvanceIsJudged

\* A shard written says what it says, the others stay.
LEMMA ShardWritten ==
    ASSUME disk \in Disk, NEW s \in Stubs, NEW v \in Verdicts,
           disk'.shards = [disk.shards EXCEPT ![s] = v]
    PROVE  Blocking' = IF v = "clean" THEN Blocking \ {s} ELSE Blocking \union {s}
<1>1. \A x \in Stubs : disk'.shards[x] = IF x = s THEN v ELSE disk.shards[x]
  BY DEF Disk
<1>2. QED
  BY <1>1 DEF Blocking, Verdicts

\* Where the step is not in a walk, nothing is to be covered.
LEMMA JudgeOutside ==
    ASSUME at' \notin Walk \union {"advanced"},
           at' \in {"work", "critique", "judge"} => gap'
    PROVE  JudgeInv'
BY DEF JudgeInv, Covered, Critiqued, AdvanceIsJudged, Walk

\* A step of a worker leaves the detailed milestones covered.
LEMMA JudgeWorker ==
    ASSUME TypeOK, PoolInv, JudgeInv, NEW w \in Workers, Worker(w)
    PROVE  JudgeInv'
<1>1. at = "walking" /\ UNCHANGED <<at, head, left, gap>>
  BY DEF Worker, CheckCap, Pop, Checkout, WorkInPlace, WorkInTree, CritiqueOf, ghosts
<1>2. CASE UNCHANGED <<disk, judged>>
  BY <1>1, <1>2 DEF JudgeInv, Covered, Critiqued, AdvanceIsJudged, Walk, Blocking
<1>3. CASE WorkInPlace(w)
  <2>1. head = "no git" /\ wstub[w] \in Stubs
    BY <1>3 DEF WorkInPlace, PoolInv, Held
  <2>2. disk.detailed \subseteq Stubs
    BY DEF TypeOK, Disk
  <2>3. disk'.detailed \subseteq Stubs
    <3>1. TypeOK'
      BY TypeWorker DEF PoolInv
    <3>2. QED
      BY <3>1 DEF TypeOK, Disk
  <2>4. QED
    BY <1>1, <2>1, <2>3 DEF JudgeInv, Covered, Critiqued, AdvanceIsJudged
<1>4. CASE CheckCap(w) \/ Pop(w) \/ Checkout(w) \/ WorkInTree(w) \/ CritiqueOf(w)
  <2>1. UNCHANGED <<disk, judged>>
    BY <1>4 DEF CheckCap, Pop, Checkout, WorkInTree, CritiqueOf, ghosts
  <2>2. QED
    BY <1>2, <2>1
<1>5. QED
  BY <1>3, <1>4 DEF Worker

\* Merging a contribution leaves a gap, a blocking shard or a milestone found clean.
LEMMA JudgeMerge ==
    ASSUME TypeOK, TreesInv, JudgeInv, Merge
    PROVE  JudgeInv'
<1> DEFINE s == Head(contribs)
           t == trees[s]
<1>1. /\ at = "merging" /\ disk' = Merged(disk, s, t)
      /\ judged' = Judge({s}, IF t.fresh THEN t.critique ELSE None)
      /\ gap' = (gap \/ ~t.fresh \/ t.critique = "malformed")
  BY DEF Merge
<1>2. s \in Stubs /\ t \in Tree /\ disk \in Disk
  BY DEF Merge, TypeOK
<1>3. s \notin Blank
  BY DEF TreesInv
<1>4. CASE Leave("idle")
  BY <1>4, JudgeOutside DEF Leave, Walk
<1>5. CASE UNCHANGED <<at, left>> /\ gap'
  BY <1>1, <1>5 DEF JudgeInv, Covered, Critiqued, AdvanceIsJudged
<1>6. CASE UNCHANGED <<at, left>> /\ ~gap'
  <2>1. ~gap /\ t.fresh /\ t.critique # "malformed" /\ left = {}
    BY <1>1, <1>6 DEF JudgeInv, Critiqued
  <2>2. t.critique \in {"clean", "dirty"}
    BY <1>2, <1>3, <2>1 DEF Blank, Tree, Verdicts
  <2>3. judged' = IF t.critique = "clean" THEN judged \union {s} ELSE judged \ {s}
    BY <1>1, <2>1 DEF Judge
  <2>4. /\ disk'.shards = [disk.shards EXCEPT ![s] = t.critique]
        /\ disk'.detailed \subseteq disk.detailed \union {s}
    BY <1>1, <1>2, <2>2 DEF Merged, Disk, None
  <2>5. Blocking' = IF t.critique = "clean" THEN Blocking \ {s} ELSE Blocking \union {s}
    BY <1>2, <2>2, <2>4, ShardWritten DEF Verdicts
  <2>6. disk.detailed \subseteq judged \union Blocking
    BY <1>1, <2>1 DEF JudgeInv, Covered, Walk
  <2>7. disk'.detailed \subseteq judged' \union Blocking'
    BY <2>2, <2>3, <2>4, <2>5, <2>6
  <2>8. QED
    BY <1>1, <1>6, <2>1, <2>7 DEF JudgeInv, Covered, Critiqued, AdvanceIsJudged
<1>7. QED
  BY <1>4, <1>5, <1>6 DEF Merge

\* A critique in place does as well.
LEMMA JudgeCritique ==
    ASSUME TypeOK, JudgeInv, WalkCritique
    PROVE  JudgeInv'
<1>1. at = "critiques" /\ disk \in Disk
  BY DEF WalkCritique, TypeOK
<1>2. CASE Leave("idle")
  BY <1>2, JudgeOutside DEF Leave, Walk
<1>3. ASSUME NEW s \in First(left), NEW v \in Verdicts \union {None},
             disk' = IF v = None THEN disk ELSE [disk EXCEPT !.shards[s] = v],
             judged' = Judge({s}, v), gap' = (gap \/ v = None), left' = left \ {s},
             UNCHANGED at
      PROVE  JudgeInv'
  <2>1. s \in Stubs
    BY Chosen DEF TypeOK
  <2>2. CASE gap'
    BY <1>1, <1>3, <2>2 DEF JudgeInv, Covered, Critiqued, AdvanceIsJudged
  <2>3. CASE ~gap'
    <3>1. ~gap /\ v \in Verdicts /\ v # None
      BY <1>3, <2>3
    <3>2. disk' = [disk EXCEPT !.shards[s] = v]
      BY <1>3, <3>1
    <3>3. disk'.shards = [disk.shards EXCEPT ![s] = v] /\ disk'.detailed = disk.detailed
      BY <1>1, <3>2 DEF Disk
    <3>4. Blocking' = IF v = "clean" THEN Blocking \ {s} ELSE Blocking \union {s}
      BY <1>1, <2>1, <3>1, <3>3, ShardWritten
    <3>5. judged' = IF v = "clean" THEN judged \union {s} ELSE judged \ {s}
      BY <1>3 DEF Judge
    <3>6. disk.detailed \subseteq judged \union Blocking \union left
      BY <1>1, <3>1 DEF JudgeInv, Covered, Walk
    <3>7. disk'.detailed \subseteq judged' \union Blocking' \union left'
      BY <1>3, <3>3, <3>4, <3>5, <3>6
    <3>8. QED
      BY <1>1, <1>3, <3>7 DEF JudgeInv, Covered, Critiqued, AdvanceIsJudged
  <2>4. QED
    BY <2>2, <2>3
<1>4. QED
  BY <1>2, <1>3 DEF WalkCritique

\* The step advances on a clean gate only: every milestone detailed and none blocking.
LEMMA CleanGate ==
    ASSUME Gate = "clean"
    PROVE  Pending = {} /\ Blocking = {}
<1>1. "malformed" \notin ShardVerdicts /\ "dirty" \notin ShardVerdicts /\ Pending = {}
  BY DEF Gate
<1>2. Blocking = {}
  BY <1>1 DEF ShardVerdicts, Blocking, None
<1>3. QED
  BY <1>1, <1>2

\* Every step keeps the detailed milestones of a walk covered.
LEMMA JudgeStep ==
    /\ Init => JudgeInv
    /\ TypeOK /\ PoolInv /\ TreesInv /\ JudgeInv /\ [Next]_vars => JudgeInv'
<1>1. Init => JudgeInv
  BY DEF Init, JudgeInv, Covered, Critiqued, AdvanceIsJudged, Walk
<1> SUFFICES ASSUME TypeOK, PoolInv, TreesInv, JudgeInv, [Next]_vars PROVE JudgeInv'
  BY <1>1
<1>2. ASSUME UNCHANGED <<at, head, disk, judged, gap, left>> PROVE JudgeInv'
  BY <1>2 DEF JudgeInv, Covered, Critiqued, AdvanceIsJudged, Walk, Blocking, Pending
<1>3. CASE EnterStep \/ GoSerial \/ LoopEnds \/ Kill
  BY <1>3, JudgeOutside DEF EnterStep, GoSerial, LoopEnds, Kill, Leave, Walk
<1>4. CASE StartWalk
  <2>1. at' = "walking" /\ UNCHANGED <<head, judged>> /\ gap' = (gap \/ disk.detailed # {})
    BY <1>4 DEF StartWalk
  <2>2. disk'.detailed = disk.detailed /\ disk \in Disk
    BY <1>4 DEF StartWalk, Invalidated, TypeOK, Disk
  <2>3. left' = IF head = "no git" THEN Stubs \ disk.detailed ELSE {}
    BY <1>4 DEF StartWalk, Pending
  <2>4. ~gap' => disk.detailed = {}
    BY <2>1
  <2>5. QED
    BY <2>1, <2>2, <2>3, <2>4 DEF JudgeInv, Covered, Critiqued, AdvanceIsJudged
<1>5. CASE Forward \/ HostLost
  BY <1>2, <1>5 DEF Forward, HostLost, ghosts
<1>6. CASE Join
  <2>1. CASE Leave("idle")
    BY <2>1, JudgeOutside DEF Leave, Walk
  <2>2. CASE at' \in {"critiques", "merging"} /\ UNCHANGED left
    <3>1. at = "walking" /\ UNCHANGED <<head, judged, gap>>
      BY <1>6 DEF Join
    <3>2. at' = "merging" => head # "no git"
      <4>1. CASE PoolFailed
        BY <1>6, <4>1 DEF Join, Leave
      <4>2. CASE ~PoolFailed /\ head = "no git"
        <5>1. at' = "critiques"
          BY <1>6, <4>2 DEF Join
        <5>2. QED
          BY <5>1
      <4>3. QED
        BY <4>1, <4>2
    <3>3. disk'.detailed = disk.detailed /\ disk'.shards = disk.shards
      <4>1. disk \in Disk
        BY DEF TypeOK
      <4>2. disk' = disk \/ disk' = [disk EXCEPT !.dir = TRUE]
        BY <1>6 DEF Join
      <4>3. QED
        BY <4>1, <4>2 DEF Disk
    <3>4. Blocking' = Blocking
      BY <3>3 DEF Blocking
    <3>5. Covered'
      BY <2>2, <3>1, <3>3, <3>4 DEF JudgeInv, Covered, Walk
    <3>6. Critiqued' /\ AdvanceIsJudged'
      BY <2>2, <3>1, <3>2 DEF JudgeInv, Critiqued, AdvanceIsJudged
    <3>7. QED
      BY <3>5, <3>6 DEF JudgeInv
  <2>3. QED
    BY <1>6, <2>1, <2>2 DEF Join
<1>7. CASE Merge
  BY <1>7, JudgeMerge
<1>8. CASE WalkCritique
  BY <1>8, JudgeCritique
<1>9. CASE MergeDone \/ WalkCritiquesDone
  <2>1. /\ at \in {"merging", "critiques"} /\ at' = "walked"
        /\ UNCHANGED <<disk, judged, gap, left>>
        /\ at = "critiques" => left = {}
    BY <1>9 DEF MergeDone, WalkCritiquesDone, ghosts
  <2>2. UNCHANGED Blocking
    BY <2>1 DEF Blocking
  <2>3. QED
    BY <2>1, <2>2 DEF JudgeInv, Covered, Critiqued, AdvanceIsJudged, Walk
<1>10. CASE WalkEnds
  <2>1. at = "walked" /\ UNCHANGED <<disk, judged, gap>>
    BY <1>10 DEF WalkEnds, ghosts
  <2>2. CASE Leave("idle")
    BY <2>2, JudgeOutside DEF Leave, Walk
  <2>3. CASE Leave("advanced") /\ Gate = "clean"
    <3>1. Pending = {} /\ Blocking = {} /\ left = {}
      BY <2>1, <2>3, CleanGate DEF JudgeInv, Critiqued
    <3>2. ~gap => Stubs \subseteq judged
      BY <2>1, <3>1 DEF JudgeInv, Covered, Walk, Pending
    <3>3. judged \subseteq Stubs
      BY DEF TypeOK
    <3>4. AdvanceIsJudged'
      BY <2>1, <3>1, <3>2, <3>3 DEF AdvanceIsJudged, Pending
    <3>5. QED
      BY <2>3, <3>4 DEF JudgeInv, Covered, Critiqued, Walk, Leave
  <2>4. QED
    BY <1>10, <2>2, <2>3 DEF WalkEnds
<1>11. CASE SerialWork \/ SerialCritique
  BY <1>11, JudgeOutside DEF SerialWork, SerialCritique, JudgeInv, Critiqued, Walk
<1>12. CASE SerialJudge
  <2>1. gap /\ UNCHANGED <<disk, gap>>
    BY <1>12 DEF SerialJudge, JudgeInv, Critiqued, ghosts
  <2>2. CASE at' \in {"idle", "entered"}
    BY <2>2, JudgeOutside DEF Walk
  <2>3. CASE Gate = "clean" /\ at' = "advanced"
    <3>1. Pending = {}
      BY <2>3, CleanGate
    <3>2. QED
      BY <2>1, <2>3, <3>1 DEF JudgeInv, Covered, Critiqued, AdvanceIsJudged, Walk, Pending
  <2>4. QED
    BY <1>12, <2>2, <2>3 DEF SerialJudge, Leave
<1>13. ASSUME NEW w \in Workers, Worker(w) PROVE JudgeInv'
  BY <1>13, JudgeWorker
<1>14. CASE UNCHANGED vars
  BY <1>2, <1>14 DEF vars, ghosts
<1>15. QED
  BY <1>3, <1>4, <1>5, <1>6, <1>7, <1>8, <1>9, <1>10, <1>11, <1>12, <1>13, <1>14 DEF Next, Loop

\* A parallel walk that no session left a gap in advances only past milestones
\* whose present content a critique found clean.
THEOREM AdvanceSafe == Spec => []AdvanceIsJudged
<1>1. Spec => [](TypeOK /\ PoolInv /\ TreesInv /\ JudgeInv)
  BY TypeInit, PoolInit, PoolStep, TreesStep, JudgeStep, PTL DEF Spec
<1>2. JudgeInv => AdvanceIsJudged
  BY DEF JudgeInv
<1>3. QED
  BY <1>1, <1>2, PTL
=============================================================================
