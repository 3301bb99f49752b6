-------------------------- MODULE StateFileProofs --------------------------
(***************************************************************************)
(* Theorems about StateFile, for any number of processes and steps.        *)
(***************************************************************************)
EXTENDS StateFile, TLAPS

(***************************************************************************)
(* The transformations of the document keep it a document.                 *)
(***************************************************************************)

\* A step's successor and the steps a reset clears are steps of its own flow.
LEMMA StepFacts ==
    ASSUME NEW s \in Steps
    PROVE  /\ s \in Registry(s[1])
           /\ HasNext(s) => NextStep(s) \in Steps /\ NextStep(s) \in Registry(s[1])
           /\ Downstream(s) \subseteq Steps
<1> USE LengthAssumption DEF Steps, Registry, HasNext, NextStep, Downstream, Flows
<1>0. PICK f \in Flows : s \in Registry(f)
  OBVIOUS
<1>1. PICK i \in 1 .. Length[f] : s = <<f, i>>
  BY <1>0
<1>2. s \in Registry(s[1])
  BY <1>1
<1>3. ASSUME HasNext(s)
      PROVE  NextStep(s) \in Steps /\ NextStep(s) \in Registry(s[1])
  <2>1. i + 1 \in 1 .. Length[f]
    BY <1>1, <1>3
  <2>2. QED
    BY <1>1, <2>1
<1>4. Downstream(s) \subseteq Steps
  <2>1. ASSUME NEW d \in Downstream(s)
        PROVE  d \in Steps
    <3>1. PICK j \in i .. Length[f] : d = <<f, j>>
      BY <1>1
    <3>2. j \in 1 .. Length[f]
      BY <1>1
    <3>3. QED
      BY <3>1, <3>2
  <2>2. QED
    BY <2>1
<1>5. QED
  BY <1>2, <1>3, <1>4

\* A position belongs to the flow whose list has it; Last is the list's last.
LEMMA RegistryFacts ==
    ASSUME NEW f \in Flows
    PROVE  /\ Registry(f) \subseteq Steps
           /\ <<f, 1>> \in Steps
           /\ \A s \in Registry(f) : s[1] = f
BY LengthAssumption DEF Steps, Registry

\* Every transformation of `impl State` maps documents to documents.
LEMMA DocumentTypes ==
    ASSUME NEW st \in State, NEW s \in Steps
    PROVE  /\ MarkPassed(st, s) \in State
           /\ Advanced(st, s) \in State
           /\ Ran(st, s) \in State
           /\ Reset(st, s) \in State
           /\ FlipToSvConvert(st) \in State
<1>1. MarkPassed(st, s) \in State
  BY DEF MarkPassed, State
<1>2. Advanced(st, s) \in State
  BY <1>1, StepFacts DEF Advanced, State
<1>3. Ran(st, s) \in State
  BY <1>1 DEF Ran, State
<1>4. Reset(st, s) \in State
  BY DEF Reset, State
<1>5. FlipToSvConvert(st) \in State
  <2>1. "sv" \in Flows
    BY DEF Flows
  <2>2. Append(st.archived, st.passed) \in Seq(SUBSET Steps)
    BY DEF State
  <2>3. QED
    BY <2>1, <2>2, RegistryFacts DEF FlipToSvConvert, State
<1>6. QED
  BY <1>1, <1>2, <1>3, <1>4, <1>5

\* A fresh document, as State::new writes it, is a document.
LEMMA NewType == ASSUME NEW f \in Flows PROVE New(f) \in State
BY RegistryFacts DEF New, State

-----------------------------------------------------------------------------
(***************************************************************************)
(* The invariant of every instance: types, the lock, and the write-ahead   *)
(* discipline of write_atomic.  The conjuncts need one another: that the   *)
(* temporary file is the writer's own copy rests on the lock, that the     *)
(* file is never torn rests on the temporary file having been synced.      *)
(***************************************************************************)
TmpIsCopy ==
    \A p \in Procs :
        /\ pc[p] = "sync" => tmp = [data |-> snap[p], synced |-> FALSE]
        /\ pc[p] = "rename" => tmp = [data |-> snap[p], synced |-> TRUE]

FileInv ==
    /\ TypeOK
    /\ LockDiscipline
    /\ NeverTorn
    /\ diskSynced = TRUE
    /\ TmpIsCopy

\* A project starts with a whole, durable document and a free lock.
LEMMA FileInvInit == Init => FileInv
<1> SUFFICES ASSUME Init PROVE FileInv
  OBVIOUS
<1>1. disk \in State /\ disk # Torn
  BY NewType, StateFileAssumption DEF Init
<1>2. <<"dm", 1>> \in Steps
  BY RegistryFacts DEF Flows
<1>3. TypeOK
  BY <1>1, <1>2 DEF Init, TypeOK, PCs
<1>4. QED
  BY <1>1, <1>3, StateFileAssumption
  DEF Init, FileInv, LockDiscipline, Locked, NeverTorn, TmpIsCopy

\* No operation, kill, I/O error or host failure breaks the invariant.
LEMMA FileInvStep == FileInv /\ [Next]_vars => FileInv'
<1> SUFFICES ASSUME FileInv, [Next]_vars PROVE FileInv'
  OBVIOUS
<1> USE DEF FileInv, ghosts, file, GoTo
<1>1. ASSUME NEW p \in Procs, NEW s \in Steps, TryAdvance(p, s)
      PROVE  FileInv'
  BY <1>1, StateFileAssumption
  DEF TryAdvance, Begin, TypeOK, PCs, LockDiscipline, Locked, NeverTorn, TmpIsCopy
<1>2. ASSUME NEW p \in Procs, NEW kind \in LegacyKinds, NEW s \in Steps,
             LegacyLoad(p, kind, s)
      PROVE  FileInv'
  BY <1>2, StateFileAssumption
  DEF LegacyLoad, Begin, TypeOK, PCs, LockDiscipline, Locked, NeverTorn, TmpIsCopy
<1>3. ASSUME NEW p \in Procs, NEW s \in Steps, ControlAdvance(p, s)
      PROVE  FileInv'
  BY <1>3, StateFileAssumption
  DEF ControlAdvance, Begin, TypeOK, PCs, LegacyKinds, LockDiscipline, Locked,
      NeverTorn, TmpIsCopy
<1>4. ASSUME NEW p \in Procs, NEW f \in Flows, InitProject(p, f)
      PROVE  FileInv'
  BY <1>4, StateFileAssumption, NewType, RegistryFacts
  DEF InitProject, Begin, TypeOK, PCs, LegacyKinds, LockDiscipline, Locked,
      NeverTorn, TmpIsCopy
<1>5. ASSUME NEW p \in Procs, Acquire(p)
      PROVE  FileInv'
  BY <1>5, StateFileAssumption
  DEF Acquire, TypeOK, PCs, LockDiscipline, Locked, NeverTorn, TmpIsCopy
<1>6. ASSUME NEW p \in Procs, TxLoad(p)
      PROVE  FileInv'
  BY <1>6, StateFileAssumption
  DEF TxLoad, ErrorReturn, TypeOK, PCs, LockDiscipline, Locked, NeverTorn, TmpIsCopy
<1>7. ASSUME NEW p \in Procs, TxBody(p)
      PROVE  FileInv'
  <2>1. op[p].step \in Steps /\ snap[p] \in State
    BY DEF TypeOK
  <2>2. Advanced(snap[p], op[p].step) \in State
    BY <2>1, DocumentTypes
  <2>3. ASSUME op' = [op EXCEPT ![p].pass = TRUE]
        PROVE  op' \in [Procs -> [kind : {"advance"} \union LegacyKinds, step : Steps,
                                  pass : BOOLEAN]]
    BY <2>3 DEF TypeOK
  <2>4. TypeOK'
    <3>1. pc' \in [Procs -> PCs]
      BY <1>7 DEF TxBody, TypeOK, PCs
    <3>2. snap' \in [Procs -> State]
      BY <1>7, <2>2 DEF TxBody, TypeOK
    <3>3. op' \in [Procs -> [kind : {"advance"} \union LegacyKinds, step : Steps,
                             pass : BOOLEAN]]
      BY <1>7, <2>3 DEF TxBody, TypeOK
    <3>4. gated' \subseteq Steps
      BY <1>7, <2>1 DEF TxBody, TypeOK
    <3>5. UNCHANGED <<disk, durable, diskSynced, tmp, lock, ops, faults, acked,
                      announced, stale, raced>>
      BY <1>7 DEF TxBody
    <3>6. QED
      BY <3>1, <3>2, <3>3, <3>4, <3>5 DEF TypeOK
  <2>5. LockDiscipline' /\ NeverTorn' /\ diskSynced' = TRUE /\ TmpIsCopy'
    BY <1>7, StateFileAssumption
    DEF TxBody, TypeOK, LockDiscipline, Locked, NeverTorn, TmpIsCopy
  <2>6. QED
    BY <2>4, <2>5
<1>8. ASSUME NEW p \in Procs, Announce(p)
      PROVE  FileInv'
  BY <1>8, StateFileAssumption
  DEF Announce, TypeOK, PCs, LockDiscipline, Locked, NeverTorn, TmpIsCopy
<1>9. ASSUME NEW p \in Procs, Mutate(p)
      PROVE  FileInv'
  <2>1. op[p].step \in Steps /\ snap[p] \in State
    BY DEF TypeOK
  <2>2. /\ Advanced(snap[p], op[p].step) \in State
        /\ Ran(snap[p], op[p].step) \in State
        /\ Reset(snap[p], op[p].step) \in State
        /\ FlipToSvConvert(snap[p]) \in State
    BY <2>1, DocumentTypes
  <2>3. ASSUME op' = [op EXCEPT ![p].pass = TRUE]
        PROVE  op' \in [Procs -> [kind : {"advance"} \union LegacyKinds, step : Steps,
                                  pass : BOOLEAN]]
    BY <2>3 DEF TypeOK
  <2>4. snap' \in [Procs -> State]
    BY <1>9, <2>2 DEF Mutate, TypeOK
  <2>5. TypeOK'
    BY <1>9, <2>1, <2>3, <2>4 DEF Mutate, TypeOK, PCs
  <2>6. LockDiscipline' /\ NeverTorn' /\ diskSynced' = TRUE /\ TmpIsCopy'
    BY <1>9, StateFileAssumption
    DEF Mutate, TypeOK, LockDiscipline, Locked, NeverTorn, TmpIsCopy
  <2>7. QED
    BY <2>5, <2>6
<1>10. ASSUME NEW p \in Procs, ControlEvaluate(p)
       PROVE  FileInv'
  BY <1>10, StateFileAssumption
  DEF ControlEvaluate, TypeOK, PCs, LockDiscipline, Locked, NeverTorn, TmpIsCopy
<1>11. ASSUME NEW p \in Procs, ControlReload(p)
       PROVE  FileInv'
  <2>1. op[p].step \in Steps /\ disk \in State
    BY DEF TypeOK, NeverTorn
  <2>2. /\ Advanced(disk, op[p].step) \in State
        /\ MarkPassed(disk, op[p].step) \in State
    BY <2>1, DocumentTypes
  <2>3. ASSUME op' = [op EXCEPT ![p].pass = TRUE]
        PROVE  op' \in [Procs -> [kind : {"advance"} \union LegacyKinds, step : Steps,
                                  pass : BOOLEAN]]
    BY <2>3 DEF TypeOK
  <2>4. snap' \in [Procs -> State]
    BY <1>11, <2>2 DEF ControlReload, TypeOK
  <2>5. TypeOK'
    BY <1>11, <2>1, <2>3, <2>4 DEF ControlReload, TypeOK, PCs
  <2>6. LockDiscipline' /\ NeverTorn' /\ diskSynced' = TRUE /\ TmpIsCopy'
    BY <1>11, StateFileAssumption
    DEF ControlReload, TypeOK, LockDiscipline, Locked, NeverTorn, TmpIsCopy
  <2>7. QED
    BY <2>5, <2>6
<1>12. ASSUME NEW p \in Procs, WriteTmp(p)
       PROVE  FileInv'
  BY <1>12, StateFileAssumption
  DEF WriteTmp, TypeOK, PCs, LockDiscipline, Locked, NeverTorn, TmpIsCopy
<1>13. ASSUME NEW p \in Procs, SyncTmp(p)
       PROVE  FileInv'
  <2>1. tmp = [data |-> snap[p], synced |-> FALSE] /\ snap[p] \in State
    BY <1>13 DEF SyncTmp, TmpIsCopy, TypeOK
  <2>2. tmp' = [data |-> snap[p], synced |-> TRUE]
    BY <1>13, <2>1 DEF SyncTmp
  <2>3. TypeOK'
    BY <1>13, <2>1, <2>2 DEF SyncTmp, TypeOK, PCs
  <2>4. LockDiscipline' /\ NeverTorn' /\ diskSynced' = TRUE
    BY <1>13 DEF SyncTmp, TypeOK, LockDiscipline, Locked, NeverTorn
  <2>5. TmpIsCopy'
    BY <1>13, <2>2 DEF SyncTmp, TypeOK, LockDiscipline, Locked, TmpIsCopy
  <2>6. QED
    BY <2>3, <2>4, <2>5
<1>14. ASSUME NEW p \in Procs, Rename(p)
       PROVE  FileInv'
  <2>1. tmp = [data |-> snap[p], synced |-> TRUE] /\ snap[p] \in State
    BY <1>14 DEF Rename, TmpIsCopy, TypeOK
  <2>2. disk' = snap[p] /\ diskSynced' = TRUE /\ disk' # Torn
    BY <1>14, <2>1, StateFileAssumption DEF Rename
  <2>3. TypeOK'
    BY <1>14, <2>1, <2>2 DEF Rename, TypeOK, PCs
  <2>4. LockDiscipline' /\ NeverTorn'
    BY <1>14, <2>2 DEF Rename, TypeOK, LockDiscipline, Locked, NeverTorn
  <2>5. TmpIsCopy'
    BY <1>14 DEF Rename, TypeOK, LockDiscipline, Locked, TmpIsCopy
  <2>6. QED
    BY <2>2, <2>3, <2>4, <2>5
<1>15. ASSUME NEW p \in Procs, SyncDir(p)
       PROVE  FileInv'
  BY <1>15, StateFileAssumption
  DEF SyncDir, TypeOK, PCs, LockDiscipline, Locked, NeverTorn, TmpIsCopy
<1>16. ASSUME NEW p \in Procs, Unlock(p)
       PROVE  FileInv'
  BY <1>16, StateFileAssumption
  DEF Unlock, TypeOK, PCs, LockDiscipline, Locked, NeverTorn, TmpIsCopy
<1>17. ASSUME NEW p \in Procs, IoError(p) \/ Kill(p)
       PROVE  FileInv'
  <2>1. /\ ErrorReturn(p)
        /\ faults' = faults + 1
        /\ UNCHANGED <<disk, durable, diskSynced, tmp, op, snap, stale, ops,
                       gated, acked, announced, raced>>
    BY <1>17 DEF IoError, Kill, Fault
  <2>2. TypeOK'
    BY <2>1 DEF ErrorReturn, TypeOK, PCs
  <2>3. LockDiscipline'
    BY <2>1, StateFileAssumption DEF ErrorReturn, TypeOK, LockDiscipline, Locked
  <2>4. NeverTorn' /\ diskSynced' = TRUE /\ TmpIsCopy'
    BY <2>1 DEF ErrorReturn, TypeOK, NeverTorn, TmpIsCopy
  <2>5. QED
    BY <2>2, <2>3, <2>4
<1>18. ASSUME HostFails
       PROVE  FileInv'
  BY <1>18, StateFileAssumption
  DEF HostFails, Fault, TypeOK, PCs, LockDiscipline, Locked, NeverTorn, TmpIsCopy, State
<1>19. CASE UNCHANGED vars
  BY <1>19 DEF vars, TypeOK, LockDiscipline, Locked, NeverTorn, TmpIsCopy
<1>20. QED
  BY <1>1, <1>2, <1>3, <1>4, <1>5, <1>6, <1>7, <1>8, <1>9, <1>10, <1>11, <1>12,
     <1>13, <1>14, <1>15, <1>16, <1>17, <1>18, <1>19
  DEF Next, Start, Step

\* So it holds in every run.
LEMMA FileInvariant == Spec => []FileInv
BY FileInvInit, FileInvStep, PTL DEF Spec

\* Every variable keeps its type, whatever operations the processes perform.
THEOREM TypeCorrect == Spec => []TypeOK
BY FileInvariant, PTL DEF FileInv

\* The flock on state.lock is held by exactly the process that is inside a
\* transaction or a save; two are never inside together.
THEOREM LockCorrect == Spec => []LockDiscipline
BY FileInvariant, PTL DEF FileInv

\* write_atomic: at no kill, I/O error or host failure is state.toml torn.
THEOREM CrashSafe == Spec => []NeverTorn
BY FileInvariant, PTL DEF FileInv

-----------------------------------------------------------------------------
(***************************************************************************)
(* Instances whose processes change the state only through transactions.   *)
(* The invariant says what a copy is worth at each point: between the load *)
(* under the lock and the rename, it is the document on disk or that       *)
(* document advanced by this operation's step.                             *)
(***************************************************************************)
CopyInv ==
    \A p \in Procs :
        LET s == op[p].step
        IN /\ pc[p] \notin {"evaluate", "reload", "mutate", "save"}
           /\ op[p].kind = "advance"
           /\ pc[p] \in {"txlock", "txload", "txbody"} => ~op[p].pass
           /\ pc[p] = "txbody" => snap[p] = disk /\ s \in Registry(disk.flow)
           /\ pc[p] = "announce" => op[p].pass
           /\ pc[p] \in {"announce", "write", "sync", "rename"} =>
                 /\ op[p].pass => s \in Registry(disk.flow)
                 /\ snap[p] = IF op[p].pass THEN Advanced(disk, s) ELSE disk
           /\ pc[p] \in {"syncdir", "unlock"} => (op[p].pass => s \in disk.passed)
           /\ pc[p] = "unlock" => durable = disk

AckedInv == acked \subseteq disk.passed /\ acked \subseteq durable.passed

TxInv == FileInv /\ CopyInv /\ AckedInv

\* Moving current_step does not touch the gates: an advance adds its own.
LEMMA AdvancedPasses ==
    ASSUME NEW st \in State, NEW s \in Steps
    PROVE  Advanced(st, s).passed = st.passed \union {s}
BY DEF Advanced, MarkPassed, State

\* Nothing is loaded, nothing is acknowledged.
LEMMA TxInvInit == Init => TxInv
<1> SUFFICES ASSUME Init PROVE TxInv
  OBVIOUS
<1>1. FileInv
  BY FileInvInit
<1>2. CopyInv
  BY DEF Init, CopyInv
<1>3. AckedInv
  BY DEF Init, AckedInv
<1>4. QED
  BY <1>1, <1>2, <1>3 DEF TxInv

\* Whoever writes holds the lock, so no copy goes stale between load and save.
LEMMA TxInvStep ==
    ASSUME Kinds = {"advance"}
    PROVE  TxInv /\ [Next]_vars => TxInv'
<1> SUFFICES ASSUME TxInv, [Next]_vars PROVE TxInv'
  OBVIOUS
<1>0. FileInv /\ FileInv'
  BY FileInvStep DEF TxInv
<1> SUFFICES CopyInv' /\ AckedInv'
  BY <1>0 DEF TxInv
<1>a. TypeOK /\ LockDiscipline /\ NeverTorn /\ diskSynced = TRUE /\ TmpIsCopy
  BY <1>0 DEF FileInv
<1> USE DEF TxInv, ghosts, file, GoTo
<1>1. ASSUME NEW p \in Procs, NEW s \in Steps, TryAdvance(p, s)
      PROVE  CopyInv' /\ AckedInv'
  BY <1>1, <1>a DEF TryAdvance, Begin, TypeOK, CopyInv, AckedInv
<1>2. ASSUME NEW p \in Procs,
             \/ \E kind \in LegacyKinds, s \in Steps : LegacyLoad(p, kind, s)
             \/ \E s \in Steps : ControlAdvance(p, s)
             \/ \E f \in Flows : InitProject(p, f)
      PROVE  FALSE
  BY <1>2 DEF LegacyLoad, ControlAdvance, InitProject, Begin, LegacyKinds
<1>3. ASSUME NEW p \in Procs, Mutate(p) \/ ControlEvaluate(p) \/ ControlReload(p)
      PROVE  FALSE
  BY <1>3 DEF Mutate, ControlEvaluate, ControlReload, CopyInv
<1>4. ASSUME NEW p \in Procs, Acquire(p)
      PROVE  CopyInv' /\ AckedInv'
  BY <1>4, <1>a DEF Acquire, TypeOK, CopyInv, AckedInv
<1>5. ASSUME NEW p \in Procs, TxLoad(p)
      PROVE  CopyInv' /\ AckedInv'
  BY <1>5, <1>a DEF TxLoad, ErrorReturn, TypeOK, CopyInv, AckedInv
<1>6. ASSUME NEW p \in Procs, TxBody(p)
      PROVE  CopyInv' /\ AckedInv'
  <2>1. \A q \in Procs : op'[q].step = op[q].step /\ op'[q].kind = op[q].kind
    BY <1>6, <1>a DEF TxBody, TypeOK
  <2>2. \A q \in Procs \ {p} : pc'[q] = pc[q] /\ op'[q] = op[q] /\ snap'[q] = snap[q]
    BY <1>6, <1>a DEF TxBody, TypeOK
  <2>3. /\ pc'[p] \in {"announce", "write"}
        /\ pc'[p] = "announce" => op'[p].pass
        /\ snap'[p] = IF op'[p].pass THEN Advanced(disk, op[p].step) ELSE disk
    BY <1>6, <1>a DEF TxBody, TypeOK, CopyInv
  <2>4. disk' = disk /\ durable' = durable /\ acked' = acked
    BY <1>6 DEF TxBody
  <2>5. op[p].step \in Registry(disk.flow)
    BY <1>6 DEF TxBody, CopyInv
  <2>6. CopyInv'
    BY <2>1, <2>2, <2>3, <2>4, <2>5 DEF CopyInv
  <2>7. QED
    BY <2>4, <2>6 DEF AckedInv
<1>7. ASSUME NEW p \in Procs, Announce(p)
      PROVE  CopyInv' /\ AckedInv'
  BY <1>7, <1>a DEF Announce, TypeOK, CopyInv, AckedInv
<1>8. ASSUME NEW p \in Procs, WriteTmp(p) \/ SyncTmp(p)
      PROVE  CopyInv' /\ AckedInv'
  BY <1>8, <1>a DEF WriteTmp, SyncTmp, TypeOK, CopyInv, AckedInv
<1>9. ASSUME NEW p \in Procs, Rename(p)
      PROVE  CopyInv' /\ AckedInv'
  <2>1. disk' = snap[p] /\ durable' = durable /\ op' = op /\ snap' = snap
    BY <1>9, <1>a DEF Rename, TmpIsCopy
  <2>2. snap[p] = IF op[p].pass THEN Advanced(disk, op[p].step) ELSE disk
    BY <1>9 DEF Rename, CopyInv
  <2>3. /\ disk.passed \subseteq disk'.passed
        /\ op[p].pass => op[p].step \in disk'.passed
    BY <2>1, <2>2, <1>a, AdvancedPasses DEF TypeOK, NeverTorn
  <2>4. acked' \subseteq acked
    BY <1>9 DEF Rename
  <2>5. \A q \in Procs \ {p} : pc'[q] = pc[q] /\ pc[q] \notin Locked
    BY <1>9, <1>a DEF Rename, TypeOK, LockDiscipline, Locked
  <2>6. pc'[p] = "syncdir"
    BY <1>9, <1>a DEF Rename, TypeOK
  <2>7. CopyInv'
    BY <2>1, <2>3, <2>5, <2>6 DEF CopyInv, Locked
  <2>8. QED
    BY <2>1, <2>3, <2>4, <2>7 DEF AckedInv
<1>10. ASSUME NEW p \in Procs, SyncDir(p)
       PROVE  CopyInv' /\ AckedInv'
  BY <1>10, <1>a DEF SyncDir, TypeOK, LockDiscipline, Locked, CopyInv, AckedInv
<1>11. ASSUME NEW p \in Procs, Unlock(p)
       PROVE  CopyInv' /\ AckedInv'
  BY <1>11, <1>a DEF Unlock, TypeOK, CopyInv, AckedInv
<1>12. ASSUME NEW p \in Procs, IoError(p) \/ Kill(p)
       PROVE  CopyInv' /\ AckedInv'
  BY <1>12, <1>a DEF IoError, Kill, ErrorReturn, TypeOK, CopyInv, AckedInv
<1>13. ASSUME HostFails
       PROVE  CopyInv' /\ AckedInv'
  BY <1>13, <1>a DEF HostFails, TypeOK, CopyInv, AckedInv
<1>14. CASE UNCHANGED vars
  BY <1>14 DEF vars, CopyInv, AckedInv
<1>15. QED
  BY <1>1, <1>2, <1>3, <1>4, <1>5, <1>6, <1>7, <1>8, <1>9, <1>10, <1>11, <1>12,
     <1>13, <1>14
  DEF Next, Start, Step

\* So it holds in every run of such an instance.
LEMMA TxInvariant == ASSUME Kinds = {"advance"} PROVE Spec => []TxInv
BY TxInvInit, TxInvStep, PTL DEF Spec

\* Among drivers that advance only by State::transaction, an advance that
\* returned to its caller is never lost, by a race or by a failure.
THEOREM AdvancesSurvive ==
    ASSUME Kinds = {"advance"}
    PROVE  Spec => []AckedSurvives
<1>1. TxInv => AckedSurvives
  BY DEF TxInv, FileInv, NeverTorn, AckedInv, AckedSurvives
<1>2. QED
  BY <1>1, TxInvariant, PTL

\* The same instances implement the abstract store: every step of the file
\* protocol is one atomic advance of the document, the moment the document
\* becomes durable, a host failure, or no change.
THEOREM TransactionsImplementStore ==
    ASSUME Kinds = {"advance"}
    PROVE  Spec => ImplementsStore
<1>1. Init => Store!StoreInit
  BY DEF Init, Store!StoreInit, Store!New, New, Store!Flows, Flows
<1>2. TxInv /\ [Next]_vars => [Store!StoreNext]_(Store!storeVars)
  <2> SUFFICES ASSUME TxInv, [Next]_vars
               PROVE  [Store!StoreNext]_(Store!storeVars)
    OBVIOUS
  <2> USE DEF file, Store!storeVars
  <2>1. ASSUME NEW p \in Procs, Rename(p)
        PROVE  Store!StoreAdvance \/ UNCHANGED <<disk, durable>>
    <3>1. disk' = snap[p] /\ durable' = durable
      BY <2>1 DEF Rename, TxInv, FileInv, TmpIsCopy
    <3>2. /\ op[p].pass => op[p].step \in Registry(disk.flow)
          /\ snap[p] = IF op[p].pass THEN Advanced(disk, op[p].step) ELSE disk
      BY <2>1 DEF Rename, TxInv, CopyInv
    <3>3. QED
      BY <3>1, <3>2
      DEF Store!StoreAdvance, Store!Registry, Registry, Store!Advanced, Advanced,
          Store!MarkPassed, MarkPassed, Store!HasNext, HasNext, Store!NextStep, NextStep
  <2>2. ASSUME NEW p \in Procs, SyncDir(p)
        PROVE  Store!Persist
    BY <2>2 DEF SyncDir, Store!Persist
  <2>3. ASSUME HostFails
        PROVE  Store!HostFailure
    BY <2>3 DEF HostFails, TxInv, FileInv, Store!HostFailure
  <2>4. ASSUME NEW p \in Procs, Start(p) \/ IoError(p) \/ Kill(p)
        PROVE  UNCHANGED <<disk, durable>>
    BY <2>4 DEF Start, TryAdvance, LegacyLoad, ControlAdvance, InitProject, IoError, Kill
  <2>5. ASSUME NEW p \in Procs,
               \/ Acquire(p) \/ TxLoad(p) \/ TxBody(p) \/ Announce(p) \/ Mutate(p)
               \/ ControlEvaluate(p) \/ ControlReload(p) \/ WriteTmp(p) \/ SyncTmp(p)
               \/ Unlock(p)
        PROVE  UNCHANGED <<disk, durable>>
    BY <2>5 DEF Acquire, TxLoad, TxBody, Announce, Mutate, ControlEvaluate,
                ControlReload, WriteTmp, SyncTmp, Unlock
  <2>6. CASE UNCHANGED vars
    BY <2>6 DEF vars
  <2>7. QED
    BY <2>1, <2>2, <2>3, <2>4, <2>5, <2>6 DEF Next, Step, Store!StoreNext
<1>3. QED
  BY <1>1, <1>2, TxInvariant, PTL DEF Spec, ImplementsStore, Store!StoreSpec

-----------------------------------------------------------------------------
(***************************************************************************)
(* Every instance, whatever its writers: until a copy that somebody else's *)
(* save has overtaken is saved, the file is what the operations made of it *)
(* one after another.  None of the three properties is inductive alone:    *)
(* each needs to know what a copy read since the last save is worth at     *)
(* every control state of its operation.                                   *)
(***************************************************************************)
\* A document is about one flow: its current step and its passed gates are of
\* the flow it names.
AboutOneFlow(st) ==
    st.current \in Registry(st.flow) /\ st.passed \subseteq Registry(st.flow)

\* What an operation makes of the document it loaded.
Result(o, st) ==
    CASE o.kind = "reset" -> Reset(st, o.step)
      [] o.kind = "convert" -> FlipToSvConvert(st)
      [] o.kind = "run" -> IF o.pass THEN Ran(st, o.step) ELSE st
      [] OTHER -> IF o.pass THEN Advanced(st, o.step) ELSE st

\* Control states in which the changed copy waits to become the file.
Changed == {"announce", "save", "write", "sync", "rename"}

\* Which operations reach a control state, and whether they may have passed
\* their gate there.
KindInv ==
    \A p \in Procs :
        /\ pc[p] \in {"txlock", "txload", "txbody"} => op[p].kind = "advance" /\ ~op[p].pass
        /\ pc[p] \in {"evaluate", "reload"} => op[p].kind = "control_advance" /\ ~op[p].pass
        /\ pc[p] = "mutate" =>
              op[p].kind \in LegacyKinds \ {"control_advance", "init"} /\ ~op[p].pass
        /\ pc[p] \in Changed /\ op[p].kind = "init" => snap[p] = New(op[p].step[1])
        /\ op[p].kind \in {"reset", "convert", "init"} => ~op[p].pass

\* A copy read since the last save is the document on disk, changed by its
\* operation and by nothing else; the gate it records was found clean since.
FreshInv ==
    \A p \in Procs \ stale :
        /\ pc[p] \in {"txbody", "mutate"} =>
              snap[p] = disk /\ op[p].step \in Registry(disk.flow)
        /\ pc[p] \in {"mutate"} \union Changed /\ op[p].kind = "convert" =>
              disk.flow = "dm"
        /\ pc[p] \in {"evaluate", "reload"} => op[p].step \in Registry(disk.flow)
        /\ pc[p] = "reload" => op[p].step \in gated
        /\ pc[p] \in Changed /\ op[p].kind # "init" =>
              /\ snap[p] = Result(op[p], disk)
              /\ op[p].step \in Registry(disk.flow)
              /\ op[p].pass => op[p].step \in gated

\* An operation about to return has its step in the file, then durably.
ReturnInv ==
    \A p \in Procs :
        /\ pc[p] \in {"syncdir", "unlock"} => (op[p].pass => op[p].step \in disk.passed)
        /\ pc[p] = "unlock" => durable = disk

\* What is on disk and what a host failure leaves.
DocumentInv ==
    /\ AboutOneFlow(disk) /\ AboutOneFlow(durable)
    /\ disk.passed \subseteq gated
    /\ acked \subseteq disk.passed
    /\ acked \subseteq durable.passed

Unraced == FreshInv /\ ReturnInv /\ DocumentInv

MixedInv == FileInv /\ KindInv /\ (raced \/ Unraced)

\* Every instance starts with one fresh document and nothing promised.
LEMMA MixedInvInit == Init => MixedInv
<1> SUFFICES ASSUME Init PROVE MixedInv
  OBVIOUS
<1>1. FileInv
  BY FileInvInit
<1>2. KindInv
  BY DEF Init, KindInv, Changed
<1>3. PICK f \in Flows : disk = New(f) /\ durable = New(f)
  BY DEF Init
<1>4. AboutOneFlow(New(f)) /\ New(f).passed = {}
  BY LengthAssumption DEF AboutOneFlow, New, Registry
<1>5. FreshInv /\ ReturnInv
  BY DEF Init, FreshInv, ReturnInv, Changed
<1>6. DocumentInv
  BY <1>3, <1>4 DEF Init, DocumentInv
<1>7. QED
  BY <1>1, <1>2, <1>5, <1>6 DEF MixedInv, Unraced

\* An operation's result on a document of its own flow is about that flow; it
\* loses the gates the operation takes back and gains the one it passes.
LEMMA ResultFacts ==
    ASSUME NEW st \in State, AboutOneFlow(st),
           NEW o \in [kind : {"advance"} \union LegacyKinds, step : Steps, pass : BOOLEAN],
           o.step \in Registry(st.flow),
           o.kind # "init",
           o.kind = "convert" => st.flow = "dm",
           o.kind \in {"reset", "convert"} => ~o.pass
    PROVE  /\ Result(o, st) \in State
           /\ AboutOneFlow(Result(o, st))
           /\ Result(o, st).passed =
                 (st.passed \ Undone(o)) \union (IF o.pass THEN {o.step} ELSE {})
           /\ o.pass => Undone(o) = {}
<1> DEFINE s == o.step
<1>1. s \in Steps /\ s[1] = st.flow /\ st.flow \in Flows
  BY RegistryFacts DEF State
<1>2. HasNext(s) => NextStep(s) \in Registry(st.flow)
  BY <1>1, StepFacts
<1>3. st.current \in Registry(st.flow) /\ st.passed \subseteq Registry(st.flow)
  BY DEF AboutOneFlow
<1>4. Result(o, st) \in State
  BY <1>1, DocumentTypes DEF Result
<1>5. CASE o.kind = "reset"
  <2>1. Result(o, st) = Reset(st, s) /\ Undone(o) = Downstream(s) /\ ~o.pass
    BY <1>5 DEF Result, Undone
  <2>2. /\ Reset(st, s).flow = st.flow /\ Reset(st, s).current = s
        /\ Reset(st, s).passed = st.passed \ Downstream(s)
    BY DEF Reset, State
  <2>3. AboutOneFlow(Result(o, st))
    BY <1>3, <2>1, <2>2 DEF AboutOneFlow
  <2>4. QED
    BY <1>4, <2>1, <2>2, <2>3
<1>6. CASE o.kind = "convert"
  <2>1. Result(o, st) = FlipToSvConvert(st) /\ Undone(o) = Steps /\ ~o.pass
    BY <1>6 DEF Result, Undone
  <2>2. /\ FlipToSvConvert(st).flow = "sv"
        /\ FlipToSvConvert(st).current = <<"sv", 1>>
        /\ FlipToSvConvert(st).passed = {}
    BY <1>6 DEF FlipToSvConvert, State
  <2>3. <<"sv", 1>> \in Registry("sv")
    BY LengthAssumption DEF Registry, Flows
  <2>4. AboutOneFlow(Result(o, st))
    BY <2>1, <2>2, <2>3 DEF AboutOneFlow
  <2>5. QED
    BY <1>4, <2>1, <2>2, <2>4 DEF State
<1>7. CASE o.kind \notin {"reset", "convert"}
  <2>1. Undone(o) = {}
    BY <1>7 DEF Undone
  <2>2. CASE ~o.pass
    <3>1. Result(o, st) = st
      BY <1>7, <2>2 DEF Result
    <3>2. QED
      BY <1>4, <2>1, <2>2, <3>1
  <2>3. CASE o.pass /\ o.kind = "run"
    <3>1. Result(o, st) = Ran(st, s)
      BY <2>3 DEF Result
    <3>2. /\ Ran(st, s).flow = st.flow /\ Ran(st, s).current = s
          /\ Ran(st, s).passed = st.passed \union {s}
      BY DEF Ran, MarkPassed, State
    <3>3. QED
      BY <1>3, <1>4, <2>1, <2>3, <3>1, <3>2 DEF AboutOneFlow
  <2>4. CASE o.pass /\ o.kind # "run"
    <3>1. Result(o, st) = Advanced(st, s)
      BY <1>7, <2>4 DEF Result
    <3>2. /\ Advanced(st, s).flow = st.flow
          /\ Advanced(st, s).current = IF HasNext(s) THEN NextStep(s) ELSE st.current
          /\ Advanced(st, s).passed = st.passed \union {s}
      BY DEF Advanced, MarkPassed, State
    <3>3. QED
      BY <1>2, <1>3, <1>4, <2>1, <2>4, <3>1, <3>2 DEF AboutOneFlow
  <2>5. QED
    BY <2>2, <2>3, <2>4
<1>8. QED
  BY <1>5, <1>6, <1>7

\* Which operation is where survives every step.
LEMMA KindInvStep == FileInv /\ KindInv /\ [Next]_vars => KindInv'
<1> SUFFICES ASSUME FileInv, KindInv, [Next]_vars PROVE KindInv'
  OBVIOUS
<1>a. TypeOK
  BY DEF FileInv
<1> USE <1>a DEF GoTo, KindInv, TypeOK, Changed
<1>1. ASSUME NEW p \in Procs, NEW s \in Steps, TryAdvance(p, s)
      PROVE  KindInv'
  BY <1>1 DEF TryAdvance, Begin
<1>2. ASSUME NEW p \in Procs, NEW kind \in LegacyKinds, NEW s \in Steps,
             LegacyLoad(p, kind, s)
      PROVE  KindInv'
  BY <1>2 DEF LegacyLoad, Begin
<1>3. ASSUME NEW p \in Procs, NEW s \in Steps, ControlAdvance(p, s)
      PROVE  KindInv'
  BY <1>3 DEF ControlAdvance, Begin
<1>4. ASSUME NEW p \in Procs, NEW f \in Flows, InitProject(p, f)
      PROVE  KindInv'
  BY <1>4 DEF InitProject, Begin
<1>5. ASSUME NEW p \in Procs, Acquire(p)
      PROVE  KindInv'
  BY <1>5 DEF Acquire
<1>6. ASSUME NEW p \in Procs, TxLoad(p)
      PROVE  KindInv'
  BY <1>6 DEF TxLoad, ErrorReturn
<1>7. ASSUME NEW p \in Procs, TxBody(p)
      PROVE  KindInv'
  BY <1>7 DEF TxBody
<1>8. ASSUME NEW p \in Procs, Mutate(p)
      PROVE  KindInv'
  BY <1>8 DEF Mutate
<1>9. ASSUME NEW p \in Procs, ControlEvaluate(p)
      PROVE  KindInv'
  BY <1>9 DEF ControlEvaluate
<1>10. ASSUME NEW p \in Procs, ControlReload(p)
       PROVE  KindInv'
  BY <1>10 DEF ControlReload
<1>11. ASSUME NEW p \in Procs,
              \/ Announce(p) \/ WriteTmp(p) \/ SyncTmp(p) \/ Rename(p) \/ SyncDir(p)
              \/ Unlock(p)
       PROVE  KindInv'
  BY <1>11 DEF Announce, WriteTmp, SyncTmp, Rename, SyncDir, Unlock
<1>12. ASSUME NEW p \in Procs, IoError(p) \/ Kill(p)
       PROVE  KindInv'
  BY <1>12 DEF IoError, Kill, ErrorReturn
<1>13. ASSUME HostFails
       PROVE  KindInv'
  BY <1>13 DEF HostFails
<1>14. CASE UNCHANGED vars
  BY <1>14 DEF vars
<1>15. QED
  BY <1>1, <1>2, <1>3, <1>4, <1>5, <1>6, <1>7, <1>8, <1>9, <1>10, <1>11, <1>12,
     <1>13, <1>14
  DEF Next, Start, Step

\* Until a race, every step keeps what a fresh copy is worth and what the
\* file promises; the one step that may not is a race itself.
LEMMA UnracedStep ==
    FileInv /\ KindInv /\ Unraced /\ [Next]_vars => raced' \/ Unraced'
<1> SUFFICES ASSUME FileInv, KindInv, Unraced, [Next]_vars
             PROVE  raced' \/ Unraced'
  OBVIOUS
<1>0. FileInv'
  BY FileInvStep
<1>a. /\ TypeOK /\ LockDiscipline /\ NeverTorn /\ diskSynced = TRUE /\ TmpIsCopy
      /\ disk \in State /\ durable \in State /\ disk # Torn
  BY DEF FileInv, TypeOK, NeverTorn
<1>b. FreshInv /\ ReturnInv /\ DocumentInv
  BY DEF Unraced
<1>c. /\ AboutOneFlow(disk) /\ AboutOneFlow(durable)
      /\ disk.passed \subseteq gated /\ acked \subseteq disk.passed
      /\ acked \subseteq durable.passed
  BY <1>b DEF DocumentInv
<1> USE DEF GoTo, file, ghosts
<1>d. ASSUME UNCHANGED <<disk, durable, acked>>, gated \subseteq gated'
      PROVE  DocumentInv'
  BY <1>c, <1>d DEF DocumentInv
<1>1. ASSUME NEW p \in Procs, NEW s \in Steps, TryAdvance(p, s)
      PROVE  Unraced'
  <2>1. DocumentInv'
    BY <1>1, <1>d DEF TryAdvance
  <2>2. FreshInv' /\ ReturnInv'
    BY <1>1, <1>a, <1>b DEF TryAdvance, Begin, TypeOK, FreshInv, ReturnInv, Changed
  <2>3. QED
    BY <2>1, <2>2 DEF Unraced
<1>2. ASSUME NEW p \in Procs, NEW kind \in LegacyKinds, NEW s \in Steps,
             LegacyLoad(p, kind, s)
      PROVE  Unraced'
  <2>1. DocumentInv'
    BY <1>2, <1>d DEF LegacyLoad
  <2>2. /\ s \in Registry(disk.flow)
        /\ kind = "convert" => disk.flow = "dm"
    BY <1>2, <1>a, LengthAssumption
    DEF LegacyLoad, Admitted, LegacyKinds, Registry, Last, Flows
  <2>3. /\ \A q \in Procs \ {p} : pc'[q] = pc[q] /\ op'[q] = op[q] /\ snap'[q] = snap[q]
        /\ pc'[p] = "mutate" /\ snap'[p] = disk
        /\ op'[p].step = s /\ op'[p].kind = kind
        /\ stale' \subseteq stale /\ \A q \in Procs \ {p} : q \in stale => q \in stale'
        /\ UNCHANGED <<disk, durable, gated>>
    BY <1>2, <1>a DEF LegacyLoad, Begin, TypeOK
  <2>4. FreshInv' /\ ReturnInv'
    BY <1>b, <2>2, <2>3 DEF FreshInv, ReturnInv, Changed
  <2>5. QED
    BY <2>1, <2>4 DEF Unraced
<1>3. ASSUME NEW p \in Procs, NEW s \in Steps, ControlAdvance(p, s)
      PROVE  Unraced'
  <2>1. DocumentInv'
    BY <1>3, <1>d DEF ControlAdvance
  <2>2. FreshInv' /\ ReturnInv'
    BY <1>3, <1>a, <1>b DEF ControlAdvance, Begin, TypeOK, FreshInv, ReturnInv, Changed
  <2>3. QED
    BY <2>1, <2>2 DEF Unraced
<1>4. ASSUME NEW p \in Procs, NEW f \in Flows, InitProject(p, f)
      PROVE  Unraced'
  <2>1. DocumentInv'
    BY <1>4, <1>d DEF InitProject
  <2>2. FreshInv' /\ ReturnInv'
    BY <1>4, <1>a, <1>b DEF InitProject, Begin, TypeOK, FreshInv, ReturnInv, Changed
  <2>3. QED
    BY <2>1, <2>2 DEF Unraced
<1>5. ASSUME NEW p \in Procs, Acquire(p)
      PROVE  Unraced'
  <2>1. DocumentInv'
    BY <1>5, <1>d DEF Acquire
  <2>2. FreshInv' /\ ReturnInv'
    BY <1>5, <1>a, <1>b DEF Acquire, TypeOK, FreshInv, ReturnInv, Changed
  <2>3. QED
    BY <2>1, <2>2 DEF Unraced
<1>6. ASSUME NEW p \in Procs, TxLoad(p)
      PROVE  Unraced'
  <2>1. DocumentInv'
    BY <1>6, <1>d DEF TxLoad
  <2>2. op[p].kind = "advance"
    BY <1>6 DEF TxLoad, KindInv
  <2>3. FreshInv' /\ ReturnInv'
    BY <1>6, <1>a, <1>b, <2>2
    DEF TxLoad, ErrorReturn, TypeOK, FreshInv, ReturnInv, Changed
  <2>4. QED
    BY <2>1, <2>3 DEF Unraced
<1>7. ASSUME NEW p \in Procs, TxBody(p)
      PROVE  Unraced'
  <2>1. DocumentInv'
    BY <1>7, <1>d DEF TxBody
  <2>2. op[p].kind = "advance" /\ ~op[p].pass
    BY <1>7 DEF TxBody, KindInv
  <2>3. /\ \A q \in Procs \ {p} : pc'[q] = pc[q] /\ op'[q] = op[q] /\ snap'[q] = snap[q]
        /\ pc'[p] \in {"announce", "write"}
        /\ op'[p].step = op[p].step /\ op'[p].kind = "advance"
        /\ gated \subseteq gated'
        /\ UNCHANGED <<disk, durable, stale>>
    BY <1>7, <1>a, <2>2 DEF TxBody, TypeOK
  <2>4. /\ snap'[p] = IF op'[p].pass THEN Advanced(snap[p], op[p].step) ELSE snap[p]
        /\ op'[p].pass => op[p].step \in gated'
    BY <1>7, <1>a, <2>2 DEF TxBody, TypeOK
  <2>5. p \notin stale => /\ snap'[p] = Result(op'[p], disk)
                          /\ op[p].step \in Registry(disk.flow)
    BY <1>7, <1>b, <2>3, <2>4 DEF TxBody, FreshInv, Result
  <2>6. FreshInv' /\ ReturnInv'
    BY <1>b, <2>3, <2>4, <2>5 DEF FreshInv, ReturnInv, Changed
  <2>7. QED
    BY <2>1, <2>6 DEF Unraced
<1>8. ASSUME NEW p \in Procs, Announce(p)
      PROVE  Unraced'
  <2>1. DocumentInv'
    BY <1>8, <1>d DEF Announce
  <2>2. FreshInv' /\ ReturnInv'
    BY <1>8, <1>a, <1>b DEF Announce, TypeOK, FreshInv, ReturnInv, Changed
  <2>3. QED
    BY <2>1, <2>2 DEF Unraced
<1>9. ASSUME NEW p \in Procs, Mutate(p)
      PROVE  Unraced'
  <2>1. DocumentInv'
    BY <1>9, <1>d DEF Mutate
  <2>2. op[p].kind \in LegacyKinds \ {"control_advance", "init"} /\ ~op[p].pass
    BY <1>9 DEF Mutate, KindInv
  <2>3. /\ \A q \in Procs \ {p} : pc'[q] = pc[q] /\ op'[q] = op[q] /\ snap'[q] = snap[q]
        /\ pc'[p] \in {"idle", "save"}
        /\ op'[p].step = op[p].step /\ op'[p].kind = op[p].kind
        /\ gated \subseteq gated'
        /\ UNCHANGED <<disk, durable, stale>>
    BY <1>9, <1>a, <2>2 DEF Mutate, TypeOK
  <2>4. /\ pc'[p] = "save" => snap'[p] = Result(op'[p], snap[p])
        /\ op'[p].pass => op[p].step \in gated'
    BY <1>9, <1>a, <2>2 DEF Mutate, TypeOK, Result
  <2>5. p \notin stale => /\ snap[p] = disk
                          /\ op[p].step \in Registry(disk.flow)
                          /\ op[p].kind = "convert" => disk.flow = "dm"
    BY <1>9, <1>b DEF Mutate, FreshInv
  <2>6. FreshInv' /\ ReturnInv'
    BY <1>b, <2>3, <2>4, <2>5 DEF FreshInv, ReturnInv, Changed
  <2>7. QED
    BY <2>1, <2>6 DEF Unraced
<1>10. ASSUME NEW p \in Procs, ControlEvaluate(p)
       PROVE  Unraced'
  <2>1. DocumentInv'
    BY <1>10, <1>d DEF ControlEvaluate
  <2>2. FreshInv' /\ ReturnInv'
    BY <1>10, <1>a, <1>b DEF ControlEvaluate, TypeOK, FreshInv, ReturnInv, Changed
  <2>3. QED
    BY <2>1, <2>2 DEF Unraced
<1>11. ASSUME NEW p \in Procs, ControlReload(p)
       PROVE  Unraced'
  <2>1. DocumentInv'
    BY <1>11, <1>d DEF ControlReload
  <2>2. op[p].kind = "control_advance"
    BY <1>11 DEF ControlReload, KindInv
  <2>3. /\ \A q \in Procs \ {p} : pc'[q] = pc[q] /\ op'[q] = op[q] /\ snap'[q] = snap[q]
        /\ pc'[p] = "save"
        /\ op'[p].step = op[p].step /\ op'[p].kind = "control_advance" /\ op'[p].pass
        /\ UNCHANGED <<disk, durable, stale, gated>>
    BY <1>11, <1>a, <2>2 DEF ControlReload, TypeOK
  <2>4. p \notin stale => op[p].step \in Registry(disk.flow) /\ op[p].step \in gated
    BY <1>11, <1>b DEF ControlReload, FreshInv
  <2>5. p \notin stale => snap'[p] = Result(op'[p], disk)
    BY <1>11, <1>a, <2>3, <2>4 DEF ControlReload, Result, TypeOK
  <2>6. FreshInv' /\ ReturnInv'
    BY <1>b, <2>3, <2>4, <2>5 DEF FreshInv, ReturnInv, Changed
  <2>7. QED
    BY <2>1, <2>6 DEF Unraced
<1>12. ASSUME NEW p \in Procs, WriteTmp(p) \/ SyncTmp(p)
       PROVE  Unraced'
  <2>1. DocumentInv'
    BY <1>12, <1>d DEF WriteTmp, SyncTmp
  <2>2. FreshInv' /\ ReturnInv'
    BY <1>12, <1>a, <1>b DEF WriteTmp, SyncTmp, TypeOK, FreshInv, ReturnInv, Changed
  <2>3. QED
    BY <2>1, <2>2 DEF Unraced
<1>13. ASSUME NEW p \in Procs, Rename(p)
       PROVE  raced' \/ Unraced'
  <2>1. /\ disk' = snap[p] /\ durable' = durable /\ op' = op /\ snap' = snap
        /\ stale' = Procs \ {p}
        /\ raced' = (raced \/ (p \in stale /\ op[p].kind # "init"))
        /\ acked' = acked \ Undone(op[p]) /\ gated' = gated \ Undone(op[p])
        /\ pc'[p] = "syncdir" /\ pc[p] = "rename"
    BY <1>13, <1>a DEF Rename, TmpIsCopy, TypeOK
  <2>2. \A q \in Procs \ {p} : pc'[q] = pc[q] /\ pc[q] \notin Locked
    BY <1>13, <1>a DEF Rename, TypeOK, LockDiscipline, Locked
  <2>3. op[p] \in [kind : {"advance"} \union LegacyKinds, step : Steps, pass : BOOLEAN]
    BY <1>a DEF TypeOK
  <2>4. op[p].kind \in {"reset", "convert", "init"} => ~op[p].pass
    BY DEF KindInv
  <2>5. FreshInv'
    BY <2>1, <2>2 DEF FreshInv, Changed
  <2>6. CASE op[p].kind = "init"
    <3>1. PICK f \in Flows : disk' = New(f)
      BY <2>1, <2>3, <2>6 DEF KindInv, Changed, Steps, Registry
    <3>2. AboutOneFlow(New(f)) /\ New(f).passed = {}
      BY LengthAssumption DEF AboutOneFlow, New, Registry
    <3>3. Undone(op[p]) = Steps
      BY <2>6 DEF Undone
    <3>4. acked' = {}
      BY <1>a, <2>1, <3>3 DEF TypeOK
    <3>5. DocumentInv'
      BY <1>c, <2>1, <3>1, <3>2, <3>4 DEF DocumentInv
    <3>6. ReturnInv'
      BY <2>1, <2>2, <2>4, <2>6 DEF ReturnInv, Locked
    <3>7. QED
      BY <2>5, <3>5, <3>6 DEF Unraced
  <2>7. CASE op[p].kind # "init" /\ p \notin stale
    <3>1. /\ snap[p] = Result(op[p], disk)
          /\ op[p].step \in Registry(disk.flow)
          /\ op[p].pass => op[p].step \in gated
          /\ op[p].kind = "convert" => disk.flow = "dm"
      BY <1>b, <2>1, <2>7 DEF FreshInv, Changed
    <3>2. /\ AboutOneFlow(disk')
          /\ disk'.passed =
                (disk.passed \ Undone(op[p])) \union (IF op[p].pass THEN {op[p].step} ELSE {})
          /\ op[p].pass => Undone(op[p]) = {}
      BY <1>a, <1>c, <2>1, <2>3, <2>4, <2>7, <3>1, ResultFacts
    <3>3. DocumentInv'
      BY <1>c, <2>1, <3>1, <3>2 DEF DocumentInv
    <3>4. ReturnInv'
      BY <2>1, <2>2, <3>2 DEF ReturnInv, Locked
    <3>5. QED
      BY <2>5, <3>3, <3>4 DEF Unraced
  <2>8. QED
    BY <2>1, <2>6, <2>7
<1>14. ASSUME NEW p \in Procs, SyncDir(p)
       PROVE  Unraced'
  <2>1. DocumentInv'
    BY <1>14, <1>c DEF SyncDir, DocumentInv
  <2>2. FreshInv'
    BY <1>14, <1>a, <1>b DEF SyncDir, TypeOK, FreshInv, Changed
  <2>3. ReturnInv'
    BY <1>14, <1>a, <1>b DEF SyncDir, TypeOK, LockDiscipline, Locked, ReturnInv
  <2>4. QED
    BY <2>1, <2>2, <2>3 DEF Unraced
<1>15. ASSUME NEW p \in Procs, Unlock(p)
       PROVE  Unraced'
  <2>1. op[p].pass => op[p].step \in disk.passed /\ op[p].step \in durable.passed
    BY <1>15, <1>b DEF Unlock, ReturnInv
  <2>2. DocumentInv'
    BY <1>15, <1>c, <2>1 DEF Unlock, DocumentInv
  <2>3. FreshInv' /\ ReturnInv'
    BY <1>15, <1>a, <1>b DEF Unlock, TypeOK, FreshInv, ReturnInv, Changed
  <2>4. QED
    BY <2>2, <2>3 DEF Unraced
<1>16. ASSUME NEW p \in Procs, IoError(p) \/ Kill(p)
       PROVE  Unraced'
  <2>1. DocumentInv'
    BY <1>16, <1>d DEF IoError, Kill
  <2>2. FreshInv' /\ ReturnInv'
    BY <1>16, <1>a, <1>b
    DEF IoError, Kill, ErrorReturn, TypeOK, FreshInv, ReturnInv, Changed
  <2>3. QED
    BY <2>1, <2>2 DEF Unraced
<1>17. ASSUME HostFails
       PROVE  Unraced'
  <2>1. /\ disk' \in {disk, durable} /\ durable' = disk' /\ disk' # Torn
        /\ acked' = acked /\ gated' = gated \union disk'.passed
    BY <1>17, <1>0, <1>a DEF HostFails, FileInv, NeverTorn
  <2>2. DocumentInv'
    BY <1>c, <2>1 DEF DocumentInv
  <2>3. FreshInv' /\ ReturnInv'
    BY <1>17 DEF HostFails, FreshInv, ReturnInv, Changed
  <2>4. QED
    BY <2>2, <2>3 DEF Unraced
<1>18. CASE UNCHANGED vars
  BY <1>18, <1>b DEF vars, Unraced, FreshInv, ReturnInv, DocumentInv, Changed
<1>19. QED
  BY <1>1, <1>2, <1>3, <1>4, <1>5, <1>6, <1>7, <1>8, <1>9, <1>10, <1>11, <1>12,
     <1>13, <1>14, <1>15, <1>16, <1>17, <1>18
  DEF Next, Start, Step

\* A race is not taken back.
LEMMA RacedStays == raced /\ [Next]_vars => raced'
BY DEF Next, Start, Step, vars, ghosts, file, TryAdvance, LegacyLoad, ControlAdvance,
       InitProject, Acquire, TxLoad, TxBody, Announce, Mutate, ControlEvaluate,
       ControlReload, WriteTmp, SyncTmp, Rename, SyncDir, Unlock, IoError, Kill, HostFails

\* So the invariant of the mixed writers holds in every run.
LEMMA MixedInvariant == Spec => []MixedInv
<1>1. MixedInv /\ [Next]_vars => MixedInv'
  BY FileInvStep, KindInvStep, UnracedStep, RacedStays DEF MixedInv
<1>2. QED
  BY <1>1, MixedInvInit, PTL DEF Spec

\* Whatever the writers, an advance that returned to its caller is missing
\* from state.toml only after some operation saved a copy it had read before
\* another operation's save.
THEOREM OnlyARaceLosesAnAdvance == Spec => []LossNeedsRace
<1>1. MixedInv => LossNeedsRace
  BY DEF MixedInv, FileInv, NeverTorn, Unraced, DocumentInv, LossNeedsRace, AckedSurvives
<1>2. QED
  BY <1>1, MixedInvariant, PTL

\* Short of such a race, a gate a reset, a conversion or an init took back is
\* stored as passed again only when an evaluation since then found it clean.
THEOREM ResetsHold == Spec => []ResetIsFinal
<1>1. MixedInv => ResetIsFinal
  BY DEF MixedInv, FileInv, NeverTorn, Unraced, DocumentInv, ResetIsFinal
<1>2. QED
  BY <1>1, MixedInvariant, PTL

\* Short of such a race, the document never mixes two flows: its current step
\* and its passed gates are steps of the flow it names.
THEOREM DocumentIsAboutOneFlow == Spec => []OneFlow
<1>1. MixedInv => OneFlow
  BY DEF MixedInv, FileInv, NeverTorn, Unraced, DocumentInv, AboutOneFlow, OneFlow
<1>2. QED
  BY <1>1, MixedInvariant, PTL
=============================================================================
