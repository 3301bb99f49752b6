----------------------------- MODULE StateFile -----------------------------
(***************************************************************************)
(* Several sim-flow processes (auto drivers, the dashboard's control       *)
(* socket, one-shot CLI commands) changing one .sim-flow/state.toml.       *)
(*                                                                         *)
(* An auto driver's advance is a State::transaction: the state.lock flock  *)
(* is held over load, gate evaluation, mark and save.  Every other writer  *)
(* loads without the lock, works on its copy, and takes the lock only in   *)
(* State::save.  A save is write_atomic: temporary file, fsync, rename,    *)
(* fsync of the directory.  A process can be killed and the host can fail  *)
(* between any two of these steps.                                         *)
(*                                                                         *)
(* Gate evaluation and the LLM sessions are the environment: their verdict *)
(* is a nondeterministic choice.                                           *)
(***************************************************************************)
EXTENDS FlowState

CONSTANTS Procs,      \* the sim-flow processes
          None,       \* no process holds the lock / no temporary file
          Torn,       \* the content of a file whose data never hit the disk
          Kinds,      \* the operations the instance's processes perform
          MaxOps,     \* bound: operations started
          MaxFaults   \* bound: kills, host failures and I/O errors

LegacyKinds == {"cli_advance", "control_advance", "reset", "run", "convert", "init"}

ASSUME StateFileAssumption ==
    /\ None \notin Procs
    /\ Torn \notin State
    /\ Kinds \subseteq {"advance"} \union LegacyKinds
    /\ MaxOps \in Nat
    /\ MaxFaults \in Nat

VARIABLES
    disk,       \* what State::load reads
    durable,    \* what a host failure leaves
    diskSynced, \* the file `disk` names had its data fsynced before the rename
    tmp,        \* state.toml.tmp: None or [data, synced]
    lock,       \* holder of the flock on state.lock
    pc, op,     \* per process: control state, operation [kind, step]
    snap,       \* per process: its in-memory State
    ops, faults \* the bounded counters

\* History variables: they record what was promised to whom, and no guard
\* reads them.
VARIABLES
    gated,      \* steps found clean by a gate evaluation no reset came after
    acked,      \* steps whose advance returned to its caller, not undone since
    announced,  \* steps a StateAdvanced event named as passed, not undone since
    stale,      \* processes whose operation read the file before the last save
    raced       \* a process in `stale` has saved its copy

file == <<disk, durable, diskSynced, tmp>>
ghosts == <<gated, acked, announced, raced>>
vars == <<disk, durable, diskSynced, tmp, lock, pc, op, snap, ops, faults,
          gated, acked, announced, stale, raced>>

PCs == {"idle", "evaluate", "reload", "mutate", "save", "txlock", "txload", "txbody", "announce",
        "write", "sync", "rename", "syncdir", "unlock"}

\* Control states in which the process owns the flock.
Locked == {"txload", "txbody", "announce", "write", "sync", "rename", "syncdir",
           "unlock"}

TypeOK ==
    /\ disk \in State \union {Torn}
    /\ durable \in State \union {Torn}
    /\ diskSynced \in BOOLEAN
    /\ tmp \in [data : State, synced : BOOLEAN] \union {None}
    /\ lock \in Procs \union {None}
    /\ pc \in [Procs -> PCs]
    /\ op \in [Procs -> [kind : {"advance"} \union LegacyKinds, step : Steps,
                         pass : BOOLEAN]]
    /\ snap \in [Procs -> State]
    /\ ops \in Nat
    /\ faults \in Nat
    /\ gated \subseteq Steps
    /\ acked \subseteq Steps
    /\ announced \subseteq Steps
    /\ stale \subseteq Procs
    /\ raced \in BOOLEAN

-----------------------------------------------------------------------------
Init ==
    /\ \E f \in Flows : disk = New(f)
    /\ durable = disk
    /\ diskSynced = TRUE
    /\ tmp = None
    /\ lock = None
    /\ pc = [p \in Procs |-> "idle"]
    /\ op = [p \in Procs |-> [kind |-> "advance", step |-> <<"dm", 1>>, pass |-> FALSE]]
    /\ snap = [p \in Procs |-> disk]
    /\ ops = 0
    /\ faults = 0
    /\ gated = {}
    /\ acked = {}
    /\ announced = {}
    /\ stale = {}
    /\ raced = FALSE

GoTo(p, label) == pc' = [pc EXCEPT ![p] = label]

Begin(p, kind, s) ==
    /\ pc[p] = "idle"
    /\ kind \in Kinds
    /\ ops < MaxOps
    /\ ops' = ops + 1
    /\ op' = [op EXCEPT ![p] = [kind |-> kind, step |-> s, pass |-> FALSE]]

-----------------------------------------------------------------------------
(* The advance of an auto driver: try_advance_classified, try_advance.     *)

\* The unlocked first look: the step belongs to the flow on disk and its
\* gate was found clean (a dirty gate ends the call without touching state).
TryAdvance(p, s) ==
    /\ Begin(p, "advance", s)
    /\ disk # Torn
    /\ s \in Registry(disk.flow)
    /\ GoTo(p, "txlock")
    /\ UNCHANGED <<file, lock, snap, stale, faults, ghosts>>

\* Mutant: the lock is taken without waiting for its holder.
AcquireAtOnce(p) ==
    /\ pc[p] \in {"txlock", "save"}
    /\ lock' = p
    /\ GoTo(p, IF pc[p] = "txlock" THEN "txload" ELSE "write")
    /\ UNCHANGED <<file, op, snap, stale, ops, faults, ghosts>>

\* StateLock::acquire, in a transaction or in a save.
Acquire(p) ==
    /\ pc[p] \in {"txlock", "save"}
    /\ lock = None
    /\ lock' = p
    /\ GoTo(p, IF pc[p] = "txlock" THEN "txload" ELSE "write")
    /\ UNCHANGED <<file, op, snap, stale, ops, faults, ghosts>>

\* Mutant: an error return that leaks the lock.
ErrorReturnLocked(p) == GoTo(p, "idle") /\ UNCHANGED lock

\* An error return drops the StateLock and leaves the file alone.
ErrorReturn(p) ==
    /\ GoTo(p, "idle")
    /\ lock' = IF lock = p THEN None ELSE lock

\* Mutant: the transaction works on the copy the process already holds.
TxLoadCached(p) ==
    /\ pc[p] = "txload"
    /\ stale' = stale \ {p}
    /\ GoTo(p, "txbody")
    /\ UNCHANGED <<file, lock, op, snap, ops, faults, ghosts>>

\* The load inside the transaction; a step of another flow is InvalidStep.
TxLoad(p) ==
    /\ pc[p] = "txload"
    /\ \/ /\ disk # Torn
          /\ op[p].step \in Registry(disk.flow)
          /\ snap' = [snap EXCEPT ![p] = disk]
          /\ stale' = stale \ {p}
          /\ GoTo(p, "txbody")
          /\ UNCHANGED lock
       \/ /\ disk = Torn \/ op[p].step \notin Registry(disk.flow)
          /\ ErrorReturn(p)
          /\ UNCHANGED <<snap, stale>>
    /\ UNCHANGED <<file, op, ops, faults, ghosts>>

\* try_advance_inner up to its event: the gate is evaluated again; clean, the
\* copy is advanced; dirty, the unchanged copy is still saved.
TxBody(p) ==
    /\ pc[p] = "txbody"
    /\ \/ /\ snap' = [snap EXCEPT ![p] = Advanced(@, op[p].step)]
          /\ op' = [op EXCEPT ![p].pass = TRUE]
          /\ gated' = gated \union {op[p].step}
          /\ GoTo(p, "announce")
       \/ /\ GoTo(p, "write")
          /\ UNCHANGED <<snap, op, gated>>
    /\ UNCHANGED <<file, lock, stale, ops, faults, acked, announced, raced>>

\* host.send(StateAdvanced): before the transaction saves.
Announce(p) ==
    /\ pc[p] = "announce"
    /\ announced' = announced \union {op[p].step}
    /\ GoTo(p, "write")
    /\ UNCHANGED <<file, lock, op, snap, stale, ops, faults, gated, acked, raced>>

-----------------------------------------------------------------------------
(* The writers that load and save in two separate steps.                   *)

\* Per kind, what the command checks of the copy it has just loaded.
Admitted(kind, s, force, st) ==
    CASE kind \in {"cli_advance", "reset"} -> s \in Registry(st.flow)
      [] kind = "run"     -> /\ s \in Registry(st.flow)
                             /\ HasPrerequisite(s) => Prerequisite(s) \in st.passed
      [] kind = "convert" -> /\ st.flow = "dm"
                             /\ s = Last("dm")
                             /\ force \/ s \in st.passed
      [] OTHER            -> FALSE

LegacyLoad(p, kind, s) ==
    /\ Begin(p, kind, s)
    /\ kind \in LegacyKinds \ {"control_advance", "init"}
    /\ disk # Torn
    /\ \E force \in BOOLEAN : Admitted(kind, s, force, disk)
    /\ snap' = [snap EXCEPT ![p] = disk]
    /\ stale' = stale \ {p}
    /\ GoTo(p, "mutate")
    /\ UNCHANGED <<file, lock, faults, ghosts>>

\* The advance of the interactive drivers: the registry comes from a first
\* load, then the gate is evaluated, and the copy to change is loaded last. In
\* a project converted in between the step has no successor.
ControlAdvance(p, s) ==
    /\ Begin(p, "control_advance", s)
    /\ disk # Torn
    /\ s \in Registry(disk.flow)
    /\ stale' = stale \ {p}
    /\ GoTo(p, "evaluate")
    /\ UNCHANGED <<file, lock, snap, faults, ghosts>>

ControlEvaluate(p) ==
    /\ pc[p] = "evaluate"
    /\ \/ GoTo(p, "reload") /\ gated' = gated \union {op[p].step}
       \/ GoTo(p, "idle") /\ UNCHANGED gated
    /\ UNCHANGED <<file, lock, op, snap, stale, ops, faults, acked, announced, raced>>

ControlReload(p) ==
    LET s == op[p].step
    IN /\ pc[p] = "reload"
       /\ disk # Torn
       /\ snap' = [snap EXCEPT ![p] = IF s \in Registry(disk.flow)
                                      THEN Advanced(disk, s)
                                      ELSE MarkPassed(disk, s)]
       /\ op' = [op EXCEPT ![p].pass = TRUE]
       /\ GoTo(p, "save")
       /\ UNCHANGED <<file, lock, stale, ops, faults, ghosts>>

\* `sim-flow init` writes a fresh document whatever is there.
InitProject(p, f) ==
    /\ Begin(p, "init", <<f, 1>>)
    /\ snap' = [snap EXCEPT ![p] = New(f)]
    /\ stale' = stale \ {p}
    /\ GoTo(p, "save")
    /\ UNCHANGED <<file, lock, faults, ghosts>>

\* The copy is changed. An advance whose gate is dirty returns without saving;
\* `run` saves its copy even when its gate is dirty.
Mutate(p) ==
    LET s == op[p].step
        Copy(st) == snap' = [snap EXCEPT ![p] = st]
        Pass == /\ op' = [op EXCEPT ![p].pass = TRUE]
                /\ gated' = gated \union {s}
    IN /\ pc[p] = "mutate"
       /\ \/ /\ op[p].kind = "cli_advance"
             /\ \/ Copy(Advanced(snap[p], s)) /\ Pass /\ GoTo(p, "save")
                \/ GoTo(p, "idle") /\ UNCHANGED <<snap, op, gated>>
          \/ /\ op[p].kind = "run"
             /\ \/ Copy(Ran(snap[p], s)) /\ Pass
                \/ UNCHANGED <<snap, op, gated>>
             /\ GoTo(p, "save")
          \/ /\ op[p].kind \in {"reset", "convert"}
             /\ Copy(IF op[p].kind = "reset" THEN Reset(snap[p], s)
                                            ELSE FlipToSvConvert(snap[p]))
             /\ GoTo(p, "save")
             /\ UNCHANGED <<op, gated>>
       /\ UNCHANGED <<file, lock, stale, ops, faults, acked, announced, raced>>

-----------------------------------------------------------------------------
(* write_atomic, under the lock.                                           *)

\* Mutant: the temporary file is renamed without an fsync.
WriteTmpUnsynced(p) ==
    /\ pc[p] = "write"
    /\ tmp' = [data |-> snap[p], synced |-> FALSE]
    /\ GoTo(p, "rename")
    /\ UNCHANGED <<disk, durable, diskSynced, lock, op, snap, stale, ops, faults, ghosts>>

WriteTmp(p) ==
    /\ pc[p] = "write"
    /\ tmp' = [data |-> snap[p], synced |-> FALSE]
    /\ GoTo(p, "sync")
    /\ UNCHANGED <<disk, durable, diskSynced, lock, op, snap, stale, ops, faults, ghosts>>

SyncTmp(p) ==
    /\ pc[p] = "sync"
    /\ tmp' = [tmp EXCEPT !.synced = TRUE]
    /\ GoTo(p, "rename")
    /\ UNCHANGED <<disk, durable, diskSynced, lock, op, snap, stale, ops, faults, ghosts>>

\* What a reset, a conversion or an init takes back.
Undone(o) ==
    CASE o.kind = "reset" -> Downstream(o.step)
      [] o.kind \in {"convert", "init"} -> Steps
      [] OTHER -> {}

Rename(p) ==
    /\ pc[p] = "rename"
    /\ disk' = tmp.data
    /\ diskSynced' = tmp.synced
    /\ tmp' = None
    /\ GoTo(p, "syncdir")
    /\ stale' = Procs \ {p}
    /\ raced' = (raced \/ (p \in stale /\ op[p].kind # "init"))
    /\ acked' = acked \ Undone(op[p])
    /\ announced' = announced \ Undone(op[p])
    /\ gated' = gated \ Undone(op[p])
    /\ UNCHANGED <<durable, lock, op, snap, ops, faults>>

\* Mutant: the directory is not fsynced after the rename.
SyncDirSkipped(p) ==
    /\ pc[p] = "syncdir"
    /\ GoTo(p, "unlock")
    /\ UNCHANGED <<file, lock, op, snap, stale, ops, faults, ghosts>>

\* Best effort in the code: a directory that cannot be opened or synced is
\* passed over. Here it works, as it does on the local filesystems.
SyncDir(p) ==
    /\ pc[p] = "syncdir"
    /\ durable' = disk
    /\ GoTo(p, "unlock")
    /\ UNCHANGED <<disk, diskSynced, tmp, lock, op, snap, stale, ops, faults, ghosts>>

\* Drop for StateLock, then the operation returns Ok to its caller.
Unlock(p) ==
    /\ pc[p] = "unlock"
    /\ lock' = None
    /\ GoTo(p, "idle")
    /\ acked' = IF op[p].pass THEN acked \union {op[p].step} ELSE acked
    /\ UNCHANGED <<file, op, snap, stale, ops, faults, gated, announced, raced>>

-----------------------------------------------------------------------------
(* Faults.                                                                 *)

Fault == faults < MaxFaults /\ faults' = faults + 1

\* A failed event send, or a failed write, fsync or rename of the temporary file.
IoError(p) ==
    /\ Fault
    /\ pc[p] \in {"announce", "write", "sync", "rename"}
    /\ ErrorReturn(p)
    /\ UNCHANGED <<file, op, snap, stale, ops, ghosts>>

\* The process dies; the kernel releases its flock.
Kill(p) ==
    /\ Fault
    /\ pc[p] # "idle"
    /\ ErrorReturn(p)
    /\ UNCHANGED <<file, op, snap, stale, ops, ghosts>>

\* Power loss: every process dies; the directory entry is the last one synced
\* or the renamed one, whose data survives only if it was synced.
HostFails ==
    /\ Fault
    /\ disk' \in {durable, IF diskSynced THEN disk ELSE Torn}
    /\ durable' = disk'
    /\ diskSynced' = TRUE
    /\ tmp' = None
    /\ lock' = None
    /\ pc' = [p \in Procs |-> "idle"]
    \* A reset that the failure reverts no longer cancels anything.
    /\ gated' = IF disk' = Torn THEN gated ELSE gated \union disk'.passed
    /\ UNCHANGED <<op, snap, stale, ops, acked, announced, raced>>

-----------------------------------------------------------------------------
Start(p) ==
    \/ \E s \in Steps : TryAdvance(p, s)
    \/ \E kind \in LegacyKinds, s \in Steps : LegacyLoad(p, kind, s)
    \/ \E s \in Steps : ControlAdvance(p, s)
    \/ \E f \in Flows : InitProject(p, f)

Step(p) ==
    \/ Acquire(p) \/ TxLoad(p) \/ TxBody(p) \/ Announce(p)
    \/ Mutate(p) \/ ControlEvaluate(p) \/ ControlReload(p)
    \/ WriteTmp(p) \/ SyncTmp(p) \/ Rename(p) \/ SyncDir(p) \/ Unlock(p)

Next ==
    \/ \E p \in Procs : Start(p) \/ Step(p) \/ IoError(p) \/ Kill(p)
    \/ HostFails

Spec == Init /\ [][Next]_vars

\* A live process keeps running its operation; nobody has to start one.
FairSpec == Spec /\ \A p \in Procs : WF_vars(Step(p))

-----------------------------------------------------------------------------
(* Correctness.                                                            *)

\* write_atomic: whatever is killed and whenever the power goes, state.toml
\* is a whole document, never a truncated or empty one.
NeverTorn == disk # Torn /\ durable # Torn

\* StateLock: the processes inside a transaction or a save are exactly the
\* holder of the flock, so there is at most one; every error path and every
\* death gives the lock back.
LockDiscipline == \A p \in Procs : pc[p] \in Locked <=> lock = p

\* With transactions only, an advance that returned to its caller stays in
\* state.toml: no other process and no host failure takes it back.
AckedSurvives == disk # Torn /\ acked \subseteq disk.passed

\* With every writer, an acknowledged advance is lost only through a save by
\* an operation that had read the file before somebody else's save.
LossNeedsRace == raced \/ AckedSurvives

\* After a reset, a conversion or an init, a step is stored as passed again
\* only on a gate evaluation made since, with the same exception.
ResetIsFinal == raced \/ (disk # Torn /\ disk.passed \subseteq gated)

\* The document is about one flow: a writer that met a conversion half-way
\* does not store a current_step or a passed gate of the flow the project has
\* left, with the same exception.
OneFlow ==
    raced \/ /\ disk # Torn
             /\ disk.current \in Registry(disk.flow)
             /\ disk.passed \subseteq Registry(disk.flow)

\* A host that re-reads state.toml when StateAdvanced arrives finds the step
\* passed there.
AnnouncedIsSaved == disk # Torn /\ announced \subseteq disk.passed

\* Every operation of a live process returns: nobody waits for ever on
\* state.lock, and no process waits on the lock it holds.
EveryOperationReturns == \A p \in Procs : pc[p] # "idle" ~> pc[p] = "idle"

\* Transactions make the file behave as the abstract store.
Store == INSTANCE FlowStore WITH st <- disk, stable <- durable
ImplementsStore == Store!StoreSpec
=============================================================================
