------------------------------ MODULE PumpLaunch ------------------------------
(***************************************************************************)
(* The VS Code extension's hold on `sim-flow` processes: several windows   *)
(* open on one project, each an extension host that launches, attaches to, *)
(* stops and loses a child.  Three things survive a host: the lock file    *)
(* .sim-flow/.pump.lock (pumpLock.ts), the pid records under .sim-flow/    *)
(* pids (processRegistry.ts), and the session record of the window's       *)
(* workspaceState (autoSessionManager.ts).  A host is single threaded:     *)
(* what its code does without an await is not interleaved with the rest of *)
(* its window, only with the other windows and with the children.          *)
(*                                                                         *)
(* The child is seen from outside: it runs until it ends by itself, is     *)
(* told to stop, or is signalled.  Errors of the file system, read-only    *)
(* watchers and terminal backends are left out.                            *)
(***************************************************************************)
EXTENDS Integers, FiniteSets

CONSTANTS
    Windows,     \* VS Code windows on the project
    MaxSessions, \* bound: launches tried
    MaxHosts     \* bound: extension hosts started

ASSUME PumpAssumption ==
    /\ MaxSessions \in Nat \ {0} /\ MaxHosts \in Nat \ {0}

Sessions == 1 .. MaxSessions
NoSession == 0
NoHost == 0
NoLock == [by |-> NoSession, full |-> FALSE]

VARIABLES
    started,    \* hosts there have been; a host's number is its pid
    host,       \* per window: its extension host, or NoHost
    launched,   \* sessions there have been
    owner,      \* per session: the host that launched it
    child,      \* per session: its sim-flow process
    lock,       \* .pump.lock: whose, and whether its record is written
    pids,       \* .sim-flow/pids: sessions with a pid record
    stored,     \* per window: the session recorded in workspaceState
    active,     \* per window: AutoSessionManager.activeSession
    acquire,    \* per window: where a launch is, up to its pid record
    connecting, \* pumps whose ready() has not returned
    restoring,  \* per window: the session its restore attaches to
    ending,     \* sessions in disconnectWithEscalation
    unreaped    \* windows that have not reaped the pid records

\* History variable: no guard reads it.
VARIABLE lapses \* <<session, how it lost the lock file or its pid record>>

files == <<lock, pids, stored>>
memory == <<active, connecting, restoring, ending, unreaped>>
vars == <<started, host, launched, owner, child, files, memory, acquire, lapses>>

\* The windows whose extension host runs.
up == {w \in Windows : host[w] # NoHost}

Idle == [at |-> "idle", session |-> NoSession, attempt |-> 0, saw |-> NoSession]
Acquiring == {"create", "write", "inspect", "unlink", "spawn"}

TypeOK ==
    /\ started \in 0 .. MaxHosts
    /\ host \in [Windows -> 0 .. started]
    /\ launched \in 0 .. MaxSessions
    /\ owner \in [Sessions -> 0 .. started]
    /\ child \in [Sessions -> {"unborn", "alive", "stopped", "dead"}]
    /\ lock \in [by : 0 .. launched, full : BOOLEAN]
    /\ pids \subseteq Sessions
    /\ stored \in [Windows -> 0 .. launched]
    /\ active \in [Windows -> 0 .. launched]
    /\ restoring \in [Windows -> 0 .. launched]
    /\ acquire \in [Windows -> [at : Acquiring \union {"idle"}, session : 0 .. launched,
                                attempt : 0 .. 2, saw : 0 .. launched]]
    /\ connecting \subseteq Sessions
    /\ ending \subseteq Sessions
    /\ unreaped \subseteq up
    /\ lapses \subseteq Sessions \X {"superseded", "raced", "unrecorded", "spared"}

Init ==
    /\ started = 0 /\ host = [w \in Windows |-> NoHost]
    /\ launched = 0
    /\ owner = [s \in Sessions |-> 0]
    /\ child = [s \in Sessions |-> "unborn"]
    /\ lock = NoLock /\ pids = {}
    /\ stored = [w \in Windows |-> NoSession]
    /\ active = [w \in Windows |-> NoSession]
    /\ acquire = [w \in Windows |-> Idle]
    /\ connecting = {} /\ ending = {} /\ unreaped = {}
    /\ restoring = [w \in Windows |-> NoSession]
    /\ lapses = {}

-----------------------------------------------------------------------------
(* Hosts and children.                                                     *)

\* The host that launched s still runs; its pump object is then in memory.
IsOwn(w, s) == w \in up /\ host[w] = owner[s]
HostLives(s) == \E w \in Windows : IsOwn(w, s)
Runs(s) == child[s] \in {"alive", "stopped"}
\* Nobody has cancelled it, shut it down or sent it a signal.
Undisturbed(s) == child[s] = "alive"

\* A host runs to its next await before another of its actions starts.
Free(w) == w \in up /\ acquire[w] = Idle

Stops(S) == [s \in Sessions |-> IF s \in S /\ Runs(s) THEN "stopped" ELSE child[s]]

\* Stopped or finished; the exit handler of its host removes the pid record.
ChildExits(s) ==
    /\ Runs(s)
    /\ child' = [child EXCEPT ![s] = "dead"]
    /\ pids' = IF HostLives(s) THEN pids \ {s} ELSE pids
    /\ UNCHANGED <<started, host, launched, owner, lock, stored, memory, acquire, lapses>>

\* activate(): the panel comes up and the reaping starts, in either order.
Activate(w) ==
    /\ w \notin up /\ started < MaxHosts
    /\ started' = started + 1
    /\ host' = [host EXCEPT ![w] = started']
    /\ unreaped' = unreaped \union {w}
    /\ UNCHANGED <<launched, owner, child, files, active, connecting, restoring,
                   ending, acquire, lapses>>

\* cleanupStalePids: every recorded process that runs, whoever launched it, is
\* signalled if it can be told to be ours; the records go in any case.
Reap(w) ==
    /\ Free(w) /\ w \in unreaped
    /\ \E spared \in SUBSET {s \in pids : Runs(s)} :
          /\ child' = Stops(pids \ spared)
          /\ lapses' = lapses \union spared \X {"spared"}
    /\ pids' = {}
    /\ unreaped' = unreaped \ {w}
    /\ UNCHANGED <<started, host, launched, owner, lock, stored, active, connecting,
                   restoring, ending, acquire>>

-----------------------------------------------------------------------------
(* The lock file.                                                          *)

\* A null record is removed too: the nonce is compared only when there is one.
Released(s) == IF lock.full /\ lock.by # s THEN lock ELSE NoLock

\* The lock file is removed under a host that runs: by one that read the record
\* of another session there, or none, or by a second launch of its own.
Raced(saw) ==
    IF lock.by \notin {NoSession, saw} /\ HostLives(lock.by) THEN {<<lock.by, "raced">>} ELSE {}

Superseded(w) ==
    IF lock.by # NoSession /\ IsOwn(w, lock.by) THEN {<<lock.by, "superseded">>} ELSE {}

\* The pump constructor, from launchAutoSession or startStepSession.  That no
\* session is active, or that it has been stopped, was seen several awaits before.
Launch(w) ==
    /\ Free(w) /\ launched < MaxSessions
    /\ launched' = launched + 1
    /\ owner' = [owner EXCEPT ![launched'] = host[w]]
    /\ acquire' = [acquire EXCEPT ![w] =
                      [at |-> "create", session |-> launched', attempt |-> 1,
                       saw |-> NoSession]]
    /\ UNCHANGED <<started, host, child, files, memory, lapses>>

Goes(w, at) == acquire' = [acquire EXCEPT ![w].at = at]
UnchangedButFiles == UNCHANGED <<started, host, launched, owner, child, pids, stored,
                                 memory>>

\* openSync(.., "wx") leaves an empty file until the record is written.
Create(w) ==
    /\ acquire[w].at = "create"
    /\ \/ /\ lock = NoLock
          /\ lock' = [by |-> acquire[w].session, full |-> FALSE]
          /\ Goes(w, "write")
       \/ /\ lock # NoLock /\ UNCHANGED lock
          /\ Goes(w, "inspect")
    /\ UnchangedButFiles /\ UNCHANGED lapses

\* To the file it opened, which may have been removed since.
Write(w) ==
    /\ acquire[w].at = "write"
    /\ lock' = IF lock.by = acquire[w].session THEN [lock EXCEPT !.full = TRUE] ELSE lock
    /\ Goes(w, "spawn")
    /\ UnchangedButFiles /\ UNCHANGED lapses

\* Mutant: a live holder is no reason to stop.
NeverRefuses(w) == FALSE

\* The pid of a host that is gone may be some other process's by now.
Refuses(w) == lock.full /\ ~IsOwn(w, lock.by)

Inspect(w) ==
    /\ acquire[w].at = "inspect"
    /\ \/ Refuses(w) /\ acquire' = [acquire EXCEPT ![w] = Idle]
       \/ /\ ~(Refuses(w) /\ HostLives(lock.by))
          /\ acquire' = [acquire EXCEPT ![w].at = "unlink",
                                        ![w].saw = IF lock.full THEN lock.by ELSE NoSession]
    /\ UnchangedButFiles /\ UNCHANGED <<lock, lapses>>

\* Whatever is there by now goes; the second time the launch gives up as well.
Unlink(w) ==
    /\ acquire[w].at = "unlink"
    /\ lock' = NoLock
    /\ lapses' = lapses \union Raced(acquire[w].saw) \union Superseded(w)
    /\ acquire' = IF acquire[w].attempt = 1
                  THEN [acquire EXCEPT ![w].at = "create", ![w].attempt = 2,
                                              ![w].saw = NoSession]
                  ELSE [acquire EXCEPT ![w] = Idle]
    /\ UnchangedButFiles

\* spawn and writePidRecord.
Spawn(w) ==
    /\ acquire[w].at = "spawn"
    /\ LET s == acquire[w].session IN
       /\ child' = [child EXCEPT ![s] = "alive"]
       /\ pids' = pids \union {s}
       /\ connecting' = connecting \union {s}
    /\ acquire' = [acquire EXCEPT ![w] = Idle]
    /\ UNCHANGED <<started, host, launched, owner, lock, stored, active, restoring, ending,
                   unreaped, lapses>>

-----------------------------------------------------------------------------
(* Sessions of a window.                                                   *)

Activates(w, s) ==
    /\ active' = [active EXCEPT ![w] = s]
    /\ stored' = [stored EXCEPT ![w] = s]

\* clearIfActive
Clears(w, s) ==
    IF active[w] = s
    THEN active' = [active EXCEPT ![w] = NoSession] /\ stored' = [stored EXCEPT ![w] = NoSession]
    ELSE UNCHANGED <<active, stored>>

UnchangedBySessions == UNCHANGED <<started, host, launched, owner, acquire>>

\* ready() returns, also when the child has died meanwhile; launch() replaces
\* whatever session was active.
Connected(w, s) ==
    /\ s \in connecting /\ IsOwn(w, s) /\ Free(w)
    /\ connecting' = connecting \ {s}
    /\ Activates(w, s)
    /\ UNCHANGED <<child, lock, pids, restoring, ending, unreaped, lapses>>
    /\ UnchangedBySessions

\* Five seconds without a socket: the pump is dropped, its child and lock stay.
AttachTimesOut(w, s) ==
    /\ s \in connecting /\ IsOwn(w, s) /\ Free(w) /\ Runs(s)
    /\ connecting' = connecting \ {s}
    /\ UNCHANGED <<child, files, active, restoring, ending, unreaped, lapses>>
    /\ UnchangedBySessions

\* onManagedSessionSettled with an ended session, because the child is dead or
\* the connection to it was closed: nothing is disposed.
Ended(w) ==
    /\ Free(w) /\ active[w] # NoSession
    /\ Clears(w, active[w])
    /\ UNCHANGED <<child, lock, pids, connecting, restoring, ending, unreaped, lapses>>
    /\ UnchangedBySessions

\* stopActivePumpSession, before a launch with other settings: the pump is
\* dropped, its lock kept.  The child is cancelled after an await, so that the
\* host may be gone before; a child it has not reached counts as undisturbed.
StopActive(w) ==
    /\ Free(w) /\ active[w] # NoSession
    /\ child' \in {child, Stops({active[w]})}
    /\ Clears(w, active[w])
    /\ UNCHANGED <<lock, pids, connecting, restoring, ending, unreaped, lapses>>
    /\ UnchangedBySessions

\* endSession and stopAuto.  A pump that only attached has no child to wait for
\* or to signal: it is disposed before its cancel has gone out, so the child may
\* not hear of it, and its pid record is removed.
EndSession(w) ==
    /\ Free(w) /\ active[w] \notin ending \union {NoSession}
    /\ LET s == active[w] IN
       IF IsOwn(w, s)
       THEN /\ child' = Stops({s})
            /\ ending' = ending \union {s}
            /\ UNCHANGED <<pids, active, stored, lapses>>
       ELSE /\ \/ child' = Stops({s}) /\ UNCHANGED lapses
               \/ UNCHANGED child /\ lapses' = lapses \union {<<s, "unrecorded">>}
            /\ pids' = pids \ {s}
            /\ Clears(w, s)
            /\ UNCHANGED ending
    /\ UNCHANGED <<lock, connecting, restoring, unreaped>>
    /\ UnchangedBySessions

\* The escalation has reached its end, a SIGKILL at the latest.
EndDone(w, s) ==
    /\ s \in ending /\ IsOwn(w, s) /\ Free(w) /\ child[s] = "dead"
    /\ lock' = Released(s)
    /\ lapses' = IF lock' # lock THEN lapses \union Raced(s) ELSE lapses
    /\ ending' = ending \ {s}
    /\ Clears(w, s)
    /\ UNCHANGED <<child, pids, connecting, restoring, unreaped>>
    /\ UnchangedBySessions

\* restoreActiveAutoSessionIfNeeded, on any refresh of the panel.
Restore(w) ==
    /\ Free(w) /\ active[w] = NoSession /\ restoring[w] = NoSession
    /\ stored[w] # NoSession
    /\ ~\E s \in connecting : IsOwn(w, s)
    /\ restoring' = [restoring EXCEPT ![w] = stored[w]]
    /\ UNCHANGED <<child, files, active, connecting, ending, unreaped, lapses>>
    /\ UnchangedBySessions

Restored(w) ==
    /\ Free(w) /\ restoring[w] # NoSession /\ Runs(restoring[w])
    /\ Activates(w, restoring[w])
    /\ restoring' = [restoring EXCEPT ![w] = NoSession]
    /\ UNCHANGED <<child, lock, pids, connecting, ending, unreaped, lapses>>
    /\ UnchangedBySessions

\* clearStalePumpLockForSession
Unlocked(s) == IF lock.full /\ lock.by = s THEN NoLock ELSE lock

\* Mutant: the pump that could not attach is disposed, as one of the viewer is.
RestoreDisposes(w) ==
    /\ Free(w) /\ restoring[w] # NoSession
    /\ lock' = Unlocked(restoring[w])
    /\ active' = [active EXCEPT ![w] = NoSession]
    /\ stored' = [stored EXCEPT ![w] = NoSession]
    /\ restoring' = [restoring EXCEPT ![w] = NoSession]
    /\ pids' = pids \ {restoring[w]}
    /\ UNCHANGED <<child, connecting, ending, unreaped, lapses>>
    /\ UnchangedBySessions

\* The child is dead, or no socket answers for five seconds.  The lock of the
\* session is cleared, its record forgotten; the launch that follows is Launch.
\* forgetStoredRecord drops whatever is active, and the pump is left as it is.
RestoreFails(w) ==
    /\ Free(w) /\ restoring[w] # NoSession
    /\ lock' = Unlocked(restoring[w])
    /\ active' = [active EXCEPT ![w] = NoSession]
    /\ stored' = [stored EXCEPT ![w] = NoSession]
    /\ restoring' = [restoring EXCEPT ![w] = NoSession]
    /\ UNCHANGED <<child, pids, connecting, ending, unreaped, lapses>>
    /\ UnchangedBySessions

HostGone(w) ==
    /\ w \in up
    /\ host' = [host EXCEPT ![w] = NoHost]
    /\ active' = [active EXCEPT ![w] = NoSession]
    /\ restoring' = [restoring EXCEPT ![w] = NoSession]
    /\ connecting' = {s \in connecting : ~IsOwn(w, s)}
    /\ ending' = {s \in ending : ~IsOwn(w, s)}
    /\ unreaped' = unreaped \ {w}
    /\ acquire' = [acquire EXCEPT ![w] = Idle]
    /\ UNCHANGED <<started, launched, owner, stored>>

\* deactivate(): the pump of the active session is disposed, and no other.
Close(w) ==
    LET s == active[w]
        own == s # NoSession /\ IsOwn(w, s)
    IN
    /\ Free(w) /\ HostGone(w)
    /\ child' = IF own THEN Stops({s}) ELSE child
    /\ pids' = pids \ {s}
    /\ lock' = IF own THEN Released(s) ELSE lock
    /\ lapses' = IF s # NoSession /\ ~own THEN lapses \union {<<s, "unrecorded">>}
                ELSE IF lock' # lock THEN lapses \union Raced(s) ELSE lapses

Crash(w) == HostGone(w) /\ UNCHANGED <<child, lock, pids, lapses>>

Next ==
    \/ \E s \in Sessions : ChildExits(s)
    \/ \E w \in Windows :
          \/ Activate(w) \/ Reap(w) \/ Close(w) \/ Crash(w)
          \/ Launch(w) \/ Create(w) \/ Write(w) \/ Inspect(w) \/ Unlink(w) \/ Spawn(w)
          \/ Ended(w) \/ StopActive(w) \/ EndSession(w)
          \/ Restore(w) \/ Restored(w) \/ RestoreFails(w)
          \/ \E s \in Sessions : Connected(w, s) \/ AttachTimesOut(w, s) \/ EndDone(w, s)

Spec == Init /\ [][Next]_vars

-----------------------------------------------------------------------------
(* Properties.                                                             *)

\* pumpLock.ts: "the lock file pins ownership to one extension host at a time".
\* Two orchestrators that nobody has stopped run under hosts that live only when
\* one of the two has lost its lock file: to a launch that found it half-written
\* or had looked at an older one, or to a second launch of its own window.
OneWindowDrives ==
    \A s, t \in Sessions :
        Undisturbed(s) /\ Undisturbed(t) /\ HostLives(s) /\ HostLives(t) /\ s # t
        => {<<s, "superseded">>, <<s, "raced">>, <<t, "superseded">>, <<t, "raced">>}
              \intersect lapses # {}

\* An orchestrator that nobody has stopped can be found again, whatever became
\* of its host and in whatever order windows crash, come back, restore, launch
\* and stop: it has a pid record.  Two things take the record of one that runs
\* on: a window that had only attached to it lets go (a closed panel, or a
\* Disconnect whose cancel did not arrive), and a reaper that cannot signal it.
NoStray ==
    \A s \in Sessions :
        Undisturbed(s) /\ {<<s, "unrecorded">>, <<s, "spared">>} \intersect lapses = {}
        => s \in pids

\* extension.ts:590: the recorded processes that are signalled "are orphans from
\* a prior extension run that died without a clean disconnect".
ReapsOrphansOnly ==
    [][\A w \in Windows, s \in Sessions :
            Reap(w) /\ child[s] = "alive" /\ child'[s] = "stopped" => ~HostLives(s)]_vars

\* actions.ts:153: the escalation of a Disconnect "is the only path that guarantees
\* the spawned `sim-flow auto` child is reaped".
DisconnectStops ==
    [][\A w \in Windows :
            EndSession(w) => child'[active[w]] # "alive"]_vars

=============================================================================
