--------------------------- MODULE PumpLaunchProofs ---------------------------
(***************************************************************************)
(* Theorems about PumpLaunch, for any number of windows, launches and      *)
(* hosts: its type invariant, that a lock file which is lost to nobody     *)
(* keeps a second orchestrator out, and that a running orchestrator keeps  *)
(* its pid record.                                                         *)
(***************************************************************************)
EXTENDS PumpLaunch, TLAPS

-----------------------------------------------------------------------------
(* Fields.                                                                 *)

\* Where a launch can be.
Launching == [at : Acquiring \union {"idle"}, session : 0 .. launched,
              attempt : 0 .. 2, saw : 0 .. launched]

LEMMA AtField ==
    ASSUME NEW R, NEW f \in [Windows -> R], NEW w \in Windows, NEW x
    PROVE  [f EXCEPT ![w].at = x] = [f EXCEPT ![w] = [f[w] EXCEPT !.at = x]]
OBVIOUS

LEMMA AtSawFields ==
    ASSUME NEW R, NEW f \in [Windows -> R], NEW w \in Windows, NEW x, NEW y
    PROVE  [f EXCEPT ![w].at = x, ![w].saw = y] = [f EXCEPT ![w] = [f[w] EXCEPT !.at = x, !.saw = y]]
OBVIOUS

\* The fields of a launch after a step of it.
LEMMA LaunchFields ==
    ASSUME NEW a \in Launching, NEW x, NEW y
    PROVE  /\ [a EXCEPT !.at = x] =
                 [at |-> x, session |-> a.session, attempt |-> a.attempt, saw |-> a.saw]
           /\ [a EXCEPT !.at = x, !.saw = y] =
                 [at |-> x, session |-> a.session, attempt |-> a.attempt, saw |-> y]
<1>1. [a EXCEPT !.at = x] =
         [at |-> x, session |-> a.session, attempt |-> a.attempt, saw |-> a.saw]
  BY DEF Launching
<1> DEFINE b == [at |-> x, session |-> a.session, attempt |-> a.attempt, saw |-> a.saw]
<1>2. [a EXCEPT !.at = x, !.saw = y] = [b EXCEPT !.saw = y]
  BY <1>1, Zenon
<1>3. [b EXCEPT !.saw = y] =
         [at |-> x, session |-> a.session, attempt |-> a.attempt, saw |-> y]
  OBVIOUS
<1>4. QED
  BY <1>1, <1>2, <1>3, Zenon

LEMMA BoundsType == MaxSessions \in Nat \ {0} /\ MaxHosts \in Nat \ {0}
BY PumpAssumption

-----------------------------------------------------------------------------
(* The invariant.                                                          *)

\* A host is of one window, and what was not launched was not born.
HostInv ==
    /\ \A v, w \in Windows : host[v] # NoHost /\ host[v] = host[w] => v = w
    /\ \A s \in Sessions : s > launched => child[s] = "unborn"

Born(s) == s \in Sessions /\ child[s] # "unborn"

\* Whatever a window knows of, and every record, is of a child that was started.
BornInv ==
    /\ \A w \in Windows : \A s \in {active[w], stored[w], restoring[w]} \ {NoSession} : Born(s)
    /\ \A s \in connecting \union ending \union pids : Born(s)

\* A launch belongs to the host that runs in its window.
AcquireInv ==
    \A w \in Windows :
       acquire[w] # Idle =>
          /\ w \in up
          /\ acquire[w].at # "idle"
          /\ acquire[w].session # NoSession
          /\ owner[acquire[w].session] = host[w]
          /\ child[acquire[w].session] = "unborn"

\* When it is about to remove a lock it has read, the owner of what it read is
\* gone or is this same host.
SawInv ==
    \A w \in Windows, s \in Sessions :
       acquire[w].at = "unlink" /\ acquire[w].saw = s /\ HostLives(s) => IsOwn(w, s)

\* A window restores only what a host before it has left, and the record it
\* keeps of a session whose host lives is of its own active session.
RecordInv ==
    \A w \in Windows :
       /\ restoring[w] # NoSession => ~HostLives(restoring[w])
       /\ active[w] # NoSession => stored[w] = active[w]
       /\ stored[w] # NoSession /\ HostLives(stored[w]) =>
             IsOwn(w, stored[w]) /\ active[w] = stored[w]

\* The lock file of s was removed under its host.
Lost(s) == <<s, "superseded">> \in lapses \/ <<s, "raced">> \in lapses

\* s runs undisturbed, or has just made the lock file.
Holds(s) ==
    \/ Undisturbed(s)
    \/ \E w \in Windows : acquire[w].session = s /\ acquire[w].at \in {"write", "spawn"}

\* Whoever holds the lock and has not lost it is the one the file names.
LockInv == \A s \in Sessions : Holds(s) /\ HostLives(s) /\ ~Lost(s) => lock.by = s

\* Whoever runs undisturbed has a pid record, unless it was given up.
PidInv == NoStray

\* By a window that had only attached, or by a reaper.
GivenUp(s) == <<s, "unrecorded">> \in lapses \/ <<s, "spared">> \in lapses

LEMMA PidInvGivenUp ==
    PidInv <=> \A s \in Sessions : Undisturbed(s) /\ ~GivenUp(s) => s \in pids
BY DEF PidInv, NoStray, GivenUp

Inv == TypeOK /\ HostInv /\ BornInv /\ AcquireInv /\ SawInv /\ RecordInv /\ LockInv /\ PidInv

LEMMA InvInit == Init => Inv
<1> SUFFICES ASSUME Init PROVE Inv
  OBVIOUS
<1> USE BoundsType DEF Init, NoSession, NoHost
<1>1. TypeOK
  BY DEF TypeOK, Sessions, NoLock, Idle, Acquiring, up
<1>2. HostInv /\ BornInv
  BY DEF HostInv, BornInv, Sessions
<1>3. AcquireInv /\ SawInv /\ RecordInv
  BY DEF AcquireInv, SawInv, RecordInv, Idle, Sessions
<1>4. LockInv /\ PidInv
  BY DEF LockInv, Holds, Undisturbed, PidInv, NoStray, Idle, Sessions
<1>5. QED
  BY <1>1, <1>2, <1>3, <1>4 DEF Inv

\* The types of the pieces, one by one.
LEMMA InvTypes ==
    ASSUME Inv
    PROVE  /\ started \in Nat /\ started <= MaxHosts
           /\ host \in [Windows -> 0 .. started]
           /\ launched \in Nat /\ launched <= MaxSessions
           /\ 0 .. launched \subseteq Nat
           /\ \A s \in 0 .. launched : s # 0 => s \in Sessions
           /\ owner \in [Sessions -> 0 .. started]
           /\ child \in [Sessions -> {"unborn", "alive", "stopped", "dead"}]
           /\ lock \in [by : 0 .. launched, full : BOOLEAN]
           /\ stored \in [Windows -> 0 .. launched]
           /\ active \in [Windows -> 0 .. launched]
           /\ restoring \in [Windows -> 0 .. launched]
           /\ acquire \in [Windows -> Launching]
<1> USE BoundsType
<1>1. TypeOK
  BY DEF Inv
<1>2. started \in Nat /\ started <= MaxHosts /\ launched \in Nat /\ launched <= MaxSessions
  BY <1>1 DEF TypeOK
<1>3. \A s \in 0 .. launched : s # 0 => s \in Sessions
  BY <1>2 DEF Sessions
<1>4. QED
  BY <1>1, <1>2, <1>3 DEF TypeOK, Launching

\* As long as hosts and owners stay, so does who lives.
LEMMA SameHosts ==
    ASSUME host' = host, owner' = owner
    PROVE  /\ up' = up
           /\ \A w, s : IsOwn(w, s)' <=> IsOwn(w, s)
           /\ \A s : HostLives(s)' <=> HostLives(s)
BY DEF up, IsOwn, HostLives

-----------------------------------------------------------------------------
(* Steps that neither launch anything nor change a host.                   *)

Keeps == UNCHANGED <<started, host, launched, owner, acquire>>

\* What they do to the children: told to stop, or found dead.
Calms ==
    /\ child' \in [Sessions -> {"unborn", "alive", "stopped", "dead"}]
    /\ \A s \in Sessions : /\ child'[s] = "unborn" <=> child[s] = "unborn"
                           /\ child'[s] = "alive" => child[s] = "alive"

\* To the lock file: removed, but from under a host that lives only when that
\* is recorded.
Unlocks ==
    /\ lock' = lock \/ lock' = NoLock
    /\ lapses \subseteq lapses'
    /\ lapses' \subseteq Sessions \X {"superseded", "raced", "unrecorded", "spared"}
    /\ lock' # lock =>
          \A s \in Sessions : lock.by = s /\ HostLives(s) =>
                Lost(s)' \/ (child[s] \in {"stopped", "dead"})

\* To the records: those of children that stop may go, and those given up.
Forgets ==
    /\ unreaped' \subseteq unreaped
    /\ connecting' \subseteq connecting
    /\ \A s \in ending' : Born(s)
    /\ pids' \subseteq pids
    /\ \A s \in pids \ pids' : child'[s] = "alive" => GivenUp(s)'

WindowTypes ==
    /\ active \in [Windows -> 0 .. launched]
    /\ stored \in [Windows -> 0 .. launched]
    /\ restoring \in [Windows -> 0 .. launched]

WindowInv ==
    /\ WindowTypes
    /\ RecordInv
    /\ \A w \in Windows : \A s \in {active[w], stored[w], restoring[w]} \ {NoSession} : Born(s)

LEMMA WindowInvHolds == Inv => WindowInv
BY DEF Inv, TypeOK, BornInv, WindowInv, WindowTypes

LEMMA SettlingStep ==
    ASSUME Inv, Keeps, Calms, Unlocks, Forgets, WindowInv'
    PROVE  Inv'
<1>1. /\ started' = started /\ host' = host /\ launched' = launched /\ owner' = owner
      /\ acquire' = acquire
  BY DEF Keeps
<1>2. /\ up' = up
      /\ \A w, s : IsOwn(w, s)' <=> IsOwn(w, s)
      /\ \A s : HostLives(s)' <=> HostLives(s)
  BY <1>1, SameHosts
<1>3. lock' \in [by : 0 .. launched, full : BOOLEAN]
  <2>1. NoLock \in [by : 0 .. launched, full : BOOLEAN]
    BY InvTypes DEF NoLock, NoSession
  <2>2. QED
    BY <2>1, InvTypes DEF Unlocks
<1>4. \A s \in Sessions : Born(s)' <=> Born(s)
  BY DEF Calms, Born
<1>5. TypeOK'
  <2>1. /\ unreaped' \subseteq up /\ connecting' \subseteq Sessions /\ pids' \subseteq Sessions
    BY DEF Inv, TypeOK, Forgets
  <2>2. ending' \subseteq Sessions
    BY DEF Forgets, Born
  <2>3. QED
    BY <1>1, <1>2, <1>3, <2>1, <2>2 DEF Inv, TypeOK, Calms, Unlocks, WindowInv, WindowTypes
<1>6. HostInv'
  BY <1>1 DEF Inv, HostInv, Calms
<1>7. BornInv'
  <2>1. \A s \in connecting' \union ending' \union pids' : Born(s)'
    BY <1>4 DEF Inv, BornInv, Forgets, Born
  <2>2. QED
    BY <2>1 DEF BornInv, WindowInv
<1>8. AcquireInv'
  <2> SUFFICES ASSUME NEW w \in Windows, acquire[w] # Idle
               PROVE  /\ w \in up
                      /\ acquire[w].at # "idle"
                      /\ acquire[w].session # NoSession
                      /\ owner[acquire[w].session] = host[w]
                      /\ child'[acquire[w].session] = "unborn"
    BY <1>1, <1>2 DEF AcquireInv
  <2>1. acquire[w].session \in 0 .. launched
    BY InvTypes DEF Launching
  <2>2. acquire[w].session \in Sessions
    BY <2>1, InvTypes DEF Inv, AcquireInv, NoSession
  <2>3. QED
    BY <2>2 DEF Inv, AcquireInv, Calms
<1>9. RecordInv'
  BY DEF WindowInv
<1>10. LockInv'
  <2> SUFFICES ASSUME NEW s \in Sessions, Holds(s)', HostLives(s)', ~Lost(s)'
               PROVE  lock'.by = s
    BY DEF LockInv
  <2>1. Holds(s) /\ HostLives(s) /\ ~Lost(s)
    BY <1>1, <1>2 DEF Holds, Undisturbed, Calms, Lost, Unlocks
  <2>2. lock.by = s
    BY <2>1 DEF Inv, LockInv
  <2>3. child[s] \notin {"stopped", "dead"}
    <3>1. CASE Undisturbed(s)
      BY <3>1 DEF Undisturbed
    <3>2. CASE \E w \in Windows : acquire[w].session = s /\ acquire[w].at \in {"write", "spawn"}
      <4>1. PICK w \in Windows : acquire[w].session = s /\ acquire[w].at \in {"write", "spawn"}
        BY <3>2
      <4>2. acquire[w] # Idle
        BY <4>1 DEF Idle
      <4>3. QED
        BY <4>1, <4>2 DEF Inv, AcquireInv
    <3>3. QED
      BY <2>1, <3>1, <3>2 DEF Holds
  <2>4. QED
    BY <2>1, <2>2, <2>3 DEF Unlocks
<1>11. PidInv'
  <2>1. \A s \in Sessions : GivenUp(s) => GivenUp(s)'
    BY DEF GivenUp, Unlocks
  <2>2. \A s \in Sessions : Undisturbed(s)' => Undisturbed(s)
    BY DEF Undisturbed, Calms
  <2>3. \A s \in Sessions : Undisturbed(s) /\ ~GivenUp(s) => s \in pids
    BY PidInvGivenUp DEF Inv
  <2>4. \A s \in Sessions : Undisturbed(s)' /\ ~GivenUp(s)' => s \in pids'
    BY <2>1, <2>2, <2>3 DEF Undisturbed, Forgets
  <2>5. QED
    BY <2>4 DEF PidInv, NoStray, GivenUp
<1>12. SawInv'
  BY <1>1, <1>2 DEF Inv, SawInv
<1>13. QED
  BY <1>5, <1>6, <1>7, <1>8, <1>9, <1>10, <1>11, <1>12 DEF Inv

LEMMA StopsCalm ==
    ASSUME Inv, NEW S, child' = Stops(S)
    PROVE  Calms /\ \A s \in S : s \in Sessions => child'[s] # "alive"
<1>1. child \in [Sessions -> {"unborn", "alive", "stopped", "dead"}]
  BY InvTypes
<1>2. QED
  BY <1>1 DEF Stops, Runs, Calms

LEMMA SameChildrenCalm == ASSUME Inv, child' = child PROVE Calms
BY InvTypes DEF Calms

\* What happens to the sessions a window knows of.
LEMMA WindowsSame ==
    ASSUME Inv, Keeps, Calms, UNCHANGED <<active, stored, restoring>>
    PROVE  WindowInv'
<1>1. /\ host' = host /\ launched' = launched /\ owner' = owner
      /\ active' = active /\ stored' = stored /\ restoring' = restoring
  BY DEF Keeps
<1>2. /\ \A w, s : IsOwn(w, s)' <=> IsOwn(w, s)
      /\ \A s : HostLives(s)' <=> HostLives(s)
  BY <1>1, SameHosts
<1>3. WindowInv
  BY WindowInvHolds
<1>4. WindowTypes'
  BY <1>1, <1>3 DEF WindowInv, WindowTypes
<1>5. RecordInv'
  BY <1>1, <1>2, <1>3 DEF WindowInv, RecordInv
<1>6. QED
  BY <1>1, <1>3, <1>4, <1>5 DEF WindowInv, Born, Calms

LEMMA BornLaunched == ASSUME Inv, NEW s, Born(s) PROVE s \in 0 .. launched /\ s # NoSession
<1>1. s \in Sessions /\ ~(s > launched)
  BY DEF Born, Inv, HostInv
<1>2. QED
  BY <1>1, InvTypes, BoundsType DEF Sessions, NoSession

LEMMA WindowActivates ==
    ASSUME Inv, Keeps, Calms, NEW w \in Windows, NEW s, Born(s), Activates(w, s),
           HostLives(s) => IsOwn(w, s),
           \/ restoring' = restoring
           \/ restoring' = [restoring EXCEPT ![w] = NoSession]
    PROVE  WindowInv'
<1>1. /\ host' = host /\ launched' = launched /\ owner' = owner
      /\ active' = [active EXCEPT ![w] = s] /\ stored' = [stored EXCEPT ![w] = s]
  BY DEF Keeps, Activates
<1>2. /\ \A v, t : IsOwn(v, t)' <=> IsOwn(v, t)
      /\ \A t : HostLives(t)' <=> HostLives(t)
  BY <1>1, SameHosts
<1>3. WindowInv
  BY WindowInvHolds
<1>4. s \in 0 .. launched /\ s # NoSession /\ NoSession \in 0 .. launched
  BY BornLaunched, InvTypes DEF NoSession
<1>5. WindowTypes'
  BY <1>1, <1>3, <1>4 DEF WindowInv, WindowTypes
<1>6. RecordInv'
  BY <1>1, <1>2, <1>3, <1>4 DEF WindowInv, WindowTypes, RecordInv
<1>7. \A v \in Windows : \A t \in {active'[v], stored'[v], restoring'[v]} \ {NoSession} : Born(t)
  BY <1>1, <1>3 DEF WindowInv, WindowTypes
<1>8. \A t : Born(t) => Born(t)'
  BY DEF Born, Calms
<1>9. QED
  BY <1>5, <1>6, <1>7, <1>8 DEF WindowInv

\* A window forgets a session, and its record with it; a restore that fails
\* also forgets what it tried.
LEMMA WindowClears ==
    ASSUME Inv, Keeps, Calms, NEW w \in Windows,
           \/ UNCHANGED <<active, stored>>
           \/ /\ active' = [active EXCEPT ![w] = NoSession]
              /\ stored' = [stored EXCEPT ![w] = NoSession],
           \/ restoring' = restoring
           \/ restoring' = [restoring EXCEPT ![w] = NoSession]
    PROVE  WindowInv'
<1>1. /\ host' = host /\ launched' = launched /\ owner' = owner
  BY DEF Keeps
<1>2. /\ \A v, t : IsOwn(v, t)' <=> IsOwn(v, t)
      /\ \A t : HostLives(t)' <=> HostLives(t)
  BY <1>1, SameHosts
<1>3. WindowInv
  BY WindowInvHolds
<1>4. NoSession \in 0 .. launched
  BY InvTypes DEF NoSession
<1>5. /\ \A v \in Windows : restoring'[v] = restoring[v] \/ restoring'[v] = NoSession
      /\ \A v \in Windows : \/ active'[v] = active[v] /\ stored'[v] = stored[v]
                            \/ active'[v] = NoSession /\ stored'[v] = NoSession
  BY <1>3 DEF WindowInv, WindowTypes
<1>6. WindowTypes'
  BY <1>1, <1>3, <1>4 DEF WindowInv, WindowTypes
<1>7. RecordInv'
  BY <1>2, <1>3, <1>5 DEF WindowInv, RecordInv
<1>8. \A v \in Windows : \A t \in {active'[v], stored'[v], restoring'[v]} \ {NoSession} : Born(t)
  BY <1>3, <1>5 DEF WindowInv
<1>9. \A t : Born(t) => Born(t)'
  BY DEF Born, Calms
<1>10. QED
  BY <1>6, <1>7, <1>8, <1>9 DEF WindowInv

LEMMA ClearsFacts ==
    ASSUME NEW w, NEW s, Clears(w, s)
    PROVE  \/ UNCHANGED <<active, stored>>
           \/ /\ active' = [active EXCEPT ![w] = NoSession]
              /\ stored' = [stored EXCEPT ![w] = NoSession]
BY Zenon DEF Clears

LEMMA SameFiles ==
    ASSUME Inv, lapses' = lapses
    PROVE  /\ lapses \subseteq lapses'
           /\ lapses' \subseteq Sessions \X {"superseded", "raced", "unrecorded", "spared"}
BY DEF Inv, TypeOK

LEMMA SameLock == ASSUME Inv, UNCHANGED <<lock, lapses>> PROVE Unlocks
BY SameFiles DEF Unlocks

LEMMA ChildExitsStep ==
    ASSUME Inv, NEW s \in Sessions, ChildExits(s)
    PROVE  Inv'
<1>1. /\ Runs(s)
      /\ child' = [child EXCEPT ![s] = "dead"]
      /\ pids' = IF HostLives(s) THEN pids \ {s} ELSE pids
      /\ started' = started /\ host' = host /\ launched' = launched /\ owner' = owner
      /\ acquire' = acquire /\ lock' = lock /\ lapses' = lapses /\ stored' = stored
      /\ active' = active /\ connecting' = connecting /\ restoring' = restoring
      /\ ending' = ending /\ unreaped' = unreaped
  BY Zenon DEF ChildExits, memory
<1>2. Keeps
  BY <1>1 DEF Keeps
<1>3. Calms
  BY <1>1, InvTypes DEF Calms, Runs
<1>4. Unlocks
  BY <1>1, SameLock
<1>5. Forgets
  <2>1. child'[s] = "dead"
    BY <1>1, InvTypes
  <2>2. QED
    BY <1>1, <2>1 DEF Forgets, Inv, BornInv
<1>6. WindowInv'
  BY <1>1, <1>2, <1>3, WindowsSame
<1>7. QED
  BY <1>2, <1>3, <1>4, <1>5, <1>6, SettlingStep

\* What it does not signal is given up.
LEMMA ReapStep ==
    ASSUME Inv, NEW w \in Windows, Reap(w)
    PROVE  Inv'
<1>1. PICK spared \in SUBSET {s \in pids : Runs(s)} :
         /\ child' = Stops(pids \ spared)
         /\ lapses' = lapses \union spared \X {"spared"}
  BY Zenon DEF Reap
<1>2. /\ pids' = {} /\ unreaped' = unreaped \ {w}
      /\ started' = started /\ host' = host /\ launched' = launched /\ owner' = owner
      /\ acquire' = acquire /\ lock' = lock /\ stored' = stored
      /\ active' = active /\ connecting' = connecting /\ restoring' = restoring
      /\ ending' = ending
  BY Zenon DEF Reap
<1>3. Keeps
  BY <1>2 DEF Keeps
<1>4. Calms /\ \A s \in pids \ spared : s \in Sessions => child'[s] # "alive"
  BY <1>1, StopsCalm
<1>5. pids \subseteq Sessions /\ spared \subseteq pids
  BY <1>1 DEF Inv, TypeOK
<1>6. Unlocks
  BY <1>1, <1>2, <1>5 DEF Unlocks, Inv, TypeOK
<1>7. \A s \in spared : GivenUp(s)'
  BY <1>1 DEF GivenUp
<1>8. Forgets
  BY <1>2, <1>4, <1>5, <1>7 DEF Forgets, Inv, BornInv
<1>9. WindowInv'
  BY <1>2, <1>3, <1>4, WindowsSame
<1>10. QED
  BY <1>3, <1>4, <1>6, <1>8, <1>9, SettlingStep

LEMMA ConnectedStep ==
    ASSUME Inv, NEW w \in Windows, NEW s \in Sessions, Connected(w, s)
    PROVE  Inv'
<1>1. /\ s \in connecting /\ IsOwn(w, s)
      /\ connecting' = connecting \ {s}
      /\ Activates(w, s)
      /\ started' = started /\ host' = host /\ launched' = launched /\ owner' = owner
      /\ acquire' = acquire /\ lock' = lock /\ lapses' = lapses /\ child' = child
      /\ pids' = pids /\ restoring' = restoring /\ ending' = ending /\ unreaped' = unreaped
  BY Zenon DEF Connected, UnchangedBySessions
<1>2. Keeps
  BY <1>1 DEF Keeps
<1>3. Calms
  BY <1>1, SameChildrenCalm
<1>4. Unlocks
  BY <1>1, SameLock
<1>5. Born(s) /\ Forgets
  BY <1>1 DEF Forgets, Inv, BornInv
<1>6. WindowInv'
  BY <1>1, <1>2, <1>3, <1>5, WindowActivates
<1>7. QED
  BY <1>2, <1>3, <1>4, <1>5, <1>6, SettlingStep

LEMMA AttachTimesOutStep ==
    ASSUME Inv, NEW w \in Windows, NEW s \in Sessions, AttachTimesOut(w, s)
    PROVE  Inv'
<1>1. /\ connecting' = connecting \ {s}
      /\ started' = started /\ host' = host /\ launched' = launched /\ owner' = owner
      /\ acquire' = acquire /\ lock' = lock /\ lapses' = lapses /\ child' = child
      /\ pids' = pids /\ restoring' = restoring /\ ending' = ending /\ unreaped' = unreaped
      /\ active' = active /\ stored' = stored
  BY Zenon DEF AttachTimesOut, UnchangedBySessions, files
<1>2. Keeps
  BY <1>1 DEF Keeps
<1>3. Calms
  BY <1>1, SameChildrenCalm
<1>4. Unlocks
  BY <1>1, SameLock
<1>5. Forgets
  BY <1>1 DEF Forgets, Inv, BornInv
<1>6. WindowInv'
  BY <1>1, <1>2, <1>3, WindowsSame
<1>7. QED
  BY <1>2, <1>3, <1>4, <1>5, <1>6, SettlingStep

LEMMA EndedStep ==
    ASSUME Inv, NEW w \in Windows, Ended(w)
    PROVE  Inv'
<1>1. /\ Clears(w, active[w])
      /\ started' = started /\ host' = host /\ launched' = launched /\ owner' = owner
      /\ acquire' = acquire /\ lock' = lock /\ lapses' = lapses /\ child' = child
      /\ pids' = pids /\ restoring' = restoring /\ ending' = ending /\ unreaped' = unreaped
      /\ connecting' = connecting
  BY Zenon DEF Ended, UnchangedBySessions
<1>2. Keeps
  BY <1>1 DEF Keeps
<1>3. Calms
  BY <1>1, SameChildrenCalm
<1>4. Unlocks
  BY <1>1, SameLock
<1>5. Forgets
  BY <1>1 DEF Forgets, Inv, BornInv
<1>6. WindowInv'
  BY <1>1, <1>2, <1>3, ClearsFacts, WindowClears
<1>7. QED
  BY <1>2, <1>3, <1>4, <1>5, <1>6, SettlingStep

LEMMA StopActiveStep ==
    ASSUME Inv, NEW w \in Windows, StopActive(w)
    PROVE  Inv'
<1>1. /\ child' = child \/ child' = Stops({active[w]})
      /\ Clears(w, active[w])
      /\ started' = started /\ host' = host /\ launched' = launched /\ owner' = owner
      /\ acquire' = acquire /\ lock' = lock /\ lapses' = lapses
      /\ pids' = pids /\ restoring' = restoring /\ ending' = ending /\ unreaped' = unreaped
      /\ connecting' = connecting
  BY Zenon DEF StopActive, UnchangedBySessions
<1>2. Keeps
  BY <1>1 DEF Keeps
<1>3. Calms
  BY <1>1, StopsCalm, SameChildrenCalm
<1>4. Unlocks
  BY <1>1, SameLock
<1>5. Forgets
  BY <1>1 DEF Forgets, Inv, BornInv
<1>6. WindowInv'
  BY <1>1, <1>2, <1>3, ClearsFacts, WindowClears
<1>7. QED
  BY <1>2, <1>3, <1>4, <1>5, <1>6, SettlingStep

\* The pump of another host is disposed at once, with its child's pid record.
LEMMA EndSessionStep ==
    ASSUME Inv, NEW w \in Windows, EndSession(w)
    PROVE  Inv'
<1> DEFINE s == active[w]
<1>1. /\ s # NoSession
      /\ started' = started /\ host' = host /\ launched' = launched /\ owner' = owner
      /\ acquire' = acquire /\ lock' = lock
      /\ restoring' = restoring /\ unreaped' = unreaped /\ connecting' = connecting
  BY Zenon DEF EndSession, UnchangedBySessions
<1>2. \/ /\ child' = Stops({s}) /\ ending' = ending \union {s} /\ pids' = pids
         /\ active' = active /\ stored' = stored /\ lapses' = lapses
      \/ /\ \/ child' = Stops({s}) /\ lapses' = lapses
            \/ child' = child /\ lapses' = lapses \union {<<s, "unrecorded">>}
         /\ pids' = pids \ {s} /\ Clears(w, s) /\ ending' = ending
  BY Zenon DEF EndSession
<1>3. Keeps
  BY <1>1 DEF Keeps
<1>4. Born(s) /\ s \in Sessions
  BY <1>1 DEF Inv, BornInv, Born
<1> HIDE DEF s
<1>5. Calms /\ (child' = Stops({s}) => child'[s] # "alive")
  BY <1>2, <1>4, StopsCalm, SameChildrenCalm
<1>6. Unlocks
  BY <1>1, <1>2, <1>4 DEF Unlocks, Inv, TypeOK
<1>7. Forgets
  <2>1. \A t \in ending' : Born(t)
    BY <1>2, <1>4 DEF Inv, BornInv
  <2>2. \A t \in pids \ pids' : t = s /\ (child'[t] = "alive" => <<t, "unrecorded">> \in lapses')
    BY <1>2, <1>5
  <2>3. QED
    BY <1>1, <1>2, <2>1, <2>2 DEF Forgets, GivenUp
<1>8. WindowInv'
  <2>1. \/ UNCHANGED <<active, stored>>
        \/ /\ active' = [active EXCEPT ![w] = NoSession]
           /\ stored' = [stored EXCEPT ![w] = NoSession]
    BY <1>2, ClearsFacts
  <2>2. QED
    BY <1>1, <1>3, <1>5, <2>1, WindowClears
<1>9. QED
  BY <1>3, <1>5, <1>6, <1>7, <1>8, SettlingStep

LEMMA RacedFacts ==
    ASSUME Inv, NEW saw
    PROVE  /\ Raced(saw) \subseteq Sessions \X {"superseded", "raced", "unrecorded", "spared"}
           /\ \A t \in Sessions : lock.by = t /\ t # saw /\ HostLives(t) => <<t, "raced">> \in Raced(saw)
<1>1. lock.by \in 0 .. launched
  BY InvTypes
<1>2. lock.by # NoSession => lock.by \in Sessions
  BY <1>1, InvTypes DEF NoSession
<1>3. \A t \in Sessions : t # NoSession
  BY DEF Sessions, NoSession
<1>4. QED
  BY <1>2, <1>3 DEF Raced

LEMMA EndDoneStep ==
    ASSUME Inv, NEW w \in Windows, NEW s \in Sessions, EndDone(w, s)
    PROVE  Inv'
<1>1. /\ child[s] = "dead"
      /\ lock' = Released(s)
      /\ lapses' = IF lock' # lock THEN lapses \union Raced(s) ELSE lapses
      /\ ending' = ending \ {s}
      /\ Clears(w, s)
      /\ child' = child /\ pids' = pids /\ connecting' = connecting
      /\ restoring' = restoring /\ unreaped' = unreaped
      /\ started' = started /\ host' = host /\ launched' = launched /\ owner' = owner
      /\ acquire' = acquire
  BY Zenon DEF EndDone, UnchangedBySessions
<1>2. Keeps
  BY <1>1 DEF Keeps
<1>3. Calms
  BY <1>1, SameChildrenCalm
<1>4. Unlocks
  <2>1. lock' = lock \/ lock' = NoLock
    BY <1>1 DEF Released
  <2>2. lapses \subseteq lapses' /\ lapses' \subseteq Sessions \X {"superseded", "raced", "unrecorded", "spared"}
    BY <1>1, RacedFacts DEF Inv, TypeOK
  <2>3. ASSUME lock' # lock, NEW t \in Sessions, lock.by = t, HostLives(t)
        PROVE  Lost(t)' \/ child[t] \in {"stopped", "dead"}
    <3>1. t # s => <<t, "raced">> \in lapses'
      BY <1>1, <2>3, RacedFacts
    <3>2. QED
      BY <1>1, <3>1 DEF Lost
  <2>4. QED
    BY <2>1, <2>2, <2>3 DEF Unlocks
<1>5. Forgets
  BY <1>1 DEF Forgets, Inv, BornInv
<1>6. WindowInv'
  BY <1>1, <1>2, <1>3, ClearsFacts, WindowClears
<1>7. QED
  BY <1>2, <1>3, <1>4, <1>5, <1>6, SettlingStep

\* The session that is restored is the one a host before this has left.
LEMMA RestoreStep ==
    ASSUME Inv, NEW w \in Windows, Restore(w)
    PROVE  Inv'
<1>1. /\ active[w] = NoSession /\ stored[w] # NoSession
      /\ restoring' = [restoring EXCEPT ![w] = stored[w]]
      /\ child' = child /\ pids' = pids /\ connecting' = connecting
      /\ unreaped' = unreaped /\ lock' = lock /\ lapses' = lapses /\ ending' = ending
      /\ started' = started /\ host' = host /\ launched' = launched /\ owner' = owner
      /\ acquire' = acquire /\ active' = active /\ stored' = stored
  BY Zenon DEF Restore, UnchangedBySessions, files
<1>2. Keeps
  BY <1>1 DEF Keeps
<1>3. Calms
  BY <1>1, SameChildrenCalm
<1>4. Unlocks
  BY <1>1, SameLock
<1>5. Forgets
  BY <1>1 DEF Forgets, Inv, BornInv
<1>6. WindowInv'
  <2>1. /\ \A v, s : IsOwn(v, s)' <=> IsOwn(v, s)
        /\ \A s : HostLives(s)' <=> HostLives(s)
    BY <1>1, SameHosts
  <2>2. WindowInv
    BY WindowInvHolds
  <2>3. ~HostLives(stored[w])
    BY <1>1, <2>2 DEF WindowInv, RecordInv
  <2>4. WindowTypes'
    BY <1>1, <2>2 DEF WindowInv, WindowTypes
  <2>5. \A v \in Windows : restoring'[v] = restoring[v] \/ (restoring'[v] = stored[v] /\ v = w)
    BY <1>1, <2>2 DEF WindowInv, WindowTypes
  <2>6. RecordInv'
    BY <1>1, <2>1, <2>2, <2>3, <2>5 DEF WindowInv, RecordInv
  <2>7. QED
    BY <1>1, <2>2, <2>4, <2>5, <2>6 DEF WindowInv, Born
<1>7. QED
  BY <1>2, <1>3, <1>4, <1>5, <1>6, SettlingStep

LEMMA RestoredStep ==
    ASSUME Inv, NEW w \in Windows, Restored(w)
    PROVE  Inv'
<1>1. /\ restoring[w] # NoSession
      /\ Activates(w, restoring[w])
      /\ restoring' = [restoring EXCEPT ![w] = NoSession]
      /\ child' = child /\ pids' = pids /\ connecting' = connecting
      /\ unreaped' = unreaped /\ lock' = lock /\ lapses' = lapses /\ ending' = ending
      /\ started' = started /\ host' = host /\ launched' = launched /\ owner' = owner
      /\ acquire' = acquire
  BY Zenon DEF Restored, UnchangedBySessions
<1>2. Keeps
  BY <1>1 DEF Keeps
<1>3. Calms
  BY <1>1, SameChildrenCalm
<1>4. Unlocks
  BY <1>1, SameLock
<1>5. Forgets
  BY <1>1 DEF Forgets, Inv, BornInv
<1>6. Born(restoring[w]) /\ ~HostLives(restoring[w])
  BY <1>1 DEF Inv, BornInv, RecordInv
<1>7. WindowInv'
  BY <1>1, <1>2, <1>3, <1>6, WindowActivates
<1>8. QED
  BY <1>2, <1>3, <1>4, <1>5, <1>7, SettlingStep

\* The lock it clears is of a host that is gone.
LEMMA RestoreFailsStep ==
    ASSUME Inv, NEW w \in Windows, RestoreFails(w)
    PROVE  Inv'
<1>1. /\ restoring[w] # NoSession
      /\ lock' = Unlocked(restoring[w])
      /\ active' = [active EXCEPT ![w] = NoSession]
      /\ stored' = [stored EXCEPT ![w] = NoSession]
      /\ restoring' = [restoring EXCEPT ![w] = NoSession]
      /\ child' = child /\ pids' = pids /\ connecting' = connecting
      /\ unreaped' = unreaped /\ lapses' = lapses /\ ending' = ending
      /\ started' = started /\ host' = host /\ launched' = launched /\ owner' = owner
      /\ acquire' = acquire
  BY Zenon DEF RestoreFails, UnchangedBySessions
<1>2. Keeps
  BY <1>1 DEF Keeps
<1>3. Calms
  BY <1>1, SameChildrenCalm
<1>4. ~HostLives(restoring[w])
  BY <1>1 DEF Inv, RecordInv
<1>5. Unlocks
  BY <1>1, <1>4, SameFiles DEF Unlocks, Unlocked
<1>6. Forgets
  BY <1>1 DEF Forgets, Inv, BornInv
<1>7. WindowInv'
  BY <1>1, <1>2, <1>3, WindowClears
<1>8. QED
  BY <1>2, <1>3, <1>5, <1>6, <1>7, SettlingStep

-----------------------------------------------------------------------------
(* Hosts come and go.                                                      *)

\* A new host has launched nothing.
LEMMA ActivateStep ==
    ASSUME Inv, NEW w \in Windows, Activate(w)
    PROVE  Inv'
<1>1. /\ w \notin up /\ started < MaxHosts
      /\ started' = started + 1
      /\ host' = [host EXCEPT ![w] = started']
      /\ unreaped' = unreaped \union {w}
      /\ launched' = launched /\ owner' = owner /\ child' = child
      /\ lock' = lock /\ pids' = pids /\ stored' = stored
      /\ active' = active /\ connecting' = connecting /\ restoring' = restoring
      /\ ending' = ending /\ acquire' = acquire /\ lapses' = lapses
  BY Zenon DEF Activate, files
<1>2. /\ started \in Nat /\ started + 1 <= MaxHosts
      /\ host \in [Windows -> 0 .. started]
      /\ host' \in [Windows -> 0 .. started']
      /\ owner' \in [Sessions -> 0 .. started']
  BY <1>1, InvTypes, BoundsType
<1>3. up' = up \union {w}
  BY <1>1, <1>2 DEF up, NoHost
<1>4. \A v \in Windows : \A s \in Sessions : IsOwn(v, s)' <=> IsOwn(v, s)
  <2> SUFFICES ASSUME NEW v \in Windows, NEW s \in Sessions PROVE IsOwn(v, s)' <=> IsOwn(v, s)
    OBVIOUS
  <2>1. owner[s] \in 0 .. started /\ owner'[s] = owner[s]
    BY <1>1, InvTypes
  <2>2. CASE v = w
    BY <1>1, <1>2, <2>1, <2>2 DEF IsOwn
  <2>3. CASE v # w
    BY <1>1, <1>2, <1>3, <2>1, <2>3 DEF IsOwn
  <2>4. QED
    BY <2>2, <2>3
<1>5. \A s \in Sessions : HostLives(s)' <=> HostLives(s)
  BY <1>4 DEF HostLives
<1>6. \A s \in 0 .. launched : s # NoSession => s \in Sessions
  BY InvTypes DEF NoSession
<1>7. TypeOK'
  BY <1>1, <1>2, <1>3 DEF Inv, TypeOK
<1>8. HostInv'
  <2>1. \A v \in Windows : host[v] \in 0 .. started
    BY <1>2
  <2>2. \A v \in Windows : v # w => host'[v] = host[v]
    BY <1>1, <1>2
  <2>3. host'[w] = started + 1
    BY <1>1, <1>2
  <2>4. QED
    BY <1>1, <1>2, <2>1, <2>2, <2>3 DEF Inv, HostInv
<1>9. BornInv'
  BY <1>1 DEF Inv, BornInv, Born
<1>10. AcquireInv'
  <2> SUFFICES ASSUME NEW v \in Windows, acquire[v] # Idle
               PROVE  /\ v \in up'
                      /\ acquire[v].at # "idle"
                      /\ acquire[v].session # NoSession
                      /\ owner[acquire[v].session] = host'[v]
                      /\ child[acquire[v].session] = "unborn"
    BY <1>1 DEF AcquireInv
  <2>1. v \in up /\ v # w
    BY <1>1 DEF Inv, AcquireInv
  <2>2. host'[v] = host[v]
    BY <1>1, <1>2, <2>1
  <2>3. QED
    BY <1>3, <2>1, <2>2 DEF Inv, AcquireInv
<1>11. RecordInv'
  <2>1. \A v \in Windows : restoring[v] \in 0 .. launched /\ stored[v] \in 0 .. launched
    BY InvTypes
  <2>2. QED
    BY <1>1, <1>4, <1>5, <1>6, <2>1 DEF Inv, RecordInv
<1>12. LockInv'
  BY <1>1, <1>5 DEF Inv, LockInv, Holds, Undisturbed, Lost
<1>13. PidInv'
  BY <1>1 DEF Inv, PidInv, NoStray, Undisturbed
<1>14. SawInv'
  BY <1>1, <1>4, <1>5 DEF Inv, SawInv
<1>15. QED
  BY <1>7, <1>8, <1>9, <1>10, <1>11, <1>12, <1>13, <1>14 DEF Inv

\* A host goes: its sessions are nobody's from then on.
LEMMA HostGoneStep ==
    ASSUME Inv, NEW w \in Windows, HostGone(w), Calms,
           lock' = lock \/ lock' = NoLock,
           lapses \subseteq lapses',
           lapses' \subseteq Sessions \X {"superseded", "raced", "unrecorded", "spared"},
           lock' # lock =>
              \A s \in Sessions : lock.by = s /\ HostLives(s) => Lost(s)' \/ IsOwn(w, s),
           pids' \subseteq pids,
           \A s \in pids \ pids' : child'[s] = "alive" => <<s, "unrecorded">> \in lapses'
    PROVE  Inv'
<1>1. /\ w \in up
      /\ host' = [host EXCEPT ![w] = NoHost]
      /\ active' = [active EXCEPT ![w] = NoSession]
      /\ restoring' = [restoring EXCEPT ![w] = NoSession]
      /\ connecting' = {s \in connecting : ~IsOwn(w, s)}
      /\ ending' = {s \in ending : ~IsOwn(w, s)}
      /\ unreaped' = unreaped \ {w}
      /\ acquire' = [acquire EXCEPT ![w] = Idle]
      /\ started' = started /\ launched' = launched /\ owner' = owner /\ stored' = stored
  BY Zenon DEF HostGone
<1>2. /\ host \in [Windows -> 0 .. started] /\ NoHost \in 0 .. started
      /\ NoSession \in 0 .. launched
      /\ active \in [Windows -> 0 .. launched] /\ restoring \in [Windows -> 0 .. launched]
      /\ acquire \in [Windows -> Launching]
  BY InvTypes DEF NoHost, NoSession
<1>3. /\ host' \in [Windows -> 0 .. started]
      /\ host'[w] = NoHost
      /\ \A v \in Windows : v # w => host'[v] = host[v]
  BY <1>1, <1>2
<1>4. up' = up \ {w}
  BY <1>3 DEF up
<1>5. \A v \in Windows : \A s : IsOwn(v, s)' <=> IsOwn(v, s) /\ v # w
  BY <1>1, <1>3, <1>4 DEF IsOwn
<1>6. \A s : HostLives(s)' => HostLives(s) /\ ~IsOwn(w, s)
  BY <1>1, <1>3, <1>5 DEF HostLives, IsOwn, Inv, HostInv, up
<1>7. \A s \in Sessions : Born(s)' <=> Born(s)
  BY DEF Calms, Born
<1>8. Idle \in Launching
  BY <1>2 DEF Idle, Launching, NoSession
<1>9. /\ acquire' \in [Windows -> Launching]
      /\ acquire'[w] = Idle
      /\ \A v \in Windows : v # w => acquire'[v] = acquire[v]
  BY <1>1, <1>2, <1>8
<1>10. TypeOK'
  <2>1. lock' \in [by : 0 .. launched, full : BOOLEAN]
    <3>1. NoLock \in [by : 0 .. launched, full : BOOLEAN]
      BY <1>2 DEF NoLock
    <3>2. QED
      BY <3>1, InvTypes
  <2>2. /\ unreaped' \subseteq up' /\ connecting' \subseteq Sessions /\ ending' \subseteq Sessions
        /\ pids' \subseteq Sessions
    BY <1>1, <1>4 DEF Inv, TypeOK
  <2>3. /\ active' \in [Windows -> 0 .. launched] /\ restoring' \in [Windows -> 0 .. launched]
    BY <1>1, <1>2
  <2>4. QED
    BY <1>1, <1>3, <1>9, <2>1, <2>2, <2>3 DEF Inv, TypeOK, Calms, Launching
<1>11. HostInv'
  BY <1>1, <1>3 DEF Inv, HostInv, Calms
<1>12. BornInv'
  <2>1. \A v \in Windows : \A s \in {active'[v], stored'[v], restoring'[v]} \ {NoSession} : Born(s)
    BY <1>1, <1>2 DEF Inv, BornInv
  <2>2. \A s \in connecting' \union ending' \union pids' : Born(s)
    BY <1>1 DEF Inv, BornInv
  <2>3. \A s : Born(s) => Born(s)'
    BY <1>7 DEF Born
  <2>4. QED
    BY <2>1, <2>2, <2>3 DEF BornInv
<1>13. AcquireInv'
  <2> SUFFICES ASSUME NEW v \in Windows, acquire'[v] # Idle
               PROVE  /\ v \in up'
                      /\ acquire'[v].at # "idle"
                      /\ acquire'[v].session # NoSession
                      /\ owner'[acquire'[v].session] = host'[v]
                      /\ child'[acquire'[v].session] = "unborn"
    BY DEF AcquireInv
  <2>1. v # w /\ acquire'[v] = acquire[v]
    BY <1>9
  <2>2. /\ v \in up
        /\ acquire[v].at # "idle"
        /\ acquire[v].session # NoSession
        /\ owner[acquire[v].session] = host[v]
        /\ child[acquire[v].session] = "unborn"
    BY <2>1 DEF Inv, AcquireInv
  <2>3. acquire[v].session \in Sessions
    <3>1. acquire[v].session \in 0 .. launched
      BY <1>2 DEF Launching
    <3>2. QED
      BY <2>2, <3>1, InvTypes DEF NoSession
  <2>4. QED
    BY <1>1, <1>3, <1>4, <2>1, <2>2, <2>3 DEF Calms
<1>14. RecordInv'
  <2>1. \A v \in Windows : v # w => active'[v] = active[v] /\ restoring'[v] = restoring[v]
    BY <1>1, <1>2
  <2>2. active'[w] = NoSession /\ restoring'[w] = NoSession
    BY <1>1, <1>2
  <2>3. QED
    BY <1>1, <1>5, <1>6, <2>1, <2>2 DEF Inv, RecordInv
<1>15. LockInv'
  <2> SUFFICES ASSUME NEW s \in Sessions, Holds(s)', HostLives(s)', ~Lost(s)'
               PROVE  lock'.by = s
    BY DEF LockInv
  <2>1. Holds(s)
    <3>1. \A v \in Windows : acquire'[v].at \in {"write", "spawn"} => acquire'[v] = acquire[v]
      BY <1>9 DEF Idle
    <3>2. QED
      BY <3>1 DEF Holds, Undisturbed, Calms
  <2>2. HostLives(s) /\ ~IsOwn(w, s) /\ ~Lost(s)
    BY <1>6 DEF Lost
  <2>3. lock.by = s
    BY <2>1, <2>2 DEF Inv, LockInv
  <2>4. QED
    BY <2>2, <2>3
<1>16. PidInv'
  <2>1. \A s \in Sessions : Undisturbed(s) /\ ~GivenUp(s) => s \in pids
    BY PidInvGivenUp DEF Inv
  <2>2. \A s \in Sessions : Undisturbed(s)' /\ ~GivenUp(s)' => s \in pids'
    BY <2>1 DEF Undisturbed, Calms, GivenUp
  <2>3. QED
    BY <2>2 DEF PidInv, NoStray, GivenUp
<1>17. SawInv'
  <2> SUFFICES ASSUME NEW v \in Windows, NEW s \in Sessions,
                      acquire'[v].at = "unlink", acquire'[v].saw = s, HostLives(s)'
               PROVE  IsOwn(v, s)'
    BY DEF SawInv
  <2>1. v # w /\ acquire'[v] = acquire[v]
    BY <1>9 DEF Idle
  <2>2. QED
    BY <1>5, <1>6, <2>1 DEF Inv, SawInv
<1>18. QED
  BY <1>10, <1>11, <1>12, <1>13, <1>14, <1>15, <1>16, <1>17 DEF Inv

LEMMA CrashStep ==
    ASSUME Inv, NEW w \in Windows, Crash(w)
    PROVE  Inv'
<1>1. HostGone(w) /\ child' = child /\ lock' = lock /\ pids' = pids /\ lapses' = lapses
  BY Zenon DEF Crash
<1>2. Calms
  BY <1>1, SameChildrenCalm
<1>3. QED
  BY <1>1, <1>2, SameFiles, HostGoneStep

LEMMA CloseStep ==
    ASSUME Inv, NEW w \in Windows, Close(w)
    PROVE  Inv'
<1> DEFINE s == active[w]
           own == s # NoSession /\ IsOwn(w, s)
<1>1. /\ HostGone(w)
      /\ child' = IF own THEN Stops({s}) ELSE child
      /\ pids' = pids \ {s}
      /\ lock' = IF own THEN Released(s) ELSE lock
      /\ lapses' = IF s # NoSession /\ ~own THEN lapses \union {<<s, "unrecorded">>}
                   ELSE IF lock' # lock THEN lapses \union Raced(s) ELSE lapses
  BY Zenon DEF Close
<1>2. s # NoSession => s \in Sessions
  BY DEF Inv, BornInv, Born
<1>3. NoSession \notin pids
  BY DEF Inv, BornInv, Born, Sessions, NoSession
<1> HIDE DEF s
<1>4. CASE own
  <2>1. child' = Stops({s}) /\ lock' = Released(s) /\ IsOwn(w, s)
        /\ lapses' = IF lock' # lock THEN lapses \union Raced(s) ELSE lapses
    BY <1>1, <1>4
  <2>2. Calms /\ (s \in Sessions => child'[s] # "alive")
    BY <2>1, StopsCalm
  <2>3. lapses \subseteq lapses' /\ lapses' \subseteq Sessions \X {"superseded", "raced", "unrecorded", "spared"}
    BY <2>1, RacedFacts DEF Inv, TypeOK
  <2>4. lock' = lock \/ lock' = NoLock
    BY <2>1 DEF Released
  <2>5. lock' # lock => \A t \in Sessions : lock.by = t /\ HostLives(t) => Lost(t)' \/ IsOwn(w, t)
    BY <2>1, RacedFacts DEF Lost
  <2>6. \A t \in pids \ pids' : child'[t] = "alive" => <<t, "unrecorded">> \in lapses'
    BY <1>1, <1>2, <1>4, <2>2
  <2>7. pids' \subseteq pids
    BY <1>1
  <2>8. QED
    BY <1>1, <2>2, <2>3, <2>4, <2>5, <2>6, <2>7, HostGoneStep
<1>5. CASE ~own
  <2>1. child' = child /\ lock' = lock
    BY <1>1, <1>5
  <2>2. lapses' = IF s # NoSession THEN lapses \union {<<s, "unrecorded">>} ELSE lapses
    BY <1>1, <1>5, <2>1
  <2>3. Calms
    BY <2>1, SameChildrenCalm
  <2>4. lapses \subseteq lapses' /\ lapses' \subseteq Sessions \X {"superseded", "raced", "unrecorded", "spared"}
    BY <1>2, <2>2 DEF Inv, TypeOK
  <2>5. \A t \in pids \ pids' : <<t, "unrecorded">> \in lapses'
    BY <1>1, <1>3, <2>2
  <2>6. pids' \subseteq pids
    BY <1>1
  <2>7. QED
    BY <1>1, <2>1, <2>3, <2>4, <2>5, <2>6, HostGoneStep
<1>6. QED
  BY <1>4, <1>5

-----------------------------------------------------------------------------
(* A launch.                                                               *)

\* What a second attempt starts from.
LEMMA AgainFields ==
    ASSUME Inv, NEW w \in Windows
    PROVE  [acquire EXCEPT ![w].at = "create", ![w].attempt = 2, ![w].saw = NoSession]
              = [acquire EXCEPT ![w] = [at |-> "create", session |-> acquire[w].session,
                                        attempt |-> 2, saw |-> NoSession]]
<1> DEFINE l == acquire[w]
           a == [l EXCEPT !.at = "create"]
           b == [at |-> "create", session |-> l.session, attempt |-> l.attempt, saw |-> l.saw]
           c == [at |-> "create", session |-> l.session, attempt |-> 2, saw |-> l.saw]
<1>1. [acquire EXCEPT ![w].at = "create", ![w].attempt = 2, ![w].saw = NoSession]
         = [acquire EXCEPT ![w] = [l EXCEPT !.at = "create", !.attempt = 2, !.saw = NoSession]]
  BY InvTypes
<1>2. a = b
  BY InvTypes, LaunchFields
<1>3. [b EXCEPT !.attempt = 2] = c
  OBVIOUS
<1>4. [c EXCEPT !.saw = NoSession]
         = [at |-> "create", session |-> l.session, attempt |-> 2, saw |-> NoSession]
  OBVIOUS
<1>5. [l EXCEPT !.at = "create", !.attempt = 2, !.saw = NoSession]
         = [[a EXCEPT !.attempt = 2] EXCEPT !.saw = NoSession]
  BY Zenon
<1>6. QED
  BY <1>1, <1>2, <1>3, <1>4, <1>5, Zenon

LEMMA IdleLaunches == ASSUME Inv PROVE Idle \in Launching
BY InvTypes DEF Idle, Launching, NoSession

\* Two windows never launch the same session.
LEMMA LaunchesDiffer ==
    ASSUME Inv, NEW v \in Windows, NEW w \in Windows, v # w,
           acquire[v] # Idle, acquire[w] # Idle
    PROVE  acquire[v].session # acquire[w].session
BY DEF Inv, HostInv, AcquireInv, up

\* What a step of a launch leaves to show, once it is known to keep LockInv.
LEMMA LaunchingStep ==
    ASSUME Inv, NEW w \in Windows, NEW a \in Launching,
           acquire[w] # Idle,
           acquire' = [acquire EXCEPT ![w] = a],
           a # Idle => a.session = acquire[w].session /\ a.at # "idle",
           \A s \in Sessions : a.at = "unlink" /\ a.saw = s /\ HostLives(s) => IsOwn(w, s),
           started' = started, host' = host, launched' = launched, owner' = owner,
           stored' = stored, active' = active, restoring' = restoring,
           ending' = ending, unreaped' = unreaped,
           \/ child' = child /\ pids' = pids /\ connecting' = connecting
           \/ /\ a = Idle
              /\ child' = [child EXCEPT ![acquire[w].session] = "alive"]
              /\ pids' = pids \union {acquire[w].session}
              /\ connecting' = connecting \union {acquire[w].session},
           lock' \in [by : 0 .. launched, full : BOOLEAN],
           lapses \subseteq lapses',
           lapses' \subseteq Sessions \X {"superseded", "raced", "unrecorded", "spared"},
           LockInv'
    PROVE  Inv'
<1> DEFINE n == acquire[w].session
<1>1. /\ up' = up
      /\ \A v, s : IsOwn(v, s)' <=> IsOwn(v, s)
      /\ \A s : HostLives(s)' <=> HostLives(s)
  BY SameHosts
<1>2. n \in Sessions /\ n \in 0 .. launched
  <2>1. n \in 0 .. launched
    BY InvTypes DEF Launching
  <2>2. n # NoSession
    BY DEF Inv, AcquireInv
  <2>3. QED
    BY <2>1, <2>2, InvTypes DEF NoSession
<1>3. /\ acquire' \in [Windows -> Launching]
      /\ acquire'[w] = a
      /\ \A v \in Windows : v # w => acquire'[v] = acquire[v]
  BY InvTypes
<1>4. /\ child' \in [Sessions -> {"unborn", "alive", "stopped", "dead"}]
      /\ \A s \in Sessions : s # n => child'[s] = child[s]
      /\ \A s \in Sessions : child[s] # "unborn" => child'[s] # "unborn"
      /\ a # Idle => child' = child
  BY <1>2, InvTypes
<1>5. \A s : Born(s) => Born(s)'
  BY <1>4 DEF Born
<1>6. TypeOK'
  <2>1. pids' \subseteq Sessions /\ connecting' \subseteq Sessions
    BY <1>2 DEF Inv, TypeOK
  <2>2. QED
    BY <1>1, <1>3, <1>4, <2>1 DEF Inv, TypeOK, Launching
<1>7. HostInv'
  <2>1. \A s \in Sessions : s > launched => s # n
    BY <1>2, InvTypes
  <2>2. QED
    BY <1>4, <2>1 DEF Inv, HostInv
<1>8. BornInv'
  <2>1. \A s \in connecting' \union ending' \union pids' : Born(s)'
    <3>1. CASE child' = child /\ pids' = pids /\ connecting' = connecting
      BY <1>5, <3>1 DEF Inv, BornInv
    <3>2. CASE /\ child' = [child EXCEPT ![n] = "alive"]
               /\ pids' = pids \union {n}
               /\ connecting' = connecting \union {n}
      <4>1. child'[n] = "alive"
        BY <1>2, <3>2, InvTypes
      <4>2. \A s : s = n => Born(s)'
        BY <1>2, <4>1 DEF Born
      <4>3. \A s \in connecting \union ending \union pids : Born(s)'
        BY <1>5 DEF Inv, BornInv
      <4>4. QED
        BY <3>2, <4>2, <4>3
    <3>3. QED
      BY <3>1, <3>2
  <2>2. QED
    BY <1>5, <2>1 DEF Inv, BornInv
<1>9. AcquireInv'
  <2> SUFFICES ASSUME NEW v \in Windows, acquire'[v] # Idle
               PROVE  /\ v \in up
                      /\ acquire'[v].at # "idle"
                      /\ acquire'[v].session # NoSession
                      /\ owner[acquire'[v].session] = host[v]
                      /\ child'[acquire'[v].session] = "unborn"
    BY <1>1 DEF AcquireInv
  <2>1. CASE v = w
    <3>1. a # Idle /\ a.session = n /\ a.at # "idle" /\ child' = child
      BY <1>3, <1>4, <2>1
    <3>2. QED
      BY <1>3, <2>1, <3>1 DEF Inv, AcquireInv
  <2>2. CASE v # w
    <3>1. acquire'[v] = acquire[v] /\ acquire[v] # Idle
      BY <1>3, <2>2
    <3>2. acquire[v].session # n
      BY <2>2, <3>1, LaunchesDiffer
    <3>3. /\ v \in up
          /\ acquire[v].at # "idle"
          /\ acquire[v].session # NoSession
          /\ owner[acquire[v].session] = host[v]
          /\ child[acquire[v].session] = "unborn"
      BY <3>1 DEF Inv, AcquireInv
    <3>4. acquire[v].session \in 0 .. launched
      BY InvTypes DEF Launching
    <3>5. acquire[v].session \in Sessions
      BY <3>3, <3>4, InvTypes DEF NoSession
    <3>6. QED
      BY <1>4, <3>1, <3>2, <3>3, <3>5
  <2>3. QED
    BY <2>1, <2>2
<1>10. SawInv'
  BY <1>1, <1>3 DEF Inv, SawInv
<1>11. RecordInv'
  BY <1>1 DEF Inv, RecordInv
<1>12. PidInv'
  <2>1. \A s \in Sessions : child'[s] = "alive" => child[s] = "alive" \/ s \in pids'
    BY <1>4
  <2>2. pids \subseteq pids'
    OBVIOUS
  <2>3. QED
    BY <2>1, <2>2 DEF Inv, PidInv, NoStray, Undisturbed
<1>13. QED
  BY <1>6, <1>7, <1>8, <1>9, <1>10, <1>11, <1>12 DEF Inv

\* A launch that does not come to hold the lock by its step.
LEMMA HoldsBefore ==
    ASSUME Inv, NEW w \in Windows, NEW a \in Launching,
           acquire' = [acquire EXCEPT ![w] = a],
           a.at \in {"write", "spawn"} =>
               a.session = acquire[w].session /\ acquire[w].at \in {"write", "spawn"},
           child' = child
    PROVE  \A s \in Sessions : Holds(s)' => Holds(s)
<1>1. /\ acquire'[w] = a
      /\ \A v \in Windows : v # w => acquire'[v] = acquire[v]
  BY InvTypes
<1>2. QED
  BY <1>1 DEF Holds, Undisturbed

LEMMA CreateStep ==
    ASSUME Inv, NEW w \in Windows, Create(w)
    PROVE  Inv'
<1> DEFINE at == IF lock = NoLock THEN "write" ELSE "inspect"
           n == acquire[w].session
           a == [at |-> at, session |-> n, attempt |-> acquire[w].attempt, saw |-> acquire[w].saw]
<1>1. /\ acquire[w].at = "create"
      /\ lock' = IF lock = NoLock THEN [by |-> n, full |-> FALSE] ELSE lock
      /\ acquire' = [acquire EXCEPT ![w].at = at]
  BY Zenon DEF Create, Goes
<1>2. /\ started' = started /\ host' = host /\ launched' = launched /\ owner' = owner
      /\ child' = child /\ pids' = pids /\ stored' = stored /\ active' = active
      /\ connecting' = connecting /\ restoring' = restoring /\ ending' = ending
      /\ unreaped' = unreaped /\ lapses' = lapses
  BY Zenon DEF Create, UnchangedButFiles, memory
<1>3. acquire[w] \in Launching /\ acquire \in [Windows -> Launching] /\ n \in 0 .. launched
  BY InvTypes DEF Launching
<1>4. acquire' = [acquire EXCEPT ![w] = a]
  <2>1. acquire' = [acquire EXCEPT ![w] = [acquire[w] EXCEPT !.at = at]]
    BY <1>1, <1>3, AtField
  <2>2. [acquire[w] EXCEPT !.at = at] = a
    BY <1>3, LaunchFields
  <2>3. QED
    BY <2>1, <2>2
<1>5. a \in Launching /\ a.session = n /\ a.at = at
  BY <1>3 DEF Launching, Acquiring
<1>6. at \in {"write", "inspect"}
  OBVIOUS
<1>7. acquire[w] # Idle
  BY <1>1 DEF Idle
<1>8. lock' \in [by : 0 .. launched, full : BOOLEAN]
  BY <1>1, <1>3, InvTypes
<1>9. \A s : HostLives(s)' <=> HostLives(s)
  BY <1>2, SameHosts
<1> HIDE DEF a, at
<1>10. LockInv'
  <2> SUFFICES ASSUME NEW s \in Sessions, Holds(s)', HostLives(s)', ~Lost(s)'
               PROVE  lock'.by = s
    BY DEF LockInv
  <2>1. HostLives(s) /\ ~Lost(s)
    BY <1>2, <1>9 DEF Lost
  <2>2. CASE Holds(s)
    <3>1. lock.by = s
      BY <2>1, <2>2 DEF Inv, LockInv
    <3>2. lock # NoLock
      BY <3>1 DEF NoLock, NoSession, Sessions
    <3>3. QED
      BY <1>1, <3>1, <3>2
  <2>3. CASE ~Holds(s)
    <3>1. /\ acquire'[w] = a
          /\ \A v \in Windows : v # w => acquire'[v] = acquire[v]
      BY <1>3, <1>4
    <3>2. a.session = s /\ a.at \in {"write", "spawn"}
      BY <1>2, <2>3, <3>1 DEF Holds, Undisturbed
    <3>3. lock = NoLock /\ n = s
      BY <1>5, <3>2 DEF at
    <3>4. QED
      BY <1>1, <3>3
  <2>4. QED
    BY <2>2, <2>3
<1>11. a.at # "unlink" /\ a.at # "idle"
  BY <1>5, <1>6
<1>12. lapses \subseteq lapses' /\ lapses' \subseteq Sessions \X {"superseded", "raced", "unrecorded", "spared"}
  BY <1>2 DEF Inv, TypeOK
<1>13. QED
  BY <1>2, <1>4, <1>5, <1>7, <1>8, <1>10, <1>11, <1>12, LaunchingStep

LEMMA WriteStep ==
    ASSUME Inv, NEW w \in Windows, Write(w)
    PROVE  Inv'
<1> DEFINE n == acquire[w].session
           a == [at |-> "spawn", session |-> n, attempt |-> acquire[w].attempt,
                 saw |-> acquire[w].saw]
<1>1. /\ acquire[w].at = "write"
      /\ lock' = IF lock.by = n THEN [lock EXCEPT !.full = TRUE] ELSE lock
      /\ acquire' = [acquire EXCEPT ![w].at = "spawn"]
  BY Zenon DEF Write, Goes
<1>2. /\ started' = started /\ host' = host /\ launched' = launched /\ owner' = owner
      /\ child' = child /\ pids' = pids /\ stored' = stored /\ active' = active
      /\ connecting' = connecting /\ restoring' = restoring /\ ending' = ending
      /\ unreaped' = unreaped /\ lapses' = lapses
  BY Zenon DEF Write, UnchangedButFiles, memory
<1>3. acquire[w] \in Launching /\ acquire \in [Windows -> Launching] /\ n \in 0 .. launched
  BY InvTypes DEF Launching
<1>4. acquire' = [acquire EXCEPT ![w] = a]
  <2>1. acquire' = [acquire EXCEPT ![w] = [acquire[w] EXCEPT !.at = "spawn"]]
    BY <1>1, <1>3, AtField
  <2>2. [acquire[w] EXCEPT !.at = "spawn"] = a
    BY <1>3, LaunchFields
  <2>3. QED
    BY <2>1, <2>2
<1>5. a \in Launching /\ a.session = n /\ a.at = "spawn"
  BY <1>3 DEF Launching, Acquiring
<1>6. acquire[w] # Idle
  BY <1>1 DEF Idle
<1>7. lock' \in [by : 0 .. launched, full : BOOLEAN] /\ lock'.by = lock.by
  BY <1>1, InvTypes
<1>8. \A s : HostLives(s)' <=> HostLives(s)
  BY <1>2, SameHosts
<1> HIDE DEF a
<1>9. LockInv'
  <2>1. \A s \in Sessions : Holds(s)' => Holds(s)
    BY <1>1, <1>2, <1>4, <1>5, HoldsBefore
  <2>2. QED
    BY <1>2, <1>7, <1>8, <2>1 DEF Inv, LockInv, Lost
<1>10. lapses \subseteq lapses' /\ lapses' \subseteq Sessions \X {"superseded", "raced", "unrecorded", "spared"}
  BY <1>2 DEF Inv, TypeOK
<1>11. QED
  BY <1>2, <1>4, <1>5, <1>6, <1>7, <1>9, <1>10, LaunchingStep

LEMMA InspectStep ==
    ASSUME Inv, NEW w \in Windows, Inspect(w)
    PROVE  Inv'
<1> DEFINE seen == IF lock.full THEN lock.by ELSE NoSession
           look == [at |-> "unlink", session |-> acquire[w].session,
                    attempt |-> acquire[w].attempt, saw |-> seen]
<1>1. /\ acquire[w].at = "inspect"
      /\ \/ acquire' = [acquire EXCEPT ![w] = Idle]
         \/ /\ ~(Refuses(w) /\ HostLives(lock.by))
            /\ acquire' = [acquire EXCEPT ![w].at = "unlink", ![w].saw = seen]
      /\ lock' = lock /\ lapses' = lapses
  BY Zenon DEF Inspect
<1>2. /\ started' = started /\ host' = host /\ launched' = launched /\ owner' = owner
      /\ child' = child /\ pids' = pids /\ stored' = stored /\ active' = active
      /\ connecting' = connecting /\ restoring' = restoring /\ ending' = ending
      /\ unreaped' = unreaped
  BY Zenon DEF Inspect, UnchangedButFiles, memory
<1>3. /\ acquire[w] \in Launching /\ acquire \in [Windows -> Launching]
      /\ acquire[w].session \in 0 .. launched
      /\ lock \in [by : 0 .. launched, full : BOOLEAN] /\ seen \in 0 .. launched
  BY InvTypes DEF Launching, NoSession
<1>4. PICK a \in Launching :
         /\ acquire' = [acquire EXCEPT ![w] = a]
         /\ a # Idle => a.session = acquire[w].session /\ a.at = "unlink"
         /\ a.at \notin {"write", "spawn"}
         /\ \A s \in Sessions : a.at = "unlink" /\ a.saw = s /\ HostLives(s) => IsOwn(w, s)
  <2>1. CASE acquire' = [acquire EXCEPT ![w] = Idle]
    <3>1. Idle \in Launching /\ Idle.at = "idle"
      BY IdleLaunches DEF Idle
    <3>2. QED
      BY <2>1, <3>1
  <2>2. CASE /\ ~(Refuses(w) /\ HostLives(lock.by))
             /\ acquire' = [acquire EXCEPT ![w].at = "unlink", ![w].saw = seen]
    <3>1. acquire' = [acquire EXCEPT ![w] = [acquire[w] EXCEPT !.at = "unlink", !.saw = seen]]
      BY <1>3, <2>2, AtSawFields
    <3>2. [acquire[w] EXCEPT !.at = "unlink", !.saw = seen] = look
      <4> DEFINE b == [at |-> "unlink", session |-> acquire[w].session,
                       attempt |-> acquire[w].attempt, saw |-> acquire[w].saw]
      <4>1. [acquire[w] EXCEPT !.at = "unlink"] = b
        BY <1>3, LaunchFields
      <4>2. [acquire[w] EXCEPT !.at = "unlink", !.saw = seen] = [b EXCEPT !.saw = seen]
        BY <4>1, Zenon
      <4>3. [b EXCEPT !.saw = seen] = look
        OBVIOUS
      <4>4. QED
        BY <4>2, <4>3, Zenon
    <3>3. acquire' = [acquire EXCEPT ![w] = look]
      BY <3>1, <3>2
    <3>4. look \in Launching
      BY <1>3 DEF Launching, Acquiring
    <3>5. \A s \in Sessions : seen = s => lock.full /\ lock.by = s
      BY DEF NoSession, Sessions
    <3>6. \A s \in Sessions : look.saw = s /\ HostLives(s) => IsOwn(w, s)
      BY <2>2, <3>5 DEF Refuses
    <3>7. QED
      BY <3>3, <3>4, <3>6
  <2>3. QED
    BY <1>1, <2>1, <2>2
<1>5. acquire[w] # Idle
  BY <1>1 DEF Idle
<1>6. \A s : HostLives(s)' <=> HostLives(s)
  BY <1>2, SameHosts
<1>7. LockInv'
  <2>1. \A s \in Sessions : Holds(s)' => Holds(s)
    BY <1>2, <1>4, HoldsBefore
  <2>2. QED
    BY <1>1, <1>6, <2>1 DEF Inv, LockInv, Lost
<1>8. lapses \subseteq lapses' /\ lapses' \subseteq Sessions \X {"superseded", "raced", "unrecorded", "spared"}
  BY <1>1 DEF Inv, TypeOK
<1>9. lock' \in [by : 0 .. launched, full : BOOLEAN]
  BY <1>1, <1>3
<1>10. QED
  BY <1>2, <1>4, <1>5, <1>7, <1>8, <1>9, LaunchingStep

LEMMA UnlinkStep ==
    ASSUME Inv, NEW w \in Windows, Unlink(w)
    PROVE  Inv'
<1> DEFINE again == [at |-> "create", session |-> acquire[w].session, attempt |-> 2,
                     saw |-> NoSession]
<1>1. /\ acquire[w].at = "unlink"
      /\ lock' = NoLock
      /\ lapses' = lapses \union Raced(acquire[w].saw) \union Superseded(w)
      /\ acquire' = IF acquire[w].attempt = 1
                    THEN [acquire EXCEPT ![w].at = "create", ![w].attempt = 2,
                                                ![w].saw = NoSession]
                    ELSE [acquire EXCEPT ![w] = Idle]
  BY Zenon DEF Unlink
<1>2. /\ started' = started /\ host' = host /\ launched' = launched /\ owner' = owner
      /\ child' = child /\ pids' = pids /\ stored' = stored /\ active' = active
      /\ connecting' = connecting /\ restoring' = restoring /\ ending' = ending
      /\ unreaped' = unreaped
  BY Zenon DEF Unlink, UnchangedButFiles, memory
<1>3. /\ acquire[w] \in Launching /\ acquire \in [Windows -> Launching]
      /\ acquire[w].session \in 0 .. launched
      /\ lock \in [by : 0 .. launched, full : BOOLEAN] /\ NoSession \in 0 .. launched
  BY InvTypes DEF Launching, NoSession
<1>4. PICK a \in Launching :
         /\ acquire' = [acquire EXCEPT ![w] = a]
         /\ a # Idle => a.session = acquire[w].session /\ a.at = "create"
         /\ a.at \notin {"write", "spawn", "unlink"}
  <2>1. CASE acquire[w].attempt = 1
    <3>1. acquire' = [acquire EXCEPT ![w].at = "create", ![w].attempt = 2,
                                            ![w].saw = NoSession]
      BY <1>1, <2>1
    <3>2. acquire' = [acquire EXCEPT ![w] = again]
      BY <3>1, AgainFields, Zenon
    <3>3. again \in Launching
      BY <1>3 DEF Launching, Acquiring
    <3>4. QED
      BY <3>2, <3>3
  <2>2. CASE acquire[w].attempt # 1
    <3>1. Idle \in Launching /\ Idle.at = "idle"
      BY IdleLaunches DEF Idle
    <3>2. QED
      BY <1>1, <2>2, <3>1
  <2>3. QED
    BY <2>1, <2>2
<1>5. acquire[w] # Idle
  BY <1>1 DEF Idle
<1>6. \A s : HostLives(s)' <=> HostLives(s)
  BY <1>2, SameHosts
<1>7. \A s \in Sessions : lock.by = s /\ HostLives(s) => Lost(s)'
  <2> SUFFICES ASSUME NEW s \in Sessions, lock.by = s, HostLives(s) PROVE Lost(s)'
    OBVIOUS
  <2>1. CASE acquire[w].saw = s
    <3>1. IsOwn(w, s) /\ s # NoSession
      BY <1>1, <2>1 DEF Inv, SawInv, Sessions, NoSession
    <3>2. <<s, "superseded">> \in Superseded(w)
      BY <3>1 DEF Superseded
    <3>3. QED
      BY <1>1, <3>2 DEF Lost
  <2>2. CASE acquire[w].saw # s
    <3>1. <<s, "raced">> \in Raced(acquire[w].saw)
      BY <2>2, RacedFacts
    <3>2. QED
      BY <1>1, <3>1 DEF Lost
  <2>3. QED
    BY <2>1, <2>2
<1>8. lapses \subseteq lapses' /\ lapses' \subseteq Sessions \X {"superseded", "raced", "unrecorded", "spared"}
  <2>1. Superseded(w) \subseteq Sessions \X {"superseded", "raced", "unrecorded", "spared"}
    <3>1. lock.by # NoSession => lock.by \in Sessions
      BY <1>3, InvTypes DEF NoSession
    <3>2. QED
      BY <3>1 DEF Superseded
  <2>2. QED
    BY <1>1, <2>1, RacedFacts DEF Inv, TypeOK
<1>9. LockInv'
  <2>1. \A s \in Sessions : Holds(s)' => Holds(s)
    BY <1>2, <1>4, HoldsBefore
  <2>2. \A s \in Sessions : Lost(s) => Lost(s)'
    BY <1>8 DEF Lost
  <2>3. QED
    BY <1>6, <1>7, <2>1, <2>2 DEF Inv, LockInv
<1>10. lock' \in [by : 0 .. launched, full : BOOLEAN]
  BY <1>1, <1>3 DEF NoLock
<1>11. QED
  BY <1>2, <1>4, <1>5, <1>8, <1>9, <1>10, LaunchingStep

LEMMA SpawnStep ==
    ASSUME Inv, NEW w \in Windows, Spawn(w)
    PROVE  Inv'
<1>1. /\ acquire[w].at = "spawn"
      /\ child' = [child EXCEPT ![acquire[w].session] = "alive"]
      /\ pids' = pids \union {acquire[w].session}
      /\ connecting' = connecting \union {acquire[w].session}
      /\ acquire' = [acquire EXCEPT ![w] = Idle]
      /\ started' = started /\ host' = host /\ launched' = launched /\ owner' = owner
      /\ lock' = lock /\ stored' = stored /\ active' = active /\ restoring' = restoring
      /\ ending' = ending /\ unreaped' = unreaped /\ lapses' = lapses
  BY Zenon DEF Spawn
<1>2. Idle \in Launching /\ Idle.at = "idle"
  BY IdleLaunches DEF Idle
<1>3. acquire[w] # Idle
  BY <1>1 DEF Idle
<1>4. \A s : HostLives(s)' <=> HostLives(s)
  BY <1>1, SameHosts
<1>5. LockInv'
  <2> SUFFICES ASSUME NEW s \in Sessions, Holds(s)', HostLives(s)', ~Lost(s)'
               PROVE  lock.by = s
    BY <1>1 DEF LockInv
  <2>1. HostLives(s) /\ ~Lost(s)
    BY <1>1, <1>4 DEF Lost
  <2>2. /\ acquire'[w] = Idle
        /\ \A v \in Windows : v # w => acquire'[v] = acquire[v]
    BY <1>1, InvTypes
  <2>3. Holds(s)
    <3>1. CASE s = acquire[w].session
      BY <1>1, <3>1 DEF Holds
    <3>2. CASE s # acquire[w].session
      <4>1. child'[s] = child[s]
        BY <1>1, <3>2, InvTypes
      <4>2. QED
        BY <1>2, <2>2, <4>1 DEF Holds, Undisturbed
    <3>3. QED
      BY <3>1, <3>2
  <2>4. QED
    BY <2>1, <2>3 DEF Inv, LockInv
<1>6. lapses \subseteq lapses' /\ lapses' \subseteq Sessions \X {"superseded", "raced", "unrecorded", "spared"}
  BY <1>1 DEF Inv, TypeOK
<1>7. lock' \in [by : 0 .. launched, full : BOOLEAN]
  BY <1>1, InvTypes
<1>8. QED
  BY <1>1, <1>2, <1>3, <1>5, <1>6, <1>7, LaunchingStep

\* The session is new: no lock, record or window knows its number yet.
LEMMA LaunchStep ==
    ASSUME Inv, NEW w \in Windows, Launch(w)
    PROVE  Inv'
<1> DEFINE n == launched + 1
           a == [at |-> "create", session |-> n, attempt |-> 1, saw |-> NoSession]
<1>1. /\ Free(w) /\ launched < MaxSessions
      /\ launched' = n
      /\ owner' = [owner EXCEPT ![n] = host[w]]
      /\ acquire' = [acquire EXCEPT ![w] = a]
      /\ started' = started /\ host' = host /\ child' = child
      /\ lock' = lock /\ pids' = pids /\ stored' = stored
      /\ active' = active /\ connecting' = connecting /\ restoring' = restoring
      /\ ending' = ending /\ unreaped' = unreaped /\ lapses' = lapses
  <2>1. Launch(w) => launched' = n
    BY Zenon DEF Launch
  <2>2. QED
    BY <2>1, Zenon DEF Launch, files, memory
<1>2. n \in Sessions /\ n \in Nat /\ launched \in Nat /\ n \notin 0 .. launched
      /\ 0 .. launched \subseteq 0 .. n /\ n \in 0 .. n /\ NoSession \in 0 .. n
      /\ launched < n /\ n <= MaxSessions /\ n # NoSession
  BY <1>1, InvTypes, BoundsType DEF Sessions, NoSession
<1>3. host[w] \in 0 .. started /\ host[w] # NoHost /\ w \in up
  BY <1>1, InvTypes DEF Free, up
<1>4. /\ owner' \in [Sessions -> 0 .. started]
      /\ owner'[n] = host[w]
      /\ \A s \in Sessions : s # n => owner'[s] = owner[s]
  BY <1>1, <1>2, <1>3, InvTypes
<1>5. /\ up' = up
      /\ \A v \in Windows : \A s \in Sessions : s # n => (IsOwn(v, s)' <=> IsOwn(v, s))
  BY <1>1, <1>4 DEF up, IsOwn
<1>6. \A s \in Sessions : s # n => (HostLives(s)' <=> HostLives(s))
  BY <1>5 DEF HostLives
<1>7. /\ acquire'[w] = a
      /\ \A v \in Windows : v # w => acquire'[v] = acquire[v]
  BY <1>1, InvTypes
<1>8. \A v \in Windows : /\ acquire[v] \in Launching
                         /\ acquire[v].session \in 0 .. launched /\ acquire[v].session # n
                         /\ acquire[v].saw \in 0 .. launched /\ acquire[v].saw # n
  BY <1>2, InvTypes DEF Launching
<1>9. child[n] = "unborn"
  BY <1>2 DEF Inv, HostInv
<1>10. TypeOK'
  <2>1. acquire' \in [Windows -> Launching']
    <3>1. a \in Launching'
      BY <1>1, <1>2 DEF Launching, Acquiring
    <3>2. Launching \subseteq Launching'
      BY <1>1, <1>2 DEF Launching
    <3>3. QED
      BY <1>1, <3>1, <3>2, InvTypes
  <2>2. lock \in [by : 0 .. n, full : BOOLEAN]
    BY <1>2, InvTypes
  <2>3. /\ active \in [Windows -> 0 .. n] /\ stored \in [Windows -> 0 .. n]
        /\ restoring \in [Windows -> 0 .. n]
    BY <1>2, InvTypes
  <2>4. n \in 0 .. MaxSessions
    BY <1>2, BoundsType
  <2>5. QED
    BY <1>1, <1>4, <1>5, <2>1, <2>2, <2>3, <2>4 DEF Inv, TypeOK, Launching
<1>11. HostInv'
  <2>1. \A s \in Sessions : s > n => s > launched
    BY <1>2 DEF Sessions
  <2>2. QED
    BY <1>1, <2>1 DEF Inv, HostInv
<1>12. BornInv'
  BY <1>1 DEF Inv, BornInv, Born
<1>13. AcquireInv'
  <2> SUFFICES ASSUME NEW v \in Windows, acquire'[v] # Idle
               PROVE  /\ v \in up
                      /\ acquire'[v].at # "idle"
                      /\ acquire'[v].session # NoSession
                      /\ owner'[acquire'[v].session] = host[v]
                      /\ child[acquire'[v].session] = "unborn"
    BY <1>1, <1>5 DEF AcquireInv
  <2>1. CASE v = w
    BY <1>2, <1>3, <1>4, <1>7, <1>9, <2>1
  <2>2. CASE v # w
    <3>1. acquire'[v] = acquire[v] /\ acquire[v] # Idle
      BY <1>7, <2>2
    <3>2. /\ v \in up
          /\ acquire[v].at # "idle"
          /\ acquire[v].session # NoSession
          /\ owner[acquire[v].session] = host[v]
          /\ child[acquire[v].session] = "unborn"
      BY <3>1 DEF Inv, AcquireInv
    <3>3. acquire[v].session \in Sessions
      BY <1>8, <3>2, InvTypes DEF NoSession
    <3>4. QED
      BY <1>4, <1>8, <3>1, <3>2, <3>3
  <2>3. QED
    BY <2>1, <2>2
<1>14. SawInv'
  <2> SUFFICES ASSUME NEW v \in Windows, NEW s \in Sessions,
                      acquire'[v].at = "unlink", acquire'[v].saw = s, HostLives(s)'
               PROVE  IsOwn(v, s)'
    BY DEF SawInv
  <2>1. v # w /\ acquire'[v] = acquire[v]
    BY <1>7
  <2>2. s # n
    BY <1>8, <2>1
  <2>3. QED
    BY <1>5, <1>6, <2>1, <2>2 DEF Inv, SawInv
<1>15. RecordInv'
  <2>1. \A v \in Windows : restoring[v] \in 0 .. launched /\ stored[v] \in 0 .. launched
                           /\ restoring[v] # n /\ stored[v] # n
    BY <1>2, InvTypes
  <2>2. \A v \in Windows : /\ restoring[v] # NoSession => restoring[v] \in Sessions
                           /\ stored[v] # NoSession => stored[v] \in Sessions
    BY <2>1, InvTypes DEF NoSession
  <2>3. QED
    BY <1>1, <1>5, <1>6, <2>1, <2>2 DEF Inv, RecordInv
<1>16. LockInv'
  <2> SUFFICES ASSUME NEW s \in Sessions, Holds(s)', HostLives(s)', ~Lost(s)'
               PROVE  lock.by = s
    BY <1>1 DEF LockInv
  <2>1. Holds(s) /\ s # n
    <3>1. CASE Undisturbed(s)'
      BY <1>1, <1>9, <3>1 DEF Holds, Undisturbed
    <3>2. CASE \E v \in Windows : acquire'[v].session = s /\ acquire'[v].at \in {"write", "spawn"}
      <4>1. PICK v \in Windows : acquire'[v].session = s /\ acquire'[v].at \in {"write", "spawn"}
        BY <3>2
      <4>2. acquire'[v] = acquire[v]
        BY <1>7, <4>1
      <4>3. QED
        BY <1>8, <4>1, <4>2 DEF Holds
    <3>3. QED
      BY <3>1, <3>2 DEF Holds
  <2>2. HostLives(s) /\ ~Lost(s)
    BY <1>1, <1>6, <2>1 DEF Lost
  <2>3. QED
    BY <2>1, <2>2 DEF Inv, LockInv
<1>17. PidInv'
  BY <1>1 DEF Inv, PidInv, NoStray, Undisturbed
<1>18. QED
  BY <1>10, <1>11, <1>12, <1>13, <1>14, <1>15, <1>16, <1>17 DEF Inv

-----------------------------------------------------------------------------
(* Theorems.                                                               *)

LEMMA InvStep == Inv /\ [Next]_vars => Inv'
<1> SUFFICES ASSUME Inv, [Next]_vars PROVE Inv'
  OBVIOUS
<1>1. CASE UNCHANGED vars
  <2>1. /\ started' = started /\ host' = host /\ launched' = launched /\ owner' = owner
        /\ child' = child /\ lock' = lock /\ pids' = pids /\ stored' = stored
        /\ active' = active /\ connecting' = connecting /\ restoring' = restoring
        /\ ending' = ending /\ unreaped' = unreaped /\ acquire' = acquire
        /\ lapses' = lapses
    BY <1>1 DEF vars, files, memory
  <2>2. Keeps /\ Calms /\ Unlocks
    BY <2>1, SameChildrenCalm, SameLock DEF Keeps
  <2>3. Forgets
    BY <2>1 DEF Forgets, Inv, BornInv
  <2>4. WindowInv'
    BY <2>1, <2>2, WindowsSame
  <2>5. QED
    BY <2>2, <2>3, <2>4, SettlingStep
<1>2. ASSUME NEW s \in Sessions, ChildExits(s) PROVE Inv'
  BY <1>2, ChildExitsStep
<1>3. ASSUME NEW w \in Windows, Activate(w) \/ Reap(w) \/ Close(w) \/ Crash(w)
      PROVE  Inv'
  BY <1>3, ActivateStep, ReapStep, CloseStep, CrashStep
<1>4. ASSUME NEW w \in Windows,
             Launch(w) \/ Create(w) \/ Write(w) \/ Inspect(w) \/ Unlink(w) \/ Spawn(w)
      PROVE  Inv'
  BY <1>4, LaunchStep, CreateStep, WriteStep, InspectStep, UnlinkStep, SpawnStep
<1>5. ASSUME NEW w \in Windows,
             Ended(w) \/ StopActive(w) \/ EndSession(w) \/ Restore(w) \/ Restored(w) \/ RestoreFails(w)
      PROVE  Inv'
  BY <1>5, EndedStep, StopActiveStep, EndSessionStep, RestoreStep, RestoredStep, RestoreFailsStep
<1>6. ASSUME NEW w \in Windows, NEW s \in Sessions,
             Connected(w, s) \/ AttachTimesOut(w, s) \/ EndDone(w, s)
      PROVE  Inv'
  BY <1>6, ConnectedStep, AttachTimesOutStep, EndDoneStep
<1>7. QED
  BY <1>1, <1>2, <1>3, <1>4, <1>5, <1>6 DEF Next

THEOREM Invariant == Spec => []Inv
<1>1. QED
  BY InvInit, InvStep, PTL DEF Spec

\* Every variable keeps its type, whatever the windows and the bounds.
THEOREM TypeCorrect == Spec => []TypeOK
<1>1. Inv => TypeOK
  BY DEF Inv
<1>2. QED
  BY <1>1, Invariant, PTL

\* Of two orchestrators of hosts that live, undisturbed both, one had its lock
\* file removed under it: the file can name only one of them.
THEOREM LockKeepsOthersOut == Spec => []OneWindowDrives
<1>1. Inv => OneWindowDrives
  <2> SUFFICES ASSUME Inv, NEW s \in Sessions, NEW t \in Sessions,
                      Undisturbed(s), Undisturbed(t), HostLives(s), HostLives(t), s # t
               PROVE  {<<s, "superseded">>, <<s, "raced">>, <<t, "superseded">>, <<t, "raced">>}
                         \intersect lapses # {}
    BY DEF OneWindowDrives
  <2>1. Holds(s) /\ Holds(t)
    BY DEF Holds
  <2>2. Lost(s) \/ Lost(t)
    BY <2>1 DEF Inv, LockInv
  <2>3. QED
    BY <2>2 DEF Lost
<1>2. QED
  BY <1>1, Invariant, PTL

\* A running orchestrator that nobody has stopped has its pid record, through
\* every crash, stop, launch and restore, unless the record was given up: by a
\* window that had only attached to it, or by a reaper that could not signal it.
THEOREM RunningIsRecorded == Spec => []NoStray
<1>1. Inv => NoStray
  BY DEF Inv, PidInv
<1>2. QED
  BY <1>1, Invariant, PTL
=============================================================================
