# sim-flow in TLA+

`sim-flow` drives a hardware-modelling flow: a project walks a fixed list of
steps, each done in LLM *work* sessions, judged by *critique* sessions and closed
by a *gate*. These modules specify the parts of it whose correctness depends on
the order of things: the file that says where a project stands; the driver that
walks it while a host (the VS Code extension, a terminal, a test) talks to it,
and the connection between the two; the sessions it runs, their messages and
their questions to the user; the walk that gives the milestones of a step to a
pool of threads; the specification corpus and its index, which several commands
write; the windows of the extension that launch and share one orchestrator; and
what ends a session early or holds up the end of the process, the user's Stop
and the language server.
TLC checks them on small instances. TLAPS proves for every instance the type
invariants and all safety properties that the runs check; what is left to TLC,
which is liveness, is named under Theorems.

Paths below are relative to the repository; a file named without its directory is
found once in it (`auto.rs` is `src/__internal/session/auto.rs`, `dispatch.rs`
`src/__internal/session/orchestrator/dispatch.rs`, `host.ts`
`extensions/sim-flow-vscode/src/chatPanel/host.ts`).

## The system

| Part | State it keeps | Operations | What is hard | What makes it correct |
|---|---|---|---|---|
| `State` (`state.rs`) | flow, `current_step`, gates, archived gates | `new`, `mark_passed`, `reset`, `flip_to_sv_convert` | a reset cascades, a conversion changes flow | the document is about one flow |
| state file (`state.rs`) | `.sim-flow/state.toml`, its temporary, `state.lock` | `load`, `transaction`, `save`, `write_atomic` | several processes, kills, power loss | never torn, lock always given back, no acknowledged advance lost |
| commands and interactive drivers (`commands.rs`, `runner.rs`, `auto_interactive.rs`) | a private copy of the document | `init`, `run`, `advance`, `reset`, `convert-sv`; Advance and Reset of the interactive drivers | they load without the lock | a loss needs a race; a reset is final |
| auto driver (`auto.rs`) | the mode, the locals of its loops, `checkpoint.json` | auto loop, manual loop, Advance with retries, Reset, parallel walk | host events at every park, caps, restarts | yields to the host, keeps its budgets, ends when told to |
| `AutoPresenter` (`auto.rs`) | queue of synthetic events, flags | `send`, `recv` | events outlive the session they were meant for | a session reads only its own events, the host sees one `SessionEnd` |
| sub-session (`dispatch.rs`) | turns, counters, written or not | handshake, requests, artifacts, tool calls, phases, gate, parks | ten ways out of a turn, a park may be answered by anything, caps | ends or asks the user, parks an automatic session only for a cause, ends a retry only after a write |
| plan-detail walk (`auto.rs`, `worktree.rs`, `walk.rs`) | the queue of stubs, threads, cap flag, channel, worktrees, verdicts on disk | fan out, forward events, join, merge, judge; serial passes | threads, a first error, caps of one worker, verdicts of an earlier pass | every stub is given out once, every walk returns, no advance past an unjudged milestone, worktrees live as long as needed |
| `ask_user` (`ask_user/`) | pending question, open threads, recorded answers | ask, suspend, answer, record, recover | a kill between question, answer and record | no reply is lost or recorded twice |
| messages of a session (`compaction.rs`, `dispatch.rs`, tools, `anthropic/mod.rs`) | the stack, the files, the panel's rows | push, compact, tell the panel, convert | ids are positions, results come on five paths, evictions by two rules | what the model sees is current, results answer their calls |
| specification corpus and index (`spec_ingest/`, `lance_index/`, `commands.rs`) | `.sim-flow/spec-ingest`, its temporary, `lance-index`, a lock file, `docs/spec.md` | ingest, refresh, build, seed, staleness check | kills between files, two processes, a stale lock, a source revised meanwhile | the corpus is of one ingest, an index called fresh is fresh |
| gates, critiques, milestones | documents | evaluate | stale verdicts | verdict is about the current documents |
| socket host (`socket_host.rs`) | history, the client, waiting connections, a kept `Hello` | accept, adopt, replay, `send`, `recv` | clients come and go, also before their `Hello` | an attached client has the whole history, the run gets its `Hello`, `send` never waits for a client |
| event tap (`event_tap.rs`) | its own history, the observers | `broadcast`, onboarding | two threads and two locks | an observer misses nothing |
| cancellation (`cancel.rs`, `socket_host.rs`, `auto.rs`, the agents) | a flag of the process | set, poll, clear | another thread sets it, every new session clears it, three kinds of call poll it | a Stop ends the session that runs, and no later one |
| language server (`lsp.rs`) | one client behind a mutex, its child, a reader thread and a bounded channel | start, prewarm, request, evict, tear down | a child that is silent, chatters or dies while the mutex is held | every call returns, the process can leave |
| extension: launch (`socketPump.ts`, `pumpLock.ts`, `processRegistry.ts`, `autoSessionManager.ts`, `host.ts`) | per window the active session and its stored record; pump lock, pid records, children | launch, attach, restore, stop, end, close, reap, crash | windows share files and nothing else, a host dies and its child lives | two children whose launching hosts both live do not drive the project at once, no child is lost, only orphans are reaped |
| extension: panels and dashboard | view models | render | | not modelled |
| tracking, database, project creation, clients | external services, files | | | not modelled, see below |

The driver holds a `TappedPresenter`: what it sends goes to the tap, then to the
`SocketPresenter`; what it receives comes from the latter.

How they interact: the host sends events to the driver over one connection and
reads them from it; every event passes through the AutoPresenter. The driver runs
sub-sessions one after another *on that same connection*, each of which believes
it is alone: it expects a `Hello`, ends with a `SessionEnd`, and parks reading
the host's next event. The AutoPresenter fakes the `Hello`, swallows the
`SessionEnd`, and turns events meant for the run loop (`Shutdown`, the step
commands) into a `Cancel` for the session. Between sub-sessions the driver
evaluates gates and advances `state.toml`, which one-shot commands and the
dashboard's control socket change as well. A plan-detail step runs its
sub-sessions in threads of the same process, on presenters that only send. The
corpus commands share nothing with the driver but the disk. A window of the
extension is the client of the connection; it knows its orchestrator by a socket
path, a pid record, and the record in its `workspaceState`.

`PROJECT.json` lists every component with its status, and the hazards of the code
at their lines.

## Modules

`FlowState`: the document and the pure functions of `impl State`. A step is a
pair (flow, position); a gate is its `passed` bit.

`FlowStore`: what the state file promises when every writer uses
`State::transaction`: advances happen one at a time, each on the document that
the previous one left, and a host failure takes the document back at most to the
last version made durable.

`StateFile` (extends `FlowState`): several processes on one `state.toml`. One
action per step that another process or a failure can come between: waiting for
the flock (`Acquire`), the load inside the transaction (`TxLoad`), the gate
evaluation with the mark (`TxBody`), the `StateAdvanced` event (`Announce`), the
four steps of `write_atomic` (`WriteTmp`, `SyncTmp`, `Rename`, `SyncDir`), the
drop of the lock (`Unlock`). The writers that do not use the transaction load
first (`LegacyLoad`, `ControlAdvance`, `ControlReload`), change their copy
(`Mutate`), and lock only to save. `IoError`, `Kill` and `HostFails` may come
anywhere. `disk` is what a reader gets, `durable` what a power loss leaves, and
`diskSynced` whether the data of the renamed file had been synced. The ghosts
`gated`, `acked`, `announced`, `stale` and `raced` record what was promised; no
guard reads them. `Store` is the refinement mapping to `FlowStore`.

`StateFileProofs`: the theorems about `StateFile`.

`AutoDriver`, with its theorems in `AutoDriverProofs`: one `sim-flow auto` process. `pc` is the position of the run loop
(`hello`, `dispatch`, `parked`; `loop`, `worked`, `critiqued` of the auto loop;
`walk`, `walked` of the parallel walk; `advance`, `advanceWorked` of
`run_manual_advance`), `sub` that of the sub-session it is in, `pr` the
AutoPresenter field by field, `job` the locals of the loop, `disk` the two files
that outlive the process. The host's events are read only where the code calls
`recv`, one at a time, queued ones first (`Reads`), so an event is chosen when it
is read. `SetStepMode` and `RefuseCommand` are what `recv` does before it reads
on.

`EventTap`: the tap's history, the event on its way to the observers (`casting`:
it has left the history's lock and not yet taken the senders'), and per observer
what was written to it. `Remember` and `Broadcast` are the two halves of
`broadcast`; `Onboard` is `onboard_observer`, one step because it holds both
locks throughout.

`SocketHost`: the `SocketPresenter`. `at` is the position of the driver's thread
inside `send` or `recv`, `link` the server's end of every connection, `channel`
the queue between the accept thread and the driver. The driver looks at the
channel only inside its calls (`SendAdopts`, `RecvAdopts`): `recv` without a
client takes the oldest connection, otherwise the latest is kept and the others
closed (`DrainLatest`). `Attach` reads the `Hello`, drops the previous client and
replays the history; `AttachFails` is the error that `?` hands to the driver.
`Write` is the end of `send`, `Read` and `RecvPending` those of `recv`.

`TappedPresenter` (extends both): an event goes to the tap, then to the client;
the driver receives first and otherwise alternates as it likes.

`TransportProofs`: the theorems about `TappedPresenter`, and in its second half
those about `Interrupt` and the `LspClient` in it.

`PlanDetailWalk`: a plan-detail step in the auto loop. `at` is the position of
the coordinator, which is the loop's thread; `wat` and `wstub` those of the
threads; `disk` what is in the project (which milestones are detailed, the
critique of the step, the shards), `trees` what each worktree holds, `contribs`
what the threads have handed over. `StartWalk` is the start of
`run_plan_detail_walk_parallel`, with the deletion of old verdicts and the choice
between threads in place, threads in worktrees and the serial path (`GoSerial`).
A thread looks at the cap flag, takes a stub, checks out a worktree and runs its
sessions (`CheckCap`, `Pop`, `Checkout`, `WorkInTree`, `CritiqueOf`,
`WorkInPlace`); the coordinator forwards reports (`Forward`), joins (`Join`),
merges in order of arrival (`Merge`, `MergeDone`) and runs the critiques that are
left (`WalkCritique`); `WalkEnds` asks the gate. `SerialWork`, `SerialCritique`
and `SerialJudge` are the passes of `run_auto_loop` on one milestone. `Gate` is
`critique_dir_clean` over the shards. The ghosts are `settled`, `judged`, `gap`
(a session left no verdict, or the step was entered again), `late` and `outcome`.

`StubPool`: what the threads promise together. A stub is taken by one of them at
most; a walk that returns well has settled all, unless a cap was met.
`PlanDetailWalk` implements it (`PoolKeepsPromise`): the pool's `settled`,
`capped` and `outcome` are ghosts and the cap flag of the threads.

`PlanDetailWalkProofs`: the theorems about `PlanDetailWalk`.

`Session`, with its theorems in `SessionProofs`: the turns of a sub-session. `at` names the piece of `run_session_inner`
that comes next: `request`; then, for an answer with something in it, `critique`
(a critique given as prose), `files`, `calls` and `refused` (a deletion outside
the scope), `checks` (phase and gate), `tail` (wind down, pump or ask); the parks
are `input`, `delete` and `ask`, and `closing`, `keeping`, `answered` are the
steps between a reply and its result. The answer is its shape (`Response`), `n`
holds the counters of the session. `open` and `ask` are the registry in memory,
`disk` what outlives the process. `Suspend` and `Start` are
`suspend_for_user_ask` and `recover_from_checkpoint`.

`Transcript`, with its theorems in `TranscriptProofs`: the messages of sub-sessions. `messages` is the stack, `rows` and
`evicted` what the panel keeps of the connection, `disk` the version of every
file. `Request` is the piece of the loop before a dispatch: the rows of the new
messages, then the two compaction passes (`Superseded`, `Invalidated`) with what
the panel is told. `CallTools`, `Rejected`, `Prose` and `NoAnswer` are the ways a
turn adds to the stack; `Reads`, `Writes` and `Deletes` are the tools.
`Ran` is what the calls of a turn do one after another, `Conversation` the
Anthropic form of the stack; both are recursive functions. The ghost `unseen` holds the
paths a session changed otherwise than by a call that names them.

`SpecCorpus`, with its theorems in `SpecCorpusProofs`: processes that each run one command on the corpus or the index.
A directory is a set of files, a file its part and the run that wrote it. The
`Ingest`/`Refresh` steps are `Load`, `Clean`, `WritePart`, `RemoveFile`,
`RemoveRoot`, `Rename`, `WriteCache`; those of a build `Acquire` (with the way
round a stale lock: `FindsStale`, `RemoveStale`, `AcquireAgain`), `Read`, `Drop`,
`PutTable`, `SaveManifest`, `SaveEmbedder`. `Killed` and `Fails` may come between
any two; `Revise` and `Edit` are what users do to the documents. `Verdict` is the
staleness check.

`PumpLaunch`, with its theorems in `PumpLaunchProofs`: windows on one project, each an extension host that may crash and
be opened again. `Launch`, `Create`, `Write`, `Inspect`, `Unlink` and `Spawn` are
`launchAutoSession` with `acquirePumpLock`; `Restore`, `Restored`, `Unlocked`,
`RestoreFails` the reattachment; `StopActive`, `EndSession`, `EndDone`, `Close`,
`Crash` the ways a window lets go; `Reap` is `cleanupStalePids`, which may spare
any process it cannot identify or signal and drops the records all the same.
`lapses` records how a session's host lost its lock file or its pid record.

`LspClient`: the client of rust-analyzer. `client` is the one in the static, the
one `start` is building or the one `Drop` tears down, for only the holder of
`lock` has one; `th` is the position of every thread in it. `Spawns`, `Attaches`,
`Requests`, `Receives`, `FindsItDead` and `TimesOut` are `start`, `with_client`
and `request` up to the points where another thread can move; `Reads`,
`ReadsEof` and `SendsHeld` are the reader thread; `Drops` and `Joins` the two
halves of `Drop`. What rust-analyzer sends is a choice.

`Interrupt` (extends `LspClient`): session threads that call the LLM (`Dispatch`,
then `PollHttp`, `PollChild` or `PollChildStream`) and the language server
(`ToolCall`, `ToolReturns`), the flag they share (`Stop`, `ResetFlag`), the
prewarm of the first session, and the end of `main` (`Leaves`, `Exits`). `told`
are the sessions a Stop came in, `spurious` that one was cancelled without.

The `MC` modules are the instances.

Operators under a comment "Mutant" are deliberate errors, used by no
specification: each property is shown to fail when its definition is replaced by
one of them.

## Runs

| Run | Instance | Shows |
|---|---|---|
| `state_tx` | 2 processes that advance by transaction, 3 operations, 2 faults | `NeverTorn`, `AckedSurvives`, `ImplementsStore`, and under fairness `EveryOperationReturns` |
| `state_mixed` | 2 processes, all seven operations, 3 of them, 1 fault, symmetry | `LockDiscipline`; `OneFlow`, `LossNeedsRace` and `ResetIsFinal`: what goes wrong needs an unlocked load to race with a save |
| `driver` | 2 steps, both kinds of walk, caps of 1, 2 host events, 1 kill; fair | `OneSessionEnd`, `RetryBudget`, `QueueIsShort`, `HostIsHeeded`, `CapStopsTheLoop`; `ShutdownExits`, `QueuedCommandRuns` |
| `transport` | 3 clients, 1 observer, 2 events, a line besides the `Hello`s that may not parse; fair | `HelloFirst`, `ClientSeesHistory`, `ObserversMissNothing`; `SendReturns`, `LatestIsServed` |
| `walk` | 2 milestones, serial or a thread each, with and without git, 1 retry, the step entered twice; fair | `WorktreesLive`, `AdvanceIsJudged`; `WalkReturns` |
| `walk_pool` | 3 milestones, 2 threads, entered once | `CapReachesWorkers`; `PoolKeepsPromise` |
| `session` | 2 sub-sessions of four modes, 1 question thread, caps of 2 and 1; fair | `AnswersAreKept`, `AutoWorkParksForCause`, `RetryIsNotIdle`; `SessionSettles` |
| `transcript` | 2 files, 3 answers of 2 calls at most, 3 calls and artifacts, 2 sub-sessions, symmetry | `StaleNeedsLapse`, `LastReadIsKept`, `ResultsFollowCalls`, `PanelShowsAll` |
| `corpus` | 2 processes, 1 peer, 2 versions, 2 drafts, 3 commands, 1 change, symmetry | `CorpusOfOneIngest`, `FreshIsTrue` |
| `pump` | 2 windows, 2 sessions, 4 hosts, symmetry | `OneWindowDrives`, `NoStray` |
| `interrupt` | 2 session threads, every kind of call, 2 sessions of one LLM call and one tool call of 2 requests, a channel of 1, 1 Stop; fair | `NoStaleCancel`; `StopEndsSession`, `ExitReturns` |
| `lsp_join` | 1 session thread, 1 request, a channel of 2, no Stop; fair | finding: `JoinReturns` fails, the teardown of the client may wait for ever |

What they are about, in the words of the code:

* State file. `NeverTorn`: a reader of `state.toml` gets a whole document, after
  any kill and power loss. `AckedSurvives`: an advance that returned is not lost.
  `LockDiscipline`: who is between lock and drop holds the flock. `OneFlow`,
  `LossNeedsRace`, `ResetIsFinal`: mixtures of flows, lost advances and revived
  gates need an unlocked load to race with a save.
* Driver. `OneSessionEnd`: the host sees one `SessionEnd` per run.
  `RetryBudget`: the work passes after one entry into the loop stay within the cap,
  also when the counters come from a checkpoint; the passes of a process that was
  killed are not added to those of its successor. `QueueIsShort`: two entries at
  most, no event twice, one command at most, and a `Hello` only last and in the
  handshake it is meant for; a `Cancel` left over from before may stand in front of
  it, which is one of the ways in which a run fails. `HostIsHeeded`: what is still
  begun after a Shutdown, or in the auto loop a change to manual, was read. The auto
  loop begins nothing. A walk in place goes through its remaining critiques
  (`Stubs - 1` at most), and an Advance through its retries and milestones (`2 *
  AdvanceWork - 1` at most), for neither looks at the presenter in between; only
  their own caps end them, and TLC meets both bounds. `CapStopsTheLoop`: no further
  sub-session of the auto loop after a cap. `ShutdownExits`, `QueuedCommandRuns`:
  eventually.
* Connection. `HelloFirst`, `ClientSeesHistory`, `ObserversMissNothing`,
  `SendReturns`, `LatestIsServed`: what those attached are owed.
* Walk. `AdvanceIsJudged`: the step advances only with every milestone detailed,
  and judged clean on its present content, unless `gap`. `WorktreesLive`: what is
  to be merged is there, and nothing is left over. `CapReachesWorkers`: after a
  forwarded cap each thread takes one more stub at most. `WalkReturns`: it ends.
* Session. `AnswersAreKept`, `RetryIsNotIdle`, `SessionSettles`, as stated in the
  inventory. `AutoWorkParksForCause`: an unattended work session waits at the
  prompt only when the LLM failed, or when it has told a cap, for which the
  presenter has queued the `Cancel` that ends the wait. A phase that runs over its
  iterations is no such cause: the session tells the user that it pauses and goes
  on to the gate, where it ends or makes another request (`PhaseCapPauses` below).
* Transcript. `StaleNeedsLapse`: the model is shown a file as it no longer is
  only if the file was changed behind the compaction's back or had already been
  called to change before the read. `LastReadIsKept`: the read the agent made
  last of a file survives as long as no later message names the file.
  `ResultsFollowCalls`: on the wire results answer the turn before them, once and
  completely up to a question. `PanelShowsAll`: every message has its row, and a
  row whose message was evicted is marked.
* Corpus. `CorpusOfOneIngest`: the corpus in place is of one run, unless the runs
  overlapped or a removal was torn. `FreshIsTrue`: an index the check calls fresh
  was built from the present documents, unless `doubt` names the race.
* Windows. `OneWindowDrives`: two orchestrators that nobody stopped run under
  living hosts, of two windows or of one, only if one of them has lost its lock
  file to a launch, in a way that `lapses` names. The host that counts is the one
  that launched the orchestrator: after a reload the new host attaches to the child
  of the old one without taking the lock file, so that an orchestrator it has
  restored excludes nobody and is outside the claim. `NoStray`: an orchestrator that
  nobody has stopped has its pid record, through every order of crashes, restores,
  launches and reapings, unless one of two things took it: a window that had only
  attached let go of it (closed, or disconnected with a cancel that did not
  arrive), or a reaper could not tell the process to be ours or signal it, and
  dropped its record as it drops all.
* Interruption. `NoStaleCancel`: a session is cancelled only by a Stop that came
  while it ran. `StopEndsSession`: once the flag is up, either every session ends,
  whatever each is at, or a new session clears it, or the join of `lsp_join` is
  met. `ExitReturns`: once `main` has begun to leave, the process ends, whatever
  the prewarm thread and rust-analyzer do, save for that join.

Each module has a type invariant, which is a theorem. The inductive invariants of
the proofs were checked once by hand, as one more invariant of a run, before they
were proved.

Why the bounds are enough. Two processes and three operations give every overlap
of two operations, and a third one that meets what they left; the flows have two
steps and one, so that there is a step with a successor, one without, a
prerequisite and a conversion. One fault reaches every interrupted save and two
reach a fault during the recovery from the first. The driver's counters are
compared with caps of 1, which lets a retry happen, succeed and exceed; two
findings distinguish progress from none; two stubs give a critique after a
critique; two host events give every pair of a toggle, a command, a prompt, a
Cancel and a Shutdown, in every place one is read; with three, the longest exchange
any handler looks at, the instance holds as well (1.6 million states, 200 s); the kill gives a restart on the
checkpoint. Two steps give the step with the deterministic pre-check, its
successor, and the end of the list. Three clients are what it takes for two to wait
in the channel while or after a first one is served (the driver receives before
it sends); a dropped connection is never looked at again, so more add no new
situation. Two events give a send that loses its client and one that has none.
Clients are numbered in the order in which they connect. Observers do not affect one another, so
one is enough. The theorems hold for any number of all of them.

The walk: with two milestones every thread has another one to be compared with, a
pass of both kinds leaves the other's verdicts behind, and the second entry finds
what the first left; three milestones for two threads give a stub that is taken
late, which a cap must stop. `Heads` are the ways in which the commit that a
worktree is cut from differs from the project. A second retry repeats the first.
The session: two sessions give one that finds what another left; the caps count
to two where one turn must be told from a run of them, to one otherwise; threads
are independent but for the single pending slot, and a second question in one
thread is among the behaviours. The transcript: two files give a rule that
mistakes one for the other, three calls in three answers a read, a change and a
second read in any distribution over turns; four calls would be needed only for
the lapse named below (read, write, read, write), which `StaleNeedsLapse` already
concedes. The corpus: three commands by two processes are an ingest and two
builds, or two ingests and a build, overlapping in every way; one change falls
between any two of their steps. The windows: two sessions and four hosts let each
window crash and be opened again; three sessions with three hosts (4.75 million
states) held as well. The interruption: two threads are what it takes for one to
clear the flag of another, or to wait for the mutex behind it; two sessions give
one that follows a stopped one; a channel of one is full after one frame and one
of two shows that the join does not need that, the code's 64 behaves alike; two
requests of a call are one after another on the same channel.

States and times with two workers: `driver` 0.79 million and 70 s, `walk` 0.45 million and a minute, `walk_pool` 0.5 million
and 20 s, `session` 0.26 million and a minute, `transcript` 2.2 million and 90 s,
`corpus` 1.1 million and a minute, `pump` 1.2 million and 40 s,
`interrupt` 0.3 million and 110 s.

`CHECK_DEADLOCK FALSE` appears where the system may really stop: in the `state_*`,
`session`, `transcript`, `corpus`, `pump`, `interrupt`, `lsp_join` and `walk*` configurations once the
operations, sessions, commands or entries of the bound are used up, and in
`transport`, because the driver may wait for a client for ever and stops after a
failed call.

Fairness. `StateFile!FairSpec` is weak fairness of every process's own steps,
taken together: a live process goes on, and a process that waits for the flock
while others come and go is served in these bounded runs because the holder
always lets go. Nobody has to start an operation, and faults owe nothing.
`AutoDriver!FairSpec` is weak fairness of the single thread of the process while
it has something to do: a step of its own or a queued event. The host is under no
obligation, so nothing is claimed of a park that it never answers.
`TappedPresenter!FairSpec` is weak fairness of the driver's thread, and of each
connected client's `Hello`, which the pump of the extension writes in its connect
callback. Without the latter `send` may wait for ever for the `Hello` of a client
that connects and says nothing. Nobody has to connect, to speak or to leave.
`PlanDetailWalk!FairSpec` is weak fairness of the coordinator and of each thread:
the operating system runs them, and a session in a thread ends by its own caps,
which `SessionSettles` is about. `Session!FairSpec` is weak fairness of the loop:
a request is answered or fails (the transports have timeouts), and the `Cancel`
that the presenter queues with a cap is there to be read; the user need not
answer. `Transcript`, `SpecCorpus` and `PumpLaunch` state safety only: nobody has
to run a command or open a window. `Interrupt!FairInterruptSpec` is weak fairness of the
session threads together with the children that were sent a SIGTERM or have
closed their output, of the threads of the client with its reader, of the passing
of time for a thread that waits under a deadline, and of the exit of `main`. The
operating system runs threads, `claude` and `codex` end at a SIGTERM
(`cancel.rs:95` counts on it), and a deadline passes also while frames keep
coming. The LLM need not answer and rust-analyzer need not say anything.

## Theorems

In `StateFileProofs`, for any set of processes, any flow lengths, any bounds.
Assumed: `LengthAssumption` and `StateFileAssumption`.

* `TypeCorrect`, `LockCorrect`, `CrashSafe`: `TypeOK`, `LockDiscipline`,
  `NeverTorn` always hold. `NeverTorn` is not inductive: a rename publishes the
  temporary file and a power loss keeps the renamed file only if its data had
  been synced. The invariant `FileInv` therefore adds that the file named
  `state.toml` was synced before its rename and that the temporary file of a
  process between its write and its rename is its own copy, synced from `rename`
  on. That needs the lock discipline: a single temporary name is shared by all.
* `AdvancesSurvive` and `TransactionsImplementStore`: if every operation is an
  advance by transaction (`Kinds = {"advance"}`), `AckedSurvives` holds and
  `StateFile` implements `FlowStore`. The argument (`TxInv`): from its load to
  its rename a transaction holds the lock, so its copy is the document on disk,
  or that document advanced, and an operation acknowledges only after the rename
  and the directory sync have made its own step durable.
* `OnlyARaceLosesAnAdvance`, `ResetsHold`, `DocumentIsAboutOneFlow`:
  `LossNeedsRace`, `ResetIsFinal` and `OneFlow`, with all seven operations. Each
  says "unless `raced`", and `raced` never goes back, so the argument (`MixedInv`)
  is about behaviours in which no overtaken copy was saved. There a copy read
  since the last save is the document on disk, changed by its own operation and
  nothing else (`FreshInv`, through `Result`); an operation about to return has its
  step in the file, then durably (`ReturnInv`); and the document, on disk and in
  what a host failure leaves, is about one flow, passed only what was found clean,
  and has every acknowledged step (`DocumentInv`). `KindInv` says which operation
  can be at which point; an `init` starts from no document and is told apart.

In `AutoDriverProofs`, for any number of steps, caps, budgets, kinds of walk,
events and kills. Assumed: `AutoDriverAssumption`.

* `TypeCorrect`; `HostHearsOneEnd`, `RetriesAreBounded`, `QueueStaysShort`:
  `OneSessionEnd`, `RetryBudget`, `QueueIsShort`; and `CapsHold`, the action property
  `CapStopsTheLoop`. None is inductive, and they need one another. `QueueInv` says what may be queued where: a `Hello` only
  for a sub-session being opened and behind one leftover at most, a `Cancel`
  only with the cap flag, a command only between sub-sessions and in manual mode;
  the length follows. `EndInv` needs that a sub-session never runs without its
  `SessionEnd` being consumed. `CapInv` follows a cap from its diagnostic to the
  place where the loop looks at the flag, which is after events were read.
  `BudgetInv` relates the passes made since the loop was entered to the counter in
  memory; one that a checkpoint brings can only leave fewer.
* `StopsAreHeeded`: `HostIsHeeded`. It rests on a second invariant, `LateInv`, which
  is inductive relative to the first. Inside an Advance, the sub-sessions begun
  since the host has asked to stop and twice the passes that are left
  (`WorkLeft`: the retries of this milestone, and a first pass with its retries for
  each that may still be walked to) stay under the bound; `WorkLeft` falls with
  every rework, because a rework either uses up a retry or gives a milestone for
  its retries. Inside a walk the same is said of the stubs that are left. In the
  loops nothing is begun, and a stop cannot be read before the first sub-session
  of an Advance or a walk.

In `SessionProofs`, for any threads of questions, caps, modes, sessions and kills.
Assumed: `SessionAssumption`, `ThreadsAssumption`.

* `RepliesAreKept`: `AnswersAreKept`. A reply passes from the registry in memory
  to a file, or to the record of a closed thread, and a restart builds the registry
  from the files. `OpenInv`: a thread in memory has a turn for every reply, files
  on disk are of open threads. `ReplyInv`: a thread that was recorded is in
  neither and is never asked again, so no record is made twice. All steps but six
  leave the threads alone (`Quiet`) or end the session (`Over`).
* `TypeCorrect`, `ParksForCause` and `RetriesWork`: `AutoWorkParksForCause` and the
  action property `RetryIsNotIdle`. `TurnInv` carries what a turn brought from the
  point where it is judged to the tail: files that were written count as a write,
  and an unattended work session that comes to the tail brought none, or has told
  a cap.
* `QuestionIsSaved` and `OrphansStayOrphaned` are about the finding
  `PendingIsParked` below. `SlotInv` says that the question in the slot is the one
  the checkpoint names, and that the slot is empty while a reply is recorded. A
  checkpoint that a session leaves on disk is therefore recovered by every later
  session of the step, and no step of the loop but the reply that nobody waits for
  would free the slot: `Orphaned` is never left again, and no reply is taken in it.

In `PumpLaunchProofs`, for any windows, sessions and hosts. Assumed:
`PumpAssumption`.

* `TypeCorrect`; `LockKeepsOthersOut` and `RunningIsRecorded`: `OneWindowDrives`
  and `NoStray`. Two drivers exclude each other because the lock file can name
  only one of them: `LockInv` says that whoever runs undisturbed, or has just made
  the file, and has not lost it, is the one it names. A window that removes a lock
  does so on what it read earlier: `SawInv` says that whoever it read is gone by
  then, or is of the same host. That needs to know which host a launch, an active
  session and a stored record belong to (`HostInv`, `AcquireInv`, `RecordInv`) and
  that nothing refers to a child that was never started (`BornInv`).

In the second half of `TransportProofs`, for any number of session threads,
requests, any capacity of the channel. Assumed: `LspClientAssumption`,
`ThreadsDiffer`, `InterruptAssumption`.

* `InterruptTypeCorrect`; `ClientIsGuarded`: a thread is at one of the positions inside the
  client exactly while it holds the mutex, over starts, timeouts, evictions, errors
  and the teardown (`OneInside`).
* `StopsAreCurrent`: `NoStaleCancel`. A flag says nothing of whom it was raised
  for; `Meant` says that while it is up every running session is one a Stop came
  in, because every session that starts clears it, and that the same is true of a
  session that no longer looks at the flag but waits for the child it has sent a
  SIGTERM.
* `OnlyPrewarmOutlasts`: of `LeavesNothing`, which fails (see below), all that
  holds. `shutdown_client` returns to `main` without a client, and since `main`
  began to leave none comes but by a prewarm that was waiting for the mutex. The
  invariant (`ExitInv`) says that there is a child exactly while there is a client
  and at all times under the mutex (`ClientLives`), that `main` only tears down,
  that a session thread is in the client only during a tool call and that `main`
  leaves after the sessions.

In `SpecCorpusProofs`, for any processes, peers, versions, drafts and bounds.
Assumed: `CorpusAssumption`.

* `CorpusIsWhole`: `CorpusOfOneIngest`. `quiet` is a set of runs, the property is
  about files. `TmpInv` says what the temporary tree holds while an ingest fills
  it: all it has written so far, of one source, if the ingest is quiet, and
  otherwise no file of a quiet run but its own. A quiet ingest is the only one
  (`AloneInv`), its run has a number of its own (`RunsInv`), the source did not
  change under it (`SourceInv`), and what it has put in place waits for its
  descriptor (`CacheInv`). Without `AloneInv` a second ingest could clean the tree
  under the first.
* `FreshMeansFresh`: `FreshIsTrue`. `WritersInv` says that as long as nothing
  happened under the build one process writes, and none once it has come to its
  end; `WriterInv` that what it has read or written by each of its positions is
  what is on disk; `BuiltInv` that the stamps of a finished build are those of its
  tables. The lock file is no part of the argument: a second writer, by a stale
  takeover or after a failure that removed the file of another, is what `doubt`
  records. `CorpusOfOneIngest` gives that the hash in the manifest is of the text
  that was read.
* `OneWriterUnlessStale`: `OneWriter`, which fails (see below), holds in every
  behaviour without a step `Ages`, with all other failures and kills. `SoleWriter`
  says that then nobody removes a lock but its owner; the lock left by a kill, or
  by an owner that could not write its body, only shuts everyone out.

In `TransportProofs`, for any sets of clients and observers and any bounds.
Assumed: `SocketHostAssumption`.

* `TypeCorrect`: `TypeOK` always holds.
* `HandshakeGetsHello` and `ClientsAreServed`: `HelloFirst` and
  `ClientSeesHistory`. `HelloFirst` is not inductive: that a client is attached
  although recv has returned nothing must mean that its `Hello` is kept, and recv
  must not read from a client while one is (`HelloIsKept`).
* `ObserversAreServed`: `ObserversMissNothing`. The order needs to know that the
  events are numbered and that no observer has seen one that was not remembered
  (`Numbered`), or a broadcast could append an event that is too old.

Each module has one invariant, preserved by its own actions; a step of the
composition is one of the tap or leaves the tap alone, and likewise for the
connection (`TapStep`, `HostStep`).

In `PlanDetailWalkProofs`, for any number of milestones, any settings, heads,
retries and entries. Assumed: `PlanDetailWalkAssumption`.

* `TypeCorrect`: `TypeOK` always holds.
* `CapIsPrompt` and `WalkImplementsPool`: `CapReachesWorkers`, and the threads
  implement `StubPool`. Neither is inductive. `PoolInv` adds that a thread has a
  stub exactly where its position says so and that it is no longer queued
  (`Held`), that two threads never have the same (`Distinct`), that one which
  stopped has met the cap or an empty queue (`DoneSeen`), that a walk in progress
  has threads (`Staffed`), and where a thread can be after its last take
  (`LastTake`).
* `WorktreesSafe`: `WorktreesLive`. `TreesInv` adds which thread owns which
  worktree at which of its positions (`Sessions`), that every contribution has one
  and is listed once (`Contributions`), and that at rest there is none.
* `AdvanceSafe`: `AdvanceIsJudged`. The gate looks at files, the property speaks
  of sessions; `Covered` connects them: while no verdict is missing, every
  detailed milestone has been judged on its content, or has a blocking verdict, or
  its critique is still to come. `Critiqued` says the same of what waits in the
  worktrees.

In `TranscriptProofs`, for any files, any number of calls in an answer, of answers
and of sub-sessions. Assumed: `TranscriptAssumption`, `PathsAssumption`.

* The recursive functions first. The induction theorems of the library take an
  operator, which the provers cannot instantiate, so induction is done here on
  sets: a set of numbers has a least element (`Least`, from `WFMin` for the
  relation `Less`), so one that holds a number and with each member the next
  holds all that follow (`Climbs`). `Recursion` makes from it a function on
  `m .. n` that takes a given step; with it the `CHOOSE` in the definitions of
  `Ran`, `RowsOf` and `Conversation` is resolved (`RanUnfolds`, `RowsAreSent`,
  `ConversationIs`), and what they return is proved for lists of every length.
* What a turn does. `DoesFollows` says of one call which file it changes and what
  its result shows, `RanFacts` the same of a list of calls: what a read shows is
  the file as it is when the turn is over, unless a call of the turn or something
  in `unseen` changed it. `AnswerTaken` puts the four kinds of answer into one
  form (`TurnTaken`), `CompactedTakes` the two compaction passes (`Taken`): they
  change nothing but the bodies of results of reads.
* `TranscriptTypeCorrect`; `StaleReadsHaveLapsed`, `LastLookStays`:
  `StaleNeedsLapse`, `LastReadIsKept`. Neither is inductive: both speak of the
  moment of a request. Between requests `Lapsed` is weaker, something has changed
  the file or was called to, and the invalidation pass makes the property of it;
  `Caused` says of each evicted result that a later message names its path.
* `ConversationIsWhole`: `ResultsFollowCalls`. `Shape` describes the stack: a
  result answers an answerable call of the last message of the agent before it
  and only results are in between (`Answering`), no call has two (`Once`), a
  message with calls has all results or none and a word of the user (`Batches`),
  and only reads show a file (`ReadsOnly`). `Grouped` describes what the wire form
  makes of any stack: turns one behind the other that cover it, with no two
  batches side by side. The property follows from the two (`BatchAnswers`,
  `CallsAreFollowed`).
* `TranscriptIsComplete`: `PanelShowsAll`. `RowsInv`: of the running session the
  rows are those of the prompt messages up to `emitted`, one each, whole unless
  evicted, and what was not sent yet is whole, because compaction comes right
  after the rows. Rows of earlier sessions have smaller numbers.

What is only model-checked: liveness, which is out of this prover's reach.
`EveryOperationReturns`, `ShutdownExits`, `QueuedCommandRuns`, `WalkReturns`,
`SessionSettles`, `StopEndsSession`, `ExitReturns`, `SendReturns`,
`LatestIsServed`.

## Findings

`lsp_join` is a run that must find a violation, with an entry in `PROJECT.json`.
`lsp.rs:529` says that after the kill of rust-analyzer its reader thread reads the
end of the stream and ends, so that `Drop` can join it. The reader may instead be
blocked in `tx.send`: frames are taken off the channel of 64 only while a request
waits for an answer, notifications between two tool calls fill it, and its other
end is dropped only after `Drop::drop` has returned. The join then never returns,
the mutex stays held, and `main` hangs in `shutdown_client`. In the trace of the
run a session makes one call of the language server and ends; by then the channel
is full and the reader holds one more frame.

The modules hold more statements of the source that its code does not keep. None
of them is checked by a run; each fails when it is added to the instance named,
as an invariant, or as a property where so marked.

| Definition | What the source says | What the code does | Instance |
|---|---|---|---|
| `StateFile!AnnouncedIsSaved` | `protocol.rs:128`: `StateAdvanced` is "emitted right after `mark_passed` + `save`" | it is sent inside the transaction (`auto.rs:2523`), which saves afterwards and may fail | `state_tx` with one process, one operation, no faults |
| `AutoDriver!QueuedCommandIsDispatched` | `auto.rs:4185`: "the outer loop's next read picks up the queued manual command" | during an Advance the next critique session reads it in place of its `Hello`, and the run fails | `driver`, serial, all caps 1, no kill |
| `AutoDriver!ShutdownWins` (property) | `auto.rs:31`: "`Shutdown` always wins", checked "between sub-sessions" | `run_manual_advance` and the critiques of an in-place walk never look at the flag | the same |
| `AutoDriver!ParkedTakesCommands` | `protocol.rs:272`: after a toggle the loop "stays parked until the user's next `RunStep` / `Advance`" | the presenter refuses every step command once the mode is `auto` | the same |
| `AutoDriver!LoopFollowsState` | `auto.rs:581`: "Re-check the gate and either advance or flip to manual" | the outcome of that advance is dropped; the loop goes on to the next step of its list | the same with `Parallel <- WorktreeWalks` |
| `SocketHost!SurvivesDisconnects` | `socket_host.rs:5`: the presenter "keeps the orchestrator alive across host disconnects" | a client that leaves before its `Hello`, or during the replay, makes `send` or `recv` fail | `transport` with 2 clients, `Malformed = FALSE` |
| `EventTap!ObserversSeeOnce` | `event_tap.rs:14`: a replay of what was emitted, "then receives every new event live" | an observer that attaches between the two locks gets the event both ways | `transport` |
| `PlanDetailWalk!NoEmptySlot` | `worktree.rs:304`: "the directory-mode gate sees the empty slot and the run flips to manual" | the gate asks only that every shard that is there is clean | `walk` |
| `PlanDetailWalk!LoopIsBounded` (property) | `auto.rs:2364`: "MILESTONE_WALK_CAP in the caller bounds total iterations" | the auto loop has no such bound, and resets its counters at every milestone (`auto.rs:777`) | `walk` |
| `Session!PendingIsParked` | `runtime.rs:81`: `has_pending` is "`true` when an `ask_user` call has parked the LLM turn and hasn't been resumed yet" | a question pending at a kill is recovered into a runtime that nobody waits for (`dispatch.rs:158` drops the result): no reply is ever read for it, and every later `ask_user` of the step fails with `AlreadyPending` (`runtime.rs:138`) | `session` |
| `Session!PhaseCapPauses` (property) | `dispatch.rs:2077` tells the user "{current_phase} phase exceeded {MAX_ITER_PER_PHASE} iterations; pausing for user input" | an unattended work session does not pause: it goes on to the structural gate, and ends or makes the next request | `session` |
| `Transcript!MutatedReadsEvicted` | `compaction.rs:256`: a read "for any path mutated later in the session is now misleading ... The rule below scans for these and evicts" | only the first change of a path counts: in read, write, read, write the second read stays, with the old content | `transcript` |
| `Transcript!StubsStay` (property) | `compaction.rs:341`: a read "already stubbed by dedup won't be re-evicted here" | both passes run again before every request, over their own stubs, and tell the panel again | `transcript` |
| `Transcript!MarksAreTrue` | `autoSessionManager.ts:74`: "once a turn evicts, the visual stays" | the map is the connection's, the ids restart with every sub-session: rows of a later sub-session are marked although their messages are there | `transcript` |
| `SpecCorpus!OneWriter` | `lock.rs:3`: "concurrent builders serialize via this lock" | a lock older than ten minutes is taken over while its owner may still be embedding | `corpus` |
| `PumpLaunch!ReapsOrphansOnly` | `extension.ts:590`: the pid records at activation "are orphans from a prior extension run that died" | the records of a host that lives are reaped too: a second window opened on a project signals the orchestrator the first one drives | `pump` |
| `PumpLaunch!DisconnectStops` (property) | `actions.ts:153`: the escalation of a Disconnect "is the only path that guarantees the spawned `sim-flow auto` child is reaped" | a pump that only attached has no child to signal and is disposed before its cancel has gone out: the orchestrator may run on, without its record | `pump` |
| `Interrupt!StopReachesAll` (property) | `socket_host.rs:322`: "a side-channel `cancel` can land mid-LLM-dispatch" | in a parallel walk the next session of another worker clears the flag before the call it was meant for looks at it | `interrupt` |
| `Interrupt!LeavesNothing` | `lsp.rs:567`: `main` and the others call the teardown "so the subprocess gets a chance to leave gracefully" | a prewarm that waits for the mutex while `main` tears the client down starts another rust-analyzer, which nobody ends | `interrupt` |

Other disagreements met while modelling, in behaviours the models have:

* A failed or partial read, or a read cut off by a question, evicts the last good
  body of its path, and a failed write evicts a current one: the rules look at
  calls, not at what came of them. Calls of an answer whose artifacts were
  rejected, and calls behind an `ask_user`, get no result at all, although
  `anthropic/mod.rs:776` says that the backend requires one for each.
* The diagnostic of the no-progress, investigation and declared-fix caps does not
  end the session; another request follows before the `Cancel` is read.
* `session_persisted_writes` is not set for writes of a turn that an `ask_user`
  suspended; an unattended critique that answers with a rejected file parks.
* `refresh-spec` is documented as "Equivalent to `ingest --rebuild` followed by
  `build-spec-index`" (`cli/lance_index.rs:238`), but drops the descriptor and the
  peers. "Atomic replace" in `emit.rs` removes the old corpus first, and the
  tables of the index are removed before the new ones are renamed. `source_sha256`
  covers the primary source only, and the hashes of the index's stamp are taken
  after embedding, which may be long after the reading.
* The normal end of a session does not dispose its pump: the lock file stays, with
  a live pid, and other windows are refused although nothing runs. Disposing a
  pump that only attached removes the pid record of the running child.
  `killIfOurs` answers "not-ours" when `ps` or `wmic` fails or times out, and
  "kill-failed" when the signal cannot be sent; `cleanupStalePids` removes the
  record of a process it has left running in both cases.
* An error of `start` is not cached, although `lsp.rs:12` says so: every later
  `api_*` call pays the start again. The panic hook calls `shutdown_client`, which
  waits for a mutex that the panicking thread may hold. A streamed child that has
  closed its output is waited for without a look at the flag. The worker of an
  abandoned HTTP call goes on with its retries. A Stop while a session is parked
  cancels its next prompt. `control_accept_loop` reads one connection at a time.

## What is abstracted

* LLM answers, critique findings, gate verdicts, milestone counts: choices.
* In `StateFile`, timestamps, per-candidate gates (a one-shot `run --candidate`
  records them, `runner.rs:157`; the auto drivers do not) and the files other than
  `state.toml`. The directory fsync is best effort in the code
  and assumed to work. After a kill the next save overwrites the temporary file,
  so a left-over one is kept in `tmp`. Filesystems are assumed to make a rename
  atomic, and to keep the old or the new entry at a power loss.
* In `PlanDetailWalk`, a session of a thread is one step with its result, a
  checkout succeeds or fails, and the removal of a worktree succeeds. A kill
  leaves worktrees behind under names nobody uses again, so they are forgotten.
* In `Session`, an answer is its shape; limits are constants; file names, path
  redirects and the texts of prompts are left out. A request always comes back.
  The flip of the mode by `ask_user` is dead code in this commit (nothing writes
  `current_step_mode`), and `force_close_open_threads` is called by a test only.
  A pending file or a thread file that cannot be read or removed is left out.
* In `Transcript`, a stack begins with one message that stands for the system and
  opening messages; ids count from 1. Directory listings (deduplicated and never
  invalidated), fenced calls (their results go into a user message), calls without
  an id or with arguments that do not parse, writers outside the session and the
  wire forms of the other backends are left out. A read of a part and one of the
  whole file are alike, since the code keys both by the path; an edit is a write.
  `write_file` of a critique also renders its `.md` sibling (`write_file.rs:246`),
  and `edit_file` may report an error after it has changed the file
  (`edit_file.rs:166`): neither is an outcome of a modelled call, and what they
  change shows only among the `unseen` changes of an artifact.
* In `SpecCorpus`, a document is a version, a part of the corpus one file, and
  only what makes a build or an ingest fail between two writes is a choice. The
  index of the framework API is built by the same functions on other tables. A
  manifest without a primary source, or whose source cannot be hashed, has an empty
  `source_sha256` (`emit.rs:1482`), which is left out: the staleness check then has
  nothing to tell two sources by, and `FreshIsTrue` says nothing of such a corpus.
* In `PumpLaunch`, a child is alive, told to stop, or dead; file-system errors,
  viewers that never launch, failing writes of a pid record and two restores at
  once in one window are left out; the spawn and its pid record are one step,
  since no `await` is between them. A reaper may spare any process, for whatever
  reason. The cancel of `stopActivePumpSession` goes out after an `await`; a child it
  has not reached is one that nobody has stopped. The pid of a dead host may have been reused,
  so a dead owner of a lock may look alive.
* In `AutoDriver`, an LLM turn with its tool calls, artifacts, `ask_user` and
  compaction is one step that ends the session, asks again or parks. A Stop of
  the control socket, which cancels an LLM call, shows as a session that ends.
  Advance and Reset take effect on `disk` at once; `StateFile` covers what can
  come between. The branch of `recv` that refuses a command because a session is
  running and not parked is left out: a session calls `recv` in its handshake,
  where an event is always queued, and right after `RequestUserInput`. The
  document work between sub-sessions (checkbox ticking, cargo checks,
  attachments) only changes what the critique and the gate answer. `Session`,
  `Transcript` and `PlanDetailWalk` have the inside of those steps.
* In `SocketHost` and `EventTap`, connecting and being accepted are one step: the
  driver cannot tell a late accept from a late connect. A connected client reads what it is
  sent, so a write to it does not block; the same holds for observers. The
  `SessionEnd` that a driver attempts after a failed call is left out. The accept
  loop of the `.ctl` side channel is `Stop` of `Interrupt`.
* In `LspClient`, an id matters only so far as it is the one waited for: an answer
  that nobody waits for any more is one more notification. The two texts that
  `shutdown` and `exit` are, and a request, are written at once. A call for another
  workspace root, which is refused, is left out; so are poisoning and the signal
  handler, which only the interactive drivers install.
* In `Interrupt`, a child has read its prompt when the polling begins, and its
  buffered output is read to the end once it has exited; an answer of the LLM is
  followed by one tool call at most; a step that prewarms runs alone, which the
  parallel steps are not, and one prewarm thread stands for all. Parks are in
  `Session`.
* In `TappedPresenter`, what the driver sends and when it receives is free, except
  that it receives first; the events are numbered.
* `retry` timing, prompts, diagnostics and logs have no effect on control.

## Not modelled

`PROJECT.json` gives the reason for each component. The LLM services, the cargo
runners, the embedding service and the command-line clients are
I/O against other programs. The stages of the ingestion between reading and
writing, the `spec.md` parser, the population of DM0 documents, the prompts and
reports are sequential text transformations: hundreds of rules about wording,
each a function of one document, which the repository's unit tests state better
than a model with the wording abstracted away could. Tracking, baselines, the bug
log and the global database append records and get their transactions from
SQLite. The dashboard and the webviews render. Most of the code, measured in
lines, is of these kinds.

## Plan

Done: everything above. What would come next, in this order:

1. `AutoDriver` on a `SocketHost`: the `Hello` of a reattaching client reaches a
   parked session as one more event.
2. `AutoDriver` composed with `StateFile`: two drivers on one project, an
   external reset during a walk, the outcome reported to the host. At the bounds
   that show something the product is too large for TLC; it needs an abstraction
   of `AutoDriver` to its effects on `state.toml`, with a refinement.

The runs are to stay few: a new one takes the place of the narrower of two.
