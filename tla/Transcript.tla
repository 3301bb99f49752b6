------------------------------ MODULE Transcript ------------------------------
(***************************************************************************)
(* The messages of a sub-session: what the orchestrator pushes on its       *)
(* stack, what the compaction before every request takes out of it, what    *)
(* an Anthropic backend makes of it, and what the chat panel is told.       *)
(*                                                                         *)
(* A message id is a position in the stack (position_id), so the panel      *)
(* knows a message by a number that every sub-session counts anew.  The     *)
(* body of a read carries the version of the file that it shows; versions   *)
(* are numbered in the order of the writes.                                 *)
(*                                                                         *)
(* When a session ends, and for what, is the matter of Session.            *)
(***************************************************************************)
EXTENDS Integers, SequencesExt

CONSTANTS
    Paths,        \* files that the agent names
    MaxCalls,     \* bound: tool calls of an answer
    MaxOps,       \* bound: tool calls and artifacts of all sessions
    MaxAnswers,   \* bound: answers of all sessions
    MaxSessions   \* bound: sub-sessions on the connection

ASSUME TranscriptAssumption ==
    {MaxCalls, MaxOps, MaxAnswers, MaxSessions} \subseteq Nat

NoPath == "none"
ASSUME PathsAssumption == NoPath \notin Paths

VARIABLES
    at,        \* "off", "ready" for a request, or "asked"
    session,   \* sub-sessions started
    messages,  \* the stack
    emitted,   \* last_emitted_message_index
    disk,      \* the version of every file, 0 for none
    rows,      \* the panel's rows: prompt messages as they were sent
    evicted    \* the panel's evictedMessageIds, of the connection

\* Counters of the bounds, and a history variable that no guard reads: the
\* paths that the session changed otherwise than by a call that names them.
VARIABLES version, ops, answers, unseen

counters == <<version, ops, answers>>
vars == <<at, session, messages, emitted, disk, rows, evicted, counters, unseen>>

\* A file that is not there has version 0.
Absent == 0

Tools == {"read", "write", "delete", "ask"}

\* A call with what will come of it: a read shows the file, all of it or a part;
\* a write or an edit goes to its path or to the one that the milestone names
\* instead, and one that is undone deletes the file.
Attempts ==
    [tool : {"read"}, path : Paths, out : {"shown", "error"}]
    \union [tool : {"write"}, path : Paths, to : Paths, out : {"ok"}]
    \union [tool : {"write"}, path : Paths, out : {"undone", "error"}]
    \union [tool : {"delete"}, path : Paths, out : {"ok", "error"}]
    \union [tool : {"ask"}, path : {NoPath}, out : {"answer"}]

Kinds == {"text", "shown", "result", "superseded", "invalidated"}
Body == [kind : Kinds, version : Nat]

Plain(kind) == [kind |-> kind, version |-> 0]
Stubs == {Plain("superseded"), Plain("invalidated")}

\* The id of a call: the position of its message, and its own in that.
Call == [tool : Tools, path : Paths \union {NoPath}]
Message ==
    [role : {"user"}, body : Body]
    \union [role : {"assistant"}, calls : Seq(Call)]
    \union [role : {"tool"}, id : Nat \X Nat, body : Body]

User == [role |-> "user", body |-> Plain("text")]
Assistant(cs) == [role |-> "assistant",
                  calls |-> [k \in DOMAIN cs |-> [tool |-> cs[k].tool, path |-> cs[k].path]]]
Tool(id, body) == [role |-> "tool", id |-> id, body |-> body]

TypeOK ==
    /\ at \in {"off", "ready", "asked"}
    /\ session \in 0 .. MaxSessions
    /\ messages \in Seq(Message)
    /\ emitted \in 0 .. Len(messages)
    /\ disk \in [Paths -> 0 .. version]
    /\ rows \in Seq([session : Nat, id : Nat, body : Body])
    /\ evicted \subseteq Nat
    /\ version \in Nat /\ ops \in 0 .. MaxOps /\ answers \in 0 .. MaxAnswers
    /\ unseen \subseteq Paths

Init ==
    /\ at = "off"
    /\ session = 0
    /\ messages = <<>>
    /\ emitted = 0
    /\ disk = [p \in Paths |-> 1]
    /\ rows = <<>>
    /\ evicted = {}
    /\ version = 1 /\ ops = 0 /\ answers = 0
    /\ unseen = {}

-----------------------------------------------------------------------------
(* Compaction.                                                             *)

Positions(ms, role) == {i \in DOMAIN ms : ms[i].role = role}

\* Assistant messages with a call of one of the tools on p.
Calling(ms, tools, p) ==
    {i \in Positions(ms, "assistant") :
        \E k \in DOMAIN ms[i].calls : ms[i].calls[k].tool \in tools /\ ms[i].calls[k].path = p}

\* Results of reads of p.
ReadsOf(ms, p) ==
    {i \in Positions(ms, "tool") :
        LET id == ms[i].id IN ms[id[1]].calls[id[2]] = [tool |-> "read", path |-> p]}

\* The message that the result at i answers.
Asker(ms, i) == ms[i].id[1]

\* Mutant: the results of a path are superseded by its first read.
SupersededByFirst(ms) ==
    UNION {{i \in ReadsOf(ms, p) : \E j \in Calling(ms, {"read"}, p) : j < Asker(ms, i)} : p \in Paths}

\* run_path_keyed_dedup: a later message calls the same tool on the same path,
\* whatever part of it, and whatever came of it.
Superseded(ms) ==
    UNION {{i \in ReadsOf(ms, p) : \E j \in Calling(ms, {"read"}, p) : j > Asker(ms, i)} : p \in Paths}

\* Mutant: a deleted file is not a changed file.
MutatesByWrite == {"write"}

\* mutation_path_tool
Mutates == {"write", "delete"}

\* run_mutation_invalidation: the first call that may change the path comes in
\* a message later than the read.
Invalidated(ms) ==
    UNION {{i \in ReadsOf(ms, p) :
              LET changes == Calling(ms, Mutates, p)
              IN  changes # {} /\ \A j \in changes : j > Asker(ms, i)} : p \in Paths}

Stubbed(ms, ids, kind) ==
    [i \in DOMAIN ms |-> IF i \in ids THEN [ms[i] EXCEPT !.body = Plain(kind)] ELSE ms[i]]

\* The two passes; each tells the panel what it replaced, also again.
Compacted(ms) == Stubbed(Stubbed(ms, Superseded(ms), "superseded"), Invalidated(ms), "invalidated")

-----------------------------------------------------------------------------
(* Requests.                                                               *)

\* LlmRequest for every prompt message behind the last one sent.
RowsOf(ms) ==
    LET row(i) == [session |-> session, id |-> i, body |-> ms[i].body]
        sent[i \in emitted .. Len(ms)] ==
            IF i = emitted THEN <<>>
            ELSE IF ms[i].role = "assistant" THEN sent[i - 1] ELSE Append(sent[i - 1], row(i))
    IN  sent[Len(ms)]

\* Mutant: the messages that made the calls are said to be gone.
ToldOfCalls(ms) == {Asker(ms, i) : i \in Superseded(ms) \union Invalidated(ms)}

\* The ids of ContextEvicted.
Told(ms) == Superseded(ms) \union Invalidated(ms)

Request ==
    /\ at = "ready"
    /\ at' = "asked"
    /\ rows' = rows \o RowsOf(messages)
    /\ emitted' = Len(messages)
    /\ messages' = Compacted(messages)
    /\ evicted' = evicted \union Told(messages)
    /\ UNCHANGED <<session, disk, counters, unseen>>

-----------------------------------------------------------------------------
(* Answers.                                                                *)

\* What a session does to the files in one turn: the files, the number of the
\* last version, the paths changed behind the back of the compaction, and the
\* results so far.
World == [disk |-> disk, version |-> version, ops |-> ops, unseen |-> unseen, results |-> <<>>]

NewVersion(w, p) == [w EXCEPT !.disk[p] = w.version + 1, !.version = w.version + 1]

\* An artifact of the text is written, or none.
Artifacts == {World} \union {[NewVersion(World, p) EXCEPT !.ops = @ + 1, !.unseen = @ \union {p}] : p \in Paths}

Result(w, body) == [w EXCEPT !.results = Append(@, body)]

\* read_file: the version of the file, or an error.
Reads(w, c) ==
    LET v == w.disk[c.path]
    IN  Result(w, IF c.out = "shown" /\ v # Absent THEN [kind |-> "shown", version |-> v]
                  ELSE Plain("result"))

Deleted(w, c) ==
    Result([w EXCEPT !.disk[c.path] = Absent], Plain("result"))

\* write_file and edit_file: a critique that cannot be rendered is deleted.
Writes(w, c) ==
    CASE c.out = "ok" -> Result([NewVersion(w, c.to) EXCEPT !.unseen = @ \union ({c.to} \ {c.path})],
                                Plain("result"))
      [] c.out = "undone" -> Deleted(w, c)
      [] OTHER -> Result(w, Plain("result"))

\* delete_file: also refused when the file is not there.
Deletes(w, c) ==
    IF c.out = "ok" THEN Deleted(w, c) ELSE Result(w, Plain("result"))

\* One call: the file it changes, and the body of its result.
Does(w, c) ==
    CASE c.tool = "read" -> Reads(w, c)
      [] c.tool = "write" -> Writes(w, c)
      [] c.tool = "delete" -> Deletes(w, c)

\* The calls up to an ask_user, which gives the turn back to the user.
BeforeAsk(cs) ==
    LET asks == {k \in DOMAIN cs : cs[k].tool = "ask"}
    IN  IF asks = {} THEN cs ELSE SubSeq(cs, 1, Min(asks) - 1)

\* The calls cs, one after another.
Ran(start, cs) ==
    LET after[k \in 0 .. Len(cs)] == IF k = 0 THEN start ELSE Does(after[k - 1], cs[k])
    IN  after[Len(cs)]

Suspends(cs) == \E k \in DOMAIN cs : cs[k].tool = "ask"

\* Mutant: a turn that was suspended keeps the answer only.
ResultsOfAsk(i, cs, bodies) ==
    IF Suspends(cs) THEN <<Tool(<<i, Len(bodies) + 1>>, Plain("result"))>>
    ELSE [k \in DOMAIN bodies |-> Tool(<<i, k>>, bodies[k])]

\* The messages that the results make, for a call message at position i; the
\* user's answer comes before the results of the calls ahead of the question.
Results(i, cs, bodies) ==
    LET done == [k \in DOMAIN bodies |-> Tool(<<i, k>>, bodies[k])]
    IN  IF Suspends(cs) THEN <<Tool(<<i, Len(bodies) + 1>>, Plain("result"))>> \o done ELSE done

Answered == at = "asked" /\ answers < MaxAnswers

\* The turn ends with w on disk, n calls made and ms pushed.
Pushes(w, n, ms) ==
    /\ w.ops + n <= MaxOps
    /\ answers' = answers + 1
    /\ ops' = w.ops + n
    /\ at' = "ready"
    /\ messages' = messages \o ms
    /\ disk' = w.disk
    /\ version' = w.version
    /\ unseen' = w.unseen
    /\ UNCHANGED <<session, emitted, rows, evicted>>

\* The next word is the loop's or the user's, or the request is made again.
NextWord == {<<>>, <<User>>}

\* No answer, or an empty one.
NoAnswer ==
    /\ Answered
    /\ \E more \in NextWord : Pushes(World, 0, more)

\* Text, perhaps with an artifact, and no calls.
Prose ==
    /\ Answered
    /\ \E w \in Artifacts, more \in NextWord : Pushes(w, 0, <<Assistant(<<>>)>> \o more)

\* bound: MaxCalls calls in an answer, and one artifact
CallLists == {cs \in SeqOf(Attempts, MaxCalls) : cs # <<>> /\ ops + Len(cs) <= MaxOps}

\* An artifact is rejected, another perhaps written: the calls are not run.
Rejected ==
    /\ Answered
    /\ \E w \in Artifacts, cs \in CallLists : Pushes(w, Len(cs), <<Assistant(cs), User>>)

\* The calls are run; a fenced call, a hint or an image adds a message, unless
\* the turn was suspended.
CallTools ==
    /\ Answered
    /\ \E start \in Artifacts, cs \in CallLists, more \in NextWord :
          LET w == Ran(start, BeforeAsk(cs))
              results == Results(Len(messages) + 1, cs, w.results)
          IN  /\ Suspends(cs) => more = <<>>
              /\ Pushes(w, Len(cs), <<Assistant(cs)>> \o results \o more)

-----------------------------------------------------------------------------
(* Sessions.                                                               *)

\* build_initial_messages; the panel keeps what it has of the run.
Start ==
    /\ at = "off"
    /\ session < MaxSessions
    /\ session' = session + 1
    /\ at' = "ready"
    /\ messages' = <<User>>
    /\ emitted' = 0
    /\ unseen' = {}
    /\ UNCHANGED <<disk, rows, evicted, counters>>

End ==
    /\ at # "off"
    /\ at' = "off"
    /\ messages' = <<>>
    /\ emitted' = 0
    /\ UNCHANGED <<session, disk, rows, evicted, counters, unseen>>

Next ==
    \/ Start \/ End
    \/ Request
    \/ NoAnswer \/ Prose \/ Rejected \/ CallTools

Spec == Init /\ [][Next]_vars

-----------------------------------------------------------------------------
(* The messages of an Anthropic request (split_system_and_messages).       *)

\* Consecutive results are the blocks of one user message.
AddTurn(ms, turns, i) ==
    LET turn(role, ids) == [role |-> role, from |-> i, ids |-> ids]
    IN  IF ms[i].role # "tool" THEN Append(turns, turn(ms[i].role, <<>>))
        ELSE IF turns # <<>> /\ Last(turns).role = "results"
             THEN Front(turns) \o <<[Last(turns) EXCEPT !.ids = Append(@, ms[i].id)]>>
             ELSE Append(turns, turn("results", <<ms[i].id>>))

Conversation(ms) ==
    LET turns[i \in 0 .. Len(ms)] == IF i = 0 THEN <<>> ELSE AddTurn(ms, turns[i - 1], i)
    IN  turns[Len(ms)]

-----------------------------------------------------------------------------
(* Properties.                                                             *)

Showing(i) == messages[i].role = "tool" /\ messages[i].body.kind = "shown"

PathAt(i) == LET id == messages[i].id IN messages[id[1]].calls[id[2]].path

Stale(i) == Showing(i) /\ messages[i].body.version # disk[PathAt(i)]

\* What the model is asked on shows no file as it no longer is, unless the file
\* was changed by something that is no call on its path, or it had been called
\* to change no later than in the message that read it: deletes and undone
\* writes are seen, and no earlier eviction hides a later one (the two passes
\* of dispatch.rs on what the calls of several turns left).
StaleNeedsLapse ==
    at = "asked" =>
        \A i \in DOMAIN messages : Stale(i) =>
            \/ PathAt(i) \in unseen
            \/ \E j \in Calling(messages, Mutates, PathAt(i)) : j <= Asker(messages, i)

\* Calls on p of the whole session, in the order in which they were made.
NamedLast(i) ==
    \A j \in Calling(messages, {"read", "write", "delete"}, PathAt(i)) : j <= Asker(messages, i)

\* The agent is never blind to what it looked at last: as long as no later
\* message names the path, the result of a read stays in the stack as it was,
\* whatever else was read, written or asked since.
LastReadIsKept ==
    at = "asked" =>
        \A p \in Paths : \A i \in ReadsOf(messages, p) :
            NamedLast(i) => messages[i].body.kind \notin {"superseded", "invalidated"}

\* The calls of a turn that have a result: those up to an ask_user.
Answerable(cs) ==
    LET asks == {k \in DOMAIN cs : cs[k].tool = "ask"}
    IN  1 .. (IF asks = {} THEN Len(cs) ELSE Min(asks))

\* On the wire a batch of results answers the turn before it, no call twice and
\* every call, unless the turn was cut: its artifacts were rejected, so that it
\* has no results, or the call came after an ask_user.
ResultsFollowCalls ==
    at = "asked" =>
        LET turns == Conversation(messages)
        IN  \A i \in DOMAIN turns :
                /\ turns[i].role = "results" =>
                      /\ i > 1 /\ turns[i - 1].role = "assistant"
                      /\ IsInjective(turns[i].ids)
                      /\ ToSet(turns[i].ids) =
                            {<<turns[i - 1].from, k>> : k \in Answerable(messages[turns[i - 1].from].calls)}
                /\ turns[i].role = "assistant" /\ messages[turns[i].from].calls # <<>> =>
                      i < Len(turns) /\ turns[i + 1].role \in {"results", "user"}

\* The panel's transcript is complete: every prompt message of the running
\* session has one row, with what the message said when it was new, and the row
\* of a message that was evicted since is marked (appendOrchestratorLlmRequest,
\* attachContextEvictedListener).
PanelShowsAll ==
    at = "asked" =>
        \A i \in DOMAIN messages \ Positions(messages, "assistant") :
            \E r \in DOMAIN rows :
                /\ \A s \in DOMAIN rows : (rows[s].session = session /\ rows[s].id = i) <=> s = r
                /\ rows[r].body \notin Stubs
                /\ messages[i].body # rows[r].body => messages[i].body \in Stubs /\ i \in evicted

-----------------------------------------------------------------------------
(* Claims of the source that do not hold; the README has each of them.     *)

\* A read whose file was changed since by a call of a later message does not
\* show the old content any more (compaction.rs:254-258: "A `read_file` result
\* for any path mutated later in the session is now misleading ... The rule
\* below scans for these and evicts").
MutatedReadsEvicted ==
    at = "asked" =>
        \A i \in DOMAIN messages : Stale(i) =>
            \/ PathAt(i) \in unseen
            \/ Asker(messages, i) \in Calling(messages, Mutates, PathAt(i))

\* "once a turn evicts, the visual stays" (autoSessionManager.ts:74-75), for the
\* rows of that turn: a row is marked only if its own message was evicted.
MarksAreTrue ==
    at = "asked" =>
        \A r \in DOMAIN rows :
            rows[r].session = session /\ rows[r].id \in evicted => messages[rows[r].id].body \in Stubs

\* "a `read_file` already stubbed by dedup won't be re-evicted here"
\* (compaction.rs:341-342).
StubsStay ==
    [][ session' = session =>
          \A i \in DOMAIN messages \intersect DOMAIN messages' :
              messages[i].role = "tool" /\ messages[i].body \in Stubs => messages'[i] = messages[i] ]_vars
=============================================================================
