--------------------------- MODULE SpecCorpusProofs ---------------------------
(***************************************************************************)
(* Theorems about SpecCorpus, for any processes, peers, versions, drafts   *)
(* and bounds: its type invariant, that a corpus no two ingests worked on  *)
(* is whole and of one ingest, that an index the check finds fresh is of   *)
(* the corpus and of the spec.md that are there, and that the lock admits  *)
(* one writer as long as none grows old.                                   *)
(***************************************************************************)
EXTENDS SpecCorpus, FiniteSetTheorems, TLAPS

-----------------------------------------------------------------------------
(* Fields.                                                                 *)

Sources == Versions \union {Missing}
Texts == Drafts \union {Missing}
TableState == [made : BOOLEAN, of : Sources, md : Texts]
Stamp == [saved : BOOLEAN, of : Sources, md : Texts]
Task == [at : Labels, run : Runs, peers : SUBSET Peers, way : Ways, index : BOOLEAN,
         sha : Sources, of : Sources, next : 1 .. 4, got : TableState]

\* A task, field by field.
TaskOf(at, run, peers, way, idx, sha, of, next, got) ==
    [at |-> at, run |-> run, peers |-> peers, way |-> way, index |-> idx, sha |-> sha,
     of |-> of, next |-> next, got |-> got]

ProcType == proc \in [Procs -> Task]

\* What a step that sets some fields of a task makes of it.
LEMMA ProcAt ==
    ASSUME ProcType, NEW p \in Procs, NEW x
    PROVE  [proc EXCEPT ![p].at = x]
              = [proc EXCEPT ![p] =
                    TaskOf(x, proc[p].run, proc[p].peers, proc[p].way, proc[p].index,
                           proc[p].sha, proc[p].of, proc[p].next, proc[p].got)]
<1> DEFINE a == proc[p]
           b == TaskOf(x, a.run, a.peers, a.way, a.index, a.sha, a.of, a.next, a.got)
<1>1. [proc EXCEPT ![p].at = x] = [proc EXCEPT ![p] = [a EXCEPT !.at = x]]
  BY DEF ProcType
<1>2. [a EXCEPT !.at = x] = b
  BY DEF ProcType, Task, TaskOf
<1>3. QED
  BY <1>1, <1>2, Zenon

LEMMA ProcAtOf ==
    ASSUME ProcType, NEW p \in Procs, NEW x, NEW y
    PROVE  [proc EXCEPT ![p].at = x, ![p].of = y]
              = [proc EXCEPT ![p] =
                    TaskOf(x, proc[p].run, proc[p].peers, proc[p].way, proc[p].index,
                           proc[p].sha, y, proc[p].next, proc[p].got)]
<1> DEFINE a == proc[p]
           b == TaskOf(x, a.run, a.peers, a.way, a.index, a.sha, a.of, a.next, a.got)
           c == TaskOf(x, a.run, a.peers, a.way, a.index, a.sha, y, a.next, a.got)
<1>1. [proc EXCEPT ![p].at = x, ![p].of = y] = [proc EXCEPT ![p] = [a EXCEPT !.at = x, !.of = y]]
  BY DEF ProcType
<1>2. [a EXCEPT !.at = x] = b
  BY DEF ProcType, Task, TaskOf
<1>3. [a EXCEPT !.at = x, !.of = y] = [b EXCEPT !.of = y]
  BY <1>2, Zenon
<1>4. [b EXCEPT !.of = y] = c
  BY DEF TaskOf
<1>5. [a EXCEPT !.at = x, !.of = y] = c
  BY <1>3, <1>4, Zenon
<1>6. QED
  BY <1>1, <1>5, Zenon

LEMMA ProcAtNext ==
    ASSUME ProcType, NEW p \in Procs, NEW x, NEW y
    PROVE  [proc EXCEPT ![p].at = x, ![p].next = y]
              = [proc EXCEPT ![p] =
                    TaskOf(x, proc[p].run, proc[p].peers, proc[p].way, proc[p].index,
                           proc[p].sha, proc[p].of, y, proc[p].got)]
<1> DEFINE a == proc[p]
           b == TaskOf(x, a.run, a.peers, a.way, a.index, a.sha, a.of, a.next, a.got)
           c == TaskOf(x, a.run, a.peers, a.way, a.index, a.sha, a.of, y, a.got)
<1>1. [proc EXCEPT ![p].at = x, ![p].next = y] = [proc EXCEPT ![p] = [a EXCEPT !.at = x, !.next = y]]
  BY DEF ProcType
<1>2. [a EXCEPT !.at = x] = b
  BY DEF ProcType, Task, TaskOf
<1>3. [a EXCEPT !.at = x, !.next = y] = [b EXCEPT !.next = y]
  BY <1>2, Zenon
<1>4. [b EXCEPT !.next = y] = c
  BY DEF TaskOf
<1>5. [a EXCEPT !.at = x, !.next = y] = c
  BY <1>3, <1>4, Zenon
<1>6. QED
  BY <1>1, <1>5, Zenon

LEMMA ProcAtGot ==
    ASSUME ProcType, NEW p \in Procs, NEW x, NEW y
    PROVE  [proc EXCEPT ![p].at = x, ![p].got = y]
              = [proc EXCEPT ![p] =
                    TaskOf(x, proc[p].run, proc[p].peers, proc[p].way, proc[p].index,
                           proc[p].sha, proc[p].of, proc[p].next, y)]
<1> DEFINE a == proc[p]
           b == TaskOf(x, a.run, a.peers, a.way, a.index, a.sha, a.of, a.next, a.got)
           c == TaskOf(x, a.run, a.peers, a.way, a.index, a.sha, a.of, a.next, y)
<1>1. [proc EXCEPT ![p].at = x, ![p].got = y] = [proc EXCEPT ![p] = [a EXCEPT !.at = x, !.got = y]]
  BY DEF ProcType
<1>2. [a EXCEPT !.at = x] = b
  BY DEF ProcType, Task, TaskOf
<1>3. [a EXCEPT !.at = x, !.got = y] = [b EXCEPT !.got = y]
  BY <1>2, Zenon
<1>4. [b EXCEPT !.got = y] = c
  BY DEF TaskOf
<1>5. [a EXCEPT !.at = x, !.got = y] = c
  BY <1>3, <1>4, Zenon
<1>6. QED
  BY <1>1, <1>5, Zenon

\* A table has been put: on to the next one.
LEMMA ProcPut ==
    ASSUME ProcType, NEW p \in Procs, NEW x
    PROVE  [proc EXCEPT ![p].at = x, ![p].next = @ + 1, ![p].got = NoTable]
              = [proc EXCEPT ![p] =
                    TaskOf(x, proc[p].run, proc[p].peers, proc[p].way, proc[p].index,
                           proc[p].sha, proc[p].of, proc[p].next + 1, NoTable)]
<1> DEFINE a == proc[p]
           y == a.next + 1
           b == TaskOf(x, a.run, a.peers, a.way, a.index, a.sha, a.of, a.next, a.got)
           c == TaskOf(x, a.run, a.peers, a.way, a.index, a.sha, a.of, y, a.got)
           d == TaskOf(x, a.run, a.peers, a.way, a.index, a.sha, a.of, y, NoTable)
<1>1. [proc EXCEPT ![p].at = x, ![p].next = @ + 1, ![p].got = NoTable]
         = [proc EXCEPT ![p] = [a EXCEPT !.at = x, !.next = y, !.got = NoTable]]
  BY DEF ProcType
<1>2. [a EXCEPT !.at = x] = b
  BY DEF ProcType, Task, TaskOf
<1>3. [a EXCEPT !.at = x, !.next = y] = [b EXCEPT !.next = y]
  BY <1>2, Zenon
<1>4. [b EXCEPT !.next = y] = c
  BY DEF TaskOf
<1>5. [a EXCEPT !.at = x, !.next = y] = c
  BY <1>3, <1>4, Zenon
<1>6. [a EXCEPT !.at = x, !.next = y, !.got = NoTable] = [c EXCEPT !.got = NoTable]
  BY <1>5, Zenon
<1>7. [c EXCEPT !.got = NoTable] = d
  BY DEF TaskOf
<1>8. [a EXCEPT !.at = x, !.next = y, !.got = NoTable] = d
  BY <1>6, <1>7, Zenon
<1>9. QED
  BY <1>1, <1>8, Zenon

LEMMA IdleTask == Idle \in Task
BY CorpusAssumption DEF Idle, Task, Labels, Runs, Ways, Sources, Texts, TableState, NoTable

-----------------------------------------------------------------------------
(* The invariant of the corpus.                                            *)

Ingests(p) == proc[p].at \in Ingesting
IsQuiet(p) == Ingests(p) /\ proc[p].run \in quiet

\* Every run has a number of its own.
RunsInv ==
    /\ \A p \in Procs : Ingests(p) => proc[p].run <= runs
    /\ \A p, q \in Procs : Ingests(p) /\ Ingests(q) /\ proc[p].run = proc[q].run => p = q
    /\ \A f \in tmp \union live : f.run <= runs
    /\ \A r \in quiet : r <= runs

\* An ingest that is quiet still is the only one.
AloneInv == \A p, q \in Procs : IsQuiet(p) /\ Ingests(q) => p = q

\* A directory has one file of each name.
NamesInv ==
    /\ \A f, g \in tmp : f.part = g.part => f = g
    /\ \A f, g \in live : f.part = g.part => f = g

\* The source has not changed under a quiet ingest.
SourceInv ==
    \A p \in Procs : IsQuiet(p) =>
        /\ proc[p].at # "load" => proc[p].of = src
        /\ proc[p].way = "described" => proc[p].sha = src

\* A directory of one run, of one source.
Uniform(dir, run, of) == \A f \in dir : f.run = run /\ (f.part # "root" => f.of = of)

Filling == {"write", "remove", "rename"}

\* The directory that an ingest fills: a file in it that is not its own is of a
\* run that was disturbed; it is all that a quiet one has made so far.
TmpAt(p) ==
    proc[p].at \in Filling =>
        /\ \A f \in tmp : f.run = proc[p].run \/ f.run \notin quiet
        /\ proc[p].run \in quiet =>
              /\ Uniform(tmp, proc[p].run, proc[p].of)
              /\ (proc[p].at # "write" \/ proc[p].next > 1) => Has(tmp, "primary")
              /\ proc[p].at # "write" => Has(tmp, "manifest")

TmpInv == \A p \in Procs : TmpAt(p)

\* What a quiet ingest has put in place waits for its descriptor.
CacheAt(p) ==
    IsQuiet(p) /\ proc[p].at = "cache" =>
        /\ Uniform(live, proc[p].run, src)
        /\ Has(live, "primary") /\ Has(live, "manifest")

CacheInv == \A p \in Procs : CacheAt(p)

\* What each task has by the time it is where it is.
TaskOk(a) ==
    /\ a.at = "write" => a.next \in 1 .. 3
    /\ a.at \in {"read", "drop", "put"} => a.next \in 1 .. 2
    /\ a.at \in {"manifest", "embedder"} => a.next = 3
    /\ a.at \in Ingesting \ {"load"} => a.of \in Versions
    /\ a.at \in Ingesting /\ a.way = "described" => a.sha \in Versions
    /\ a.at = "cache" => a.way = "described"

TasksOk == \A p \in Procs : TaskOk(proc[p])

CorpusInv ==
    RunsInv /\ AloneInv /\ NamesInv /\ SourceInv /\ TmpInv /\ CacheInv /\ CorpusOfOneIngest

-----------------------------------------------------------------------------
(* The invariant of the index.                                             *)

\* As long as nothing happened under the build, one process writes, and none
\* when the last build has come to its end.
WritersInv ==
    "raced" \notin doubt =>
        /\ \A p, q \in Writers : p = q
        /\ "unfinished" \notin doubt => Writers = {}

\* The corpus has a manifest that says what its text is of, and that is v.
IsOf(v) ==
    /\ Has(live, "primary") /\ Get(live, "primary").of = v
    /\ Has(live, "manifest") /\ Get(live, "manifest").of = v

\* What a writer has read so far is what is on disk now.
WriterAt(p) ==
    proc[p].at \in Writing /\ "raced" \notin doubt =>
        /\ proc[p].next = 1 /\ proc[p].at # "read" => IsOf(proc[p].got.of)
        /\ proc[p].next > 1 => IsOf(index.tables["spec_chunks"].of)
        /\ proc[p].next = 2 /\ proc[p].at # "read" => proc[p].got.md = md
        /\ proc[p].next = 3 => index.tables["signal_table_rows"].md = md
        /\ proc[p].at = "embedder" => index.stamp.of = RecordedSha /\ index.stamp.md = md

WriterInv == \A p \in Procs : WriterAt(p)

\* The hashes that a finished build has saved are those of its tables.
BuiltInv ==
    doubt = {} =>
        /\ index.stamp.of = index.tables["spec_chunks"].of
        /\ index.stamp.md = index.tables["signal_table_rows"].md

IndexInv == WritersInv /\ WriterInv /\ BuiltInv

Inv == TypeOK /\ TasksOk /\ CorpusInv /\ IndexInv

-----------------------------------------------------------------------------
(* Types.                                                                  *)

Index == [tables : [Table -> TableState], stamp : Stamp, embedder : BOOLEAN]

LEMMA Types ==
    ASSUME TypeOK
    PROVE  /\ src \in Versions /\ md \in Texts
           /\ tmp \subseteq File /\ live \subseteq File
           /\ lock \in [held : BOOLEAN, old : BOOLEAN]
           /\ index \in Index
           /\ ProcType
           /\ runs \in Runs /\ changes \in 0 .. MaxChanges
           /\ quiet \subseteq Runs /\ doubt \subseteq {"unfinished", "raced"}
BY DEF TypeOK, Texts, Index, TableState, Stamp, Sources, ProcType, Task

LEMMA TypesTogether ==
    ASSUME src' \in Versions, md' \in Texts, tmp' \subseteq File, live' \subseteq File,
           lock' \in [held : BOOLEAN, old : BOOLEAN],
           index' \in Index, proc' \in [Procs -> Task],
           runs' \in Runs, changes' \in 0 .. MaxChanges,
           quiet' \subseteq Runs, doubt' \subseteq {"unfinished", "raced"}
    PROVE  TypeOK'
BY DEF TypeOK, Texts, Index, TableState, Stamp, Sources, Task

\* One process moves.
Moves(p, c) == c \in Task /\ TaskOk(c) /\ proc' = [proc EXCEPT ![p] = c]

LEMMA Moved ==
    ASSUME TypeOK, TasksOk, NEW p \in Procs, NEW c, Moves(p, c)
    PROVE  /\ proc' \in [Procs -> Task]
           /\ TasksOk'
           /\ proc'[p] = c
           /\ \A q \in Procs : q # p => proc'[q] = proc[q]
<1>1. /\ proc \in [Procs -> Task] /\ c \in Task /\ TaskOk(c)
      /\ proc' = [proc EXCEPT ![p] = c]
  BY Types DEF ProcType, Moves
<1>2. /\ proc' \in [Procs -> Task] /\ proc'[p] = c
      /\ \A q \in Procs : q # p => proc'[q] = proc[q]
  BY <1>1
<1>3. \A q \in Procs : TaskOk(proc'[q])
  BY <1>1, <1>2 DEF TasksOk
<1>4. QED
  BY <1>2, <1>3 DEF TasksOk, TaskOk

LEMMA IdleOk == TaskOk(Idle) /\ Idle.at = "idle"
BY DEF TaskOk, Idle, Ingesting

\* A command that is over, by whatever way.
LEMMA EndsMoves == ASSUME NEW p \in Procs, Ends(p) PROVE Moves(p, Idle)
BY IdleTask, IdleOk DEF Ends, Moves

-----------------------------------------------------------------------------
(* Files.                                                                  *)

LEMMA RunsType == Runs \subseteq Nat /\ 1 \in Runs
BY CorpusAssumption DEF Runs

LEMMA FileFacts ==
    ASSUME NEW f \in File
    PROVE  /\ f.run \in Runs
           /\ f.part \in {"primary", "peers", "manifest", "format", "root"}
           /\ f.part # "root" => f.of \in Versions
BY DEF File

LEMMA RootFile == ASSUME NEW r \in Runs PROVE Root(r) \in File
BY DEF Root, File

LEMMA PutFiles ==
    ASSUME NEW dir, dir \subseteq File, NEW file \in File, file.part # "root"
    PROVE  /\ Put(dir, file) \subseteq File
           /\ file \in Put(dir, file)
           /\ \A f \in Put(dir, file) :
                 \/ f = file
                 \/ f \in dir /\ f.part # file.part
                 \/ f = Root(file.run) /\ ~Has(dir, "root")
           /\ \A f \in dir : f.part # file.part => f \in Put(dir, file)
BY FileFacts, RootFile DEF Put

\* Names stay unique.
LEMMA PutNames ==
    ASSUME NEW dir, dir \subseteq File, NEW file \in File, file.part # "root",
           \A f, g \in dir : f.part = g.part => f = g
    PROVE  \A f, g \in Put(dir, file) : f.part = g.part => f = g
<1> SUFFICES ASSUME NEW f \in Put(dir, file), NEW g \in Put(dir, file), f.part = g.part
             PROVE  f = g
  OBVIOUS
<1>1. Root(file.run).part = "root"
  BY DEF Root
<1>2. QED
  BY <1>1, PutFiles DEF Has

LEMMA GetFacts ==
    ASSUME NEW dir, NEW part, Has(dir, part)
    PROVE  Get(dir, part) \in dir /\ Get(dir, part).part = part
BY DEF Has, Get

LEMMA GetIs ==
    ASSUME NEW dir, NEW f \in dir, \A g, h \in dir : g.part = h.part => g = h
    PROVE  Has(dir, f.part) /\ Get(dir, f.part) = f
BY GetFacts DEF Has

-----------------------------------------------------------------------------
(* What keeps the invariant of the corpus.                                 *)

LEMMA NumbersType ==
    ASSUME TypeOK
    PROVE  /\ runs \in Nat
           /\ \A p \in Procs : proc[p].run \in Nat
           /\ \A f \in tmp \union live : f.run \in Nat
           /\ \A r \in quiet : r \in Nat
<1>1. runs \in Nat /\ \A r \in quiet : r \in Nat
  BY Types, RunsType
<1>2. \A p \in Procs : proc[p].run \in Runs
  BY Types DEF ProcType, Task
<1>3. \A f \in tmp \union live : f.run \in Runs
  BY Types, FileFacts
<1>4. QED
  BY <1>1, <1>2, <1>3, RunsType

\* A step of which the ingests know nothing, or by which one gives up before it
\* removes anything.
LEMMA CorpusIdle ==
    ASSUME TypeOK, CorpusInv, src' = src, tmp' = tmp, live' = live, quiet' = quiet,
           runs' \in Nat, runs <= runs',
           \A q \in Procs : \/ proc'[q] = proc[q]
                            \/ proc[q].at # "remove" /\ proc'[q].at \notin Ingesting
    PROVE  CorpusInv'
<1>1. \A q \in Procs : Ingests(q)' => Ingests(q) /\ proc'[q] = proc[q]
  BY DEF Ingests
<1>2. RunsInv'
  BY <1>1, NumbersType DEF CorpusInv, RunsInv
<1>3. AloneInv' /\ SourceInv'
  BY <1>1 DEF CorpusInv, AloneInv, SourceInv, IsQuiet
<1>4. NamesInv'
  BY DEF CorpusInv, NamesInv
<1>5. Filling \subseteq Ingesting /\ "cache" \in Ingesting
  BY DEF Filling, Ingesting
<1>6. TmpInv'
  BY <1>1, <1>5 DEF CorpusInv, TmpInv, TmpAt, Uniform, Has, Ingests
<1>7. CacheInv'
  BY <1>1 DEF CorpusInv, CacheInv, CacheAt, IsQuiet, Uniform, Has
<1>8. CorpusOfOneIngest'
  <2>1. Undisturbed' => Undisturbed
    BY DEF Undisturbed
  <2>2. QED
    BY <2>1 DEF CorpusInv, CorpusOfOneIngest, Has
<1>9. QED
  BY <1>2, <1>3, <1>4, <1>6, <1>7, <1>8 DEF CorpusInv

\* A step of an ingest: what is left to show is about this process.
LEMMA IngestMove ==
    ASSUME TypeOK, CorpusInv, NEW p \in Procs, Ingests(p),
           \A q \in Procs : q # p => proc'[q] = proc[q],
           proc'[p].at \in Ingesting =>
              /\ proc'[p].run = proc[p].run /\ proc'[p].way = proc[p].way
              /\ proc'[p].sha = proc[p].sha
              /\ proc'[p].of = src \/ (proc'[p].of = proc[p].of /\ proc[p].at # "load"),
           src' = src, quiet' = quiet, runs' = runs,
           \A f \in tmp' : f \in tmp \/ f.run = proc[p].run,
           \A f \in live' : f \in live \union tmp \/ f.run = proc[p].run,
           NamesInv', TmpAt(p)', CacheAt(p)', CorpusOfOneIngest'
    PROVE  CorpusInv'
<1>1. /\ \A q \in Procs : Ingests(q)' => Ingests(q) /\ proc'[q].run = proc[q].run
      /\ \A q \in Procs : IsQuiet(q)' => IsQuiet(q)
  BY DEF Ingests, IsQuiet
<1>2. \A q \in Procs : q # p /\ Ingests(q) => proc[q].run \notin quiet /\ proc[p].run \notin quiet
  BY DEF CorpusInv, AloneInv, IsQuiet
<1>3. RunsInv'
  BY <1>1 DEF CorpusInv, RunsInv
<1>4. AloneInv'
  BY <1>1 DEF CorpusInv, AloneInv
<1>5. SourceInv'
  <2> SUFFICES ASSUME NEW q \in Procs, IsQuiet(q)'
               PROVE  /\ proc'[q].at # "load" => proc'[q].of = src
                      /\ proc'[q].way = "described" => proc'[q].sha = src
    BY DEF SourceInv
  <2>1. IsQuiet(q)
    BY <1>1
  <2>2. CASE q = p
    BY <2>1, <2>2 DEF CorpusInv, SourceInv, IsQuiet, Ingests
  <2>3. CASE q # p
    BY <2>1, <2>3 DEF CorpusInv, SourceInv
  <2>4. QED
    BY <2>2, <2>3
<1>6. Filling \subseteq Ingesting
  BY DEF Filling, Ingesting
<1>7. TmpInv'
  <2> SUFFICES ASSUME NEW q \in Procs, q # p PROVE TmpAt(q)'
    BY DEF TmpInv
  <2>1. CASE proc[q].at \in Filling
    BY <1>2, <1>6, <2>1 DEF CorpusInv, TmpInv, TmpAt, Ingests
  <2>2. CASE proc[q].at \notin Filling
    BY <2>2 DEF TmpAt
  <2>3. QED
    BY <2>1, <2>2
<1>8. CacheInv'
  <2> SUFFICES ASSUME NEW q \in Procs, q # p PROVE CacheAt(q)'
    BY DEF CacheInv
  <2>1. ~IsQuiet(q)'
    BY <1>1, <1>2 DEF IsQuiet
  <2>2. QED
    BY <2>1 DEF CacheAt
<1>9. QED
  BY <1>3, <1>4, <1>5, <1>7, <1>8 DEF CorpusInv

\* A step by which ingests are disturbed.
LEMMA CorpusDisturbed ==
    ASSUME TypeOK, CorpusInv, NEW R, quiet' = quiet \ R, tmp' = tmp, live' = live, runs' = runs,
           \A q \in Procs : proc'[q] = proc[q] \/ proc'[q].at \notin Ingesting,
           src' = src \/ \A q \in Procs : Ingests(q) => proc[q].run \in R,
           Undisturbed' => Undisturbed \/ live = {}
    PROVE  CorpusInv'
<1>1. /\ \A q \in Procs : Ingests(q)' => Ingests(q) /\ proc'[q] = proc[q]
      /\ \A q \in Procs : IsQuiet(q)' => IsQuiet(q) /\ src' = src
  BY DEF Ingests, IsQuiet
<1>2. RunsInv'
  BY <1>1 DEF CorpusInv, RunsInv
<1>3. AloneInv' /\ SourceInv'
  BY <1>1 DEF CorpusInv, AloneInv, SourceInv, IsQuiet, Ingests
<1>4. NamesInv'
  BY DEF CorpusInv, NamesInv
<1>5. Filling \subseteq Ingesting
  BY DEF Filling, Ingesting
<1>6. TmpInv'
  BY <1>1, <1>5 DEF CorpusInv, TmpInv, TmpAt, Uniform, Has, Ingests
<1>7. CacheInv'
  BY <1>1 DEF CorpusInv, CacheInv, CacheAt, IsQuiet, Ingests, Uniform, Has
<1>8. CorpusOfOneIngest'
  BY DEF CorpusInv, CorpusOfOneIngest, Has
<1>9. QED
  BY <1>2, <1>3, <1>4, <1>6, <1>7, <1>8 DEF CorpusInv

-----------------------------------------------------------------------------
(* What keeps the invariant of the index.                                  *)

\* What a build has read of the corpus is there still.
LiveKept ==
    /\ RecordedSha' = RecordedSha
    /\ \A v : IsOf(v) => IsOf(v)'

LEMMA SameLive == ASSUME live' = live PROVE LiveKept
BY DEF LiveKept, RecordedSha, IsOf, Has, Get

\* The files that a build reads stay.
LEMMA SameParts ==
    ASSUME NamesInv, NamesInv',
           \A f \in live : f.part \in {"primary", "manifest"} => f \in live',
           \A f \in live' : f.part \in {"primary", "manifest"} => f \in live
    PROVE  LiveKept
<1>1. ASSUME NEW part \in {"primary", "manifest"}
      PROVE  /\ Has(live, part) <=> Has(live, part)'
             /\ Has(live, part) => Get(live, part)' = Get(live, part)
  <2>1. Has(live, part) <=> Has(live, part)'
    BY <1>1 DEF Has
  <2>2. ASSUME Has(live, part) PROVE Get(live, part)' = Get(live, part)
    <3>1. Get(live, part) \in live /\ Get(live, part).part = part
      BY <2>2, GetFacts
    <3>2. Get(live', part) \in live' /\ Get(live', part).part = part
      BY <2>1, <2>2, GetFacts DEF Has
    <3>3. Get(live, part) \in live'
      BY <1>1, <3>1
    <3>4. Get(live, part) = Get(live', part)
      BY <3>1, <3>2, <3>3 DEF NamesInv
    <3>5. QED
      BY <3>4 DEF Get
  <2>3. QED
    BY <2>1, <2>2
<1>2. RecordedSha' = RecordedSha
  BY <1>1 DEF RecordedSha
<1>3. \A v : IsOf(v) => IsOf(v)'
  BY <1>1 DEF IsOf
<1>4. QED
  BY <1>2, <1>3 DEF LiveKept

\* A step that writes nothing to the index, and under which no build runs, or
\* what it read stays, or that is noted.
LEMMA IndexIdle ==
    ASSUME TypeOK, IndexInv, index' = index, doubt \subseteq doubt',
           \A q \in Procs : proc'[q] = proc[q] \/ proc'[q].at \notin Writing,
           "raced" \in doubt' \/ Writers = {} \/ (md' = md /\ LiveKept)
    PROVE  IndexInv'
<1>1. \A q \in Procs : proc'[q].at \in Writing => proc'[q] = proc[q] /\ q \in Writers
  BY DEF Writers
<1>2. Writers' \subseteq Writers
  BY <1>1 DEF Writers
<1>3. WritersInv'
  BY <1>2 DEF IndexInv, WritersInv
<1>4. WriterInv'
  <2> SUFFICES ASSUME NEW q \in Procs, proc'[q].at \in Writing, "raced" \notin doubt'
               PROVE  WriterAt(q)'
    BY DEF WriterInv, WriterAt
  <2>1. proc'[q] = proc[q] /\ md' = md /\ LiveKept /\ "raced" \notin doubt
    BY <1>1
  <2>2. WriterAt(q)
    BY DEF IndexInv, WriterInv
  <2>3. QED
    BY <2>1, <2>2 DEF WriterAt, LiveKept
<1>5. BuiltInv'
  BY DEF IndexInv, BuiltInv
<1>6. QED
  BY <1>3, <1>4, <1>5 DEF IndexInv

\* A step of a build.
LEMMA BuildMove ==
    ASSUME TypeOK, IndexInv, NEW p \in Procs, proc[p].at \in Writing, proc'[p].at \in Writing,
           \A q \in Procs : q # p => proc'[q] = proc[q],
           doubt \subseteq doubt',
           WriterAt(p)'
    PROVE  IndexInv'
<1>1. Writers' = Writers /\ p \in Writers
  BY DEF Writers
<1>2. WritersInv'
  BY <1>1 DEF IndexInv, WritersInv
<1>3. WriterInv'
  <2> SUFFICES ASSUME NEW q \in Procs, q # p PROVE WriterAt(q)'
    BY DEF WriterInv
  <2>1. proc'[q].at \in Writing => q \in Writers
    BY DEF Writers
  <2>2. QED
    BY <1>1, <2>1 DEF WriterAt, IndexInv, WritersInv
<1>4. doubt' # {}
  BY <1>1 DEF IndexInv, WritersInv
<1>5. QED
  BY <1>2, <1>3, <1>4 DEF IndexInv, BuiltInv

-----------------------------------------------------------------------------
(* Ingest.                                                                 *)

LEMMA TaskTyped ==
    ASSUME NEW a \in Labels, NEW r \in Runs, NEW peers \in SUBSET Peers, NEW way \in Ways,
           NEW idx \in BOOLEAN, NEW sha \in Sources, NEW of \in Sources, NEW n \in 1 .. 4,
           NEW got \in TableState
    PROVE  TaskOf(a, r, peers, way, idx, sha, of, n, got) \in Task
BY DEF TaskOf, Task

LEMMA NoTableTyped == NoTable \in TableState
BY DEF NoTable, TableState, Sources, Texts

LEMMA StartTask ==
    ASSUME NEW run, NEW peers, NEW way, NEW idx, NEW sha
    PROVE  [Idle EXCEPT !.at = "load", !.run = run, !.peers = peers, !.way = way,
                        !.index = idx, !.sha = sha]
              = TaskOf("load", run, peers, way, idx, sha, Missing, 1, NoTable)
<1> DEFINE no == FALSE
<1> DEFINE a == TaskOf("idle", 1, {}, "heuristic", no, Missing, Missing, 1, NoTable)
           b == TaskOf("load", 1, {}, "heuristic", no, Missing, Missing, 1, NoTable)
           c == TaskOf("load", run, {}, "heuristic", no, Missing, Missing, 1, NoTable)
           d == TaskOf("load", run, peers, "heuristic", no, Missing, Missing, 1, NoTable)
           e == TaskOf("load", run, peers, way, no, Missing, Missing, 1, NoTable)
           f == TaskOf("load", run, peers, way, idx, Missing, Missing, 1, NoTable)
           g == TaskOf("load", run, peers, way, idx, sha, Missing, 1, NoTable)
<1>1. Idle = a
  BY DEF Idle, TaskOf
<1> HIDE DEF no
<1>2. [a EXCEPT !.at = "load"] = b
  BY DEF TaskOf
<1>3. [b EXCEPT !.run = run] = c
  BY DEF TaskOf
<1>4. [c EXCEPT !.peers = peers] = d
  BY DEF TaskOf
<1>5. [d EXCEPT !.way = way] = e
  BY DEF TaskOf
<1>6. [e EXCEPT !.index = idx] = f
  BY DEF TaskOf
<1>7. [f EXCEPT !.sha = sha] = g
  BY DEF TaskOf
<1>8. [Idle EXCEPT !.at = "load"] = b
  BY <1>1, <1>2, Zenon
<1>9. [Idle EXCEPT !.at = "load", !.run = run] = c
  BY <1>8, <1>3, Zenon
<1>10. [Idle EXCEPT !.at = "load", !.run = run, !.peers = peers] = d
  BY <1>9, <1>4, Zenon
<1>11. [Idle EXCEPT !.at = "load", !.run = run, !.peers = peers, !.way = way] = e
  BY <1>10, <1>5, Zenon
<1>12. [Idle EXCEPT !.at = "load", !.run = run, !.peers = peers, !.way = way, !.index = idx] = f
  BY <1>11, <1>6, Zenon
<1>13. [Idle EXCEPT !.at = "load", !.run = run, !.peers = peers, !.way = way, !.index = idx, !.sha = sha] = g
  BY <1>12, <1>7, Zenon
<1>14. QED
  BY <1>13 DEF no

LEMMA BeginTask ==
    ASSUME NEW x, NEW run
    PROVE  [Idle EXCEPT !.at = x, !.run = run]
              = TaskOf(x, run, {}, "heuristic", FALSE, Missing, Missing, 1, NoTable)
<1> DEFINE no == FALSE
<1> DEFINE a == TaskOf("idle", 1, {}, "heuristic", no, Missing, Missing, 1, NoTable)
           b == TaskOf(x, 1, {}, "heuristic", no, Missing, Missing, 1, NoTable)
           c == TaskOf(x, run, {}, "heuristic", no, Missing, Missing, 1, NoTable)
<1>1. Idle = a
  BY DEF Idle, TaskOf
<1> HIDE DEF no
<1>2. [a EXCEPT !.at = x] = b
  BY DEF TaskOf
<1>3. [b EXCEPT !.run = run] = c
  BY DEF TaskOf
<1>4. [Idle EXCEPT !.at = x] = b
  BY <1>1, <1>2, Zenon
<1>5. [Idle EXCEPT !.at = x, !.run = run] = c
  BY <1>4, <1>3, Zenon
<1>6. QED
  BY <1>5 DEF no

\* The parts of the invariant.
LEMMA InvParts ==
    ASSUME Inv
    PROVE  TypeOK /\ TasksOk /\ CorpusInv /\ IndexInv
BY DEF Inv

\* A process begins a task: the others stay where they are.
LEMMA StartsStep ==
    ASSUME Inv, NEW p \in Procs, NEW peers \in SUBSET Peers, NEW way \in Ways,
           NEW idx \in BOOLEAN, Starts(p, peers, way, idx)
    PROVE  Inv'
<1> DEFINE r == runs + 1
           sha == IF way = "described" THEN src ELSE Missing
           c == TaskOf("load", r, peers, way, idx, sha, Missing, 1, NoTable)
<1>1. /\ proc[p].at = "idle" /\ runs < MaxRuns /\ runs' = r
      /\ proc' = [proc EXCEPT ![p] =
                     [Idle EXCEPT !.at = "load", !.run = r, !.peers = peers, !.way = way,
                                  !.index = idx, !.sha = sha]]
      /\ quiet' = IF Beside(p) = {} THEN quiet \union {r}
                  ELSE quiet \ {proc[q].run : q \in Beside(p)}
      /\ src' = src /\ md' = md /\ tmp' = tmp /\ live' = live /\ lock' = lock
      /\ index' = index /\ doubt' = doubt /\ changes' = changes
  BY Zenon DEF Starts, Begins
<1>2. TypeOK /\ TasksOk /\ CorpusInv /\ IndexInv
  BY InvParts
<1>3. r \in Runs /\ runs \in Nat /\ runs' \in Nat /\ runs < r
  BY <1>1, <1>2, NumbersType, CorpusAssumption DEF Runs
<1>4. c \in Task
  <2>1. "load" \in Labels /\ Missing \in Sources /\ sha \in Sources /\ 1 \in 1 .. 4
    BY <1>2, Types DEF Labels, Ingesting, Sources
  <2>2. QED
    BY <1>3, <2>1, NoTableTyped, TaskTyped
<1>5. c.at = "load" /\ c.run = r /\ c.way = way /\ c.sha = sha
  BY DEF TaskOf
<1>6. sha = src \/ way # "described"
  OBVIOUS
<1>7. src \in Versions
  BY <1>2, Types
<1> HIDE DEF sha
<1>8. proc' = [proc EXCEPT ![p] = c]
  <2>1. [Idle EXCEPT !.at = "load", !.run = r, !.peers = peers, !.way = way,
                     !.index = idx, !.sha = sha] = c
    BY StartTask, Zenon
  <2>2. QED
    BY <1>1, <2>1
<1> HIDE DEF c
<1>9. Moves(p, c)
  BY <1>4, <1>5, <1>6, <1>7, <1>8 DEF Moves, TaskOk
<1>10. /\ proc' \in [Procs -> Task] /\ TasksOk' /\ proc'[p] = c
       /\ \A q \in Procs : q # p => proc'[q] = proc[q]
  BY <1>2, <1>9, Moved
<1>11. TypeOK'
  <2>1. quiet' \subseteq Runs
    BY <1>1, <1>2, <1>3, Types
  <2>2. QED
    BY <1>1, <1>2, <1>3, <1>10, <2>1, Types, TypesTogether
<1>12. CorpusInv'
  <2>1. ~Ingests(p) /\ Ingests(p)'
    BY <1>1, <1>5, <1>10 DEF Ingests, Ingesting
  <2>2. \A q \in Procs : q # p => (Ingests(q)' <=> Ingests(q)) /\ (Ingests(q) => q \in Beside(p))
    BY <1>10 DEF Ingests, Beside
  <2>3. \A q \in Procs : q # p => ~IsQuiet(q)'
    BY <1>1, <1>10, <2>2 DEF IsQuiet
  <2>4. IsQuiet(p)' => Beside(p) = {}
    BY <1>1, <1>2, <1>3, <1>5, <1>10 DEF IsQuiet, CorpusInv, RunsInv
  <2>5. \A s \in quiet' : s \in quiet \/ s = r
    BY <1>1
  <2>6. \A s \in quiet' : s <= r
    BY <1>2, <1>3, <2>5, NumbersType DEF CorpusInv, RunsInv
  <2>7. RunsInv'
    <3>1. \A q \in Procs : q # p /\ Ingests(q) => proc[q].run <= runs /\ proc[q].run # r
      BY <1>2, <1>3, NumbersType DEF CorpusInv, RunsInv
    <3>2. \A q \in Procs : Ingests(q)' => proc'[q].run <= r
      BY <1>2, <1>3, <1>5, <1>10, <2>2, <3>1, NumbersType
    <3>3. ASSUME NEW q \in Procs, NEW v \in Procs, Ingests(q)', Ingests(v)',
                 proc'[q].run = proc'[v].run
          PROVE  q = v
      BY <1>2, <1>5, <1>10, <2>2, <3>1, <3>3 DEF CorpusInv, RunsInv
    <3>4. \A f \in tmp \union live : f.run <= r
      BY <1>2, <1>3, NumbersType DEF CorpusInv, RunsInv
    <3>5. QED
      BY <1>1, <2>6, <3>2, <3>3, <3>4 DEF RunsInv
  <2>8. AloneInv'
    BY <2>2, <2>3, <2>4 DEF AloneInv
  <2>9. NamesInv'
    BY <1>1, <1>2 DEF CorpusInv, NamesInv
  <2>10. SourceInv'
    BY <1>1, <1>5, <1>6, <1>10, <2>3 DEF SourceInv
  <2>11. TmpInv'
    <3> SUFFICES ASSUME NEW q \in Procs, proc'[q].at \in Filling PROVE TmpAt(q)'
      BY DEF TmpInv, TmpAt
    <3>1. q # p /\ proc'[q] = proc[q] /\ Ingests(q)
      BY <1>5, <1>10 DEF Filling, Ingests, Ingesting
    <3>2. Beside(p) # {} /\ quiet' \subseteq quiet /\ proc[q].run \notin quiet'
      BY <1>1, <2>2, <3>1
    <3>3. \A f \in tmp : f.run = proc[q].run \/ f.run \notin quiet
      BY <1>2, <3>1 DEF CorpusInv, TmpInv, TmpAt
    <3>4. QED
      BY <1>1, <3>1, <3>2, <3>3 DEF TmpAt
  <2>12. CacheInv'
    BY <1>5, <1>10, <2>3 DEF CacheInv, CacheAt
  <2>13. CorpusOfOneIngest'
    <3>1. \A f \in live : f.run \in quiet' => f.run \in quiet
      BY <1>2, <1>3, <2>5, NumbersType DEF CorpusInv, RunsInv
    <3>2. Undisturbed' => Undisturbed
      BY <1>1, <1>10, <3>1 DEF Undisturbed
    <3>3. QED
      BY <1>1, <1>2, <3>2 DEF CorpusInv, CorpusOfOneIngest, Has
  <2>14. QED
    BY <2>7, <2>8, <2>9, <2>10, <2>11, <2>12, <2>13 DEF CorpusInv
<1>13. IndexInv'
  <2>1. LiveKept
    BY <1>1, SameLive
  <2>2. \A q \in Procs : proc'[q] = proc[q] \/ proc'[q].at \notin Writing
    BY <1>5, <1>10 DEF Writing
  <2>3. QED
    BY <1>1, <1>2, <2>1, <2>2, IndexIdle
<1>14. QED
  BY <1>10, <1>11, <1>12, <1>13 DEF Inv

LEMMA IngestStep ==
    ASSUME Inv, NEW p \in Procs, Ingest(p)
    PROVE  Inv'
BY StartsStep DEF Ingest, Ways

LEMMA RefreshStep ==
    ASSUME Inv, NEW p \in Procs, Refresh(p)
    PROVE  Inv'
BY StartsStep DEF Refresh, Ways

\* The types of a task, field by field.
LEMMA TaskTypes ==
    ASSUME TypeOK, NEW p \in Procs
    PROVE  /\ proc[p] \in Task
           /\ proc[p].at \in Labels /\ proc[p].run \in Runs /\ proc[p].peers \in SUBSET Peers
           /\ proc[p].way \in Ways /\ proc[p].index \in BOOLEAN
           /\ proc[p].sha \in Sources /\ proc[p].of \in Sources
           /\ proc[p].next \in 1 .. 4 /\ proc[p].got \in TableState
BY Types DEF ProcType, Task

LEMMA LoadStep ==
    ASSUME Inv, NEW p \in Procs, Load(p)
    PROVE  Inv'
<1> DEFINE a == proc[p]
           c == TaskOf("clean", a.run, a.peers, a.way, a.index, a.sha, src, a.next, a.got)
<1>1. /\ a.at = "load"
      /\ proc' = [proc EXCEPT ![p].at = "clean", ![p].of = src]
      /\ src' = src /\ md' = md /\ tmp' = tmp /\ live' = live /\ lock' = lock
      /\ index' = index /\ runs' = runs /\ changes' = changes /\ quiet' = quiet
      /\ doubt' = doubt
  BY Zenon DEF Load, counts
<1>2. TypeOK /\ TasksOk /\ CorpusInv /\ IndexInv
  BY InvParts
<1>3. c \in Task
  <2>1. "clean" \in Labels /\ src \in Sources
    BY <1>2, Types DEF Labels, Ingesting, Sources
  <2>2. QED
    BY <1>2, <2>1, TaskTypes, TaskTyped
<1>4. /\ c.at = "clean" /\ c.run = a.run /\ c.way = a.way /\ c.sha = a.sha /\ c.of = src
  BY DEF TaskOf
<1>5. proc' = [proc EXCEPT ![p] = c]
  BY <1>1, <1>2, Types, ProcAtOf
<1>6. a \in Task /\ TaskOk(a)
  BY <1>2, TaskTypes DEF TasksOk
<1> HIDE DEF c
<1>7. Moves(p, c)
  BY <1>1, <1>2, <1>3, <1>4, <1>5, <1>6, Types DEF Moves, TaskOk, Ingesting
<1>8. /\ proc' \in [Procs -> Task] /\ TasksOk' /\ proc'[p] = c
      /\ \A q \in Procs : q # p => proc'[q] = proc[q]
  BY <1>2, <1>7, Moved
<1>9. TypeOK'
  BY <1>1, <1>2, <1>8, Types, TypesTogether
<1>10. CorpusInv'
  <2>1. Ingests(p)
    BY <1>1 DEF Ingests, Ingesting
  <2>2. NamesInv' /\ CorpusOfOneIngest'
    <3>1. Undisturbed' => Undisturbed
      BY <1>1, <1>8 DEF Undisturbed
    <3>2. QED
      BY <1>1, <1>2, <3>1 DEF CorpusInv, NamesInv, CorpusOfOneIngest, Has
  <2>3. TmpAt(p)' /\ CacheAt(p)'
    BY <1>4, <1>8 DEF TmpAt, CacheAt, Filling
  <2>4. QED
    <3>1. proc'[p].at \in Ingesting =>
             /\ proc'[p].run = proc[p].run /\ proc'[p].way = proc[p].way
             /\ proc'[p].sha = proc[p].sha
             /\ proc'[p].of = src \/ (proc'[p].of = proc[p].of /\ proc[p].at # "load")
      BY <1>4, <1>8
    <3>2. /\ \A f \in tmp' : f \in tmp \/ f.run = proc[p].run
          /\ \A f \in live' : f \in live \union tmp \/ f.run = proc[p].run
      BY <1>1
    <3>3. QED
      BY <1>1, <1>2, <1>8, <2>1, <2>2, <2>3, <3>1, <3>2, IngestMove
<1>11. IndexInv'
  <2>1. \A q \in Procs : proc'[q] = proc[q] \/ proc'[q].at \notin Writing
    BY <1>4, <1>8 DEF Writing
  <2>2. QED
    BY <1>1, <1>2, <2>1, SameLive, IndexIdle
<1>12. QED
  BY <1>8, <1>9, <1>10, <1>11 DEF Inv

LEMMA CleanStep ==
    ASSUME Inv, NEW p \in Procs, Clean(p)
    PROVE  Inv'
<1> DEFINE a == proc[p]
           c == TaskOf("write", a.run, a.peers, a.way, a.index, a.sha, a.of, 1, a.got)
<1>1. /\ a.at = "clean"
      /\ tmp' = {Root(a.run)}
      /\ proc' = [proc EXCEPT ![p].at = "write", ![p].next = 1]
      /\ src' = src /\ md' = md /\ live' = live /\ lock' = lock
      /\ index' = index /\ runs' = runs /\ changes' = changes /\ quiet' = quiet
      /\ doubt' = doubt
  BY Zenon DEF Clean, Cleaned, counts
<1>2. TypeOK /\ TasksOk /\ CorpusInv /\ IndexInv
  BY InvParts
<1>3. c \in Task
  <2>1. "write" \in Labels /\ 1 \in 1 .. 4
    BY DEF Labels, Ingesting
  <2>2. QED
    BY <1>2, <2>1, TaskTypes, TaskTyped
<1>4. /\ c.at = "write" /\ c.run = a.run /\ c.way = a.way /\ c.sha = a.sha /\ c.of = a.of
      /\ c.next = 1
  BY DEF TaskOf
<1>5. proc' = [proc EXCEPT ![p] = c]
  BY <1>1, <1>2, Types, ProcAtNext
<1>6. a \in Task /\ TaskOk(a)
  BY <1>2, TaskTypes DEF TasksOk
<1> HIDE DEF c
<1>7. Moves(p, c)
  <2>1. a.of \in Versions /\ (a.way = "described" => a.sha \in Versions)
    BY <1>1, <1>6 DEF TaskOk, Ingesting
  <2>2. TaskOk(c)
    BY <1>4, <2>1 DEF TaskOk
  <2>3. QED
    BY <1>3, <1>5, <2>2 DEF Moves
<1>8. /\ proc' \in [Procs -> Task] /\ TasksOk' /\ proc'[p] = c
      /\ \A q \in Procs : q # p => proc'[q] = proc[q]
  BY <1>2, <1>7, Moved
<1>9. TypeOK'
  <2>1. Root(a.run) \in File
    BY <1>2, TaskTypes, RootFile
  <2>2. QED
    BY <1>1, <1>2, <1>8, <2>1, Types, TypesTogether
<1>10. CorpusInv'
  <2>1. Ingests(p)
    BY <1>1 DEF Ingests, Ingesting
  <2>2. NamesInv'
    BY <1>1, <1>2 DEF CorpusInv, NamesInv
  <2>3. CorpusOfOneIngest'
    <3>1. Undisturbed' => Undisturbed
      BY <1>1, <1>8 DEF Undisturbed
    <3>2. QED
      BY <1>1, <1>2, <3>1 DEF CorpusInv, CorpusOfOneIngest, Has
  <2>4. TmpAt(p)' /\ CacheAt(p)'
    <3>1. \A f \in tmp' : f.run = a.run /\ f.part = "root"
      BY <1>1 DEF Root
    <3>2. QED
      BY <1>4, <1>8, <3>1 DEF TmpAt, CacheAt, Uniform
  <2>5. proc'[p].run = proc[p].run /\ proc'[p].way = proc[p].way
        /\ proc'[p].sha = proc[p].sha /\ proc'[p].of = proc[p].of /\ proc[p].at # "load"
    BY <1>1, <1>4, <1>8
  <2>6. /\ \A f \in tmp' : f \in tmp \/ f.run = proc[p].run
        /\ \A f \in live' : f \in live \union tmp \/ f.run = proc[p].run
    BY <1>1 DEF Root
  <2>7. QED
    BY <1>1, <1>2, <1>8, <2>1, <2>2, <2>3, <2>4, <2>5, <2>6, IngestMove
<1>11. IndexInv'
  <2>1. \A q \in Procs : proc'[q] = proc[q] \/ proc'[q].at \notin Writing
    BY <1>4, <1>8 DEF Writing
  <2>2. QED
    BY <1>1, <1>2, <2>1, SameLive, IndexIdle
<1>12. QED
  BY <1>8, <1>9, <1>10, <1>11 DEF Inv

LEMMA PartsFacts ==
    ASSUME NEW n \in 1 .. 3
    PROVE  /\ Parts[n] \in {"primary", "peers", "manifest"}
           /\ n = 1 => Parts[n] = "primary"
           /\ n = 2 => Parts[n] = "peers"
           /\ n = 3 => Parts[n] = "manifest"
           /\ n = Len(Parts) <=> n = 3
           /\ n + 1 \in 1 .. 4
BY DEF Parts

LEMMA WritePartStep ==
    ASSUME Inv, NEW p \in Procs, WritePart(p)
    PROVE  Inv'
<1> DEFINE a == proc[p]
           n == a.next
           part == Parts[n]
           file == Made(p, part)
           at == IF n = Len(Parts) THEN "remove" ELSE "write"
           c == TaskOf(at, a.run, a.peers, a.way, a.index, a.sha, a.of, n + 1, a.got)
<1>1. /\ a.at = "write"
      /\ tmp' = IF part = "peers" /\ a.peers = {} THEN tmp ELSE Put(tmp, file)
      /\ proc' = [proc EXCEPT ![p].at = at, ![p].next = @ + 1]
      /\ src' = src /\ md' = md /\ live' = live /\ lock' = lock
      /\ index' = index /\ runs' = runs /\ changes' = changes /\ quiet' = quiet
      /\ doubt' = doubt
  BY Zenon DEF WritePart, counts
<1>2. TypeOK /\ TasksOk /\ CorpusInv /\ IndexInv
  BY InvParts
<1>3. a \in Task /\ TaskOk(a)
  BY <1>2, TaskTypes DEF TasksOk
<1>4. n \in 1 .. 3 /\ a.of \in Versions
  BY <1>1, <1>3 DEF TaskOk, Ingesting
<1>5. /\ n = 3 => at = "remove"
      /\ n # 3 => at = "write"
  BY <1>4, PartsFacts
<1>6. c \in Task
  <2>1. at \in Labels /\ n + 1 \in 1 .. 4
    BY <1>4, <1>5 DEF Labels, Ingesting
  <2>2. QED
    BY <1>2, <2>1, TaskTypes, TaskTyped
<1>7. /\ c.at = at /\ c.run = a.run /\ c.way = a.way /\ c.sha = a.sha /\ c.of = a.of
      /\ c.next = n + 1
  BY DEF TaskOf
<1>8. proc' = [proc EXCEPT ![p] = c]
  <2>1. proc' = [proc EXCEPT ![p].at = at, ![p].next = n + 1]
    BY <1>1
  <2>2. QED
    BY <1>2, <2>1, Types, ProcAtNext
<1>9. /\ file \in File /\ file.part = part /\ file.run = a.run
      /\ file.of = IF part = "manifest" THEN src ELSE a.of
      /\ part \in {"primary", "peers", "manifest"}
  <2>1. part \in {"primary", "peers", "manifest"}
    BY <1>4, PartsFacts
  <2>2. a.run \in Runs /\ src \in Versions
    BY <1>2, Types, TaskTypes
  <2>3. QED
    BY <1>4, <2>1, <2>2 DEF Made, File
<1> HIDE DEF c, at, file, part
<1>10. Moves(p, c)
  <2>1. n + 1 \in 1 .. 3 \/ n = 3
    BY <1>4
  <2>2. QED
    BY <1>1, <1>3, <1>4, <1>5, <1>6, <1>7, <1>8, <2>1 DEF Moves, TaskOk, Ingesting
<1>11. /\ proc' \in [Procs -> Task] /\ TasksOk' /\ proc'[p] = c
       /\ \A q \in Procs : q # p => proc'[q] = proc[q]
  BY <1>2, <1>10, Moved
<1>12. /\ tmp' \subseteq File
       /\ \A f \in tmp' : f \in tmp \/ f = file \/ f = Root(a.run)
       /\ \A f, g \in tmp' : f.part = g.part => f = g
       /\ \A f \in tmp : f.part # part => f \in tmp'
       /\ part # "peers" => file \in tmp'
  <2>1. tmp \subseteq File /\ \A f, g \in tmp : f.part = g.part => f = g
    BY <1>2, Types DEF CorpusInv, NamesInv
  <2>2. CASE tmp' = tmp /\ part = "peers"
    BY <2>1, <2>2
  <2>3. CASE tmp' = Put(tmp, file)
    BY <1>9, <2>1, <2>3, PutFiles, PutNames
  <2>4. QED
    BY <1>1, <2>2, <2>3
<1>13. TypeOK'
  BY <1>1, <1>2, <1>11, <1>12, Types, TypesTogether
<1>14. CorpusInv'
  <2>1. Ingests(p)
    BY <1>1 DEF Ingests, Ingesting
  <2>2. NamesInv'
    BY <1>1, <1>2, <1>12 DEF CorpusInv, NamesInv
  <2>3. CorpusOfOneIngest'
    <3>1. Undisturbed' => Undisturbed
      BY <1>1, <1>11 DEF Undisturbed
    <3>2. QED
      BY <1>1, <1>2, <3>1 DEF CorpusInv, CorpusOfOneIngest, Has
  <2>4. \A f \in tmp' : f \in tmp \/ f.run = proc[p].run
    BY <1>9, <1>12 DEF Root
  <2>5. TmpAt(p)
    BY <1>2 DEF CorpusInv, TmpInv
  <2>6. proc[p].run \in quiet => proc[p].of = src
    BY <1>1, <1>2, <2>1 DEF CorpusInv, SourceInv, IsQuiet
  <2>7. TmpAt(p)'
    <3>1. \A f \in tmp' : f.run = c.run \/ f.run \notin quiet
      BY <1>1, <1>7, <2>4, <2>5 DEF TmpAt, Filling
    <3>2. ASSUME proc[p].run \in quiet
          PROVE  /\ Uniform(tmp', c.run, c.of)
                 /\ Has(tmp', "primary")
                 /\ c.at # "write" => Has(tmp', "manifest")
      <4>1. Uniform(tmp, a.run, a.of) /\ (n > 1 => Has(tmp, "primary"))
        BY <1>1, <2>5, <3>2 DEF TmpAt, Filling
      <4>2. file.of = a.of
        BY <1>9, <2>6, <3>2
      <4>3. Uniform(tmp', a.run, a.of)
        BY <1>9, <1>12, <4>1, <4>2 DEF Uniform, Root
      <4>4. Has(tmp', "primary")
        <5>1. CASE n = 1
          <6>1. part = "primary"
            BY <1>4, <5>1, PartsFacts DEF part
          <6>2. QED
            BY <1>9, <1>12, <6>1 DEF Has
        <5>2. CASE n > 1
          <6>1. part # "primary"
            BY <1>4, <5>2, PartsFacts DEF part
          <6>2. QED
            BY <1>12, <4>1, <5>2, <6>1 DEF Has
        <5>3. QED
          BY <1>4, <5>1, <5>2
      <4>5. n = 3 => Has(tmp', "manifest")
        <5>1. n = 3 => part = "manifest"
          BY <1>4, PartsFacts DEF part
        <5>2. QED
          BY <1>9, <1>12, <5>1 DEF Has
      <4>6. QED
        BY <1>5, <1>7, <4>3, <4>4, <4>5
    <3>3. QED
      BY <1>1, <1>7, <1>11, <3>1, <3>2 DEF TmpAt
  <2>8. CacheAt(p)'
    BY <1>5, <1>7, <1>11 DEF CacheAt
  <2>9. proc'[p].run = proc[p].run /\ proc'[p].way = proc[p].way
        /\ proc'[p].sha = proc[p].sha /\ proc'[p].of = proc[p].of /\ proc[p].at # "load"
    BY <1>1, <1>7, <1>11
  <2>10. \A f \in live' : f \in live \union tmp \/ f.run = proc[p].run
    BY <1>1
  <2>11. QED
    BY <1>1, <1>2, <1>11, <2>1, <2>2, <2>3, <2>4, <2>7, <2>8, <2>9, <2>10, IngestMove
<1>15. IndexInv'
  <2>1. \A q \in Procs : proc'[q] = proc[q] \/ proc'[q].at \notin Writing
    BY <1>5, <1>7, <1>11 DEF Writing
  <2>2. QED
    BY <1>1, <1>2, <2>1, SameLive, IndexIdle
<1>16. QED
  BY <1>11, <1>13, <1>14, <1>15 DEF Inv

\* A step that moves no process and writes nothing but what it says.
LEMMA RacedFacts ==
    ASSUME TypeOK, Raced
    PROVE  /\ doubt \subseteq doubt' /\ doubt' \subseteq {"unfinished", "raced"}
           /\ "raced" \in doubt' \/ Writers = {}
BY Types DEF Raced

LEMMA RemoveFileStep ==
    ASSUME Inv, NEW p \in Procs, RemoveFile(p)
    PROVE  Inv'
<1>1. /\ proc[p].at = "remove"
      /\ live' \subseteq live
      /\ src' = src /\ md' = md /\ tmp' = tmp /\ lock' = lock /\ proc' = proc
      /\ index' = index /\ runs' = runs /\ changes' = changes /\ quiet' = quiet
      /\ Raced
  BY DEF RemoveFile, counts
<1>2. TypeOK /\ TasksOk /\ CorpusInv /\ IndexInv
  BY InvParts
<1>3. doubt \subseteq doubt' /\ doubt' \subseteq {"unfinished", "raced"}
      /\ ("raced" \in doubt' \/ Writers = {})
  BY <1>1, <1>2, RacedFacts
<1>4. TypeOK' /\ TasksOk'
  <2>1. live' \subseteq File /\ proc' \in [Procs -> Task]
    BY <1>1, <1>2, Types DEF ProcType
  <2>2. QED
    BY <1>1, <1>2, <1>3, <2>1, Types, TypesTogether DEF TasksOk
<1>5. CorpusInv'
  <2>1. Ingests(p)
    BY <1>1 DEF Ingests, Ingesting
  <2>2. NamesInv'
    BY <1>1, <1>2 DEF CorpusInv, NamesInv
  <2>3. CorpusOfOneIngest'
    BY <1>1 DEF CorpusOfOneIngest, Undisturbed
  <2>4. TmpAt(p)' /\ CacheAt(p)'
    BY <1>1, <1>2 DEF TmpAt, CacheAt, CorpusInv, TmpInv, Uniform, Has
  <2>5. proc'[p].run = proc[p].run /\ proc'[p].way = proc[p].way
        /\ proc'[p].sha = proc[p].sha /\ proc'[p].of = proc[p].of /\ proc[p].at # "load"
    BY <1>1
  <2>6. /\ \A f \in tmp' : f \in tmp \/ f.run = proc[p].run
        /\ \A f \in live' : f \in live \union tmp \/ f.run = proc[p].run
    BY <1>1
  <2>7. QED
    BY <1>1, <1>2, <2>1, <2>2, <2>3, <2>4, <2>5, <2>6, IngestMove
<1>6. IndexInv'
  BY <1>1, <1>2, <1>3, IndexIdle
<1>7. QED
  BY <1>4, <1>5, <1>6 DEF Inv

LEMMA RemoveRootStep ==
    ASSUME Inv, NEW p \in Procs, RemoveRoot(p)
    PROVE  Inv'
<1> DEFINE a == proc[p]
           c == TaskOf("rename", a.run, a.peers, a.way, a.index, a.sha, a.of, a.next, a.got)
<1>1. /\ a.at = "remove"
      /\ Emptied
      /\ live' = {}
      /\ proc' = [proc EXCEPT ![p].at = "rename"]
      /\ src' = src /\ md' = md /\ tmp' = tmp /\ lock' = lock
      /\ index' = index /\ runs' = runs /\ changes' = changes /\ quiet' = quiet
      /\ doubt' = doubt
  BY Zenon DEF RemoveRoot, Step, counts
<1>2. TypeOK /\ TasksOk /\ CorpusInv /\ IndexInv
  BY InvParts
<1>3. c \in Task
  <2>1. "rename" \in Labels
    BY DEF Labels, Ingesting
  <2>2. QED
    BY <1>2, <2>1, TaskTypes, TaskTyped
<1>4. /\ c.at = "rename" /\ c.run = a.run /\ c.way = a.way /\ c.sha = a.sha /\ c.of = a.of
  BY DEF TaskOf
<1>5. proc' = [proc EXCEPT ![p] = c]
  BY <1>1, <1>2, Types, ProcAt
<1>6. a \in Task /\ TaskOk(a)
  BY <1>2, TaskTypes DEF TasksOk
<1> HIDE DEF c
<1>7. Moves(p, c)
  <2>1. a.of \in Versions /\ (a.way = "described" => a.sha \in Versions)
    BY <1>1, <1>6 DEF TaskOk, Ingesting
  <2>2. TaskOk(c)
    BY <1>4, <2>1 DEF TaskOk
  <2>3. QED
    BY <1>3, <1>5, <2>2 DEF Moves
<1>8. /\ proc' \in [Procs -> Task] /\ TasksOk' /\ proc'[p] = c
      /\ \A q \in Procs : q # p => proc'[q] = proc[q]
  BY <1>2, <1>7, Moved
<1>9. TypeOK'
  BY <1>1, <1>2, <1>8, Types, TypesTogether
<1>10. CorpusInv'
  <2>1. Ingests(p)
    BY <1>1 DEF Ingests, Ingesting
  <2>2. NamesInv' /\ CorpusOfOneIngest'
    BY <1>1, <1>2 DEF CorpusInv, NamesInv, CorpusOfOneIngest
  <2>3. TmpAt(p)' /\ CacheAt(p)'
    <3>1. TmpAt(p)
      BY <1>2 DEF CorpusInv, TmpInv
    <3>2. QED
      BY <1>1, <1>4, <1>8, <3>1 DEF TmpAt, CacheAt, Filling, Uniform, Has
  <2>4. proc'[p].run = proc[p].run /\ proc'[p].way = proc[p].way
        /\ proc'[p].sha = proc[p].sha /\ proc'[p].of = proc[p].of /\ proc[p].at # "load"
    BY <1>1, <1>4, <1>8
  <2>5. /\ \A f \in tmp' : f \in tmp \/ f.run = proc[p].run
        /\ \A f \in live' : f \in live \union tmp \/ f.run = proc[p].run
    BY <1>1
  <2>6. QED
    BY <1>1, <1>2, <1>8, <2>1, <2>2, <2>3, <2>4, <2>5, IngestMove
<1>11. IndexInv'
  <2>1. \A q \in Procs : proc'[q] = proc[q] \/ proc'[q].at \notin Writing
    BY <1>4, <1>8 DEF Writing
  <2>2. LiveKept
    <3>1. NamesInv /\ NamesInv'
      BY <1>1, <1>2 DEF CorpusInv, NamesInv
    <3>2. QED
      BY <1>1, <3>1, SameParts DEF Emptied
  <2>3. QED
    BY <1>1, <1>2, <2>1, <2>2, IndexIdle
<1>12. QED
  BY <1>8, <1>9, <1>10, <1>11 DEF Inv

\* Where an ingest goes that has put its corpus in place.
LEMMA IngestEndsMoves ==
    ASSUME TypeOK, NEW p \in Procs, IngestEnds(p)
    PROVE  \E c : Moves(p, c) /\ c.at \in {"idle", "lock"}
<1> DEFINE r == proc[p].run
           k == TaskOf("lock", r, {}, "heuristic", FALSE, Missing, Missing, 1, NoTable)
<1>1. proc' = [proc EXCEPT ![p] = IF proc[p].index THEN [Idle EXCEPT !.at = "lock", !.run = r]
                                  ELSE Idle]
  BY Zenon DEF IngestEnds
<1>2. [Idle EXCEPT !.at = "lock", !.run = r] = k
  BY BeginTask, Zenon
<1>3. Idle \in Task /\ TaskOk(Idle) /\ Idle.at = "idle"
  BY IdleTask, IdleOk
<1>4. k \in Task
  <2>1. "lock" \in Labels /\ "heuristic" \in Ways /\ {} \in SUBSET Peers /\ FALSE \in BOOLEAN
        /\ Missing \in Sources /\ 1 \in 1 .. 4 /\ r \in Runs
    BY TaskTypes DEF Labels, Ways, Sources
  <2>2. QED
    BY <2>1, NoTableTyped, TaskTyped
<1>5. k.at = "lock"
  BY DEF TaskOf
<1> HIDE DEF k
<1>6. TaskOk(k)
  BY <1>5 DEF TaskOk, Ingesting
<1>7. CASE proc[p].index
  <2>1. proc' = [proc EXCEPT ![p] = k]
    BY <1>1, <1>2, <1>7, Zenon
  <2>2. QED
    BY <1>4, <1>5, <1>6, <2>1 DEF Moves
<1>8. CASE ~proc[p].index
  <2>1. proc' = [proc EXCEPT ![p] = Idle]
    BY <1>1, <1>8, Zenon
  <2>2. QED
    BY <1>3, <2>1 DEF Moves
<1>9. QED
  BY <1>7, <1>8

\* The directory that an undisturbed ingest is about to rename is whole.
LEMMA FilledIsWhole ==
    ASSUME TypeOK, CorpusInv, NEW p \in Procs, proc[p].at = "rename",
           proc[p].run \in quiet
    PROVE  /\ Uniform(tmp, proc[p].run, src)
           /\ Has(tmp, "primary") /\ Has(tmp, "manifest")
<1>1. proc[p].of = src
  BY DEF CorpusInv, SourceInv, IsQuiet, Ingests, Ingesting
<1>2. TmpAt(p)
  BY DEF CorpusInv, TmpInv
<1>3. QED
  BY <1>1, <1>2 DEF TmpAt, Filling

LEMMA RenameStep ==
    ASSUME Inv, NEW p \in Procs, Rename(p)
    PROVE  Inv'
<1> DEFINE a == proc[p]
           k == TaskOf("cache", a.run, a.peers, a.way, a.index, a.sha, a.of, a.next, a.got)
<1>1. /\ a.at = "rename"
      /\ tmp # {} /\ Emptied
      /\ live' = tmp /\ tmp' = {}
      /\ IF a.way = "described" THEN proc' = [proc EXCEPT ![p].at = "cache"] ELSE IngestEnds(p)
      /\ Raced
      /\ src' = src /\ md' = md /\ lock' = lock /\ index' = index
      /\ runs' = runs /\ changes' = changes /\ quiet' = quiet
  BY Zenon DEF Rename, Step, counts
<1>2. TypeOK /\ TasksOk /\ CorpusInv /\ IndexInv
  BY InvParts
<1>3. doubt \subseteq doubt' /\ doubt' \subseteq {"unfinished", "raced"}
      /\ ("raced" \in doubt' \/ Writers = {})
  BY <1>1, <1>2, RacedFacts
<1>4. PICK c : /\ Moves(p, c)
               /\ \/ c.at \in {"idle", "lock"}
                  \/ /\ c.at = "cache" /\ c.run = a.run /\ c.way = a.way /\ c.sha = a.sha
                     /\ c.of = a.of
  <2>1. CASE a.way = "described"
    <3>1. proc' = [proc EXCEPT ![p] = k]
      <4>1. proc' = [proc EXCEPT ![p].at = "cache"]
        BY <1>1, <2>1
      <4>2. QED
        BY <1>2, <4>1, Types, ProcAt
    <3>2. "cache" \in Labels
      BY DEF Labels, Ingesting
    <3>3. k \in Task
      BY <1>2, <3>2, TaskTypes, TaskTyped
    <3>4. /\ k.at = "cache" /\ k.run = a.run /\ k.way = a.way /\ k.sha = a.sha /\ k.of = a.of
      BY DEF TaskOf
    <3>5. TaskOk(a)
      BY <1>2 DEF TasksOk
    <3>6. a.of \in Versions /\ a.sha \in Versions
      BY <1>1, <2>1, <3>5 DEF TaskOk, Ingesting
    <3> HIDE DEF k
    <3>7. TaskOk(k)
      BY <2>1, <3>4, <3>6 DEF TaskOk
    <3>8. QED
      BY <3>1, <3>3, <3>4, <3>7 DEF Moves
  <2>2. CASE a.way # "described"
    BY <1>1, <1>2, <2>2, IngestEndsMoves
  <2>3. QED
    BY <2>1, <2>2
<1>5. /\ proc' \in [Procs -> Task] /\ TasksOk' /\ proc'[p] = c
      /\ \A q \in Procs : q # p => proc'[q] = proc[q]
  BY <1>2, <1>4, Moved
<1>6. TypeOK'
  <2>1. live' \subseteq File /\ tmp' \subseteq File
    BY <1>1, <1>2, Types
  <2>2. QED
    BY <1>1, <1>2, <1>3, <1>5, <2>1, Types, TypesTogether
<1>7. CorpusInv'
  <2>1. Ingests(p)
    BY <1>1 DEF Ingests, Ingesting
  <2>2. NamesInv'
    BY <1>1, <1>2 DEF CorpusInv, NamesInv
  <2>3. a.run \in quiet =>
           Uniform(tmp, a.run, src) /\ Has(tmp, "primary") /\ Has(tmp, "manifest")
    BY <1>1, <1>2, FilledIsWhole
  <2>4. CorpusOfOneIngest'
    <3> SUFFICES ASSUME Undisturbed'
                 PROVE  /\ Has(tmp, "primary") /\ Has(tmp, "manifest")
                        /\ \A f, g \in tmp : f.run = g.run
                        /\ \A f, g \in tmp : f.part # "root" /\ g.part # "root" => f.of = g.of
      BY <1>1 DEF CorpusOfOneIngest, Has
    <3>1. \A f \in tmp : f.run \in quiet
      BY <1>1 DEF Undisturbed
    <3>2. TmpAt(p)
      BY <1>2 DEF CorpusInv, TmpInv
    <3>3. a.run \in quiet
      BY <1>1, <3>1, <3>2 DEF TmpAt, Filling
    <3>4. QED
      BY <2>3, <3>3 DEF Uniform
  <2>5. TmpAt(p)'
    BY <1>4, <1>5 DEF TmpAt, Filling
  <2>6. CacheAt(p)'
    <3>1. IsQuiet(p)' /\ proc'[p].at = "cache" => a.run \in quiet
      BY <1>1, <1>4, <1>5 DEF IsQuiet
    <3>2. QED
      BY <1>1, <1>4, <1>5, <2>3, <3>1 DEF CacheAt, Uniform, Has
  <2>7. proc'[p].at \in Ingesting =>
           /\ proc'[p].run = proc[p].run /\ proc'[p].way = proc[p].way
           /\ proc'[p].sha = proc[p].sha /\ proc'[p].of = proc[p].of /\ proc[p].at # "load"
    BY <1>1, <1>4, <1>5 DEF Ingesting
  <2>8. /\ \A f \in tmp' : f \in tmp \/ f.run = proc[p].run
        /\ \A f \in live' : f \in live \union tmp \/ f.run = proc[p].run
    BY <1>1
  <2>9. QED
    BY <1>1, <1>2, <1>5, <2>1, <2>2, <2>4, <2>5, <2>6, <2>7, <2>8, IngestMove
<1>8. IndexInv'
  <2>1. \A q \in Procs : proc'[q] = proc[q] \/ proc'[q].at \notin Writing
    BY <1>4, <1>5 DEF Writing
  <2>2. QED
    BY <1>1, <1>2, <1>3, <2>1, IndexIdle
<1>9. QED
  BY <1>5, <1>6, <1>7, <1>8 DEF Inv

LEMMA WriteCacheStep ==
    ASSUME Inv, NEW p \in Procs, WriteCache(p)
    PROVE  Inv'
<1> DEFINE a == proc[p]
           file == [part |-> "format", run |-> a.run, of |-> a.sha]
<1>1. /\ a.at = "cache"
      /\ live' = Put(live, file) \/ live' = live
      /\ IngestEnds(p)
      /\ src' = src /\ md' = md /\ tmp' = tmp /\ lock' = lock /\ index' = index
      /\ runs' = runs /\ changes' = changes /\ quiet' = quiet /\ doubt' = doubt
  BY Zenon DEF WriteCache, counts
<1>2. TypeOK /\ TasksOk /\ CorpusInv /\ IndexInv
  BY InvParts
<1>3. PICK c : Moves(p, c) /\ c.at \in {"idle", "lock"}
  BY <1>1, <1>2, IngestEndsMoves
<1>4. /\ proc' \in [Procs -> Task] /\ TasksOk' /\ proc'[p] = c
      /\ \A q \in Procs : q # p => proc'[q] = proc[q]
  BY <1>2, <1>3, Moved
<1>5. file \in File /\ file.part = "format" /\ file.run = a.run /\ file.of = a.sha
      /\ a.way = "described"
  <2>1. TaskOk(a) /\ a.run \in Runs
    BY <1>2, TaskTypes DEF TasksOk
  <2>2. a.sha \in Versions /\ a.way = "described"
    BY <1>1, <2>1 DEF TaskOk, Ingesting
  <2>3. QED
    BY <2>1, <2>2 DEF File
<1> HIDE DEF file
<1>6. /\ live' \subseteq File
      /\ \A f \in live' : f \in live \/ f = file \/ f = Root(a.run)
      /\ \A f, g \in live' : f.part = g.part => f = g
      /\ \A f \in live : f.part # "format" => f \in live'
  <2>1. live \subseteq File /\ \A f, g \in live : f.part = g.part => f = g
    BY <1>2, Types DEF CorpusInv, NamesInv
  <2>2. CASE live' = live
    BY <2>1, <2>2
  <2>3. CASE live' = Put(live, file)
    BY <1>5, <2>1, <2>3, PutFiles, PutNames
  <2>4. QED
    BY <1>1, <2>2, <2>3
<1>7. TypeOK'
  BY <1>1, <1>2, <1>4, <1>6, Types, TypesTogether
<1>8. \A f \in live' : f \in live \/ f.run = a.run
  BY <1>5, <1>6 DEF Root
<1>9. NamesInv'
  BY <1>1, <1>2, <1>6 DEF CorpusInv, NamesInv
<1>10. CorpusInv'
  <2>1. Ingests(p)
    BY <1>1 DEF Ingests, Ingesting
  <2>2. CorpusOfOneIngest'
    <3> SUFFICES ASSUME Undisturbed', live' # {}
                 PROVE  /\ Has(live', "primary") /\ Has(live', "manifest")
                        /\ \A f, g \in live' : f.run = g.run
                        /\ \A f, g \in live' : f.part # "root" /\ g.part # "root" => f.of = g.of
      BY DEF CorpusOfOneIngest, Has
    <3>1. \A q \in Procs : proc[q].at # "remove"
      BY <1>1, <1>4 DEF Undisturbed
    <3>2. CASE a.run \in quiet
      <4>1. IsQuiet(p)
        BY <2>1, <3>2 DEF IsQuiet
      <4>2. /\ Uniform(live, a.run, src) /\ Has(live, "primary") /\ Has(live, "manifest")
        BY <1>1, <1>2, <4>1 DEF CorpusInv, CacheInv, CacheAt
      <4>3. a.sha = src
        BY <1>2, <1>5, <4>1 DEF CorpusInv, SourceInv
      <4>4. Has(live', "primary") /\ Has(live', "manifest")
        BY <1>6, <4>2 DEF Has
      <4>5. Uniform(live', a.run, src)
        BY <1>5, <1>6, <4>2, <4>3 DEF Uniform, Root
      <4>6. QED
        BY <4>4, <4>5 DEF Uniform
    <3>3. CASE a.run \notin quiet
      <4>1. live' \subseteq live
        BY <1>1, <1>8, <3>3 DEF Undisturbed
      <4>2. live' = live
        <5>1. CASE live' = live
          BY <5>1
        <5>2. CASE live' = Put(live, file)
          <6>1. file \in live'
            BY <1>2, <1>5, <5>2, Types, PutFiles
          <6>2. QED
            BY <1>1, <1>5, <3>3, <6>1 DEF Undisturbed
        <5>3. QED
          BY <1>1, <5>1, <5>2
      <4>3. Undisturbed
        BY <1>1, <3>1, <4>2 DEF Undisturbed
      <4>4. QED
        BY <1>2, <4>2, <4>3 DEF CorpusInv, CorpusOfOneIngest
    <3>4. QED
      BY <3>2, <3>3
  <2>3. TmpAt(p)' /\ CacheAt(p)'
    BY <1>3, <1>4 DEF TmpAt, CacheAt, Filling
  <2>4. proc'[p].at \notin Ingesting
    BY <1>3, <1>4 DEF Ingesting
  <2>5. /\ \A f \in tmp' : f \in tmp \/ f.run = proc[p].run
        /\ \A f \in live' : f \in live \union tmp \/ f.run = proc[p].run
    BY <1>1, <1>8
  <2>6. QED
    BY <1>1, <1>2, <1>4, <1>9, <2>1, <2>2, <2>3, <2>4, <2>5, IngestMove
<1>11. IndexInv'
  <2>1. \A q \in Procs : proc'[q] = proc[q] \/ proc'[q].at \notin Writing
    BY <1>3, <1>4 DEF Writing
  <2>2. LiveKept
    <3>1. NamesInv
      BY <1>2 DEF CorpusInv
    <3>2. \A f \in live : f.part \in {"primary", "manifest"} => f \in live'
      BY <1>6
    <3>3. \A f \in live' : f.part \in {"primary", "manifest"} => f \in live
      BY <1>5, <1>6 DEF Root
    <3>4. QED
      BY <1>9, <3>1, <3>2, <3>3, SameParts
  <2>3. QED
    BY <1>1, <1>2, <2>1, <2>2, IndexIdle
<1>12. QED
  BY <1>4, <1>7, <1>10, <1>11 DEF Inv

\* A step of a process outside ingest and build, or one that leaves them.
LEMMA SideStep ==
    ASSUME Inv, NEW p \in Procs, NEW c, Moves(p, c),
           proc[p].at # "remove", c.at \notin Ingesting \union Writing,
           lock' \in [held : BOOLEAN, old : BOOLEAN], md' \in Texts,
           runs' \in Runs, runs <= runs',
           src' = src, tmp' = tmp, live' = live, index' = index, changes' = changes,
           quiet' = quiet,
           doubt \subseteq doubt', doubt' \subseteq {"unfinished", "raced"},
           "raced" \in doubt' \/ Writers = {} \/ md' = md
    PROVE  Inv'
<1>1. TypeOK /\ TasksOk /\ CorpusInv /\ IndexInv
  BY InvParts
<1>2. /\ proc' \in [Procs -> Task] /\ TasksOk' /\ proc'[p] = c
      /\ \A q \in Procs : q # p => proc'[q] = proc[q]
  BY <1>1, Moved
<1>3. TypeOK'
  BY <1>1, <1>2, Types, TypesTogether
<1>4. CorpusInv'
  <2>1. \A q \in Procs : \/ proc'[q] = proc[q]
                         \/ proc[q].at # "remove" /\ proc'[q].at \notin Ingesting
    BY <1>2
  <2>2. runs' \in Nat
    BY RunsType
  <2>3. QED
    BY <1>1, <2>1, <2>2, CorpusIdle
<1>5. IndexInv'
  <2>1. \A q \in Procs : proc'[q] = proc[q] \/ proc'[q].at \notin Writing
    BY <1>2
  <2>2. QED
    BY <1>1, <2>1, SameLive, IndexIdle
<1>6. QED
  BY <1>2, <1>3, <1>4, <1>5 DEF Inv

\* A process gives up, and nothing but the lock file knows.
LEMMA EndsIdly ==
    ASSUME Inv, NEW p \in Procs, Ends(p), proc[p].at # "remove",
           lock' \in [held : BOOLEAN, old : BOOLEAN],
           src' = src, md' = md, tmp' = tmp, live' = live, index' = index, runs' = runs,
           changes' = changes, quiet' = quiet, doubt' = doubt
    PROVE  Inv'
<1>1. Moves(p, Idle) /\ Idle.at \notin Ingesting \union Writing
  BY EndsMoves, IdleOk DEF Ingesting, Writing
<1>2. /\ md' \in Texts /\ runs' \in Runs /\ runs \in Nat
      /\ doubt' \subseteq {"unfinished", "raced"}
  BY InvParts, Types, NumbersType
<1>3. runs <= runs'
  BY <1>2
<1>4. QED
  BY <1>1, <1>2, <1>3, SideStep

LEMMA RenameFailsStep ==
    ASSUME Inv, NEW p \in Procs, RenameFails(p)
    PROVE  Inv'
<1>1. /\ proc[p].at = "rename" /\ Ends(p)
      /\ src' = src /\ md' = md /\ tmp' = tmp /\ live' = live /\ lock' = lock
      /\ index' = index /\ runs' = runs /\ changes' = changes /\ quiet' = quiet
      /\ doubt' = doubt
  BY DEF RenameFails, counts
<1>2. lock' \in [held : BOOLEAN, old : BOOLEAN]
  BY <1>1, InvParts, Types
<1>3. QED
  BY <1>1, <1>2, EndsIdly

\* An error or a kill.
LEMMA GivesUpStep ==
    ASSUME Inv, NEW p \in Procs, Ends(p), Torn(p),
           lock' \in [held : BOOLEAN, old : BOOLEAN],
           src' = src, md' = md, tmp' = tmp, live' = live, index' = index, runs' = runs,
           changes' = changes, doubt' = doubt
    PROVE  Inv'
<1>1. CASE proc[p].at # "remove"
  <2>1. quiet' = quiet
    BY <1>1 DEF Torn
  <2>2. QED
    BY <1>1, <2>1, EndsIdly
<1>2. CASE proc[p].at = "remove"
  <2> DEFINE R == {f.run : f \in live}
  <2>1. quiet' = quiet \ R
    BY <1>2 DEF Torn
  <2>2. TypeOK /\ TasksOk /\ CorpusInv /\ IndexInv
    BY InvParts
  <2>3. /\ proc' \in [Procs -> Task] /\ TasksOk' /\ proc'[p] = Idle
        /\ \A q \in Procs : q # p => proc'[q] = proc[q]
    BY <2>2, EndsMoves, Moved
  <2>4. Idle.at = "idle"
    BY IdleOk
  <2>5. Undisturbed' => live = {}
    <3> SUFFICES ASSUME Undisturbed', NEW f \in live PROVE FALSE
      OBVIOUS
    <3>1. f.run \in quiet'
      BY DEF Undisturbed
    <3>2. f.run \in R
      OBVIOUS
    <3>3. QED
      BY <2>1, <3>1, <3>2
  <2> HIDE DEF R
  <2>6. TypeOK'
    <3>1. quiet' \subseteq Runs
      BY <2>1, <2>2, Types
    <3>2. QED
      BY <2>2, <2>3, <3>1, Types, TypesTogether
  <2>7. CorpusInv'
    <3>1. \A q \in Procs : proc'[q] = proc[q] \/ proc'[q].at \notin Ingesting
      BY <2>3, <2>4 DEF Ingesting
    <3>2. QED
      BY <2>1, <2>2, <2>5, <3>1, CorpusDisturbed
  <2>8. IndexInv'
    <3>1. \A q \in Procs : proc'[q] = proc[q] \/ proc'[q].at \notin Writing
      BY <2>3, <2>4 DEF Writing
    <3>2. QED
      BY <2>2, <3>1, SameLive, IndexIdle
  <2>9. QED
    BY <2>3, <2>6, <2>7, <2>8 DEF Inv
<1>3. QED
  BY <1>1, <1>2

LEMMA RemovedTyped ==
    /\ Removed \in [held : BOOLEAN, old : BOOLEAN]
    /\ Taken \in [held : BOOLEAN, old : BOOLEAN]
BY DEF Removed, Taken

LEMMA FailsStep ==
    ASSUME Inv, NEW p \in Procs, Fails(p)
    PROVE  Inv'
<1>1. /\ Ends(p) /\ Torn(p)
      /\ lock' = IF proc[p].at \in Writing THEN Removed ELSE lock
      /\ src' = src /\ md' = md /\ tmp' = tmp /\ live' = live
      /\ index' = index /\ runs' = runs /\ changes' = changes /\ doubt' = doubt
  BY Zenon DEF Fails, counts
<1>2. lock' \in [held : BOOLEAN, old : BOOLEAN]
  BY <1>1, InvParts, Types, RemovedTyped
<1>3. QED
  BY <1>1, <1>2, GivesUpStep

LEMMA KilledStep ==
    ASSUME Inv, NEW p \in Procs, Killed(p)
    PROVE  Inv'
<1>1. /\ Ends(p) /\ Torn(p)
      /\ src' = src /\ md' = md /\ tmp' = tmp /\ live' = live /\ lock' = lock
      /\ index' = index /\ runs' = runs /\ changes' = changes /\ doubt' = doubt
  BY DEF Killed, counts
<1>2. lock' \in [held : BOOLEAN, old : BOOLEAN]
  BY <1>1, InvParts, Types
<1>3. QED
  BY <1>1, <1>2, GivesUpStep

-----------------------------------------------------------------------------
(* The lock file and the seed.                                             *)

\* A command that neither ingests nor builds yet begins.
LEMMA BeginsIdly ==
    ASSUME Inv, NEW p \in Procs, NEW x \in {"lock", "seed"},
           Begins(p, [Idle EXCEPT !.at = x, !.run = runs + 1]),
           src' = src, md' = md, tmp' = tmp, live' = live, lock' = lock, index' = index,
           quiet' = quiet, doubt' = doubt
    PROVE  Inv'
<1> DEFINE r == runs + 1
           c == TaskOf(x, r, {}, "heuristic", FALSE, Missing, Missing, 1, NoTable)
<1>1. /\ proc[p].at = "idle" /\ runs < MaxRuns /\ runs' = r /\ changes' = changes
      /\ proc' = [proc EXCEPT ![p] = [Idle EXCEPT !.at = x, !.run = r]]
  BY Zenon DEF Begins
<1>2. TypeOK /\ TasksOk /\ CorpusInv /\ IndexInv
  BY InvParts
<1>3. r \in Runs /\ runs <= r
  BY <1>1, <1>2, NumbersType, CorpusAssumption DEF Runs
<1>4. c \in Task
  <2>1. x \in Labels /\ "heuristic" \in Ways /\ {} \in SUBSET Peers /\ FALSE \in BOOLEAN
        /\ Missing \in Sources /\ 1 \in 1 .. 4
    BY DEF Labels, Ways, Sources
  <2>2. QED
    BY <1>3, <2>1, NoTableTyped, TaskTyped
<1>5. c.at = x
  BY DEF TaskOf
<1>6. [Idle EXCEPT !.at = x, !.run = r] = c
  BY BeginTask, Zenon
<1> HIDE DEF c
<1>7. Moves(p, c)
  <2>1. proc' = [proc EXCEPT ![p] = c]
    BY <1>1, <1>6
  <2>2. TaskOk(c)
    BY <1>5 DEF TaskOk, Ingesting
  <2>3. QED
    BY <1>4, <2>1, <2>2 DEF Moves
<1>8. c.at \notin Ingesting \union Writing
  BY <1>5 DEF Ingesting, Writing
<1>9. /\ md' \in Texts /\ lock' \in [held : BOOLEAN, old : BOOLEAN]
      /\ doubt' \subseteq {"unfinished", "raced"}
  BY <1>2, Types
<1>10. QED
  BY <1>1, <1>3, <1>7, <1>8, <1>9, SideStep

LEMMA BuildIndexStep ==
    ASSUME Inv, NEW p \in Procs, BuildIndex(p)
    PROVE  Inv'
BY BeginsIdly DEF BuildIndex

LEMMA SeedStartsStep ==
    ASSUME Inv, NEW p \in Procs, SeedStarts(p)
    PROVE  Inv'
BY BeginsIdly DEF SeedStarts

LEMMA SeedStep ==
    ASSUME Inv, NEW p \in Procs, Seed(p)
    PROVE  Inv'
<1>1. /\ proc[p].at = "seed" /\ md' \in Drafts \union {md} /\ Ends(p) /\ Raced
      /\ src' = src /\ tmp' = tmp /\ live' = live /\ lock' = lock
      /\ index' = index /\ runs' = runs /\ changes' = changes /\ quiet' = quiet
  BY DEF Seed, counts
<1>2. Moves(p, Idle) /\ Idle.at \notin Ingesting \union Writing
  BY <1>1, EndsMoves, IdleOk DEF Ingesting, Writing
<1>3. /\ runs' \in Runs /\ runs \in Nat /\ md \in Texts
      /\ lock' \in [held : BOOLEAN, old : BOOLEAN]
  BY <1>1, InvParts, Types, NumbersType
<1>4. md' \in Texts /\ runs <= runs'
  BY <1>1, <1>3 DEF Texts
<1>5. /\ doubt \subseteq doubt' /\ doubt' \subseteq {"unfinished", "raced"}
      /\ "raced" \in doubt' \/ Writers = {}
  BY <1>1, InvParts, RacedFacts
<1>6. proc[p].at # "remove"
  BY <1>1
<1>7. QED
  BY <1>1, <1>2, <1>3, <1>4, <1>5, <1>6, SideStep

LEMMA AlreadyHeldStep ==
    ASSUME Inv, NEW p \in Procs, AlreadyHeld(p)
    PROVE  Inv'
<1>1. /\ proc[p].at # "remove" /\ Ends(p)
      /\ src' = src /\ md' = md /\ tmp' = tmp /\ live' = live /\ lock' = lock
      /\ index' = index /\ runs' = runs /\ changes' = changes /\ quiet' = quiet
      /\ doubt' = doubt
  BY DEF AlreadyHeld, counts
<1>2. lock' \in [held : BOOLEAN, old : BOOLEAN]
  BY <1>1, InvParts, Types
<1>3. QED
  BY <1>1, <1>2, EndsIdly

LEMMA AcquireFailsStep ==
    ASSUME Inv, NEW p \in Procs, AcquireFails(p)
    PROVE  Inv'
<1>1. /\ proc[p].at # "remove" /\ Ends(p) /\ lock' = Taken
      /\ src' = src /\ md' = md /\ tmp' = tmp /\ live' = live
      /\ index' = index /\ runs' = runs /\ changes' = changes /\ quiet' = quiet
      /\ doubt' = doubt
  BY DEF AcquireFails, counts
<1>2. QED
  BY <1>1, RemovedTyped, EndsIdly

\* A process moves on, elsewhere than in an ingest or a build.
LEMMA StepsIdly ==
    ASSUME Inv, NEW p \in Procs, NEW x \in {"stale", "relock"}, Step(p, x),
           proc[p].at # "remove", lock' \in [held : BOOLEAN, old : BOOLEAN],
           src' = src, md' = md, tmp' = tmp, live' = live, index' = index, runs' = runs,
           changes' = changes, quiet' = quiet, doubt' = doubt
    PROVE  Inv'
<1> DEFINE a == proc[p]
           c == TaskOf(x, a.run, a.peers, a.way, a.index, a.sha, a.of, a.next, a.got)
<1>1. TypeOK /\ TasksOk /\ CorpusInv /\ IndexInv
  BY InvParts
<1>2. c \in Task
  <2>1. x \in Labels
    BY DEF Labels
  <2>2. QED
    BY <1>1, <2>1, TaskTypes, TaskTyped
<1>3. c.at = x
  BY DEF TaskOf
<1>4. proc' = [proc EXCEPT ![p] = c]
  BY <1>1, Types, ProcAt DEF Step
<1> HIDE DEF c
<1>5. Moves(p, c)
  <2>1. TaskOk(c)
    BY <1>3 DEF TaskOk, Ingesting
  <2>2. QED
    BY <1>2, <1>4, <2>1 DEF Moves
<1>6. c.at \notin Ingesting \union Writing
  BY <1>3 DEF Ingesting, Writing
<1>7. /\ md' \in Texts /\ runs' \in Runs /\ runs \in Nat
      /\ doubt' \subseteq {"unfinished", "raced"}
  BY <1>1, Types, NumbersType
<1>8. runs <= runs'
  BY <1>7
<1>9. QED
  BY <1>5, <1>6, <1>7, <1>8, SideStep

LEMMA FindsStaleStep ==
    ASSUME Inv, NEW p \in Procs, FindsStale(p)
    PROVE  Inv'
<1>1. /\ proc[p].at # "remove" /\ Step(p, "stale")
      /\ src' = src /\ md' = md /\ tmp' = tmp /\ live' = live /\ lock' = lock
      /\ index' = index /\ runs' = runs /\ changes' = changes /\ quiet' = quiet
      /\ doubt' = doubt
  BY DEF FindsStale, counts
<1>2. lock' \in [held : BOOLEAN, old : BOOLEAN]
  BY <1>1, InvParts, Types
<1>3. QED
  BY <1>1, <1>2, StepsIdly

LEMMA RemoveStaleStep ==
    ASSUME Inv, NEW p \in Procs, RemoveStale(p)
    PROVE  Inv'
<1>1. /\ proc[p].at # "remove" /\ Step(p, "relock") /\ lock' = Removed
      /\ src' = src /\ md' = md /\ tmp' = tmp /\ live' = live
      /\ index' = index /\ runs' = runs /\ changes' = changes /\ quiet' = quiet
      /\ doubt' = doubt
  BY DEF RemoveStale, counts
<1>2. QED
  BY <1>1, RemovedTyped, StepsIdly

\* Whoever makes the lock file begins to build.
LEMMA CreatesStep ==
    ASSUME Inv, NEW p \in Procs, proc[p].at \in {"lock", "relock"}, Creates(p)
    PROVE  Inv'
<1> DEFINE a == proc[p]
           c == TaskOf("read", a.run, a.peers, a.way, a.index, a.sha, a.of, 1, a.got)
<1>1. /\ lock' = Taken
      /\ proc' = [proc EXCEPT ![p].at = "read", ![p].next = 1]
      /\ doubt' = IF Writers = {} THEN {"unfinished"} ELSE doubt \union {"raced"}
      /\ src' = src /\ md' = md /\ tmp' = tmp /\ live' = live
      /\ index' = index /\ runs' = runs /\ changes' = changes /\ quiet' = quiet
  BY Zenon DEF Creates, counts
<1>2. TypeOK /\ TasksOk /\ CorpusInv /\ IndexInv
  BY InvParts
<1>3. c \in Task
  <2>1. "read" \in Labels /\ 1 \in 1 .. 4
    BY DEF Labels, Writing
  <2>2. QED
    BY <1>2, <2>1, TaskTypes, TaskTyped
<1>4. c.at = "read" /\ c.next = 1
  BY DEF TaskOf
<1>5. proc' = [proc EXCEPT ![p] = c]
  BY <1>1, <1>2, Types, ProcAtNext
<1> HIDE DEF c
<1>6. Moves(p, c)
  <2>1. TaskOk(c)
    BY <1>4 DEF TaskOk, Ingesting
  <2>2. QED
    BY <1>3, <1>5, <2>1 DEF Moves
<1>7. /\ proc' \in [Procs -> Task] /\ TasksOk' /\ proc'[p] = c
      /\ \A q \in Procs : q # p => proc'[q] = proc[q]
  BY <1>2, <1>6, Moved
<1>8. TypeOK'
  <2>1. doubt' \subseteq {"unfinished", "raced"}
    BY <1>1, <1>2, Types
  <2>2. QED
    BY <1>1, <1>2, <1>7, <2>1, RemovedTyped, Types, TypesTogether
<1>9. CorpusInv'
  <2>1. \A q \in Procs : \/ proc'[q] = proc[q]
                         \/ proc[q].at # "remove" /\ proc'[q].at \notin Ingesting
    BY <1>4, <1>7 DEF Ingesting
  <2>2. runs' \in Nat /\ runs <= runs'
    BY <1>1, <1>2, NumbersType
  <2>3. QED
    BY <1>1, <1>2, <2>1, <2>2, CorpusIdle
<1>10. IndexInv'
  <2>1. "raced" \notin doubt' => Writers = {} /\ doubt' = {"unfinished"}
    BY <1>1
  <2>2. \A q \in Writers' : q = p \/ q \in Writers
    BY <1>7 DEF Writers
  <2>3. WritersInv'
    BY <2>1, <2>2 DEF WritersInv
  <2>4. WriterInv'
    <3> SUFFICES ASSUME NEW q \in Procs, proc'[q].at \in Writing, "raced" \notin doubt'
                 PROVE  WriterAt(q)'
      BY DEF WriterInv, WriterAt
    <3>1. q = p
      BY <2>1, <2>2 DEF Writers
    <3>2. QED
      BY <1>4, <1>7, <3>1 DEF WriterAt
  <2>5. BuiltInv'
    BY <1>1 DEF BuiltInv
  <2>6. QED
    BY <2>3, <2>4, <2>5 DEF IndexInv
<1>11. QED
  BY <1>7, <1>8, <1>9, <1>10 DEF Inv

LEMMA AcquireStep ==
    ASSUME Inv, NEW p \in Procs, Acquire(p)
    PROVE  Inv'
BY CreatesStep DEF Acquire

LEMMA AcquireAgainStep ==
    ASSUME Inv, NEW p \in Procs, AcquireAgain(p)
    PROVE  Inv'
BY CreatesStep DEF AcquireAgain

-----------------------------------------------------------------------------
(* Building the index.                                                     *)

LEMMA TablesFacts ==
    ASSUME NEW n \in 1 .. 2
    PROVE  /\ Tables[n] \in Table
           /\ n = 1 => Tables[n] = "spec_chunks"
           /\ n = 2 => Tables[n] = "signal_table_rows"
           /\ n = Len(Tables) <=> n = 2
           /\ n + 1 \in 1 .. 4
BY DEF Tables, Table

\* What a build does to the task and to the index, as far as the corpus and the
\* types go.
LEMMA BuildStep ==
    ASSUME Inv, NEW p \in Procs, NEW c, Moves(p, c), proc[p].at \in Writing,
           c.at \in Writing, index' \in Index, WriterAt(p)',
           src' = src, md' = md, tmp' = tmp, live' = live, lock' = lock, runs' = runs,
           changes' = changes, quiet' = quiet,
           doubt \subseteq doubt', doubt' \subseteq {"unfinished", "raced"}
    PROVE  Inv'
<1>1. TypeOK /\ TasksOk /\ CorpusInv /\ IndexInv
  BY InvParts
<1>2. /\ proc' \in [Procs -> Task] /\ TasksOk' /\ proc'[p] = c
      /\ \A q \in Procs : q # p => proc'[q] = proc[q]
  BY <1>1, Moved
<1>3. TypeOK'
  BY <1>1, <1>2, Types, TypesTogether
<1>4. CorpusInv'
  <2>1. \A q \in Procs : \/ proc'[q] = proc[q]
                         \/ proc[q].at # "remove" /\ proc'[q].at \notin Ingesting
    BY <1>2 DEF Ingesting, Writing
  <2>2. runs' \in Nat /\ runs <= runs'
    BY <1>1, NumbersType
  <2>3. QED
    BY <1>1, <2>1, <2>2, CorpusIdle
<1>5. IndexInv'
  BY <1>1, <1>2, BuildMove
<1>6. QED
  BY <1>2, <1>3, <1>4, <1>5 DEF Inv

\* An undisturbed corpus with a manifest says itself what its text is of.
LEMMA ManifestIsTrue ==
    ASSUME TypeOK, CorpusInv, Undisturbed, Has(live, "manifest")
    PROVE  /\ Has(live, "primary") /\ IsOf(Get(live, "primary").of)
           /\ RecordedSha = Get(live, "primary").of
<1>1. live # {}
  BY DEF Has
<1>2. Has(live, "primary")
  BY <1>1 DEF CorpusInv, CorpusOfOneIngest
<1>3. \A f, g \in live : f.part # "root" /\ g.part # "root" => f.of = g.of
  BY <1>1 DEF CorpusInv, CorpusOfOneIngest
<1>4. /\ Get(live, "primary") \in live /\ Get(live, "primary").part = "primary"
      /\ Get(live, "manifest") \in live /\ Get(live, "manifest").part = "manifest"
  BY <1>2, GetFacts
<1>5. Get(live, "manifest").of = Get(live, "primary").of
  BY <1>3, <1>4
<1>6. QED
  BY <1>2, <1>5 DEF IsOf, RecordedSha

LEMMA ContentFacts ==
    ASSUME TypeOK, NEW table
    PROVE  /\ Content(table) \in TableState
           /\ Has(live, "primary") => Content(table).of = Get(live, "primary").of
           /\ table = "signal_table_rows" => Content(table).md = md
<1>1. Has(live, "primary") => Get(live, "primary").of \in Versions
  BY Types, GetFacts, FileFacts
<1>2. md \in Texts
  BY Types
<1>3. QED
  BY <1>1, <1>2 DEF Content, TableState, Sources, Texts

LEMMA ReadStep ==
    ASSUME Inv, NEW p \in Procs, Read(p)
    PROVE  Inv'
<1> DEFINE a == proc[p]
           n == a.next
           table == Tables[n]
           got == Content(table)
           c == TaskOf("drop", a.run, a.peers, a.way, a.index, a.sha, a.of, n, got)
<1>1. /\ a.at = "read"
      /\ (table = "spec_chunks") => Has(live, "manifest")
      /\ proc' = [proc EXCEPT ![p].at = "drop", ![p].got = got]
      /\ doubt' = IF Undisturbed THEN doubt ELSE doubt \union {"raced"}
      /\ src' = src /\ md' = md /\ tmp' = tmp /\ live' = live /\ lock' = lock
      /\ index' = index /\ runs' = runs /\ changes' = changes /\ quiet' = quiet
  BY Zenon DEF Read, counts
<1>2. TypeOK /\ TasksOk /\ CorpusInv /\ IndexInv
  BY InvParts
<1>3. n \in 1 .. 2
  BY <1>1, <1>2 DEF TasksOk, TaskOk
<1>4. /\ n = 1 => table = "spec_chunks"
      /\ n = 2 => table = "signal_table_rows"
  BY <1>3, TablesFacts
<1>5. /\ got \in TableState
      /\ Has(live, "primary") => got.of = Get(live, "primary").of
      /\ n = 2 => got.md = md
  BY <1>2, <1>4, ContentFacts
<1> HIDE DEF got, table
<1>6. c \in Task
  <2>1. "drop" \in Labels
    BY DEF Labels, Writing
  <2>2. QED
    BY <1>2, <1>5, <2>1, TaskTypes, TaskTyped
<1>7. c.at = "drop" /\ c.next = n /\ c.got = got
  BY DEF TaskOf
<1>8. proc' = [proc EXCEPT ![p] = c]
  BY <1>1, <1>2, Types, ProcAtGot
<1> HIDE DEF c
<1>9. Moves(p, c)
  <2>1. TaskOk(c)
    BY <1>3, <1>7 DEF TaskOk, Ingesting
  <2>2. QED
    BY <1>6, <1>8, <2>1 DEF Moves
<1>10. proc'[p] = c
  BY <1>2, <1>9, Moved
<1>11. WriterAt(p)'
  <2> SUFFICES ASSUME "raced" \notin doubt'
               PROVE  /\ n = 1 => IsOf(got.of)
                      /\ n > 1 => IsOf(index.tables["spec_chunks"].of)
    BY <1>1, <1>3, <1>5, <1>7, <1>10 DEF WriterAt, IsOf, Has, Get
  <2>1. Undisturbed /\ "raced" \notin doubt
    BY <1>1
  <2>2. n = 1 => IsOf(got.of)
    <3>1. n = 1 => Has(live, "manifest")
      BY <1>1, <1>4
    <3>2. QED
      BY <1>2, <1>5, <2>1, <3>1, ManifestIsTrue
  <2>3. n > 1 => IsOf(index.tables["spec_chunks"].of)
    BY <1>1, <1>2, <2>1 DEF IndexInv, WriterInv, WriterAt, Writing
  <2>4. QED
    BY <2>2, <2>3
<1>12. /\ index' \in Index /\ doubt \subseteq doubt' /\ doubt' \subseteq {"unfinished", "raced"}
       /\ a.at \in Writing /\ c.at \in Writing
  BY <1>1, <1>2, <1>7, Types DEF Writing
<1>13. QED
  BY <1>1, <1>9, <1>11, <1>12, BuildStep

\* What writing a table does to the index.
LEMMA IndexPut ==
    ASSUME index \in Index, NEW t \in Table, NEW x \in TableState,
           index' = [index EXCEPT !.tables[t] = x]
    PROVE  /\ index' \in Index
           /\ index'.tables[t] = x
           /\ \A u \in Table : u # t => index'.tables[u] = index.tables[u]
           /\ index'.stamp = index.stamp
<1> DEFINE tables == [index.tables EXCEPT ![t] = x]
           other == [tables |-> tables, stamp |-> index.stamp, embedder |-> index.embedder]
<1>1. index = [tables |-> index.tables, stamp |-> index.stamp, embedder |-> index.embedder]
  BY DEF Index
<1>2. tables \in [Table -> TableState]
  BY DEF Index
<1>3. index' = [index EXCEPT !.tables = tables]
  OBVIOUS
<1>4. [index EXCEPT !.tables = tables] = other
  BY DEF Index
<1>5. index' = other
  BY <1>3, <1>4, Zenon
<1>6. other \in Index
  BY <1>2 DEF Index
<1>7. /\ tables[t] = x
      /\ \A u \in Table : u # t => tables[u] = index.tables[u]
  BY DEF Index
<1>8. other.tables = tables /\ other.stamp = index.stamp
  OBVIOUS
<1> HIDE DEF tables, other
<1>9. QED
  BY <1>5, <1>6, <1>7, <1>8

LEMMA DropStep ==
    ASSUME Inv, NEW p \in Procs, Drop(p)
    PROVE  Inv'
<1> DEFINE a == proc[p]
           n == a.next
           table == Tables[n]
           c == TaskOf("put", a.run, a.peers, a.way, a.index, a.sha, a.of, n, a.got)
<1>1. /\ a.at = "drop"
      /\ index' = [index EXCEPT !.tables[table] = NoTable]
      /\ proc' = [proc EXCEPT ![p].at = "put"]
      /\ src' = src /\ md' = md /\ tmp' = tmp /\ live' = live /\ lock' = lock
      /\ runs' = runs /\ changes' = changes /\ quiet' = quiet /\ doubt' = doubt
  BY Zenon DEF Drop, Step, counts
<1>2. TypeOK /\ TasksOk /\ CorpusInv /\ IndexInv
  BY InvParts
<1>3. n \in 1 .. 2
  BY <1>1, <1>2 DEF TasksOk, TaskOk
<1>4. /\ table \in Table
      /\ n = 2 => table = "signal_table_rows"
  BY <1>3, TablesFacts
<1> HIDE DEF table
<1>5. /\ index' \in Index
      /\ \A u \in Table : u # table => index'.tables[u] = index.tables[u]
  BY <1>1, <1>2, <1>4, Types, NoTableTyped, IndexPut
<1>6. c \in Task
  <2>1. "put" \in Labels
    BY DEF Labels, Writing
  <2>2. QED
    BY <1>2, <2>1, TaskTypes, TaskTyped
<1>7. c.at = "put" /\ c.next = n /\ c.got = a.got
  BY DEF TaskOf
<1>8. proc' = [proc EXCEPT ![p] = c]
  BY <1>1, <1>2, Types, ProcAt
<1> HIDE DEF c
<1>9. Moves(p, c)
  <2>1. TaskOk(c)
    BY <1>3, <1>7 DEF TaskOk, Ingesting
  <2>2. QED
    BY <1>6, <1>8, <2>1 DEF Moves
<1>10. proc'[p] = c
  BY <1>2, <1>9, Moved
<1>11. WriterAt(p)'
  <2>1. WriterAt(p)
    BY <1>2 DEF IndexInv, WriterInv
  <2>2. n > 1 => index'.tables["spec_chunks"] = index.tables["spec_chunks"]
    BY <1>3, <1>4, <1>5 DEF Table
  <2>3. QED
    BY <1>1, <1>3, <1>7, <1>10, <2>1, <2>2 DEF WriterAt, IsOf, Has, Get, Writing
<1>12. /\ doubt \subseteq doubt' /\ doubt' \subseteq {"unfinished", "raced"}
       /\ a.at \in Writing /\ c.at \in Writing
  BY <1>1, <1>2, <1>7, Types DEF Writing
<1>13. QED
  BY <1>1, <1>5, <1>9, <1>11, <1>12, BuildStep

LEMMA PutTableStep ==
    ASSUME Inv, NEW p \in Procs, PutTable(p)
    PROVE  Inv'
<1> DEFINE a == proc[p]
           n == a.next
           table == Tables[n]
           at == IF n = Len(Tables) THEN "manifest" ELSE "read"
           c == TaskOf(at, a.run, a.peers, a.way, a.index, a.sha, a.of, n + 1, NoTable)
<1>1. /\ a.at = "put"
      /\ index' = [index EXCEPT !.tables[table] = a.got]
      /\ proc' = [proc EXCEPT ![p].at = at, ![p].next = @ + 1, ![p].got = NoTable]
      /\ src' = src /\ md' = md /\ tmp' = tmp /\ live' = live /\ lock' = lock
      /\ runs' = runs /\ changes' = changes /\ quiet' = quiet /\ doubt' = doubt
  BY Zenon DEF PutTable, counts
<1>2. TypeOK /\ TasksOk /\ CorpusInv /\ IndexInv
  BY InvParts
<1>3. n \in 1 .. 2
  BY <1>1, <1>2 DEF TasksOk, TaskOk
<1>4. /\ table \in Table
      /\ n = 1 => table = "spec_chunks" /\ at = "read"
      /\ n = 2 => table = "signal_table_rows" /\ at = "manifest"
  BY <1>3, TablesFacts
<1> HIDE DEF table, at
<1>5. /\ index' \in Index
      /\ index'.tables[table] = a.got
      /\ \A u \in Table : u # table => index'.tables[u] = index.tables[u]
  BY <1>1, <1>2, <1>4, Types, TaskTypes, IndexPut
<1>6. c \in Task
  <2>1. at \in Labels /\ n + 1 \in 1 .. 4
    BY <1>3, <1>4 DEF Labels, Writing
  <2>2. QED
    BY <1>2, <2>1, NoTableTyped, TaskTypes, TaskTyped
<1>7. c.at = at /\ c.next = n + 1
  BY DEF TaskOf
<1>8. proc' = [proc EXCEPT ![p] = c]
  <2>1. proc' = [proc EXCEPT ![p].at = at, ![p].next = @ + 1, ![p].got = NoTable]
    BY <1>1, Zenon
  <2>2. QED
    BY <1>2, <2>1, Types, ProcPut
<1> HIDE DEF c
<1>9. Moves(p, c)
  <2>1. n = 1 \/ n = 2
    BY <1>3
  <2>2. TaskOk(c)
    BY <1>4, <1>7, <2>1 DEF TaskOk, Ingesting
  <2>3. QED
    BY <1>6, <1>8, <2>2 DEF Moves
<1>10. proc'[p] = c
  BY <1>2, <1>9, Moved
<1>11. WriterAt(p)'
  <2>1. WriterAt(p)
    BY <1>2 DEF IndexInv, WriterInv
  <2>2. SUFFICES ASSUME "raced" \notin doubt
                 PROVE  /\ IsOf(index'.tables["spec_chunks"].of)
                        /\ n = 2 => index'.tables["signal_table_rows"].md = md
    BY <1>1, <1>3, <1>4, <1>7, <1>10 DEF WriterAt, IsOf, Has, Get
  <2>3. CASE n = 1
    <3>1. IsOf(a.got.of)
      BY <1>1, <2>1, <2>2, <2>3 DEF WriterAt, Writing
    <3>2. QED
      BY <1>4, <1>5, <2>3, <3>1
  <2>4. CASE n = 2
    <3>1. IsOf(index.tables["spec_chunks"].of) /\ a.got.md = md
      BY <1>1, <2>1, <2>2, <2>4 DEF WriterAt, Writing
    <3>2. index'.tables["spec_chunks"] = index.tables["spec_chunks"]
      BY <1>4, <1>5, <2>4 DEF Table
    <3>3. QED
      BY <1>4, <1>5, <2>4, <3>1, <3>2
  <2>5. QED
    BY <1>3, <2>3, <2>4
<1>12. /\ doubt \subseteq doubt' /\ doubt' \subseteq {"unfinished", "raced"}
       /\ a.at \in Writing
  BY <1>1, <1>2, Types DEF Writing
<1>13. c.at \in Writing
  BY <1>3, <1>4, <1>7 DEF Writing
<1>14. QED
  BY <1>1, <1>5, <1>9, <1>11, <1>12, <1>13, BuildStep

\* What setting one of the other fields does to the index.
LEMMA IndexStamp ==
    ASSUME index \in Index, NEW x \in Stamp, index' = [index EXCEPT !.stamp = x]
    PROVE  index' \in Index /\ index'.tables = index.tables /\ index'.stamp = x
BY DEF Index

LEMMA IndexEmbedder ==
    ASSUME index \in Index, index' = [index EXCEPT !.embedder = TRUE]
    PROVE  index' \in Index /\ index'.tables = index.tables /\ index'.stamp = index.stamp
BY DEF Index

LEMMA RecordedType == ASSUME TypeOK PROVE RecordedSha \in Sources
<1>1. Has(live, "manifest") => Get(live, "manifest").of \in Versions
  BY Types, GetFacts, FileFacts
<1>2. QED
  BY <1>1 DEF RecordedSha, Sources

LEMMA SaveManifestStep ==
    ASSUME Inv, NEW p \in Procs, SaveManifest(p)
    PROVE  Inv'
<1> DEFINE a == proc[p]
           yes == TRUE
           stamp == [saved |-> yes, of |-> RecordedSha, md |-> md]
           c == TaskOf("embedder", a.run, a.peers, a.way, a.index, a.sha, a.of, a.next, a.got)
<1>1. /\ a.at = "manifest"
      /\ index' = [index EXCEPT !.stamp = stamp]
      /\ proc' = [proc EXCEPT ![p].at = "embedder"]
      /\ src' = src /\ md' = md /\ tmp' = tmp /\ live' = live /\ lock' = lock
      /\ runs' = runs /\ changes' = changes /\ quiet' = quiet /\ doubt' = doubt
  BY Zenon DEF SaveManifest, Step, counts
<1>2. TypeOK /\ TasksOk /\ CorpusInv /\ IndexInv
  BY InvParts
<1>3. a.next = 3
  BY <1>1, <1>2 DEF TasksOk, TaskOk
<1>4. stamp \in Stamp /\ stamp.of = RecordedSha /\ stamp.md = md
  BY <1>2, Types, RecordedType DEF Stamp
<1> HIDE DEF stamp
<1>5. index' \in Index /\ index'.tables = index.tables /\ index'.stamp = stamp
  BY <1>1, <1>2, <1>4, Types, IndexStamp
<1>6. c \in Task
  <2>1. "embedder" \in Labels
    BY DEF Labels, Writing
  <2>2. QED
    BY <1>2, <2>1, TaskTypes, TaskTyped
<1>7. c.at = "embedder" /\ c.next = 3
  BY <1>3 DEF TaskOf
<1>8. proc' = [proc EXCEPT ![p] = c]
  BY <1>1, <1>2, Types, ProcAt
<1> HIDE DEF c
<1>9. Moves(p, c)
  <2>1. TaskOk(c)
    BY <1>7 DEF TaskOk, Ingesting
  <2>2. QED
    BY <1>6, <1>8, <2>1 DEF Moves
<1>10. proc'[p] = c
  BY <1>2, <1>9, Moved
<1>11. WriterAt(p)'
  <2>1. WriterAt(p)
    BY <1>2 DEF IndexInv, WriterInv
  <2>2. RecordedSha' = RecordedSha
    BY <1>1 DEF RecordedSha, Has, Get
  <2>3. \A v : IsOf(v)' <=> IsOf(v)
    BY <1>1 DEF IsOf, Has, Get
  <2>4. QED
    BY <1>1, <1>3, <1>4, <1>5, <1>7, <1>10, <2>1, <2>2, <2>3 DEF WriterAt, Writing
<1>12. /\ doubt \subseteq doubt' /\ doubt' \subseteq {"unfinished", "raced"}
       /\ a.at \in Writing /\ c.at \in Writing
  BY <1>1, <1>2, <1>7, Types DEF Writing
<1>13. QED
  BY <1>1, <1>5, <1>9, <1>11, <1>12, BuildStep

LEMMA SaveEmbedderStep ==
    ASSUME Inv, NEW p \in Procs, SaveEmbedder(p)
    PROVE  Inv'
<1>1. /\ proc[p].at = "embedder" /\ Ends(p)
      /\ index' = [index EXCEPT !.embedder = TRUE]
      /\ lock' = Removed
      /\ doubt' = doubt \ {"unfinished"}
      /\ src' = src /\ md' = md /\ tmp' = tmp /\ live' = live
      /\ runs' = runs /\ changes' = changes /\ quiet' = quiet
  BY Zenon DEF SaveEmbedder, counts
<1>2. TypeOK /\ TasksOk /\ CorpusInv /\ IndexInv
  BY InvParts
<1>3. /\ proc' \in [Procs -> Task] /\ TasksOk' /\ proc'[p] = Idle
      /\ \A q \in Procs : q # p => proc'[q] = proc[q]
  BY <1>1, <1>2, EndsMoves, Moved
<1>4. Idle.at = "idle"
  BY IdleOk
<1>5. index' \in Index /\ index'.tables = index.tables /\ index'.stamp = index.stamp
  BY <1>1, <1>2, Types, IndexEmbedder
<1>6. TypeOK'
  <2>1. doubt' \subseteq {"unfinished", "raced"} /\ lock' \in [held : BOOLEAN, old : BOOLEAN]
    BY <1>1, <1>2, Types, RemovedTyped
  <2>2. src' \in Versions /\ md' \in Texts /\ tmp' \subseteq File /\ live' \subseteq File
        /\ runs' \in Runs /\ changes' \in 0 .. MaxChanges /\ quiet' \subseteq Runs
    BY <1>1, <1>2, Types
  <2>3. QED
    BY <1>3, <1>5, <2>1, <2>2, TypesTogether
<1>7. CorpusInv'
  <2>1. \A q \in Procs : \/ proc'[q] = proc[q]
                         \/ proc[q].at # "remove" /\ proc'[q].at \notin Ingesting
    BY <1>1, <1>3, <1>4 DEF Ingesting
  <2>2. runs' \in Nat /\ runs <= runs'
    BY <1>1, <1>2, NumbersType
  <2>3. QED
    BY <1>1, <1>2, <2>1, <2>2, CorpusIdle
<1>8. IndexInv'
  <2>1. p \in Writers /\ p \notin Writers' /\ Writers' \subseteq Writers
    BY <1>1, <1>3, <1>4 DEF Writers, Writing
  <2>2. "raced" \notin doubt' => "raced" \notin doubt /\ Writers' = {}
    BY <1>1, <1>2, <2>1 DEF IndexInv, WritersInv
  <2>3. WritersInv'
    BY <2>2 DEF WritersInv
  <2>4. WriterInv'
    BY <2>2 DEF WriterInv, WriterAt, Writers
  <2>5. BuiltInv'
    <3> SUFFICES ASSUME doubt' = {}
                 PROVE  /\ index.stamp.of = index.tables["spec_chunks"].of
                        /\ index.stamp.md = index.tables["signal_table_rows"].md
      BY <1>5 DEF BuiltInv
    <3>1. WriterAt(p) /\ "raced" \notin doubt
      BY <1>2, <2>2 DEF IndexInv, WriterInv
    <3>2. proc[p].next = 3
      BY <1>1, <1>2 DEF TasksOk, TaskOk
    <3>3. /\ IsOf(index.tables["spec_chunks"].of)
          /\ index.tables["signal_table_rows"].md = md
          /\ index.stamp.of = RecordedSha /\ index.stamp.md = md
      BY <1>1, <3>1, <3>2 DEF WriterAt, Writing
    <3>4. QED
      BY <3>3 DEF IsOf, RecordedSha
  <2>6. QED
    BY <2>3, <2>4, <2>5 DEF IndexInv
<1>9. QED
  BY <1>3, <1>6, <1>7, <1>8 DEF Inv

-----------------------------------------------------------------------------
(* The world.                                                              *)

LEMMA EditStep ==
    ASSUME Inv, Edit
    PROVE  Inv'
<1>1. /\ changes < MaxChanges /\ changes' = changes + 1
      /\ md' \in Drafts /\ Raced
      /\ src' = src /\ tmp' = tmp /\ live' = live /\ lock' = lock /\ index' = index
      /\ proc' = proc /\ runs' = runs /\ quiet' = quiet
  BY DEF Edit, Changes
<1>2. TypeOK /\ TasksOk /\ CorpusInv /\ IndexInv
  BY InvParts
<1>3. doubt \subseteq doubt' /\ doubt' \subseteq {"unfinished", "raced"}
      /\ ("raced" \in doubt' \/ Writers = {})
  BY <1>1, <1>2, RacedFacts
<1>4. TypeOK' /\ TasksOk'
  <2>1. changes' \in 0 .. MaxChanges /\ md' \in Texts
    BY <1>1, <1>2, Types, CorpusAssumption DEF Texts
  <2>2. proc' \in [Procs -> Task]
    BY <1>1, <1>2, Types DEF ProcType
  <2>3. QED
    BY <1>1, <1>2, <1>3, <2>1, <2>2, Types, TypesTogether DEF TasksOk
<1>5. CorpusInv'
  <2>1. runs' \in Nat /\ runs <= runs'
    BY <1>1, <1>2, NumbersType
  <2>2. QED
    BY <1>1, <1>2, <2>1, CorpusIdle
<1>6. IndexInv'
  BY <1>1, <1>2, <1>3, IndexIdle
<1>7. QED
  BY <1>4, <1>5, <1>6 DEF Inv

LEMMA ReviseStep ==
    ASSUME Inv, Revise
    PROVE  Inv'
<1> DEFINE R == {proc[p].run : p \in {q \in Procs : proc[q].at \in Ingesting}}
<1>1. /\ changes < MaxChanges /\ changes' = changes + 1
      /\ src' \in Versions /\ quiet' = quiet \ R
      /\ md' = md /\ tmp' = tmp /\ live' = live /\ lock' = lock /\ index' = index
      /\ proc' = proc /\ runs' = runs /\ doubt' = doubt
  BY DEF Revise, Changes
<1>2. TypeOK /\ TasksOk /\ CorpusInv /\ IndexInv
  BY InvParts
<1>3. \A q \in Procs : Ingests(q) => proc[q].run \in R
  BY DEF Ingests
<1> HIDE DEF R
<1>4. TypeOK' /\ TasksOk'
  <2>1. changes' \in 0 .. MaxChanges
    BY <1>1, <1>2, Types, CorpusAssumption
  <2>2. proc' \in [Procs -> Task] /\ quiet' \subseteq Runs
    BY <1>1, <1>2, Types DEF ProcType
  <2>3. QED
    BY <1>1, <1>2, <2>1, <2>2, Types, TypesTogether DEF TasksOk
<1>5. CorpusInv'
  <2>1. Undisturbed' => Undisturbed
    BY <1>1 DEF Undisturbed
  <2>2. QED
    BY <1>1, <1>2, <1>3, <2>1, CorpusDisturbed
<1>6. IndexInv'
  BY <1>1, <1>2, SameLive, IndexIdle
<1>7. QED
  BY <1>4, <1>5, <1>6 DEF Inv

LEMMA AgesStep ==
    ASSUME Inv, Ages
    PROVE  Inv'
<1>1. /\ lock' = [lock EXCEPT !.old = TRUE]
      /\ src' = src /\ md' = md /\ tmp' = tmp /\ live' = live /\ index' = index
      /\ proc' = proc /\ runs' = runs /\ changes' = changes /\ quiet' = quiet
      /\ doubt' = doubt
  BY DEF Ages, counts
<1>2. TypeOK /\ TasksOk /\ CorpusInv /\ IndexInv
  BY InvParts
<1>3. TypeOK' /\ TasksOk'
  <2>1. lock' \in [held : BOOLEAN, old : BOOLEAN]
    BY <1>1, <1>2, Types
  <2>2. proc' \in [Procs -> Task]
    BY <1>1, <1>2, Types DEF ProcType
  <2>3. QED
    BY <1>1, <1>2, <2>1, <2>2, Types, TypesTogether DEF TasksOk
<1>4. CorpusInv'
  <2>1. runs' \in Nat /\ runs <= runs'
    BY <1>1, <1>2, NumbersType
  <2>2. QED
    BY <1>1, <1>2, <2>1, CorpusIdle
<1>5. IndexInv'
  BY <1>1, <1>2, SameLive, IndexIdle
<1>6. QED
  BY <1>3, <1>4, <1>5 DEF Inv

LEMMA StutterStep ==
    ASSUME Inv, UNCHANGED vars
    PROVE  Inv'
<1>1. /\ src' = src /\ md' = md /\ tmp' = tmp /\ live' = live /\ index' = index /\ lock' = lock
      /\ proc' = proc /\ runs' = runs /\ changes' = changes /\ quiet' = quiet
      /\ doubt' = doubt
  BY DEF vars, counts
<1>2. TypeOK /\ TasksOk /\ CorpusInv /\ IndexInv
  BY InvParts
<1>3. TypeOK' /\ TasksOk'
  <2>1. proc' \in [Procs -> Task]
    BY <1>1, <1>2, Types DEF ProcType
  <2>2. QED
    BY <1>1, <1>2, <2>1, Types, TypesTogether DEF TasksOk
<1>4. CorpusInv'
  <2>1. runs' \in Nat /\ runs <= runs'
    BY <1>1, <1>2, NumbersType
  <2>2. QED
    BY <1>1, <1>2, <2>1, CorpusIdle
<1>5. IndexInv'
  BY <1>1, <1>2, SameLive, IndexIdle
<1>6. QED
  BY <1>3, <1>4, <1>5 DEF Inv

-----------------------------------------------------------------------------
(* The initial states.                                                     *)

\* The corpus and the index a project begins with.
LEMMA InitFacts ==
    ASSUME Init
    PROVE  /\ src \in Versions /\ md \in Texts
           /\ live \subseteq File /\ index \in Index
           /\ \A f \in live : f.run = 1 /\ (f.part # "root" => f.of = src)
           /\ \A f, g \in live : f.part = g.part => f = g
           /\ live # {} => Has(live, "primary") /\ Has(live, "manifest")
           /\ index.stamp.of = index.tables["spec_chunks"].of
           /\ index.stamp.md = index.tables["signal_table_rows"].md
<1>1. src \in Versions /\ (New \/ Indexed)
  BY DEF Init
<1>2. CASE New
  <2> DEFINE tables == [t \in Table |-> NoTable]
  <2>1. md = Missing /\ live = {}
    BY <1>2 DEF New
  <2>2. index.tables = tables /\ index.stamp = NoStamp /\ index \in Index
    <3>1. index = [tables |-> tables, stamp |-> NoStamp, embedder |-> FALSE]
      BY <1>2 DEF New
    <3>2. tables \in [Table -> TableState] /\ NoStamp \in Stamp
      BY NoTableTyped DEF NoStamp, Stamp, Sources, Texts
    <3> HIDE DEF tables
    <3>3. QED
      BY <3>1, <3>2 DEF Index
  <2>3. /\ index.tables["spec_chunks"] = NoTable
        /\ index.tables["signal_table_rows"] = NoTable
    BY <2>2 DEF Table
  <2>4. NoTable.of = NoStamp.of /\ NoTable.md = NoStamp.md
    BY DEF NoTable, NoStamp
  <2>5. QED
    BY <1>1, <2>1, <2>2, <2>3, <2>4 DEF Texts
<1>3. CASE Indexed
  <2> DEFINE yes == TRUE
             tables == [t \in Table |-> [made |-> yes, of |-> src,
                                         md |-> IF t = "signal_table_rows" THEN md ELSE Missing]]
             stamp == [saved |-> yes, of |-> src, md |-> md]
  <2>1. md \in Drafts
    BY <1>3 DEF Indexed
  <2>2. PICK parts \in {{"primary", "manifest", "format"},
                        {"primary", "peers", "manifest", "format"}} :
           live = {Root(1)} \union {[part |-> part, run |-> 1, of |-> src] : part \in parts}
    BY <1>3 DEF Indexed
  <2>3. \A f \in live :
           \/ f = Root(1)
           \/ \E part \in parts : f = [part |-> part, run |-> 1, of |-> src]
    BY <2>2
  <2>4. parts \subseteq {"primary", "peers", "manifest", "format"}
        /\ "primary" \in parts /\ "manifest" \in parts
    OBVIOUS
  <2>5. Root(1) \in File /\ Root(1).run = 1 /\ Root(1).part = "root"
    BY RunsType, RootFile DEF Root
  <2>6. \A part \in parts : [part |-> part, run |-> 1, of |-> src] \in File
    BY <1>1, <2>4, RunsType DEF File
  <2>7. live \subseteq File
    BY <2>3, <2>5, <2>6
  <2>8. \A f \in live : f.run = 1 /\ (f.part # "root" => f.of = src)
    BY <2>3, <2>5
  <2>9. \A f, g \in live : f.part = g.part => f = g
    BY <2>3, <2>4, <2>5
  <2>10. Has(live, "primary") /\ Has(live, "manifest")
    <3>1. /\ [part |-> "primary", run |-> 1, of |-> src] \in live
          /\ [part |-> "manifest", run |-> 1, of |-> src] \in live
      BY <2>2, <2>4
    <3>2. QED
      BY <3>1 DEF Has
  <2>11. index = [tables |-> tables, stamp |-> stamp, embedder |-> yes]
    BY <1>3, Zenon DEF Indexed
  <2>12. tables \in [Table -> TableState] /\ stamp \in Stamp /\ yes \in BOOLEAN
    BY <1>1, <2>1 DEF TableState, Stamp, Sources, Texts
  <2>13. stamp.of = src /\ stamp.md = md
    OBVIOUS
  <2>14. tables["spec_chunks"].of = src /\ tables["signal_table_rows"].md = md
    BY DEF Table
  <2> HIDE DEF tables, stamp, yes
  <2>15. index.tables = tables /\ index.stamp = stamp /\ index \in Index
    BY <2>11, <2>12 DEF Index
  <2>16. QED
    BY <1>1, <2>1, <2>7, <2>8, <2>9, <2>10, <2>13, <2>14, <2>15 DEF Texts
<1>4. QED
  BY <1>1, <1>2, <1>3

LEMMA InvInit == ASSUME Init PROVE Inv
<1>1. /\ tmp = {} /\ lock = [held |-> FALSE, old |-> FALSE]
      /\ proc = [p \in Procs |-> Idle]
      /\ runs = 1 /\ changes = 0 /\ quiet = {1} /\ doubt = {}
  BY DEF Init
<1>2. /\ src \in Versions /\ md \in Texts
      /\ live \subseteq File /\ index \in Index
      /\ \A f \in live : f.run = 1 /\ (f.part # "root" => f.of = src)
      /\ \A f, g \in live : f.part = g.part => f = g
      /\ live # {} => Has(live, "primary") /\ Has(live, "manifest")
      /\ index.stamp.of = index.tables["spec_chunks"].of
      /\ index.stamp.md = index.tables["signal_table_rows"].md
  BY InitFacts
<1>3. \A p \in Procs : proc[p] = Idle
  BY <1>1
<1>4. \A p \in Procs : proc[p].at = "idle"
  BY <1>3, IdleOk
<1>5. TypeOK
  <2>1. lock \in [held : BOOLEAN, old : BOOLEAN]
    BY <1>1
  <2>2. proc \in [Procs -> Task]
    BY <1>1, IdleTask
  <2>3. runs \in Runs /\ changes \in 0 .. MaxChanges /\ quiet \subseteq Runs
    BY <1>1, RunsType, CorpusAssumption
  <2>4. tmp \subseteq File /\ doubt \subseteq {"unfinished", "raced"}
    BY <1>1
  <2>5. QED
    BY <1>2, <2>1, <2>2, <2>3, <2>4
       DEF TypeOK, Texts, Index, TableState, Stamp, Sources, Task
<1>6. TasksOk
  BY <1>3, IdleOk DEF TasksOk
<1>7. CorpusInv
  <2>1. \A p \in Procs : ~Ingests(p)
    BY <1>4 DEF Ingests, Ingesting
  <2>2. RunsInv
    BY <1>1, <1>2, <2>1 DEF RunsInv
  <2>3. AloneInv /\ SourceInv
    BY <2>1 DEF AloneInv, SourceInv, IsQuiet
  <2>4. NamesInv
    BY <1>1, <1>2 DEF NamesInv
  <2>5. TmpInv /\ CacheInv
    BY <1>4 DEF TmpInv, TmpAt, CacheInv, CacheAt, Filling
  <2>6. CorpusOfOneIngest
    BY <1>2 DEF CorpusOfOneIngest
  <2>7. QED
    BY <2>2, <2>3, <2>4, <2>5, <2>6 DEF CorpusInv
<1>8. IndexInv
  <2>1. Writers = {}
    BY <1>4 DEF Writers, Writing
  <2>2. QED
    BY <1>1, <1>2, <2>1 DEF IndexInv, WritersInv, WriterInv, WriterAt, BuiltInv, Writers
<1>9. QED
  BY <1>5, <1>6, <1>7, <1>8 DEF Inv

-----------------------------------------------------------------------------
(* The theorems.                                                           *)

LEMMA InvStep == ASSUME Inv, [Next]_vars PROVE Inv'
<1>1. ASSUME NEW p \in Procs, Ingest(p) \/ Refresh(p) \/ Load(p) \/ Clean(p) \/ WritePart(p)
      PROVE  Inv'
  BY <1>1, IngestStep, RefreshStep, LoadStep, CleanStep, WritePartStep
<1>2. ASSUME NEW p \in Procs,
             RemoveFile(p) \/ RemoveRoot(p) \/ Rename(p) \/ RenameFails(p) \/ WriteCache(p)
      PROVE  Inv'
  BY <1>2, RemoveFileStep, RemoveRootStep, RenameStep, RenameFailsStep, WriteCacheStep
<1>3. ASSUME NEW p \in Procs,
             \/ BuildIndex(p) \/ Acquire(p) \/ AlreadyHeld(p) \/ AcquireFails(p)
             \/ FindsStale(p) \/ RemoveStale(p) \/ AcquireAgain(p)
      PROVE  Inv'
  BY <1>3, BuildIndexStep, AcquireStep, AlreadyHeldStep, AcquireFailsStep, FindsStaleStep,
     RemoveStaleStep, AcquireAgainStep
<1>4. ASSUME NEW p \in Procs,
             \/ Read(p) \/ Drop(p) \/ PutTable(p) \/ SaveManifest(p) \/ SaveEmbedder(p)
             \/ Fails(p) \/ Killed(p) \/ SeedStarts(p) \/ Seed(p)
      PROVE  Inv'
  BY <1>4, ReadStep, DropStep, PutTableStep, SaveManifestStep, SaveEmbedderStep, FailsStep,
     KilledStep, SeedStartsStep, SeedStep
<1>5. CASE Edit \/ Revise \/ Ages \/ UNCHANGED vars
  BY <1>5, EditStep, ReviseStep, AgesStep, StutterStep
<1>6. QED
  BY <1>1, <1>2, <1>3, <1>4, <1>5 DEF Next

\* What holds between the files, the processes and the history, whatever the
\* commands, their order, their failures and their kills.
THEOREM Invariant == Spec => []Inv
<1>1. Init => Inv
  BY InvInit
<1>2. Inv /\ [Next]_vars => Inv'
  BY InvStep
<1>3. QED
  BY <1>1, <1>2, PTL DEF Spec

\* Every variable keeps its type: no file of a kind that ingest does not write,
\* no run past the last one.
THEOREM TypeCorrect == Spec => []TypeOK
<1>1. Inv => TypeOK
  BY DEF Inv
<1>2. QED
  BY <1>1, Invariant, PTL

\* A corpus on which no two ingests worked at once, and whose removal none died
\* in, is whole and of one ingest (emit, the tmp directory, the rename, the
\* cache of descriptors).
THEOREM CorpusIsWhole == Spec => []CorpusOfOneIngest
<1>1. Inv => CorpusOfOneIngest
  BY DEF Inv, CorpusInv
<1>2. QED
  BY <1>1, Invariant, PTL

LEMMA FreshFollows == ASSUME Inv PROVE FreshIsTrue
<1> SUFFICES ASSUME Verdict = "Fresh", doubt = {}, Undisturbed
             PROVE  /\ Has(live, "primary")
                         => Get(live, "primary").of = index.tables["spec_chunks"].of
                    /\ index.tables["signal_table_rows"].md = md
  BY DEF FreshIsTrue
<1>1. TypeOK /\ CorpusInv /\ IndexInv
  BY InvParts
<1>2. /\ index.stamp.of = index.tables["spec_chunks"].of
      /\ index.stamp.md = index.tables["signal_table_rows"].md
  BY <1>1 DEF IndexInv, BuiltInv
<1>3. /\ RecordedSha = Missing \/ RecordedSha = index.stamp.of
      /\ md = index.stamp.md
  <2>1. index.stamp.saved \in BOOLEAN /\ index.embedder \in BOOLEAN
    BY <1>1, Types DEF Index, Stamp
  <2>2. QED
    BY <2>1 DEF Verdict
<1>4. ASSUME Has(live, "primary")
      PROVE  Get(live, "primary").of = index.tables["spec_chunks"].of
  <2>1. Has(live, "manifest")
    <3>1. live # {}
      BY <1>4 DEF Has
    <3>2. QED
      BY <1>1, <3>1 DEF CorpusInv, CorpusOfOneIngest
  <2>2. RecordedSha = Get(live, "primary").of
    BY <1>1, <2>1, ManifestIsTrue
  <2>3. Get(live, "primary").of \in Versions
    BY <1>1, <1>4, Types, GetFacts, FileFacts
  <2>4. RecordedSha # Missing
    BY <2>2, <2>3, CorpusAssumption
  <2>5. QED
    BY <1>2, <1>3, <2>2, <2>4
<1>5. QED
  BY <1>2, <1>3, <1>4

\* When build-spec-index --check says that the index is fresh, its chunks are of
\* the source of the corpus and its signals of the text of spec.md, unless the
\* last build was cut short or something changed under it.
THEOREM FreshMeansFresh == Spec => []FreshIsTrue
<1>1. Inv => FreshIsTrue
  BY FreshFollows
<1>2. QED
  BY <1>1, Invariant, PTL

-----------------------------------------------------------------------------
(* What the lock is worth while it cannot age.                             *)

\* Who is about to remove a lock, or has.
Takeover == {"stale", "relock"}

\* A lock that is not old is removed by its owner only.
SoleWriter ==
    /\ ~lock.old
    /\ \A p \in Procs : proc[p].at \notin Takeover
    /\ \A p, q \in Writers : p = q
    /\ Writers # {} => lock.held

\* Where the processes are after a step of one.
ComesTo(p, label) ==
    /\ proc'[p].at = label
    /\ \A q \in Procs : q # p => proc'[q] = proc[q]

LEMMA PutsComes ==
    ASSUME ProcType, NEW p \in Procs, NEW c, proc' = [proc EXCEPT ![p] = c]
    PROVE  ComesTo(p, c.at)
BY DEF ProcType, ComesTo

LEMMA StepComes ==
    ASSUME ProcType, NEW p \in Procs, NEW label, Step(p, label)
    PROVE  ComesTo(p, label)
<1> DEFINE c == TaskOf(label, proc[p].run, proc[p].peers, proc[p].way, proc[p].index,
                       proc[p].sha, proc[p].of, proc[p].next, proc[p].got)
<1>1. proc' = [proc EXCEPT ![p] = c]
  BY ProcAt, Zenon DEF Step
<1>2. c.at = label
  BY DEF TaskOf
<1> HIDE DEF c
<1>3. QED
  BY <1>1, <1>2, PutsComes

LEMMA EndsComes ==
    ASSUME ProcType, NEW p \in Procs, Ends(p)
    PROVE  ComesTo(p, "idle")
BY IdleOk, PutsComes DEF Ends

LEMMA BeginsComes ==
    ASSUME ProcType, NEW p \in Procs, NEW task, Begins(p, task)
    PROVE  ComesTo(p, task.at) /\ proc[p].at = "idle"
BY PutsComes DEF Begins

LEMMA IngestEndsComes ==
    ASSUME TypeOK, NEW p \in Procs, IngestEnds(p)
    PROVE  ComesTo(p, "idle") \/ ComesTo(p, "lock")
<1>1. PICK c : Moves(p, c) /\ c.at \in {"idle", "lock"}
  BY IngestEndsMoves
<1>2. QED
  BY <1>1, Types, PutsComes DEF Moves

\* A step that gives the lock to nobody.
LEMMA SoleOutside ==
    ASSUME SoleWriter, NEW p \in Procs, NEW label, ComesTo(p, label),
           label \notin Takeover,
           label \in Writing => proc[p].at \in Writing,
           \/ lock' = lock
           \/ proc[p].at \in Writing /\ label \notin Writing /\ lock' = Removed
           \/ ~lock.held /\ lock' = Taken
    PROVE  SoleWriter'
<1>1. \A q \in Procs : q # p => proc'[q] = proc[q]
  BY DEF ComesTo
<1>2. Writers' \subseteq Writers /\ (p \in Writers' => label \in Writing)
  BY <1>1 DEF Writers, ComesTo
<1>3. \A q \in Procs : proc'[q].at \notin Takeover
  BY <1>1 DEF SoleWriter, ComesTo
<1>4. ~lock'.old
  BY DEF SoleWriter, Removed, Taken
<1>5. \A q, r \in Writers' : q = r
  BY <1>2 DEF SoleWriter
<1>6. Writers' # {} => lock'.held
  <2>1. CASE lock' = lock
    BY <1>2, <2>1 DEF SoleWriter
  <2>2. CASE proc[p].at \in Writing /\ label \notin Writing
    <3>1. p \in Writers /\ p \notin Writers'
      BY <1>2, <2>2 DEF Writers
    <3>2. Writers' = {}
      BY <1>2, <3>1 DEF SoleWriter
    <3>3. QED
      BY <3>2
  <2>3. CASE lock' = Taken
    BY <2>3 DEF Taken
  <2>4. QED
    BY <2>1, <2>2, <2>3
<1>7. QED
  BY <1>3, <1>4, <1>5, <1>6 DEF SoleWriter

\* Who makes the lock file finds no writer.
LEMMA SoleCreates ==
    ASSUME TypeOK, SoleWriter, NEW p \in Procs, Creates(p)
    PROVE  SoleWriter'
<1> DEFINE c == TaskOf("read", proc[p].run, proc[p].peers, proc[p].way, proc[p].index,
                       proc[p].sha, proc[p].of, 1, proc[p].got)
<1>1. proc' = [proc EXCEPT ![p] = c]
  BY Types, ProcAtNext, Zenon DEF Creates
<1>2. c.at = "read"
  BY DEF TaskOf
<1> HIDE DEF c
<1>3. ComesTo(p, "read")
  BY <1>1, <1>2, Types, PutsComes
<1>4. Writers = {}
  BY DEF Creates, SoleWriter
<1>5. \A q \in Writers' : q = p
  BY <1>3, <1>4 DEF Writers, ComesTo
<1>6. \A q \in Procs : proc'[q].at \notin Takeover
  BY <1>3 DEF ComesTo, SoleWriter, Takeover
<1>7. lock'.held /\ ~lock'.old
  BY DEF Creates, Taken
<1>8. QED
  BY <1>5, <1>6, <1>7 DEF SoleWriter

LEMMA SoleIngests ==
    ASSUME TypeOK, SoleWriter, NEW p \in Procs,
           \/ Ingest(p) \/ Refresh(p) \/ Load(p) \/ Clean(p) \/ WritePart(p)
           \/ RemoveFile(p) \/ RemoveRoot(p) \/ Rename(p) \/ RenameFails(p) \/ WriteCache(p)
    PROVE  SoleWriter'
<1> USE Types
<1>1. "idle" \notin Writing \union Takeover /\ "lock" \notin Writing \union Takeover
      /\ Ingesting \cap (Writing \union Takeover) = {}
  BY DEF Writing, Takeover, Ingesting
<1>2. /\ "load" \in Ingesting /\ "clean" \in Ingesting /\ "write" \in Ingesting
      /\ "remove" \in Ingesting /\ "rename" \in Ingesting /\ "cache" \in Ingesting
  BY DEF Ingesting
<1>3. lock' = lock
  BY DEF Ingest, Starts, Refresh, Load, Clean, WritePart, RemoveFile, RemoveRoot, Rename,
         RenameFails, WriteCache
<1>4. ASSUME NEW label, ComesTo(p, label),
             label \in Ingesting \/ label = "idle" \/ label = "lock"
      PROVE  SoleWriter'
  BY <1>1, <1>3, <1>4, SoleOutside
<1>5. CASE Ingest(p) \/ Refresh(p)
  <2>1. PICK peers \in SUBSET Peers, way \in Ways, x \in BOOLEAN : Starts(p, peers, way, x)
    BY <1>5 DEF Ingest, Refresh, Ways
  <2>2. PICK sha : Begins(p, [Idle EXCEPT !.at = "load", !.run = runs + 1, !.peers = peers,
                                          !.way = way, !.index = x, !.sha = sha])
    BY <2>1, Zenon DEF Starts
  <2> DEFINE task == [Idle EXCEPT !.at = "load", !.run = runs + 1, !.peers = peers,
                                  !.way = way, !.index = x, !.sha = sha]
  <2>3. Begins(p, task) /\ task.at = "load"
    BY <2>2 DEF Idle
  <2> HIDE DEF task
  <2>4. ComesTo(p, "load")
    BY <2>3, BeginsComes
  <2>5. QED
    BY <1>2, <1>4, <2>4
<1>6. CASE Load(p)
  <2> DEFINE c == TaskOf("clean", proc[p].run, proc[p].peers, proc[p].way, proc[p].index,
                         proc[p].sha, src, proc[p].next, proc[p].got)
  <2>1. proc' = [proc EXCEPT ![p] = c]
    BY <1>6, ProcAtOf, Zenon DEF Load
  <2>2. c.at = "clean"
    BY DEF TaskOf
  <2> HIDE DEF c
  <2>3. QED
    BY <1>2, <1>4, <2>1, <2>2, PutsComes
<1>7. CASE Clean(p)
  <2> DEFINE c == TaskOf("write", proc[p].run, proc[p].peers, proc[p].way, proc[p].index,
                         proc[p].sha, proc[p].of, 1, proc[p].got)
  <2>1. proc' = [proc EXCEPT ![p] = c]
    BY <1>7, ProcAtNext, Zenon DEF Clean
  <2>2. c.at = "write"
    BY DEF TaskOf
  <2> HIDE DEF c
  <2>3. QED
    BY <1>2, <1>4, <2>1, <2>2, PutsComes
<1>8. CASE WritePart(p)
  <2> DEFINE label == IF proc[p].next = Len(Parts) THEN "remove" ELSE "write"
             y == proc[p].next + 1
             c == TaskOf(label, proc[p].run, proc[p].peers, proc[p].way, proc[p].index,
                         proc[p].sha, proc[p].of, y, proc[p].got)
  <2>1. proc' = [proc EXCEPT ![p].at = label, ![p].next = @ + 1]
    BY <1>8, Zenon DEF WritePart
  <2>2. [proc EXCEPT ![p].at = label, ![p].next = @ + 1]
           = [proc EXCEPT ![p].at = label, ![p].next = y]
    BY DEF ProcType, Task
  <2>3. label \in Ingesting
    BY <1>2
  <2> HIDE DEF label
  <2>4. proc' = [proc EXCEPT ![p] = c]
    BY <2>1, <2>2, ProcAtNext, Zenon
  <2>5. c.at = label
    BY DEF TaskOf
  <2> HIDE DEF c
  <2>6. QED
    BY <1>4, <2>3, <2>4, <2>5, PutsComes
<1>9. CASE RemoveFile(p)
  <2>1. ComesTo(p, proc[p].at) /\ proc[p].at = "remove"
    BY <1>9 DEF RemoveFile, ComesTo
  <2>2. QED
    BY <1>2, <1>4, <2>1
<1>10. CASE RemoveRoot(p)
  BY <1>2, <1>4, <1>10, StepComes DEF RemoveRoot
<1>11. CASE Rename(p)
  <2>1. ComesTo(p, "cache") \/ ComesTo(p, "idle") \/ ComesTo(p, "lock")
    BY <1>11, StepComes, IngestEndsComes DEF Rename
  <2>2. QED
    BY <1>2, <1>4, <2>1
<1>12. CASE RenameFails(p)
  BY <1>4, <1>12, EndsComes DEF RenameFails
<1>13. CASE WriteCache(p)
  BY <1>4, <1>13, IngestEndsComes DEF WriteCache
<1>14. QED
  BY <1>5, <1>6, <1>7, <1>8, <1>9, <1>10, <1>11, <1>12, <1>13

LEMMA SoleLocks ==
    ASSUME TypeOK, SoleWriter, NEW p \in Procs,
           \/ BuildIndex(p) \/ Acquire(p) \/ AlreadyHeld(p) \/ AcquireFails(p)
           \/ FindsStale(p) \/ RemoveStale(p) \/ AcquireAgain(p)
           \/ Fails(p) \/ Killed(p) \/ SeedStarts(p) \/ Seed(p)
    PROVE  SoleWriter'
<1> USE Types
<1>1. /\ "idle" \notin Writing \union Takeover /\ "lock" \notin Writing \union Takeover
      /\ "seed" \notin Writing \union Takeover
  BY DEF Writing, Takeover
<1>2. CASE BuildIndex(p) \/ SeedStarts(p)
  <2>1. PICK label \in {"lock", "seed"} :
           Begins(p, [Idle EXCEPT !.at = label, !.run = runs + 1])
    BY <1>2, Zenon DEF BuildIndex, SeedStarts
  <2> DEFINE task == [Idle EXCEPT !.at = label, !.run = runs + 1]
  <2>2. Begins(p, task) /\ task.at = label
    BY <2>1 DEF Idle
  <2> HIDE DEF task
  <2>3. ComesTo(p, label)
    BY <2>2, BeginsComes
  <2>4. lock' = lock
    BY <1>2 DEF BuildIndex, SeedStarts
  <2>5. QED
    BY <1>1, <2>3, <2>4, SoleOutside
<1>3. CASE Acquire(p) \/ AcquireAgain(p)
  BY <1>3, SoleCreates DEF Acquire, AcquireAgain
<1>4. CASE AlreadyHeld(p) \/ AcquireFails(p)
  <2>1. ComesTo(p, "idle") /\ (lock' = lock \/ (~lock.held /\ lock' = Taken))
    BY <1>4, EndsComes DEF AlreadyHeld, AcquireFails
  <2>2. QED
    BY <1>1, <2>1, SoleOutside
<1>5. CASE FindsStale(p) \/ RemoveStale(p)
  BY <1>5 DEF FindsStale, RemoveStale, SoleWriter, Takeover
<1>6. CASE Fails(p) \/ Killed(p) \/ Seed(p)
  <2>1. /\ ComesTo(p, "idle")
        /\ lock' = lock \/ (proc[p].at \in Writing /\ lock' = Removed)
    BY <1>6, EndsComes DEF Fails, Killed, Seed
  <2>2. QED
    BY <1>1, <2>1, SoleOutside
<1>7. QED
  BY <1>2, <1>3, <1>4, <1>5, <1>6

LEMMA SoleBuilds ==
    ASSUME TypeOK, SoleWriter, NEW p \in Procs,
           Read(p) \/ Drop(p) \/ PutTable(p) \/ SaveManifest(p) \/ SaveEmbedder(p)
    PROVE  SoleWriter'
<1> USE Types
<1>1. proc[p].at \in Writing /\ "idle" \notin Writing \union Takeover
      /\ Writing \cap Takeover = {}
  BY DEF Read, Drop, PutTable, SaveManifest, SaveEmbedder, Writing, Takeover
<1>2. ASSUME NEW label \in Writing, ComesTo(p, label), lock' = lock
      PROVE  SoleWriter'
  BY <1>1, <1>2, SoleOutside
<1>3. /\ "read" \in Writing /\ "drop" \in Writing /\ "put" \in Writing
      /\ "manifest" \in Writing /\ "embedder" \in Writing
  BY DEF Writing
<1>4. CASE Read(p)
  <2> DEFINE got == Content(Tables[proc[p].next])
             c == TaskOf("drop", proc[p].run, proc[p].peers, proc[p].way, proc[p].index,
                         proc[p].sha, proc[p].of, proc[p].next, got)
  <2>1. lock' = lock /\ ProcType
    BY <1>4 DEF Read
  <2>2. proc' = [proc EXCEPT ![p] = c]
    BY <1>4, <2>1, ProcAtGot, Zenon DEF Read
  <2>3. c.at = "drop"
    BY DEF TaskOf
  <2> HIDE DEF c
  <2>4. QED
    BY <1>2, <1>3, <2>1, <2>2, <2>3, PutsComes
<1>5. CASE Drop(p)
  BY <1>2, <1>3, <1>5, StepComes DEF Drop
<1>6. CASE PutTable(p)
  <2> DEFINE label == IF proc[p].next = Len(Tables) THEN "manifest" ELSE "read"
             c == TaskOf(label, proc[p].run, proc[p].peers, proc[p].way, proc[p].index,
                         proc[p].sha, proc[p].of, proc[p].next + 1, NoTable)
  <2>1. proc' = [proc EXCEPT ![p].at = label, ![p].next = @ + 1, ![p].got = NoTable]
        /\ lock' = lock
    BY <1>6, Zenon DEF PutTable
  <2>2. label \in Writing
    BY <1>3
  <2> HIDE DEF label
  <2>3. proc' = [proc EXCEPT ![p] = c]
    BY <2>1, ProcPut, Zenon
  <2>4. c.at = label
    BY DEF TaskOf
  <2> HIDE DEF c
  <2>5. QED
    BY <1>2, <2>1, <2>2, <2>3, <2>4, PutsComes
<1>7. CASE SaveManifest(p)
  BY <1>2, <1>3, <1>7, StepComes DEF SaveManifest
<1>8. CASE SaveEmbedder(p)
  <2>1. ComesTo(p, "idle") /\ lock' = Removed
    BY <1>8, EndsComes DEF SaveEmbedder
  <2>2. QED
    BY <1>1, <2>1, SoleOutside
<1>9. QED
  BY <1>4, <1>5, <1>6, <1>7, <1>8

LEMMA SoleStep ==
    ASSUME TypeOK, SoleWriter, [Next]_vars, [~Ages]_vars
    PROVE  SoleWriter'
<1>1. CASE \E p \in Procs :
              \/ Ingest(p) \/ Refresh(p) \/ Load(p) \/ Clean(p) \/ WritePart(p)
              \/ RemoveFile(p) \/ RemoveRoot(p) \/ Rename(p) \/ RenameFails(p) \/ WriteCache(p)
  BY <1>1, SoleIngests
<1>2. CASE \E p \in Procs :
              \/ BuildIndex(p) \/ Acquire(p) \/ AlreadyHeld(p) \/ AcquireFails(p)
              \/ FindsStale(p) \/ RemoveStale(p) \/ AcquireAgain(p)
              \/ Fails(p) \/ Killed(p) \/ SeedStarts(p) \/ Seed(p)
  BY <1>2, SoleLocks
<1>3. CASE \E p \in Procs :
              Read(p) \/ Drop(p) \/ PutTable(p) \/ SaveManifest(p) \/ SaveEmbedder(p)
  BY <1>3, SoleBuilds
<1>4. ASSUME proc' = proc, lock' = lock
      PROVE  SoleWriter'
  BY <1>4 DEF SoleWriter, Writers
<1>5. CASE Edit \/ Revise
  BY <1>4, <1>5 DEF Edit, Revise, Changes
<1>6. CASE UNCHANGED vars
  BY <1>4, <1>6 DEF vars
<1>7. QED
  BY <1>1, <1>2, <1>3, <1>5, <1>6 DEF Next

LEMMA SoleIsOne ==
    ASSUME SoleWriter
    PROVE  OneWriter
<1>1. CASE Writers = {}
  BY <1>1, FS_EmptySet DEF OneWriter
<1>2. CASE Writers # {}
  <2>1. PICK p : Writers = {p}
    BY <1>2 DEF SoleWriter
  <2>2. QED
    BY <2>1, FS_Singleton DEF OneWriter
<1>3. QED
  BY <1>1, <1>2

\* lock.rs:3, that writers of the index are serialized, holds through every kill,
\* failure and half-made lock file as long as no lock grows ten minutes old: the
\* removal of an old one is the only way to a second writer.
THEOREM OneWriterUnlessStale == Spec /\ [][~Ages]_vars => []OneWriter
<1>1. Init => SoleWriter
  BY DEF Init, SoleWriter, Writers, Writing, Takeover, Idle
<1>2. Inv => TypeOK
  BY DEF Inv
<1>3. TypeOK /\ SoleWriter /\ [Next]_vars /\ [~Ages]_vars => SoleWriter'
  BY SoleStep
<1>4. SoleWriter => OneWriter
  BY SoleIsOne
<1>5. QED
  BY <1>1, <1>2, <1>3, <1>4, Invariant, PTL DEF Spec
=============================================================================
