------------------------------ MODULE SpecCorpus ------------------------------
(***************************************************************************)
(* The specification corpus of a project and the index built from it:      *)
(* `ingest`, `ingest --rebuild` and `refresh-spec` (commands.rs,           *)
(* spec_ingest/), `build-spec-index` under its lock file (lance_index/),   *)
(* the seeding of docs/spec.md before DM0 (auto.rs) and the check that     *)
(* says whether the index is stale.  Processes run one command each,       *)
(* may fail or be killed between any two steps, and share only the disk.   *)
(*                                                                         *)
(* What a document says is a version number; a directory is a set of       *)
(* files, a file its part of the corpus and the run that wrote it.  The    *)
(* pages of a part, their parsing and their embedding are left out.        *)
(***************************************************************************)
EXTENDS Integers, Sequences, FiniteSets

CONSTANTS
    Procs,      \* processes of the command line
    Peers,      \* peer specifications
    Versions,   \* contents of the primary source, a PDF
    Drafts,     \* contents of docs/spec.md
    MaxRuns,    \* bound: commands started
    MaxChanges  \* bound: revisions of the source and edits of spec.md

\* No document, and the hash that is written when there is none to take.
Missing == "missing"

ASSUME CorpusAssumption ==
    /\ MaxRuns \in Nat \ {0} /\ MaxChanges \in Nat
    /\ Missing \notin Versions \union Drafts

VARIABLES
    src,    \* the primary source
    md,     \* docs/spec.md, or Missing
    tmp,    \* .sim-flow/spec-ingest.tmp
    live,   \* .sim-flow/spec-ingest
    lock,   \* spec-index.lock
    index,  \* .sim-flow/lance-index: tables, manifest.toml, embedder.toml
    proc,   \* what each process is at
    runs,   \* commands started
    changes \* revisions and edits

\* History variables: no guard reads them.
VARIABLES
    quiet,  \* ingests that met no other ingest, no revision, no torn removal
    doubt   \* about the last build: "unfinished", "raced"

counts == <<runs, changes>>
vars == <<src, md, tmp, live, lock, index, proc, counts, quiet, doubt>>

-----------------------------------------------------------------------------
(* Files.                                                                  *)

Runs == 1 .. MaxRuns

\* The order emit writes them in; format.json is written when emit is over.
Parts == <<"primary", "peers", "manifest">>

\* of: the source a part was made from, or the sha256 that the file records.
File == [part : {"primary", "peers", "manifest", "format"}, run : Runs, of : Versions]
            \union [part : {"root"}, run : Runs, of : {Missing}]

Has(dir, part) == \E f \in dir : f.part = part
Get(dir, part) == CHOOSE f \in dir : f.part = part

\* Writing a file replaces it, and makes the directory when it is not there.
Root(run) == [part |-> "root", run |-> run, of |-> Missing]

Put(dir, file) ==
    {f \in dir : f.part # file.part} \union {file}
        \union IF Has(dir, "root") THEN {} ELSE {Root(file.run)}

\* source_sha256 of the corpus manifest: what a reader finds there.
RecordedSha == IF Has(live, "manifest") THEN Get(live, "manifest").of ELSE Missing

\* cross_spec_refs is built like the signals and stands or falls with them.
Table == {"spec_chunks", "signal_table_rows"}
Tables == <<"spec_chunks", "signal_table_rows">>
NoTable == [made |-> FALSE, of |-> Missing, md |-> Missing]
NoStamp == [saved |-> FALSE, of |-> Missing, md |-> Missing]

-----------------------------------------------------------------------------
(* Processes.                                                              *)

Ingesting == {"load", "clean", "write", "remove", "rename", "cache"}
Writing == {"read", "drop", "put", "manifest", "embedder"}
Labels == {"idle", "seed", "lock", "stale", "relock"} \union Ingesting \union Writing

\* With a descriptor of its own, found in the cache or made: described.
Ways == {"explicit", "described", "heuristic"}

Idle == [at |-> "idle", run |-> 1, peers |-> {}, way |-> "heuristic", index |-> FALSE,
         sha |-> Missing, of |-> Missing, next |-> 1, got |-> NoTable]

TypeOK ==
    /\ src \in Versions
    /\ md \in Drafts \union {Missing}
    /\ tmp \subseteq File
    /\ live \subseteq File
    /\ lock \in [held : BOOLEAN, old : BOOLEAN]
    /\ index \in [tables : [Table -> [made : BOOLEAN, of : Versions \union {Missing},
                                      md : Drafts \union {Missing}]],
                  stamp : [saved : BOOLEAN, of : Versions \union {Missing},
                           md : Drafts \union {Missing}],
                  embedder : BOOLEAN]
    /\ proc \in [Procs -> [at : Labels, run : Runs, peers : SUBSET Peers, way : Ways,
                           index : BOOLEAN, sha : Versions \union {Missing},
                           of : Versions \union {Missing}, next : 1 .. 4,
                           got : [made : BOOLEAN, of : Versions \union {Missing},
                                  md : Drafts \union {Missing}]]]
    /\ runs \in Runs
    /\ changes \in 0 .. MaxChanges
    /\ quiet \subseteq Runs
    /\ doubt \subseteq {"unfinished", "raced"}

\* A new project.
New ==
    /\ md = Missing
    /\ live = {}
    /\ index = [tables |-> [t \in Table |-> NoTable], stamp |-> NoStamp, embedder |-> FALSE]

\* One that was ingested, with a peer or not, and indexed: run 1 of the model.
Indexed ==
    /\ md \in Drafts
    /\ \E parts \in {{"primary", "manifest", "format"}, {"primary", "peers", "manifest", "format"}} :
          live = {Root(1)} \union {[part |-> part, run |-> 1, of |-> src] : part \in parts}
    /\ index = [tables |-> [t \in Table |-> [made |-> TRUE, of |-> src,
                               md |-> IF t = "signal_table_rows" THEN md ELSE Missing]],
                stamp |-> [saved |-> TRUE, of |-> src, md |-> md], embedder |-> TRUE]

Init ==
    /\ src \in Versions
    /\ New \/ Indexed
    /\ tmp = {}
    /\ lock = [held |-> FALSE, old |-> FALSE]
    /\ proc = [p \in Procs |-> Idle]
    /\ runs = 1
    /\ changes = 0
    /\ quiet = {1}
    /\ doubt = {}

\* The corpus was made, and stands, as one ingest alone leaves it.
Undisturbed ==
    /\ \A p \in Procs : proc[p].at # "remove"
    /\ \A f \in live : f.run \in quiet

Step(p, label) == proc' = [proc EXCEPT ![p].at = label]

\* The command returns.
Ends(p) == proc' = [proc EXCEPT ![p] = Idle]

\* Processes that write the index now; at most one, if the lock holds.
Writers == {p \in Procs : proc[p].at \in Writing}

\* What the index was built from changes under a build.
Raced == doubt' = IF Writers # {} THEN doubt \union {"raced"} ELSE doubt

\* The next run has the next number.
Begins(p, task) ==
    /\ proc[p].at = "idle"
    /\ runs < MaxRuns
    /\ runs' = runs + 1
    /\ proc' = [proc EXCEPT ![p] = task]
    /\ UNCHANGED changes

-----------------------------------------------------------------------------
(* Ingest.                                                                 *)

\* The other processes that ingest.
Beside(p) == {q \in Procs \ {p} : proc[q].at \in Ingesting}

Starts(p, peers, way, toIndex) ==
    /\ Begins(p, [Idle EXCEPT !.at = "load", !.run = runs + 1, !.peers = peers, !.way = way,
                              !.index = toIndex,
                              !.sha = IF way = "described" THEN src ELSE Missing])
    /\ quiet' = IF Beside(p) = {} THEN quiet \union {runs + 1}
                ELSE quiet \ {proc[q].run : q \in Beside(p)}
    /\ UNCHANGED <<src, md, tmp, live, lock, index, doubt>>

\* ingest, of a source or of the one the manifest names (--rebuild): with
\* --format, or with the descriptor of these bytes, from the cache or a new one.
Ingest(p) ==
    \E peers \in SUBSET Peers, way \in {"explicit", "described"} : Starts(p, peers, way, FALSE)

\* refresh-spec: the source that the manifest names, no peer, no descriptor;
\* the index is built next.
Refresh(p) == Has(live, "manifest") /\ Starts(p, {}, "heuristic", TRUE)

Load(p) ==
    /\ proc[p].at = "load"
    /\ proc' = [proc EXCEPT ![p].at = "clean", ![p].of = src]
    /\ UNCHANGED <<src, md, tmp, live, lock, index, counts, quiet, doubt>>

\* Mutant: the directory that an earlier ingest left is written into.
KeepLeftovers(p) == Put(tmp, Root(proc[p].run))

\* What an earlier ingest has left is removed.
Cleaned(p) == {Root(proc[p].run)}

Clean(p) ==
    /\ proc[p].at = "clean"
    /\ tmp' = Cleaned(p)
    /\ proc' = [proc EXCEPT ![p].at = "write", ![p].next = 1]
    /\ UNCHANGED <<src, md, live, lock, index, counts, quiet, doubt>>

\* A part of the corpus; a manifest hashes the source again.
Made(p, part) ==
    [part |-> part, run |-> proc[p].run, of |-> IF part = "manifest" THEN src ELSE proc[p].of]

WritePart(p) ==
    LET part == Parts[proc[p].next] IN
    /\ proc[p].at = "write"
    /\ tmp' = IF part = "peers" /\ proc[p].peers = {} THEN tmp ELSE Put(tmp, Made(p, part))
    /\ proc' = [proc EXCEPT ![p].at = IF proc[p].next = Len(Parts) THEN "remove" ELSE "write",
                            ![p].next = @ + 1]
    /\ UNCHANGED <<src, md, live, lock, index, counts, quiet, doubt>>

\* remove_dir_all goes file by file, in no order of ours.
RemoveFile(p) ==
    /\ proc[p].at = "remove"
    /\ \E f \in live : f.part # "root" /\ live' = live \ {f}
    /\ Raced
    /\ UNCHANGED <<src, md, tmp, lock, index, proc, counts, quiet>>

\* Nothing is left but the directory, if it is there at all.
Emptied == \A f \in live : f.part = "root"

RemoveRoot(p) ==
    /\ proc[p].at = "remove"
    /\ Emptied
    /\ live' = {}
    /\ Step(p, "rename")
    /\ UNCHANGED <<src, md, tmp, lock, index, counts, quiet, doubt>>

\* A refresh goes on to the index, an ingest is over.
IngestEnds(p) ==
    proc' = [proc EXCEPT ![p] =
                 IF @.index THEN [Idle EXCEPT !.at = "lock", !.run = proc[p].run] ELSE Idle]

\* Fails when another process took tmp away or put a corpus in place.
Rename(p) ==
    /\ proc[p].at = "rename"
    /\ tmp # {} /\ Emptied
    /\ live' = tmp
    /\ tmp' = {}
    /\ IF proc[p].way = "described" THEN Step(p, "cache") ELSE IngestEnds(p)
    /\ Raced
    /\ UNCHANGED <<src, md, lock, index, counts, quiet>>

RenameFails(p) ==
    /\ proc[p].at = "rename"
    /\ tmp = {} \/ ~Emptied
    /\ Ends(p)
    /\ UNCHANGED <<src, md, tmp, live, lock, index, counts, quiet, doubt>>

\* format.json lived in the directory that was replaced; an error is a warning.
WriteCache(p) ==
    /\ proc[p].at = "cache"
    /\ \/ live' = Put(live, [part |-> "format", run |-> proc[p].run, of |-> proc[p].sha])
       \/ live' = live
    /\ IngestEnds(p)
    /\ UNCHANGED <<src, md, tmp, lock, index, counts, quiet, doubt>>

-----------------------------------------------------------------------------
(* The lock file.                                                          *)

BuildIndex(p) ==
    /\ Begins(p, [Idle EXCEPT !.at = "lock", !.run = runs + 1])
    /\ UNCHANGED <<src, md, tmp, live, lock, index, quiet, doubt>>

Taken == [held |-> TRUE, old |-> FALSE]

\* create_new: the file is the lock, whatever it says.
Creates(p) ==
    /\ ~lock.held
    /\ lock' = Taken
    /\ proc' = [proc EXCEPT ![p].at = "read", ![p].next = 1]
    /\ doubt' = IF Writers = {} THEN {"unfinished"} ELSE doubt \union {"raced"}
    /\ UNCHANGED <<src, md, tmp, live, index, counts, quiet>>

Acquire(p) == proc[p].at = "lock" /\ Creates(p)

AlreadyHeld(p) ==
    /\ \/ proc[p].at = "lock" /\ lock.held /\ ~lock.old
       \/ proc[p].at = "relock" /\ lock.held
    /\ Ends(p)
    /\ UNCHANGED <<src, md, tmp, live, lock, index, counts, quiet, doubt>>

\* The file was made but its body could not be written: it stays.
AcquireFails(p) ==
    /\ proc[p].at \in {"lock", "relock"}
    /\ ~lock.held
    /\ lock' = Taken
    /\ Ends(p)
    /\ UNCHANGED <<src, md, tmp, live, index, counts, quiet, doubt>>

\* Ten minutes old: its owner is presumed dead.
FindsStale(p) ==
    /\ proc[p].at = "lock"
    /\ lock.held /\ lock.old
    /\ Step(p, "stale")
    /\ UNCHANGED <<src, md, tmp, live, lock, index, counts, quiet, doubt>>

Removed == [held |-> FALSE, old |-> FALSE]

\* Whatever file is there by now.
RemoveStale(p) ==
    /\ proc[p].at = "stale"
    /\ lock' = Removed
    /\ Step(p, "relock")
    /\ UNCHANGED <<src, md, tmp, live, index, counts, quiet, doubt>>

AcquireAgain(p) == proc[p].at = "relock" /\ Creates(p)

-----------------------------------------------------------------------------
(* Building the index.                                                     *)

\* What a table is made from: the corpus, and for the signals also spec.md.
Content(table) ==
    [made |-> TRUE,
     of |-> IF Has(live, "primary") THEN Get(live, "primary").of ELSE Missing,
     md |-> IF table = "signal_table_rows" THEN md ELSE Missing]

\* The chunks are embedded between this step and the next.
Read(p) ==
    LET table == Tables[proc[p].next] IN
    /\ proc[p].at = "read"
    /\ (table = "spec_chunks") => Has(live, "manifest")
    /\ proc' = [proc EXCEPT ![p].at = "drop", ![p].got = Content(table)]
    /\ doubt' = IF Undisturbed THEN doubt ELSE doubt \union {"raced"}
    /\ UNCHANGED <<src, md, tmp, live, lock, index, counts, quiet>>

\* The old table goes before the new one is made.
Drop(p) ==
    /\ proc[p].at = "drop"
    /\ index' = [index EXCEPT !.tables[Tables[proc[p].next]] = NoTable]
    /\ Step(p, "put")
    /\ UNCHANGED <<src, md, tmp, live, lock, counts, quiet, doubt>>

\* Made under another name and renamed: refused where another writer's table is.
PutTable(p) ==
    LET table == Tables[proc[p].next] IN
    /\ proc[p].at = "put"
    /\ ~index.tables[table].made
    /\ index' = [index EXCEPT !.tables[table] = proc[p].got]
    /\ proc' = [proc EXCEPT ![p].at = IF proc[p].next = Len(Tables) THEN "manifest" ELSE "read",
                            ![p].next = @ + 1, ![p].got = NoTable]
    /\ UNCHANGED <<src, md, tmp, live, lock, counts, quiet, doubt>>

\* The two hashes are taken when the tables are done.
SaveManifest(p) ==
    /\ proc[p].at = "manifest"
    /\ index' = [index EXCEPT !.stamp = [saved |-> TRUE, of |-> RecordedSha, md |-> md]]
    /\ Step(p, "embedder")
    /\ UNCHANGED <<src, md, tmp, live, lock, counts, quiet, doubt>>

\* The guard of the lock is dropped: the file goes, whoever made it.
SaveEmbedder(p) ==
    /\ proc[p].at = "embedder"
    /\ index' = [index EXCEPT !.embedder = TRUE]
    /\ lock' = Removed
    /\ Ends(p)
    /\ doubt' = doubt \ {"unfinished"}
    /\ UNCHANGED <<src, md, tmp, live, counts, quiet>>

\* What is left of a corpus whose removal stops midway.
Torn(p) ==
    quiet' = IF proc[p].at = "remove" THEN quiet \ {f.run : f \in live} ELSE quiet

\* An error: the lock is given back, what is on disk stays.
Fails(p) ==
    /\ proc[p].at \in Ingesting \union Writing
    /\ lock' = IF proc[p].at \in Writing THEN Removed ELSE lock
    /\ Ends(p)
    /\ Torn(p)
    /\ UNCHANGED <<src, md, tmp, live, index, counts, doubt>>

\* A kill: the lock file stays.
Killed(p) ==
    /\ proc[p].at # "idle"
    /\ Ends(p)
    /\ Torn(p)
    /\ UNCHANGED <<src, md, tmp, live, lock, index, counts, doubt>>

-----------------------------------------------------------------------------
(* docs/spec.md, and the world.                                            *)

\* The prelude of DM0: a project with a corpus and no spec.md yet.
SeedStarts(p) ==
    /\ md = Missing
    /\ Has(live, "manifest")
    /\ Begins(p, [Idle EXCEPT !.at = "seed", !.run = runs + 1])
    /\ UNCHANGED <<src, md, tmp, live, lock, index, quiet, doubt>>

\* Written over what came up meanwhile; any failure is a warning.
Seed(p) ==
    /\ proc[p].at = "seed"
    /\ md' \in Drafts \union {md}
    /\ Ends(p)
    /\ Raced
    /\ UNCHANGED <<src, tmp, live, lock, index, counts, quiet>>

Changes ==
    /\ changes < MaxChanges
    /\ changes' = changes + 1
    /\ UNCHANGED <<tmp, live, lock, index, proc, runs>>

\* The user and the agent write spec.md.
Edit ==
    /\ Changes
    /\ md' \in Drafts \ {md}
    /\ Raced
    /\ UNCHANGED <<src, quiet>>

\* Another revision of the source is put in its place.
Revise ==
    /\ Changes
    /\ src' \in Versions \ {src}
    /\ quiet' = quiet \ {proc[p].run : p \in {q \in Procs : proc[q].at \in Ingesting}}
    /\ UNCHANGED <<md, doubt>>

\* Ten minutes pass.
Ages ==
    /\ lock.held /\ ~lock.old
    /\ lock' = [lock EXCEPT !.old = TRUE]
    /\ UNCHANGED <<src, md, tmp, live, index, proc, counts, quiet, doubt>>

Next ==
    \/ \E p \in Procs :
        \/ Ingest(p) \/ Refresh(p) \/ Load(p) \/ Clean(p) \/ WritePart(p)
        \/ RemoveFile(p) \/ RemoveRoot(p) \/ Rename(p) \/ RenameFails(p) \/ WriteCache(p)
        \/ BuildIndex(p) \/ Acquire(p) \/ AlreadyHeld(p) \/ AcquireFails(p)
        \/ FindsStale(p) \/ RemoveStale(p) \/ AcquireAgain(p)
        \/ Read(p) \/ Drop(p) \/ PutTable(p) \/ SaveManifest(p) \/ SaveEmbedder(p)
        \/ Fails(p) \/ Killed(p) \/ SeedStarts(p) \/ Seed(p)
    \/ Edit \/ Revise \/ Ages

Spec == Init /\ [][Next]_vars

-----------------------------------------------------------------------------
(* What the commands promise of each other's files.                        *)

\* Mutant: the check compares the source only.
SourceVerdict ==
    CASE ~index.stamp.saved -> "SourceChanged"
      [] index.stamp.saved /\ ~index.embedder -> "EmbedderChanged"
      [] index.stamp.saved /\ index.embedder ->
            IF RecordedSha # Missing /\ RecordedSha # index.stamp.of
            THEN "SourceChanged" ELSE "Fresh"

\* build-spec-index --check.
Verdict ==
    CASE ~index.stamp.saved -> "SourceChanged"
      [] index.stamp.saved /\ ~index.embedder -> "EmbedderChanged"
      [] index.stamp.saved /\ index.embedder ->
            IF RecordedSha # Missing /\ RecordedSha # index.stamp.of THEN "SourceChanged"
            ELSE IF md # index.stamp.md THEN "SpecMdChanged" ELSE "Fresh"

\* The retrieval tools open an index with its two manifests and three tables.
Opens == index.stamp.saved /\ index.embedder /\ \A t \in Table : index.tables[t].made

\* Whatever ingest died where, with what it left behind: a corpus that no two
\* ingests wrote at once and that none was killed while removing is whole, all
\* of it is of one run, and its manifest and its descriptor are of the source
\* its text was read from (the tmp directory, its renaming, the cache).
CorpusOfOneIngest ==
    (Undisturbed /\ live # {}) =>
        /\ Has(live, "primary") /\ Has(live, "manifest")
        /\ \A f, g \in live : f.run = g.run
        /\ \A f, g \in live : (f.part # "root" /\ g.part # "root") => f.of = g.of

\* When the check finds the index fresh and the retrieval tools open it, the
\* chunks they search are of the source of the corpus and the signals of the
\* text of spec.md, however many builds, ingests and edits there were: unless
\* the last build was cut short or something changed under it.
FreshIsTrue ==
    (Verdict = "Fresh" /\ Opens /\ doubt = {} /\ Undisturbed) =>
        /\ Has(live, "primary") => Get(live, "primary").of = index.tables["spec_chunks"].of
        /\ index.tables["signal_table_rows"].md = md

\* lance_index/lock.rs:3: "Writes to a lance dataset are single-writer.  The
\* build pipelines acquire an exclusive file lock for the duration of a
\* rebuild; concurrent builders serialize via this lock."
OneWriter == Cardinality(Writers) <= 1
=============================================================================
