----------------------------- MODULE ExportJob -----------------------------
(***************************************************************************)
(* src/src/pipeline/exportResults.ts: the full export of a query under one *)
(* job_id, with a shard per book, a checkpoint, crashes and resumption.    *)
(*                                                                         *)
(* A run is one call of exportResults; runs share the job's directory.     *)
(* Each version of the index has its own matches of a query in a book. A   *)
(* key stands for the pair of score and document number that places a      *)
(* match in Lucene's order, which is all a cursor is compared by: taken to *)
(* another version it is compared with the keys of that version. (The      *)
(* engine does not pass on orderBy, so the order is that of relevance.)    *)
(* A file is a function from line positions, so two streams on one inode   *)
(* overwrite each other the way two file descriptors do.  An inode of a    *)
(* book's shard is named by the run that created it.                       *)
(***************************************************************************)
EXTENDS Integers, FiniteSets, Orders

CONSTANTS
    MaxRuns,      \* bound on the calls for the job
    Books,
    Queries,      \* the queries a call may bring, by hash
    Found,        \* [version -> [query -> [book -> keys of the matches]]]
    MaxKey,       \* bound on the keys
    PageSize,     \* rows per engine.search
    Concurrency,  \* books swept at once
    MaxVersion,   \* bound on the rewrites of Shamela's index
    None,         \* no inode, no file, no row
    Torn,         \* a checkpoint.json that does not parse
    Overlap       \* a run may start while another of the job is active

Runs == 1..MaxRuns  \* numbered in the order they are made
Keys == 1..MaxKey
Positions == Keys   \* of lines: keys rise along a sweep
Versions == 1..MaxVersion
Row == [query : Queries, at : Versions, key : Keys]
File == [Positions -> Row \union {None}]
Counts == [Books -> (0..MaxKey) \union {None}]
Checkpoints == [query : Queries, fp : Versions, completed : Counts]

ASSUME ExportAssumption ==
    /\ MaxRuns \in Nat /\ MaxKey \in Nat /\ MaxVersion \in Nat \ {0}
    /\ PageSize \in Nat \ {0} /\ Concurrency \in Nat \ {0}
    /\ Found \in [Versions -> [Queries -> [Books -> SUBSET Keys]]]
    /\ Overlap \in BOOLEAN
    /\ None \notin Nat
    /\ None \notin Row /\ None \notin Checkpoints
    /\ Torn \notin Checkpoints /\ Torn # None
    /\ IsFiniteSet(Books)

VARIABLES
    ckpt,     \* checkpoint.json: None, Torn or a checkpoint
    shard,    \* per book, the inode at parts/<book>.jsonl
    tmp,      \* per book, the inode at parts/<book>.jsonl.partial
    content,  \* per book and inode, the rows in it
    version,  \* the index version the helper serves
    phase,    \* of each run: idle, sweeping, assembling, done, refused, dead
    mem,      \* of each run: its query, and the checkpoint object in memory
    work,     \* of each run and book: reused, todo, open, swept, kept, failed
    pos,      \* of each run and book: hits, the lines written so far
    after,    \* of each run and book: the cursor, 0 for null
    fd,       \* the inode each open stream writes to
    out,      \* of each run and book: what it copied into results.jsonl
    shaken    \* history: books a run had still to sweep when the index moved

disk == <<ckpt, shard, tmp, content>>
place == <<pos, after>>
vars == <<ckpt, shard, tmp, content, version, phase, mem, work, pos, after, fd, out, shaken>>

Empty == [n \in Positions |-> None]
Active == {"sweeping", "assembling"}
Fresh(q, v) == [query |-> q, fp |-> v, completed |-> [b \in Books |-> None]]
Inflight(r) == {b \in Books : work[r][b] \in {"open", "swept"}}

Init ==
    /\ ckpt = None
    /\ shard = [b \in Books |-> None]
    /\ tmp = [b \in Books |-> None]
    /\ content = [b \in Books |-> [r \in Runs |-> Empty]]
    /\ version = 1
    /\ phase = [r \in Runs |-> "idle"]
    /\ mem \in [Runs -> {Fresh(q, 1) : q \in Queries}]
    /\ work = [r \in Runs |-> [b \in Books |-> "todo"]]
    /\ pos = [r \in Runs |-> [b \in Books |-> 0]]
    /\ after = [r \in Runs |-> [b \in Books |-> 0]]
    /\ fd = [r \in Runs |-> [b \in Books |-> None]]
    /\ out = [r \in Runs |-> [b \in Books |-> None]]
    /\ shaken = {}

-----------------------------------------------------------------------------
\* Mutant: the checkpoint on disk is not read.
LoadedNever(r) == Fresh(mem[r].query, version)

\* The checkpoint a run starts from: the one on disk if it can be read.
Loaded(r) == IF ckpt \in {None, Torn} THEN Fresh(mem[r].query, version) ELSE ckpt

\* Books whose shard is there and recorded are not swept again.
Reusable(c) == {b \in Books : c.completed[b] # None /\ shard[b] # None}

\* The rows of an inode whose name is removed are never read again.
Unlinked(b, inode) == [q \in Runs |-> IF q = inode THEN Empty ELSE content[b][q]]

MayStart(r) ==
    /\ phase[r] = "idle"
    /\ \A q \in 1..(r - 1) : phase[q] # "idle"
    /\ Overlap \/ \A q \in Runs : phase[q] \notin Active

\* A run resumes its own query on the index it was begun on, or none.
Resumable(r) == Loaded(r).query = mem[r].query /\ Loaded(r).fp = version

\* The synchronous head of exportResults: load, discard unrecorded shards.
Resume(r) ==
    LET keep == Reusable(Loaded(r))
    IN  /\ phase' = [phase EXCEPT ![r] = "sweeping"]
        /\ mem' = [mem EXCEPT ![r] =
                     [query |-> mem[r].query, fp |-> version,
                      completed |-> [b \in Books |->
                         IF b \in keep THEN Loaded(r).completed[b] ELSE None]]]
        /\ work' = [work EXCEPT ![r] =
                     [b \in Books |-> IF b \in keep THEN "reused" ELSE "todo"]]
        /\ shard' = [b \in Books |-> IF b \in keep THEN shard[b] ELSE None]
        /\ content' = [b \in Books |->
             IF b \in keep THEN content[b] ELSE Unlinked(b, shard[b])]
        /\ UNCHANGED <<ckpt, tmp, version, place, fd, out, shaken>>

\* Mutant: only the index of the checkpoint is compared, not its query.
StartUnchecked(r) == MayStart(r) /\ Loaded(r).fp = version /\ Resume(r)

StartRun(r) == MayStart(r) /\ Resumable(r) /\ Resume(r)

\* CHECKPOINT_MISMATCH: the checkpoint is another query's or another index's.
Refuse(r) ==
    /\ MayStart(r)
    /\ ~Resumable(r)
    /\ phase' = [phase EXCEPT ![r] = "refused"]
    /\ UNCHANGED <<disk, version, mem, work, place, fd, out, shaken>>

(* createWriteStream(tmp, "w"): truncates what is at that path, or creates. *)
OpenBook(r, b) ==
    /\ phase[r] = "sweeping"
    /\ work[r][b] = "todo"
    /\ Cardinality(Inflight(r)) < Concurrency
    /\ LET inode == IF tmp[b] = None THEN r ELSE tmp[b]
       IN  /\ tmp' = [tmp EXCEPT ![b] = inode]
           /\ fd' = [fd EXCEPT ![r][b] = inode]
           /\ content' = [content EXCEPT ![b][inode] = Empty]
    /\ work' = [work EXCEPT ![r][b] = "open"]
    /\ UNCHANGED <<ckpt, shard, version, phase, mem, place, out, shaken>>

\* Matches after the cursor, in the index the helper serves, and a page of them.
Left(r, b) == {k \in Found[version][mem[r].query][b] : k > after[r][b]}
Page(r, b) == Top(Less(Left(r, b)), PageSize, Left(r, b))

Line(q, v, k) == [query |-> q, at |-> v, key |-> k]

\* A file with the lines of some keys written from a position on.
Written(file, start, keys, q) ==
    [n \in Positions |->
        IF start < n /\ n <= start + Cardinality(keys)
        THEN Line(q, version, Ascending(keys)[n - start])
        ELSE file[n]]

(* One turn of the paging loop: a page of matches after the cursor, from    *)
(* whichever index the helper has open by now, and their lines at the      *)
(* stream's position. The loop ends where no match is left.                *)
Batch(r, b) ==
    LET page == Page(r, b)
    IN  /\ phase[r] = "sweeping"
        /\ work[r][b] = "open"
        /\ content' = [content EXCEPT ![b][fd[r][b]] =
                         Written(@, pos[r][b], page, mem[r].query)]
        /\ pos' = [pos EXCEPT ![r][b] = @ + Cardinality(page)]
        /\ after' = [after EXCEPT ![r][b] =
                       IF page = {} THEN @ ELSE Latest(Less(page), page)]
        /\ work' = [work EXCEPT ![r][b] = IF page = Left(r, b) THEN "swept" ELSE "open"]
        /\ UNCHANGED <<ckpt, shard, tmp, version, phase, mem, fd, out, shaken>>

\* renameSync(tmp, shard) succeeds: whatever is at the .partial path moves.
Rename(b) ==
    /\ tmp[b] # None
    /\ shard' = [shard EXCEPT ![b] = tmp[b]]
    /\ tmp' = [tmp EXCEPT ![b] = None]

\* Mutant: one hit too many is counted.
RecordedOneMore(r, b) == [mem[r] EXCEPT !.completed[b] = pos[r][b] + 1]

Recorded(r, b) == [mem[r] EXCEPT !.completed[b] = pos[r][b]]

\* Mutant: a book is recorded when its first batch is written.
KeepEarly(r, b) ==
    /\ phase[r] = "sweeping"
    /\ \/ work[r][b] = "swept"
       \/ work[r][b] = "open" /\ pos[r][b] > 0
    /\ Rename(b)
    /\ mem' = [mem EXCEPT ![r] = Recorded(r, b)]
    /\ ckpt' = Recorded(r, b)
    /\ work' = [work EXCEPT ![r][b] = "kept"]
    /\ UNCHANGED <<content, version, phase, place, fd, out, shaken>>

\* The stream is closed; the shard gets its name and the checkpoint the book.
KeepBook(r, b) ==
    /\ phase[r] = "sweeping"
    /\ work[r][b] = "swept"
    /\ Rename(b)
    /\ mem' = [mem EXCEPT ![r] = Recorded(r, b)]
    /\ \/ /\ ckpt' = Recorded(r, b)
          /\ work' = [work EXCEPT ![r][b] = "kept"]
       \/ /\ ckpt' = Torn
          /\ work' = [work EXCEPT ![r][b] = "failed"]
    /\ UNCHANGED <<content, version, phase, place, fd, out, shaken>>

\* Mutant: the failure is not listed.
FailSilently(r, b) ==
    /\ phase[r] = "sweeping"
    /\ work[r][b] = "open"
    /\ work' = [work EXCEPT ![r][b] = "kept"]
    /\ tmp' = [tmp EXCEPT ![b] = None]
    /\ UNCHANGED <<ckpt, shard, content, version, phase, mem, place, fd, out, shaken>>

(* The catch: search, BookReader.open or the rename threw.  The .partial is *)
(* removed, whoever is writing it.                                         *)
FailBook(r, b) ==
    /\ phase[r] = "sweeping"
    /\ \/ work[r][b] = "open"
       \/ work[r][b] = "swept" /\ tmp[b] = None
    /\ work' = [work EXCEPT ![r][b] = "failed"]
    /\ tmp' = [tmp EXCEPT ![b] = None]
    /\ content' = [content EXCEPT ![b] = Unlinked(b, tmp[b])]
    /\ UNCHANGED <<ckpt, shard, version, phase, mem, place, fd, out, shaken>>

\* Mutant: one failed worker keeps the pool from finishing.
BeginIfAllKept(r) ==
    /\ phase[r] = "sweeping"
    /\ \A b \in Books : work[r][b] \in {"reused", "kept"}
    /\ phase' = [phase EXCEPT ![r] = "assembling"]
    /\ UNCHANGED <<disk, version, mem, work, place, fd, out, shaken>>

\* mapWithConcurrency is through: results.jsonl is created anew.
BeginAssembly(r) ==
    /\ phase[r] = "sweeping"
    /\ \A b \in Books : work[r][b] \in {"reused", "kept", "failed"}
    /\ phase' = [phase EXCEPT ![r] = "assembling"]
    /\ UNCHANGED <<disk, version, mem, work, place, fd, out, shaken>>

(* The books of by_book still to be copied: those with hits, in any order.  *)
Uncopied(r) == {b \in Books : /\ mem[r].completed[b] \notin {None, 0}
                              /\ shard[b] # None
                              /\ out[r][b] = None}

\* Append a shard to results.jsonl.
Assemble(r, b) ==
    /\ phase[r] = "assembling"
    /\ b \in Uncopied(r)
    /\ out' = [out EXCEPT ![r][b] = content[b][shard[b]]]
    /\ UNCHANGED <<disk, version, phase, mem, work, place, fd, shaken>>

\* Manifest and report are written and the call returns.
Finish(r) ==
    /\ phase[r] = "assembling"
    /\ Uncopied(r) = {}
    /\ phase' = [phase EXCEPT ![r] = "done"]
    /\ pos' = [pos EXCEPT ![r] = [b \in Books |-> 0]]
    /\ after' = [after EXCEPT ![r] = [b \in Books |-> 0]]
    /\ fd' = [fd EXCEPT ![r] = [b \in Books |-> None]]
    /\ UNCHANGED <<disk, version, mem, work, out, shaken>>

(* The server is killed: every active run is over and its memory is gone.   *)
Killed ==
    LET Lost(r) == phase[r] \in Active
    IN  /\ phase' = [r \in Runs |-> IF Lost(r) THEN "dead" ELSE phase[r]]
        /\ mem' = [r \in Runs |-> IF Lost(r) THEN Fresh(mem[r].query, 1) ELSE mem[r]]
        /\ work' = [r \in Runs |-> IF Lost(r) THEN [b \in Books |-> "todo"] ELSE work[r]]
        /\ pos' = [r \in Runs |-> IF Lost(r) THEN [b \in Books |-> 0] ELSE pos[r]]
        /\ after' = [r \in Runs |-> IF Lost(r) THEN [b \in Books |-> 0] ELSE after[r]]
        /\ fd' = [r \in Runs |-> IF Lost(r) THEN [b \in Books |-> None] ELSE fd[r]]
        /\ out' = [r \in Runs |-> IF Lost(r) THEN [b \in Books |-> None] ELSE out[r]]

\* Between two callbacks: files stay as they are.
Crash ==
    /\ \E r \in Runs : phase[r] \in Active
    /\ Killed
    /\ UNCHANGED <<disk, version, shaken>>

\* After a rename, before the checkpoint is written or in the middle of it.
CrashKeeping(r, b) ==
    /\ phase[r] = "sweeping"
    /\ work[r][b] = "swept"
    /\ Rename(b)
    /\ ckpt' \in {ckpt, Torn}
    /\ Killed
    /\ UNCHANGED <<content, version, shaken>>

(* Shamela rewrites its index and a newly started helper serves it; a       *)
(* helper that died under a run is replaced by the run's next request.     *)
MoveIndex ==
    /\ version < MaxVersion
    /\ version' = version + 1
    /\ shaken' = shaken \union {b \in Books : \E r \in Runs :
                     phase[r] = "sweeping" /\ work[r][b] \in {"todo", "open"}}
    /\ UNCHANGED <<disk, phase, mem, work, place, fd, out>>

Step(r) ==
    \/ \E b \in Books : OpenBook(r, b) \/ Batch(r, b) \/ KeepBook(r, b) \/ FailBook(r, b)
    \/ BeginAssembly(r)
    \/ \E b \in Books : Assemble(r, b)
    \/ Finish(r)

Next ==
    \/ \E r \in Runs : StartRun(r) \/ Refuse(r) \/ Step(r)
    \/ \E r \in Runs, b \in Books : CrashKeeping(r, b)
    \/ Crash
    \/ MoveIndex

Spec == Init /\ [][Next]_vars

\* Node keeps running the callbacks that are due; a caller need not start a call.
FairSpec == Spec /\ WF_vars(\E r \in Runs : Step(r))

-----------------------------------------------------------------------------
TypeOK ==
    /\ ckpt \in Checkpoints \union {None, Torn}
    /\ shard \in [Books -> Runs \union {None}]
    /\ tmp \in [Books -> Runs \union {None}]
    /\ content \in [Books -> [Runs -> File]]
    /\ version \in Versions
    /\ phase \in [Runs -> {"idle", "sweeping", "assembling", "done", "refused", "dead"}]
    /\ mem \in [Runs -> Checkpoints]
    /\ work \in [Runs -> [Books -> {"reused", "todo", "open", "swept", "kept", "failed"}]]
    /\ pos \in [Runs -> [Books -> 0..MaxKey]]
    /\ after \in [Runs -> [Books -> 0..MaxKey]]
    /\ fd \in [Runs -> [Books -> Runs \union {None}]]
    /\ out \in [Runs -> [Books -> File \union {None}]]
    /\ shaken \subseteq Books

Copied(r, b) == IF out[r][b] = None THEN Empty ELSE out[r][b]

RowsCopied(r, b) == Cardinality({n \in Positions : Copied(r, b)[n] # None})

\* A file without a gap, of one query, whose lines go forward.
InOrder(f, q) ==
    \A n \in Positions : f[n] # None =>
        /\ f[n].query = q
        /\ \A m \in 1..(n - 1) : f[m] # None /\ f[m].key < f[n].key

\* All the matches of a version, and nothing else.
Whole(f, b, q, v) ==
    {f[n] : n \in {n \in Positions : f[n] # None}} = {Line(q, v, k) : k \in Found[v][q][b]}

(* A book the checkpoint on disk records, with its shard there, has as many *)
(* lines as recorded, without a gap or a step back, whatever crash came in *)
(* between; and they are the matches of the checkpoint's query and index,  *)
(* each once, unless the index moved before the book was swept to its end  *)
(* (exportResults.ts, Resumability).                                       *)
ShardsWhole ==
    ckpt \notin {None, Torn} =>
        \A b \in Reusable(ckpt) :
            LET f == content[b][shard[b]]
            IN  /\ InOrder(f, ckpt.query)
                /\ \A n \in Positions : f[n] # None <=> n <= ckpt.completed[b]
                /\ b \in shaken \/ Whole(f, b, ckpt.query, ckpt.fp)

(* A call that returns has exported each match of every book once, in order, *)
(* or names the book as failed: "no line is repeated and none is lost"     *)
(* (tools/exportResults.ts, resume.note_ar); of the index it names, unless *)
(* the index moved before the book was swept to its end.                   *)
ResultsWhole ==
    \A r \in Runs : phase[r] = "done" =>
        \A b \in Books : work[r][b] # "failed" =>
            /\ InOrder(Copied(r, b), mem[r].query)
            /\ b \in shaken \/ Whole(Copied(r, b), b, mem[r].query, mem[r].fp)

(* And the counts it returns are the lines it wrote, book by book, also for  *)
(* books an earlier run swept, for books it lists as failed and for those  *)
(* the index moved under (exportResults.ts, by_book and total_hits).       *)
ResultsHonest ==
    /\ ResultsWhole
    /\ \A r \in Runs : phase[r] = "done" =>
          \A b \in Books :
              RowsCopied(r, b) = IF mem[r].completed[b] = None THEN 0 ELSE mem[r].completed[b]

(* All rows of one results.jsonl are of the query of the call, however often *)
(* the job was called with another one in between; and those of a book are *)
(* of the index the result names, unless that moved before the book was    *)
(* swept to its end: two result sets are not mixed by resuming             *)
(* (exportResults.ts, CHECKPOINT_MISMATCH).                                *)
ResultsUnmixed ==
    \A r \in Runs : phase[r] = "done" =>
        \A b \in Books, n \in Positions :
            Copied(r, b)[n] # None =>
                /\ Copied(r, b)[n].query = mem[r].query
                /\ b \in shaken \/ Copied(r, b)[n].at = mem[r].fp

(* As long as the checkpoint can be read, no step forgets a completed book, *)
(* or makes the job one of another query or index: completed books are not *)
(* swept again. (A kill in the middle of its writing tears the file, and   *)
(* the job then starts anew.)                                              *)
CheckpointGrows ==
    [][ ckpt \notin {None, Torn} /\ ckpt' \notin {None, Torn} =>
          /\ Reusable(ckpt) \subseteq Reusable(ckpt)'
          /\ ckpt'.query = ckpt.query /\ ckpt'.fp = ckpt.fp ]_vars

(* Each call returns or is killed, with books that fail, empty books and     *)
(* pages that end where the book does: again and again none is under way.   *)
RunEnds == []<>(\A r \in Runs : phase[r] \notin Active)
=============================================================================
