# Formal verification of shamela-fiqh-4

A TLA+ development of the MCP server that searches a Shamela 4 library through a
Java Lucene helper. The modules are translated from the source; TLC checks them on
small instances and TLAPS proves the central invariants for every instance.

Paths below are relative to the repository: `context.ts` is `src/context.ts`,
`luceneBridge.ts` is `src/search/luceneBridge.ts`, and so on.

## 1. The system

One Node process speaks MCP over stdio. Each tool call is an async function; Node
runs one callback at a time, so calls interleave only where they `await`. All book
text is in Shamela's own Lucene index, which only the Java helper reads.

```
 MCP client ── tools/*.ts ── pipeline/*.ts ── ShamelaSearchEngine ── LuceneBridge ══ pipes ══ Main.java
                  │               │              (shared, refcounted)    (stdin/stdout)          │
               context.ts     files of an                                                    IndexCache
             (engineCache)     export job                                                  (opened once)
```

| Component | State it keeps | Operations | What makes it correct |
| --- | --- | --- | --- |
| Shared engine (`context.ts`) | `engineCache`, `engineHolders`, `engineIdleTimer` | `acquireEngine`, `release`, idle timer, `resetContext` | the count is the handles that are out; nothing closes an engine in use; an unused one is closed; one helper at a time |
| Bridge (`luceneBridge.ts`) and loop (`Main.java`) | `proc`, `buffer`, `pending`; the two pipes | `send`, `close`, `onData`, `exit`/`error`, timers | each promise settles once, by its own answer or a failure; nobody waits for a dead process; close stops the process |
| Export job (`exportResults.ts`, `concurrency.ts`) | `checkpoint.json`, `parts/*.jsonl`, `*.partial`, `results.jsonl` | start or resume, sweep per book, rename and record, assemble | no row lost or repeated over crashes; one query and one index per result, but for a restart in mid-sweep |
| Engine facade and cursors (`shamelaEngine.ts`, `cursor.ts`, `query.ts`) | index statistics of the last health check | `refresh`, `search`, `countsByBook`, `fingerprint`, cursor encode/decode | a cursor resumes exactly after the last passage delivered, and only on the same query, scope and index |
| Batched search (`search.ts`, `batching.ts`) | none between calls | `runBatchedSearch` under a byte and a time budget | walking the cursors delivers every match once |
| Discovery, comparison (`discoverIssue.ts`, `compareIssue.ts`) | none | several searches, grouped | totals and cursors agree with what is shown |
| Passages (`fetchPassages.ts`, `passage.ts`) | pool of open books | expand references, read, build | each reference answered or listed as failed |
| Text source (`luceneText.ts`) | page, title and miss caches | prefetch, trim, read | a batch survives its own trim |
| Lucene commands (`Commands.java`, `IndexCache.java`) | an index reader per process | search, counts, pages, titles | scope respected, order total, walk complete |
| Classification (`classifier.ts`, `ambiguity.ts`, `coverage.ts`) | loaded configuration | classify a book, coverage of a scope | precedence of rules; every book of a scope accounted for |
| Normalisation (`normalize.ts`, `html.ts`) | none | normalise, strip mark-up, cut excerpts | the two normal forms agree and keep the words; an excerpt is whole words around the match |
| Discovery and settings (`config.ts`, `discover.ts`) | `catalogueCache` of `context.ts` | clean settings, locate the library, resolve Java | a named folder or none; the engine reads the library of the catalogue; `fiqh4_health` tells the truth |
| Book and catalogue databases (`bookRepo.ts`, `masterRepo.ts`, `schemaProbe.ts`, `sqlite.ts`) | read-only SQLite, the table of contents with the words found so far | probe the schema, pages, table of contents, books | a schema that cannot be used is said to be so; the trail of a page is the headings it is under |
| Shell (`main.ts`, `registerTools.ts`, wording, scripts) | none | registration, schemas, packaging | not modelled: no state, or pure input and output |

Hard behaviour: tool calls interleaving around the shared helper; a child process
whose answers, exit event and timers come in any order; a server killed in the
middle of an export; an index that Shamela rewrites while cursors, checkpoints and
fingerprints refer to it; and batches cut short by budgets. `PROJECT.json` lists the
hazards line by line with the properties aimed at each.

## 2. Modules

| Module | Models | Role |
| --- | --- | --- |
| `EngineLifecycle` | `context.ts` | component |
| `RequestReply` | the promise of `send()` | abstract specification |
| `LuceneBridge` | `luceneBridge.ts`, `Main.java` | component; implements `RequestReply` |
| `HelperProofs` | | theorems about `EngineLifecycle` and `LuceneBridge` |
| `ExportJob` | `exportResults.ts`, `concurrency.ts` | component |
| `ExportJobProofs` | | theorems about it |
| `Commands` | the reads of `Commands.java` | operators |
| `BatchedSearch` | `search.ts`, `batching.ts`, `cursor.ts`, `discoverIssue.ts`, `compareIssue.ts` | component, composed with `Commands` |
| `BatchedSearchProofs` | | theorems about it |
| `FetchPassages` | `fetchPassages.ts`, `luceneText.ts`, the reader pool of `passage.ts`, the lookup by key of `Commands.java` | component |
| `FetchPassagesProofs` | | theorems about it |
| `Library` | `classifier.ts`, `ambiguity.ts`, `masterRepo.ts`, `coverage.ts`, `listBooks.ts`, both `compareIssue.ts`, the caches of `context.ts` | component |
| `LibraryProofs` | | theorems about it |
| `Orders` | what is kept in order: a list (`listBooks.ts` 71), search results (`Commands.java`), what is left of a list (`luceneText.ts`), the words of a text, the headings of a path | operators |
| `OrdersProofs` | | lemmas about them |
| `Schema` | `schemaProbe.ts`, the join of `masterRepo.ts` | operators |
| `Installation` | `config.ts`, `discover.ts`, the catalogue and engine caches of `context.ts`, `health.ts` | component, composed with `Schema` |
| `InstallationProofs` | | theorems about it |
| `TextForms` | `html.ts`, `normalize.ts`, `query.ts` | operators |
| `Passages` | `bookRepo.ts`, `passage.ts`, `citation.ts`, the look-ups of `luceneText.ts` | component, composed with `Schema` and `TextForms` |
| `PassagesProofs` | | theorems about it |
| `MCEngine`, `MCBridge`, `MCExport`, `MCSearch`, `MCFetch`, `MCLibrary`, `MCInstallation`, `MCPassages` | | instances for TLC |

Operators whose comment starts with "Mutant" are plausible mistakes in the operator
they stand before. No specification uses them; replacing the operator by its mutant
breaks the property that guards it, which shows that the property has content.

### EngineLifecycle

A model call is one tool call: it acquires once, uses the engine and releases in its
`finally`. An engine is named by the call that opened it. `pc` is the position in
`acquireEngine`: `AcquireCached` takes the handle and starts `refresh()`, which ends
in `RefreshOk` or `RefreshLost`; `Reopen` is the `catch` with the second opening;
`AcquireEmpty`/`OpenOk`/`OpenFails` are lines 198-199, with the `await` between test
and assignment that lets first calls race. `ReleaseEngine` is `releaseEngine`,
`IdleFires` its timer, `Reset` is `resetContext`. `helper` says for each engine
whether its child process runs; `AfterSend` restarts it, as `ensureStarted` does also
for a bridge that was closed. `closed` and `stale` are history variables: the engines
that were closed, and whether a close ever left a handle behind. `Abandon` is the tool
whose handle never comes back: `fiqh4_citation` opens the book between acquiring
and its `try`. The call is over, its handle still counts (`Holding`).

`FIQH4_ENGINE_IDLE_MS` is read at each release, so each release takes one of
`IdleTimes`. The release in the `catch` is merged with the `closeEngineNow` that
follows it without an `await`: everything it does is done again by the close.

### LuceneBridge and RequestReply

A send is named by its id and a process by the send that spawned it. A line crosses
the pipe in two pieces, so that another process's piece, or the end of the process,
may come between them; `buffer` remembers whose line began, or `Junk` when two
beginnings were glued. `OnExit` covers `'exit'` and `'error'`, which run the same
`failAll`; `Timeout` covers the timer and the write callback with an error, which do
the same. `life` distinguishes a process that is dead from one whose end Node has
seen. `close()` settles and runs its `finally` in the microtasks right after, before
any other callback, so both are one step (`Settle`, `KillCurrent`). An engine is
closed once (`context.ts` drops it), so one close per bridge is enough.

The names of the specification begin with `Bridge` (`BridgeInit`, `BridgeSpec`,
`BridgeTypeOK`), because `HelperProofs` speaks of this module and of `EngineLifecycle`.

`RequestReply` is what callers rely on: a request is settled at most once and
answered only if its own answer exists. The refinement maps `known` to `written`.

### ExportJob

A run is one call of `exportResults`; runs are numbered in the order they are made
and share the job's directory; each has its query, and the checkpoint the query and the
index (`fp`) it is of. A version of the index has matches of its own for a query in a book
(`Found`). A match is a key, which stands for the score and document number that place it
in Lucene's order. The cursor of a sweep (`after`) is such a key and nothing more, as in the
code (lines 217-221, 274): `Batch` gives it to whichever index the helper has open by then,
where it may pass over matches or meet one again. `pos` is the number of lines written
(`hits`). A line keeps its query and the version it was read from, a file is a function from
places of lines, so that a gap or an overwritten line shows. The order is the order of
relevance: the sweep asks for document order and no total (lines 222-226), but
`shamelaEngine.ts` passes neither on, and the keys need not know.

Files are inodes with names: `tmp[b]` is what `parts/<b>.jsonl.partial` names, `shard[b]` what
`parts/<b>.jsonl` names, and an open stream keeps its inode (`fd`), so that two
streams on one path behave as POSIX files do. `StartRun` is the synchronous head up
to line 200; `OpenBook`, `Batch`, `KeepBook` and `FailBook` are the worker that
`mapWithConcurrency` runs on at most `Concurrency` books; `BeginAssembly`,
`Assemble` and `Finish` the rest. A crash may come between any two callbacks
(`Crash`) and inside the synchronous tail of a book, after the rename or in the
middle of writing the checkpoint (`CrashKeeping`). A run whose search fails, or
whose `.partial` has been renamed away, takes the `catch` (`FailBook`). The index
moves (`MoveIndex`) when Shamela rewrites it and a newly started helper opens it; the
books that an active run has still to sweep, or is sweeping, are then `shaken`.

Of a job the properties say: what a checkpoint that can be read records is in the shards
(`ShardsWhole`), what a call returns is whole or named as failed and honestly counted
(`ResultsHonest`), no query is mixed with another (`ResultsUnmixed`), nothing completed is
forgotten (`CheckpointGrows`). Of a shaken book they say that its lines are in order, without
a gap, of one query and as many as counted; whether they are all the matches of any index
they do not say, because the code does not see to it. The fingerprint is read once, at the
start of a call (line 148), so a helper that is restarted on a rewritten index in the middle
of a book leaves a shard that lacks matches or has rows of two indexes, and the call reports
it as a success of the first index. Without `shaken` TLC refutes the first three. `CheckpointGrows` is
silent about a torn `checkpoint.json`, with which the job starts anew.

### Commands and BatchedSearch

`Commands` takes Lucene for data: an index is a set of documents with a score for each
query, and a search lists the matches by score and number. `SearchPages` is the paged
search that resumes after a key, with its look-ahead document, its filter by id and the
two ways of restricting it to books (`Pushed[v]`: the index has a field with the book
id). `CountEach` and `CountByWalking` are the two ways of counting by book. An order is a
set of pairs (`ByRank`, `ByHits`), and what is first, last or listed by it is told by
ranks (`Orders`), so that it can be reasoned about.

`BatchedSearch` runs the three interactive tools over one helper. A call's steps end
where it waits for the helper: `Begin` is the health check with everything up to the
first request, the cursor check of a search included; `SearchAnswers` the whole of
`runBatchedSearch` after the engine's answer; `CountsAnswer` the rest of
`discoverIssue`, whose cursor is checked only then; `SchoolAnswers` and `NextSchool` the
loop of a comparison. `disk` is the index Shamela wrote last and `proc` the one the
running helper opened and keeps; `HelperEnds` fails the requests it owes, and the next
request starts a helper on the index of the day. A request's `room` is the number of
passages that fit its byte budget. `got` is the answer, with the walk that led to it as
history: what was given and passed over since the first batch, and which indexes
answered.

The text of passages and the sample of page ids are left out, and so are several
engines, which `EngineLifecycle` has. The neighbours and the groups of a comparison are
in `Library`.

### FetchPassages

A request expands to a list of pages (`Targets`), and the cursor is a place in it; the
list is made anew by each call, from the catalogue of the moment. A call waits for the
helper in two places: in `warm`, where the window's text is asked for at once, and in
`withText`, where a page is read that the cache does not hold; `Begin`, the `Warm...`
actions, `AskPage` and the `Page...` actions are cut there. Between them the loop takes
a target a step. `Touched`, `Trimmed` and `Ceiling` are the bounded cache of
`LuceneTextSource`, as a sequence with the oldest key first; `Found` is `lookupByKey`.
A request that fails is logged and the loop goes on (`WarmFails`, `PageFails`). `room`
is the number of passages that fit the byte budget. Of a passage the model keeps its
key and whether it has words.

Calls share only the catalogue, each having its own cache and readers, so one runs at a
time and `Recatalogue` comes in between its steps. A comparison reads the neighbours of
its passages through the cache its searches filled: that is the second value of
`Seeds`. Headings go through the same code with caches of their own and are left out.
`got` holds the answers with the walk that led to each: what was given, said to have
failed or to be missing since the first batch, and whether the list was always the
same.

### Library

What is on disk is one of `Editions`, one after another (`Edit`): the rows of the
catalogue and the overrides file, either of which may be unreadable. `cls`, `raw` and
`loaded` are `classifierCache`, the rows kept by the catalogue and `booksCache`;
`AllBooks` fills them in the order of the code, `AllBooksFails` says which of them is
left filled by an error, and `Refresh` is `fiqh4_health` with `refresh`, which drops all
and reads again. `Classify` is the classifier over sets of patterns: `Parts` says which
patterns the name of a category contains, a row which schools its title and its author
hint at. `Use` stands for the tools that look at the books once, in one stretch of code.

`ListFirst` and `ListNext` walk `list_books` with its cursor, a place in a list that each
call makes anew. A comparison waits for the search of a school (`SchoolSearched`) and for
the pages around its passages (`ContextFetched`); before each it looks the books up again
(`Continue`), so that a refresh may come between. What a search finds is any choice of
the matching books in its scope, at least one if there is one. `Wanted` are the books around
whose pages `fetchPassages` is then to read, as the catalogue has them when it is called; any
of their files may fail to open (`broken`, `fetchPassages.ts` 159-170), and the batch has the
pages of the others (`Context`), cut at `room`, as `fetchPassages` cuts it at its byte budget
(`Fetched`). The list of the books that failed is dropped, as in `compareIssue.ts` 147. The
order of pages within a search and pages found twice are left to `BatchedSearch`.
A refresh asks the helper to stop; the comparison either fails (`CompareFails`) or goes on
with a helper started anew, as `EngineLifecycle` has it.

### Schema and Installation

A database is the sequence of its tables, a table a name with a set of columns; `Pick`
is the first alias that is a column, `PickExcluding` the first that no role has taken,
`Best` the first table of the highest score. `ProbeMaster` and `ProbeBook` are the two
probes, `MasterNotes` what the first leaves in `notes`. `SchemaSaid` says which notes appear
when: the one about a missing table of categories always when there is none, and with a table
taken for one those about a missing column exactly when `books()` joins nothing. It does not
call a note true: see below on `schemaProbe.ts` 155.

The machine is in one of the states `Machines`, each with the two settings, what is at
every root, and whether the helper is built; `Change` moves from one to the next at any
moment. `Catalogue` is `catalogue()`, which keeps what it found; `Search` any tool that
searches; `Health` is `fiqh4_health` up to its `await`, with the report of a library that
is not found. The three branches of its body are the three disjuncts. `Acquire` and
`Launch` are `acquireEngine` and `openEngineProcess` up to their `await`, `RefreshOk`,
`RefreshLost`, `OpenOk` and `OpenFails` what follows them; in `Got` a search goes on and a
report is finished with the numbers of the engine it got. `report` is what a waiting
health call has found, `said` the report the last step sent. `crossed` is history: who was
waiting when somebody refreshed. The count of holders is here for what it does to the
cached engine; its own properties are those of `EngineLifecycle`.

### TextForms and Passages

A text is a sequence of characters, one of each kind the code tells apart. `HtmlToText`,
`Normalised`, `NormalisedWithMap`, `Tokenize`, `FirstMatch`, `Reason` and `Window` are the
functions of the same purpose; `NFC` is composition as far as the marks of the model need
it (a mark of a lower class does not block it). Entities are left out: a decoded character
is like any other. A loop over a text is a fold to the left with the body of the loop as its
step (`Spaced`, `Joined`, `Collapsed`, `Mapped`); words are runs of characters of a kind, in
order. One character is left out that the code treats in two ways: U+FEFF is white space to
the `\s` of `html.ts` 77-78, so that an excerpt may be cut at one inside a word, and a control
to be stripped for `normalize.ts`.

A behaviour of `Passages` is one batch or one citation, over one book: `WarmPages` and
`WarmTitles` are the two halves of `warm`, `Open` and `OpenFails` the opening of the file,
`Build` is `buildPassage` or the body of `fiqh4_citation`, with the requests it makes
for what the cache lacks, each answered or lost. `Entries` is the table of
contents up to where the loop of `trail` breaks, `Trail` the places of the last heading of
each level in it, `Path` those of them that have words, by level; the words found for a
heading stay in the table (`Filled`), as in the code. A file may have no column for the id
of a heading, which is then its page, so that two headings may share an id (`unnumbered`). Headings of one page come in any order, since the query orders
by page only. Several books of a batch differ in nothing but their reader, and the bounds
of the cache are those of `FetchPassages`.

## 3. Runs

All passing runs are exhaustive. `CHECK_DEADLOCK FALSE` but in `install`: the instances
have finitely many calls, and the system rests when they are over.

| Run | Shows |
| --- | --- |
| `engine` | three calls, every failure, resets, both kinds of idle time: all invariants, the conditional promise of `release`, and liveness |
| `engine_cold_start` | two first calls leave a helper nobody will close |
| `bridge` | three requests and a close, everything may fail: invariants, refinement, liveness |
| `export` | three calls for one job, of either of two queries, killed anywhere, under an index that moves: invariants, the checkpoint only grows, every run ends |
| `export_overlap` | two simultaneous calls of one job lose rows and report success |
| `search` | three calls of the tools, two at once, over an index that is rewritten: order, completeness, progress and totals of walks |
| `search_empty_scope` | a scope without downloaded books searches the whole library and calls its total exact |
| `fetch` | three calls, with cursors, over a changing catalogue, bad files and failing requests: what a walk gives and reports, its progress, and a cache that keeps its batch |
| `library` | five editions of the disk under listings, refreshes and comparisons: coherent caches, attribution by rule, complete coverage and listings, no school lost for which there is room and of which a file opens |
| `compare_silence` | a comparison with neighbours calls a school silent whose books matched and open, when its answer is full |
| `install` | two calls, searches or health reports, on a machine in seven states: which library, Java and engine, and what health says of them |
| `passages` | every text of up to three pieces, and every table of contents of three headings in four layouts of a book: paths, normal forms, excerpts, reasons |

The four violations are disagreements between the code and what its comments, tests or
documents say, quoted in `PROJECT.json`. Where a promise fails, the passing run
checks the strongest form of it that holds: `SparesUnlessStale` and `HoldersExact`
up to `stale`, `ExitFailsItsOwnUnclosed` before the first `close()`,
`SettlesUnlessTorn` in runs without glued lines, `ShardsWhole`, `ResultsHonest` and
`ResultsUnmixed` for books the index did not move under (`shaken`), `CheckpointGrows` for
checkpoints that can be read,
`NumbersHonest` for scopes that have a book, `WalkExact` for schools apart,
`IdleShutdown` for calls that give their handle back, `BatchKept` for calls
whose requests were answered, `EvidenceUncut` for answers that have room for all
neighbours and schools one of whose matching books opens, `SchoolsApart` for requests without `book_ids`
and, like `ListWhole`, as long as nobody refreshes, `EngineOfLibrary`
and `HealthTruthful` for engines and reports that no refresh has crossed, `FormsAgree` for
texts without a combining mark that is kept.

More disagreements are behind such conditions and have no run of their own. After
a `close()`, the exit of the old process fails a request written to the new one
(`luceneBridge.ts` 129-140). A comparison of schools that share books (always, with
`book_ids`) shows a passage once per school. An export resumed with the other
`include_full_text` keeps the shards it has, although its manifest states one value
(`exportResults.ts` 167), and the comment there, that a rebuilt index is refused because
resuming into it "would silently mix two result sets" (165-166), is not true of a helper
that is restarted within a call (see ExportJob above). A comparison with neighbours drops the
list of books that failed (`tools/compareIssue.ts` 147), so a school whose matching books do
not open is reported as one where no page matched, although the answer has room (without
`Unopened` TLC refutes `EvidenceUncut`). `failAll` leaves `this.buffer` alone, so half a line of a dead
helper swallows the first answer of the next one, whose request then waits for its 180 s
timer (without its condition TLC refutes `SettlesUnlessTorn`). A text request that fails
gives passages without words and no book is listed as failed, although `luceneText.ts` 134
says it "is reported as unreadable upstream". The repository's README (lines 80-82
and 93) and the overrides file call overrides the only source of `verified`, while
`classifier.ts` 239 also gives it to a book that a reviewed rule matches exactly.

Of the engine: `EngineHandle.release` "never closes the helper while another call still
holds it" (`context.ts` 109), but after a restart the late release of a handle on the old
engine counts against the new one and may close it (`releaseEngine`, line 145; without
`stale` TLC refutes `SparesUnlessStale`). `fiqh4_citation` opens the book between
`acquireEngine` and its `try` (`citation.ts` 60-63), so a file that is no book keeps its
handle for ever, although the helper "shuts down only after an idle period with no
holders" (`Abandon`).

Of the installation: a configured Java is taken if anything exists at its path, a folder
too (`discover.ts` 291), while the report of a missing library asks for a file
(`health.ts` 97). A `master.db` that is not recognised is reported as a library that was not
found, since `catalogue()` fails for both. The note of a missing table of categories says
that the column of the books will do (`schemaProbe.ts` 155); `masterRepo.ts` 91-97 then
gives no category at all, so that the report promises a column nobody reads (the layout
`single` of `MCInstallation` is such a library). Without a table named for categories the first small table with
a column called `name` or `title` is taken for it.

Of the text: `normalizeArabic` is called idempotent (`normalize.ts` 88); a combining mark
that is not stripped, kept from its letter by a character that is, joins it the second
time. In `all_terms` mode the reason says that all words occur whatever the text has
(`query.ts` 88-89), and a term is also found inside a longer word. The caveat that a book
has no table of contents is given as well for a page before its first heading and when the
request for headings failed (`citation.ts` 91). Shamela 4 has no column for the level, so
the path of a page is its nearest heading only; headings of one page have no order; and a
heading without a page counts as on page 0 and is in every trail.

Bounds. Three calls of the engine give an opener, a holder of its engine and a
restarter, which is what the restart scenario takes; a fourth adds states and no new
behaviour. Three requests give two processes with one pending request on the second
and one on the first, and a third to be swallowed. Two books of two matches and one
with batches of one give a book interrupted between batches while another is
complete, and the other query a book of one match, and books of none; the rewrite gives
the first match of the long book a key ahead of the cursor that has passed it. Three runs give a crash, a crash during
the resumption or a call with the other query, and a run that finishes or is refused. Three calls of the search tools
walk the first index to its end in batches of one and two; four documents in good order
have an equal score across a batch and a page that cannot be read, and the six of the
rewritten index have a page twice and ids missing, without a field for the book. Walks
made with cursors of two tools are enumerated as well, but the properties of walks
speak of those of one tool (`pure`): the code promises nothing for the others. Three
calls of fetch walk six pages, some of them missing, in batches of three and of all, and
a list with a page twice; with a cache bound of two, the former exceed the bound and
the window of the latter fits it. One of the three books does not always open, one has no body for
a page, one comes and goes with the catalogue. The
library has a book for each way of being classified (an exact rule over partial ones,
partial rules that disagree, one with hints against it, none, no category) and editions
that move, include and exclude books and complete a download; two editions cannot be
read, in one of their halves each. Two and three schools are compared, with and without
neighbours and book ids, once with a school named twice, with an answer that has room for all neighbours or for four pages, and
any of the files may fail to open in between.
The seven machines have every way of naming a root and a Java, a root that is whole, gone and
with each of three parts missing, and six schemas of the catalogue, one of a single table with a column of categories; two calls are a
refresh and a call that waits across it. Three pieces of text give a letter, what is
stripped between, and a mark, or a word between two boundaries of different kinds; three
headings a nested one that is reset and one that is not.

Fairness. A request in flight is settled, because the helper answers, exits or meets
its 180 s timer; a tool that uses its engine comes to its `finally` (unless it is the
citation of `Abandon`, which is past fairness: it never does); Node runs the timers and events that
are due. In `LuceneBridge` no fairness is put on timers, so `SettlesUnlessTorn` says
that the timer is never needed. `ExportJob` assumes only that a live server keeps
running an export's callbacks.

## 4. Proofs

`HelperProofs`, about `EngineLifecycle`, for any finite set of calls:

- `TypeCorrect`: the types, `holders \in Nat` included.
- `CacheIsTended`, from two theorems: `AlwaysArmed` (`IdleArmed` is inductive relative
  to the types) and `CacheIsOpen`, strengthened by where an engine's opener stands
  (`OpenerInv`): an engine that is cached or closed has an opener past its opening, so a
  call that is still opening will put an engine into the cache that nobody can have closed.
- `CountExact`, also from two: `NeverOvercounts`, the count against the cardinality of
  the live handles, where the lemmas `TakeStep`, `GiveStep` and `KeepStep` say how each
  kind of step moves both; and `ExactWhileFresh`, the same with equality, until `stale`.
- `SparesHolders`: the action property, from `CountExact`: the step closes only when
  the count is zero, so no call has a handle.

and about `LuceneBridge`, for any number of requests, deaths, timeouts and orders of events:

- `BridgeTypeCorrect`, `NobodyIsLeftBehind`, `ExitsFailTheirOwn`, and `KeepsPromises`, the
  refinement of `RequestReply`. All four follow from `BridgeInv`, which adds to the types what
  the code never says: until `close()` is over, the current process is the only one that
  runs or whose end is still to be seen (`OneRuns`). `failAll` rejects all that is pending
  and `close()` kills whatever is current, so without it neither would hit the right one.
  `Spawned` ties a request to a process that was started for it or before it, and `Pipes`
  says that what a helper reads was sent and that a whole line in a pipe was written, which
  is the step from data that arrives to an answer that exists. One lemma for each kind of
  step (`SettleKeeps`, `DeathKeeps`, `SendKeeps`, `CloseKeeps`, `ExitKeeps`) keeps them.

`BatchedSearchProofs`, for any index, requests and number of calls:

- `WalksKeepOneIndex`: the fingerprint is taken at the health check, the request is
  answered later, and nobody compares the two again. What holds them together is that
  a helper which ends fails what it owes: `IInv` says that a call that waits for a
  search was checked against the index the running helper has open (`WaitInv`), that
  the call whose cursor it brings is over (`FromInv`), and that a cursor names the
  index of its call (`DoneInv`). `Frame` carries this over for the calls that a step
  does not touch.
- `WalksExact`, `TotalsHonest`, `ListingsWhole` and `CallsTyped`, from `WInv`. None of the
  properties is inductive: that a walk has passed over nothing at its end says nothing of
  its middle. `Walked` says what is so at every batch: the walk has come to a document `k`,
  the cursor's key is that of `k`, and every match up to `k` was given or passed over, by
  its page (`CameTo`). The next batch searches after `k`, over the same matches, because
  `IInv` and the cursor check give it the index, query and books of the call before
  (`GoesFrom`); `WalkGrows` puts the two together. What one batch does is a fact of the
  operators: a page of results is a first part of what is left (`PageOf`), the loop over
  its hits takes a first part of those (`ConsumeOf`), cut by its budget or not, unreadable
  pages, unknown books and pages found twice included, and the cursor resumes after the
  last hit taken (`BatchOf`). For a listing, `Listed` says that the walk is the beginning
  of one list (`Listing`), which the index determines; that each book is in it once and
  that the hits add up are `ListingOf` and `TotalOf`: a document is counted by its book
  and its rank in it. For a comparison, `FromSchools` says that each passage is of a book
  of a school searched so far. The three are stated for answers whose cursors came from
  one tool (`pure`), and completeness for an index whose ids are in order (`Tidy`).

`ExportJobProofs`, for any books, rows, queries, versions of the index and crashes:

- `TypeCorrect`, and, with one run of a job at a time (`~Overlap`), `ShardsStayWhole`,
  `ResultsAreHonest`, `ResultsStayUnmixed` and the action property
  `CheckpointOnlyGrows`, each with the conditions of its property: books that were not
  shaken, checkpoints that can be read. Which books are done is written down three times: in the
  checkpoint on disk, in the one in memory, and in the shards. `IInv` says how the three
  agree between any two callbacks. `Memory` and `Disk` say that a recorded book has a
  shard that holds it (`Holds`), and that a checkpoint that can be read is the one the active
  run has in memory; `Apart` that no stream is ever open on an inode that is a shard, so
  that a shard cannot be spoilt later; `Settled` that what is still to be swept is swept in the
  index of the checkpoint, or is shaken. `Streams` says what a `.partial` file holds, which
  is what becomes a shard at the rename: lines in order as far as the cursor and, unless
  shaken, exactly the matches up to it (`Reached`); `PageOf` and `WrittenLines` are what one
  page adds (`TurnStreamed`). `Output` carries this to the results. `~Overlap` is a hypothesis and not an
  assumption of the module: `export_overlap` shows what happens without it.

`LibraryProofs`, for any editions, rules, filters and requests:

- `CachesStayCurrent`: `CachesCurrent` is inductive once it is known that the disk is
  never older than the last refresh (`IInv`), since what is not cached is read from it;
  `LoadKeeps` covers the reading, also one that fails half way, for every tool.
- `BooksAttributedByRule`: what is loaded is always what the classifier makes of an
  edition that could be read (`CacheInv`), and the classifier keeps the rule for any book
  (`ClassifyByRule`: the strongest rules that fit, and one school among them, or none).
- `SchoolsSearchedApart` (for requests without `book_ids`) and `EvidenceSurvives` (for answers
  with room, of the schools one of whose matching books opens), both without a refresh in
  between, from `CmpInv`: the places of the request
  that were searched rise (`InOrder`); what was read is the shelf of the school in turn and
  no school that has one is missing up to where the comparison stands (`Covered`); and
  every passage collected is of a book that can be read, under its school (`Evident`),
  which is why its book is again among those wanted (`WantedShows`), and its school among
  those shown if the file opens (`ContextShows`). A request may name a school twice.
- `ListsAreWhole`: the pages given so far are the first part of the list, up to the place
  in the cursor (`WalkInv`); and the rows of a coverage report add up to the scope, because
  a book's rank among those of its school numbers them (`CoverageCounts`).
- `TypeCorrect`, from the same invariants.

`FetchPassagesProofs`, for any catalogues, books, indexes, requests and bounds of the cache:

- `WalksAreWhole`, `BatchesAreKept` and `TypeCorrect`, from `IInv`. That pages are given or
  reported is so for a list that is the same in every batch, and none twice for one that also
  names each book once. That a walk deals with
  all it was asked for is a property of its last answer; `AnswerInv` says it of every
  answer up to its cursor (`Walked`), and `LoopOf` of a call under way up to the last
  target consumed, each of which gave a passage, or is missing, or is of a book that did
  not open (`Dealt`). A loop that the budget cuts short has a passage, so its cursor
  advances, and the target that did not fit is still to come (`CutShort`). That the list
  has every page that was asked for, in a book that can be read, is `TargetsFit`; the next
  batch goes on with the same list or the walk is not `same`.
- For the cache, `Kept` says that from the current target to the end of the window
  every page is cached or known to be missing. Only the oldest entries are trimmed, what
  is wanted has been touched and is newest (`WarmInv`, `TouchedSame`, `AddedAll`), and the
  ceiling admits all of it (`TrimKeeps`). A request for a single page, which may trim what
  the window still needs, happens only after the window's own text was lost or beyond the
  window (`TextInv`): each step that asks alone has to show that.

`PassagesProofs`, for any files, tables of contents, texts, queries, radii and failures:

- `PathsByRule` and `PassagesTyped`, from `PassagesInv`. The loop of `trail` is shown to
  leave the headings the page is under (`TrailIs`): after each entry it has those that no
  later one as high or higher has closed, and since the table is in order by page it breaks
  where the headings of later pages begin (`EntriesAre`). The path is in the order of the
  table although the code sorts by level, because levels rise along a trail (`PathIs`).
  Passages are judged by the table as it is at the end, into which later passages have
  filled words; no step changes whether somebody has words for a heading (`FilledIs`,
  `BuildKeeps`). `WarmOnce` says that after a warming that succeeded every heading of
  every hit is known or known to be missing.
- `FormsAlwaysAgree`, from invariants of the loops, each after any number of characters. The
  form that is mapped and the form of queries are the same after each character once the
  space that waits is added (`Pended`, `StepMeets`); each of its characters has its place and
  only marks and blanks are passed over (`WellMapped`); and, in a
  text without a combining mark that is kept, the normaliser leaves it as it is (`InForm`,
  `FormStays`), since there is no mark left to compose, none to strip, no letter to fold and
  no blank but single spaces between words. That plain text has the words of its
  mark-up goes by `SameSoFar`: both have the same words so far and both, or neither, end
  inside one, so that the next character does the same to both (`WordsGrow` says what).
- `QuotesWhole`, from the same facts about texts and `Texts`, which says that a passage has
  quoted its own text: the window ends at blanks on both sides of its place (`WindowIs`), and
  every word of a normal form is found in it, also without its alef (`WordFound`).

These are facts about texts of any length, although the prover does no induction over data.
A fold of the community modules is a choice of a function on sets of places that obeys an
equation; `LoopRuns` shows that such a function exists, so that what is chosen obeys it
(`Folding`), and the lemmas `...Runs` turn it into the states of the loop, one after each
character. An invariant of a loop follows from the least number of characters after which
it would fail (`CountingUp`, `LeastOf`).

`OrdersProofs` has what they need about order: the least of some numbers is one of them
(`LeastOf`), ranks rise, tell the order and none is left out (`RankRises`, `RankTells`,
`RankTaken`), so that a set in order is all of it, each member once (`OrderedSorts`), and
its first `n` come before the others (`TopOf`).

`InstallationProofs`, for any machines, layouts and number of calls:

- `EngineFollowsCatalogue`: an engine is opened for the catalogue of one moment and
  cached at a later one. `OpeningHere` carries it over the `await`: a catalogue is only
  ever replaced by a refresh, and a refresh crosses every call that is opening; `CachedHere`
  is the invariant itself. `LaunchHere` and `AcquireHere` are the steps of `acquireEngine`.
- `ReportsAreFresh`, `ReportsAreTruthful`, `SchemaIsSaid` and `TypeCorrect`, from `RInv`:
  a report says of the machine what was so when it was begun (`Fresh`, `Probed`), and a
  call that waits and that no refresh has crossed waits for an engine on the library its
  report names (`WaitsHere`), so that the numbers of that engine belong into the report; a
  report that a refresh came into is exempt. `SchemaIsSaid` is about which notes appear, for
  any tables and columns.
  `LocateRule` is the search for the library (the first root in its order that will do,
  for any roots), `BestIsBest` and `BooksTableNamed` the choice of a table by its score.

Assumptions: `EngineAssumption` (finitely many calls, `NoEngine` is none of them),
`BridgeAssumption` (requests are numbered as `nextId` does, and `close()` is called once,
as `context.ts` does), `IndexAssumption` (finite indexes, at least one, whose documents have
numbers of their own and a score for each query), `SearchAssumption` (calls are numbered,
the tools there are; limits and budgets admit a passage), `ExportAssumption` (finitely many books, calls numbered as they start, matches with keys that are numbers),
`InstallationAssumption` (machines with finitely many roots, settings that are blank or
name something, layouts that are sequences of tables), `LibraryAssumption` (rules of
known schools, catalogues of finitely many books, overrides that name known schools,
requests of the tools' schemas), `PassagesAssumption` (tables of contents and hits are
sequences, texts have the characters the code tells apart, a citation is of one page),
`FetchAssumption` (one document a page in the index, which
is why `lookupByKey` may ask for as many documents as there are keys; requests of the
tools' schemas; a cache that is handed on keeps to its bound) and `MissAssumption` (one
call misses fewer pages than the cache remembers: 300 in a batch, or the at most 8000
neighbours of a comparison's hits, of 8192). TLC evaluates all of them on the instances.

Every invariant and every action property that a passing run checks, and the refinement of
`RequestReply`, is stated by a theorem. What the prover cannot do stays with TLC: the four
liveness properties under fairness (`AcquireSettles` and `IdleShutdown` of the engine,
`SettlesUnlessTorn` of the bridge, `RunEnds` of an export). Sorting and filtering by the
community modules, whose definitions are recursive or overridden, is out of its reach too,
which is why `Orders` sorts and selects by rank.

## 5. Not modelled, and what is left

- Composing the cache of `FetchPassages` with the export whose books share one, the
  headings of `Passages` with the bounds of that cache, and the comparison of `Library`
  with the batches of `BatchedSearch` instead of their promise.
- `pageIdsForBook` with the sample of ids it gives `discover_issue`; `resolveSafeOutputDir`
  and the preflight of Node, which are one look at the file system each.
- `streamPages`, `pagesInRange`, `pageCount` and `tocPath` of `bookRepo.ts`: no tool calls
  them.

Left out for good: wording, schemas of the protocol, registration, logging, packaging, and
the scripts for development and diagnosis, which are not part of the running server.
