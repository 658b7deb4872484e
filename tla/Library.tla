------------------------------- MODULE Library -------------------------------
(***************************************************************************)
(* Which books there are, whose school each belongs to, and what the tools *)
(* say of it: the caches of context.ts over the catalogue and the          *)
(* overrides file, the classifier, scopes with their coverage, the listing *)
(* with its cursor, and a comparison of schools from its first scope to    *)
(* its groups.                                                             *)
(*                                                                         *)
(* What is on disk changes under the server (the user edits the overrides, *)
(* Shamela downloads a book) and is one of Editions, in that order. Only a *)
(* comparison uses the caches again after an await; all other tools use    *)
(* them in one stretch of code.                                            *)
(***************************************************************************)
EXTENDS Integers, Sequences, FiniteSets, SequencesExt, Orders

CONSTANTS
    Core,        \* MADHHABS
    Rules,       \* the category map: [school, equals, patterns, reviewed], in order
    Parts,       \* [category -> the patterns its name contains]
    NoCategory,  \* a book without category
    Editions,    \* [master, overrides]: what can be read from disk, one after another
    Unreadable,  \* a master or an overrides file that cannot be read
    Matching,    \* books with a page that matches the query
    Filters,     \* what list_books is asked for
    Requests     \* what comparisons are asked for: schools, ids, neighbors, room

Schools == Core \cup {"comparative", "unclassified"}

(* A master gives each book its category, the schools its title and its     *)
(* author hint at, and the two signs of a download.                         *)
LibraryAssumption ==
    /\ Rules \in Seq(ToSet(Rules))
    /\ \A n \in DOMAIN Rules : Rules[n].school \in Schools
    /\ Editions # <<>> /\ Editions \in Seq(ToSet(Editions))
    /\ \A n \in DOMAIN Editions : LET e == Editions[n] IN
          /\ e.overrides # Unreadable =>
                /\ e.overrides.include \cup e.overrides.exclude \subseteq Nat
                /\ \A b \in DOMAIN e.overrides.schools : e.overrides.schools[b] \in Schools
          /\ e.master # Unreadable =>
                DOMAIN e.master \subseteq Nat /\ IsFiniteSet(DOMAIN e.master)
    /\ \A f \in Filters : f.limit \in Nat \ {0}
    /\ \A r \in Requests :
          /\ r.schools \in Seq(Schools) /\ r.ids \subseteq Nat
          /\ r.neighbors \in Nat /\ r.room \in Nat \ {0}
ASSUME LibraryAssumption

VARIABLES
    disk,     \* which edition is on disk
    cls,      \* the edition whose overrides classifierCache holds, 0 for null
    raw,      \* the edition whose rows the catalogue holds, 0 for null
    loaded,   \* booksCache: what Classified makes of cls and raw, or Nothing
    since,    \* history: the edition at the last refresh
    walk,     \* the walk through list_books
    cmp       \* the comparison under way, or the last one

vars == <<disk, cls, raw, loaded, since, walk, cmp>>
caches == <<cls, raw, loaded>>

Nothing == [of |-> <<0, 0>>, books |-> <<>>]

-----------------------------------------------------------------------------
(* Classification.                                                          *)
Fits(rule, category) ==
    IF rule.equals THEN category \in rule.patterns
    ELSE rule.patterns \cap Parts[category] # {}

(* The numbers of the rules that fit a category; exact ones outrank the     *)
(* others.                                                                  *)
Strongest(category) ==
    LET fits == {n \in DOMAIN Rules : Fits(Rules[n], category)}
        exact == {n \in fits : Rules[n].equals}
    IN  IF exact # {} THEN exact ELSE fits

SchoolsOf(rules) == {Rules[n].school : n \in rules}

(* Mutant: the first of the strongest rules decides. *)
AgreedFirst(rules) == rules # {}

(* Rules of equal strength that disagree decide nothing.                    *)
Agreed(rules) == rules # {} /\ Cardinality(SchoolsOf(rules)) = 1

(* Hints in title and author flag a book and never assign it.               *)
HintReasons(row, school) ==
    [kind : {"title_hint"}, hint : row.title \ {school}] \cup
    [kind : {"author_hint"}, hint : row.author \ {school}]

Doubt(kind) == [kind |-> kind, hint |-> "none"]

Downloaded(row) == row.file /\ row.ondisk

Classify(overrides, row, book) ==
    LET rules == IF row.category = NoCategory THEN {} ELSE Strongest(row.category)
        first == Rules[Min(rules)]
        hinted == HintReasons(row, IF rules = {} THEN "none" ELSE first.school)
        partial == {Doubt("partial_category_match") : n \in {n \in rules : ~Rules[n].equals}}
        Book(school, source, status, reasons) ==
            [school |-> school, source |-> source, status |-> status,
             reasons |-> reasons, downloaded |-> Downloaded(row)]
    IN  CASE book \in DOMAIN overrides.schools ->
                Book(overrides.schools[book], "override", "verified", {})
          [] book \notin DOMAIN overrides.schools /\ Agreed(rules) ->
                Book(first.school, "category_map",
                     IF hinted \cup partial # {} THEN "needs_review"
                     ELSE IF first.reviewed THEN "verified" ELSE "unverified",
                     hinted \cup partial)
          [] book \notin DOMAIN overrides.schools /\ rules # {} /\ ~Agreed(rules) ->
                Book("unclassified", "unclassified", "needs_review",
                     {Doubt("conflicting_category_rules")})
          [] OTHER ->
                Book("unclassified", "unclassified",
                     IF hinted # {} THEN "needs_review" ELSE "unverified",
                     hinted \cup {Doubt(IF row.category = NoCategory THEN "no_category"
                                        ELSE "category_not_in_map")} \cup
                     (IF Cardinality(row.title \cup row.author) > 1
                      THEN {Doubt("conflicting_hints")} ELSE {}))

ClassifyAll(overrides, master) ==
    [b \in DOMAIN master \ overrides.exclude |-> Classify(overrides, master[b], b)]

(* The books of a library, and the editions they come from.                 *)
Classified(c, r) ==
    [of |-> <<c, r>>, books |-> ClassifyAll(Editions[c].overrides, Editions[r].master)]
Overrides(lib) == Editions[lib.of[1]].overrides
Master(lib) == Editions[lib.of[2]].master

-----------------------------------------------------------------------------
(* selectBooks, for schools and ids; ids overrule the schools.              *)
SelectBooks(lib, schools, ids) ==
    {b \in DOMAIN lib.books :
        IF ids # {} THEN b \in ids
        ELSE \/ schools = {} \/ lib.books[b].school \in schools
             \/ b \in Overrides(lib).include}

Readable(lib, scope) == {b \in scope : lib.books[b].downloaded}

(* The schools that get a row: those asked for, and those of the books.     *)
RowsFor(lib, scope, requested) == requested \cup {lib.books[b].school : b \in scope}

(* buildCoverage: how many books of each school were searched and were not. *)
Coverage(lib, scope, requested) ==
    [m \in RowsFor(lib, scope, requested) |->
        LET mine == {b \in scope : lib.books[b].school = m}
        IN  [searched |-> Cardinality(Readable(lib, mine)),
             missing |-> Cardinality(mine \ Readable(lib, mine))]]

-----------------------------------------------------------------------------
(* The caches.                                                              *)
Kept(cached) == IF cached # 0 THEN cached ELSE disk
CanRead(cached, part) == cached # 0 \/ part # Unreadable

(* allBooks: the overrides are read before the catalogue.                   *)
AllBooks ==
    \/ loaded # Nothing /\ UNCHANGED caches
    \/ /\ loaded = Nothing
       /\ CanRead(cls, Editions[disk].overrides)
       /\ CanRead(raw, Editions[disk].master)
       /\ cls' = Kept(cls)
       /\ raw' = Kept(raw)
       /\ loaded' = Classified(cls', raw')

AllBooksFails ==
    /\ loaded = Nothing
    /\ \/ ~CanRead(cls, Editions[disk].overrides) /\ UNCHANGED cls
       \/ /\ CanRead(cls, Editions[disk].overrides)
          /\ ~CanRead(raw, Editions[disk].master)
          /\ cls' = Kept(cls)
    /\ UNCHANGED <<raw, loaded>>

(* A tool that uses the books once: search, discover, export, citation.     *)
Use ==
    /\ AllBooks \/ AllBooksFails
    /\ UNCHANGED <<disk, since, walk, cmp>>

-----------------------------------------------------------------------------
(* list_books.                                                              *)
Listed(lib, f) ==
    LET books == lib.books
        chosen == {b \in SelectBooks(lib, f.schools, {}) :
                      /\ f.downloaded => books[b].downloaded
                      /\ f.statuses = {} \/ books[b].status \in f.statuses
                      /\ f.doubtful => books[b].reasons # {}}
    IN  Ascending(chosen)

NoWalk == [filter |-> [limit |-> 1], list |-> <<>>, next |-> 0, given |-> <<>>,
           more |-> FALSE, same |-> TRUE]

(* Mutant: the page after the first begins one book too late. *)
NextPlaceLate(start, page) == start + Len(page) + (IF start = 0 THEN 1 ELSE 0)

(* The cursor: the place behind the page. *)
NextPlace(start, page) == start + Len(page)

(* The walk after a request for f from a place on. *)
Page(lib, f, start, given, same) ==
    LET list == Listed(lib, f)
        page == SubSeq(list, start + 1,
                       IF start + f.limit < Len(list) THEN start + f.limit ELSE Len(list))
        more == start + Len(page) < Len(list)
    IN  [filter |-> f, list |-> list, next |-> IF more THEN NextPlace(start, page) ELSE 0,
         given |-> given \o page, more |-> more, same |-> same]

ListFirst(f) ==
    /\ AllBooks
    /\ walk' = Page(loaded', f, 0, <<>>, TRUE)
    /\ UNCHANGED <<disk, since, cmp>>

ListNext ==
    /\ walk.more
    /\ AllBooks
    /\ walk' = Page(loaded', walk.filter, walk.next, walk.given, walk.same)
    /\ UNCHANGED <<disk, since, cmp>>

-----------------------------------------------------------------------------
(* compare_issue.                                                           *)
NoComparison == [phase |-> "none", schools |-> <<>>, ids |-> {}, neighbors |-> 0, room |-> 1,
                 at |-> 0, scope |-> <<>>, searched |-> <<>>, collected |-> <<>>,
                 wanted |-> <<>>, broken |-> {}, passages |-> <<>>, cut |-> FALSE,
                 shifted |-> FALSE]

(* The books that a search of a school reads, each with its school. *)
Shelf(lib, school, ids) ==
    [b \in Readable(lib, SelectBooks(lib, {school}, ids)) |-> lib.books[b].school]

(* Mutant: a school without readable books is searched as well. *)
SchoolsLeftAll(q, lib) == (q.at + 1)..Len(q.schools)

(* Mutant: the schools after one without books are passed over as well. *)
SchoolsLeftSkipping(q, lib) ==
    {k \in (q.at + 1)..Len(q.schools) :
        k = q.at + 1 /\ Shelf(lib, q.schools[k], q.ids) # <<>>}

(* The schools still to be searched; one without readable books gets a row  *)
(* of zeroes and no search.                                                 *)
SchoolsLeft(q, lib) ==
    {k \in (q.at + 1)..Len(q.schools) : Shelf(lib, q.schools[k], q.ids) # <<>>}

Passage(book, school) == [book |-> book, school |-> school]

Shown(lib, book) == Passage(book, lib.books[book].school)

(* The places of the first passage of each book that can be read. *)
FirstPlaces(q, lib) ==
    {n \in DOMAIN q.collected :
        /\ \A m \in 1..(n - 1) : q.collected[m].book # q.collected[n].book
        /\ q.collected[n].book \in Readable(lib, DOMAIN lib.books)}

(* Mutant: neighbours are read for the first book only. *)
WantedOfFirst(q, lib) == [n \in {1} |-> Shown(lib, q.collected[1].book)]

(* The books around whose pages fetchPassages is to read, by the place of   *)
(* their first passage; a book that is not there any more is passed over.   *)
Wanted(q, lib) == [n \in FirstPlaces(q, lib) |-> Shown(lib, q.collected[n].book)]

(* A page of a book, and n on either side of it. *)
Width(n) == 2 * n + 1

(* The pages around what was collected, in that order: all of a book unless *)
(* its file does not open.                                                  *)
Context(q, broken) ==
    LET places == {n \in DOMAIN q.wanted : q.wanted[n].book \notin broken}
        width == Width(q.neighbors)
    IN  [k \in 1..(Cardinality(places) * width) |->
            q.wanted[Ascending(places)[1 + (k - 1) \div width]]]

(* What one batch of fetchPassages gives of them: as many as there is room  *)
(* for. The list of books that failed is dropped.                           *)
Fetched(q, broken) ==
    LET context == Context(q, broken)
    IN  [q EXCEPT !.phase = "done", !.wanted = <<>>, !.broken = broken,
                  !.passages = SubSeq(context, 1, Min({q.room, Len(context)})),
                  !.cut = q.room < Len(context)]

WantsContext(q) == q.neighbors > 0 /\ q.collected # <<>>

(* Where a comparison waits next, after an answer: for the search of the    *)
(* next school, for the surroundings, or for nothing any more.              *)
Advanced(q, lib) ==
    IF SchoolsLeft(q, lib) # {}
    THEN LET next == Min(SchoolsLeft(q, lib))
         IN  [q EXCEPT !.phase = "search", !.at = next,
                       !.scope = Shelf(lib, q.schools[next], q.ids)]
    ELSE IF WantsContext(q)
    THEN [q EXCEPT !.phase = "fetch", !.at = Len(q.schools), !.scope = <<>>,
                   !.wanted = Wanted(q, lib)]
    ELSE [q EXCEPT !.phase = "done", !.at = Len(q.schools), !.scope = <<>>,
                   !.passages = q.collected]

(* The stretch of code after an answer, in which the books are looked up    *)
(* if there is a school left or if neighbours are wanted.                   *)
Continue(q) ==
    LET asks == q.at < Len(q.schools) \/ WantsContext(q)
    IN  /\ \/ ~asks /\ UNCHANGED caches /\ cmp' = Advanced(q, loaded)
           \/ asks /\ AllBooks /\ cmp' = Advanced(q, loaded')
           \/ asks /\ AllBooksFails /\ cmp' = [q EXCEPT !.phase = "failed", !.scope = <<>>]
        /\ UNCHANGED <<disk, since, walk>>

Waiting == cmp.phase \in {"search", "fetch"}

(* The engine has been acquired. *)
Compare(r) ==
    /\ ~Waiting
    /\ Continue([NoComparison EXCEPT !.schools = r.schools, !.ids = r.ids,
                                     !.neighbors = r.neighbors, !.room = r.room])

(* The row of a school that has been searched: its place in the request and *)
(* the books that were read.                                                *)
SearchOf(q) == [at |-> q.at, books |-> DOMAIN q.scope]

(* A batch shows some of the books that match, and at least one.            *)
SchoolSearched ==
    /\ cmp.phase = "search"
    /\ \E shown \in SUBSET (DOMAIN cmp.scope \cap Matching) :
          /\ shown = {} => DOMAIN cmp.scope \cap Matching = {}
          /\ LET order == Ascending(shown)
                 found == [n \in DOMAIN order |-> Passage(order[n], cmp.scope[order[n]])]
             IN  Continue([cmp EXCEPT !.searched = Append(@, SearchOf(cmp)),
                                      !.collected = @ \o found])

(* Any of the files may fail to open, though the search has read them. *)
ContextFetched ==
    /\ cmp.phase = "fetch"
    /\ \E places \in SUBSET DOMAIN cmp.wanted :
          cmp' = Fetched(cmp, {cmp.wanted[n].book : n \in places})
    /\ UNCHANGED <<disk, caches, since, walk>>

(* The helper fails. *)
CompareFails ==
    /\ Waiting
    /\ cmp' = [cmp EXCEPT !.phase = "failed", !.scope = <<>>, !.wanted = <<>>]
    /\ UNCHANGED <<disk, caches, since, walk>>

(* madhhabs_without_evidence *)
WithoutEvidence(q) == ToSet(q.schools) \ {p.school : p \in ToSet(q.passages)}

-----------------------------------------------------------------------------
(* Mutant: the classifier is not dropped. *)
DroppedButClassifier == cls' = cls /\ raw' = 0 /\ loaded' = Nothing

(* The caches when resetContext is over and fiqh4_health has read them      *)
(* anew: the catalogue first, then the books; what cannot be read is        *)
(* reported and stays empty.                                                *)
Reread ==
    IF Unreadable \in {Editions[disk].master, Editions[disk].overrides}
    THEN cls' = 0 /\ raw' = 0 /\ loaded' = Nothing
    ELSE cls' = disk /\ raw' = disk /\ loaded' = Classified(disk, disk)

(* fiqh4_health with refresh. *)
Refresh ==
    /\ Reread
    /\ since' = disk
    /\ walk' = [walk EXCEPT !.same = FALSE]
    /\ cmp' = [cmp EXCEPT !.shifted = TRUE]
    /\ UNCHANGED disk

(* The user, or Shamela, changes what is on disk. *)
Edit ==
    /\ disk < Len(Editions)
    /\ disk' = disk + 1
    /\ UNCHANGED <<caches, since, walk, cmp>>

Init ==
    /\ disk = 1 /\ since = 1
    /\ cls = 0 /\ raw = 0 /\ loaded = Nothing
    /\ walk = NoWalk
    /\ cmp = NoComparison

Next ==
    \/ Edit \/ Refresh \/ Use
    \/ \E f \in Filters : ListFirst(f)
    \/ ListNext
    \/ \E r \in Requests : Compare(r)
    \/ SchoolSearched \/ ContextFetched \/ CompareFails

Spec == Init /\ [][Next]_vars

-----------------------------------------------------------------------------
(* Properties.                                                              *)

(* Everything has its type.                                                 *)
TypeOK ==
    /\ disk \in DOMAIN Editions /\ since \in 1..disk
    /\ {cls, raw, loaded.of[1], loaded.of[2]} \subseteq 0..disk
    /\ walk.filter \in Filters \cup {NoWalk.filter} /\ walk.same \in BOOLEAN
    /\ walk.next \in 0..Len(walk.list)
    /\ walk.more \in BOOLEAN /\ (walk.more <=> walk.next > 0)
    /\ cmp.phase \in {"none", "search", "fetch", "done", "failed"}
    /\ cmp.at \in 0..Len(cmp.schools)
    /\ cmp.scope # <<>> <=> cmp.phase = "search"
    /\ {p.school : p \in ToSet(cmp.collected \o cmp.passages)} \subseteq Schools
    /\ cmp.wanted # <<>> => cmp.phase = "fetch"
    /\ cmp.broken \subseteq Nat /\ {cmp.cut, cmp.shifted} \subseteq BOOLEAN

(* The classified books come from the overrides and the rows that the       *)
(* caches hold, so a book is never judged by one overrides file and         *)
(* force-included by another; and after fiqh4_health with refresh nothing   *)
(* is left of what was on disk before it, even if the refresh failed half   *)
(* way (context.ts, allBooks, selectBooks and resetContext; health.ts).     *)
CachesCurrent ==
    /\ loaded # Nothing => loaded.of = <<cls, raw>>
    /\ \A held \in {cls, raw, loaded.of[1], loaded.of[2]} : held # 0 => held >= since

(* A book is given to a school by an override, or by a rule for its         *)
(* category that no rule at least as strong contradicts; never by a hint,   *)
(* and never when the user has excluded it (classifier.ts, classify).       *)
AttributedByRule ==
    loaded # Nothing =>
        LET books == loaded.books
            o == Overrides(loaded)
            Fitting(b) == {r \in ToSet(Rules) : Fits(r, Master(loaded)[b].category)}
        IN  \A b \in DOMAIN books :
                /\ b \notin o.exclude
                /\ b \in DOMAIN o.schools => books[b].school = o.schools[b]
                /\ b \notin DOMAIN o.schools /\ books[b].school # "unclassified" =>
                       \E r \in Fitting(b) :
                          /\ r.school = books[b].school
                          /\ \A other \in Fitting(b) :
                                other.school # r.school => r.equals /\ ~other.equals

(* A coverage report has a row for every school asked for, and its rows     *)
(* account for every book in scope once, the force-included ones of other   *)
(* schools too (coverage.ts, buildCoverage).                                *)
CoverageComplete ==
    loaded # Nothing => \A r \in Requests :
        LET scope == SelectBooks(loaded, ToSet(r.schools), r.ids)
            rows == Coverage(loaded, scope, ToSet(r.schools))
            Counted(m) == {m} \X (1..(rows[m].searched + rows[m].missing))
        IN  /\ ToSet(r.schools) \subseteq DOMAIN rows
            /\ Cardinality(UNION {Counted(m) : m \in DOMAIN rows}) = Cardinality(scope)

(* Who follows next_cursor of list_books gets every book that matches once  *)
(* and in order, whatever happens on disk, as long as nobody refreshes      *)
(* (listBooks.ts: "a cursor is only meaningful over a stable list"); and     *)
(* coverage reports are complete.                                           *)
ListWhole ==
    /\ CoverageComplete
    /\ walk.same =>
        /\ walk.given = SubSeq(walk.list, 1, Len(walk.given))
        /\ ~walk.more => walk.given = walk.list

(* A comparison searches each school it is asked for once, and each book    *)
(* for one school only, except what the user force-included; and it leaves  *)
(* no readable book of the schools asked for unsearched                     *)
(* (tools/compareIssue.ts, the loop over requested).                        *)
SchoolsApart ==
    ~cmp.shifted /\ cmp.ids = {} /\ loaded # Nothing =>
        /\ \A i, j \in DOMAIN cmp.searched : i # j =>
              LET s == cmp.searched[i]
                  t == cmp.searched[j]
              IN  /\ s.at # t.at
                  /\ cmp.schools[s.at] # cmp.schools[t.at] =>
                        s.books \cap t.books \subseteq Overrides(loaded).include
        /\ cmp.phase = "done" =>
              \A b \in Readable(loaded, DOMAIN loaded.books) :
                 loaded.books[b].school \in ToSet(cmp.schools) =>
                    \E s \in ToSet(cmp.searched) : b \in s.books

Silenced == WithoutEvidence(cmp) \cap {p.school : p \in ToSet(cmp.collected)}

(* No book of the school that matched could be opened again. *)
Unopened(school) ==
    \A p \in ToSet(cmp.collected) : p.school = school => p.book \in cmp.broken

(* As long as the answer has room for the surroundings of all passages, a   *)
(* school whose books matched is reported without a match only if none of   *)
(* their files opened for the surroundings                                  *)
(* (tools/compareIssue.ts, the batch of fetchPassages around collected).    *)
EvidenceUncut ==
    cmp.phase = "done" /\ ~cmp.cut /\ ~cmp.shifted =>
        \A school \in Silenced : Unopened(school)

(* A school whose books matched is never reported without a match as long   *)
(* as their files open, though the answer be full                           *)
(* (pipeline/compareIssue.ts:38: "Stated plainly when a school produced     *)
(* nothing, so silence is not read as absence of a view").                  *)
EvidenceShown ==
    cmp.phase = "done" /\ cmp.broken = {} /\ ~cmp.shifted => Silenced = {}
=============================================================================
