---------------------------- MODULE FetchPassages ----------------------------
(***************************************************************************)
(* fiqh4_fetch_passages: pages asked for by book and number are read with  *)
(* their neighbours, batch by batch; the cursor is a place in the list of  *)
(* pages that the request expands to. Coordinates come from each book's    *)
(* file, words from Shamela's index through the cache of LuceneTextSource. *)
(*                                                                         *)
(* Calls share nothing but the catalogue, so they are taken one at a time; *)
(* between the steps of one, requests to the helper fail, files cannot be  *)
(* opened, and the catalogue is read anew. Headings are fetched and kept   *)
(* by the same code as pages and left out; for them the warming opens the  *)
(* window's books, which here are opened where their pages are read.       *)
(***************************************************************************)
EXTENDS Integers, Sequences, FiniteSets, SequencesExt, Orders

CONSTANTS
    Catalogues,   \* what resetContext finds, one after another: [Books -> status]
    PagesOf,      \* [Books -> the page numbers of its file]
    Shaky,        \* books whose file may not open
    Documents,    \* the page index: a sequence of [key, body]
    Requests,     \* what clients ask for: entries, neighbors, limit, room
    Seeds,        \* what a comparison's searches left in its cache (<<>>: a new one)
    Cap,          \* MAX_CACHED_PAGES
    MissCap,      \* MAX_REMEMBERED_MISSES
    CallMax       \* how many calls are made

Books == DOMAIN PagesOf

(* A page number is sought around each asked one; `room` is how many        *)
(* passages fit the byte budget, at least one whatever its size. The index  *)
(* has one document a page: lookupByKey asks for as many documents as there *)
(* are keys. A comparison searches for at most 100 hits at a time, which    *)
(* the index holds: it leaves no page known to be missing, and no more than *)
(* the cap of 1024.                                                         *)
FetchAssumption ==
    /\ Catalogues \in Seq([Books -> {"absent", "listed", "downloaded"}]) /\ Catalogues # <<>>
    /\ Shaky \subseteq Books
    /\ Documents \in Seq([key : Books \X Nat, body : BOOLEAN])
    /\ \A m, n \in DOMAIN Documents : Documents[m].key = Documents[n].key => m = n
    /\ Requests \subseteq [entries : Seq([book : Books, ids : SUBSET Int]),
                           neighbors : 0..10, limit : Nat \ {0}, room : Nat \ {0}]
    /\ \A r \in Requests : \A n \in DOMAIN r.entries : IsFiniteSet(r.entries[n].ids)
    /\ {Cap, MissCap} \subseteq Nat \ {0}
    /\ \A s \in Seeds : s \in Seq(Books \X Nat) /\ Len(s) <= Cap /\ IsInjective(s)
ASSUME FetchAssumption

VARIABLES
    cat,      \* which of Catalogues is loaded
    pc,       \* "rest" | "warm" | "loop" | "text"
    now,      \* the call under way
    pages,    \* its page cache: keys, oldest first
    missed,   \* keys asked for and not found, oldest first
    got       \* the answers, one after another

vars == <<cat, pc, now, pages, missed, got>>

-----------------------------------------------------------------------------
(* LuceneTextSource.                                                        *)
Has(s, k) == k \in ToSet(s)

(* What is wanted and cached becomes the newest. *)
Touched(s, wanted) ==
    Only(s, ToSet(s) \ ToSet(wanted)) \o Only(wanted, ToSet(s))

(* Mutant: one too many is kept. *)
TrimmedLate(s, cap) == SubSeq(s, IF Len(s) > cap THEN Len(s) - cap ELSE 1, Len(s))

(* Mutant: the newest go first. *)
TrimmedNewest(s, cap) == SubSeq(s, 1, IF Len(s) > cap THEN cap ELSE Len(s))

(* The oldest go first. *)
Trimmed(s, cap) == SubSeq(s, IF Len(s) > cap THEN Len(s) - cap + 1 ELSE 1, Len(s))

(* A batch larger than the cap is kept whole. *)
Ceiling(fetching) == IF fetching > Cap THEN fetching ELSE Cap

Outstanding(wanted) == Only(wanted, ToSet(wanted) \ (ToSet(pages) \cup ToSet(missed)))

(* Commands.lookupByKey: one query for as many documents as there are keys. *)
Found(keys) ==
    LET hits == {n \in DOMAIN Documents : Has(keys, Documents[n].key)}
        top == Top(Less(hits), Len(keys), hits)
    IN  {k \in ToSet(keys) :
            \E n \in top :
                /\ Documents[n].key = k /\ Documents[n].body
                /\ \A m \in top : m > n => Documents[m].key # k}

(* A key that is there already keeps its place. *)
Added(s, more) == s \o Only(more, ToSet(more) \ ToSet(s))

(* The answer to a request for `need`, made when `fetching` were wanted.    *)
Fetched(need, fetching) ==
    LET here == Found(need)
    IN  /\ pages' = Trimmed(Added(pages, Only(need, here)), Ceiling(fetching))
        /\ missed' = Trimmed(Added(missed, Only(need, ToSet(need) \ here)), MissCap)

(* A request that failed is logged, and the caller goes on.                 *)
Unfetched(fetching) ==
    /\ pages' = Trimmed(pages, Ceiling(fetching))
    /\ missed' = Trimmed(missed, MissCap)

-----------------------------------------------------------------------------
(* expandTargets *)
Around(ids, n) == {p \in UNION {(i - n)..(i + n) : i \in ids} : p >= 0}

Readable(catalogue, entry) == catalogue[entry.book] = "downloaded"

(* The pages of each entry that can be read, entry by entry, and their order. *)
Places(catalogue, r) ==
    UNION {{m} \X Around(r.entries[m].ids, r.neighbors) :
              m \in {m \in DOMAIN r.entries : Readable(catalogue, r.entries[m])}}
Before(S) ==
    {p \in S \X S : p[1][1] < p[2][1] \/ (p[1][1] = p[2][1] /\ p[1][2] < p[2][2])}

Targets(catalogue, r) ==
    LET S == Places(catalogue, r)
        places == Ordered(Before(S), S)
    IN  [n \in DOMAIN places |->
            LET entry == r.entries[places[n][1]]
            IN  [key |-> <<entry.book, places[n][2]>>, hit |-> places[n][2] \in entry.ids]]

Refused(catalogue, r) ==
    {r.entries[m].book : m \in {m \in DOMAIN r.entries : ~Readable(catalogue, r.entries[m])}}

Keys(targets) == [m \in DOMAIN targets |-> targets[m].key]
Distinct(keys) == Picked(keys, {m \in DOMAIN keys : \A l \in 1..(m - 1) : keys[l] # keys[m]})

(* The misses of a call are remembered: a batch of the tool is of at most   *)
(* 300 passages; a comparison wants its hits, at most 100 of each of four   *)
(* schools, with up to ten pages on either side, so that at most 8000 are   *)
(* not in the index (compareIssue.ts 70 and 128-147, MissCap is 8192).      *)
Spared(targets, limit) ==
    \/ limit <= MissCap
    \/ Cardinality({k \in ToSet(Keys(targets)) : k \notin Found(<<k>>)}) <= MissCap
MissAssumption ==
    \A n \in DOMAIN Catalogues, r \in Requests : Spared(Targets(Catalogues[n], r), r.limit)
ASSUME MissAssumption

(* The window that is fetched ahead. *)
Window(targets, start, limit) ==
    SubSeq(targets, start + 1, IF start + limit < Len(targets) THEN start + limit ELSE Len(targets))

NoCall == [start |-> 0, from |-> 0, limit |-> 1, room |-> 1, entries |-> <<>>, neighbors |-> 0,
           targets |-> <<>>, at |-> 0, consumed |-> 0, opened |-> [b \in Books |-> "unknown"],
           passages |-> <<>>, failed |-> {}, missing |-> {},
           cold |-> FALSE, again |-> {}, trouble |-> FALSE]

(* An answer; `walk` are all batches since the first, `same` says that the  *)
(* list of pages was the same in all of them.                               *)
Past(from) ==
    IF from = 0 THEN [given |-> <<>>, said |-> {}, gone |-> {}, same |-> TRUE, next |-> 0]
    ELSE got[from]

Init ==
    /\ cat = 1
    /\ pc = "rest"
    /\ now = NoCall
    /\ pages = <<>>
    /\ missed = <<>>
    /\ got = <<>>

(* The call up to its first request: the list is made from the catalogue    *)
(* of the day, and the window's text is asked for.                          *)
Begin(r, from, seed) ==
    /\ pc = "rest" /\ Len(got) < CallMax
    /\ LET start == Past(from).next
           targets == Targets(Catalogues[cat], r)
           wanted == Distinct(Keys(Window(targets, start, r.limit)))
       IN  /\ now' = [NoCall EXCEPT !.start = start, !.consumed = start, !.at = start + 1,
                        !.from = from, !.limit = r.limit, !.room = r.room,
                        !.entries = r.entries, !.neighbors = r.neighbors,
                        !.targets = targets, !.failed = Refused(Catalogues[cat], r)]
           /\ pages' = Touched(seed, wanted)
           /\ missed' = <<>>
           /\ pc' = IF ToSet(wanted) \subseteq ToSet(seed) THEN "loop" ELSE "warm"
    /\ UNCHANGED <<cat, got>>

Wanted == Distinct(Keys(Window(now.targets, now.start, now.limit)))

WarmAnswers ==
    /\ pc = "warm"
    /\ Fetched(Outstanding(Wanted), Len(Wanted))
    /\ pc' = "loop"
    /\ UNCHANGED <<cat, now, got>>

WarmFails ==
    /\ pc = "warm"
    /\ Unfetched(Len(Wanted))
    /\ now' = [now EXCEPT !.cold = TRUE, !.trouble = TRUE]
    /\ pc' = "loop"
    /\ UNCHANGED <<cat, got>>

-----------------------------------------------------------------------------
(* The loop over the targets. *)
Target == now.targets[now.at]
Book == Target.key[1]
Seen == \E n \in DOMAIN now.passages : now.passages[n].key = Target.key

InLoop ==
    /\ pc = "loop"
    /\ now.at <= Len(now.targets)
    /\ Len(now.passages) < now.limit

(* A target that gives no passage is consumed.                              *)
Passed(call) == [call EXCEPT !.at = @ + 1, !.consumed = call.at]

SkipSeen ==
    /\ InLoop /\ Seen
    /\ now' = Passed(now)
    /\ UNCHANGED <<cat, pc, pages, missed, got>>

(* BookReaderPool.get: each book is opened once in a call.                  *)
OpenBook ==
    /\ InLoop /\ ~Seen
    /\ now.opened[Book] = "unknown"
    /\ \E how \in {"open"} \cup (IF Book \in Shaky THEN {"failed"} ELSE {}) :
          now' = [now EXCEPT !.opened[Book] = how]
    /\ UNCHANGED <<cat, pc, pages, missed, got>>

SkipUnopened ==
    /\ InLoop /\ ~Seen
    /\ now.opened[Book] = "failed"
    /\ now' = Passed([now EXCEPT !.failed = @ \cup {Book}])
    /\ UNCHANGED <<cat, pc, pages, missed, got>>

(* Only a page that was asked for is reported. *)
Missing == IF Target.hit THEN {Target.key} ELSE {}

SkipMissing ==
    /\ InLoop /\ ~Seen
    /\ now.opened[Book] = "open"
    /\ Target.key[2] \notin PagesOf[Book]
    /\ now' = Passed([now EXCEPT !.missing = @ \cup Missing])
    /\ UNCHANGED <<cat, pc, pages, missed, got>>

(* Mutant: the passage that did not fit counts as consumed. *)
WithConsuming(call, text) ==
    IF Len(call.passages) < call.room
    THEN Passed([call EXCEPT !.passages = Append(@, [key |-> Target.key, text |-> text])])
    ELSE [call EXCEPT !.at = Len(call.targets) + 1, !.consumed = call.at]

(* The passage is added if the byte budget admits it, and the loop ends     *)
(* otherwise.                                                               *)
With(call, text) ==
    IF Len(call.passages) < call.room
    THEN Passed([call EXCEPT !.passages = Append(@, [key |-> Target.key, text |-> text])])
    ELSE [call EXCEPT !.at = Len(call.targets) + 1]

HasPage ==
    /\ InLoop /\ ~Seen
    /\ now.opened[Book] = "open"
    /\ Target.key[2] \in PagesOf[Book]

(* The page's text is in the cache, or known to be missing.                 *)
ReadCached ==
    /\ HasPage
    /\ Outstanding(<<Target.key>>) = <<>>
    /\ pages' = Touched(pages, <<Target.key>>)
    /\ now' = With(now, Has(pages, Target.key))
    /\ UNCHANGED <<cat, pc, missed, got>>

AskPage ==
    /\ HasPage
    /\ Outstanding(<<Target.key>>) # <<>>
    /\ pc' = "text"
    /\ now' = [now EXCEPT !.again = @ \cup {Target.key}]
    /\ UNCHANGED <<cat, pages, missed, got>>

PageAnswers ==
    /\ pc = "text"
    /\ Fetched(<<Target.key>>, 1)
    /\ now' = With(now, Has(pages', Target.key))
    /\ pc' = "loop"
    /\ UNCHANGED <<cat, got>>

(* The passage is made all the same, without words.                         *)
PageFails ==
    /\ pc = "text"
    /\ Unfetched(1)
    /\ now' = With([now EXCEPT !.trouble = TRUE], FALSE)
    /\ pc' = "loop"
    /\ UNCHANGED <<cat, got>>

(* The cursor: the place after the last target consumed. *)
NextPlace == now.consumed

Finish ==
    /\ pc = "loop" /\ ~InLoop
    /\ LET past == Past(now.from)
           more == now.consumed < Len(now.targets)
       IN  got' = Append(got,
            [more |-> more, next |-> IF more THEN NextPlace ELSE 0,
             start |-> now.start, entries |-> now.entries, neighbors |-> now.neighbors,
             targets |-> now.targets, passages |-> now.passages,
             failed |-> now.failed, missing |-> now.missing,
             given |-> past.given \o [n \in DOMAIN now.passages |-> now.passages[n].key],
             said |-> past.said \cup now.failed,
             gone |-> past.gone \cup now.missing,
             same |-> past.same /\ (now.from # 0 => got[now.from].targets = now.targets),
             trouble |-> now.trouble])
    /\ pc' = "rest"
    /\ now' = NoCall
    /\ pages' = <<>> /\ missed' = <<>>
    /\ UNCHANGED cat

-----------------------------------------------------------------------------
(* The catalogue is read anew. *)
Recatalogue ==
    /\ cat < Len(Catalogues)
    /\ cat' = cat + 1
    /\ UNCHANGED <<pc, now, pages, missed, got>>

Next ==
    \/ \E r \in Requests, seed \in Seeds : Begin(r, 0, seed)
    \/ \E r \in Requests, from \in {c \in DOMAIN got : got[c].more} : Begin(r, from, <<>>)
    \/ WarmAnswers \/ WarmFails
    \/ SkipSeen \/ OpenBook \/ SkipUnopened \/ SkipMissing
    \/ ReadCached \/ AskPage \/ PageAnswers \/ PageFails
    \/ Finish
    \/ Recatalogue

Spec == Init /\ [][Next]_vars

-----------------------------------------------------------------------------
(* Types. The cache keeps to its bound, a page is cached or missed and not  *)
(* both, and the loop stays inside its list.                                *)
TypeOK ==
    /\ cat \in 1..Len(Catalogues)
    /\ pc \in {"rest", "warm", "loop", "text"}
    /\ Len(pages) <= Ceiling(Len(Wanted)) /\ Len(missed) <= MissCap
    /\ IsInjective(pages \o missed)
    /\ pc \in {"warm", "text"} => now.at <= Len(now.targets)
    /\ now.start <= now.consumed /\ now.consumed <= now.at
    /\ now.failed \cup {k[1] : k \in now.missing} \subseteq Books

EachBookOnce(entries) ==
    \A m, n \in DOMAIN entries : m # n => entries[m].book # entries[n].book

(* A batch that is not the last brings the cursor forward, also when it met *)
(* only pages that do not exist or a passage larger than the budget.        *)
WalkAdvances == \A c \in DOMAIN got : got[c].more => got[c].next > got[c].start

(* Pages listed as missing were asked for, and their book does not have     *)
(* them (56-57 and 175-177).                                                *)
MissingHonest ==
    \A c \in DOMAIN got : \A k \in got[c].missing :
        /\ k[2] \notin PagesOf[k[1]]
        /\ \E e \in ToSet(got[c].entries) : e.book = k[1] /\ k[2] \in e.ids

(* A walk that is over has dealt with all that was asked: every page of the *)
(* range around an asked one was given if its book has it, every asked page *)
(* the book lacks is listed, and a book that could not be read is named,    *)
(* whatever limits and budgets its batches had and whichever requests and   *)
(* files failed; and a walk whose request names each book once gives no     *)
(* page twice. The list must be the same in every batch. Following cursors  *)
(* ends, and no page is said to be missing that nobody asked for.           *)
(* fetchPassages.ts 19-23, 109-239.                                         *)
WalkWhole ==
    /\ WalkAdvances /\ MissingHonest
    /\ \A c \in DOMAIN got : got[c].same =>
      /\ EachBookOnce(got[c].entries) => IsInjective(got[c].given)
      /\ ~got[c].more => \A e \in ToSet(got[c].entries) :
            \/ e.book \in got[c].said
            \/ \A p \in Around(e.ids, got[c].neighbors) :
                  IF p \in PagesOf[e.book] THEN <<e.book, p>> \in ToSet(got[c].given)
                  ELSE p \in e.ids => <<e.book, p>> \in got[c].gone

(* The cache keeps what its batch fetched ahead, however large the window   *)
(* and whatever the cache held before: no page of the window is asked for   *)
(* again, and a passage has its words unless the index does not hold the    *)
(* page or a request for text failed in the same call (luceneText.ts 27-30, *)
(* 76-77 and 141; engineLifecycle.test.ts 117-136).                         *)
BatchKept ==
    /\ ~now.cold => now.again \cap ToSet(Wanted) = {}
    /\ \A c \in DOMAIN got : \A n \in DOMAIN got[c].passages :
        LET passage == got[c].passages[n]
        IN  passage.text \/ got[c].trouble \/ passage.key \notin Found(<<passage.key>>)
=============================================================================
