---------------------------- MODULE BatchedSearch ----------------------------
(***************************************************************************)
(* The interactive tools: fiqh4_search (runBatchedSearch), which walks the *)
(* matches batch by batch with cursors; fiqh4_discover_issue, which walks  *)
(* the books that match; and fiqh4_compare_issue, which searches school by *)
(* school. Their calls share one helper, which may die between two calls,  *)
(* or between two schools of one, and then reopens the index of the day.   *)
(*                                                                         *)
(* A call's steps end where it waits for the helper. Everything from one   *)
(* answer to the next request runs without waiting and is one step.        *)
(***************************************************************************)
EXTENDS Commands

CONSTANTS
    Calls,        \* tool calls, made in the order 1, 2, ...
    Unreadable,   \* <<book, page>> the book's own file does not have
    Requests,     \* the calls a client may make
    AtOnce        \* how many calls are under way together

(* A request: `scope` are the downloaded books it selects (for a comparison *)
(* `schools` has one such set per school) and `room` is how many passages   *)
(* will fit the byte budget, at least one whatever its size.                *)

SearchAssumption ==
    /\ Calls \subseteq Nat \ {0}
    /\ AtOnce \in Nat \ {0}
    /\ Requests \subseteq [tool : {"search", "discover", "compare"}, q : Queries,
                           scope : SUBSET Nat, schools : Seq(SUBSET Nat),
                           limit : Nat \ {0}, room : Nat \ {0}]
ASSUME SearchAssumption

VARIABLES
    disk,    \* the index Shamela wrote last
    proc,    \* the index the running helper opened; 0: no helper runs
    pc,      \* [Calls -> "idle" | "search" | "discover" | "compare" | "text" | "done"]
    ask,     \* [Calls -> request, cursor and index]
    turn,    \* [Calls -> the place of the school a comparison has searched last]
    got      \* [Calls -> answer]

vars == <<disk, proc, pc, ask, turn, got>>

NoCursor == [none |-> TRUE]

(* An answer. Beside what the caller sees it carries, as history, the walk  *)
(* that led here: all that was given since the first batch, the unreadable  *)
(* hits passed over, the indexes that answered, and whether every cursor    *)
(* on the way came from the same tool.                                      *)
NoAnswer == [kind |-> "none", walk |-> <<>>, lost |-> {}, more |-> FALSE,
             next |-> NoCursor, total |-> 0, exact |-> TRUE,
             indexes |-> {}, pure |-> TRUE]

NoRequest == [tool |-> "none", q |-> "none", scope |-> {}, schools |-> <<>>,
              limit |-> 1, room |-> 1]

(* A call: its request, the call whose cursor it brings (0: none), and the  *)
(* index its health check saw.                                              *)
NoAsk == [req |-> NoRequest, from |-> 0, index |-> 0]

(* Calls that can be continued: they ended with a next_cursor. *)
Continuable == {c \in Calls : pc[c] = "done" /\ got[c].next # NoCursor}

Earlier(from) == IF from = 0 THEN NoAnswer ELSE got[from]
Cursor(from) == Earlier(from).next

-----------------------------------------------------------------------------
(* Identity of the data a cursor is issued against, and its check. *)
Fingerprint(v, scope) == [index |-> v, books |-> scope]

Stale(cursor, fp, q) ==
    /\ cursor # NoCursor
    /\ cursor.fp # fp \/ cursor.qh # q

(* Mutant: the index is opened again for every command. *)
OpenedAgain == disk

(* The helper keeps the reader it opened first for as long as it lives. *)
Opened == IF proc = 0 THEN disk ELSE proc

-----------------------------------------------------------------------------
(* runBatchedSearch, from the engine's answer to its own. *)
Page(d) == <<d.book, d.page>>
Pages(docs) == {Page(d) : d \in docs}

(* `seen`: of the documents of one page, the best is kept. *)
Unrepeated(q, docs) ==
    {d \in docs : \A e \in docs : Page(e) = Page(d) => ~Before(q, e, d)}

(* The loop over the hits, which the byte budget may cut. A hit of an       *)
(* unknown book is ignored; an unreadable one is consumed all the same.     *)
Consume(r, hits) ==
    LET known == {d \in hits : d.book \in r.scope}
        lost == {d \in known : Page(d) \in Unreadable}
        readable == Unrepeated(r.q, known \ lost)
        given == Best(r.q, r.room, readable)
        reached == {d \in lost : \A e \in readable \ given : Before(r.q, d, e)}
    IN  [given |-> given, cut |-> given # readable, lost |-> reached]

(* Mutant: always after the engine's page. *)
ResumeAfterPage(r, found, took) == Key(r.q, Worst(r.q, found.hits))

(* Where the next batch resumes: after the last hit consumed if the budget  *)
(* cut the loop, after the engine's page otherwise.                         *)
ResumeAfter(r, found, took) ==
    Key(r.q, Worst(r.q, IF took.cut THEN took.given \cup took.lost ELSE found.hits))

(* Mutant: the total is counted again over what is left. *)
TotalOfTheRest(cursor, found) ==
    IF cursor = NoCursor THEN found.total ELSE cursor.total - cursor.delivered

Total(cursor, found) == IF cursor = NoCursor THEN found.total ELSE cursor.total

Delivered(cursor, given) ==
    (IF cursor = NoCursor THEN 0 ELSE cursor.delivered) + Cardinality(given)

RunBatchedSearch(v, r, cursor) ==
    LET found == SearchPages(v, r.q, r.scope, r.limit,
                             IF cursor = NoCursor THEN Start ELSE cursor.after)
        took == Consume(r, found.hits)
        more == found.more \/ took.cut
    IN  [given |-> Ranked(r.q, took.given), lost |-> took.lost, more |-> more,
         total |-> Total(cursor, found), exact |-> found.exact,
         next |-> IF ~more THEN NoCursor
                  ELSE [fp |-> Fingerprint(v, r.scope), qh |-> r.q,
                        after |-> ResumeAfter(r, found, took),
                        delivered |-> Delivered(cursor, took.given),
                        total |-> Total(cursor, found)]]

-----------------------------------------------------------------------------
(* Mutant: the next slice begins one book too late. *)
ReachedOneMore(start, slice) == start + Len(slice) + 1

(* The place after a slice of the list of books. *)
Reached(start, slice) == start + Len(slice)

(* The grand total: the sum of the hits of some books. *)
HitsTogether(hits, books) == Cardinality(UNION {{b} \X (1..hits[b]) : b \in books})

(* discoverIssue: the books that match, most hits first. The key of its     *)
(* cursor is a place in that list.                                          *)
DiscoverIssue(v, r, cursor) ==
    LET counted == CountsByBook(v, r.q, r.scope)
        books == DOMAIN counted.hits \cap r.scope
        order == Ordered(counted.order, books)
        withHits == [n \in DOMAIN order |-> [book |-> order[n], hits |-> counted.hits[order[n]]]]
        start == IF cursor = NoCursor THEN 0 ELSE cursor.after.doc
        end == IF start + r.limit < Len(withHits) THEN start + r.limit ELSE Len(withHits)
        slice == SubSeq(withHits, start + 1, end)
        reached == Reached(start, slice)
        more == reached < Len(withHits)
    IN  [given |-> slice, lost |-> {}, more |-> more,
         total |-> HitsTogether(counted.hits, books),
         exact |-> ~counted.truncated,
         next |-> IF ~more THEN NoCursor
                  ELSE [fp |-> Fingerprint(v, r.scope), qh |-> r.q,
                        after |-> [score |-> 0, doc |-> reached],
                        delivered |-> reached, total |-> Len(withHits)]]

(* The answer of a batch, with the walk it continues. *)
Continue(c, v, batch) ==
    LET from == ask[c].from
        past == Earlier(from)
    IN  [kind |-> "ok", walk |-> past.walk \o batch.given,
         lost |-> past.lost \cup batch.lost, more |-> batch.more,
         next |-> batch.next, total |-> batch.total, exact |-> batch.exact,
         indexes |-> past.indexes \cup {v},
         pure |-> past.pure /\ (from # 0 => ask[from].req.tool = ask[c].req.tool)]

-----------------------------------------------------------------------------
Init ==
    /\ disk = 1
    /\ proc = 0
    /\ pc = [c \in Calls |-> "idle"]
    /\ ask = [c \in Calls |-> NoAsk]
    /\ turn = [c \in Calls |-> 0]
    /\ got = [c \in Calls |-> NoAnswer]

(* The health check of acquireEngine is answered, and the first request is  *)
(* on its way; a search first checks its cursor.                            *)
Begin(c, r, from) ==
    /\ pc[c] = "idle"
    /\ \A b \in Calls : b < c => pc[b] # "idle"
    /\ Cardinality({b \in Calls : pc[b] \notin {"idle", "done"}}) < AtOnce
    /\ proc' = Opened
    /\ ask' = [ask EXCEPT ![c] = [req |-> r, from |-> from, index |-> Opened]]
    /\ LET stale == r.tool = "search" /\ Stale(Cursor(from), Fingerprint(Opened, r.scope), r.q)
           nothing == r.tool = "compare" /\ ToSet(r.schools) \subseteq {{}}
       IN  /\ pc' = [pc EXCEPT ![c] = IF stale \/ nothing THEN "done" ELSE r.tool]
           /\ got' = [got EXCEPT ![c] = [NoAnswer EXCEPT !.kind =
                        IF stale THEN "stale" ELSE IF nothing THEN "ok" ELSE "none"]]
    /\ UNCHANGED <<disk, turn>>

SearchAnswers(c) ==
    /\ pc[c] = "search"
    /\ pc' = [pc EXCEPT ![c] = "done"]
    /\ LET cursor == Cursor(ask[c].from)
       IN  got' = [got EXCEPT ![c] =
                Continue(c, Opened, RunBatchedSearch(Opened, ask[c].req, cursor))]
    /\ UNCHANGED <<disk, proc, ask, turn>>

(* The counts have come: only now is the cursor looked at. The requests for *)
(* sample pages go to the same helper without a pause and change nothing.   *)
CountsAnswer(c) ==
    /\ pc[c] = "discover"
    /\ pc' = [pc EXCEPT ![c] = "done"]
    /\ LET r == ask[c].req
           cursor == Cursor(ask[c].from)
       IN  got' = [got EXCEPT ![c] =
                IF Stale(cursor, Fingerprint(ask[c].index, r.scope), r.q)
                THEN [NoAnswer EXCEPT !.kind = "stale"]
                ELSE Continue(c, Opened, DiscoverIssue(Opened, r, cursor))]
    /\ UNCHANGED <<disk, proc, ask, turn>>

(* compare_issue: one first batch per school that has a book to search.     *)
SchoolsLeft(c) ==
    {k \in (turn[c] + 1)..Len(ask[c].req.schools) : ask[c].req.schools[k] # {}}

(* The school in turn is searched and its passages collected. *)
SchoolAnswers(c) ==
    /\ pc[c] = "compare"
    /\ LET next == Min(SchoolsLeft(c))
           r == [ask[c].req EXCEPT !.scope = ask[c].req.schools[next]]
           given == RunBatchedSearch(Opened, r, NoCursor).given
       IN  /\ got' = [got EXCEPT ![c] = [@ EXCEPT !.walk = got[c].walk \o given,
                                                  !.indexes = got[c].indexes \cup {Opened}]]
           /\ turn' = [turn EXCEPT ![c] = next]
    /\ pc' = [pc EXCEPT ![c] = "text"]
    /\ UNCHANGED <<disk, proc, ask>>

(* Their text is read, or could not be; the next school, if any, is asked.  *)
NextSchool(c) ==
    /\ pc[c] = "text"
    /\ LET over == SchoolsLeft(c) = {}
       IN  /\ pc' = [pc EXCEPT ![c] = IF over THEN "done" ELSE "compare"]
           /\ got' = [got EXCEPT ![c] = [@ EXCEPT !.kind = IF over THEN "ok" ELSE "none"]]
           /\ proc' = IF over THEN proc ELSE Opened
    /\ UNCHANGED <<disk, ask, turn>>

Waiting == {c \in Calls : pc[c] \in {"search", "discover", "compare"}}

(* Mutant: the failure is noted and the call is left waiting. *)
FailedStillWaiting(cs) ==
    /\ got' = [c \in Calls |->
                IF c \in cs THEN [NoAnswer EXCEPT !.kind = "failed"] ELSE got[c]]
    /\ UNCHANGED <<pc, ask, turn>>

(* Nothing is left of a call that failed. *)
Failed(cs) ==
    /\ pc' = [c \in Calls |-> IF c \in cs THEN "done" ELSE pc[c]]
    /\ ask' = [c \in Calls |-> IF c \in cs THEN NoAsk ELSE ask[c]]
    /\ turn' = [c \in Calls |-> IF c \in cs THEN 0 ELSE turn[c]]
    /\ got' = [c \in Calls |->
                IF c \in cs THEN [NoAnswer EXCEPT !.kind = "failed"] ELSE got[c]]

(* A request times out, or the helper answers it with an error. *)
RequestFails(c) ==
    /\ c \in Waiting
    /\ Failed({c})
    /\ UNCHANGED <<disk, proc>>

(* The helper ends: every request it owes fails. A call that reads text     *)
(* goes on, and its next request starts another helper.                     *)
HelperEnds ==
    /\ proc # 0
    /\ proc' = 0
    /\ Failed(Waiting)
    /\ UNCHANGED disk

(* Shamela writes its index anew. *)
Rewrite ==
    /\ disk < Len(Index)
    /\ disk' = disk + 1
    /\ UNCHANGED <<proc, pc, ask, turn, got>>

Next ==
    \/ \E c \in Calls : \/ \E r \in Requests :
                              \E from \in {0} \cup (IF r.tool = "compare" THEN {} ELSE Continuable) :
                                 Begin(c, r, from)
                        \/ SearchAnswers(c) \/ CountsAnswer(c)
                        \/ SchoolAnswers(c) \/ NextSchool(c)
                        \/ RequestFails(c)
    \/ HelperEnds
    \/ Rewrite

Spec == Init /\ [][Next]_vars

-----------------------------------------------------------------------------
(* Types: a call that is over has an answer, and a call answers once.       *)
TypeOK ==
    /\ disk \in 1..Len(Index)
    /\ proc \in 0..disk
    /\ pc \in [Calls -> {"idle", "search", "discover", "compare", "text", "done"}]
    /\ \A c \in Calls :
         /\ pc[c] = "done" <=> got[c].kind # "none"
         /\ ask[c].req.tool = "none" <=> pc[c] = "idle" \/ got[c].kind = "failed"
         /\ ask[c].from \in 0..(c - 1)
         /\ turn[c] \in 0..Len(ask[c].req.schools)

(* Answers of a tool whose whole walk was made with that tool's cursors.    *)
Answers(tool) ==
    {c \in Calls : got[c].kind = "ok" /\ ask[c].req.tool = tool /\ got[c].pure}

(* What a search should give: the pages of the scope that match.            *)
Wanted(c) ==
    {d \in Matching(ask[c].index, ask[c].req.q) : d.id = "page" /\ d.book \in ask[c].req.scope}

(* No document of the index lacks a proper id, or the helper filters by id. *)
Tidy(v) == Pushed[v] => \A d \in Index[v] : d.id = "page"

(* A batch that is not the last has a cursor, and the cursor is strictly    *)
(* later than the one the batch was asked with: following cursors ends,     *)
(* also past unreadable pages and passages larger than the budget.          *)
(* search.ts 125-127 and 145-146, batching.ts 64-74, discoverIssue.ts 106.  *)
WalkAdvances ==
    \A c \in Calls :
        got[c].more =>
            /\ got[c].next # NoCursor
            /\ ask[c].from # 0 =>
                LET old == got[ask[c].from].next.after
                    new == got[c].next.after
                IN  \/ new.score < old.score
                    \/ new.score = old.score /\ new.doc > old.doc

(* A comparison of schools that share no book never shows a page twice.     *)
(* tools/compareIssue.ts 88-125, search.ts 107-108.                         *)
DisjointSchoolsOnce ==
    \A c \in Calls :
        /\ got[c].kind = "ok" /\ ask[c].req.tool = "compare"
        /\ \A m, n \in DOMAIN ask[c].req.schools :
              m # n => ask[c].req.schools[m] \cap ask[c].req.schools[n] = {}
        => \A i, j \in DOMAIN got[c].walk :
                Page(got[c].walk[i]) = Page(got[c].walk[j]) => i = j

(* A walk gives matches of the scope, each document once and in order of    *)
(* rank, over all its batches; nothing it could not read is among them. A   *)
(* walk that is told it is over has passed every match: given, or           *)
(* unreadable and listed as such. This holds whatever limits and budgets    *)
(* its batches had, the end on an index whose ids are in order.             *)
(* And following cursors ends, also past unreadable pages and passages      *)
(* larger than the budget: each is later than the one before it.            *)
(* A comparison gives no page twice where its schools share no book.        *)
(* search.ts 103-158 (a response is never silently partial), cursor.ts,     *)
(* Commands.searchPages.                                                    *)
WalkExact ==
    /\ WalkAdvances /\ DisjointSchoolsOnce
    /\ \A c \in Answers("search") :
        LET w == got[c].walk
        IN  /\ ToSet(w) \subseteq Wanted(c)
            /\ Pages(ToSet(w)) \cap Unreadable = {}
            /\ \A i, j \in DOMAIN w : i < j => Before(ask[c].req.q, w[i], w[j])
            /\ ~got[c].more /\ Tidy(ask[c].index) =>
                  Pages(ToSet(w) \cup got[c].lost) = Pages(Wanted(c))

(* The number a cursor says was delivered is the number of passages its     *)
(* walk gave, over any number of batches; and a total called exact is the   *)
(* number of matching pages in scope, in every batch of the walk, for a     *)
(* scope that has a book. search.ts 83 and 155.                             *)
NumbersHonest ==
    \A c \in Answers("search") :
      /\ got[c].next # NoCursor => got[c].next.delivered = Len(got[c].walk)
      /\ got[c].exact /\ ask[c].req.scope # {} /\ Tidy(ask[c].index) =>
            got[c].total = Cardinality(Wanted(c))

(* Answers and cursors hold to one index: whatever helpers ended, restarted *)
(* and reopened in between, all batches of a walk were answered from the    *)
(* index its fingerprint names. context.ts 168-175, cursor.ts 88-95.        *)
OneIndex ==
    \A c \in Calls :
        ask[c].req.tool \in {"search", "discover"} /\ got[c].kind = "ok" =>
            got[c].indexes = {ask[c].index}

(* The listing of books, over all its batches, names each book once, most   *)
(* hits first; when it is over and was not cut by the walk limit, it has    *)
(* every book of the scope with a match, and the grand total is theirs.     *)
(* discoverIssue.ts 80-107.                                                 *)
BooksListed ==
    \A c \in Answers("discover") :
        LET w == got[c].walk
            books == {w[i].book : i \in DOMAIN w}
        IN  /\ Cardinality(books) = Len(w)
            /\ \A i, j \in DOMAIN w : i < j => w[i].hits >= w[j].hits
            /\ got[c].exact /\ Tidy(ask[c].index) =>
                 /\ got[c].total = Cardinality(Wanted(c))
                 /\ ~got[c].more => books = {d.book : d \in Wanted(c)}

-----------------------------------------------------------------------------
(* engine.ts 48: the number of matching pages in scope is exact unless      *)
(* totalExact says otherwise, also when no book of the scope is downloaded. *)
ExactTotal ==
    \A c \in Answers("search") :
        got[c].exact /\ Tidy(ask[c].index) => got[c].total = Cardinality(Wanted(c))
=============================================================================
