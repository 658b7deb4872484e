------------------------------ MODULE Commands ------------------------------
(***************************************************************************)
(* The reads of the Java helper (Commands.java): one page of results that  *)
(* resumes after a key, and grouped counts. Lucene itself is data here: an *)
(* index is a set of documents with a score for each query (0: no match),  *)
(* and a search lists the matches by score, best first, then by number.    *)
(*                                                                         *)
(* A document's `id` is "page" for "<book>-<page>", "nodash" for an id     *)
(* without a book prefix and "none" for a document without an id; `book`   *)
(* is what its book field holds.                                           *)
(***************************************************************************)
EXTENDS Integers, Sequences, FiniteSets, SequencesExt, Orders

CONSTANTS
    Queries,    \* parsed queries, by hash
    Index,      \* the indexes Shamela writes, one after another
    Pushed,     \* Pushed[v]: index v has a field that holds the book id
    WalkLimit   \* how many matches the fallback count reads

IndexAssumption ==
    /\ Index # <<>> /\ Index \in Seq(ToSet(Index))
    /\ \A v \in 1..Len(Index) :
         /\ IsFiniteSet(Index[v])
         /\ \A d \in Index[v] :
               d.doc \in Nat /\ d.book \in Nat /\ d.score \in [Queries -> Nat]
         /\ \A d, e \in Index[v] : d.doc = e.doc => d = e
    /\ Pushed \in [1..Len(Index) -> BOOLEAN]
    /\ WalkLimit \in Nat \ {0}
ASSUME IndexAssumption

Start == [score |-> -1, doc |-> -1]   \* no key to resume after

Key(q, d) == [score |-> d.score[q], doc |-> d.doc]
Before(q, d, e) ==
    \/ d.score[q] > e.score[q]
    \/ d.score[q] = e.score[q] /\ d.doc < e.doc

(* The order in which Lucene lists documents, and the first n of them.      *)
ByRank(q, docs) == {p \in docs \X docs : Before(q, p[1], p[2])}
Best(q, n, docs) == Top(ByRank(q, docs), n, docs)
Worst(q, docs) == Latest(ByRank(q, docs), docs)
Ranked(q, docs) == Ordered(ByRank(q, docs), docs)

Matching(v, q) == {d \in Index[v] : d.score[q] > 0}

(* Resuming: only what ranks after the key. *)
SearchAfter(q, docs, after) ==
    {d \in docs : \/ after = Start
                  \/ d.score[q] < after.score
                  \/ d.score[q] = after.score /\ d.doc > after.doc}

(* An empty list of books means the whole index, and so does an index      *)
(* whose book field was not found: the caller then filters.                *)
Scoped(v, q, scope) ==
    IF scope = {} \/ ~Pushed[v] THEN Matching(v, q)
    ELSE {d \in Matching(v, q) : d.book \in scope}

InScope(d, scope) == scope = {} \/ (d.id = "page" /\ d.book \in scope)

SearchPages(v, q, scope, limit, after) ==
    LET postFilter == ~Pushed[v] /\ scope # {}
        rest == SearchAfter(q, Scoped(v, q, scope), after)
        window == IF postFilter THEN {d \in rest : InScope(d, scope)}
                  ELSE Best(q, limit + 1, rest)
        named == {d \in window : d.id # "none"}
        hits == Best(q, limit, {d \in named : d.id = "page"})
    IN  [hits  |-> hits,
         more  |-> /\ Cardinality(hits) = limit
                   /\ \E d \in named : \A e \in hits : Before(q, e, d),
         total |-> Cardinality(Scoped(v, q, scope)),
         exact |-> ~postFilter]

HitsOf(docs, b) == Cardinality({d \in docs : d.book = b})

(* Books by hits, most first; equals stay in the order they had.            *)
ByHits(hits, place) ==
    {p \in (DOMAIN hits) \X (DOMAIN hits) :
        \/ hits[p[1]] > hits[p[2]]
        \/ hits[p[1]] = hits[p[2]] /\ place[p[1]] < place[p[2]]}

(* One count per book of the scope. *)
CountEach(v, q, scope) ==
    LET docs == Matching(v, q)
        hits == [b \in {b \in scope : HitsOf(docs, b) > 0} |-> HitsOf(docs, b)]
    IN  [hits |-> hits, order |-> ByHits(hits, [b \in DOMAIN hits |-> b]),
         truncated |-> FALSE]

(* Without a book field or a scope: group the first WalkLimit matches; a    *)
(* book has the place of the first of its documents.                        *)
CountByWalking(v, q, scope) ==
    LET docs == Matching(v, q)
        walked == {d \in Best(q, WalkLimit, docs) : d.id = "page" /\ InScope(d, scope)}
        Of(b) == {d \in walked : d.book = b}
        hits == [b \in {d.book : d \in walked} |-> HitsOf(walked, b)]
        place == [b \in DOMAIN hits |-> Min({Rank(ByRank(q, docs), docs, d) : d \in Of(b)})]
    IN  [hits |-> hits, order |-> ByHits(hits, place),
         truncated |-> Cardinality(docs) >= WalkLimit]

CountsByBook(v, q, scope) ==
    IF Pushed[v] /\ scope # {} THEN CountEach(v, q, scope)
    ELSE CountByWalking(v, q, scope)

=============================================================================
