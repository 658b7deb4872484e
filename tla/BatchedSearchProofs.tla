------------------------ MODULE BatchedSearchProofs ------------------------
(***************************************************************************)
(* What the interactive tools promise, for any indexes, queries, requests  *)
(* and calls: every walk keeps to one index; over all its batches it gives *)
(* each match once, in order, and in the end has passed over none; what it *)
(* counts is true; and a listing of books is whole.                        *)
(*                                                                         *)
(* First what one batch does, as facts of the operators: a page of the     *)
(* helper's results (PageOf), the loop over its hits (ConsumeOf), a batch  *)
(* (BatchOf), grouped counts (CountsOf), the list of books (ListingOf), a  *)
(* slice of it (DiscoverOf); and what a batch adds to a walk (WalkGoesOn,  *)
(* ListGoesOn). Then two invariants of the calls: IInv, that a call waits  *)
(* for the helper its health check saw, and WInv, that every answer is a   *)
(* walk (Walked), a beginning of the list (Listed), or the passages of the *)
(* first schools (FromSchools).                                            *)
(***************************************************************************)
EXTENDS BatchedSearch, OrdersProofs, SequenceTheorems, TLAPS

-----------------------------------------------------------------------------
(* Two sequences joined.                                                    *)
LEMMA Joined ==
    ASSUME NEW S, NEW s \in Seq(S), NEW t \in Seq(S)
    PROVE  /\ s \o t \in Seq(S) /\ Len(s \o t) = Len(s) + Len(t)
           /\ \A n \in 1..Len(s) : (s \o t)[n] = s[n]
           /\ \A n \in (Len(s) + 1)..(Len(s) + Len(t)) :
                 n - Len(s) \in 1..Len(t) /\ (s \o t)[n] = t[n - Len(s)]
           /\ ToSet(s \o t) = ToSet(s) \cup ToSet(t)
  <1>1. /\ s \o t \in Seq(S) /\ Len(s \o t) = Len(s) + Len(t)
        /\ Len(s) \in Nat /\ Len(t) \in Nat
        /\ \A n \in 1..Len(s) : (s \o t)[n] = s[n]
        /\ \A n \in (Len(s) + 1)..(Len(s) + Len(t)) :
              n - Len(s) \in 1..Len(t) /\ (s \o t)[n] = t[n - Len(s)]
    OBVIOUS
  <1>2. /\ DOMAIN s = 1..Len(s) /\ DOMAIN t = 1..Len(t)
        /\ DOMAIN (s \o t) = 1..(Len(s) + Len(t))
    BY <1>1
  <1>3. ASSUME NEW n \in 1..Len(t)
        PROVE  Len(s) + n \in (Len(s) + 1)..(Len(s) + Len(t)) /\ (s \o t)[Len(s) + n] = t[n]
    BY <1>1
  <1>4. ToSet(s \o t) \subseteq ToSet(s) \cup ToSet(t)
    <2> SUFFICES ASSUME NEW n \in 1..(Len(s) + Len(t))
                 PROVE  (s \o t)[n] \in ToSet(s) \cup ToSet(t)
      BY <1>2 DEF ToSet
    <2>1. n \in 1..Len(s) \/ n \in (Len(s) + 1)..(Len(s) + Len(t))
      BY <1>1
    <2> QED
      BY <2>1, <1>1, <1>2 DEF ToSet
  <1>5. ToSet(s) \cup ToSet(t) \subseteq ToSet(s \o t)
    <2>1. ASSUME NEW n \in 1..Len(s) PROVE s[n] \in ToSet(s \o t)
      <3>1. n \in 1..(Len(s) + Len(t))
        BY <1>1
      <3> QED
        BY <3>1, <1>1, <1>2 DEF ToSet
    <2>2. ASSUME NEW n \in 1..Len(t) PROVE t[n] \in ToSet(s \o t)
      <3>1. Len(s) + n \in 1..(Len(s) + Len(t))
        BY <1>1
      <3> QED
        BY <3>1, <1>2, <1>3 DEF ToSet
    <2> QED
      BY <2>1, <2>2, <1>2 DEF ToSet
  <1> QED
    BY <1>1, <1>4, <1>5

(* The documents of an index are in a line.                                 *)
LEMMA IndexFacts ==
    ASSUME NEW v \in 1..Len(Index), NEW q \in Queries
    PROVE  /\ IsFiniteSet(Index[v]) /\ v \in Nat
           /\ \A d \in Index[v] : d.doc \in Nat /\ d.book \in Nat /\ d.score[q] \in Nat
           /\ \A d \in Index[v] : ~Before(q, d, d)
           /\ \A d, e \in Index[v] : d = e \/ Before(q, d, e) \/ Before(q, e, d)
           /\ \A d, e \in Index[v] : ~(Before(q, d, e) /\ Before(q, e, d))
           /\ \A d, e, f \in Index[v] : Before(q, d, e) /\ Before(q, e, f) => Before(q, d, f)
           /\ Pushed[v] \in BOOLEAN
  <1>1. /\ IsFiniteSet(Index[v]) /\ Pushed[v] \in BOOLEAN
        /\ \A d \in Index[v] : d.doc \in Nat /\ d.book \in Nat /\ d.score \in [Queries -> Nat]
        /\ \A d, e \in Index[v] : d.doc = e.doc => d = e
    BY IndexAssumption DEF IndexAssumption
  <1>2. Len(Index) \in Nat
    BY IndexAssumption DEF IndexAssumption
  <1>3. \A d \in Index[v] : d.score[q] \in Nat
    BY <1>1
  <1> QED
    BY <1>1, <1>2, <1>3 DEF Before

(* Documents rank in a line.                                                *)
LEMMA RankOrders ==
    ASSUME NEW v \in 1..Len(Index), NEW q \in Queries, NEW docs \in SUBSET Index[v]
    PROVE  /\ StrictOrder(ByRank(q, docs), docs) /\ IsFiniteSet(docs)
           /\ \A d, e \in docs : <<d, e>> \in ByRank(q, docs) <=> Before(q, d, e)
  <1>1. \A d, e \in docs : <<d, e>> \in ByRank(q, docs) <=> Before(q, d, e)
    BY DEF ByRank
  <1>2. IsFiniteSet(docs)
    BY IndexFacts, FS_Subset
  <1>3. StrictOrder(ByRank(q, docs), docs)
    <2>1. /\ \A d \in docs : ~Before(q, d, d)
          /\ \A d, e \in docs : d = e \/ Before(q, d, e) \/ Before(q, e, d)
          /\ \A d, e, f \in docs : Before(q, d, e) /\ Before(q, e, f) => Before(q, d, f)
      BY IndexFacts
    <2> QED
      BY <1>1, <2>1 DEF StrictOrder
  <1> QED
    BY <1>1, <1>2, <1>3

(* The best n are the first of them, n if there are so many.                *)
LEMMA BestOf ==
    ASSUME NEW v \in 1..Len(Index), NEW q \in Queries, NEW docs \in SUBSET Index[v],
           NEW n \in Nat
    PROVE  /\ Best(q, n, docs) \in SUBSET docs
           /\ Cardinality(Best(q, n, docs)) \in Nat /\ Cardinality(Best(q, n, docs)) <= n
           /\ Best(q, n, docs) # docs => Cardinality(Best(q, n, docs)) = n
           /\ Cardinality(docs) <= n => Best(q, n, docs) = docs
           /\ \A d \in Best(q, n, docs), e \in docs \ Best(q, n, docs) : Before(q, d, e)
  <1> DEFINE R == ByRank(q, docs)
  <1>1. /\ StrictOrder(R, docs) /\ IsFiniteSet(docs)
        /\ \A d, e \in docs : <<d, e>> \in R <=> Before(q, d, e)
    BY RankOrders
  <1>2. /\ Top(R, n, docs) \in SUBSET docs
        /\ Cardinality(Top(R, n, docs)) \in Nat /\ Cardinality(Top(R, n, docs)) <= n
        /\ Cardinality(docs) <= n => Top(R, n, docs) = docs
        /\ Top(R, n, docs) # docs => Cardinality(Top(R, n, docs)) = n
        /\ \A x \in Top(R, n, docs), y \in docs \ Top(R, n, docs) : <<x, y>> \in R
    <2> HIDE DEF R
    <2> QED
      BY <1>1, TopOf
  <1> HIDE DEF R
  <1> QED
    BY <1>1, <1>2 DEF Best, R

(* The worst is the last of them; and one is the first.                     *)
LEMMA WorstOf ==
    ASSUME NEW v \in 1..Len(Index), NEW q \in Queries, NEW docs \in SUBSET Index[v],
           docs # {}
    PROVE  /\ Worst(q, docs) \in docs
           /\ \A d \in docs : d = Worst(q, docs) \/ Before(q, d, Worst(q, docs))
           /\ \E d \in docs : \A e \in docs : e = d \/ Before(q, d, e)
  <1> DEFINE R == ByRank(q, docs)
  <1>1. /\ StrictOrder(R, docs) /\ IsFiniteSet(docs)
        /\ \A d, e \in docs : <<d, e>> \in R <=> Before(q, d, e)
    BY RankOrders
  <1>2. /\ \E x \in docs : \A y \in docs : y = x \/ <<x, y>> \in R
        /\ Latest(R, docs) \in docs
        /\ \A y \in docs : y = Latest(R, docs) \/ <<y, Latest(R, docs)>> \in R
    <2> HIDE DEF R
    <2> QED
      BY <1>1, EndsOf
  <1> HIDE DEF R
  <1> QED
    BY <1>1, <1>2 DEF Worst, R

(* Ranked lists all of them, in order of rank.                              *)
LEMMA RankedOf ==
    ASSUME NEW v \in 1..Len(Index), NEW q \in Queries, NEW docs \in SUBSET Index[v]
    PROVE  /\ Ranked(q, docs) \in Seq(docs)
           /\ Len(Ranked(q, docs)) = Cardinality(docs)
           /\ ToSet(Ranked(q, docs)) = docs
           /\ \A m, n \in 1..Len(Ranked(q, docs)) :
                 m < n => Before(q, Ranked(q, docs)[m], Ranked(q, docs)[n])
  <1> DEFINE R == ByRank(q, docs)
             s == Ordered(R, docs)
  <1>1. /\ StrictOrder(R, docs) /\ IsFiniteSet(docs)
        /\ \A d, e \in docs : <<d, e>> \in R <=> Before(q, d, e)
    BY RankOrders
  <1>2. /\ Cardinality(docs) \in Nat
        /\ s \in [1..Cardinality(docs) -> docs]
        /\ \A m, n \in 1..Cardinality(docs) : m < n => <<s[m], s[n]>> \in R
        /\ \A x \in docs : \E n \in 1..Cardinality(docs) : s[n] = x
    <2> HIDE DEF R
    <2> QED
      BY <1>1, OrderedSorts
  <1>3. Ranked(q, docs) = s
    BY DEF Ranked
  <1> HIDE DEF s, R
  <1>4. s \in Seq(docs) /\ Len(s) = Cardinality(docs) /\ DOMAIN s = 1..Len(s)
    BY <1>2
  <1>5. ToSet(s) = docs
    BY <1>2, <1>4 DEF ToSet
  <1> QED
    BY <1>1, <1>2, <1>3, <1>4, <1>5

-----------------------------------------------------------------------------
(* Whether d comes no later than k.                                         *)
UpTo(q, d, k) == d = k \/ Before(q, d, k)

(* What a search over some books still has to give.                         *)
Sought(v, q, scope) == {d \in Matching(v, q) : d.id = "page" /\ d.book \in scope}

(* One page of the helper's results: the first of what is left, and it says *)
(* so when there is more.                                                   *)
LEMMA PageOf ==
    ASSUME NEW v \in 1..Len(Index), NEW q \in Queries, NEW scope \in SUBSET Nat,
           NEW limit \in Nat \ {0}, NEW after
    PROVE  LET found == SearchPages(v, q, scope, limit, after)
               left == SearchAfter(q, Sought(v, q, scope), after)
           IN  /\ found.hits \in SUBSET SearchAfter(q, Matching(v, q), after)
               /\ \A d \in found.hits : d.id = "page"
               /\ \A d \in found.hits, e \in left \ found.hits : Before(q, d, e)
               /\ found.more => found.hits # {}
               /\ ~found.more /\ Tidy(v) => left \subseteq found.hits
               /\ found.exact /\ scope # {} => Pushed[v]
               /\ Pushed[v] /\ scope # {} /\ Tidy(v) =>
                     found.total = Cardinality(Sought(v, q, scope))
  <1> DEFINE postFilter == ~Pushed[v] /\ scope # {}
             rest == SearchAfter(q, Scoped(v, q, scope), after)
             window == IF postFilter THEN {d \in rest : InScope(d, scope)}
                       ELSE Best(q, limit + 1, rest)
             named == {d \in window : d.id # "none"}
             paged == {d \in named : d.id = "page"}
             hits == Best(q, limit, paged)
             more == /\ Cardinality(hits) = limit
                     /\ \E d \in named : \A e \in hits : Before(q, e, d)
             found == SearchPages(v, q, scope, limit, after)
             left == SearchAfter(q, Sought(v, q, scope), after)
             all == SearchAfter(q, Matching(v, q), after)
  <1>1. /\ found.hits = hits /\ found.more = more
        /\ found.total = Cardinality(Scoped(v, q, scope)) /\ found.exact = ~postFilter
    BY DEF SearchPages
  <1>2. rest \in SUBSET all /\ all \in SUBSET Matching(v, q) /\ Matching(v, q) \in SUBSET Index[v]
    BY DEF SearchAfter, Scoped, Matching
  <1>3. /\ window \in SUBSET rest
        /\ ~postFilter => \A d \in window, e \in rest \ window : Before(q, d, e)
        /\ ~postFilter /\ window # rest => Cardinality(window) = limit + 1
    <2> DEFINE best == Best(q, limit + 1, rest)
    <2>1. rest \in SUBSET Index[v]
      BY <1>2
    <2>2. ASSUME NEW n \in Nat
          PROVE  /\ Best(q, n, rest) \in SUBSET rest
                 /\ Best(q, n, rest) # rest => Cardinality(Best(q, n, rest)) = n
                 /\ \A d \in Best(q, n, rest), e \in rest \ Best(q, n, rest) : Before(q, d, e)
      <3> HIDE DEF rest
      <3> QED
        BY <2>1, BestOf
    <2> HIDE DEF rest, best
    <2> QED
      BY <2>2 DEF best
  <1>4. /\ paged \in SUBSET window /\ hits \in SUBSET paged
        /\ Cardinality(hits) \in Nat /\ Cardinality(hits) <= limit
        /\ hits # paged => Cardinality(hits) = limit
        /\ \A d \in hits, e \in paged \ hits : Before(q, d, e)
    <2>1. paged \in SUBSET window /\ paged \in SUBSET Index[v] /\ limit \in Nat
      BY <1>2, <1>3
    <2> HIDE DEF paged, window
    <2> QED
      BY <2>1, BestOf
  <1>5. left \in SUBSET rest \/ ~Pushed[v]
    BY DEF SearchAfter, Sought, Scoped
  <1>6. /\ left \in SUBSET rest
        /\ \A d \in left : d.id = "page" /\ InScope(d, scope)
    BY DEF SearchAfter, Sought, Scoped, InScope
  <1>7. ASSUME NEW d \in hits, NEW e \in left \ hits PROVE Before(q, d, e)
    <2>1. CASE e \in window
      BY <2>1, <1>4, <1>6
    <2>2. CASE e \notin window
      <3>1. ~postFilter /\ e \in rest \ window /\ d \in window
        BY <2>2, <1>4, <1>6
      <3> QED
        BY <3>1, <1>3
    <2> QED
      BY <2>1, <2>2
  <1>8. more => hits # {}
    <2>1. hits = {} => Cardinality(hits) = 0
      BY FS_EmptySet
    <2> HIDE DEF hits
    <2> QED
      BY <2>1
  <1>9. ASSUME ~more, Tidy(v) PROVE left \subseteq hits
    <2>1. hits = paged
      <3> SUFFICES ASSUME hits # paged PROVE FALSE
        OBVIOUS
      <3>1. PICK d \in paged : d \notin hits
        BY <1>4
      <3>2. d \in named /\ \A e \in hits : Before(q, e, d)
        BY <3>1, <1>4
      <3>3. Cardinality(hits) = limit
        BY <1>4
      <3> HIDE DEF hits, named
      <3> QED
        BY <3>2, <3>3, <1>9
    <2>2. CASE postFilter
      BY <2>1, <2>2, <1>6
    <2>3. CASE ~postFilter /\ scope = {}
      BY <2>3 DEF SearchAfter, Sought
    <2>4. CASE ~postFilter /\ scope # {}
      <3>0. limit \in Nat /\ Cardinality(hits) # limit + 1
        BY <1>4
      <3>1. Pushed[v] /\ \A d \in Index[v] : d.id = "page"
        BY <2>4, <1>9 DEF Tidy
      <3>2. paged = window
        BY <3>1, <1>2, <1>3
      <3>3. window = rest
        <4> HIDE DEF hits, paged, window, rest, postFilter
        <4> QED
          BY <2>1, <3>0, <3>2, <1>3, <2>4
      <3> QED
        BY <2>1, <3>2, <3>3, <1>6
    <2> QED
      BY <2>2, <2>3, <2>4
  <1>10. ASSUME Pushed[v], scope # {}, Tidy(v) PROVE Scoped(v, q, scope) = Sought(v, q, scope)
    BY <1>10 DEF Scoped, Sought, Tidy, Matching
  <1>11. hits \in SUBSET all /\ \A d \in hits : d.id = "page"
    BY <1>2, <1>3, <1>4
  <1> HIDE DEF hits, more, postFilter, found, left, all
  <1>12. /\ found.exact /\ scope # {} => Pushed[v]
         /\ Pushed[v] /\ scope # {} /\ Tidy(v) =>
               found.total = Cardinality(Sought(v, q, scope))
    BY <1>1, <1>10 DEF postFilter
  <1> QED
    BY <1>1, <1>7, <1>8, <1>9, <1>11, <1>12 DEF found, left, all

(* The loop over the hits: what it gives and what it loses are a first part *)
(* of the hits, page by page; cut short, it took at least one.              *)
Consumed(r, hits) ==
    LET took == Consume(r, hits)
        taken == took.given \cup took.lost
    IN  /\ taken \in SUBSET hits
        /\ \A d \in taken : d.book \in r.scope
        /\ Pages(took.given) \cap Unreadable = {}
        /\ \A d, e \in took.given : Page(d) = Page(e) => d = e
        /\ took.cut => taken # {}
        /\ \A d \in hits :
              /\ d.book \in r.scope
              /\ took.cut => UpTo(r.q, d, Worst(r.q, taken))
              => Page(d) \in Pages(taken)

(* The loop takes known hits of the page; what it takes up to the place it  *)
(* reached, by page, is all there is.                                       *)
LEMMA ConsumeOf ==
    ASSUME NEW v \in 1..Len(Index), NEW r, r.q \in Queries, r.room \in Nat \ {0},
           NEW hits \in SUBSET Index[v]
    PROVE  Consumed(r, hits)
  <1>0. PICK q \in Queries : q = r.q
    OBVIOUS
  <1> DEFINE known == {d \in hits : d.book \in r.scope}
             lost == {d \in known : Page(d) \in Unreadable}
             kept == known \ lost
             readable == Unrepeated(q, kept)
             given == Best(q, r.room, readable)
             reached == {d \in lost : \A e \in readable \ given : Before(q, d, e)}
             taken == given \cup reached
             worst == Worst(q, taken)
  <1>1. Consume(r, hits) = [given |-> given, cut |-> given # readable, lost |-> reached]
    BY <1>0 DEF Consume
  <1>2. readable \in SUBSET kept /\ kept \in SUBSET Index[v] /\ r.room \in Nat /\ r.room # 0
    BY DEF Unrepeated
  <1>3. /\ given \in SUBSET readable
        /\ given # readable => Cardinality(given) = r.room
        /\ \A d \in given, e \in readable \ given : Before(q, d, e)
    <2>1. readable \in SUBSET Index[v]
      BY <1>2
    <2>2. ASSUME NEW n \in Nat
          PROVE  LET best == Best(q, n, readable)
                 IN  /\ best \in SUBSET readable
                     /\ best # readable => Cardinality(best) = n
                     /\ \A d \in best, e \in readable \ best : Before(q, d, e)
      <3> HIDE DEF readable
      <3>1. PICK docs \in SUBSET Index[v] : docs = readable
        BY <2>1
      <3>2. LET best == Best(q, n, docs)
            IN  /\ best \in SUBSET docs
                /\ best # docs => Cardinality(best) = n
                /\ \A d \in best, e \in docs \ best : Before(q, d, e)
        BY BestOf
      <3> QED
        BY <3>1, <3>2
    <2> HIDE DEF readable
    <2> QED
      BY <1>2, <2>2
  <1>4. given # readable => given # {}
    <2>1. given = {} => Cardinality(given) = 0
      BY FS_EmptySet
    <2> HIDE DEF given
    <2> QED
      BY <2>1, <1>2, <1>3
  <1>5. taken \in SUBSET hits /\ \A d \in taken : d.book \in r.scope
    BY <1>2, <1>3
  <1>6. Pages(given) \cap Unreadable = {}
    BY <1>2, <1>3 DEF Pages
  <1>7. ASSUME NEW d \in given, NEW e \in given, Page(d) = Page(e) PROVE d = e
    <2>1. d \in readable /\ e \in readable /\ d \in Index[v] /\ e \in Index[v]
      BY <1>2, <1>3
    <2>2. ~Before(q, d, e) /\ ~Before(q, e, d)
      BY <1>7, <2>1 DEF Unrepeated
    <2> QED
      BY <2>1, <2>2, IndexFacts
  <1>8. ASSUME NEW d \in kept
        PROVE  \E e \in readable : Page(e) = Page(d) /\ (e = d \/ Before(q, e, d))
    <2> DEFINE same == {e \in kept : Page(e) = Page(d)}
    <2>1. same \in SUBSET Index[v] /\ same # {}
      BY <1>2
    <2>2. PICK e \in same : \A f \in same : f = e \/ Before(q, e, f)
      <3> HIDE DEF same
      <3> QED
        BY <2>1, WorstOf
    <2>3. ASSUME NEW f \in kept, Page(f) = Page(e) PROVE ~Before(q, f, e)
      <3>1. f \in same /\ f \in Index[v] /\ e \in Index[v]
        BY <1>2, <2>1, <2>3
      <3>2. f = e \/ Before(q, e, f)
        BY <3>1, <2>2
      <3> QED
        BY <3>1, <3>2, IndexFacts
    <2>4. e \in readable
      BY <2>3 DEF Unrepeated
    <2>5. e = d \/ Before(q, e, d)
      BY <2>2
    <2> QED
      BY <2>4, <2>5
  <1>9. ASSUME NEW d \in hits, d.book \in r.scope,
               given # readable => d = worst \/ Before(q, d, worst)
        PROVE  Page(d) \in Pages(taken)
    <2>1. ASSUME NEW e \in readable \ given PROVE Before(q, d, e)
      <3>1. taken # {} /\ taken \in SUBSET Index[v]
        BY <1>4, <1>5, <2>1
      <3>2. worst \in taken
        <4> HIDE DEF taken
        <4> QED
          BY <3>1, WorstOf
      <3>3. Before(q, worst, e)
        BY <3>2, <1>3
      <3>4. d = worst \/ Before(q, d, worst)
        BY <1>9, <2>1
      <3>5. d \in Index[v] /\ e \in Index[v] /\ worst \in Index[v]
        BY <3>1, <3>2, <1>2
      <3> HIDE DEF worst
      <3> QED
        BY <3>3, <3>4, <3>5, IndexFacts
    <2>2. CASE d \in lost
      BY <2>1, <2>2 DEF Pages
    <2>3. CASE d \notin lost
      <3>1. d \in kept
        BY <2>3, <1>9
      <3>2. PICK e \in readable : Page(e) = Page(d) /\ (e = d \/ Before(q, e, d))
        BY <3>1, <1>8
      <3>3. e \in given
        <4> SUFFICES ASSUME e \notin given PROVE FALSE
          OBVIOUS
        <4>1. Before(q, d, e) /\ d \in Index[v] /\ e \in Index[v]
          BY <2>1, <3>1, <1>2
        <4> QED
          BY <4>1, <3>2, IndexFacts
      <3>4. e \in taken
        BY <3>3
      <3> HIDE DEF taken
      <3> QED
        BY <3>2, <3>4 DEF Pages
    <2> QED
      BY <2>2, <2>3
  <1>10. given # readable => taken # {}
    BY <1>4
  <1>11. /\ taken = Consume(r, hits).given \cup Consume(r, hits).lost
         /\ given = Consume(r, hits).given
         /\ (given # readable) = Consume(r, hits).cut
    BY <1>1
  <1> HIDE DEF given, reached, readable, taken
  <1> QED
    BY <1>0, <1>5, <1>6, <1>7, <1>9, <1>10, <1>11 DEF Consumed, UpTo

-----------------------------------------------------------------------------
(* What a batch is made of: a query, downloaded books, a limit and a budget.*)
Batched(r) ==
    /\ r.q \in Queries /\ r.scope \in SUBSET Nat
    /\ r.limit \in Nat \ {0} /\ r.room \in Nat \ {0}

(* Where a batch begins.                                                    *)
Place(cursor) == IF cursor = NoCursor THEN Start ELSE cursor.after

(* Everything of a set has been given or passed over.                       *)
Told(docs, given, lost) == \A d \in docs : Page(d) \in Pages(ToSet(given) \cup lost)

(* Documents of W in order, none of them unreadable, and others lost.       *)
Orderly(q, W, w, lost) ==
    /\ w \in Seq(W) /\ lost \in SUBSET W
    /\ Pages(ToSet(w)) \cap Unreadable = {}
    /\ \A m, n \in 1..Len(w) : m < n => Before(q, w[m], w[n])

(* A walk over W has come to k.                                             *)
CameTo(q, W, w, lost, k) ==
    /\ \A d \in ToSet(w) : UpTo(q, d, k)
    /\ Told({d \in W : UpTo(q, d, k)}, w, lost)

(* A batch goes on where it begins. It leaves nothing out up to the place   *)
(* where the next one resumes; without a next one, nothing at all.          *)
GoesOn(v, r, cursor) ==
    LET b == RunBatchedSearch(v, r, cursor)
        place == Place(cursor)
        left == SearchAfter(r.q, Sought(v, r.q, r.scope), place)
    IN  /\ Orderly(r.q, left, b.given, b.lost)
        /\ \A m, n \in 1..Len(b.given) : Page(b.given[m]) = Page(b.given[n]) => m = n
        /\ ~b.more => b.next = NoCursor
        /\ ~b.more /\ Tidy(v) => Told(left, b.given, b.lost)
        /\ b.more =>
              /\ \E k \in SearchAfter(r.q, Matching(v, r.q), place) :
                    b.next.after = Key(r.q, k) /\ CameTo(r.q, left, b.given, b.lost, k)
              /\ b.next # NoCursor
              /\ b.next.fp = Fingerprint(v, r.scope) /\ b.next.qh = r.q
              /\ b.next.total = b.total
              /\ b.next.delivered =
                    (IF cursor = NoCursor THEN 0 ELSE cursor.delivered) + Len(b.given)
        /\ b.exact /\ r.scope # {} => Pushed[v]
        /\ Pushed[v] /\ r.scope # {} /\ Tidy(v) /\ cursor = NoCursor =>
              b.total = Cardinality(Sought(v, r.q, r.scope))
        /\ cursor # NoCursor => b.total = cursor.total

(* A batch of a search is a page of results (PageOf) taken by the loop over *)
(* its hits (ConsumeOf).                                                    *)
LEMMA BatchOf ==
    ASSUME NEW v \in 1..Len(Index), NEW r, Batched(r), NEW cursor
    PROVE  GoesOn(v, r, cursor)
  <1>0. PICK q \in Queries, scope \in SUBSET Nat, limit \in Nat \ {0} :
               q = r.q /\ scope = r.scope /\ limit = r.limit
    BY DEF Batched
  <1> DEFINE place == Place(cursor)
             sought == Sought(v, q, scope)
             left == SearchAfter(q, sought, place)
             found == SearchPages(v, q, scope, limit, place)
             took == Consume(r, found.hits)
             taken == took.given \cup took.lost
             more == found.more \/ took.cut
             last == Worst(q, IF took.cut THEN taken ELSE found.hits)
             b == RunBatchedSearch(v, r, cursor)
  <1>1. /\ found.hits \in SUBSET SearchAfter(q, Matching(v, q), place)
        /\ \A d \in found.hits : d.id = "page"
        /\ \A d \in found.hits, e \in left \ found.hits : Before(q, d, e)
        /\ found.more => found.hits # {}
        /\ ~found.more /\ Tidy(v) => left \subseteq found.hits
        /\ found.exact /\ scope # {} => Pushed[v]
        /\ Pushed[v] /\ scope # {} /\ Tidy(v) => found.total = Cardinality(sought)
    <2> HIDE DEF place
    <2> QED
      BY PageOf
  <1>2. found.hits \in SUBSET Index[v]
    BY <1>1 DEF SearchAfter, Matching
  <1>3. /\ taken \in SUBSET found.hits
        /\ \A d \in taken : d.book \in scope
        /\ Pages(took.given) \cap Unreadable = {}
        /\ \A d, e \in took.given : Page(d) = Page(e) => d = e
        /\ took.cut => taken # {}
        /\ \A d \in found.hits :
              /\ d.book \in scope
              /\ took.cut => UpTo(q, d, Worst(q, taken))
              => Page(d) \in Pages(taken)
    <2>1. r.q \in Queries /\ r.room \in Nat \ {0}
      BY DEF Batched
    <2>2. Consumed(r, found.hits)
      <3> HIDE DEF found
      <3> QED
        BY <1>2, <2>1, ConsumeOf
    <2> HIDE DEF found
    <2> QED
      BY <1>0, <2>2 DEF Consumed
  <1>4. /\ b.given = Ranked(q, took.given) /\ b.lost = took.lost /\ b.more = more
        /\ b.total = Total(cursor, found) /\ b.exact = found.exact
        /\ ~more => b.next = NoCursor
        /\ more => /\ b.next # NoCursor
                   /\ b.next.fp = Fingerprint(v, scope) /\ b.next.qh = q
                   /\ b.next.after = Key(q, last)
                   /\ b.next.total = b.total
                   /\ b.next.delivered = Delivered(cursor, took.given)
    <2> DEFINE next == [fp |-> Fingerprint(v, scope), qh |-> q, after |-> Key(q, last),
                        delivered |-> Delivered(cursor, took.given),
                        total |-> Total(cursor, found)]
    <2>1. b = [given |-> Ranked(q, took.given), lost |-> took.lost, more |-> more,
               total |-> Total(cursor, found), exact |-> found.exact,
               next |-> IF ~more THEN NoCursor ELSE next]
      BY <1>0 DEF RunBatchedSearch, Place, ResumeAfter
    <2>2. next # NoCursor
      <3>1. "fp" \in DOMAIN next /\ "fp" \notin DOMAIN NoCursor
        BY DEF NoCursor
      <3> QED
        BY <3>1
    <2> HIDE DEF b, found, took, more
    <2> QED
      BY <2>1, <2>2
  <1>5. /\ b.given \in Seq(took.given) /\ Len(b.given) = Cardinality(took.given)
        /\ ToSet(b.given) = took.given
        /\ \A m, n \in 1..Len(b.given) : m < n => Before(q, b.given[m], b.given[n])
    <2>1. took.given \in SUBSET Index[v]
      BY <1>2, <1>3
    <2> DEFINE given == took.given
    <2> HIDE DEF given, b
    <2> QED
      BY <1>4, <2>1, RankedOf DEF given
  <1>6. taken \in SUBSET left /\ \A d \in left : d \in Index[v] /\ d.book \in scope
    BY <1>1, <1>3 DEF SearchAfter, Sought, Matching
  <1>7. ASSUME NEW m \in 1..Len(b.given), NEW n \in 1..Len(b.given),
               Page(b.given[m]) = Page(b.given[n])
        PROVE  m = n
    <2>1. b.given[m] \in took.given /\ b.given[n] \in took.given
      BY <1>5
    <2>2. b.given[m] = b.given[n] /\ b.given[m] \in Index[v]
      BY <1>2, <1>3, <1>7, <2>1
    <2>3. ~Before(q, b.given[m], b.given[n]) /\ ~Before(q, b.given[n], b.given[m])
      BY <2>2, IndexFacts
    <2>4. Len(b.given) \in Nat
      BY <1>5
    <2> HIDE DEF b
    <2> QED
      BY <1>5, <2>3, <2>4
  <1>8. ASSUME ~more, Tidy(v), NEW d \in left PROVE Page(d) \in Pages(taken)
    <2>1. d \in found.hits /\ ~took.cut /\ d.book \in scope
      BY <1>1, <1>6, <1>8
    <2> HIDE DEF found, took
    <2> QED
      BY <1>3, <2>1
  <1>9. ASSUME more
        PROVE  /\ last \in SearchAfter(q, Matching(v, q), place)
               /\ \A d \in taken : UpTo(q, d, last)
               /\ \A d \in left : UpTo(q, d, last) => Page(d) \in Pages(taken)
    <2> DEFINE S == IF took.cut THEN taken ELSE found.hits
    <2>1. S \in SUBSET Index[v] /\ S # {} /\ taken \subseteq S /\ S \subseteq found.hits
      BY <1>1, <1>2, <1>3, <1>9
    <2>2. last \in S /\ \A d \in S : UpTo(q, d, last)
      <3>1. last = Worst(q, S)
        OBVIOUS
      <3> HIDE DEF S, last
      <3> QED
        BY <2>1, <3>1, WorstOf DEF UpTo
    <2>3. ASSUME NEW d \in left, UpTo(q, d, last) PROVE Page(d) \in Pages(taken)
      <3>1. d \in Index[v] /\ last \in Index[v] /\ last \in found.hits /\ d.book \in scope
        BY <1>6, <2>1, <2>2
      <3>2. d \in found.hits
        <4> SUFFICES ASSUME d \notin found.hits PROVE FALSE
          OBVIOUS
        <4>1. Before(q, last, d)
          BY <1>1, <3>1
        <4> HIDE DEF last, left
        <4> QED
          BY <2>3, <3>1, <4>1, IndexFacts DEF UpTo
      <3>3. took.cut => UpTo(q, d, Worst(q, taken))
        BY <2>3
      <3> HIDE DEF found, took
      <3> QED
        BY <1>3, <3>1, <3>2, <3>3
    <2> HIDE DEF last, left, taken
    <2> QED
      BY <1>1, <2>1, <2>2, <2>3
  <1>10. /\ ToSet(b.given) \cup b.lost = taken
         /\ Pages(ToSet(b.given)) \cap Unreadable = {}
         /\ b.given \in Seq(left) /\ b.lost \in SUBSET left
    <2>1. took.given \in SUBSET left /\ took.lost \in SUBSET left
      BY <1>6
    <2> HIDE DEF b, took, left
    <2> QED
      BY <1>3, <1>4, <1>5, <2>1
  <1>11. /\ cursor = NoCursor => b.total = found.total
         /\ cursor # NoCursor => b.total = cursor.total
         /\ more => b.next.delivered =
               (IF cursor = NoCursor THEN 0 ELSE cursor.delivered) + Len(b.given)
    BY <1>4, <1>5 DEF Total, Delivered
  <1> HIDE DEF b, took, found, left, taken, last, more, sought
  <1>12. /\ ~b.more /\ Tidy(v) => Told(left, b.given, b.lost)
         /\ b.more => \E k \in SearchAfter(q, Matching(v, q), place) :
               b.next.after = Key(q, k) /\ CameTo(q, left, b.given, b.lost, k)
    BY <1>4, <1>8, <1>9, <1>10 DEF Told, CameTo
  <1>13. /\ b.exact /\ scope # {} => Pushed[v]
         /\ Pushed[v] /\ scope # {} /\ Tidy(v) /\ cursor = NoCursor =>
               b.total = Cardinality(sought)
    BY <1>1, <1>4, <1>11
  <1> QED
    BY <1>0, <1>4, <1>5, <1>7, <1>10, <1>11, <1>12, <1>13
    DEF GoesOn, Orderly, b, left, sought

-----------------------------------------------------------------------------
(* The books of some documents.                                             *)
LEMMA BooksOf ==
    ASSUME NEW v \in 1..Len(Index), NEW q \in Queries, NEW docs \in SUBSET Index[v]
    PROVE  /\ IsFiniteSet({d.book : d \in docs}) /\ {d.book : d \in docs} \in SUBSET Nat
           /\ \A b : HitsOf(docs, b) \in Nat /\ (HitsOf(docs, b) > 0 <=> b \in {d.book : d \in docs})
  <1> DEFINE books == {d.book : d \in docs}
             f == [d \in docs |-> d.book]
  <1>1. IsFiniteSet(docs) /\ \A d \in docs : d.book \in Nat
    BY IndexFacts, FS_Subset
  <1>2. f \in Surjection(docs, books)
    BY DEF Surjection
  <1>3. IsFiniteSet(books)
    <2> HIDE DEF f, books
    <2> QED
      BY <1>1, <1>2, FS_Surjection
  <1>4. ASSUME NEW b PROVE HitsOf(docs, b) \in Nat /\ (HitsOf(docs, b) > 0 <=> b \in books)
    <2> DEFINE of == {d \in docs : d.book = b}
    <2>1. IsFiniteSet(of)
      BY <1>1, FS_Subset
    <2>2. Cardinality(of) \in Nat /\ (Cardinality(of) = 0 <=> of = {})
      <3> HIDE DEF of
      <3> QED
        BY <2>1, FS_CardinalityType, FS_EmptySet
    <2>3. of # {} <=> b \in books
      OBVIOUS
    <2>4. HitsOf(docs, b) = Cardinality(of)
      BY DEF HitsOf
    <2> HIDE DEF of, books
    <2> QED
      BY <2>2, <2>3, <2>4
  <1> QED
    BY <1>1, <1>3, <1>4

(* The order of the listing, if no two books have the same place.           *)
LEMMA HitsOrder ==
    ASSUME NEW books, NEW hits \in [books -> Nat], NEW place \in [books -> Nat],
           \A a, b \in books : place[a] = place[b] => a = b,
           NEW some \in SUBSET books
    PROVE  /\ StrictOrder(ByHits(hits, place), some)
           /\ \A a, b \in some : <<a, b>> \in ByHits(hits, place) => hits[a] >= hits[b]
  <1> DEFINE R == ByHits(hits, place)
  <1>1. ASSUME NEW a \in books, NEW b \in books
        PROVE  <<a, b>> \in R <=> \/ hits[a] > hits[b]
                                  \/ hits[a] = hits[b] /\ place[a] < place[b]
    BY DEF ByHits
  <1>2. \A a \in books : hits[a] \in Nat /\ place[a] \in Nat
    OBVIOUS
  <1> HIDE DEF R
  <1>3. StrictOrder(R, books)
    BY <1>1, <1>2 DEF StrictOrder
  <1>4. StrictOrder(R, some)
    BY <1>3, OrderOfSome
  <1>5. \A a, b \in some : <<a, b>> \in R => hits[a] >= hits[b]
    BY <1>1, <1>2
  <1> QED
    BY <1>4, <1>5 DEF R

(* The counts are of the books that match, in an order of their hits; if    *)
(* they were not cut short, they are those of the documents sought.         *)
Counted(v, q, scope) ==
    LET counted == CountsByBook(v, q, scope)
        books == DOMAIN counted.hits \cap scope
        sought == Sought(v, q, scope)
    IN  /\ IsFiniteSet(books)
        /\ \A b \in books : counted.hits[b] \in Nat
        /\ StrictOrder(counted.order, books)
        /\ \A a, b \in books : <<a, b>> \in counted.order => counted.hits[a] >= counted.hits[b]
        /\ ~counted.truncated /\ Tidy(v) =>
              /\ books = {d.book : d \in sought}
              /\ \A b \in books : counted.hits[b] = HitsOf(sought, b)

(* Counting book by book.                                                   *)
LEMMA EachOf ==
    ASSUME NEW v \in 1..Len(Index), NEW q \in Queries, NEW scope \in SUBSET Nat,
           Pushed[v], scope # {}
    PROVE  Counted(v, q, scope)
  <1> DEFINE docs == Matching(v, q)
             sought == Sought(v, q, scope)
             books == {b \in scope : HitsOf(docs, b) > 0}
             hits == [b \in books |-> HitsOf(docs, b)]
             place == [b \in books |-> b]
             counted == CountsByBook(v, q, scope)
  <1>1. counted.hits = hits /\ counted.order = ByHits(hits, place) /\ ~counted.truncated
    <2>1. counted = [hits |-> hits, order |-> ByHits(hits, place), truncated |-> FALSE]
      BY DEF CountsByBook, CountEach
    <2> HIDE DEF hits, place
    <2> QED
      BY <2>1
  <1>2. docs \in SUBSET Index[v] /\ sought \in SUBSET docs
    BY DEF Matching, Sought
  <1>3. /\ IsFiniteSet({d.book : d \in docs})
        /\ \A b : HitsOf(docs, b) \in Nat /\ (HitsOf(docs, b) > 0 <=> b \in {d.book : d \in docs})
    <2> HIDE DEF docs
    <2> QED
      BY <1>2, BooksOf
  <1>4. IsFiniteSet(books) /\ books \in SUBSET scope /\ DOMAIN hits \cap scope = books
    <2>1. books \in SUBSET {d.book : d \in docs}
      BY <1>3
    <2>2. IsFiniteSet(books)
      <3> HIDE DEF books, docs
      <3> QED
        BY <1>3, <2>1, FS_Subset
    <2> QED
      BY <2>2
  <1>5. /\ StrictOrder(ByHits(hits, place), books)
        /\ \A a, b \in books : <<a, b>> \in ByHits(hits, place) => hits[a] >= hits[b]
    <2>1. hits \in [books -> Nat] /\ place \in [books -> Nat]
      BY <1>3, <1>4
    <2>2. \A a, b \in books : place[a] = place[b] => a = b
      OBVIOUS
    <2> HIDE DEF hits, place, books
    <2> QED
      BY <2>1, <2>2, HitsOrder
  <1>6. ASSUME Tidy(v)
        PROVE  books = {d.book : d \in sought} /\ \A b \in books : hits[b] = HitsOf(sought, b)
    <2>1. sought = {d \in docs : d.book \in scope}
      BY <1>2, <1>6 DEF Tidy, Sought
    <2>2. books = {d.book : d \in sought}
      BY <1>3, <2>1
    <2>3. ASSUME NEW b \in books PROVE hits[b] = HitsOf(sought, b)
      <3>1. {d \in docs : d.book = b} = {d \in sought : d.book = b}
        BY <2>1
      <3> QED
        BY <3>1 DEF HitsOf
    <2> QED
      BY <2>2, <2>3
  <1>7. \A b \in books : hits[b] \in Nat
    BY <1>3
  <1> HIDE DEF books, hits, place, sought, docs
  <1> QED
    BY <1>1, <1>4, <1>5, <1>6, <1>7 DEF Counted, sought

(* Grouping the matches that are walked.                                    *)
LEMMA WalkingOf ==
    ASSUME NEW v \in 1..Len(Index), NEW q \in Queries, NEW scope \in SUBSET Nat,
           ~(Pushed[v] /\ scope # {})
    PROVE  Counted(v, q, scope)
  <1> DEFINE docs == Matching(v, q)
             R == ByRank(q, docs)
             sought == Sought(v, q, scope)
             walked == {d \in Best(q, WalkLimit, docs) : d.id = "page" /\ InScope(d, scope)}
             Of(b) == {d \in walked : d.book = b}
             ranks(b) == {Rank(R, docs, d) : d \in Of(b)}
             all == {d.book : d \in walked}
             hits == [b \in all |-> HitsOf(walked, b)]
             place == [b \in all |-> Min(ranks(b))]
             counted == CountsByBook(v, q, scope)
             books == all \cap scope
  <1>1. /\ counted.hits = hits /\ counted.order = ByHits(hits, place)
        /\ counted.truncated = (Cardinality(docs) >= WalkLimit)
    <2>1. counted = [hits |-> hits, order |-> ByHits(hits, place),
                     truncated |-> Cardinality(docs) >= WalkLimit]
      BY DEF CountsByBook, CountByWalking
    <2> HIDE DEF hits, place, counted
    <2> QED
      BY <2>1
  <1>2. docs \in SUBSET Index[v] /\ WalkLimit \in Nat
    BY IndexAssumption DEF Matching, IndexAssumption
  <1>3. /\ Best(q, WalkLimit, docs) \in SUBSET docs
        /\ Cardinality(docs) <= WalkLimit => Best(q, WalkLimit, docs) = docs
    <2> HIDE DEF docs
    <2> QED
      BY <1>2, BestOf
  <1>4. walked \in SUBSET docs /\ walked \in SUBSET Index[v]
    BY <1>2, <1>3
  <1>5. /\ IsFiniteSet(all)
        /\ \A b : HitsOf(walked, b) \in Nat
    <2> HIDE DEF walked
    <2> QED
      BY <1>4, BooksOf
  <1>6. IsFiniteSet(books) /\ books \in SUBSET all
    <2> HIDE DEF all
    <2> QED
      BY <1>5, FS_Subset
  <1>7. StrictOrder(R, docs) /\ IsFiniteSet(docs)
    <2> HIDE DEF docs
    <2> QED
      BY <1>2, RankOrders
  <1>8. \A d \in docs : Rank(R, docs, d) \in Nat
    <2> HIDE DEF docs, R
    <2> QED
      BY <1>7, RankRises
  <1>9. ASSUME NEW b \in all
        PROVE  place[b] \in Nat /\ \E d \in walked : d.book = b /\ place[b] = Rank(R, docs, d)
    <2>1. ranks(b) \in SUBSET Nat /\ ranks(b) # {}
      BY <1>4, <1>8
    <2>2. Min(ranks(b)) \in ranks(b)
      <3> HIDE DEF ranks
      <3> QED
        BY <2>1, LeastOf
    <2> QED
      BY <2>1, <2>2
  <1>10. ASSUME NEW a \in all, NEW b \in all, place[a] = place[b] PROVE a = b
    <2>1. PICK d \in walked : d.book = a /\ place[a] = Rank(R, docs, d)
      BY <1>9
    <2>2. PICK e \in walked : e.book = b /\ place[b] = Rank(R, docs, e)
      BY <1>9
    <2>3. d \in docs /\ e \in docs /\ Rank(R, docs, d) = Rank(R, docs, e)
      BY <1>4, <1>10, <2>1, <2>2
    <2>4. d = e
      <3> HIDE DEF docs, R
      <3> QED
        BY <1>7, <2>3, RankOnce
    <2> QED
      BY <2>1, <2>2, <2>4
  <1>11. /\ StrictOrder(ByHits(hits, place), books)
         /\ \A a, b \in books : <<a, b>> \in ByHits(hits, place) => hits[a] >= hits[b]
    <2>1. hits \in [all -> Nat] /\ place \in [all -> Nat]
      <3>1. \A b \in all : HitsOf(walked, b) \in Nat
        BY <1>5
      <3> HIDE DEF walked, all
      <3>2. hits \in [all -> Nat]
        BY <3>1
      <3>3. place \in [all -> Nat]
        <4>1. place = [b \in all |-> place[b]]
          OBVIOUS
        <4> HIDE DEF place
        <4> QED
          BY <1>9, <4>1
      <3> QED
        BY <3>2, <3>3
    <2> HIDE DEF hits, place, all, books
    <2> QED
      BY <1>6, <1>10, <2>1, HitsOrder
  <1>12. ASSUME ~counted.truncated
         PROVE  books = {d.book : d \in sought} /\ \A b \in books : hits[b] = HitsOf(sought, b)
    <2>1. Cardinality(docs) \in Nat
      <3> HIDE DEF docs
      <3> QED
        BY <1>7, FS_CardinalityType
    <2>2. Best(q, WalkLimit, docs) = docs
      <3>1. ~(Cardinality(docs) >= WalkLimit)
        BY <1>1, <1>12
      <3> HIDE DEF docs
      <3> QED
        BY <1>2, <1>3, <2>1, <3>1
    <2>3. CASE scope = {}
      BY <2>3 DEF Sought
    <2>4. CASE scope # {}
      <3>1. walked = sought
        BY <2>2, <2>4 DEF InScope, Sought
      <3>2. \A d \in walked : d.book \in scope
        BY <3>1 DEF Sought
      <3>3. books = {d.book : d \in walked}
        BY <3>2
      <3> HIDE DEF walked, sought
      <3> QED
        BY <3>1, <3>3
    <2> QED
      BY <2>3, <2>4
  <1>13. \A b \in books : hits[b] \in Nat
    BY <1>5, <1>6
  <1>14. DOMAIN hits = all
    OBVIOUS
  <1> HIDE DEF hits, place, sought, docs, all, counted
  <1> QED
    BY <1>1, <1>6, <1>11, <1>12, <1>13, <1>14 DEF Counted, sought, counted

(* Either way of counting.                                                  *)
LEMMA CountsOf ==
    ASSUME NEW v \in 1..Len(Index), NEW q \in Queries, NEW scope \in SUBSET Nat
    PROVE  Counted(v, q, scope)
  BY EachOf, WalkingOf

(* The hits of all books together are the documents, each counted once: by  *)
(* its book, and its rank among the documents of that book.                 *)
LEMMA TotalOf ==
    ASSUME NEW v \in 1..Len(Index), NEW q \in Queries, NEW docs \in SUBSET Index[v],
           NEW hits, \A b \in {d.book : d \in docs} : hits[b] = HitsOf(docs, b)
    PROVE  HitsTogether(hits, {d.book : d \in docs}) = Cardinality(docs)
  <1> DEFINE books == {d.book : d \in docs}
             Of(b) == {d \in docs : d.book = b}
             N(b, d) == Rank(ByRank(q, Of(b)), Of(b), d)
             pairs == UNION {{b} \X (1..hits[b]) : b \in books}
             f == [d \in docs |-> <<d.book, N(d.book, d) + 1>>]
  <1>1. ASSUME NEW b \in books
        PROVE  /\ hits[b] = Cardinality(Of(b)) /\ hits[b] \in Nat
               /\ \A d \in Of(b) : N(b, d) \in Nat /\ N(b, d) < hits[b]
               /\ \A d, e \in Of(b) : N(b, d) = N(b, e) => d = e
               /\ \A n \in 0..(hits[b] - 1) : \E d \in Of(b) : N(b, d) = n
    <2> DEFINE of == Of(b)
               R == ByRank(q, of)
    <2>1. of \in SUBSET Index[v]
      OBVIOUS
    <2>2. hits[b] = Cardinality(of)
      BY DEF HitsOf
    <2>3. StrictOrder(R, of) /\ IsFiniteSet(of)
      <3> HIDE DEF of
      <3> QED
        BY <2>1, RankOrders
    <2>4. /\ Cardinality(of) \in Nat
          /\ \A d \in of : Rank(R, of, d) \in Nat /\ Rank(R, of, d) < Cardinality(of)
          /\ \A d, e \in of : Rank(R, of, d) = Rank(R, of, e) => d = e
          /\ \A n \in 0..(Cardinality(of) - 1) : \E d \in of : Rank(R, of, d) = n
      <3> HIDE DEF of, R
      <3>1. Cardinality(of) \in Nat
        BY <2>3, FS_CardinalityType
      <3>2. \A d \in of : Rank(R, of, d) \in Nat /\ Rank(R, of, d) < Cardinality(of)
        BY <2>3, RankRises
      <3>3. \A d, e \in of : Rank(R, of, d) = Rank(R, of, e) => d = e
        BY <2>3, RankOnce
      <3>4. \A n \in 0..(Cardinality(of) - 1) : \E d \in of : Rank(R, of, d) = n
        BY <2>3, RankTaken
      <3> QED
        BY <3>1, <3>2, <3>3, <3>4
    <2>5. \A d : N(b, d) = Rank(R, of, d)
      OBVIOUS
    <2> HIDE DEF N, R, Of
    <2> QED
      BY <2>2, <2>4, <2>5
  <1>2. ASSUME NEW d \in docs PROVE f[d] \in pairs
    <2>1. d.book \in books /\ d \in Of(d.book)
      OBVIOUS
    <2> HIDE DEF N, Of, books
    <2>2. \A b \in books : d \in Of(b) => <<b, N(b, d) + 1>> \in {b} \X (1..hits[b])
      BY <1>1
    <2>3. f[d] = <<d.book, N(d.book, d) + 1>>
      OBVIOUS
    <2> QED
      BY <2>1, <2>2, <2>3
  <1>3. ASSUME NEW d \in docs, NEW e \in docs, f[d] = f[e] PROVE d = e
    <2>1. d.book \in books /\ d \in Of(d.book) /\ e \in Of(e.book)
      OBVIOUS
    <2> HIDE DEF N, Of, books
    <2>2. f[d] = <<d.book, N(d.book, d) + 1>> /\ f[e] = <<e.book, N(e.book, e) + 1>>
      OBVIOUS
    <2>3. d.book = e.book /\ N(d.book, d) + 1 = N(e.book, e) + 1
      BY <1>3, <2>2
    <2>4. N(d.book, d) \in Nat /\ N(e.book, e) \in Nat
      BY <1>1, <2>1, <2>3
    <2>5. N(d.book, d) = N(d.book, e)
      BY <2>3, <2>4
    <2> QED
      BY <1>1, <2>1, <2>3, <2>5
  <1>4. ASSUME NEW p \in pairs PROVE \E d \in docs : f[d] = p
    <2>1. PICK b \in books : p \in {b} \X (1..hits[b])
      OBVIOUS
    <2>2. p = <<b, p[2]>> /\ p[2] \in 1..hits[b]
      BY <2>1
    <2>3. \E d \in Of(b) : N(b, d) = p[2] - 1
      <3>1. hits[b] \in Nat /\ p[2] - 1 \in 0..(hits[b] - 1)
        <4> HIDE DEF N, Of, books, pairs
        <4> QED
          BY <1>1, <2>2
      <3> HIDE DEF N, Of, books, pairs
      <3> QED
        BY <1>1, <3>1
    <2>4. PICK d \in Of(b) : N(b, d) = p[2] - 1
      BY <2>3
    <2>5. d \in docs /\ d.book = b
      OBVIOUS
    <2>6. p[2] \in Int
      BY <1>1, <2>2
    <2> HIDE DEF N, Of, books, pairs
    <2>7. f[d] = <<b, N(b, d) + 1>>
      BY <2>5
    <2> QED
      BY <2>2, <2>4, <2>5, <2>6, <2>7
  <1>5. f \in Bijection(docs, pairs)
    <2>1. f \in [docs -> pairs]
      <3> HIDE DEF pairs, N
      <3> QED
        BY <1>2
    <2> HIDE DEF f, pairs
    <2> QED
      BY <1>3, <1>4, <2>1 DEF Bijection, Injection, Surjection, IsInjective
  <1>6. IsFiniteSet(docs)
    BY IndexFacts, FS_Subset
  <1>7. HitsTogether(hits, books) = Cardinality(pairs)
    BY DEF HitsTogether
  <1> HIDE DEF f, pairs, books
  <1> QED
    BY <1>5, <1>6, <1>7, FS_Bijection DEF ExistsBijection, books

-----------------------------------------------------------------------------
(* The entries of a list of books.                                          *)
Entries == [book : Nat, hits : Nat]

(* The whole list of books, of which each call gives a slice.               *)
Listing(v, q, scope) ==
    LET counted == CountsByBook(v, q, scope)
        order == Ordered(counted.order, DOMAIN counted.hits \cap scope)
    IN  [n \in DOMAIN order |-> [book |-> order[n], hits |-> counted.hits[order[n]]]]

(* Each book once, most hits first; all that match, and all their hits.     *)
ListedRight(v, q, scope) ==
    LET counted == CountsByBook(v, q, scope)
        books == DOMAIN counted.hits \cap scope
        list == Listing(v, q, scope)
        sought == Sought(v, q, scope)
    IN  /\ list \in Seq(Entries)
        /\ \A m, n \in 1..Len(list) :
              m < n => list[m].book # list[n].book /\ list[m].hits >= list[n].hits
        /\ ~counted.truncated /\ Tidy(v) =>
              /\ {list[n].book : n \in 1..Len(list)} = {d.book : d \in sought}
              /\ HitsTogether(counted.hits, books) = Cardinality(sought)

(* The list of books is right, by the order of their counts.                *)
LEMMA ListingOf ==
    ASSUME NEW v \in 1..Len(Index), NEW q \in Queries, NEW scope \in SUBSET Nat
    PROVE  ListedRight(v, q, scope)
  <1> DEFINE counted == CountsByBook(v, q, scope)
             books == DOMAIN counted.hits \cap scope
             R == counted.order
             order == Ordered(R, books)
             size == Cardinality(books)
             list == Listing(v, q, scope)
             sought == Sought(v, q, scope)
  <1>1. /\ IsFiniteSet(books)
        /\ \A b \in books : counted.hits[b] \in Nat
        /\ StrictOrder(R, books)
        /\ \A a, b \in books : <<a, b>> \in R => counted.hits[a] >= counted.hits[b]
        /\ ~counted.truncated /\ Tidy(v) =>
              /\ books = {d.book : d \in sought}
              /\ \A b \in books : counted.hits[b] = HitsOf(sought, b)
    BY CountsOf DEF Counted
  <1>2. /\ size \in Nat
        /\ order \in [1..size -> books]
        /\ \A m, n \in 1..size : m < n => <<order[m], order[n]>> \in R
        /\ \A b \in books : \E n \in 1..size : order[n] = b
    <2> HIDE DEF books, R
    <2> QED
      BY <1>1, OrderedSorts
  <1>3. books \in SUBSET Nat
    OBVIOUS
  <1> DEFINE hits == counted.hits
  <1>4. list = [n \in 1..size |-> [book |-> order[n], hits |-> hits[order[n]]]]
    <2>1. list = [n \in DOMAIN order |-> [book |-> order[n], hits |-> hits[order[n]]]]
      BY DEF Listing
    <2>2. DOMAIN order = 1..size
      BY <1>2
    <2> HIDE DEF order, list, hits, size
    <2> QED
      BY <2>1, <2>2
  <1> HIDE DEF list, order, size, books, R, hits
  <1>5. ASSUME NEW n \in 1..size
        PROVE  order[n] \in books /\ hits[order[n]] \in Nat
    BY <1>1, <1>2 DEF hits
  <1>6. list \in [1..size -> Entries]
    BY <1>3, <1>4, <1>5 DEF Entries
  <1>7. list \in Seq(Entries) /\ Len(list) = size
    BY <1>2, <1>6
  <1>8. \A n \in 1..size : list[n].book = order[n] /\ list[n].hits = hits[order[n]]
    BY <1>4
  <1>9. ASSUME NEW m \in 1..size, NEW n \in 1..size, m < n
        PROVE  list[m].book # list[n].book /\ list[m].hits >= list[n].hits
    <2>1. <<order[m], order[n]>> \in R /\ order[m] \in books /\ order[n] \in books
      BY <1>2, <1>9
    <2>2. order[m] # order[n]
      BY <1>1, <2>1 DEF StrictOrder
    <2>3. hits[order[m]] >= hits[order[n]]
      BY <1>1, <2>1 DEF hits
    <2> QED
      BY <1>8, <2>2, <2>3
  <1>10. {list[n].book : n \in 1..size} = books
    BY <1>2, <1>8
  <1>11. ASSUME ~counted.truncated, Tidy(v)
         PROVE  /\ books = {d.book : d \in sought}
                /\ HitsTogether(hits, books) = Cardinality(sought)
    <2>1. sought \in SUBSET Index[v]
      BY DEF Sought, Matching
    <2>2. books = {d.book : d \in sought} /\ \A b \in books : hits[b] = HitsOf(sought, b)
      BY <1>1, <1>11 DEF hits
    <2> HIDE DEF sought
    <2> QED
      BY <2>1, <2>2, TotalOf
  <1> QED
    BY <1>7, <1>9, <1>10, <1>11 DEF ListedRight, list, books, hits

(* A slice goes on where its cursor says, and as far as its limit allows.   *)
SliceOf(v, r, cursor) ==
    LET b == DiscoverIssue(v, r, cursor)
        list == Listing(v, r.q, r.scope)
        counted == CountsByBook(v, r.q, r.scope)
        start == IF cursor = NoCursor THEN 0 ELSE cursor.after.doc
        reached == start + Len(b.given)
    IN  /\ b.given \in Seq(Entries) /\ b.lost = {}
        /\ reached <= Len(list) \/ b.given = <<>>
        /\ \A n \in 1..Len(b.given) : b.given[n] = list[start + n]
        /\ ~b.more => b.next = NoCursor /\ reached >= Len(list)
        /\ b.more => /\ b.next # NoCursor
                     /\ b.next.fp = Fingerprint(v, r.scope) /\ b.next.qh = r.q
                     /\ b.next.after = [score |-> 0, doc |-> reached]
                     /\ reached > start /\ reached <= Len(list)
        /\ b.total = HitsTogether(counted.hits, DOMAIN counted.hits \cap r.scope)
        /\ b.exact = ~counted.truncated

(* A call of discover_issue gives a slice of the list.                      *)
LEMMA DiscoverOf ==
    ASSUME NEW v \in 1..Len(Index), NEW r, Batched(r),
           NEW cursor, cursor # NoCursor => cursor.after.doc \in Nat
    PROVE  SliceOf(v, r, cursor)
  <1>0. PICK q \in Queries, scope \in SUBSET Nat, limit \in Nat \ {0} :
               q = r.q /\ scope = r.scope /\ limit = r.limit
    BY DEF Batched
  <1> DEFINE b == DiscoverIssue(v, r, cursor)
             list == Listing(v, q, scope)
             size == Len(list)
             counted == CountsByBook(v, q, scope)
             total == HitsTogether(counted.hits, DOMAIN counted.hits \cap scope)
             start == IF cursor = NoCursor THEN 0 ELSE cursor.after.doc
             end == IF start + limit < size THEN start + limit ELSE size
             slice == SubSeq(list, start + 1, end)
             reached == start + Len(slice)
             more == reached < size
             next == [fp |-> Fingerprint(v, scope), qh |-> q,
                      after |-> [score |-> 0, doc |-> reached],
                      delivered |-> reached, total |-> size]
  <1>1. b = [given |-> slice, lost |-> {}, more |-> more, total |-> total,
             exact |-> ~counted.truncated, next |-> IF ~more THEN NoCursor ELSE next]
    BY <1>0 DEF DiscoverIssue, Listing, Reached
  <1>2. list \in Seq(Entries)
    BY ListingOf DEF ListedRight
  <1>3. size \in Nat /\ start \in Nat /\ limit \in Nat \ {0}
    BY <1>2
  <1>4. end \in Nat /\ end <= size
    BY <1>3
  <1>5. next # NoCursor
    <2>1. "fp" \in DOMAIN next /\ "fp" \notin DOMAIN NoCursor
      BY DEF NoCursor
    <2> QED
      BY <2>1
  <1>6. /\ next.fp = Fingerprint(v, scope) /\ next.qh = q
        /\ next.after = [score |-> 0, doc |-> reached]
    OBVIOUS
  <1>7. /\ slice \in Seq(Entries)
        /\ Len(slice) = IF start + 1 <= end THEN end - start ELSE 0
        /\ \A n \in 1..Len(slice) : slice[n] = list[start + n]
    <2>1. \A n \in (start + 1)..end : list[n] \in Entries
      <3> HIDE DEF list, start, end
      <3> QED
        BY <1>2, <1>3, <1>4
    <2> HIDE DEF list, start, end, size
    <2>2. PICK m \in Int : m = start + 1
      BY <1>3
    <2>3. \A n \in m..end : list[n] \in Entries
      BY <2>1, <2>2
    <2>4. /\ SubSeq(list, m, end) \in Seq(Entries)
          /\ Len(SubSeq(list, m, end)) = IF m <= end THEN end - m + 1 ELSE 0
          /\ \A n \in 1..(end - m + 1) : SubSeq(list, m, end)[n] = list[m + n - 1]
      <3>1. end \in Int
        BY <1>4
      <3> QED
        BY <2>3, <3>1, SubSeqProperties
    <2>5. slice = SubSeq(list, m, end)
      BY <2>2
    <2> HIDE DEF slice
    <2>6. Len(slice) = IF start + 1 <= end THEN end - start ELSE 0
      BY <1>3, <1>4, <2>2, <2>4, <2>5
    <2>7. ASSUME NEW n \in 1..Len(slice) PROVE slice[n] = list[start + n]
      <3>1. n \in 1..(end - m + 1) /\ m + n - 1 = start + n
        BY <1>3, <1>4, <2>2, <2>6
      <3> QED
        BY <2>4, <2>5, <3>1
    <2> QED
      BY <2>4, <2>5, <2>6, <2>7
  <1>8. Len(slice) = 0 => slice = <<>>
    <2> HIDE DEF slice
    <2> QED
      BY <1>7
  <1> HIDE DEF slice, next, list, counted, total, b
  <1>9. /\ reached <= size \/ slice = <<>>
        /\ ~more => reached >= size
        /\ more => reached > start /\ reached <= size
    <2>1. Len(slice) \in Nat
      BY <1>7
    <2> HIDE DEF start, size
    <2> QED
      BY <1>3, <1>7, <1>8, <2>1
  <1>10. /\ b.given = slice /\ b.lost = {} /\ b.more = more
         /\ b.total = total /\ b.exact = ~counted.truncated
         /\ ~more => b.next = NoCursor
         /\ more => b.next = next
    <2> HIDE DEF more
    <2> QED
      BY <1>1
  <1> HIDE DEF start, size, more, reached
  <1> QED
    BY <1>0, <1>5, <1>6, <1>7, <1>9, <1>10 DEF SliceOf, b, list, counted, total, start, reached, size

-----------------------------------------------------------------------------
(* A walk that has come to k is continued by what comes after k.            *)
LEMMA WalkGrows ==
    ASSUME NEW v \in 1..Len(Index), NEW q \in Queries, NEW W \in SUBSET Index[v],
           NEW k \in Index[v], NEW w, NEW lost, NEW given, NEW lost2,
           Orderly(q, W, w, lost), CameTo(q, W, w, lost, k),
           Orderly(q, SearchAfter(q, W, Key(q, k)), given, lost2)
    PROVE  LET left == SearchAfter(q, W, Key(q, k))
           IN  /\ Orderly(q, W, w \o given, lost \cup lost2)
               /\ Len(w \o given) = Len(w) + Len(given)
               /\ Told(left, given, lost2) => Told(W, w \o given, lost \cup lost2)
               /\ \A l \in SearchAfter(q, Index[v], Key(q, k)) :
                     CameTo(q, left, given, lost2, l) => CameTo(q, W, w \o given, lost \cup lost2, l)
  <1> DEFINE left == SearchAfter(q, W, Key(q, k))
             all == w \o given
  <1>1. \A d \in Index[v] : d \in SearchAfter(q, Index[v], Key(q, k)) <=> Before(q, k, d)
    <2>1. Key(q, k) # Start /\ Key(q, k).score = k.score[q] /\ Key(q, k).doc = k.doc
      <3>1. k.score[q] # -1
        BY IndexFacts
      <3> QED
        BY <3>1 DEF Key, Start
    <2>2. \A d \in Index[v] : d.doc \in Nat /\ d.score[q] \in Nat
      BY IndexFacts
    <2> QED
      BY <2>1, <2>2 DEF SearchAfter, Before
  <1>2. left = {d \in W : Before(q, k, d)}
    BY <1>1 DEF SearchAfter
  <1>3. ASSUME NEW d \in Index[v] PROVE UpTo(q, d, k) <=> ~Before(q, k, d)
    BY IndexFacts DEF UpTo
  <1>4. w \in Seq(W) /\ given \in Seq(W) /\ given \in Seq(left)
    <2>1. given \in Seq(left) /\ w \in Seq(W)
      BY DEF Orderly
    <2>2. left \subseteq W
      BY <1>2
    <2> HIDE DEF left
    <2> QED
      BY <2>1, <2>2
  <1>5. /\ all \in Seq(W) /\ Len(all) = Len(w) + Len(given)
        /\ \A n \in 1..Len(w) : all[n] = w[n]
        /\ \A n \in (Len(w) + 1)..(Len(w) + Len(given)) :
              n - Len(w) \in 1..Len(given) /\ all[n] = given[n - Len(w)]
        /\ ToSet(all) = ToSet(w) \cup ToSet(given)
    BY <1>4, Joined
  <1>6. /\ \A n \in 1..Len(w) : w[n] \in ToSet(w) /\ w[n] \in W
        /\ \A n \in 1..Len(given) : given[n] \in ToSet(given) /\ given[n] \in left
        /\ Len(w) \in Nat /\ Len(given) \in Nat
    <2> HIDE DEF left
    <2> QED
      BY <1>4 DEF ToSet
  <1>7. ToSet(given) \subseteq left /\ ToSet(w) \subseteq W
    <2> HIDE DEF left
    <2> QED
      BY <1>4 DEF ToSet
  <1> HIDE DEF all, left
  <1>8. ASSUME NEW m \in 1..Len(all), NEW n \in 1..Len(all), m < n
        PROVE  Before(q, all[m], all[n])
    <2>1. CASE n <= Len(w)
      <3>1. m \in 1..Len(w) /\ n \in 1..Len(w)
        BY <1>5, <1>6, <1>8, <2>1
      <3> QED
        BY <1>5, <1>8, <3>1 DEF Orderly
    <2>2. CASE m > Len(w)
      <3>1. /\ m \in (Len(w) + 1)..(Len(w) + Len(given))
            /\ n \in (Len(w) + 1)..(Len(w) + Len(given))
            /\ m - Len(w) < n - Len(w)
        BY <1>5, <1>6, <1>8, <2>2
      <3>2. all[m] = given[m - Len(w)] /\ all[n] = given[n - Len(w)]
        BY <1>5, <3>1
      <3>3. m - Len(w) \in 1..Len(given) /\ n - Len(w) \in 1..Len(given)
        BY <1>5, <3>1
      <3> QED
        BY <3>1, <3>2, <3>3 DEF Orderly
    <2>3. CASE m <= Len(w) /\ n > Len(w)
      <3>1. m \in 1..Len(w) /\ n \in (Len(w) + 1)..(Len(w) + Len(given))
        BY <1>5, <1>6, <2>3
      <3>2. all[m] \in ToSet(w) /\ all[m] \in W
        BY <1>5, <1>6, <3>1
      <3>3. all[n] \in left
        BY <1>5, <1>6, <3>1
      <3>4. UpTo(q, all[m], k) /\ Before(q, k, all[n]) /\ all[n] \in W
        BY <1>2, <3>2, <3>3 DEF CameTo
      <3> QED
        BY <3>2, <3>4, IndexFacts DEF UpTo
    <2> QED
      BY <1>5, <1>6, <2>1, <2>2, <2>3
  <1>9. Pages(ToSet(all)) = Pages(ToSet(w)) \cup Pages(ToSet(given))
    BY <1>5 DEF Pages
  <1>10. Orderly(q, W, all, lost \cup lost2)
    <2>1. lost2 \in SUBSET W /\ lost \in SUBSET W
      BY <1>2 DEF Orderly, left
    <2> QED
      BY <1>5, <1>8, <1>9, <2>1 DEF Orderly
  <1>11. ASSUME NEW d, Page(d) \in Pages(ToSet(w) \cup lost) \/ Page(d) \in Pages(ToSet(given) \cup lost2)
         PROVE  Page(d) \in Pages(ToSet(all) \cup (lost \cup lost2))
    BY <1>5, <1>11 DEF Pages
  <1>12. ASSUME Told(left, given, lost2) PROVE Told(W, all, lost \cup lost2)
    <2> SUFFICES ASSUME NEW d \in W PROVE Page(d) \in Pages(ToSet(all) \cup (lost \cup lost2))
      BY DEF Told
    <2>1. CASE d \in left
      BY <1>11, <1>12, <2>1 DEF Told
    <2>2. CASE d \notin left
      <3>1. UpTo(q, d, k)
        BY <1>2, <1>3, <2>2
      <3> QED
        BY <1>11, <3>1 DEF CameTo, Told
    <2> QED
      BY <2>1, <2>2
  <1>13. ASSUME NEW l \in SearchAfter(q, Index[v], Key(q, k)), CameTo(q, left, given, lost2, l)
         PROVE  CameTo(q, W, all, lost \cup lost2, l)
    <2>1. l \in Index[v] /\ Before(q, k, l)
      <3>1. l \in Index[v]
        BY DEF SearchAfter
      <3> QED
        BY <1>1, <3>1
    <2>2. ASSUME NEW d \in ToSet(all) PROVE UpTo(q, d, l)
      <3>1. CASE d \in ToSet(given)
        BY <1>13, <3>1 DEF CameTo
      <3>2. CASE d \in ToSet(w)
        <4>1. UpTo(q, d, k) /\ d \in Index[v]
          BY <1>7, <3>2 DEF CameTo
        <4> QED
          BY <2>1, <4>1, IndexFacts DEF UpTo
      <3> QED
        BY <1>5, <3>1, <3>2
    <2>3. ASSUME NEW d \in W, UpTo(q, d, l)
          PROVE  Page(d) \in Pages(ToSet(all) \cup (lost \cup lost2))
      <3>1. CASE d \in left
        BY <1>11, <1>13, <2>3, <3>1 DEF Told, CameTo
      <3>2. CASE d \notin left
        <4>1. UpTo(q, d, k)
          BY <1>2, <1>3, <3>2
        <4> QED
          BY <1>11, <4>1 DEF CameTo, Told
      <3> QED
        BY <3>1, <3>2
    <2> QED
      BY <2>2, <2>3 DEF CameTo, Told
  <1> QED
    BY <1>5, <1>10, <1>12, <1>13 DEF all, left

(* What an answer of a search says of the index: the walk that led to it,   *)
(* where its cursor goes on, and its numbers.                               *)
Walked(v, q, scope, a) ==
    LET W == Sought(v, q, scope)
    IN  /\ Orderly(q, W, a.walk, a.lost)
        /\ ~a.more /\ Tidy(v) => Told(W, a.walk, a.lost)
        /\ a.more =>
              /\ \E k \in Index[v] :
                    a.next.after = Key(q, k) /\ CameTo(q, W, a.walk, a.lost, k)
              /\ a.next.delivered = Len(a.walk) /\ a.next.total = a.total
        /\ a.exact /\ scope # {} => Pushed[v]
        /\ Pushed[v] /\ scope # {} /\ Tidy(v) => a.total = Cardinality(W)

-----------------------------------------------------------------------------
(* The answer that a batch adds to what came before it.                     *)
Adds(a, past, batch) ==
    /\ a.walk = past.walk \o batch.given /\ a.lost = past.lost \cup batch.lost
    /\ a.more = batch.more /\ a.next = batch.next
    /\ a.total = batch.total /\ a.exact = batch.exact

(* The answer of no call.                                                   *)
LEMMA NothingWalked ==
    /\ NoAnswer.walk = <<>> /\ NoAnswer.lost = {} /\ NoAnswer.next = NoCursor
    /\ NoAnswer.more = FALSE /\ NoAnswer.kind = "none" /\ NoAnswer.pure = TRUE
    /\ NoAnswer.indexes = {}
BY DEF NoAnswer

(* The first batch of a search.                                             *)
LEMMA WalkBegins ==
    ASSUME NEW v \in 1..Len(Index), NEW r, Batched(r),
           NEW batch, batch = RunBatchedSearch(v, r, NoCursor),
           NEW a, Adds(a, NoAnswer, batch)
    PROVE  Walked(v, r.q, r.scope, a)
  <1>1. PICK q \in Queries, scope \in SUBSET Nat : q = r.q /\ scope = r.scope
    BY DEF Batched
  <1> DEFINE W == Sought(v, q, scope)
  <1>2. GoesOn(v, r, NoCursor)
    BY BatchOf
  <1>3. SearchAfter(q, W, Place(NoCursor)) = W
    BY DEF Place, SearchAfter
  <1>4. /\ Orderly(q, W, batch.given, batch.lost)
        /\ ~batch.more /\ Tidy(v) => Told(W, batch.given, batch.lost)
        /\ batch.more =>
              /\ \E k \in SearchAfter(q, Matching(v, q), Place(NoCursor)) :
                    batch.next.after = Key(q, k) /\ CameTo(q, W, batch.given, batch.lost, k)
              /\ batch.next.total = batch.total
              /\ batch.next.delivered = 0 + Len(batch.given)
        /\ batch.exact /\ scope # {} => Pushed[v]
        /\ Pushed[v] /\ scope # {} /\ Tidy(v) => batch.total = Cardinality(W)
    BY <1>1, <1>2, <1>3 DEF GoesOn
  <1>5. SearchAfter(q, Matching(v, q), Place(NoCursor)) \subseteq Index[v]
    BY DEF SearchAfter, Matching
  <1>6. batch.given \in Seq(W)
    BY <1>4 DEF Orderly
  <1>7. a.walk = batch.given /\ a.lost = batch.lost /\ 0 + Len(batch.given) = Len(batch.given)
    <2>1. a.walk = <<>> \o batch.given /\ a.lost = {} \cup batch.lost
      BY NothingWalked DEF Adds
    <2> HIDE DEF W
    <2> QED
      BY <1>6, <2>1
  <1> HIDE DEF W
  <1>8. Orderly(q, W, a.walk, a.lost)
    BY <1>4, <1>7
  <1>9. ~a.more /\ Tidy(v) => Told(W, a.walk, a.lost)
    BY <1>4, <1>7 DEF Adds
  <1>10. a.more => /\ \E k \in Index[v] :
                        a.next.after = Key(q, k) /\ CameTo(q, W, a.walk, a.lost, k)
                   /\ a.next.delivered = Len(a.walk) /\ a.next.total = a.total
    BY <1>4, <1>5, <1>7 DEF Adds
  <1>11. /\ a.exact /\ scope # {} => Pushed[v]
         /\ Pushed[v] /\ scope # {} /\ Tidy(v) => a.total = Cardinality(W)
    BY <1>4 DEF Adds
  <1> QED
    BY <1>1, <1>8, <1>9, <1>10, <1>11 DEF Walked, W

(* A batch that resumes at the cursor of a walk.                            *)
LEMMA WalkGoesOn ==
    ASSUME NEW v \in 1..Len(Index), NEW r, Batched(r),
           NEW past, Walked(v, r.q, r.scope, past), past.more, past.next # NoCursor,
           NEW batch, batch = RunBatchedSearch(v, r, past.next),
           NEW a, Adds(a, past, batch)
    PROVE  Walked(v, r.q, r.scope, a)
  <1>1. PICK q \in Queries, scope \in SUBSET Nat : q = r.q /\ scope = r.scope
    BY DEF Batched
  <1> DEFINE W == Sought(v, q, scope)
  <1>2. Walked(v, q, scope, past)
    BY <1>1
  <1>3. PICK k \in Index[v] : /\ past.next.after = Key(q, k)
                              /\ CameTo(q, W, past.walk, past.lost, k)
    BY <1>2 DEF Walked
  <1>4. /\ Orderly(q, W, past.walk, past.lost)
        /\ past.next.delivered = Len(past.walk) /\ past.next.total = past.total
        /\ Pushed[v] /\ scope # {} /\ Tidy(v) => past.total = Cardinality(W)
    BY <1>2 DEF Walked
  <1> DEFINE left == SearchAfter(q, W, Key(q, k))
  <1>5. GoesOn(v, r, past.next)
    BY BatchOf
  <1>6. Place(past.next) = Key(q, k)
    BY <1>3 DEF Place
  <1>7. /\ Orderly(q, left, batch.given, batch.lost)
        /\ ~batch.more /\ Tidy(v) => Told(left, batch.given, batch.lost)
        /\ batch.more =>
              /\ \E l \in SearchAfter(q, Matching(v, q), Key(q, k)) :
                    batch.next.after = Key(q, l) /\ CameTo(q, left, batch.given, batch.lost, l)
              /\ batch.next.total = batch.total
              /\ batch.next.delivered = past.next.delivered + Len(batch.given)
        /\ batch.exact /\ scope # {} => Pushed[v]
        /\ batch.total = past.next.total
    BY <1>1, <1>5, <1>6 DEF GoesOn
  <1>8. SearchAfter(q, Matching(v, q), Key(q, k)) \subseteq SearchAfter(q, Index[v], Key(q, k))
    BY DEF SearchAfter, Matching
  <1>9. SearchAfter(q, Index[v], Key(q, k)) \subseteq Index[v]
    BY DEF SearchAfter
  <1>10. W \in SUBSET Index[v]
    BY DEF Sought, Matching
  <1> HIDE DEF W
  <1>11. /\ Orderly(q, W, past.walk \o batch.given, past.lost \cup batch.lost)
         /\ Len(past.walk \o batch.given) = Len(past.walk) + Len(batch.given)
         /\ Told(left, batch.given, batch.lost) =>
              Told(W, past.walk \o batch.given, past.lost \cup batch.lost)
         /\ \A l \in SearchAfter(q, Index[v], Key(q, k)) :
              CameTo(q, left, batch.given, batch.lost, l) =>
                 CameTo(q, W, past.walk \o batch.given, past.lost \cup batch.lost, l)
    BY <1>3, <1>4, <1>7, <1>10, WalkGrows
  <1> HIDE DEF left
  <1>12. /\ a.walk = past.walk \o batch.given /\ a.lost = past.lost \cup batch.lost
         /\ a.more = batch.more /\ a.next = batch.next
         /\ a.total = batch.total /\ a.exact = batch.exact
    BY DEF Adds
  <1>13. /\ Orderly(q, W, a.walk, a.lost)
         /\ ~a.more /\ Tidy(v) => Told(W, a.walk, a.lost)
    BY <1>7, <1>11, <1>12
  <1>14. a.more => /\ \E l \in Index[v] :
                        a.next.after = Key(q, l) /\ CameTo(q, W, a.walk, a.lost, l)
                   /\ a.next.delivered = Len(a.walk) /\ a.next.total = a.total
    <2> SUFFICES ASSUME a.more
                 PROVE  /\ \E l \in Index[v] :
                             a.next.after = Key(q, l) /\ CameTo(q, W, a.walk, a.lost, l)
                        /\ a.next.delivered = Len(a.walk) /\ a.next.total = a.total
      OBVIOUS
    <2>1. PICK l \in SearchAfter(q, Matching(v, q), Key(q, k)) :
                batch.next.after = Key(q, l) /\ CameTo(q, left, batch.given, batch.lost, l)
      BY <1>7, <1>12
    <2>2. l \in SearchAfter(q, Index[v], Key(q, k)) /\ l \in Index[v]
      BY <1>8, <1>9
    <2>3. CameTo(q, W, past.walk \o batch.given, past.lost \cup batch.lost, l)
      BY <1>11, <2>1, <2>2
    <2>4. batch.next.total = batch.total /\ batch.next.delivered = Len(past.walk \o batch.given)
      BY <1>4, <1>7, <1>11, <1>12
    <2> QED
      BY <1>12, <2>1, <2>2, <2>3, <2>4
  <1>15. /\ a.exact /\ scope # {} => Pushed[v]
         /\ Pushed[v] /\ scope # {} /\ Tidy(v) => a.total = Cardinality(W)
    BY <1>4, <1>7, <1>12
  <1> QED
    BY <1>1, <1>13, <1>14, <1>15 DEF Walked, W

(* The same of a listing: its slices put together are where the list begins. *)
Listed(v, q, scope, a) ==
    LET list == Listing(v, q, scope)
        counted == CountsByBook(v, q, scope)
    IN  /\ a.walk \in Seq(Entries) /\ Len(a.walk) <= Len(list)
        /\ \A n \in 1..Len(a.walk) : a.walk[n] = list[n]
        /\ ~a.more => Len(a.walk) = Len(list)
        /\ a.more => a.next.after.doc = Len(a.walk)
        /\ a.total = HitsTogether(counted.hits, DOMAIN counted.hits \cap scope)
        /\ a.exact = ~counted.truncated

(* A slice that begins at the cursor of a listing, or the first.            *)
LEMMA ListGoesOn ==
    ASSUME NEW v \in 1..Len(Index), NEW r, Batched(r),
           NEW past, \/ past = NoAnswer
                     \/ Listed(v, r.q, r.scope, past) /\ past.more /\ past.next # NoCursor,
           NEW batch, batch = DiscoverIssue(v, r, past.next),
           NEW a, Adds(a, past, batch)
    PROVE  Listed(v, r.q, r.scope, a)
  <1>1. PICK q \in Queries, scope \in SUBSET Nat : q = r.q /\ scope = r.scope
    BY DEF Batched
  <1> DEFINE list == Listing(v, q, scope)
             size == Len(list)
             counted == CountsByBook(v, q, scope)
             total == HitsTogether(counted.hits, DOMAIN counted.hits \cap scope)
             start == Len(past.walk)
  <1>2. list \in Seq(Entries) /\ size \in Nat
    <2>1. list \in Seq(Entries)
      BY ListingOf DEF ListedRight
    <2> HIDE DEF list
    <2> QED
      BY <2>1
  <1>3. /\ past.walk \in Seq(Entries) /\ start \in Nat /\ start <= size
        /\ \A n \in 1..start : past.walk[n] = list[n]
        /\ start = IF past.next = NoCursor THEN 0 ELSE past.next.after.doc
    <2>1. CASE past = NoAnswer
      <3>1. past.walk = <<>> /\ past.next = NoCursor
        BY <2>1, NothingWalked
      <3> HIDE DEF list
      <3> QED
        BY <1>2, <3>1
    <2>2. CASE Listed(v, q, scope, past) /\ past.more /\ past.next # NoCursor
      <3>1. /\ past.walk \in Seq(Entries) /\ start <= size
            /\ \A n \in 1..start : past.walk[n] = list[n]
            /\ past.next.after.doc = start
        BY <2>2 DEF Listed
      <3> HIDE DEF list
      <3> QED
        BY <2>2, <3>1
    <2> QED
      BY <1>1, <2>1, <2>2
  <1>4. SliceOf(v, r, past.next)
    <2>1. past.next # NoCursor => past.next.after.doc \in Nat
      BY <1>3
    <2> QED
      BY <2>1, DiscoverOf
  <1>5. /\ batch.given \in Seq(Entries)
        /\ start + Len(batch.given) <= size \/ batch.given = <<>>
        /\ \A n \in 1..Len(batch.given) : batch.given[n] = list[start + n]
        /\ ~batch.more => start + Len(batch.given) >= size
        /\ batch.more => batch.next.after = [score |-> 0, doc |-> start + Len(batch.given)]
        /\ batch.total = total /\ batch.exact = ~counted.truncated
    <2> HIDE DEF list, total, counted
    <2> QED
      BY <1>1, <1>3, <1>4 DEF SliceOf, list, total, counted
  <1> HIDE DEF list, total, counted
  <1>6. /\ a.walk \in Seq(Entries) /\ Len(a.walk) = start + Len(batch.given)
        /\ \A n \in 1..start : a.walk[n] = past.walk[n]
        /\ \A n \in (start + 1)..(start + Len(batch.given)) :
              n - start \in 1..Len(batch.given) /\ a.walk[n] = batch.given[n - start]
        /\ Len(batch.given) \in Nat
    <2>1. PICK s \in Seq(Entries), t \in Seq(Entries) : s = past.walk /\ t = batch.given
      BY <1>3, <1>5
    <2>2. a.walk = s \o t
      BY <2>1 DEF Adds
    <2> HIDE DEF Entries, start
    <2>3. /\ s \o t \in Seq(Entries) /\ Len(s \o t) = Len(s) + Len(t)
          /\ \A n \in 1..Len(s) : (s \o t)[n] = s[n]
          /\ \A n \in (Len(s) + 1)..(Len(s) + Len(t)) :
                n - Len(s) \in 1..Len(t) /\ (s \o t)[n] = t[n - Len(s)]
          /\ Len(t) \in Nat
      BY <1>3, Joined
    <2>4. start = Len(s)
      BY <2>1 DEF start
    <2>5. a.walk \in Seq(Entries) /\ Len(a.walk) = start + Len(t)
      BY <2>2, <2>3, <2>4
    <2>6. \A n \in 1..start : a.walk[n] = s[n]
      BY <2>2, <2>3, <2>4
    <2>7. \A n \in (start + 1)..(start + Len(t)) : n - start \in 1..Len(t) /\ a.walk[n] = t[n - start]
      BY <2>2, <2>3, <2>4
    <2> QED
      BY <2>1, <2>3, <2>5, <2>6, <2>7
  <1>7. Len(a.walk) <= size
    <2>1. CASE batch.given = <<>>
      BY <1>3, <1>6, <2>1
    <2> QED
      BY <1>5, <1>6, <2>1
  <1>8. ASSUME NEW n \in 1..Len(a.walk) PROVE a.walk[n] = list[n]
    <2>1. CASE n <= start
      BY <1>3, <1>6, <2>1
    <2>2. CASE n > start
      <3>1. n \in (start + 1)..(start + Len(batch.given)) /\ start + (n - start) = n
        BY <1>3, <1>6, <2>2
      <3> QED
        BY <1>5, <1>6, <3>1
    <2> QED
      BY <1>3, <2>1, <2>2
  <1>9. ~a.more => Len(a.walk) = size
    <2>1. ~batch.more => start + Len(batch.given) >= size
      BY <1>5
    <2>2. a.more = batch.more
      BY DEF Adds
    <2> QED
      BY <1>2, <1>3, <1>6, <1>7, <2>1, <2>2
  <1>10. a.more => a.next.after.doc = Len(a.walk)
    <2>1. a.more = batch.more /\ a.next = batch.next
      BY DEF Adds
    <2>2. batch.more => batch.next.after.doc = start + Len(batch.given)
      <3>1. PICK x : x = start + Len(batch.given)
        OBVIOUS
      <3>2. batch.more => batch.next.after = [score |-> 0, doc |-> x]
        BY <1>5, <3>1
      <3>3. batch.more => batch.next.after.doc = x
        BY <3>2
      <3> QED
        BY <3>1, <3>3
    <2> QED
      BY <1>6, <2>1, <2>2
  <1>11. a.total = total /\ a.exact = ~counted.truncated
    BY <1>5 DEF Adds
  <1> QED
    BY <1>1, <1>6, <1>7, <1>8, <1>9, <1>10, <1>11 DEF Listed, list, total, counted

-----------------------------------------------------------------------------
Lists == {"search", "discover"}

(* What is so of one call, by where it stands.                             *)
FromInv(c) ==
    ask[c].from # 0 =>
        /\ ask[c].from \in Calls
        /\ pc[ask[c].from] = "done"
        /\ got[ask[c].from].next # NoCursor

WaitInv(c) ==
    pc[c] \in Lists =>
        /\ ask[c].req.tool = pc[c]
        /\ ask[c].index = proc /\ proc # 0
        /\ pc[c] = "search" =>
             ~Stale(Cursor(ask[c].from),
                    Fingerprint(ask[c].index, ask[c].req.scope), ask[c].req.q)

CompareInv(c) ==
    pc[c] \in {"compare", "text"} => ask[c].req.tool = "compare"

OpenInv(c) ==
    pc[c] # "done" =>
        /\ got[c].kind = "none" /\ got[c].next = NoCursor
        /\ {"kind", "next"} \subseteq DOMAIN got[c]

DoneInv(c) ==
    pc[c] = "done" =>
        /\ got[c].next # NoCursor =>
             /\ got[c].kind = "ok"
             /\ ask[c].req.tool \in Lists
             /\ got[c].next.fp.index = ask[c].index
        /\ got[c].kind = "ok" /\ ask[c].req.tool \in Lists =>
             got[c].indexes = {ask[c].index}

CallInv(c) == FromInv(c) /\ WaitInv(c) /\ CompareInv(c) /\ OpenInv(c) /\ DoneInv(c)

Phases == {"idle", "search", "discover", "compare", "text", "done"}

Maps ==
    /\ disk \in Nat \ {0}
    /\ pc \in [Calls -> Phases]
    /\ ask = [c \in Calls |-> ask[c]]
    /\ got = [c \in Calls |-> got[c]]

IInv == Maps /\ \A c \in Calls : CallInv(c)

-----------------------------------------------------------------------------
(* A call that a step leaves alone keeps its invariant, if the step leaves  *)
(* alone all that is done, and the helper of calls that wait for it.        *)
LEMMA Frame ==
    ASSUME IInv, NEW b \in Calls,
           pc'[b] = pc[b], ask'[b] = ask[b], got'[b] = got[b],
           pc[b] \in Lists => proc' = proc,
           \A d \in Calls : pc[d] = "done" => pc'[d] = "done" /\ got'[d] = got[d]
    PROVE  CallInv(b)'
<1>0. CallInv(b)
  BY DEF IInv
<1>1. FromInv(b)'
  BY <1>0 DEF CallInv, FromInv
<1>2. Cursor(ask[b].from)' = Cursor(ask[b].from)
  BY <1>0 DEF CallInv, FromInv, Cursor, Earlier
<1>3. WaitInv(b)'
  BY <1>0, <1>2 DEF CallInv, WaitInv, Stale, Cursor, Earlier
<1>4. CompareInv(b)' /\ OpenInv(b)' /\ DoneInv(b)'
  BY <1>0 DEF CallInv, CompareInv, OpenInv, DoneInv
<1> QED
  BY <1>1, <1>3, <1>4 DEF CallInv

(* The batch of a walk was answered from the index of its call.             *)
LEMMA Extends ==
    ASSUME IInv, NEW c \in Calls, pc[c] \in Lists, NEW batch,
           ~Stale(Cursor(ask[c].from),
                  Fingerprint(ask[c].index, ask[c].req.scope), ask[c].req.q)
    PROVE  Continue(c, Opened, batch).indexes = {ask[c].index}
<1>1. FromInv(c) /\ WaitInv(c)
  BY DEF IInv, CallInv
<1>2. Opened = ask[c].index
  BY <1>1 DEF WaitInv, Opened
<1>3. Earlier(ask[c].from).indexes \subseteq {ask[c].index}
  <2>1. CASE ask[c].from = 0
    BY <2>1 DEF Earlier, NoAnswer
  <2>2. CASE ask[c].from # 0
    <3> DEFINE b == ask[c].from
    <3>1. b \in Calls /\ pc[b] = "done" /\ got[b].next # NoCursor
      BY <1>1, <2>2 DEF FromInv
    <3>2. DoneInv(b)
      BY <3>1 DEF IInv, CallInv
    <3>3. got[b].indexes = {ask[b].index} /\ got[b].next.fp.index = ask[b].index
      BY <3>1, <3>2 DEF DoneInv
    <3>4. got[b].next.fp = Fingerprint(ask[c].index, ask[c].req.scope)
      BY <3>1, <2>2 DEF Stale, Cursor, Earlier
    <3> QED
      BY <3>3, <3>4, <2>2 DEF Fingerprint, Earlier
  <2> QED
    BY <2>1, <2>2
<1> QED
  BY <1>2, <1>3 DEF Continue

(* The cursor of an answer is that of its batch.                            *)
LEMMA NextFields ==
    ASSUME NEW c, NEW v, NEW batch
    PROVE  /\ Continue(c, v, batch).kind = "ok"
           /\ Continue(c, v, batch).next = batch.next
BY DEF Continue

(* A cursor is issued against the index that answered.                      *)
LEMMA SearchNext ==
    ASSUME NEW v, NEW r, NEW cursor,
           NEW batch, batch = RunBatchedSearch(v, r, cursor) \/ batch = DiscoverIssue(v, r, cursor)
    PROVE  batch.next # NoCursor => batch.next.fp.index = v
<1>1. ASSUME batch = RunBatchedSearch(v, r, cursor) PROVE batch.next # NoCursor => batch.next.fp.index = v
  BY <1>1 DEF RunBatchedSearch, Fingerprint
<1>2. ASSUME batch = DiscoverIssue(v, r, cursor) PROVE batch.next # NoCursor => batch.next.fp.index = v
  BY <1>2 DEF DiscoverIssue, Fingerprint
<1> QED
  BY <1>1, <1>2

-----------------------------------------------------------------------------
(* Every step keeps the invariant: of the calls a step changes, by the      *)
(* action; of the others, by Frame.                                         *)
LEMMA InvStep == ASSUME IInv, [Next]_vars PROVE IInv'
<1> USE DEF IInv, Maps
<1>1. ASSUME NEW c \in Calls, NEW r \in Requests,
             NEW from \in {0} \cup (IF r.tool = "compare" THEN {} ELSE Continuable),
             Begin(c, r, from)
      PROVE  IInv'
  <2>0. r.tool \in {"search", "discover", "compare"}
    BY SearchAssumption DEF SearchAssumption
  <2>1. Maps'
    BY <1>1, <2>0 DEF Begin, Phases
  <2>2. ASSUME NEW b \in Calls, b # c PROVE CallInv(b)'
    <3>1. pc'[b] = pc[b] /\ ask'[b] = ask[b] /\ got'[b] = got[b]
      BY <1>1, <2>2 DEF Begin
    <3>2. pc[b] \in Lists => proc' = proc
      BY <1>1 DEF Begin, Opened, CallInv, WaitInv
    <3>3. \A d \in Calls : pc[d] = "done" => pc'[d] = "done" /\ got'[d] = got[d]
      BY <1>1 DEF Begin
    <3> QED
      BY <3>1, <3>2, <3>3, Frame
  <2>3. CallInv(c)'
    <3>1. /\ ask'[c] = [req |-> r, from |-> from, index |-> Opened]
          /\ proc' = Opened
      BY <1>1 DEF Begin
    <3>2. Opened # 0
      BY DEF Opened
    <3>3. got'[c].next = NoCursor /\ got'[c].kind \in {"none", "stale", "ok"}
      BY <1>1 DEF Begin, NoAnswer
    <3>4. pc'[c] \in {"done", r.tool}
      BY <1>1 DEF Begin
    <3>5. FromInv(c)'
      <4>1. from # 0 => from \in Calls /\ pc[from] = "done" /\ got[from].next # NoCursor
        BY DEF Continuable
      <4>2. from # 0 => from # c
        BY <4>1, <1>1 DEF Begin
      <4> QED
        BY <4>1, <4>2, <3>1, <1>1 DEF Begin, FromInv
    <3>6. Cursor(from)' = Cursor(from)
      <4>1. from # 0 => from \in Calls /\ from # c
        BY <1>1 DEF Begin, Continuable
      <4> QED
        BY <4>1, <1>1 DEF Begin, Cursor, Earlier
    <3>7. WaitInv(c)'
      <4> SUFFICES ASSUME pc'[c] \in Lists PROVE WaitInv(c)'
        BY DEF WaitInv
      <4>1. pc'[c] = r.tool
        BY <3>4 DEF Lists
      <4>2. r.tool = "search" => ~Stale(Cursor(from), Fingerprint(Opened, r.scope), r.q)
        BY <4>1, <1>1 DEF Begin
      <4> QED
        BY <4>1, <4>2, <3>1, <3>2, <3>6 DEF WaitInv, Stale, Fingerprint
    <3>8. pc'[c] # "done" => got'[c].kind = "none" /\ {"kind", "next"} \subseteq DOMAIN got'[c]
      BY <1>1 DEF Begin, NoAnswer
    <3>9. CompareInv(c)'
      BY <3>1, <3>4, <2>0 DEF CompareInv
    <3>10. DoneInv(c)'
      <4>1. pc'[c] = "done" /\ got'[c].kind = "ok" => r.tool = "compare"
        BY <1>1 DEF Begin, NoAnswer
      <4> QED
        BY <4>1, <3>1, <3>3 DEF DoneInv, Lists
    <3> QED
      BY <3>3, <3>5, <3>7, <3>8, <3>9, <3>10 DEF CallInv, OpenInv
  <2> QED
    BY <2>1, <2>2, <2>3
<1>2. ASSUME NEW c \in Calls, SearchAnswers(c) \/ CountsAnswer(c) PROVE IInv'
  <2> DEFINE cursor == Cursor(ask[c].from)
             fp == Fingerprint(ask[c].index, ask[c].req.scope)
             found == IF pc[c] = "search" THEN RunBatchedSearch(Opened, ask[c].req, cursor)
                      ELSE DiscoverIssue(Opened, ask[c].req, cursor)
  <2>1. pc[c] \in Lists /\ pc' = [pc EXCEPT ![c] = "done"] /\ UNCHANGED <<disk, proc, ask, turn>>
    BY <1>2 DEF SearchAnswers, CountsAnswer, Lists
  <2>2. /\ got' = [got EXCEPT ![c] = got'[c]]
        /\ \/ got'[c] = [NoAnswer EXCEPT !.kind = "stale"]
           \/ got'[c] = Continue(c, Opened, found) /\ ~Stale(cursor, fp, ask[c].req.q)
    <3>1. CASE SearchAnswers(c)
      <4>1. WaitInv(c)
        BY DEF CallInv
      <4> QED
        BY <3>1, <4>1 DEF SearchAnswers, WaitInv, Lists
    <3>2. CASE CountsAnswer(c)
      BY <3>2 DEF CountsAnswer
    <3> QED
      BY <1>2, <3>1, <3>2
  <2>3. Maps'
    BY <2>1, <2>2 DEF Phases
  <2>4. ASSUME NEW b \in Calls, b # c PROVE CallInv(b)'
    <3>1. pc'[b] = pc[b] /\ ask'[b] = ask[b] /\ got'[b] = got[b]
      BY <2>1, <2>2, <2>4
    <3>2. \A d \in Calls : pc[d] = "done" => pc'[d] = "done" /\ got'[d] = got[d]
      BY <2>1, <2>2 DEF Lists
    <3> QED
      BY <3>1, <3>2, <2>1, Frame
  <2>5. CallInv(c)'
    <3>1. pc'[c] = "done" /\ ask'[c] = ask[c]
      BY <2>1
    <3>2. FromInv(c)'
      <4>1. FromInv(c)
        BY DEF CallInv
      <4>2. ask[c].from # 0 => ask[c].from # c
        BY <4>1, <2>1 DEF FromInv, Lists
      <4> QED
        BY <4>1, <4>2, <2>1, <2>2 DEF FromInv
    <3>3. DoneInv(c)'
      <4>1. CASE got'[c] = [NoAnswer EXCEPT !.kind = "stale"]
        <5>1. got'[c].next = NoCursor /\ got'[c].kind = "stale"
          BY <4>1 DEF NoAnswer
        <5> QED
          BY <5>1 DEF DoneInv
      <4>2. CASE got'[c] = Continue(c, Opened, found) /\ ~Stale(cursor, fp, ask[c].req.q)
        <5>1. got'[c].indexes = {ask[c].index}
          BY <4>2, <2>1, Extends
        <5>2. got'[c].kind = "ok" /\ got'[c].next = found.next
          BY <4>2, NextFields
        <5>3. found.next # NoCursor => found.next.fp.index = Opened
          <6> HIDE DEF cursor
          <6> QED
            BY SearchNext
        <5>4. Opened = ask[c].index /\ ask[c].req.tool \in Lists
          BY <2>1 DEF CallInv, WaitInv, Opened
        <5> QED
          BY <5>1, <5>2, <5>3, <5>4, <3>1 DEF DoneInv
      <4> QED
        BY <4>1, <4>2, <2>2
    <3> QED
      BY <3>1, <3>2, <3>3 DEF CallInv, WaitInv, CompareInv, OpenInv, Lists
  <2> QED
    BY <2>3, <2>4, <2>5
<1>3. ASSUME NEW c \in Calls, SchoolAnswers(c) PROVE IInv'
  <2>1. /\ pc[c] = "compare" /\ pc' = [pc EXCEPT ![c] = "text"]
        /\ UNCHANGED <<disk, proc, ask>>
        /\ got' = [got EXCEPT ![c] = got'[c]]
        /\ \E w, x : got'[c] = [got[c] EXCEPT !.walk = w, !.indexes = x]
    <3> DEFINE r == [ask[c].req EXCEPT !.scope = ask[c].req.schools[Min(SchoolsLeft(c))]]
               given == RunBatchedSearch(Opened, r, NoCursor).given
    <3>1. got' = [got EXCEPT ![c] = [got[c] EXCEPT !.walk = got[c].walk \o given,
                                                   !.indexes = got[c].indexes \cup {Opened}]]
      BY <1>3 DEF SchoolAnswers
    <3> HIDE DEF given
    <3>2. got'[c] = [got[c] EXCEPT !.walk = got[c].walk \o given,
                                   !.indexes = got[c].indexes \cup {Opened}]
      BY <3>1
    <3> QED
      BY <1>3, <3>1, <3>2 DEF SchoolAnswers
  <2>2. Maps'
    BY <2>1 DEF Phases
  <2>3. ASSUME NEW b \in Calls, b # c PROVE CallInv(b)'
    <3>1. pc'[b] = pc[b] /\ ask'[b] = ask[b] /\ got'[b] = got[b]
      BY <2>1, <2>3
    <3>2. \A d \in Calls : pc[d] = "done" => pc'[d] = "done" /\ got'[d] = got[d]
      BY <2>1
    <3> QED
      BY <3>1, <3>2, <2>1, Frame
  <2>4. CallInv(c)'
    <3>1. pc'[c] = "text" /\ ask'[c] = ask[c]
      BY <2>1
    <3>2. FromInv(c)'
      <4>1. FromInv(c)
        BY DEF CallInv
      <4>2. ask[c].from # 0 => ask[c].from # c
        BY <4>1, <2>1 DEF FromInv
      <4> QED
        BY <4>1, <4>2, <2>1 DEF FromInv
    <3>3. ask[c].req.tool = "compare" /\ OpenInv(c)
      BY <2>1 DEF CallInv, CompareInv
    <3>4. PICK w, x : got'[c] = [got[c] EXCEPT !.walk = w, !.indexes = x]
      BY <2>1
    <3>5. OpenInv(c)'
      BY <2>1, <3>3, <3>4 DEF OpenInv
    <3> QED
      BY <3>1, <3>2, <3>3, <3>5 DEF CallInv, WaitInv, CompareInv, DoneInv, Lists
  <2> QED
    BY <2>2, <2>3, <2>4
<1>4. ASSUME NEW c \in Calls, NextSchool(c) PROVE IInv'
  <2>1. /\ pc[c] = "text" /\ pc' = [pc EXCEPT ![c] = pc'[c]]
        /\ pc'[c] \in {"compare", "done"}
        /\ UNCHANGED <<disk, ask>> /\ proc' \in {proc, Opened}
        /\ got' = [got EXCEPT ![c] = got'[c]]
        /\ got'[c] = [got[c] EXCEPT !.kind = IF pc'[c] = "done" THEN "ok" ELSE "none"]
    BY <1>4 DEF NextSchool
  <2>2. Maps'
    BY <2>1 DEF Phases
  <2>3. ASSUME NEW b \in Calls, b # c PROVE CallInv(b)'
    <3>1. pc'[b] = pc[b] /\ ask'[b] = ask[b] /\ got'[b] = got[b]
      BY <2>1, <2>3
    <3>2. \A d \in Calls : pc[d] = "done" => pc'[d] = "done" /\ got'[d] = got[d]
      BY <2>1
    <3>3. pc[b] \in Lists => proc' = proc
      BY <2>1 DEF CallInv, WaitInv, Opened
    <3> QED
      BY <3>1, <3>2, <3>3, Frame
  <2>4. CallInv(c)'
    <3>1. ask'[c] = ask[c]
      BY <2>1
    <3>2. FromInv(c)'
      <4>1. FromInv(c)
        BY DEF CallInv
      <4>2. ask[c].from # 0 => ask[c].from # c
        BY <4>1, <2>1 DEF FromInv
      <4> QED
        BY <4>1, <4>2, <2>1 DEF FromInv
    <3>3. ask[c].req.tool = "compare" /\ OpenInv(c)
      BY <2>1 DEF CallInv, CompareInv
    <3>4. got'[c].next = NoCursor
      BY <2>1, <3>3 DEF OpenInv
    <3>5. OpenInv(c)'
      BY <2>1, <3>3 DEF OpenInv
    <3> QED
      BY <2>1, <3>1, <3>2, <3>3, <3>4, <3>5
      DEF CallInv, WaitInv, CompareInv, DoneInv, Lists
  <2> QED
    BY <2>2, <2>3, <2>4
<1>5. ASSUME NEW cs \in SUBSET Waiting, Failed(cs), disk' = disk,
             proc' # proc => cs = Waiting
      PROVE  IInv'
  <2>1. Maps'
    BY <1>5 DEF Failed, Phases
  <2>2. cs \subseteq Calls /\ \A b \in cs : pc[b] \notin {"done", "idle"}
    BY <1>5 DEF Waiting
  <2>3. ASSUME NEW b \in Calls \ cs PROVE CallInv(b)'
    <3>1. pc'[b] = pc[b] /\ ask'[b] = ask[b] /\ got'[b] = got[b]
      BY <1>5 DEF Failed
    <3>2. \A d \in Calls : pc[d] = "done" => pc'[d] = "done" /\ got'[d] = got[d]
      BY <1>5, <2>2 DEF Failed
    <3>3. pc[b] \in Lists => proc' = proc
      BY <1>5, <2>3 DEF Waiting, Lists
    <3> QED
      BY <3>1, <3>2, <3>3, Frame
  <2>4. ASSUME NEW b \in cs PROVE CallInv(b)'
    <3>1. pc'[b] = "done" /\ ask'[b] = NoAsk /\ got'[b] = [NoAnswer EXCEPT !.kind = "failed"]
      BY <1>5, <2>2 DEF Failed
    <3>2. got'[b].kind = "failed" /\ got'[b].next = NoCursor /\ ask'[b].from = 0
      BY <3>1 DEF NoAnswer, NoAsk
    <3> QED
      BY <3>1, <3>2 DEF CallInv, FromInv, WaitInv, CompareInv, OpenInv, DoneInv, Lists
  <2> QED
    BY <2>1, <2>3, <2>4
<1>6. CASE Rewrite
  <2>1. Maps'
    BY <1>6 DEF Rewrite
  <2>2. ASSUME NEW b \in Calls PROVE CallInv(b)'
    BY <1>6, <2>2, Frame DEF Rewrite
  <2> QED
    BY <2>1, <2>2
<1>7. CASE UNCHANGED vars
  <2>1. Maps'
    BY <1>7 DEF vars
  <2>2. ASSUME NEW b \in Calls PROVE CallInv(b)'
    BY <1>7, <2>2, Frame DEF vars
  <2> QED
    BY <2>1, <2>2
<1>8. CASE \E c \in Calls : RequestFails(c)
  <2>1. PICK c \in Calls : RequestFails(c)
    BY <1>8
  <2>2. {c} \in SUBSET Waiting /\ Failed({c}) /\ disk' = disk /\ proc' = proc
    BY <2>1 DEF RequestFails
  <2> QED
    BY <2>2, <1>5
<1>9. CASE HelperEnds
  <2>1. Waiting \in SUBSET Waiting /\ Failed(Waiting) /\ disk' = disk
    BY <1>9 DEF HelperEnds
  <2> QED
    BY <2>1, <1>5
<1> QED
  BY <1>1, <1>2, <1>3, <1>4, <1>6, <1>7, <1>8, <1>9 DEF Next

(* At first no call is made.                                                *)
LEMMA InvInit == Init => IInv
<1> SUFFICES ASSUME Init PROVE IInv
  OBVIOUS
<1>1. Maps
  BY DEF Init, Maps, Phases
<1>2. ASSUME NEW c \in Calls PROVE CallInv(c)
  BY <1>2 DEF Init, CallInv, FromInv, WaitInv, CompareInv, OpenInv, DoneInv, Lists, NoAsk, NoAnswer
<1> QED
  BY <1>1, <1>2 DEF IInv

(* OneIndex: the batches of a walk, whatever calls, deaths of the helper    *)
(* and rewrites of the index came between them, were all answered from the  *)
(* index that the fingerprint of its cursors names.                         *)
THEOREM WalksKeepOneIndex == Spec => []OneIndex
<1>1. IInv => OneIndex
  <2> SUFFICES ASSUME IInv, NEW c \in Calls,
                      ask[c].req.tool \in Lists, got[c].kind = "ok"
               PROVE  got[c].indexes = {ask[c].index}
    BY DEF OneIndex, Lists
  <2>1. OpenInv(c) /\ DoneInv(c)
    BY DEF IInv, CallInv
  <2> QED
    BY <2>1 DEF OpenInv, DoneInv
<1> QED
  BY InvInit, InvStep, <1>1, PTL DEF Spec

-----------------------------------------------------------------------------
(* Walks. What is so of one call: its request and the call it goes on from; *)
(* that calls begin in order; that a comparison that goes on has a school   *)
(* left; that a cursor is later than the one it was asked with and of the   *)
(* same query and books; and what its answer is.                            *)
AskInv(c) ==
    /\ ask[c].from \in 0..(c - 1)
    /\ turn[c] \in 0..Len(ask[c].req.schools)
    /\ pc[c] = "done" <=> got[c].kind # "none"
    /\ IF pc[c] = "idle" \/ got[c].kind = "failed" THEN ask[c] = NoAsk
       ELSE ask[c].req \in Requests /\ ask[c].index \in 1..Len(Index)

QueueInv(c) ==
    pc[c] # "idle" => \A b \in Calls : b < c => pc[b] # "idle"

GoingInv(c) ==
    /\ pc[c] = "compare" => SchoolsLeft(c) # {}
    /\ pc[c] # "done" => {"more", "walk", "indexes"} \subseteq DOMAIN got[c]

(* One key comes after another.                                             *)
Later(new, old) ==
    new.score < old.score \/ (new.score = old.score /\ new.doc > old.doc)

CursorInv(c) ==
    /\ got[c].more <=> got[c].next # NoCursor
    /\ got[c].more =>
         /\ got[c].next.fp = Fingerprint(ask[c].index, ask[c].req.scope)
         /\ got[c].next.qh = ask[c].req.q
         /\ got[c].next.after \in [score : Nat, doc : Nat]
         /\ ask[c].from # 0 => Later(got[c].next.after, got[ask[c].from].next.after)

Documents == UNION {Index[v] : v \in 1..Len(Index)}

(* Passages of the first schools; of each page one, if no book is shared.   *)
FromSchools(schools, n, w) ==
    /\ w \in Seq(Documents)
    /\ \A i \in 1..Len(w) : \E k \in 1..n : w[i].book \in schools[k]
    /\ (\A k, l \in 1..Len(schools) : k # l => schools[k] \cap schools[l] = {}) =>
          \A i, j \in 1..Len(w) : Page(w[i]) = Page(w[j]) => i = j

AnswerInv(c) ==
    LET r == ask[c].req
    IN  /\ got[c].kind = "ok" /\ got[c].pure /\ r.tool = "search" =>
              Walked(ask[c].index, r.q, r.scope, got[c])
        /\ got[c].kind = "ok" /\ got[c].pure /\ r.tool = "discover" =>
              Listed(ask[c].index, r.q, r.scope, got[c])
        /\ r.tool = "compare" => FromSchools(r.schools, turn[c], got[c].walk)

WalkInv(c) ==
    AskInv(c) /\ QueueInv(c) /\ GoingInv(c) /\ CursorInv(c) /\ AnswerInv(c)

Helper ==
    /\ disk \in 1..Len(Index) /\ proc \in 0..disk
    /\ turn = [c \in Calls |-> turn[c]]

(* The invariant of walks. It is needed in whole: a walk is right because   *)
(* the walk its cursor came from was (AnswerInv), over the same matches     *)
(* (CursorInv, IInv), and comes after it (CameTo in Walked).                *)
WInv == IInv /\ Helper /\ \A c \in Calls : WalkInv(c)

-----------------------------------------------------------------------------
(* Requests are batches that can be made, for a comparison one of each      *)
(* school.                                                                  *)
LEMMA AskedRight ==
    ASSUME NEW r \in Requests
    PROVE  /\ Batched(r) /\ r.schools \in Seq(SUBSET Nat)
           /\ r.tool \in {"search", "discover", "compare"}
           /\ \A s \in SUBSET Nat : Batched([r EXCEPT !.scope = s])
           /\ \A s : [r EXCEPT !.scope = s].q = r.q /\ [r EXCEPT !.scope = s].scope = s
BY SearchAssumption DEF SearchAssumption, Batched

(* A call that waits for matches or counts, and the call it goes on from.   *)
LEMMA Waits ==
    ASSUME WInv, NEW c \in Calls, pc[c] \in Lists
    PROVE  /\ ask[c].req \in Requests /\ ask[c].req.tool = pc[c]
           /\ Opened = ask[c].index /\ ask[c].index \in 1..Len(Index)
           /\ ask[c].from # 0 => ask[c].from \in Calls /\ ask[c].from # c
  <1>1. WaitInv(c) /\ FromInv(c) /\ AskInv(c) /\ OpenInv(c)
    BY DEF WInv, IInv, CallInv, WalkInv
  <1>2. Opened = ask[c].index /\ ask[c].req.tool = pc[c]
    BY <1>1 DEF WaitInv, Opened
  <1>3. ask[c].req \in Requests /\ ask[c].index \in 1..Len(Index)
    BY <1>1 DEF AskInv, OpenInv, Lists
  <1>4. ask[c].from # 0 => ask[c].from \in Calls /\ ask[c].from # c
    BY <1>1 DEF FromInv, Lists
  <1> QED
    BY <1>2, <1>3, <1>4

(* The call it goes on from was over, with a cursor for the same query,     *)
(* books and index.                                                         *)
LEMMA GoesFrom ==
    ASSUME WInv, NEW c \in Calls, pc[c] \in Lists,
           ~Stale(Cursor(ask[c].from),
                  Fingerprint(ask[c].index, ask[c].req.scope), ask[c].req.q),
           NEW b, b = ask[c].from, b # 0
    PROVE  /\ b \in Calls /\ got[b].kind = "ok" /\ got[b].more /\ got[b].next # NoCursor
           /\ Earlier(ask[c].from) = got[b] /\ Cursor(ask[c].from) = got[b].next
           /\ got[b].next.after \in [score : Nat, doc : Nat]
           /\ ask[b].index = ask[c].index
           /\ ask[b].req.scope = ask[c].req.scope /\ ask[b].req.q = ask[c].req.q
  <1>1. b \in Calls /\ pc[b] = "done" /\ got[b].next # NoCursor
    BY DEF WInv, IInv, CallInv, FromInv
  <1>2. DoneInv(b) /\ CursorInv(b)
    BY <1>1 DEF WInv, IInv, CallInv, WalkInv
  <1>3. got[b].kind = "ok" /\ got[b].more
    BY <1>1, <1>2 DEF DoneInv, CursorInv
  <1>4. /\ got[b].next.fp = Fingerprint(ask[b].index, ask[b].req.scope)
        /\ got[b].next.qh = ask[b].req.q
        /\ got[b].next.after \in [score : Nat, doc : Nat]
    BY <1>2, <1>3 DEF CursorInv
  <1>5. Earlier(ask[c].from) = got[b] /\ Cursor(ask[c].from) = got[b].next
    BY DEF Cursor, Earlier
  <1>6. /\ got[b].next.fp = Fingerprint(ask[c].index, ask[c].req.scope)
        /\ got[b].next.qh = ask[c].req.q
    BY <1>1, <1>5 DEF Stale
  <1>7. ask[b].index = ask[c].index /\ ask[b].req.scope = ask[c].req.scope
    BY <1>4, <1>6 DEF Fingerprint
  <1> QED
    BY <1>1, <1>3, <1>4, <1>5, <1>6, <1>7

(* An answer adds its batch to the walk before it.                          *)
LEMMA Continued ==
    ASSUME NEW c, NEW v, NEW batch
    PROVE  LET a == Continue(c, v, batch)
           IN  /\ Adds(a, Earlier(ask[c].from), batch) /\ a.kind = "ok"
               /\ a.pure => /\ Earlier(ask[c].from).pure
                            /\ ask[c].from # 0 => ask[ask[c].from].req.tool = ask[c].req.tool
BY DEF Continue, Adds

-----------------------------------------------------------------------------
(* The answer of a search to come.                                          *)
Answered(c, a) ==
    LET r == ask[c].req
        past == Earlier(ask[c].from)
    IN  /\ a.more <=> a.next # NoCursor
        /\ a.more =>
             /\ a.next.fp = Fingerprint(ask[c].index, r.scope) /\ a.next.qh = r.q
             /\ a.next.after \in [score : Nat, doc : Nat]
             /\ ask[c].from # 0 => Later(a.next.after, past.next.after)
        /\ a.pure /\ r.tool = "search" => Walked(ask[c].index, r.q, r.scope, a)
        /\ a.pure /\ r.tool = "discover" => Listed(ask[c].index, r.q, r.scope, a)

(* The answer of a search is a walk, and its cursor a later one.            *)
LEMMA SearchAnswered ==
    ASSUME WInv, NEW c \in Calls, pc[c] = "search",
           ~Stale(Cursor(ask[c].from),
                  Fingerprint(ask[c].index, ask[c].req.scope), ask[c].req.q)
    PROVE  Answered(c, Continue(c, Opened,
                        RunBatchedSearch(Opened, ask[c].req, Cursor(ask[c].from))))
  <1> DEFINE cursor == Cursor(ask[c].from)
             r == ask[c].req
             past == Earlier(ask[c].from)
             batch == RunBatchedSearch(Opened, r, cursor)
             a == Continue(c, Opened, batch)
  <1>1. /\ r \in Requests /\ r.tool = "search"
        /\ Opened = ask[c].index /\ ask[c].index \in 1..Len(Index)
    BY Waits DEF Lists
  <1>2. PICK v \in 1..Len(Index) : v = ask[c].index /\ v = Opened
    BY <1>1
  <1>3. PICK q \in Queries : q = r.q
    BY <1>1, AskedRight DEF Batched
  <1>4. Batched(r) /\ GoesOn(v, r, cursor)
    BY <1>1, AskedRight, BatchOf
  <1>5. /\ ~batch.more => batch.next = NoCursor
        /\ batch.more =>
             /\ \E k \in SearchAfter(q, Matching(v, q), Place(cursor)) : batch.next.after = Key(q, k)
             /\ batch.next # NoCursor
             /\ batch.next.fp = Fingerprint(v, r.scope) /\ batch.next.qh = q
    BY <1>2, <1>3, <1>4 DEF GoesOn
  <1>6. Adds(a, past, batch)
        /\ (a.pure /\ ask[c].from # 0 => ask[ask[c].from].req.tool = "search" /\ past.pure)
    BY <1>1, Continued
  <1>7. a.more = batch.more /\ a.next = batch.next
    BY <1>6 DEF Adds
  <1>8. ASSUME NEW k \in SearchAfter(q, Matching(v, q), Place(cursor))
        PROVE  /\ Key(q, k) \in [score : Nat, doc : Nat]
               /\ ask[c].from # 0 => Later(Key(q, k), past.next.after)
    <2>1. k \in Index[v] /\ k.score[q] \in Nat /\ k.doc \in Nat
      <3>1. k \in Index[v]
        BY DEF SearchAfter, Matching
      <3> QED
        BY <3>1, IndexFacts
    <2>2. Key(q, k) = [score |-> k.score[q], doc |-> k.doc]
      BY DEF Key
    <2>3. ASSUME ask[c].from # 0 PROVE Later(Key(q, k), past.next.after)
      <3> DEFINE b == ask[c].from
      <3>1. /\ past = got[b] /\ cursor = got[b].next /\ cursor # NoCursor
            /\ cursor.after \in [score : Nat, doc : Nat]
        <4>1. pc[c] \in Lists
          BY DEF Lists
        <4>2. /\ Earlier(b) = got[b] /\ Cursor(b) = got[b].next
              /\ got[b].next # NoCursor /\ got[b].next.after \in [score : Nat, doc : Nat]
          <5> HIDE DEF a, batch, past, cursor, r
          <5> QED
            BY <2>3, <4>1, GoesFrom
        <4> HIDE DEF a, batch
        <4> QED
          BY <4>2
      <3>2. PICK x \in Nat, y \in Nat : cursor.after = [score |-> x, doc |-> y]
        BY <3>1
      <3>3. [score |-> x, doc |-> y] # Start
        BY DEF Start
      <3>4. Place(cursor) = [score |-> x, doc |-> y] /\ past.next.after = [score |-> x, doc |-> y]
        BY <3>1, <3>2 DEF Place
      <3>5. k.score[q] < x \/ (k.score[q] = x /\ k.doc > y)
        BY <3>3, <3>4 DEF SearchAfter
      <3> HIDE DEF cursor, past
      <3> QED
        BY <2>1, <2>2, <3>4, <3>5 DEF Later
    <2> HIDE DEF past
    <2> QED
      BY <2>1, <2>2, <2>3
  <1>9. ASSUME a.pure PROVE Walked(v, r.q, r.scope, a)
    <2>1. CASE ask[c].from = 0
      <3>1. past = NoAnswer /\ cursor = NoCursor
        BY <2>1, NothingWalked DEF Cursor, Earlier
      <3> HIDE DEF a, batch, past, cursor
      <3>2. batch = RunBatchedSearch(v, r, NoCursor)
        BY <1>2, <3>1 DEF batch
      <3> HIDE DEF r
      <3> QED
        BY <1>4, <1>6, <3>1, <3>2, WalkBegins
    <2>2. CASE ask[c].from # 0
      <3> DEFINE b == ask[c].from
      <3>1. /\ b \in Calls /\ got[b].kind = "ok" /\ got[b].more /\ got[b].next # NoCursor
            /\ past = got[b] /\ cursor = got[b].next
            /\ ask[b].index = v /\ ask[b].req.scope = r.scope /\ ask[b].req.q = r.q
        <4>1. pc[c] \in Lists
          BY DEF Lists
        <4>2. /\ b \in Calls /\ got[b].kind = "ok" /\ got[b].more /\ got[b].next # NoCursor
              /\ Earlier(b) = got[b] /\ Cursor(b) = got[b].next
              /\ ask[b].index = ask[c].index
              /\ ask[b].req.scope = ask[c].req.scope /\ ask[b].req.q = ask[c].req.q
          <5> HIDE DEF a, batch, past, cursor, r
          <5> QED
            BY <2>2, <4>1, GoesFrom
        <4> HIDE DEF a, batch, b
        <4> QED
          BY <1>2, <4>2 DEF b
      <3>2. ask[b].req.tool = "search" /\ got[b].pure
        BY <1>6, <1>9, <2>2, <3>1
      <3>3. Walked(v, r.q, r.scope, past)
        BY <3>1, <3>2 DEF WInv, WalkInv, AnswerInv
      <3>4. past.more /\ past.next # NoCursor /\ batch = RunBatchedSearch(v, r, past.next)
        BY <1>2, <3>1
      <3> HIDE DEF a, batch, past, cursor, r
      <3> QED
        BY <1>4, <1>6, <3>3, <3>4, WalkGoesOn
    <2> QED
      BY <2>1, <2>2
  <1>10. a.more <=> a.next # NoCursor
    <2> HIDE DEF a, batch
    <2> QED
      BY <1>5, <1>7
  <1>11. ASSUME a.more
         PROVE  /\ a.next.fp = Fingerprint(ask[c].index, r.scope) /\ a.next.qh = r.q
                /\ a.next.after \in [score : Nat, doc : Nat]
                /\ ask[c].from # 0 => Later(a.next.after, past.next.after)
    <2> HIDE DEF a, batch, past
    <2> QED
      BY <1>2, <1>3, <1>5, <1>7, <1>8, <1>11
  <1> HIDE DEF a, batch
  <1> QED
    BY <1>1, <1>2, <1>9, <1>10, <1>11 DEF Answered, a, batch

(* The answer of a listing is a beginning of the list.                      *)
LEMMA CountsAnswered ==
    ASSUME WInv, NEW c \in Calls, pc[c] = "discover",
           ~Stale(Cursor(ask[c].from),
                  Fingerprint(ask[c].index, ask[c].req.scope), ask[c].req.q)
    PROVE  Answered(c, Continue(c, Opened,
                        DiscoverIssue(Opened, ask[c].req, Cursor(ask[c].from))))
  <1> DEFINE cursor == Cursor(ask[c].from)
             r == ask[c].req
             past == Earlier(ask[c].from)
             batch == DiscoverIssue(Opened, r, cursor)
             a == Continue(c, Opened, batch)
  <1>1. /\ r \in Requests /\ r.tool = "discover"
        /\ Opened = ask[c].index /\ ask[c].index \in 1..Len(Index)
    BY Waits DEF Lists
  <1>2. PICK v \in 1..Len(Index) : v = ask[c].index /\ v = Opened
    BY <1>1
  <1>3. Batched(r)
    BY <1>1, AskedRight
  <1>4. ASSUME ask[c].from # 0
        PROVE  LET b == ask[c].from
               IN  /\ b \in Calls /\ got[b].kind = "ok" /\ got[b].more
                   /\ got[b].next # NoCursor /\ past = got[b] /\ cursor = got[b].next
                   /\ got[b].next.after \in [score : Nat, doc : Nat]
                   /\ ask[b].index = v /\ ask[b].req.scope = r.scope /\ ask[b].req.q = r.q
    <2> DEFINE b == ask[c].from
    <2>1. pc[c] \in Lists
      BY DEF Lists
    <2>2. /\ b \in Calls /\ got[b].kind = "ok" /\ got[b].more /\ got[b].next # NoCursor
          /\ Earlier(b) = got[b] /\ Cursor(b) = got[b].next
          /\ got[b].next.after \in [score : Nat, doc : Nat]
          /\ ask[b].index = ask[c].index
          /\ ask[b].req.scope = ask[c].req.scope /\ ask[b].req.q = ask[c].req.q
      <3> HIDE DEF a, batch, past, cursor, r
      <3> QED
        BY <1>4, <2>1, GoesFrom
    <2> HIDE DEF a, batch
    <2> QED
      BY <1>2, <2>2
  <1>5. ask[c].from = 0 => past = NoAnswer /\ cursor = NoCursor
    BY NothingWalked DEF Cursor, Earlier
  <1>6. SliceOf(v, r, cursor)
    <2>1. cursor # NoCursor => cursor.after.doc \in Nat
      BY <1>4, <1>5
    <2> HIDE DEF cursor, r
    <2> QED
      BY <1>3, <2>1, DiscoverOf
  <1>7. PICK n, start : /\ n = start + Len(batch.given)
                        /\ start = IF cursor = NoCursor THEN 0 ELSE cursor.after.doc
                        /\ ~batch.more => batch.next = NoCursor
                        /\ batch.more =>
                             /\ batch.next # NoCursor
                             /\ batch.next.fp = Fingerprint(v, r.scope) /\ batch.next.qh = r.q
                             /\ batch.next.after = [score |-> 0, doc |-> n]
                             /\ n > start
                        /\ Len(batch.given) \in Nat
    <2>1. Len(batch.given) \in Nat
      <3>1. batch.given \in Seq(Entries)
        BY <1>2, <1>6 DEF SliceOf
      <3> HIDE DEF batch
      <3> QED
        BY <3>1
    <2> QED
      BY <1>2, <1>6, <2>1 DEF SliceOf
  <1>8. Adds(a, past, batch)
        /\ (a.pure /\ ask[c].from # 0 => ask[ask[c].from].req.tool = "discover" /\ past.pure)
    BY <1>1, Continued
  <1>9. a.more = batch.more /\ a.next = batch.next
    BY <1>8 DEF Adds
  <1>10. start \in Nat /\ n \in Nat
    <2> HIDE DEF batch, past
    <2> QED
      BY <1>4, <1>5, <1>7
  <1>11. a.more <=> a.next # NoCursor
    <2> HIDE DEF a, batch, cursor
    <2> QED
      BY <1>7, <1>9
  <1>12. ASSUME a.more
         PROVE  /\ a.next.fp = Fingerprint(ask[c].index, r.scope) /\ a.next.qh = r.q
                /\ a.next.after \in [score : Nat, doc : Nat]
                /\ ask[c].from # 0 => Later(a.next.after, past.next.after)
    <2>1. /\ a.next.fp = Fingerprint(v, r.scope) /\ a.next.qh = r.q
          /\ a.next.after = [score |-> 0, doc |-> n] /\ n > start
      <3> HIDE DEF a, batch, cursor, r
      <3> QED
        BY <1>7, <1>9, <1>12
    <2>2. ASSUME ask[c].from # 0 PROVE Later(a.next.after, past.next.after)
      <3>1. past.next = cursor /\ cursor # NoCursor /\ cursor.after \in [score : Nat, doc : Nat]
        BY <1>4, <2>2
      <3>2. PICK x \in Nat, y \in Nat : cursor.after = [score |-> x, doc |-> y]
        BY <3>1
      <3>3. start = y
        BY <1>7, <3>1, <3>2
      <3> HIDE DEF a, batch, past, cursor
      <3> QED
        BY <1>10, <2>1, <3>1, <3>2, <3>3 DEF Later
    <2> HIDE DEF a, batch, past, r
    <2> QED
      BY <1>2, <1>10, <2>1, <2>2
  <1>13. ASSUME a.pure PROVE Listed(v, r.q, r.scope, a)
    <2>1. past = NoAnswer \/ (Listed(v, r.q, r.scope, past) /\ past.more /\ past.next # NoCursor)
      <3>1. CASE ask[c].from = 0
        BY <1>5, <3>1
      <3>2. CASE ask[c].from # 0
        <4> DEFINE b == ask[c].from
        <4>1. ask[b].req.tool = "discover" /\ got[b].pure
          BY <1>4, <1>8, <1>13, <3>2
        <4>2. Listed(v, r.q, r.scope, got[b])
          BY <1>4, <3>2, <4>1 DEF WInv, WalkInv, AnswerInv
        <4> QED
          BY <1>4, <3>2, <4>2
      <3> QED
        BY <3>1, <3>2
    <2>2. batch = DiscoverIssue(v, r, past.next)
      BY <1>2 DEF Cursor
    <2> HIDE DEF a, batch, past, cursor, r
    <2> QED
      BY <1>3, <1>8, <2>1, <2>2, ListGoesOn
  <1> HIDE DEF a, batch
  <1> QED
    BY <1>1, <1>2, <1>11, <1>12, <1>13 DEF Answered, a, batch

-----------------------------------------------------------------------------
(* The school in turn adds its passages; its books are no earlier school's. *)
LEMMA SchoolAdds ==
    ASSUME NEW v \in 1..Len(Index), NEW r \in Requests,
           NEW n \in 0..Len(r.schools), NEW k \in (n + 1)..Len(r.schools),
           NEW w, FromSchools(r.schools, n, w)
    PROVE  FromSchools(r.schools, k,
               w \o RunBatchedSearch(v, [r EXCEPT !.scope = r.schools[k]], NoCursor).given)
  <1> DEFINE s == [r EXCEPT !.scope = r.schools[k]]
             given == RunBatchedSearch(v, s, NoCursor).given
             all == w \o given
             schools == r.schools
  <1>1. schools \in Seq(SUBSET Nat) /\ n \in Nat /\ k \in 1..Len(schools) /\ n < k /\ Len(schools) \in Nat
    BY AskedRight
  <1>2. schools[k] \in SUBSET Nat
    BY <1>1
  <1>3. Batched(s) /\ s.scope = schools[k] /\ s.q = r.q
    BY <1>2, AskedRight
  <1>4. GoesOn(v, s, NoCursor)
    <2> HIDE DEF s
    <2> QED
      BY <1>3, BatchOf
  <1> DEFINE left == SearchAfter(s.q, Sought(v, s.q, s.scope), Place(NoCursor))
  <1>5. /\ given \in Seq(left)
        /\ \A i, j \in 1..Len(given) : Page(given[i]) = Page(given[j]) => i = j
    BY <1>4 DEF GoesOn, Orderly
  <1>6. left \subseteq Documents /\ \A d \in left : d.book \in schools[k]
    BY <1>3 DEF SearchAfter, Sought, Matching, Documents
  <1>7. given \in Seq(Documents) /\ \A i \in 1..Len(given) : given[i].book \in schools[k]
    <2> HIDE DEF left, given
    <2> QED
      BY <1>5, <1>6
  <1>8. w \in Seq(Documents)
    BY DEF FromSchools
  <1> HIDE DEF given, left, s
  <1>9. /\ all \in Seq(Documents) /\ Len(all) = Len(w) + Len(given)
        /\ \A i \in 1..Len(w) : all[i] = w[i]
        /\ \A i \in (Len(w) + 1)..(Len(w) + Len(given)) :
              i - Len(w) \in 1..Len(given) /\ all[i] = given[i - Len(w)]
        /\ Len(w) \in Nat /\ Len(given) \in Nat
    <2> HIDE DEF Documents
    <2> QED
      BY <1>7, <1>8, Joined
  <1>10. /\ \A i \in 1..Len(w) : \E l \in 1..n : all[i].book \in schools[l]
         /\ \A i \in (Len(w) + 1)..(Len(w) + Len(given)) : all[i].book \in schools[k]
    <2>1. \A i \in 1..Len(w) : \E l \in 1..n : w[i].book \in schools[l]
      BY DEF FromSchools
    <2> HIDE DEF all, schools
    <2>2. \A i \in 1..Len(w) : \E l \in 1..n : all[i].book \in schools[l]
      BY <1>9, <2>1
    <2>3. \A i \in (Len(w) + 1)..(Len(w) + Len(given)) : all[i].book \in schools[k]
      BY <1>7, <1>9
    <2> QED
      BY <2>2, <2>3
  <1> HIDE DEF all, schools
  <1>11. ASSUME NEW i \in 1..Len(all) PROVE \E l \in 1..k : all[i].book \in schools[l]
    <2>1. CASE i \in 1..Len(w)
      BY <1>1, <1>10, <2>1
    <2>2. CASE i \in (Len(w) + 1)..(Len(w) + Len(given))
      BY <1>1, <1>10, <2>2
    <2> QED
      BY <1>9, <2>1, <2>2
  <1>12. ASSUME \A l, m \in 1..Len(schools) : l # m => schools[l] \cap schools[m] = {}
         PROVE  \A i, j \in 1..Len(all) : Page(all[i]) = Page(all[j]) => i = j
    <2>1. ASSUME NEW i \in 1..Len(w), NEW j \in (Len(w) + 1)..(Len(w) + Len(given))
          PROVE  Page(all[i]) # Page(all[j])
      <3>1. PICK l \in 1..n : all[i].book \in schools[l]
        BY <1>10
      <3>2. all[j].book \in schools[k]
        BY <1>10
      <3>3. schools[l] \cap schools[k] = {}
        <4>1. l \in 1..Len(schools) /\ l # k /\ k \in 1..Len(schools)
          BY <1>1
        <4> QED
          BY <1>12, <4>1
      <3>4. all[i].book # all[j].book
        BY <3>1, <3>2, <3>3
      <3> QED
        BY <3>4 DEF Page
    <2>2. ASSUME NEW i \in 1..Len(w), NEW j \in 1..Len(w), Page(all[i]) = Page(all[j]) PROVE i = j
      <3>1. \A x, y \in 1..Len(w) : Page(w[x]) = Page(w[y]) => x = y
        BY <1>12 DEF FromSchools, schools
      <3> QED
        BY <1>9, <2>2, <3>1
    <2>3. ASSUME NEW i \in (Len(w) + 1)..(Len(w) + Len(given)),
                 NEW j \in (Len(w) + 1)..(Len(w) + Len(given)), Page(all[i]) = Page(all[j])
          PROVE  i = j
      <3>1. PICK x \in 1..Len(given), y \in 1..Len(given) : x = i - Len(w) /\ y = j - Len(w)
        BY <1>9
      <3>2. all[i] = given[x] /\ all[j] = given[y]
        BY <1>9, <3>1
      <3>3. x = y
        BY <1>5, <2>3, <3>2
      <3> QED
        BY <1>9, <3>1, <3>3
    <2>4. ASSUME NEW i \in 1..Len(all), NEW j \in 1..Len(all), Page(all[i]) = Page(all[j]) PROVE i = j
      <3>1. /\ i \in 1..Len(w) \/ i \in (Len(w) + 1)..(Len(w) + Len(given))
            /\ j \in 1..Len(w) \/ j \in (Len(w) + 1)..(Len(w) + Len(given))
        BY <1>9
      <3> QED
        BY <2>1, <2>2, <2>3, <2>4, <3>1
    <2> QED
      BY <2>4
  <1> QED
    BY <1>9, <1>11, <1>12 DEF FromSchools, all, given, s, schools

(* The next school of a comparison is one of those left.                    *)
LEMMA NextLeft ==
    ASSUME NEW c, SchoolsLeft(c) # {}, turn[c] \in Nat, Len(ask[c].req.schools) \in Nat
    PROVE  Min(SchoolsLeft(c)) \in SchoolsLeft(c)
  <1>1. SchoolsLeft(c) \subseteq Nat
    BY DEF SchoolsLeft
  <1> QED
    BY <1>1, LeastOf

(* What a step leaves of a call it does not change.                         *)
LEMMA WalkFrame ==
    ASSUME WInv, NEW c \in Calls,
           pc'[c] = pc[c], ask'[c] = ask[c], turn'[c] = turn[c], got'[c] = got[c],
           \A b \in Calls : pc[b] # "idle" => pc'[b] # "idle",
           \A b \in Calls : pc[b] = "done" => got'[b] = got[b]
    PROVE  WalkInv(c)'
  <1>1. WalkInv(c) /\ FromInv(c)
    BY DEF WInv, IInv, CallInv
  <1>2. AskInv(c)' /\ QueueInv(c)' /\ AnswerInv(c)'
    BY <1>1 DEF WalkInv, AskInv, QueueInv, AnswerInv
  <1>3. GoingInv(c)'
    BY <1>1 DEF WalkInv, GoingInv, SchoolsLeft
  <1>4. CursorInv(c)'
    BY <1>1 DEF WalkInv, CursorInv, FromInv
  <1> QED
    BY <1>2, <1>3, <1>4 DEF WalkInv

-----------------------------------------------------------------------------
(* Each action. A search or a listing is answered.                          *)
LEMMA AnswerStep ==
    ASSUME WInv, NEW c \in Calls, SearchAnswers(c) \/ CountsAnswer(c)
    PROVE  Helper' /\ \A b \in Calls : WalkInv(b)'
  <1> DEFINE cursor == Cursor(ask[c].from)
             fp == Fingerprint(ask[c].index, ask[c].req.scope)
  <1>1. /\ pc[c] \in Lists /\ pc' = [pc EXCEPT ![c] = "done"]
        /\ UNCHANGED <<disk, proc, ask, turn>>
    BY DEF SearchAnswers, CountsAnswer, Lists
  <1>2. /\ got' = [got EXCEPT ![c] = got'[c]]
        /\ \/ got'[c] = [NoAnswer EXCEPT !.kind = "stale"]
           \/ got'[c].kind = "ok" /\ Answered(c, got'[c])
    <2>1. CASE SearchAnswers(c)
      <3>1. pc[c] = "search"
        BY <2>1 DEF SearchAnswers
      <3>2. ~Stale(cursor, fp, ask[c].req.q)
        BY <3>1 DEF WInv, IInv, CallInv, WaitInv, Lists
      <3> DEFINE batch == RunBatchedSearch(Opened, ask[c].req, cursor)
      <3>3. got' = [got EXCEPT ![c] = Continue(c, Opened, batch)]
        BY <2>1 DEF SearchAnswers
      <3>4. Answered(c, Continue(c, Opened, batch))
        BY <3>1, <3>2, SearchAnswered
      <3>5. Continue(c, Opened, batch).kind = "ok"
        BY Continued
      <3> HIDE DEF batch
      <3> QED
        BY <3>3, <3>4, <3>5 DEF WInv, IInv, Maps
    <2>2. CASE CountsAnswer(c)
      <3>1. pc[c] = "discover"
        BY <2>2 DEF CountsAnswer
      <3> DEFINE batch == DiscoverIssue(Opened, ask[c].req, cursor)
      <3>2. got' = [got EXCEPT ![c] = IF Stale(cursor, fp, ask[c].req.q)
                                      THEN [NoAnswer EXCEPT !.kind = "stale"]
                                      ELSE Continue(c, Opened, batch)]
        BY <2>2 DEF CountsAnswer
      <3>3. ~Stale(cursor, fp, ask[c].req.q) => Answered(c, Continue(c, Opened, batch))
        BY <3>1, CountsAnswered
      <3>4. Continue(c, Opened, batch).kind = "ok"
        BY Continued
      <3> HIDE DEF batch
      <3> QED
        BY <3>2, <3>3, <3>4 DEF WInv, IInv, Maps
    <2> QED
      BY <2>1, <2>2
  <1>3. Helper'
    BY <1>1 DEF WInv, Helper
  <1>4. ASSUME NEW b \in Calls, b # c PROVE WalkInv(b)'
    <2>1. pc'[b] = pc[b] /\ ask'[b] = ask[b] /\ turn'[b] = turn[b] /\ got'[b] = got[b]
      BY <1>1, <1>2, <1>4 DEF WInv, IInv, Maps
    <2>2. \A d \in Calls : pc[d] # "idle" => pc'[d] # "idle"
      BY <1>1 DEF WInv, IInv, Maps
    <2>3. \A d \in Calls : pc[d] = "done" => got'[d] = got[d]
      BY <1>1, <1>2 DEF Lists, WInv, IInv, Maps
    <2> QED
      BY <2>1, <2>2, <2>3, WalkFrame
  <1>5. WalkInv(c)'
    <2>1. WalkInv(c)
      BY DEF WInv
    <2>2. /\ ask[c].req \in Requests /\ ask[c].req.tool = pc[c]
          /\ ask[c].index \in 1..Len(Index)
          /\ ask[c].from # 0 => ask[c].from \in Calls \ {c}
      BY <1>1, Waits
    <2>3. pc'[c] = "done" /\ ask'[c] = ask[c] /\ turn'[c] = turn[c]
      BY <1>1 DEF WInv, IInv, Maps
    <2>4. got'[c].kind \in {"ok", "stale"}
      BY <1>2 DEF NoAnswer
    <2>5. AskInv(c)'
      <3>1. got'[c].kind # "none" /\ got'[c].kind # "failed"
        BY <2>4
      <3> QED
        BY <2>1, <2>2, <2>3, <3>1 DEF WalkInv, AskInv
    <2>6. QueueInv(c)' /\ GoingInv(c)'
      BY <1>1, <2>1, <2>3 DEF WalkInv, QueueInv, GoingInv, Lists
    <2>7. CursorInv(c)' /\ AnswerInv(c)'
      <3>1. CASE got'[c] = [NoAnswer EXCEPT !.kind = "stale"]
        <4>1. got'[c].kind = "stale" /\ got'[c].more = FALSE /\ got'[c].next = NoCursor
          BY <3>1, NothingWalked DEF NoAnswer
        <4> QED
          BY <1>1, <2>2, <2>3, <4>1 DEF CursorInv, AnswerInv, Lists
      <3>2. CASE Answered(c, got'[c])
        <4>1. ask[c].from # 0 => got'[ask[c].from] = Earlier(ask[c].from)
          BY <1>2, <2>2 DEF Earlier, WInv, IInv, Maps
        <4> QED
          BY <1>1, <2>2, <2>3, <3>2, <4>1 DEF Answered, CursorInv, AnswerInv, Lists
      <3> QED
        BY <1>2, <3>1, <3>2
    <2> QED
      BY <2>5, <2>6, <2>7 DEF WalkInv
  <1> QED
    BY <1>3, <1>4, <1>5

(* A call begins; it has walked nothing yet.                                *)
LEMMA BeginStep ==
    ASSUME WInv, NEW c \in Calls, NEW r \in Requests,
           NEW from \in {0} \cup (IF r.tool = "compare" THEN {} ELSE Continuable),
           Begin(c, r, from)
    PROVE  Helper' /\ \A b \in Calls : WalkInv(b)'
  <1>1. /\ r.tool \in {"search", "discover", "compare"} /\ r.schools \in Seq(SUBSET Nat)
        /\ Len(r.schools) \in Nat
    BY AskedRight
  <1>2. Opened \in 1..Len(Index) /\ Opened \in 0..disk
    BY DEF WInv, Helper, Opened
  <1>3. Helper'
    BY <1>2 DEF Begin, WInv, Helper
  <1>4. pc[c] = "idle" /\ WalkInv(c) /\ Calls \subseteq Nat \ {0}
    BY SearchAssumption DEF Begin, WInv, SearchAssumption
  <1>5. /\ ask'[c] = [req |-> r, from |-> from, index |-> Opened]
        /\ turn'[c] = 0
        /\ pc'[c] \in {"done", r.tool}
        /\ got'[c].kind \in {"none", "stale", "ok"}
        /\ pc'[c] = "done" <=> got'[c].kind # "none"
        /\ got'[c].kind = "ok" => r.tool = "compare"
        /\ got'[c].walk = <<>> /\ got'[c].more = FALSE /\ got'[c].next = NoCursor
        /\ {"more", "walk", "indexes"} \subseteq DOMAIN got'[c]
    <2>1. PICK kind \in {"none", "stale", "ok"} :
               /\ got'[c] = [NoAnswer EXCEPT !.kind = kind]
               /\ pc'[c] = IF kind = "none" THEN r.tool ELSE "done"
               /\ kind = "ok" => r.tool = "compare"
      BY DEF Begin, WInv, IInv, Maps
    <2>2. ask'[c] = [req |-> r, from |-> from, index |-> Opened]
      BY DEF Begin, WInv, IInv, Maps
    <2>3. turn'[c] = 0
      <3>1. ask[c] = NoAsk /\ turn[c] \in 0..Len(ask[c].req.schools)
        BY <1>4 DEF WalkInv, AskInv
      <3>2. ask[c].req.schools = <<>>
        BY <3>1 DEF NoAsk, NoRequest
      <3> QED
        BY <3>1, <3>2 DEF Begin
    <2>4. /\ got'[c].kind = kind /\ got'[c].walk = <<>> /\ got'[c].more = FALSE
          /\ got'[c].next = NoCursor /\ {"more", "walk", "indexes"} \subseteq DOMAIN got'[c]
      BY <2>1 DEF NoAnswer
    <2> QED
      BY <1>1, <2>1, <2>2, <2>3, <2>4
  <1>6. ASSUME NEW b \in Calls, b # c PROVE WalkInv(b)'
    <2>1. pc'[b] = pc[b] /\ ask'[b] = ask[b] /\ turn'[b] = turn[b] /\ got'[b] = got[b]
      BY <1>6 DEF Begin
    <2>2. \A d \in Calls : pc[d] # "idle" => pc'[d] # "idle"
      BY <1>4 DEF Begin
    <2>3. \A d \in Calls : pc[d] = "done" => got'[d] = got[d]
      BY <1>4 DEF Begin
    <2> QED
      BY <2>1, <2>2, <2>3, WalkFrame
  <1>7. from \in 0..(c - 1)
    <2>1. CASE from = 0
      BY <1>4, <2>1
    <2>2. CASE from # 0
      <3>1. from \in Calls /\ pc[from] # "idle"
        BY <2>2 DEF Continuable
      <3>2. ~(c < from)
        BY <1>4, <3>1 DEF WInv, WalkInv, QueueInv
      <3> QED
        BY <1>4, <3>1, <3>2
    <2> QED
      BY <2>1, <2>2
  <1>8. AskInv(c)'
    BY <1>1, <1>2, <1>5, <1>7 DEF AskInv
  <1>9. QueueInv(c)'
    BY <1>4 DEF QueueInv, Begin
  <1>10. GoingInv(c)'
    <2> SUFFICES ASSUME pc'[c] = "compare" PROVE SchoolsLeft(c)' # {}
      BY <1>5 DEF GoingInv
    <2>1. r.tool = "compare" /\ ~(ToSet(r.schools) \subseteq {{}})
      BY <1>1, <1>4, <1>5 DEF Begin, WInv, IInv, Maps
    <2>2. PICK k \in 1..Len(r.schools) : r.schools[k] # {}
      BY <1>1, <2>1 DEF ToSet
    <2>3. k \in (0 + 1)..Len(r.schools)
      OBVIOUS
    <2> QED
      BY <1>5, <2>2, <2>3 DEF SchoolsLeft
  <1>11. CursorInv(c)'
    BY <1>5 DEF CursorInv
  <1>12. AnswerInv(c)'
    <2>1. FromSchools(r.schools, 0, <<>>)
      BY DEF FromSchools
    <2>2. got'[c].kind = "ok" => r.tool = "compare"
      BY <1>5
    <2> QED
      BY <1>5, <2>1, <2>2 DEF AnswerInv
  <1> QED
    BY <1>3, <1>6, <1>8, <1>9, <1>10, <1>11, <1>12 DEF WalkInv

(* The schools of a comparison, one after another.                          *)
LEMMA SchoolStep ==
    ASSUME WInv, NEW c \in Calls, SchoolAnswers(c)
    PROVE  Helper' /\ \A b \in Calls : WalkInv(b)'
  <1> DEFINE r == ask[c].req
             k == Min(SchoolsLeft(c))
             given == RunBatchedSearch(Opened, [r EXCEPT !.scope = r.schools[k]], NoCursor).given
  <1>1. /\ pc[c] = "compare" /\ pc' = [pc EXCEPT ![c] = "text"]
        /\ UNCHANGED <<disk, proc, ask>>
        /\ turn' = [turn EXCEPT ![c] = k]
        /\ got' = [got EXCEPT ![c] = [got[c] EXCEPT !.walk = got[c].walk \o given,
                                                   !.indexes = got[c].indexes \cup {Opened}]]
    BY DEF SchoolAnswers
  <1>2. Helper'
    <2> HIDE DEF k
    <2> QED
      BY <1>1 DEF WInv, Helper
  <1>3. /\ WalkInv(c) /\ OpenInv(c) /\ r.tool = "compare"
        /\ Opened \in 1..Len(Index)
    BY <1>1 DEF WInv, IInv, CallInv, CompareInv, Helper, Opened
  <1>4. /\ r \in Requests /\ turn[c] \in 0..Len(r.schools)
        /\ SchoolsLeft(c) # {} /\ FromSchools(r.schools, turn[c], got[c].walk)
    BY <1>1, <1>3 DEF WalkInv, AskInv, GoingInv, AnswerInv, OpenInv
  <1>5. Len(r.schools) \in Nat
    BY <1>4, AskedRight
  <1>6. k \in (turn[c] + 1)..Len(r.schools)
    <2>1. turn[c] \in Nat
      BY <1>4, <1>5
    <2>2. k \in SchoolsLeft(c)
      BY <1>4, <1>5, <2>1, NextLeft
    <2> HIDE DEF k
    <2> QED
      BY <2>2 DEF SchoolsLeft
  <1>7. FromSchools(r.schools, k, got[c].walk \o given)
    BY <1>3, <1>4, <1>6, SchoolAdds
  <1> HIDE DEF given, k
  <1>8. ASSUME NEW b \in Calls, b # c PROVE WalkInv(b)'
    <2>1. pc'[b] = pc[b] /\ ask'[b] = ask[b] /\ turn'[b] = turn[b] /\ got'[b] = got[b]
      BY <1>1, <1>8 DEF WInv, IInv, Maps, Helper
    <2>2. \A d \in Calls : pc[d] # "idle" => pc'[d] # "idle"
      BY <1>1 DEF WInv, IInv, Maps
    <2>3. \A d \in Calls : pc[d] = "done" => got'[d] = got[d]
      BY <1>1 DEF WInv, IInv, Maps
    <2> QED
      BY <2>1, <2>2, <2>3, WalkFrame
  <1>9. WalkInv(c)'
    <2>1. pc'[c] = "text" /\ ask'[c] = ask[c] /\ turn'[c] = k
      BY <1>1 DEF WInv, IInv, Maps, Helper
    <2>2. got'[c] = [got[c] EXCEPT !.walk = got[c].walk \o given,
                                   !.indexes = got[c].indexes \cup {Opened}]
      BY <1>1 DEF WInv, IInv, Maps
    <2>3. /\ got'[c].kind = "none" /\ got'[c].next = NoCursor /\ got'[c].more = got[c].more
          /\ got'[c].walk = got[c].walk \o given
          /\ {"more", "walk", "indexes"} \subseteq DOMAIN got'[c]
      BY <1>1, <1>3, <2>2 DEF WalkInv, GoingInv, OpenInv
    <2>4. ~got[c].more
      BY <1>1, <1>3 DEF WalkInv, CursorInv, OpenInv
    <2>5. AskInv(c)'
      <3>1. k \in 0..Len(r.schools)
        BY <1>4, <1>5, <1>6
      <3>2. ask[c].index \in 1..Len(Index) /\ ask[c].from \in 0..(c - 1)
        BY <1>1, <1>3 DEF WalkInv, AskInv, OpenInv
      <3> QED
        BY <1>4, <2>1, <2>3, <3>1, <3>2 DEF AskInv
    <2>6. QueueInv(c)'
      BY <1>1, <1>3 DEF WalkInv, QueueInv, WInv, IInv, Maps
    <2>7. GoingInv(c)' /\ CursorInv(c)'
      BY <2>1, <2>3, <2>4 DEF GoingInv, CursorInv
    <2>8. AnswerInv(c)'
      BY <1>3, <1>7, <2>1, <2>3 DEF AnswerInv
    <2> QED
      BY <2>5, <2>6, <2>7, <2>8 DEF WalkInv
  <1> QED
    BY <1>2, <1>8, <1>9

(* A comparison goes on to the next school or is over.                      *)
LEMMA NextSchoolStep ==
    ASSUME WInv, NEW c \in Calls, NextSchool(c)
    PROVE  Helper' /\ \A b \in Calls : WalkInv(b)'
  <1> DEFINE over == SchoolsLeft(c) = {}
  <1>1. /\ pc[c] = "text" /\ pc' = [pc EXCEPT ![c] = IF over THEN "done" ELSE "compare"]
        /\ UNCHANGED <<disk, ask, turn>>
        /\ proc' = (IF over THEN proc ELSE Opened)
        /\ got' = [got EXCEPT ![c] = [got[c] EXCEPT !.kind = IF over THEN "ok" ELSE "none"]]
    BY DEF NextSchool
  <1> HIDE DEF over
  <1>2. Helper'
    BY <1>1 DEF WInv, Helper, Opened
  <1>3. ASSUME NEW b \in Calls, b # c PROVE WalkInv(b)'
    <2>1. pc'[b] = pc[b] /\ ask'[b] = ask[b] /\ turn'[b] = turn[b] /\ got'[b] = got[b]
      BY <1>1, <1>3 DEF WInv, IInv, Maps, Helper
    <2>2. \A d \in Calls : pc[d] # "idle" => pc'[d] # "idle"
      BY <1>1 DEF WInv, IInv, Maps
    <2>3. \A d \in Calls : pc[d] = "done" => got'[d] = got[d]
      BY <1>1 DEF WInv, IInv, Maps
    <2> QED
      BY <2>1, <2>2, <2>3, WalkFrame
  <1>4. WalkInv(c)'
    <2>1. /\ WalkInv(c) /\ OpenInv(c) /\ ask[c].req.tool = "compare"
      BY <1>1 DEF WInv, IInv, CallInv, CompareInv
    <2>2. /\ pc'[c] = (IF over THEN "done" ELSE "compare")
          /\ ask'[c] = ask[c] /\ turn'[c] = turn[c]
          /\ got'[c] = [got[c] EXCEPT !.kind = IF over THEN "ok" ELSE "none"]
      BY <1>1 DEF WInv, IInv, Maps, Helper
    <2>3. /\ got'[c].kind = (IF over THEN "ok" ELSE "none")
          /\ got'[c].next = got[c].next /\ got'[c].more = got[c].more
          /\ got'[c].walk = got[c].walk
          /\ {"more", "walk", "indexes"} \subseteq DOMAIN got'[c]
      BY <1>1, <2>1, <2>2 DEF WalkInv, GoingInv, OpenInv
    <2>4. ~got[c].more /\ got[c].next = NoCursor /\ got[c].kind = "none"
      BY <1>1, <2>1 DEF WalkInv, CursorInv, OpenInv
    <2>5. AskInv(c)'
      <3>1. /\ ask[c].req \in Requests /\ ask[c].index \in 1..Len(Index)
            /\ ask[c].from \in 0..(c - 1) /\ turn[c] \in 0..Len(ask[c].req.schools)
        BY <1>1, <2>1, <2>4 DEF WalkInv, AskInv
      <3> QED
        BY <2>2, <2>3, <3>1 DEF AskInv
    <2>6. QueueInv(c)'
      BY <1>1, <2>1 DEF WalkInv, QueueInv, WInv, IInv, Maps
    <2>7. GoingInv(c)'
      BY <2>2, <2>3 DEF GoingInv, SchoolsLeft, over
    <2>8. CursorInv(c)' /\ AnswerInv(c)'
      BY <2>1, <2>2, <2>3, <2>4 DEF WalkInv, CursorInv, AnswerInv
    <2> QED
      BY <2>5, <2>6, <2>7, <2>8 DEF WalkInv
  <1> QED
    BY <1>2, <1>3, <1>4

(* A call that fails keeps nothing.                                         *)
LEMMA FailStep ==
    ASSUME WInv, NEW cs \in SUBSET Waiting, Failed(cs), disk' = disk, proc' \in {0, proc}
    PROVE  Helper' /\ \A b \in Calls : WalkInv(b)'
  <1>1. Helper'
    <2>1. turn' = [b \in Calls |-> turn'[b]]
      BY DEF Failed
    <2>2. disk' \in 1..Len(Index) /\ proc' \in 0..disk'
      BY DEF WInv, Helper
    <2> QED
      BY <2>1, <2>2 DEF Helper
  <1>2. cs \subseteq Calls /\ \A b \in cs : pc[b] \notin {"done", "idle"}
    BY DEF Waiting
  <1>3. ASSUME NEW b \in Calls \ cs PROVE WalkInv(b)'
    <2>1. pc'[b] = pc[b] /\ ask'[b] = ask[b] /\ turn'[b] = turn[b] /\ got'[b] = got[b]
      BY DEF Failed
    <2>2. \A d \in Calls : pc[d] # "idle" => pc'[d] # "idle"
      BY DEF Failed
    <2>3. \A d \in Calls : pc[d] = "done" => got'[d] = got[d]
      BY <1>2 DEF Failed
    <2> QED
      BY <2>1, <2>2, <2>3, WalkFrame
  <1>4. ASSUME NEW b \in cs PROVE WalkInv(b)'
    <2>1. /\ pc'[b] = "done" /\ ask'[b] = NoAsk /\ turn'[b] = 0
          /\ got'[b] = [NoAnswer EXCEPT !.kind = "failed"]
      BY <1>2 DEF Failed
    <2>2. got'[b].kind = "failed" /\ got'[b].more = FALSE /\ got'[b].next = NoCursor
      BY <2>1 DEF NoAnswer
    <2>3. /\ ask'[b].from = 0 /\ ask'[b].req.tool = "none" /\ ask'[b].req.schools = <<>>
      BY <2>1 DEF NoAsk, NoRequest
    <2>4. b \in Nat \ {0} /\ Len(<<>>) = 0 /\ b \in Calls
      BY <1>2, SearchAssumption DEF SearchAssumption
    <2>5. AskInv(b)' /\ GoingInv(b)' /\ CursorInv(b)' /\ AnswerInv(b)'
      BY <2>1, <2>2, <2>3, <2>4 DEF AskInv, GoingInv, CursorInv, AnswerInv
    <2>6. QueueInv(b)'
      <3>1. QueueInv(b)
        BY <2>4 DEF WInv, WalkInv
      <3> QED
        BY <1>2, <3>1 DEF QueueInv, Failed
    <2> QED
      BY <2>5, <2>6 DEF WalkInv
  <1> QED
    BY <1>1, <1>3, <1>4

-----------------------------------------------------------------------------
(* Every step keeps the invariant of walks.                                 *)
LEMMA WalkStep == ASSUME WInv, [Next]_vars PROVE WInv'
  <1>1. IInv'
    BY InvStep DEF WInv
  <1> SUFFICES Helper' /\ \A b \in Calls : WalkInv(b)'
    BY <1>1 DEF WInv
  <1>2. CASE Rewrite
    <2>1. Helper'
      BY <1>2 DEF Rewrite, WInv, Helper
    <2>2. ASSUME NEW b \in Calls PROVE WalkInv(b)'
      BY <1>2, <2>2, WalkFrame DEF Rewrite
    <2> QED
      BY <2>1, <2>2
  <1>3. CASE UNCHANGED vars
    <2>1. Helper'
      BY <1>3 DEF vars, WInv, Helper
    <2>2. ASSUME NEW b \in Calls PROVE WalkInv(b)'
      BY <1>3, <2>2, WalkFrame DEF vars
    <2> QED
      BY <2>1, <2>2
  <1>4. ASSUME NEW c \in Calls, RequestFails(c) PROVE Helper' /\ \A b \in Calls : WalkInv(b)'
    <2>1. {c} \in SUBSET Waiting /\ Failed({c}) /\ disk' = disk /\ proc' \in {0, proc}
      BY <1>4 DEF RequestFails
    <2> QED
      BY <2>1, FailStep
  <1>5. CASE HelperEnds
    <2>1. Waiting \in SUBSET Waiting /\ Failed(Waiting) /\ disk' = disk /\ proc' \in {0, proc}
      BY <1>5 DEF HelperEnds
    <2> QED
      BY <2>1, FailStep
  <1> QED
    BY <1>2, <1>3, <1>4, <1>5, AnswerStep, BeginStep, SchoolStep, NextSchoolStep DEF Next

(* No call has walked at first.                                             *)
LEMMA WalkInit == Init => WInv
  <1> SUFFICES ASSUME Init PROVE WInv
    OBVIOUS
  <1>1. Helper
    <2>1. Len(Index) \in Nat /\ Len(Index) # 0
      BY IndexAssumption DEF IndexAssumption
    <2> QED
      BY <2>1 DEF Init, Helper
  <1>2. ASSUME NEW c \in Calls PROVE WalkInv(c)
    <2>1. /\ pc[c] = "idle" /\ ask[c] = NoAsk /\ turn[c] = 0 /\ got[c] = NoAnswer
      BY DEF Init
    <2>2. /\ ask[c].from = 0 /\ ask[c].req.tool = "none" /\ ask[c].req.schools = <<>>
      BY <2>1 DEF NoAsk, NoRequest
    <2>3. /\ c \in Nat \ {0} /\ Len(<<>>) = 0
      BY SearchAssumption DEF SearchAssumption
    <2>4. {"more", "walk", "indexes"} \subseteq DOMAIN got[c]
      BY <2>1 DEF NoAnswer
    <2> QED
      BY <2>1, <2>2, <2>3, <2>4, NothingWalked
      DEF WalkInv, AskInv, QueueInv, GoingInv, CursorInv, AnswerInv
  <1> QED
    BY <1>1, <1>2, InvInit DEF WInv

(* The invariant of walks, for every behaviour.                             *)
LEMMA WalksInvariant == Spec => []WInv
  BY WalkInit, WalkStep, PTL DEF Spec

-----------------------------------------------------------------------------
(* A call that was asked something.                                         *)
LEMMA AskedOf ==
    ASSUME WInv, NEW c \in Calls, ask[c].req.tool # "none"
    PROVE  /\ ask[c].req \in Requests /\ Batched(ask[c].req)
           /\ ask[c].req.schools \in Seq(SUBSET Nat)
           /\ ask[c].index \in 1..Len(Index)
  <1>1. AskInv(c)
    BY DEF WInv, WalkInv
  <1>2. ask[c].req \in Requests /\ ask[c].index \in 1..Len(Index)
    <2>1. NoAsk.req.tool = "none"
      BY DEF NoAsk, NoRequest
    <2> QED
      BY <1>1, <2>1 DEF AskInv
  <1> QED
    BY <1>2, AskedRight

(* TypeOK: a call has an answer when it is over and not before, asks of a   *)
(* known kind, and goes on only from a call made before it.                 *)
THEOREM CallsTyped == Spec => []TypeOK
<1>1. WInv => TypeOK
  <2> SUFFICES ASSUME WInv PROVE TypeOK
    OBVIOUS
  <2>1. disk \in 1..Len(Index) /\ proc \in 0..disk
    BY DEF WInv, Helper
  <2>2. pc \in [Calls -> {"idle", "search", "discover", "compare", "text", "done"}]
    BY DEF WInv, IInv, Maps, Phases
  <2>3. ASSUME NEW c \in Calls
        PROVE  /\ pc[c] = "done" <=> got[c].kind # "none"
               /\ ask[c].req.tool = "none" <=> pc[c] = "idle" \/ got[c].kind = "failed"
               /\ ask[c].from \in 0..(c - 1)
               /\ turn[c] \in 0..Len(ask[c].req.schools)
    <3>1. AskInv(c)
      BY DEF WInv, WalkInv
    <3>2. NoAsk.req.tool = "none"
      BY DEF NoAsk, NoRequest
    <3>3. ask[c].req \in Requests => ask[c].req.tool # "none"
      BY AskedRight
    <3>4. ask[c].req.tool = "none" <=> pc[c] = "idle" \/ got[c].kind = "failed"
      BY <3>1, <3>2, <3>3 DEF AskInv
    <3> QED
      BY <3>1, <3>4 DEF AskInv
  <2> QED
    BY <2>1, <2>2, <2>3 DEF TypeOK
<1> QED
  BY WalksInvariant, <1>1, PTL

(* Cursors advance.                                                         *)
LEMMA Advances == WInv => WalkAdvances
  <1> SUFFICES ASSUME WInv, NEW c \in Calls, got[c].more
               PROVE  /\ got[c].next # NoCursor
                      /\ ask[c].from # 0 => Later(got[c].next.after, got[ask[c].from].next.after)
    BY DEF WalkAdvances, Later
  <1>1. CursorInv(c)
    BY DEF WInv, WalkInv
  <1> QED
    BY <1>1 DEF CursorInv

(* A comparison of schools apart repeats no page.                           *)
LEMMA SchoolsOnce == WInv => DisjointSchoolsOnce
  <1> SUFFICES ASSUME WInv, NEW c \in Calls, ask[c].req.tool = "compare",
                      \A m, n \in DOMAIN ask[c].req.schools :
                         m # n => ask[c].req.schools[m] \cap ask[c].req.schools[n] = {}
               PROVE  \A i, j \in DOMAIN got[c].walk :
                         Page(got[c].walk[i]) = Page(got[c].walk[j]) => i = j
    BY DEF DisjointSchoolsOnce
  <1> DEFINE schools == ask[c].req.schools
             w == got[c].walk
  <1>1. FromSchools(schools, turn[c], w)
    BY DEF WInv, WalkInv, AnswerInv
  <1>2. schools \in Seq(SUBSET Nat)
    BY AskedOf
  <1>3. DOMAIN schools = 1..Len(schools)
    <2> HIDE DEF schools
    <2> QED
      BY <1>2
  <1>4. DOMAIN w = 1..Len(w)
    <2>1. w \in Seq(Documents)
      BY <1>1 DEF FromSchools
    <2> HIDE DEF w, Documents
    <2> QED
      BY <2>1
  <1>5. \A m, n \in 1..Len(schools) : m # n => schools[m] \cap schools[n] = {}
    BY <1>3
  <1> HIDE DEF schools, w
  <1>6. \A i, j \in 1..Len(w) : Page(w[i]) = Page(w[j]) => i = j
    BY <1>1, <1>5 DEF FromSchools
  <1> QED
    BY <1>4, <1>6 DEF w

(* An answer of a search, as the invariant has it.                          *)
LEMMA SearchWalked ==
    ASSUME WInv, NEW c \in Answers("search")
    PROVE  /\ c \in Calls /\ Batched(ask[c].req) /\ ask[c].index \in 1..Len(Index)
           /\ Walked(ask[c].index, ask[c].req.q, ask[c].req.scope, got[c])
           /\ Wanted(c) = Sought(ask[c].index, ask[c].req.q, ask[c].req.scope)
  <1>1. c \in Calls /\ got[c].kind = "ok" /\ got[c].pure /\ ask[c].req.tool = "search"
    BY DEF Answers
  <1>2. Batched(ask[c].req) /\ ask[c].index \in 1..Len(Index)
    BY <1>1, AskedOf
  <1>3. Walked(ask[c].index, ask[c].req.q, ask[c].req.scope, got[c])
    BY <1>1 DEF WInv, WalkInv, AnswerInv
  <1> QED
    BY <1>1, <1>2, <1>3 DEF Wanted, Sought

(* WalkExact: a walk of a search, over all its batches, gives matches of    *)
(* its scope in order of rank and once, none unreadable, and when it is     *)
(* over it has passed over none; cursors only advance; and a comparison of  *)
(* schools without a common book repeats no page. For any index, query,     *)
(* limits, budgets, and any deaths of the helper and rewrites between.      *)
THEOREM WalksExact == Spec => []WalkExact
<1>1. WInv => WalkExact
  <2> SUFFICES ASSUME WInv, NEW c \in Answers("search")
               PROVE  LET w == got[c].walk
                      IN  /\ ToSet(w) \subseteq Wanted(c)
                          /\ Pages(ToSet(w)) \cap Unreadable = {}
                          /\ \A i, j \in DOMAIN w : i < j => Before(ask[c].req.q, w[i], w[j])
                          /\ ~got[c].more /\ Tidy(ask[c].index) =>
                                Pages(ToSet(w) \cup got[c].lost) = Pages(Wanted(c))
    BY Advances, SchoolsOnce DEF WalkExact
  <2> DEFINE q == ask[c].req.q
             v == ask[c].index
             w == got[c].walk
             W == Wanted(c)
             lost == got[c].lost
  <2>1. Orderly(q, W, w, lost) /\ (~got[c].more /\ Tidy(v) => Told(W, w, lost))
    BY SearchWalked DEF Walked
  <2> HIDE DEF W, w, q, v, lost
  <2>2. w \in Seq(W) /\ lost \in SUBSET W
    BY <2>1 DEF Orderly
  <2>3. DOMAIN w = 1..Len(w) /\ ToSet(w) \subseteq W
    BY <2>2 DEF ToSet
  <2>4. /\ Pages(ToSet(w)) \cap Unreadable = {}
        /\ \A i, j \in DOMAIN w : i < j => Before(q, w[i], w[j])
    BY <2>1, <2>3 DEF Orderly
  <2>5. ASSUME ~got[c].more, Tidy(v) PROVE Pages(ToSet(w) \cup lost) = Pages(W)
    <3>1. \A d \in W : Page(d) \in Pages(ToSet(w) \cup lost)
      BY <2>1, <2>5 DEF Told
    <3>2. ToSet(w) \cup lost \subseteq W
      BY <2>2, <2>3
    <3> QED
      BY <3>1, <3>2 DEF Pages
  <2> QED
    BY <2>3, <2>4, <2>5 DEF W, w, q, v, lost
<1> QED
  BY WalksInvariant, <1>1, PTL

(* NumbersHonest: the delivered count of a cursor is the length of the walk *)
(* it continues, and an exact total of a scope with a book is the number of *)
(* matches of the scope, in every batch.                                    *)
THEOREM TotalsHonest == Spec => []NumbersHonest
<1>1. WInv => NumbersHonest
  <2> SUFFICES ASSUME WInv, NEW c \in Answers("search")
               PROVE  /\ got[c].next # NoCursor => got[c].next.delivered = Len(got[c].walk)
                      /\ got[c].exact /\ ask[c].req.scope # {} /\ Tidy(ask[c].index) =>
                            got[c].total = Cardinality(Wanted(c))
    BY DEF NumbersHonest
  <2>1. /\ Walked(ask[c].index, ask[c].req.q, ask[c].req.scope, got[c])
        /\ Wanted(c) = Sought(ask[c].index, ask[c].req.q, ask[c].req.scope)
        /\ c \in Calls
    BY SearchWalked
  <2>2. CursorInv(c)
    BY <2>1 DEF WInv, WalkInv
  <2> QED
    BY <2>1, <2>2 DEF Walked, CursorInv
<1> QED
  BY WalksInvariant, <1>1, PTL

(* BooksListed: the listing of books, over all its batches, names each book *)
(* once, most hits first, and when it is over and not cut by the walk limit *)
(* it has every book with a match, and their hits are the total.            *)
THEOREM ListingsWhole == Spec => []BooksListed
<1>1. WInv => BooksListed
  <2> SUFFICES ASSUME WInv, NEW c \in Answers("discover")
               PROVE  LET w == got[c].walk
                          books == {w[i].book : i \in DOMAIN w}
                      IN  /\ Cardinality(books) = Len(w)
                          /\ \A i, j \in DOMAIN w : i < j => w[i].hits >= w[j].hits
                          /\ got[c].exact /\ Tidy(ask[c].index) =>
                               /\ got[c].total = Cardinality(Wanted(c))
                               /\ ~got[c].more => books = {d.book : d \in Wanted(c)}
    BY DEF BooksListed
  <2>1. c \in Calls /\ got[c].kind = "ok" /\ got[c].pure /\ ask[c].req.tool = "discover"
    BY DEF Answers
  <2>2. Batched(ask[c].req) /\ ask[c].index \in 1..Len(Index)
    BY <2>1, AskedOf
  <2>3. PICK q \in Queries, scope \in SUBSET Nat, v \in 1..Len(Index) :
             q = ask[c].req.q /\ scope = ask[c].req.scope /\ v = ask[c].index
    BY <2>2 DEF Batched
  <2> DEFINE w == got[c].walk
             books == {w[i].book : i \in DOMAIN w}
             list == Listing(v, q, scope)
             counted == CountsByBook(v, q, scope)
             W == Sought(v, q, scope)
             total == HitsTogether(counted.hits, DOMAIN counted.hits \cap scope)
  <2>4. /\ w \in Seq(Entries) /\ Len(w) <= Len(list)
        /\ \A n \in 1..Len(w) : w[n] = list[n]
        /\ ~got[c].more => Len(w) = Len(list)
        /\ got[c].total = total
        /\ got[c].exact = ~counted.truncated
    <3>1. Listed(v, q, scope, got[c])
      BY <2>1, <2>3 DEF WInv, WalkInv, AnswerInv
    <3> QED
      BY <3>1 DEF Listed
  <2>5. /\ list \in Seq(Entries)
        /\ \A m, n \in 1..Len(list) :
              m < n => list[m].book # list[n].book /\ list[m].hits >= list[n].hits
        /\ ~counted.truncated /\ Tidy(v) =>
              /\ {list[n].book : n \in 1..Len(list)} = {d.book : d \in W}
              /\ total = Cardinality(W)
    BY ListingOf DEF ListedRight
  <2>6. Wanted(c) = W
    BY <2>3 DEF Wanted, Sought
  <2> HIDE DEF list, counted, W, total, w
  <2>7. Len(w) \in Nat /\ DOMAIN w = 1..Len(w) /\ Len(list) \in Nat
    BY <2>4, <2>5
  <2>8. ASSUME NEW i \in 1..Len(w), NEW j \in 1..Len(w), i < j
        PROVE  w[i].book # w[j].book /\ w[i].hits >= w[j].hits
    <3>1. i \in 1..Len(list) /\ j \in 1..Len(list)
      BY <2>4, <2>7
    <3>2. w[i] = list[i] /\ w[j] = list[j]
      BY <2>4
    <3> QED
      BY <2>5, <2>8, <3>1, <3>2
  <2>9. Cardinality(books) = Len(w)
    <3> DEFINE f == [i \in 1..Len(w) |-> w[i].book]
    <3>1. ASSUME NEW i \in 1..Len(w), NEW j \in 1..Len(w), f[i] = f[j] PROVE i = j
      BY <2>7, <2>8, <3>1
    <3>2. f \in [1..Len(w) -> books] /\ \A b \in books : \E i \in 1..Len(w) : f[i] = b
      BY <2>7
    <3> HIDE DEF f, books
    <3>3. f \in Bijection(1..Len(w), books)
      BY <3>1, <3>2 DEF Bijection, Injection, Surjection, IsInjective
    <3>4. IsFiniteSet(1..Len(w)) /\ Cardinality(1..Len(w)) = Len(w)
      <4>1. PICK n \in Nat : n = Len(w)
        BY <2>7
      <4>2. IsFiniteSet(1..n) /\ Cardinality(1..n) = n
        BY FS_Interval
      <4> QED
        BY <4>1, <4>2
    <3> QED
      BY <3>3, <3>4, FS_Bijection DEF ExistsBijection
  <2>10. ASSUME got[c].exact, Tidy(v)
         PROVE  /\ got[c].total = Cardinality(W)
                /\ ~got[c].more => books = {d.book : d \in W}
    <3>1. ~counted.truncated
      BY <2>4, <2>10
    <3>2. ~got[c].more => books = {list[n].book : n \in 1..Len(list)}
      BY <2>4, <2>7
    <3> QED
      BY <2>4, <2>5, <2>10, <3>1, <3>2
  <2> QED
    BY <2>3, <2>6, <2>7, <2>8, <2>9, <2>10 DEF w
<1> QED
  BY WalksInvariant, <1>1, PTL

=============================================================================
