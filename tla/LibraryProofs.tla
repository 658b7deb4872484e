---------------------------- MODULE LibraryProofs ----------------------------
(***************************************************************************)
(* What is promised of the library for any editions of the disk, any rules, *)
(* filters and requests, in four invariants: IInv, that the caches agree    *)
(* with each other and with the last refresh; CacheInv, that what was read  *)
(* could be read and that what is loaded is what the classifier made of it; *)
(* CmpInv, how far a comparison has come and what it has read; and WalkInv, *)
(* how far a walk through list_books has come. Books are put in order and   *)
(* counted by their rank (OrdersProofs).                                    *)
(***************************************************************************)
EXTENDS Library, OrdersProofs, SequenceTheorems

(* The books come from the rows and overrides that are cached, or there are *)
(* none; what is cached was read since the last refresh and is not from the *)
(* future, so that what is read next is not older either.                   *)
IInv ==
    /\ disk \in Nat /\ since \in Nat /\ since <= disk
    /\ cls \in Nat /\ (cls # 0 => cls >= since)
    /\ raw \in Nat /\ (raw # 0 => raw >= since)
    /\ loaded = Nothing \/ loaded.of = <<cls, raw>>

LEMMA InitIInv == Init => IInv
BY DEF Init, IInv

(* The strengthening says what is promised. *)
LEMMA IInvCurrent == IInv => CachesCurrent
<1> SUFFICES ASSUME IInv PROVE CachesCurrent
    OBVIOUS
<1>1. loaded.of = <<0, 0>> \/ loaded.of = <<cls, raw>>
    BY DEF IInv, Nothing
<1> QED
    BY <1>1 DEF IInv, CachesCurrent

(* What is kept or read from disk is no older than the last refresh. *)
LEMMA KeptCurrent ==
    ASSUME IInv, NEW c \in Nat, c # 0 => c >= since
    PROVE Kept(c) \in Nat /\ Kept(c) >= since
BY DEF IInv, Kept

(* Filling the caches, in whole or until something cannot be read. *)
LEMMA LoadKeeps ==
    ASSUME IInv, AllBooks \/ AllBooksFails, UNCHANGED <<disk, since>>
    PROVE IInv'
<1>1. CASE AllBooks
    <2>1. CASE loaded # Nothing /\ UNCHANGED caches
        BY <2>1 DEF IInv, caches
    <2>2. CASE cls' = Kept(cls) /\ raw' = Kept(raw) /\ loaded' = Classified(cls', raw')
        <3>1. loaded'.of = <<cls', raw'>>
            BY <2>2 DEF Classified
        <3> QED
            BY <2>2, <3>1, KeptCurrent DEF IInv
    <2> QED
        BY <1>1, <2>1, <2>2 DEF AllBooks
<1>2. CASE AllBooksFails
    <2>1. loaded' = Nothing /\ raw' = raw
        BY <1>2 DEF AllBooksFails
    <2>2. cls' = cls \/ cls' = Kept(cls)
        BY <1>2 DEF AllBooksFails
    <2> QED
        BY <2>1, <2>2, KeptCurrent DEF IInv
<1> QED
    BY <1>1, <1>2

(* Steps that touch neither the disk nor the caches. *)
LEMMA RestKeeps ==
    ASSUME IInv, UNCHANGED <<disk, caches, since>>
    PROVE IInv'
BY DEF IInv, caches

(* A comparison that goes on. *)
LEMMA ContinueKeeps ==
    ASSUME IInv, NEW q, Continue(q)
    PROVE IInv'
<1>1. UNCHANGED <<disk, since>>
    BY DEF Continue
<1>2. UNCHANGED caches \/ AllBooks \/ AllBooksFails
    BY DEF Continue
<1> QED
    BY <1>1, <1>2, LoadKeeps, RestKeeps

LEMMA NextIInv == IInv /\ [Next]_vars => IInv'
<1> SUFFICES ASSUME IInv, [Next]_vars PROVE IInv'
    OBVIOUS
<1>1. CASE Edit
    BY <1>1 DEF Edit, caches, IInv
<1>2. CASE Refresh
    <2>1. since' = disk /\ disk' = disk
        BY <1>2 DEF Refresh
    <2>2. \/ cls' = 0 /\ raw' = 0 /\ loaded' = Nothing
          \/ cls' = disk /\ raw' = disk /\ loaded' = Classified(disk, disk)
        BY <1>2 DEF Refresh, Reread
    <2>3. loaded' = Nothing \/ loaded'.of = <<cls', raw'>>
        BY <2>2 DEF Classified
    <2> QED
        BY <2>1, <2>2, <2>3 DEF IInv
<1>3. CASE Use
    BY <1>3, LoadKeeps DEF Use
<1>4. ASSUME NEW f \in Filters, ListFirst(f) PROVE IInv'
    BY <1>4, LoadKeeps DEF ListFirst
<1>5. CASE ListNext
    BY <1>5, LoadKeeps DEF ListNext
<1>6. ASSUME NEW r \in Requests, Compare(r) PROVE IInv'
    BY <1>6, ContinueKeeps DEF Compare
<1>7. CASE SchoolSearched
    <2>1. PICK q : Continue(q)
        BY <1>7 DEF SchoolSearched
    <2> QED
        BY <2>1, ContinueKeeps
<1>8. CASE ContextFetched
    BY <1>8, RestKeeps DEF ContextFetched
<1>9. CASE CompareFails
    BY <1>9, RestKeeps DEF CompareFails
<1>10. CASE UNCHANGED vars
    BY <1>10, RestKeeps DEF vars, caches
<1> QED
    BY <1>1, <1>2, <1>3, <1>4, <1>5, <1>6, <1>7, <1>8, <1>9, <1>10 DEF Next

(* Whatever is edited, refreshed and read in whichever order, the books are *)
(* those of the cached rows and overrides, and nothing cached is older than *)
(* the last refresh (context.ts 35-62, health.ts 139-153).                  *)
THEOREM CachesStayCurrent == Spec => []CachesCurrent
<1>1. Init => IInv
    BY InitIInv
<1>2. IInv /\ [Next]_vars => IInv'
    BY NextIInv
<1>3. IInv => CachesCurrent
    BY IInvCurrent
<1> QED
    BY <1>1, <1>2, <1>3, PTL DEF Spec

-----------------------------------------------------------------------------
(* Classification.                                                          *)

(* The strongest rules are some of those that fit, and a rule that fits and *)
(* is not among them is weaker than all of them.                            *)
LEMMA StrongestRules ==
    ASSUME NEW category
    PROVE  LET rules == Strongest(category)
           IN  /\ rules \subseteq DOMAIN Rules
               /\ \A n \in rules : Fits(Rules[n], category)
               /\ \A m \in DOMAIN Rules : Fits(Rules[m], category) /\ m \notin rules =>
                     ~Rules[m].equals /\ \A n \in rules : Rules[n].equals
  BY DEF Strongest

LEMMA RulesNumbered == DOMAIN Rules \subseteq Nat
  BY LibraryAssumption DEF LibraryAssumption

(* Rules that agree are of the school of each of them.                      *)
LEMMA AgreedOne ==
    ASSUME NEW rules \in SUBSET DOMAIN Rules, Agreed(rules)
    PROVE  /\ Min(rules) \in rules
           /\ \A n \in rules : Rules[n].school = Rules[Min(rules)].school
  <1>1. rules \subseteq Nat /\ rules # {}
    BY RulesNumbered DEF Agreed
  <1>2. Min(rules) \in rules
    BY <1>1, LeastOf
  <1>3. IsFiniteSet(DOMAIN Rules)
    <2>1. DOMAIN Rules = 1..Len(Rules) /\ Len(Rules) \in Nat
      BY LibraryAssumption DEF LibraryAssumption
    <2> QED
      BY <2>1, FS_Interval
  <1>4. IsFiniteSet(SchoolsOf(rules))
    <2>1. IsFiniteSet(rules)
      BY <1>3, FS_Subset
    <2> DEFINE f == [n \in rules |-> Rules[n].school]
    <2>2. f \in Surjection(rules, SchoolsOf(rules))
      BY DEF Surjection, SchoolsOf
    <2> QED
      BY <2>1, <2>2, FS_Surjection
  <1>5. PICK m : SchoolsOf(rules) = {m}
    BY <1>4, FS_Singleton DEF Agreed
  <1>6. ASSUME NEW n \in rules PROVE Rules[n].school = m
    BY <1>5 DEF SchoolsOf
  <1> QED
    BY <1>2, <1>6

(* A book that is given to a school without an override is given to the     *)
(* school on which the strongest rules for its category agree.              *)
LEMMA ClassifyByRule ==
    ASSUME NEW o, NEW row, NEW b
    PROVE  LET school == Classify(o, row, b).school
           IN  /\ b \in DOMAIN o.schools => school = o.schools[b]
               /\ b \notin DOMAIN o.schools /\ school # "unclassified" =>
                     LET rules == Strongest(row.category)
                     IN  Agreed(rules) /\ school = Rules[Min(rules)].school
  <1> DEFINE rules == IF row.category = NoCategory THEN {} ELSE Strongest(row.category)
             c == Classify(o, row, b)
  <1>1. CASE b \in DOMAIN o.schools
    BY <1>1 DEF Classify
  <1>2. CASE b \notin DOMAIN o.schools /\ Agreed(rules)
    <2>1. c.school = Rules[Min(rules)].school
      BY <1>2 DEF Classify
    <2>2. rules = Strongest(row.category)
      BY <1>2 DEF Agreed
    <2> QED
      BY <1>2, <2>1, <2>2
  <1>3. CASE b \notin DOMAIN o.schools /\ ~Agreed(rules)
    <2>1. c.school = "unclassified"
      BY <1>3 DEF Classify
    <2> QED
      BY <1>3, <2>1
  <1> QED
    BY <1>1, <1>2, <1>3

(* So a library that was classified gives its books to schools by rule.     *)
LEMMA ClassifiedByRule ==
    ASSUME NEW c, NEW r, loaded = Classified(c, r)
    PROVE  AttributedByRule
  <1> DEFINE books == loaded.books
             o == Overrides(loaded)
             rows == Master(loaded)
             Fitting(b) == {f \in ToSet(Rules) : Fits(f, rows[b].category)}
  <1>1. o = Editions[c].overrides /\ rows = Editions[r].master
    BY DEF Classified, Overrides, Master
  <1>2. books = [b \in DOMAIN rows \ o.exclude |-> Classify(o, rows[b], b)]
    BY <1>1 DEF Classified, ClassifyAll
  <1>3. ASSUME NEW b \in DOMAIN books
        PROVE  /\ b \notin o.exclude
               /\ b \in DOMAIN o.schools => books[b].school = o.schools[b]
    BY <1>2, ClassifyByRule
  <1>4. ASSUME NEW b \in DOMAIN books,
               b \notin DOMAIN o.schools, books[b].school # "unclassified"
        PROVE  \E f \in Fitting(b) :
                  /\ f.school = books[b].school
                  /\ \A g \in Fitting(b) : g.school # f.school => f.equals /\ ~g.equals
    <2> DEFINE category == rows[b].category
               rules == Strongest(category)
               first == Min(rules)
    <2>1. Agreed(rules) /\ books[b].school = Rules[first].school
      BY <1>2, <1>4, ClassifyByRule
    <2>2. /\ rules \in SUBSET DOMAIN Rules
          /\ \A n \in rules : Fits(Rules[n], category)
          /\ \A m \in DOMAIN Rules : Fits(Rules[m], category) /\ m \notin rules =>
                ~Rules[m].equals /\ \A n \in rules : Rules[n].equals
      BY StrongestRules
    <2>3. first \in rules /\ \A n \in rules : Rules[n].school = Rules[first].school
      BY <2>1, <2>2, AgreedOne
    <2> HIDE DEF first, rules, category
    <2>4. Rules[first] \in Fitting(b)
      BY <2>2, <2>3 DEF ToSet, category
    <2>5. ASSUME NEW g \in Fitting(b), g.school # Rules[first].school
          PROVE  Rules[first].equals /\ ~g.equals
      <3>1. PICK m \in DOMAIN Rules : g = Rules[m] /\ Fits(Rules[m], category)
        BY DEF ToSet, category
      <3>2. m \notin rules
        BY <2>3, <2>5, <3>1
      <3> QED
        BY <2>2, <2>3, <3>1, <3>2
    <2> QED
      BY <2>1, <2>4, <2>5
  <1> QED
    BY <1>3, <1>4 DEF AttributedByRule

-----------------------------------------------------------------------------
(* What was read could be read, and what is loaded is what was made of it.  *)
CacheInv ==
    /\ disk \in DOMAIN Editions /\ since \in 1..disk
    /\ cls \in 0..disk /\ (cls # 0 => Editions[cls].overrides # Unreadable)
    /\ raw \in 0..disk /\ (raw # 0 => Editions[raw].master # Unreadable)
    /\ loaded # Nothing => cls # 0 /\ raw # 0 /\ loaded = Classified(cls, raw)

LEMMA EditionsNumbered == Len(Editions) \in Nat \ {0} /\ DOMAIN Editions = 1..Len(Editions)
  <1>1. Editions # <<>> /\ Editions \in Seq(ToSet(Editions))
    BY LibraryAssumption DEF LibraryAssumption
  <1> QED
    BY <1>1

LEMMA CacheInit == Init => CacheInv
  BY EditionsNumbered DEF Init, CacheInv

LEMMA AllBooksCache ==
    ASSUME CacheInv, AllBooks \/ AllBooksFails, UNCHANGED <<disk, since>>
    PROVE  CacheInv'
  <1>0. disk \in Nat \ {0}
    BY EditionsNumbered DEF CacheInv
  <1>1. CASE loaded # Nothing /\ UNCHANGED caches
    BY <1>1 DEF CacheInv, caches
  <1>2. CASE /\ loaded = Nothing
             /\ CanRead(cls, Editions[disk].overrides)
             /\ CanRead(raw, Editions[disk].master)
             /\ cls' = Kept(cls) /\ raw' = Kept(raw)
             /\ loaded' = Classified(cls', raw')
    BY <1>0, <1>2 DEF CacheInv, CanRead, Kept
  <1>3. CASE AllBooksFails
    <2>1. loaded' = Nothing /\ raw' = raw
      BY <1>3 DEF AllBooksFails
    <2>2. \/ cls' = cls
          \/ cls' = Kept(cls) /\ CanRead(cls, Editions[disk].overrides)
      BY <1>3 DEF AllBooksFails
    <2> QED
      BY <1>0, <2>1, <2>2 DEF CacheInv, CanRead, Kept
  <1> QED
    BY <1>1, <1>2, <1>3 DEF AllBooks

LEMMA RestCache ==
    ASSUME CacheInv, UNCHANGED <<disk, caches, since>>
    PROVE  CacheInv'
  BY DEF CacheInv, caches

LEMMA RefreshCache ==
    ASSUME CacheInv, Refresh
    PROVE  CacheInv'
  <1>1. disk' = disk /\ since' = disk /\ disk \in Nat \ {0}
    BY EditionsNumbered DEF Refresh, CacheInv
  <1>2. CASE cls' = 0 /\ raw' = 0 /\ loaded' = Nothing
    BY <1>1, <1>2 DEF CacheInv
  <1>3. CASE /\ Unreadable \notin {Editions[disk].master, Editions[disk].overrides}
             /\ cls' = disk /\ raw' = disk /\ loaded' = Classified(disk, disk)
    BY <1>1, <1>3 DEF CacheInv
  <1> QED
    BY <1>2, <1>3 DEF Refresh, Reread

(* The steps of the caches: any step reads them, fills them, leaves them or *)
(* is a refresh.                                                            *)
LEMMA StepCache ==
    ASSUME CacheInv, [Next]_vars
    PROVE  CacheInv'
  <1>1. CASE Edit
    BY <1>1, EditionsNumbered DEF Edit, CacheInv, caches
  <1>2. CASE Refresh
    BY <1>2, RefreshCache
  <1>3. CASE Use
    BY <1>3, AllBooksCache DEF Use
  <1>4. ASSUME NEW f \in Filters, ListFirst(f) PROVE CacheInv'
    BY <1>4, AllBooksCache DEF ListFirst
  <1>5. CASE ListNext
    BY <1>5, AllBooksCache DEF ListNext
  <1>6. ASSUME NEW q, Continue(q) PROVE CacheInv'
    BY <1>6, AllBooksCache, RestCache DEF Continue
  <1>7. ASSUME NEW r \in Requests, Compare(r) PROVE CacheInv'
    BY <1>6, <1>7 DEF Compare
  <1>8. CASE SchoolSearched
    BY <1>6, <1>8 DEF SchoolSearched
  <1>9. CASE ContextFetched \/ CompareFails \/ UNCHANGED vars
    BY <1>9, RestCache DEF ContextFetched, CompareFails, vars, caches
  <1> QED
    BY <1>1, <1>2, <1>3, <1>4, <1>5, <1>7, <1>8, <1>9 DEF Next

LEMMA CacheInductive == Spec => []CacheInv
  BY CacheInit, StepCache, PTL DEF Spec

(* For any rules, any editions of the disk and any order in which they are  *)
(* read, a book is given to a school by an override or by rules that no     *)
(* rule as strong contradicts (classifier.ts 138-153 and 176-260).          *)
THEOREM BooksAttributedByRule == Spec => []AttributedByRule
  <1>1. CacheInv => AttributedByRule
    <2>1. CASE loaded = Nothing
      BY <2>1 DEF AttributedByRule
    <2>2. CASE loaded # Nothing
      BY <2>2, ClassifiedByRule DEF CacheInv
    <2> QED
      BY <2>1, <2>2
  <1> QED
    BY <1>1, CacheInductive, PTL

-----------------------------------------------------------------------------
(* Comparisons.                                                             *)
Passages == [book : Nat, school : Schools]
Phases == {"none", "search", "fetch", "done", "failed"}

(* Passages by the place of a book. *)
WantedTyped(w) ==
    /\ DOMAIN w \subseteq Nat /\ IsFiniteSet(DOMAIN w)
    /\ \A n \in DOMAIN w : w[n] \in Passages

LEMMA NothingWanted == WantedTyped(<<>>)
  <1>1. DOMAIN <<>> = {}
    OBVIOUS
  <1> QED
    BY <1>1, FS_EmptySet DEF WantedTyped

CmpTyped(q) ==
    /\ q \in [phase : Phases, schools : Seq(Schools), ids : SUBSET Nat, neighbors : Nat,
              room : Nat \ {0}, at : Nat, scope : {q.scope},
              searched : Seq([at : Nat, books : SUBSET Nat]),
              collected : Seq(Passages), passages : Seq(Passages),
              wanted : {q.wanted}, broken : SUBSET Nat,
              cut : BOOLEAN, shifted : BOOLEAN]
    /\ q.at <= Len(q.schools)
    /\ q.scope = [b \in DOMAIN q.scope |-> q.scope[b]]
    /\ DOMAIN q.scope \subseteq Nat /\ IsFiniteSet(DOMAIN q.scope)
    /\ \A b \in DOMAIN q.scope : q.scope[b] \in Schools
    /\ WantedTyped(q.wanted)

(* Schools are searched in the order of the request. *)
InOrder(q) ==
    /\ \A i \in DOMAIN q.searched : q.searched[i].at \in 1..q.at
    /\ \A i, j \in DOMAIN q.searched : i < j => q.searched[i].at < q.searched[j].at

(* What was read are the readable books of the school in turn, and up to a  *)
(* place of the request no school that has one is missing.                  *)
Covered(q, lib, last) ==
    /\ \A s \in ToSet(q.searched) : s.books = DOMAIN Shelf(lib, q.schools[s.at], q.ids)
    /\ \A k \in 1..last :
          Shelf(lib, q.schools[k], q.ids) # <<>> => \E s \in ToSet(q.searched) : s.at = k

(* The passages are of books of the library, under their schools.           *)
Evident(q, lib) ==
    \A p \in ToSet(q.collected) :
        p.book \in Readable(lib, DOMAIN lib.books) /\ p = Shown(lib, p.book)

SchoolsIn(passages) == {p.school : p \in ToSet(passages)}

(* The surroundings of every passage are wanted.                            *)
AllWanted(q) == \A p \in ToSet(q.collected) : \E n \in DOMAIN q.wanted : q.wanted[n] = p

(* Every passage has its school in the answer, or its book is broken.       *)
AllServed(q) ==
    \A p \in ToSet(q.collected) : p.book \in q.broken \/ p.school \in SchoolsIn(q.passages)

(* How far the request has been served when a comparison waits or is over.  *)
ServedTo(q) ==
    CASE q.phase = "search" -> q.at - 1
      [] q.phase \in {"fetch", "done"} -> Len(q.schools)
      [] q.phase \in {"none", "failed"} -> 0

(* What holds of a comparison that waits or is over, of the library it has  *)
(* looked at last.                                                          *)
CmpGood(q, lib) ==
    /\ CmpTyped(q)
    /\ q.scope # <<>> <=> q.phase = "search"
    /\ q.wanted # <<>> => q.phase = "fetch"
    /\ InOrder(q)
    /\ q.phase = "search" => /\ q.at > 0
                             /\ \A i \in DOMAIN q.searched : q.searched[i].at < q.at
    /\ ~q.shifted =>
          /\ q.phase \in {"fetch", "done"} => q.at = Len(q.schools)
          /\ Covered(q, lib, ServedTo(q))
          /\ q.phase = "search" => q.scope = Shelf(lib, q.schools[q.at], q.ids)
          /\ Evident(q, lib)
          /\ q.phase = "fetch" => AllWanted(q)
          /\ q.phase = "done" /\ ~q.cut => AllServed(q)

CmpInv ==
    /\ CmpGood(cmp, loaded)
    /\ ~cmp.shifted /\ cmp.at > 0 => loaded # Nothing

(* The walk through the list.                                               *)
Walks == [filter : Filters \cup {NoWalk.filter}, list : Seq(Nat), next : Nat,
          given : Seq(Nat), more : BOOLEAN, same : BOOLEAN]

WalkInv ==
    /\ walk \in Walks
    /\ walk.next <= Len(walk.list)
    /\ walk.more <=> walk.next > 0
    /\ walk.same =>
          /\ walk.more => loaded # Nothing /\ walk.list = Listed(loaded, walk.filter)
          /\ walk.given = SubSeq(walk.list, 1, IF walk.more THEN walk.next ELSE Len(walk.list))

-----------------------------------------------------------------------------
(* The books of a library have schools.                                     *)
BooksTyped(lib) ==
    /\ DOMAIN lib.books \subseteq Nat /\ IsFiniteSet(DOMAIN lib.books)
    /\ \A b \in DOMAIN lib.books : lib.books[b].school \in Schools

LEMMA NothingTyped == BooksTyped(Nothing) /\ DOMAIN Nothing.books = {}
  <1>1. DOMAIN Nothing.books = {}
    BY DEF Nothing
  <1> QED
    BY <1>1, FS_EmptySet DEF BooksTyped

LEMMA ClassifiedTyped ==
    ASSUME NEW c \in DOMAIN Editions, Editions[c].overrides # Unreadable,
           NEW r \in DOMAIN Editions, Editions[r].master # Unreadable
    PROVE  BooksTyped(Classified(c, r))
  <1> DEFINE o == Editions[c].overrides
             rows == Editions[r].master
             lib == Classified(c, r)
  <1>1. /\ DOMAIN rows \subseteq Nat /\ IsFiniteSet(DOMAIN rows)
        /\ \A b \in DOMAIN o.schools : o.schools[b] \in Schools
    BY LibraryAssumption DEF LibraryAssumption
  <1>2. lib.books = [b \in DOMAIN rows \ o.exclude |-> Classify(o, rows[b], b)]
    BY DEF Classified, ClassifyAll
  <1>3. IsFiniteSet(DOMAIN rows \ o.exclude)
    BY <1>1, FS_Subset
  <1>4. ASSUME NEW b \in DOMAIN lib.books PROVE lib.books[b].school \in Schools
    <2> DEFINE school == Classify(o, rows[b], b).school
               rules == Strongest(rows[b].category)
    <2>1. lib.books[b].school = school
      BY <1>2
    <2>2. CASE b \in DOMAIN o.schools
      BY <1>1, <2>1, <2>2, ClassifyByRule
    <2>3. CASE b \notin DOMAIN o.schools /\ school # "unclassified"
      <3>1. Agreed(rules) /\ school = Rules[Min(rules)].school
        BY <2>3, ClassifyByRule
      <3>2. rules \in SUBSET DOMAIN Rules
        BY StrongestRules
      <3>3. Min(rules) \in DOMAIN Rules
        BY <3>1, <3>2, AgreedOne
      <3> QED
        BY <2>1, <3>1, <3>3, LibraryAssumption DEF LibraryAssumption
    <2>4. CASE school = "unclassified"
      BY <2>1, <2>4 DEF Schools
    <2> QED
      BY <2>2, <2>3, <2>4
  <1> QED
    BY <1>1, <1>2, <1>3, <1>4 DEF BooksTyped

LEMMA LoadedTyped == CacheInv => BooksTyped(loaded)
  <1> SUFFICES ASSUME CacheInv, loaded # Nothing PROVE BooksTyped(loaded)
    BY NothingTyped
  <1>1. /\ cls \in DOMAIN Editions /\ Editions[cls].overrides # Unreadable
        /\ raw \in DOMAIN Editions /\ Editions[raw].master # Unreadable
    BY EditionsNumbered DEF CacheInv
  <1> QED
    BY <1>1, ClassifiedTyped DEF CacheInv

(* Books that are looked up are there, and are the same as long as nobody   *)
(* refreshes.                                                               *)
LEMMA AllBooksTyped ==
    ASSUME CacheInv, AllBooks, UNCHANGED <<disk, since>>
    PROVE  /\ BooksTyped(loaded') /\ loaded' # Nothing
           /\ loaded # Nothing => loaded' = loaded
  <1>1. CASE loaded # Nothing /\ UNCHANGED caches
    BY <1>1, LoadedTyped DEF caches
  <1>2. CASE /\ loaded = Nothing
             /\ CanRead(cls, Editions[disk].overrides)
             /\ CanRead(raw, Editions[disk].master)
             /\ cls' = Kept(cls) /\ raw' = Kept(raw)
             /\ loaded' = Classified(cls', raw')
    <2>1. disk \in DOMAIN Editions /\ disk \in Nat \ {0}
      BY EditionsNumbered DEF CacheInv
    <2>2. /\ cls' \in DOMAIN Editions /\ cls' # 0 /\ Editions[cls'].overrides # Unreadable
          /\ raw' \in DOMAIN Editions /\ Editions[raw'].master # Unreadable
      BY <1>2, <2>1, EditionsNumbered DEF CacheInv, CanRead, Kept
    <2>3. BooksTyped(Classified(cls', raw'))
      BY <2>2, ClassifiedTyped
    <2>4. loaded'.of = <<cls', raw'>> /\ Nothing.of = <<0, 0>>
      BY <1>2 DEF Classified, Nothing
    <2> QED
      BY <1>2, <2>2, <2>3, <2>4
  <1> QED
    BY <1>1, <1>2 DEF AllBooks

(* What a search of a school reads.                                         *)
LEMMA ShelfReads ==
    ASSUME NEW lib, BooksTyped(lib), NEW school, NEW ids
    PROVE  LET s == Shelf(lib, school, ids)
           IN  /\ s = [b \in DOMAIN s |-> s[b]]
               /\ DOMAIN s \subseteq Nat /\ IsFiniteSet(DOMAIN s)
               /\ DOMAIN s \subseteq Readable(lib, DOMAIN lib.books)
               /\ \A b \in DOMAIN s : s[b] \in Schools /\ Passage(b, s[b]) = Shown(lib, b)
               /\ DOMAIN s # {} => s # <<>>
  <1> DEFINE s == Shelf(lib, school, ids)
  <1>1. s = [b \in Readable(lib, SelectBooks(lib, {school}, ids)) |-> lib.books[b].school]
    BY DEF Shelf
  <1>2. DOMAIN s \subseteq Readable(lib, DOMAIN lib.books) /\ DOMAIN s \subseteq DOMAIN lib.books
    BY <1>1 DEF Readable, SelectBooks
  <1>3. DOMAIN s \subseteq Nat /\ IsFiniteSet(DOMAIN s)
    BY <1>2, FS_Subset DEF BooksTyped
  <1>4. \A b \in DOMAIN s : s[b] \in Schools /\ Passage(b, s[b]) = Shown(lib, b)
    BY <1>1, <1>2 DEF BooksTyped, Shown
  <1>5. DOMAIN s # {} => s # <<>>
    BY DOMAIN <<>> = {}
  <1> QED
    BY <1>1, <1>2, <1>3, <1>4, <1>5

(* Division by the number of pages around each passage.                     *)
LEMMA DivMod ==
    ASSUME NEW w \in Nat \ {0}, NEW n \in Nat
    PROVE  n \div w \in Nat /\ w * (n \div w) <= n /\ n < w * (n \div w) + w
  OBVIOUS

LEMMA DivTimes ==
    ASSUME NEW w \in Nat \ {0}, NEW p \in Nat
    PROVE  w * p \in Nat /\ (w * p) \div w = p
  OBVIOUS

LEMMA TimesGrows ==
    ASSUME NEW w \in Nat \ {0}, NEW c \in Nat, NEW d \in Nat, c <= d
    PROVE  w * c \in Nat /\ w * d \in Nat /\ w * c <= w * d
  <1>1. PICK e \in Nat : d = c + e
    <2>1. d - c \in Nat /\ d = c + (d - c)
      OBVIOUS
    <2> QED
      BY <2>1
  <1>2. w * d = w * c + w * e /\ w * e \in Nat /\ w * c \in Nat
    BY <1>1
  <1> QED
    BY <1>2

LEMMA DivBelow ==
    ASSUME NEW w \in Nat \ {0}, NEW c \in Nat, NEW k \in 1..(c * w)
    PROVE  1 + (k - 1) \div w \in 1..c
  <1> DEFINE d == (k - 1) \div w
  <1>1. k - 1 \in Nat /\ k - 1 < c * w
    OBVIOUS
  <1>2. d \in Nat /\ w * d <= k - 1
    BY <1>1, DivMod
  <1> HIDE DEF d
  <1>3. d >= c => w * c <= w * d /\ w * d \in Nat
    BY <1>2, TimesGrows
  <1>4. d < c
    BY <1>1, <1>2, <1>3
  <1> QED
    BY <1>2, <1>4 DEF d

(* Every book that was collected and can be read is wanted.                 *)
LEMMA WantedShows ==
    ASSUME NEW lib, BooksTyped(lib), NEW q, CmpTyped(q)
    PROVE  /\ WantedTyped(Wanted(q, lib))
           /\ \A p \in ToSet(q.collected) : p.book \in Readable(lib, DOMAIN lib.books) =>
                 \E n \in DOMAIN Wanted(q, lib) : Wanted(q, lib)[n] = Shown(lib, p.book)
  <1> DEFINE readable == Readable(lib, DOMAIN lib.books)
             places == FirstPlaces(q, lib)
             wanted == Wanted(q, lib)
  <1>1. DOMAIN q.collected = 1..Len(q.collected) /\ Len(q.collected) \in Nat
    <2>1. q.collected \in Seq(Passages)
      BY DEF CmpTyped
    <2> QED
      BY <2>1
  <1>2. places \in SUBSET Nat /\ IsFiniteSet(places)
    <2>1. IsFiniteSet(DOMAIN q.collected) /\ DOMAIN q.collected \subseteq Nat
      <3>1. IsFiniteSet(1..Len(q.collected))
        BY <1>1, FS_Interval
      <3> QED
        BY <1>1, <3>1
    <2>2. places \in SUBSET DOMAIN q.collected
      BY DEF FirstPlaces
    <2> QED
      BY <2>1, <2>2, FS_Subset
  <1>3. wanted = [n \in places |-> Shown(lib, q.collected[n].book)]
    BY DEF Wanted
  <1>4. \A n \in places : n \in DOMAIN q.collected /\ q.collected[n].book \in readable
    BY DEF FirstPlaces
  <1>5. \A b \in readable : Shown(lib, b) \in Passages
    BY DEF Readable, BooksTyped, Shown, Passage, Passages
  <1> HIDE DEF places, wanted, readable
  <1>6. WantedTyped(wanted)
    BY <1>2, <1>3, <1>4, <1>5 DEF WantedTyped
  <1>7. ASSUME NEW p \in ToSet(q.collected), p.book \in readable
        PROVE  \E n \in DOMAIN wanted : wanted[n] = Shown(lib, p.book)
    <2> DEFINE same == {n \in DOMAIN q.collected : q.collected[n].book = p.book}
               m == Min(same)
    <2>1. same \subseteq Nat /\ same # {}
      BY <1>1 DEF ToSet
    <2>2. m \in same /\ \A n \in same : m <= n
      BY <2>1, LeastOf
    <2>3. ASSUME NEW n \in 1..(m - 1) PROVE q.collected[n].book # q.collected[m].book
      <3>1. n \in DOMAIN q.collected /\ ~(m <= n)
        BY <1>1, <2>2
      <3> QED
        BY <2>2, <3>1
    <2>4. m \in places
      BY <1>7, <2>2, <2>3 DEF places, FirstPlaces, readable
    <2> HIDE DEF m
    <2> QED
      BY <1>3, <2>2, <2>4
  <1> QED
    BY <1>6, <1>7 DEF wanted, readable

(* The surroundings have a page of every wanted book that is not broken.    *)
LEMMA ContextShows ==
    ASSUME NEW q, CmpTyped(q), NEW broken
    PROVE  /\ Context(q, broken) \in Seq(Passages)
           /\ \A n \in DOMAIN q.wanted : q.wanted[n].book \notin broken =>
                 \E k \in DOMAIN Context(q, broken) : Context(q, broken)[k] = q.wanted[n]
  <1> DEFINE places == {n \in DOMAIN q.wanted : q.wanted[n].book \notin broken}
             size == Cardinality(places)
             w == Width(q.neighbors)
             s == Ascending(places)
             context == Context(q, broken)
  <1>1. w \in Nat \ {0} /\ WantedTyped(q.wanted)
    BY DEF CmpTyped, Width
  <1>2. places \in SUBSET Nat /\ IsFiniteSet(places)
    BY <1>1, FS_Subset DEF WantedTyped
  <1>3. /\ size \in Nat
        /\ s \in [1..size -> places]
        /\ \A n \in places : \E m \in 1..size : s[m] = n
    BY <1>2, AscendingSorts
  <1>4. context = [k \in 1..(size * w) |-> q.wanted[s[1 + (k - 1) \div w]]]
    BY DEF Context
  <1>5. \A n \in places : q.wanted[n] \in Passages
    BY <1>1 DEF WantedTyped
  <1>6. \A n \in DOMAIN q.wanted : q.wanted[n].book \notin broken => n \in places
    OBVIOUS
  <1> HIDE DEF places, size, w, s, context
  <1>7. context \in Seq(Passages)
    <2>1. ASSUME NEW k \in 1..(size * w) PROVE context[k] \in Passages
      <3>1. 1 + (k - 1) \div w \in 1..size
        BY <1>1, <1>3, DivBelow
      <3>2. s[1 + (k - 1) \div w] \in places
        BY <1>3, <3>1
      <3> QED
        BY <1>4, <1>5, <3>2
    <2>2. size * w \in Nat
      BY <1>1, <1>3
    <2> QED
      BY <1>4, <2>1, <2>2
  <1>8. ASSUME NEW m \in places PROVE \E k \in DOMAIN context : context[k] = q.wanted[m]
    <2>1. PICK n \in 1..size : s[n] = m
      BY <1>3
    <2> DEFINE k == w * (n - 1) + 1
    <2>2. n - 1 \in Nat /\ (w * (n - 1)) \div w = n - 1 /\ w * (n - 1) \in Nat
      BY <1>1, DivTimes
    <2>3. k \in 1..(size * w)
      <3>1. w * n <= w * size /\ w * n \in Nat /\ w * size \in Nat
        BY <1>1, <1>3, TimesGrows
      <3>2. w * n = w * (n - 1) + w /\ w * size = size * w
        BY <1>1, <1>3
      <3> QED
        BY <1>1, <2>2, <3>1, <3>2
    <2>4. (k - 1) \div w = n - 1
      BY <2>2
    <2>5. context[k] = q.wanted[s[1 + (k - 1) \div w]]
      BY <1>4, <2>3
    <2>6. 1 + (k - 1) \div w = n
      BY <2>4
    <2> HIDE DEF k
    <2> QED
      BY <1>4, <2>1, <2>3, <2>5, <2>6
  <1> QED
    BY <1>6, <1>7, <1>8 DEF context

-----------------------------------------------------------------------------
(* What the code goes on with after an answer. *)
Answered(q, lib) ==
    /\ CmpTyped(q)
    /\ q.wanted = <<>>
    /\ InOrder(q)
    /\ ~q.shifted => Covered(q, lib, q.at) /\ Evident(q, lib)

(* The next school is the first after this one that has a readable book.    *)
LEMMA NextSchool ==
    ASSUME NEW lib, NEW q, CmpTyped(q), SchoolsLeft(q, lib) # {}
    PROVE  LET next == Min(SchoolsLeft(q, lib))
           IN  /\ next \in Nat /\ q.at < next /\ next <= Len(q.schools)
               /\ Shelf(lib, q.schools[next], q.ids) # <<>>
               /\ \A k \in (q.at + 1)..(next - 1) : Shelf(lib, q.schools[k], q.ids) = <<>>
  <1> DEFINE left == SchoolsLeft(q, lib)
             next == Min(left)
  <1>1. q.at \in Nat /\ Len(q.schools) \in Nat
    BY DEF CmpTyped
  <1>2. /\ left \subseteq Nat
        /\ \A k \in left : q.at < k /\ k <= Len(q.schools)
        /\ \A k \in left : Shelf(lib, q.schools[k], q.ids) # <<>>
        /\ \A k \in (q.at + 1)..Len(q.schools) :
              k \notin left => Shelf(lib, q.schools[k], q.ids) = <<>>
    BY <1>1 DEF SchoolsLeft
  <1> HIDE DEF left
  <1>3. next \in left /\ \A k \in left : next <= k
    BY <1>2, LeastOf DEF left
  <1>4. ASSUME NEW k \in (q.at + 1)..(next - 1) PROVE Shelf(lib, q.schools[k], q.ids) = <<>>
    <2>1. k \in (q.at + 1)..Len(q.schools) /\ ~(next <= k)
      <3>1. next \in Nat /\ next <= Len(q.schools)
        BY <1>2, <1>3
      <3> HIDE DEF next
      <3> QED
        BY <1>1, <3>1
    <2> QED
      BY <1>2, <1>3, <2>1
  <1> QED
    BY <1>2, <1>3, <1>4 DEF left

LEMMA AdvancedToSearch ==
    ASSUME NEW lib, BooksTyped(lib), NEW q, Answered(q, lib), SchoolsLeft(q, lib) # {}
    PROVE  CmpGood(Advanced(q, lib), lib)
  <1> DEFINE next == Min(SchoolsLeft(q, lib))
             shelf == Shelf(lib, q.schools[next], q.ids)
             a == Advanced(q, lib)
  <1>1. /\ next \in Nat /\ q.at < next /\ next <= Len(q.schools)
        /\ shelf # <<>>
        /\ \A k \in (q.at + 1)..(next - 1) : Shelf(lib, q.schools[k], q.ids) = <<>>
    BY NextSchool DEF Answered
  <1>2. a = [q EXCEPT !.phase = "search", !.at = next, !.scope = shelf]
    BY DEF Advanced
  <1>3. /\ shelf = [b \in DOMAIN shelf |-> shelf[b]]
        /\ DOMAIN shelf \subseteq Nat /\ IsFiniteSet(DOMAIN shelf)
        /\ \A b \in DOMAIN shelf : shelf[b] \in Schools
    BY ShelfReads
  <1>4. CmpTyped(q) /\ InOrder(q) /\ q.wanted = <<>>
    BY DEF Answered
  <1> HIDE DEF next, shelf, a
  <1>5. q.at \in Nat /\ Len(q.schools) \in Nat
    BY <1>4 DEF CmpTyped
  <1>6. /\ a.phase = "search" /\ a.at = next /\ a.scope = shelf /\ a.wanted = <<>>
        /\ a.schools = q.schools /\ a.ids = q.ids /\ a.searched = q.searched
        /\ a.collected = q.collected /\ a.shifted = q.shifted
    BY <1>2, <1>4 DEF CmpTyped
  <1>7. CmpTyped(a)
    <2>1. a \in [phase : Phases, schools : Seq(Schools), ids : SUBSET Nat, neighbors : Nat,
              room : Nat \ {0}, at : Nat, scope : {a.scope},
              searched : Seq([at : Nat, books : SUBSET Nat]),
              collected : Seq(Passages), passages : Seq(Passages),
              wanted : {a.wanted}, broken : SUBSET Nat,
              cut : BOOLEAN, shifted : BOOLEAN]
      BY <1>1, <1>2, <1>4, <1>6 DEF CmpTyped, Phases
    <2>2. WantedTyped(a.wanted)
      BY <1>6, NothingWanted
    <2> QED
      BY <1>1, <1>3, <1>6, <2>1, <2>2 DEF CmpTyped
  <1>8. \A i \in DOMAIN q.searched : q.searched[i].at \in 1..q.at /\ q.searched[i].at < next
    BY <1>1, <1>4, <1>5 DEF InOrder
  <1>9. InOrder(a) /\ a.at > 0
    BY <1>1, <1>4, <1>5, <1>6, <1>8 DEF InOrder
  <1>10. ASSUME ~a.shifted
         PROVE  Covered(a, lib, ServedTo(a)) /\ Evident(a, lib)
    <2>1. Covered(q, lib, q.at) /\ Evident(q, lib)
      BY <1>6, <1>10 DEF Answered
    <2>2. ServedTo(a) = next - 1
      BY <1>6 DEF ServedTo
    <2>3. \A k \in 1..(next - 1) : k \in 1..q.at \/ k \in (q.at + 1)..(next - 1)
      BY <1>1, <1>5
    <2>4. Covered(a, lib, next - 1)
      BY <1>1, <1>6, <2>1, <2>3 DEF Covered
    <2> QED
      BY <1>6, <2>1, <2>2, <2>4 DEF Evident
  <1> QED
    BY <1>1, <1>6, <1>7, <1>8, <1>9, <1>10 DEF CmpGood, shelf, a

LEMMA AdvancedToEnd ==
    ASSUME NEW lib, BooksTyped(lib), NEW q, Answered(q, lib), SchoolsLeft(q, lib) = {}
    PROVE  CmpGood(Advanced(q, lib), lib)
  <1> DEFINE a == Advanced(q, lib)
             wanted == Wanted(q, lib)
  <1>1. CmpTyped(q) /\ InOrder(q) /\ q.wanted = <<>>
    BY DEF Answered
  <1>2. q.at \in Nat /\ Len(q.schools) \in Nat /\ q.at <= Len(q.schools)
    BY <1>1 DEF CmpTyped
  <1>3. /\ WantedTyped(wanted)
        /\ \A p \in ToSet(q.collected) : p.book \in Readable(lib, DOMAIN lib.books) =>
              \E n \in DOMAIN wanted : wanted[n] = Shown(lib, p.book)
    BY <1>1, WantedShows
  <1>4. \/ /\ WantsContext(q)
           /\ a = [q EXCEPT !.phase = "fetch", !.at = Len(q.schools), !.scope = <<>>,
                            !.wanted = wanted]
        \/ a = [q EXCEPT !.phase = "done", !.at = Len(q.schools), !.scope = <<>>,
                         !.passages = q.collected]
    BY DEF Advanced
  <1> HIDE DEF a, wanted
  <1>5. \/ a.phase = "fetch" /\ a.wanted = wanted
        \/ a.phase = "done" /\ a.wanted = <<>> /\ a.passages = q.collected
    BY <1>1, <1>4 DEF CmpTyped
  <1>6. /\ a.phase \in {"fetch", "done"} /\ a.at = Len(q.schools) /\ a.scope = <<>>
        /\ a.schools = q.schools /\ a.ids = q.ids /\ a.searched = q.searched
        /\ a.collected = q.collected /\ a.shifted = q.shifted
    BY <1>1, <1>4 DEF CmpTyped
  <1>7. CmpTyped(a)
    <2>1. a \in [phase : Phases, schools : Seq(Schools), ids : SUBSET Nat, neighbors : Nat,
              room : Nat \ {0}, at : Nat, scope : {a.scope},
              searched : Seq([at : Nat, books : SUBSET Nat]),
              collected : Seq(Passages), passages : Seq(Passages),
              wanted : {a.wanted}, broken : SUBSET Nat,
              cut : BOOLEAN, shifted : BOOLEAN]
      <3>1. CASE a.phase = "fetch" /\ a.wanted = wanted
        <4>1. a = [q EXCEPT !.phase = "fetch", !.at = Len(q.schools), !.scope = <<>>,
                            !.wanted = wanted]
          BY <1>1, <1>4, <3>1 DEF CmpTyped
        <4> QED
          BY <1>1, <1>2, <3>1, <4>1 DEF CmpTyped, Phases
      <3>2. CASE a.phase = "done" /\ a.wanted = <<>>
        <4>1. a = [q EXCEPT !.phase = "done", !.at = Len(q.schools), !.scope = <<>>,
                            !.passages = q.collected]
          BY <1>1, <1>4, <3>2 DEF CmpTyped
        <4> QED
          BY <1>1, <1>2, <3>2, <4>1 DEF CmpTyped, Phases
      <3> QED
        BY <1>5, <3>1, <3>2
    <2>2. DOMAIN a.scope = {} /\ a.scope = [b \in DOMAIN a.scope |-> a.scope[b]]
      BY <1>6
    <2>3. WantedTyped(a.wanted)
      BY <1>1, <1>3, <1>5 DEF CmpTyped
    <2> QED
      BY <1>2, <1>6, <2>1, <2>2, <2>3, FS_EmptySet DEF CmpTyped
  <1>8. InOrder(a)
    BY <1>1, <1>2, <1>6 DEF InOrder
  <1>9. ASSUME ~a.shifted
        PROVE  Covered(a, lib, ServedTo(a)) /\ Evident(a, lib)
    <2>1. Covered(q, lib, q.at) /\ Evident(q, lib)
      BY <1>6, <1>9 DEF Answered
    <2>2. ServedTo(a) = Len(q.schools)
      BY <1>6 DEF ServedTo
    <2>3. \A k \in 1..Len(q.schools) :
             k \in 1..q.at \/ Shelf(lib, q.schools[k], q.ids) = <<>>
      BY <1>2 DEF SchoolsLeft
    <2>4. Covered(a, lib, Len(q.schools))
      BY <1>6, <2>1, <2>3 DEF Covered
    <2> QED
      BY <1>6, <2>1, <2>2, <2>4 DEF Evident
  <1>10. ASSUME ~a.shifted PROVE a.phase = "fetch" => AllWanted(a)
    <2>1. Evident(q, lib)
      BY <1>6, <1>10 DEF Answered
    <2> QED
      BY <1>3, <1>5, <1>6, <2>1 DEF Evident, AllWanted
  <1>11. a.phase = "done" => AllServed(a)
    BY <1>5, <1>6 DEF AllServed, SchoolsIn
  <1>12. a.wanted # <<>> => a.phase = "fetch"
    BY <1>5
  <1> QED
    BY <1>6, <1>7, <1>8, <1>9, <1>10, <1>11, <1>12 DEF CmpGood, a

(* The members of a sequence that has grown.                                *)
LEMMA ToSetAppend ==
    ASSUME NEW S, NEW s \in Seq(S), NEW e \in S
    PROVE  ToSet(Append(s, e)) = ToSet(s) \cup {e}
  <1> DEFINE t == Append(s, e)
  <1>1. /\ DOMAIN s = 1..Len(s) /\ DOMAIN t = 1..(Len(s) + 1) /\ Len(s) \in Nat
        /\ t[Len(s) + 1] = e /\ \A i \in 1..Len(s) : t[i] = s[i]
    OBVIOUS
  <1> HIDE DEF t
  <1>2. \A i \in DOMAIN t : i \in DOMAIN s \/ i = Len(s) + 1
    BY <1>1
  <1>3. \A i \in DOMAIN s : i \in DOMAIN t
    BY <1>1
  <1>4. Len(s) + 1 \in DOMAIN t
    BY <1>1
  <1>5. ToSet(t) \subseteq ToSet(s) \cup {e}
    BY <1>1, <1>2 DEF ToSet
  <1>6. ToSet(s) \cup {e} \subseteq ToSet(t)
    BY <1>1, <1>3, <1>4 DEF ToSet
  <1> QED
    BY <1>5, <1>6 DEF t

LEMMA ToSetJoined ==
    ASSUME NEW S, NEW s \in Seq(S), NEW t \in Seq(S)
    PROVE  ToSet(s \o t) = ToSet(s) \cup ToSet(t)
  <1> DEFINE u == s \o t
  <1>1. /\ Len(s) \in Nat /\ Len(t) \in Nat
        /\ DOMAIN s = 1..Len(s) /\ DOMAIN t = 1..Len(t) /\ DOMAIN u = 1..(Len(s) + Len(t))
        /\ \A i \in 1..Len(s) : u[i] = s[i]
        /\ \A i \in 1..Len(t) : u[Len(s) + i] = t[i]
    OBVIOUS
  <1> HIDE DEF u
  <1>2. ASSUME NEW i \in DOMAIN u
        PROVE  i \in DOMAIN s \/ (i - Len(s) \in DOMAIN t /\ i = Len(s) + (i - Len(s)))
    BY <1>1
  <1>3. \A i \in DOMAIN s : i \in DOMAIN u
    BY <1>1
  <1>4. \A i \in DOMAIN t : Len(s) + i \in DOMAIN u
    BY <1>1
  <1>5. ToSet(u) \subseteq ToSet(s) \cup ToSet(t)
    <2>1. ASSUME NEW i \in DOMAIN u PROVE u[i] \in ToSet(s) \cup ToSet(t)
      <3>1. CASE i \in DOMAIN s
        BY <1>1, <3>1 DEF ToSet
      <3>2. CASE i - Len(s) \in DOMAIN t /\ i = Len(s) + (i - Len(s))
        <4>1. u[i] = t[i - Len(s)]
          BY <1>1, <3>2
        <4> QED
          BY <3>2, <4>1 DEF ToSet
      <3> QED
        BY <1>2, <3>1, <3>2
    <2> QED
      BY <2>1 DEF ToSet
  <1>6. ToSet(s) \cup ToSet(t) \subseteq ToSet(u)
    <2>1. ASSUME NEW i \in DOMAIN s PROVE s[i] \in ToSet(u)
      BY <1>1, <1>3 DEF ToSet
    <2>2. ASSUME NEW i \in DOMAIN t PROVE t[i] \in ToSet(u)
      BY <1>1, <1>4 DEF ToSet
    <2> QED
      BY <2>1, <2>2 DEF ToSet
  <1> QED
    BY <1>5, <1>6 DEF u

(* Whatever comes after an answer keeps the invariant.                      *)
LEMMA ContinueCmp ==
    ASSUME CacheInv, NEW q, Continue(q), Answered(q, loaded),
           ~q.shifted /\ q.at > 0 => loaded # Nothing
    PROVE  CmpInv'
  <1> DEFINE asks == q.at < Len(q.schools) \/ WantsContext(q)
  <1>0. CmpTyped(q) /\ InOrder(q) /\ q.wanted = <<>>
    BY DEF Answered
  <1>1. q.at \in Nat /\ Len(q.schools) \in Nat /\ q.at <= Len(q.schools)
    BY <1>0 DEF CmpTyped
  <1>2. UNCHANGED <<disk, since>>
    BY DEF Continue
  <1>3. ASSUME NEW lib, BooksTyped(lib), Answered(q, lib)
        PROVE  /\ CmpGood(Advanced(q, lib), lib)
               /\ Advanced(q, lib).shifted = q.shifted
               /\ q.at = Len(q.schools) => Advanced(q, lib).at = q.at
    <2>1. CmpGood(Advanced(q, lib), lib)
      BY <1>3, AdvancedToSearch, AdvancedToEnd
    <2>2. Advanced(q, lib).shifted = q.shifted
      BY <1>0 DEF Advanced, CmpTyped
    <2>3. ASSUME q.at = Len(q.schools) PROVE Advanced(q, lib).at = q.at
      <3>1. SchoolsLeft(q, lib) = {}
        BY <1>1, <2>3 DEF SchoolsLeft
      <3> QED
        BY <1>0, <2>3, <3>1 DEF Advanced, CmpTyped
    <2> QED
      BY <2>1, <2>2, <2>3
  <1>4. CASE ~asks /\ UNCHANGED caches /\ cmp' = Advanced(q, loaded)
    <2>1. q.at = Len(q.schools) /\ loaded' = loaded
      BY <1>1, <1>4 DEF caches
    <2> QED
      BY <1>3, <1>4, <2>1, LoadedTyped DEF CmpInv
  <1>5. CASE AllBooks /\ cmp' = Advanced(q, loaded')
    <2>1. /\ BooksTyped(loaded') /\ loaded' # Nothing
          /\ loaded # Nothing => loaded' = loaded
      BY <1>2, <1>5, AllBooksTyped
    <2>2. ASSUME ~q.shifted, loaded = Nothing PROVE Covered(q, loaded', q.at) /\ Evident(q, loaded')
      <3>1. q.at = 0
        BY <1>1, <2>2
      <3>2. ToSet(q.searched) = {}
        BY <1>0, <3>1 DEF InOrder, ToSet
      <3>3. ToSet(q.collected) = {}
        BY <2>2, NothingTyped DEF Answered, Evident, Readable
      <3> QED
        BY <3>1, <3>2, <3>3 DEF Covered, Evident
    <2>3. Answered(q, loaded')
      BY <2>1, <2>2 DEF Answered
    <2> QED
      BY <1>3, <1>5, <2>1, <2>3 DEF CmpInv
  <1>6. CASE AllBooksFails /\ cmp' = [q EXCEPT !.phase = "failed", !.scope = <<>>]
    <2>1. loaded' = Nothing /\ loaded = Nothing
      BY <1>6 DEF AllBooksFails
    <2>2. /\ cmp'.phase = "failed" /\ cmp'.at = q.at /\ cmp'.scope = <<>>
          /\ cmp'.schools = q.schools /\ cmp'.ids = q.ids /\ cmp'.searched = q.searched
          /\ cmp'.collected = q.collected /\ cmp'.shifted = q.shifted /\ cmp'.wanted = <<>>
      BY <1>0, <1>6 DEF CmpTyped
    <2>3. CmpTyped(cmp')
      <3>1. cmp' \in [phase : Phases, schools : Seq(Schools), ids : SUBSET Nat, neighbors : Nat,
              room : Nat \ {0}, at : Nat, scope : {cmp'.scope},
              searched : Seq([at : Nat, books : SUBSET Nat]),
              collected : Seq(Passages), passages : Seq(Passages),
              wanted : {cmp'.wanted}, broken : SUBSET Nat,
              cut : BOOLEAN, shifted : BOOLEAN]
        BY <1>0, <1>6, <2>2 DEF CmpTyped, Phases
      <3>2. DOMAIN cmp'.scope = {} /\ cmp'.scope = [b \in DOMAIN cmp'.scope |-> cmp'.scope[b]]
        BY <2>2
      <3> QED
        BY <1>0, <1>1, <2>2, <3>1, <3>2, FS_EmptySet DEF CmpTyped
    <2>4. InOrder(cmp')
      BY <1>0, <2>2 DEF InOrder
    <2>5. ASSUME ~q.shifted PROVE Covered(cmp', loaded', ServedTo(cmp')) /\ Evident(cmp', loaded')
      <3>1. ServedTo(cmp') = 0
        BY <2>2 DEF ServedTo
      <3> QED
        BY <2>1, <2>2, <2>5, <3>1 DEF Answered, Covered, Evident
    <2> QED
      BY <2>1, <2>2, <2>3, <2>4, <2>5 DEF CmpInv, CmpGood
  <1> QED
    BY <1>4, <1>5, <1>6 DEF Continue

LEMMA CompareCmp ==
    ASSUME CacheInv, NEW r \in Requests, Compare(r)
    PROVE  CmpInv'
  <1> DEFINE q == [NoComparison EXCEPT !.schools = r.schools, !.ids = r.ids,
                                       !.neighbors = r.neighbors, !.room = r.room]
  <1>1. /\ r.schools \in Seq(Schools) /\ r.ids \subseteq Nat
        /\ r.neighbors \in Nat /\ r.room \in Nat \ {0}
    BY LibraryAssumption DEF LibraryAssumption
  <1>2. /\ q.at = 0 /\ q.scope = <<>> /\ q.searched = <<>> /\ q.collected = <<>>
        /\ q.wanted = <<>> /\ q.schools = r.schools
    BY DEF NoComparison
  <1>3. Continue(q)
    BY DEF Compare
  <1>4. CmpTyped(q)
    <2>1. NoComparison \in
             [phase : Phases, schools : Seq(Schools), ids : SUBSET Nat, neighbors : Nat,
              room : Nat \ {0}, at : Nat, scope : {<<>>},
              searched : Seq([at : Nat, books : SUBSET Nat]),
              collected : Seq(Passages), passages : Seq(Passages),
              wanted : {<<>>}, broken : SUBSET Nat,
              cut : BOOLEAN, shifted : BOOLEAN]
      BY DEF NoComparison, Phases
    <2>2. q \in [phase : Phases, schools : Seq(Schools), ids : SUBSET Nat, neighbors : Nat,
              room : Nat \ {0}, at : Nat, scope : {<<>>},
              searched : Seq([at : Nat, books : SUBSET Nat]),
              collected : Seq(Passages), passages : Seq(Passages),
              wanted : {<<>>}, broken : SUBSET Nat,
              cut : BOOLEAN, shifted : BOOLEAN]
      BY <1>1, <2>1
    <2>3. DOMAIN q.scope = {} /\ q.scope = [b \in DOMAIN q.scope |-> q.scope[b]]
      BY <1>2
    <2> HIDE DEF q
    <2>4. WantedTyped(q.wanted)
      BY <1>2, NothingWanted
    <2> QED
      BY <1>1, <1>2, <2>2, <2>3, <2>4, FS_EmptySet DEF CmpTyped
  <1> HIDE DEF q
  <1>5. ToSet(q.searched) = {} /\ DOMAIN q.searched = {} /\ ToSet(q.collected) = {} /\ q.at = 0
    BY <1>2 DEF ToSet
  <1>6. Answered(q, loaded)
    BY <1>2, <1>4, <1>5 DEF Answered, InOrder, Covered, Evident
  <1> QED
    BY <1>3, <1>5, <1>6, ContinueCmp

LEMMA SearchedCmp ==
    ASSUME CacheInv, CmpInv, SchoolSearched
    PROVE  CmpInv'
  <1>1. /\ CmpTyped(cmp) /\ InOrder(cmp)
        /\ cmp.phase = "search" /\ cmp.wanted = <<>>
        /\ cmp.at > 0 /\ cmp.at \in Nat /\ cmp.at <= Len(cmp.schools)
        /\ \A i \in DOMAIN cmp.searched : cmp.searched[i].at < cmp.at
    <2>1. cmp.phase = "search" /\ CmpGood(cmp, loaded)
      BY DEF CmpInv, SchoolSearched
    <2>2. cmp.wanted = <<>>
      BY <2>1 DEF CmpGood
    <2>3. cmp.at \in Nat /\ cmp.at <= Len(cmp.schools)
      BY <2>1 DEF CmpGood, CmpTyped
    <2> QED
      BY <2>1, <2>2, <2>3 DEF CmpGood
  <1>2. PICK shown \in SUBSET (DOMAIN cmp.scope \cap Matching) :
           Continue([cmp EXCEPT !.searched = Append(@, SearchOf(cmp)),
                                !.collected = @ \o [n \in DOMAIN Ascending(shown) |->
                                   Passage(Ascending(shown)[n], cmp.scope[Ascending(shown)[n]])]])
    BY DEF SchoolSearched
  <1> DEFINE order == Ascending(shown)
             found == [n \in DOMAIN order |-> Passage(order[n], cmp.scope[order[n]])]
             q == [cmp EXCEPT !.searched = Append(@, SearchOf(cmp)), !.collected = @ \o found]
  <1>3. /\ found \in Seq(Passages)
        /\ \A n \in DOMAIN found :
              \E b \in DOMAIN cmp.scope : found[n] = Passage(b, cmp.scope[b])
    <2>1. shown \in SUBSET Nat /\ IsFiniteSet(shown)
      BY <1>1, FS_Subset DEF CmpTyped
    <2>2. Cardinality(shown) \in Nat /\ order \in [1..Cardinality(shown) -> shown]
      BY <2>1, AscendingSorts
    <2> HIDE DEF order
    <2>3. ASSUME NEW n \in 1..Cardinality(shown)
          PROVE  order[n] \in DOMAIN cmp.scope /\ found[n] \in Passages
      BY <1>1, <2>2 DEF CmpTyped, Passage, Passages
    <2> QED
      BY <2>2, <2>3
  <1> HIDE DEF found
  <1>4. /\ q.phase = cmp.phase /\ q.at = cmp.at /\ q.scope = cmp.scope
        /\ q.schools = cmp.schools /\ q.ids = cmp.ids
        /\ q.searched = Append(cmp.searched, SearchOf(cmp))
        /\ q.collected = cmp.collected \o found /\ q.shifted = cmp.shifted
        /\ q.wanted = cmp.wanted
    BY <1>1 DEF CmpTyped
  <1>5. /\ cmp.searched \in Seq([at : Nat, books : SUBSET Nat])
        /\ cmp.collected \in Seq(Passages)
        /\ SearchOf(cmp) \in [at : Nat, books : SUBSET Nat]
    BY <1>1 DEF CmpTyped, SearchOf
  <1>6. CmpTyped(q)
    <2>1. q.searched \in Seq([at : Nat, books : SUBSET Nat]) /\ q.collected \in Seq(Passages)
      BY <1>3, <1>4, <1>5
    <2>2. q \in [phase : Phases, schools : Seq(Schools), ids : SUBSET Nat, neighbors : Nat,
              room : Nat \ {0}, at : Nat, scope : {q.scope},
              searched : Seq([at : Nat, books : SUBSET Nat]),
              collected : Seq(Passages), passages : Seq(Passages),
              wanted : {q.wanted}, broken : SUBSET Nat,
              cut : BOOLEAN, shifted : BOOLEAN]
      BY <1>1, <1>4, <2>1 DEF CmpTyped
    <2> QED
      BY <1>1, <1>4, <2>2 DEF CmpTyped
  <1> HIDE DEF q
  <1>7. ToSet(q.searched) = ToSet(cmp.searched) \cup {SearchOf(cmp)}
    <2> DEFINE T == [at : Nat, books : SUBSET Nat]
    <2>1. cmp.searched \in Seq(T) /\ SearchOf(cmp) \in T
      BY <1>5
    <2> HIDE DEF T
    <2> QED
      BY <1>4, <2>1, ToSetAppend
  <1>8. ToSet(q.collected) = ToSet(cmp.collected) \cup ToSet(found)
    BY <1>3, <1>4, <1>5, ToSetJoined
  <1>9. InOrder(q)
    <2>1. ASSUME NEW i \in DOMAIN q.searched
          PROVE  \/ i \in DOMAIN cmp.searched /\ q.searched[i] = cmp.searched[i]
                 \/ i = Len(cmp.searched) + 1 /\ q.searched[i].at = cmp.at
      BY <1>4, <1>5 DEF SearchOf
    <2>2. DOMAIN cmp.searched = 1..Len(cmp.searched) /\ Len(cmp.searched) \in Nat
          /\ DOMAIN q.searched = 1..(Len(cmp.searched) + 1)
      BY <1>4, <1>5
    <2> QED
      BY <1>1, <1>4, <2>1, <2>2 DEF InOrder
  <1>10. ASSUME ~q.shifted PROVE Covered(q, loaded, q.at) /\ Evident(q, loaded)
    <2>1. /\ Covered(cmp, loaded, cmp.at - 1) /\ Evident(cmp, loaded)
          /\ cmp.scope = Shelf(loaded, cmp.schools[cmp.at], cmp.ids)
      BY <1>1, <1>4, <1>10 DEF CmpInv, CmpGood, ServedTo
    <2>2. SearchOf(cmp).books = DOMAIN Shelf(loaded, cmp.schools[cmp.at], cmp.ids)
          /\ SearchOf(cmp).at = cmp.at
      BY <2>1 DEF SearchOf
    <2>3. \A k \in 1..cmp.at : k \in 1..(cmp.at - 1) \/ k = cmp.at
      BY <1>1
    <2>4. Covered(q, loaded, q.at)
      BY <1>4, <1>7, <2>1, <2>2, <2>3 DEF Covered
    <2>5. ASSUME NEW p \in ToSet(found)
          PROVE  p.book \in Readable(loaded, DOMAIN loaded.books) /\ p = Shown(loaded, p.book)
      <3>1. PICK b \in DOMAIN cmp.scope : p = Passage(b, cmp.scope[b])
        BY <1>3 DEF ToSet
      <3>2. b \in Readable(loaded, DOMAIN loaded.books) /\ p = Shown(loaded, b)
        BY <2>1, <3>1, LoadedTyped, ShelfReads
      <3> QED
        BY <3>1, <3>2 DEF Passage
    <2> QED
      BY <1>8, <2>1, <2>4, <2>5 DEF Evident
  <1>11. Answered(q, loaded)
    BY <1>1, <1>4, <1>6, <1>9, <1>10 DEF Answered
  <1>12. Continue(q)
    BY <1>2 DEF q, found
  <1>13. ~q.shifted /\ q.at > 0 => loaded # Nothing
    BY <1>4 DEF CmpInv
  <1> QED
    BY <1>11, <1>12, <1>13, ContinueCmp

(* A step that leaves the comparison alone, and does not drop the library.  *)
LEMMA KeptCmp ==
    ASSUME CmpInv, UNCHANGED cmp, loaded # Nothing => loaded' = loaded
    PROVE  CmpInv'
  <1>1. CASE cmp.shifted \/ loaded # Nothing
    BY <1>1 DEF CmpInv, CmpGood
  <1>2. CASE ~cmp.shifted /\ loaded = Nothing
    <2>1. CmpTyped(cmp) /\ InOrder(cmp) /\ Covered(cmp, loaded, ServedTo(cmp)) /\ Evident(cmp, loaded)
      BY <1>2 DEF CmpInv, CmpGood
    <2>2. cmp.at = 0
      BY <1>2, <2>1 DEF CmpInv, CmpTyped
    <2>3. cmp.phase # "search" /\ ServedTo(cmp) = 0
      <3>1. cmp.phase # "search"
        BY <2>2 DEF CmpInv, CmpGood
      <3>2. cmp.phase \in {"fetch", "done"} => Len(cmp.schools) = 0
        BY <1>2, <2>2 DEF CmpInv, CmpGood
      <3> QED
        BY <2>1, <3>1, <3>2 DEF ServedTo, CmpTyped, Phases
    <2>4. ToSet(cmp.searched) = {}
      BY <2>1, <2>2 DEF InOrder, ToSet
    <2>5. ToSet(cmp.collected) = {}
      BY <1>2, <2>1, NothingTyped DEF Evident, Readable
    <2>6. Covered(cmp, loaded', ServedTo(cmp)) /\ Evident(cmp, loaded')
      BY <2>3, <2>4, <2>5 DEF Covered, Evident
    <2> QED
      BY <1>2, <2>2, <2>3, <2>6 DEF CmpInv, CmpGood
  <1> QED
    BY <1>1, <1>2

LEMMA RefreshCmp ==
    ASSUME CmpInv, Refresh
    PROVE  CmpInv'
  <1>1. cmp' = [cmp EXCEPT !.shifted = TRUE]
    BY DEF Refresh
  <1>2. CmpTyped(cmp)
    BY DEF CmpInv, CmpGood
  <1>3. /\ cmp'.shifted /\ cmp'.phase = cmp.phase /\ cmp'.at = cmp.at
        /\ cmp'.scope = cmp.scope /\ cmp'.schools = cmp.schools /\ cmp'.searched = cmp.searched
        /\ cmp'.wanted = cmp.wanted
    BY <1>1, <1>2 DEF CmpTyped
  <1>4. CmpTyped(cmp')
    <2>1. cmp' \in [phase : Phases, schools : Seq(Schools), ids : SUBSET Nat, neighbors : Nat,
              room : Nat \ {0}, at : Nat, scope : {cmp'.scope},
              searched : Seq([at : Nat, books : SUBSET Nat]),
              collected : Seq(Passages), passages : Seq(Passages),
              wanted : {cmp'.wanted}, broken : SUBSET Nat,
              cut : BOOLEAN, shifted : BOOLEAN]
      BY <1>1, <1>2, <1>3 DEF CmpTyped
    <2> QED
      BY <1>2, <1>3, <2>1 DEF CmpTyped
  <1>5. InOrder(cmp')
    BY <1>3 DEF CmpInv, CmpGood, InOrder
  <1> QED
    BY <1>3, <1>4, <1>5 DEF CmpInv, CmpGood

(* The surroundings have come, or the helper has failed.                    *)
LEMMA EndCmp ==
    ASSUME CmpInv, ContextFetched \/ CompareFails
    PROVE  CmpInv'
  <1>1. CmpTyped(cmp) /\ InOrder(cmp) /\ loaded' = loaded
    BY DEF CmpInv, CmpGood, ContextFetched, CompareFails, caches
  <1> DEFINE Same == /\ cmp'.at = cmp.at /\ cmp'.schools = cmp.schools /\ cmp'.ids = cmp.ids
                     /\ cmp'.searched = cmp.searched /\ cmp'.collected = cmp.collected
                     /\ cmp'.shifted = cmp.shifted
                     /\ cmp'.scope = <<>> /\ cmp'.wanted = <<>>
             Typed == cmp' \in [phase : Phases, schools : Seq(Schools), ids : SUBSET Nat,
              neighbors : Nat, room : Nat \ {0}, at : Nat, scope : {cmp'.scope},
              searched : Seq([at : Nat, books : SUBSET Nat]),
              collected : Seq(Passages), passages : Seq(Passages),
              wanted : {cmp'.wanted}, broken : SUBSET Nat,
              cut : BOOLEAN, shifted : BOOLEAN]
  <1>2. CASE ContextFetched
    <2>1. cmp.phase = "fetch"
      BY <1>2 DEF ContextFetched
    <2>2. PICK places \in SUBSET DOMAIN cmp.wanted :
             cmp' = Fetched(cmp, {cmp.wanted[n].book : n \in places})
      BY <1>2 DEF ContextFetched
    <2> DEFINE broken == {cmp.wanted[n].book : n \in places}
               context == Context(cmp, broken)
               size == Min({cmp.room, Len(context)})
               shown == SubSeq(context, 1, size)
    <2>3. broken \subseteq Nat
      BY <1>1 DEF CmpTyped, WantedTyped, Passages
    <2>4. cmp' = [cmp EXCEPT !.phase = "done", !.wanted = <<>>, !.broken = broken,
                             !.passages = shown, !.cut = cmp.room < Len(context)]
      BY <2>2 DEF Fetched
    <2> HIDE DEF broken
    <2>5. /\ context \in Seq(Passages)
          /\ \A n \in DOMAIN cmp.wanted : cmp.wanted[n].book \notin broken =>
                \E k \in DOMAIN context : context[k] = cmp.wanted[n]
      BY <1>1, ContextShows
    <2> HIDE DEF context
    <2>6. /\ shown \in Seq(Passages)
          /\ ~(cmp.room < Len(context)) => shown = context
      <3>1. cmp.room \in Nat /\ Len(context) \in Nat
        BY <1>1, <2>5 DEF CmpTyped
      <3>2. size \in {cmp.room, Len(context)} /\ \A k \in {cmp.room, Len(context)} : size <= k
        BY <3>1, LeastOf
      <3> HIDE DEF size
      <3>3. size \in Nat /\ size <= Len(context)
        BY <3>1, <3>2
      <3>4. ~(cmp.room < Len(context)) => size = Len(context)
        BY <3>1, <3>2
      <3> QED
        BY <2>5, <3>1, <3>3, <3>4
    <2> HIDE DEF shown
    <2>7. cmp.scope = <<>>
      BY <2>1 DEF CmpInv, CmpGood
    <2>8. (cmp.room < Len(context)) \in BOOLEAN
      OBVIOUS
    <2>9. /\ Same /\ cmp'.phase = "done" /\ Typed
          /\ cmp'.broken = broken /\ cmp'.passages = shown
          /\ cmp'.cut = (cmp.room < Len(context))
      BY <1>1, <2>1, <2>3, <2>4, <2>6, <2>7, <2>8 DEF CmpTyped, Phases
    <2>10. CmpTyped(cmp')
      <3>1. WantedTyped(cmp'.wanted)
        BY <2>9, NothingWanted
      <3> QED
        BY <1>1, <2>7, <2>9, <3>1 DEF CmpTyped
    <2>11. InOrder(cmp')
      BY <1>1, <2>9 DEF InOrder
    <2>12. ServedTo(cmp') = ServedTo(cmp)
      BY <2>1, <2>9 DEF ServedTo
    <2>13. ~cmp'.shifted =>
              /\ cmp'.at = Len(cmp'.schools)
              /\ Covered(cmp', loaded', ServedTo(cmp')) /\ Evident(cmp', loaded')
      BY <1>1, <2>1, <2>9, <2>12 DEF CmpInv, CmpGood, Covered, Evident
    <2>14. ASSUME ~cmp'.shifted, ~cmp'.cut PROVE AllServed(cmp')
      <3>1. AllWanted(cmp)
        BY <2>1, <2>9, <2>14 DEF CmpInv, CmpGood
      <3>2. ~(cmp.room < Len(context))
        BY <2>9, <2>14, Zenon
      <3>3. cmp'.passages = context
        BY <2>6, <2>9, <3>2
      <3>4. ASSUME NEW p \in ToSet(cmp.collected), p.book \notin broken
            PROVE  p.school \in SchoolsIn(context)
        <4>1. PICK n \in DOMAIN cmp.wanted : cmp.wanted[n] = p
          BY <3>1, <3>4 DEF AllWanted
        <4>2. PICK k \in DOMAIN context : context[k] = p
          BY <2>5, <3>4, <4>1
        <4> QED
          BY <4>2 DEF SchoolsIn, ToSet
      <3> QED
        BY <2>9, <3>3, <3>4 DEF AllServed
    <2> QED
      BY <1>1, <2>9, <2>10, <2>11, <2>13, <2>14 DEF CmpInv, CmpGood
  <1>3. CASE CompareFails
    <2>1. cmp' = [cmp EXCEPT !.phase = "failed", !.scope = <<>>, !.wanted = <<>>]
      BY <1>3 DEF CompareFails
    <2>2. Same /\ cmp'.phase = "failed" /\ Typed
      BY <1>1, <2>1 DEF CmpTyped, Phases
    <2>3. CmpTyped(cmp')
      <3>1. DOMAIN cmp'.scope = {} /\ cmp'.scope = [b \in DOMAIN cmp'.scope |-> cmp'.scope[b]]
        BY <2>2
      <3> QED
        BY <1>1, <2>2, <3>1, FS_EmptySet, NothingWanted DEF CmpTyped
    <2>4. InOrder(cmp')
      BY <1>1, <2>2 DEF InOrder
    <2>5. ServedTo(cmp') = 0
      BY <2>2 DEF ServedTo
    <2>6. ~cmp'.shifted => Covered(cmp', loaded', 0) /\ Evident(cmp', loaded')
      BY <1>1, <2>2 DEF CmpInv, CmpGood, Covered, Evident
    <2> QED
      BY <1>1, <2>2, <2>3, <2>4, <2>5, <2>6 DEF CmpInv, CmpGood
  <1> QED
    BY <1>2, <1>3

LEMMA InitCmp == Init => CmpInv
  <1> SUFFICES ASSUME Init PROVE CmpInv
    OBVIOUS
  <1>1. cmp = NoComparison
    BY DEF Init
  <1>2. /\ cmp.at = 0 /\ cmp.scope = <<>> /\ cmp.searched = <<>> /\ cmp.collected = <<>>
        /\ cmp.schools = <<>> /\ cmp.phase = "none" /\ cmp.wanted = <<>>
    BY <1>1 DEF NoComparison
  <1>3. CmpTyped(cmp)
    <2>1. cmp \in [phase : Phases, schools : Seq(Schools), ids : SUBSET Nat, neighbors : Nat,
              room : Nat \ {0}, at : Nat, scope : {cmp.scope},
              searched : Seq([at : Nat, books : SUBSET Nat]),
              collected : Seq(Passages), passages : Seq(Passages),
              wanted : {cmp.wanted}, broken : SUBSET Nat,
              cut : BOOLEAN, shifted : BOOLEAN]
      BY <1>1 DEF NoComparison, Phases
    <2>2. DOMAIN cmp.scope = {} /\ cmp.scope = [b \in DOMAIN cmp.scope |-> cmp.scope[b]]
      BY <1>2
    <2> QED
      BY <1>2, <2>1, <2>2, FS_EmptySet, NothingWanted DEF CmpTyped
  <1>4. ToSet(cmp.searched) = {} /\ DOMAIN cmp.searched = {} /\ ToSet(cmp.collected) = {}
    BY <1>2 DEF ToSet
  <1>5. ServedTo(cmp) = 0
    BY <1>2 DEF ServedTo
  <1> QED
    BY <1>2, <1>3, <1>4, <1>5 DEF CmpInv, CmpGood, InOrder, Covered, Evident

LEMMA StepCmp ==
    ASSUME CacheInv, CmpInv, [Next]_vars
    PROVE  CmpInv'
  <1>1. ASSUME AllBooks \/ AllBooksFails, UNCHANGED <<disk, since, cmp>> PROVE CmpInv'
    <2>1. loaded # Nothing => loaded' = loaded
      BY <1>1, AllBooksTyped DEF AllBooksFails
    <2> QED
      BY <1>1, <2>1, KeptCmp
  <1>2. CASE Edit
    BY <1>2, KeptCmp DEF Edit, caches
  <1>3. CASE Refresh
    BY <1>3, RefreshCmp
  <1>4. CASE Use
    BY <1>1, <1>4 DEF Use
  <1>5. ASSUME NEW f \in Filters, ListFirst(f) PROVE CmpInv'
    BY <1>1, <1>5 DEF ListFirst
  <1>6. CASE ListNext
    BY <1>1, <1>6 DEF ListNext
  <1>7. ASSUME NEW r \in Requests, Compare(r) PROVE CmpInv'
    BY <1>7, CompareCmp
  <1>8. CASE SchoolSearched
    BY <1>8, SearchedCmp
  <1>9. CASE ContextFetched \/ CompareFails
    BY <1>9, EndCmp
  <1>10. CASE UNCHANGED vars
    BY <1>10, KeptCmp DEF vars, caches
  <1> QED
    BY <1>2, <1>3, <1>4, <1>5, <1>6, <1>7, <1>8, <1>9, <1>10 DEF Next

LEMMA CmpInductive == Spec => []CmpInv
  BY InitCmp, StepCmp, CacheInductive, PTL DEF Spec

(* For a request by schools (without book_ids), also one that names a       *)
(* school twice, and as long as nobody refreshes during the comparison,     *)
(* each school is searched once at its place, no book is read for two       *)
(* schools unless the user force-included it, and no readable book of a     *)
(* school that was asked for is left out (tools/compareIssue.ts 88-125).    *)
THEOREM SchoolsSearchedApart == Spec => []SchoolsApart
  <1>1. ASSUME CmpInv PROVE SchoolsApart
    <2> SUFFICES ASSUME ~cmp.shifted, cmp.ids = {}, loaded # Nothing
                 PROVE  SchoolsApart
      BY DEF SchoolsApart
    <2>1. /\ CmpTyped(cmp) /\ InOrder(cmp) /\ Covered(cmp, loaded, ServedTo(cmp))
          /\ cmp.phase = "done" => ServedTo(cmp) = Len(cmp.schools)
      BY <1>1 DEF CmpInv, CmpGood, ServedTo
    <2>2. ASSUME NEW i \in DOMAIN cmp.searched, NEW j \in DOMAIN cmp.searched, i # j
          PROVE  LET s == cmp.searched[i]
                     t == cmp.searched[j]
                 IN  /\ s.at # t.at
                     /\ cmp.schools[s.at] # cmp.schools[t.at] =>
                           s.books \cap t.books \subseteq Overrides(loaded).include
      <3> DEFINE s == cmp.searched[i]
                 t == cmp.searched[j]
      <3>1. s.at # t.at
        <4>1. i \in Nat /\ j \in Nat /\ cmp.at \in Nat
          BY <2>1 DEF CmpTyped
        <4>2. s.at \in Nat /\ t.at \in Nat
          BY <2>1, <4>1 DEF InOrder
        <4>3. (i < j => s.at < t.at) /\ (j < i => t.at < s.at)
          BY <2>1 DEF InOrder
        <4> HIDE DEF s, t
        <4> QED
          BY <2>2, <4>1, <4>2, <4>3
      <3>2. /\ s.books = DOMAIN Shelf(loaded, cmp.schools[s.at], {})
            /\ t.books = DOMAIN Shelf(loaded, cmp.schools[t.at], {})
        BY <2>1 DEF Covered, ToSet
      <3>3. ASSUME NEW school, NEW b \in DOMAIN Shelf(loaded, school, {})
            PROVE  loaded.books[b].school = school \/ b \in Overrides(loaded).include
        BY <3>3 DEF Shelf, Readable, SelectBooks
      <3> QED
        BY <3>1, <3>2, <3>3
    <2>3. ASSUME cmp.phase = "done",
                 NEW b \in Readable(loaded, DOMAIN loaded.books),
                 loaded.books[b].school \in ToSet(cmp.schools)
          PROVE  \E s \in ToSet(cmp.searched) : b \in s.books
      <3>1. PICK k \in 1..Len(cmp.schools) : cmp.schools[k] = loaded.books[b].school
        <4>1. PICK k \in DOMAIN cmp.schools : cmp.schools[k] = loaded.books[b].school
          BY <2>3 DEF ToSet
        <4>2. DOMAIN cmp.schools = 1..Len(cmp.schools)
          BY <2>1 DEF CmpTyped
        <4> QED
          BY <4>1, <4>2
      <3>2. b \in DOMAIN Shelf(loaded, cmp.schools[k], {})
        BY <3>1 DEF Shelf, Readable, SelectBooks
      <3>3. Shelf(loaded, cmp.schools[k], {}) # <<>>
        BY <3>2, DOMAIN <<>> = {}
      <3>4. PICK s \in ToSet(cmp.searched) : s.at = k
        BY <2>1, <2>3, <3>3 DEF Covered
      <3>5. s.books = DOMAIN Shelf(loaded, cmp.schools[k], {})
        BY <2>1, <3>4 DEF Covered
      <3> QED
        BY <3>2, <3>5
    <2> QED
      BY <2>2, <2>3 DEF SchoolsApart
  <1> QED
    BY <1>1, CmpInductive, PTL

(* For any request, any books, any answers of the engine and any files that *)
(* do not open for the surroundings: without a refresh in between, an       *)
(* answer that had room for all surroundings shows every school one of      *)
(* whose matched books opened (tools/compareIssue.ts 128-151).              *)
THEOREM EvidenceSurvives == Spec => []EvidenceUncut
  <1>1. ASSUME CmpInv PROVE EvidenceUncut
    <2> SUFFICES ASSUME cmp.phase = "done", ~cmp.cut, ~cmp.shifted,
                        NEW school \in Silenced
                 PROVE  Unopened(school)
      BY DEF EvidenceUncut
    <2>1. AllServed(cmp)
      BY <1>1 DEF CmpInv, CmpGood
    <2>2. school \notin SchoolsIn(cmp.passages)
      BY DEF Silenced, WithoutEvidence, SchoolsIn
    <2> QED
      BY <2>1, <2>2 DEF AllServed, Unopened
  <1> QED
    BY <1>1, CmpInductive, PTL

-----------------------------------------------------------------------------
(* Listings.                                                                *)

LEMMA ListedNumbers ==
    ASSUME NEW lib, BooksTyped(lib), NEW f
    PROVE  Listed(lib, f) \in Seq(Nat)
  <1> DEFINE chosen == {b \in SelectBooks(lib, f.schools, {}) :
                          /\ f.downloaded => lib.books[b].downloaded
                          /\ f.statuses = {} \/ lib.books[b].status \in f.statuses
                          /\ f.doubtful => lib.books[b].reasons # {}}
  <1>1. chosen \in SUBSET DOMAIN lib.books
    BY DEF SelectBooks
  <1>2. chosen \in SUBSET Nat /\ IsFiniteSet(chosen)
    BY <1>1, FS_Subset DEF BooksTyped
  <1>3. Listed(lib, f) = Ascending(chosen)
    BY DEF Listed
  <1> HIDE DEF chosen
  <1>4. Cardinality(chosen) \in Nat /\ Ascending(chosen) \in [1..Cardinality(chosen) -> chosen]
    BY <1>2, AscendingSorts
  <1>5. Ascending(chosen) \in [1..Cardinality(chosen) -> Nat]
    BY <1>2, <1>4
  <1> QED
    BY <1>3, <1>4, <1>5

(* A page takes the walk on, from wherever it begins; if it begins where    *)
(* the pages before it ended, what was given is a first part of the list.   *)
LEMMA PageGives ==
    ASSUME NEW lib, BooksTyped(lib),
           NEW f \in Filters \cup {NoWalk.filter}, NEW start \in Nat,
           NEW given \in Seq(Nat), NEW same \in BOOLEAN,
           NEW w, w = Page(lib, f, start, given, same)
    PROVE  /\ w \in Walks
           /\ w.list = Listed(lib, f) /\ w.same = same /\ w.filter = f
           /\ w.next <= Len(w.list)
           /\ w.more <=> w.next > 0
           /\ start <= Len(w.list) /\ given = SubSeq(w.list, 1, start) =>
                 w.given = SubSeq(w.list, 1, IF w.more THEN w.next ELSE Len(w.list))
  <1> DEFINE list == Listed(lib, f)
             end == IF start + f.limit < Len(list) THEN start + f.limit ELSE Len(list)
             page == SubSeq(list, start + 1, end)
             more == start + Len(page) < Len(list)
  <1>1. f.limit \in Nat \ {0}
    BY LibraryAssumption DEF LibraryAssumption, NoWalk
  <1>2. list \in Seq(Nat)
    BY ListedNumbers
  <1>3. w = [filter |-> f, list |-> list, next |-> IF more THEN NextPlace(start, page) ELSE 0,
             given |-> given \o page, more |-> more, same |-> same]
    BY DEF Page
  <1> HIDE DEF list
  <1>4. Len(list) \in Nat /\ end \in Nat /\ end <= Len(list)
    BY <1>1, <1>2
  <1>5. page \in Seq(Nat) /\ Len(page) = IF start <= end THEN end - start ELSE 0
    <2> HIDE DEF end
    <2> QED
      BY <1>2, <1>4
  <1>6. CASE start <= Len(list)
    <2>1. start <= end /\ (start < Len(list) => start < end)
      BY <1>1, <1>4, <1>6
    <2>2. start + Len(page) = end /\ (more <=> end < Len(list)) /\ (more => end > 0)
      <3>1. start + Len(page) = end
        <4> HIDE DEF end, page
        <4> QED
          BY <1>4, <1>5, <2>1
      <3> HIDE DEF end, page
      <3> QED
        BY <1>4, <2>1, <3>1
    <2>3. given = SubSeq(list, 1, start) => given \o page = SubSeq(list, 1, end)
      <3> HIDE DEF end
      <3>1. 1 \in 1..(Len(list) + 1) /\ start \in (1 - 1)..Len(list) /\ end \in start..Len(list)
        BY <1>4, <1>6, <2>1
      <3> QED
        BY <1>2, <3>1, ConcatAdjacentSubSeq
    <2>6. more \in BOOLEAN /\ given \o page \in Seq(Nat)
      BY <1>5
    <2> HIDE DEF more, end, page
    <2>5. w.more = more /\ w.given = given \o page /\ w.list = list /\ w.same = same /\ w.filter = f
      BY <1>3
    <2>4. w.next = IF more THEN end ELSE 0
      BY <1>3, <2>2 DEF NextPlace
    <2>7. w.next \in Nat /\ w.next <= Len(list) /\ (w.more <=> w.next > 0)
      BY <1>4, <2>2, <2>4, <2>5
    <2>8. given = SubSeq(list, 1, start) =>
             w.given = SubSeq(list, 1, IF w.more THEN w.next ELSE Len(list))
      <3>1. CASE more
        BY <2>2, <2>3, <2>4, <2>5, <3>1
      <3>2. CASE ~more
        <4>1. end = Len(list)
          BY <1>4, <2>2, <3>2
        <4> QED
          BY <2>3, <2>5, <3>2, <4>1
      <3> QED
        BY <3>1, <3>2
    <2>9. w \in Walks
      BY <1>2, <1>3, <2>6, <2>7 DEF Walks
    <2> QED
      BY <2>5, <2>7, <2>8, <2>9 DEF list
  <1>7. CASE ~(start <= Len(list))
    <2>1. ~more
      <3>1. Len(page) \in Nat
        BY <1>5
      <3> HIDE DEF end, page
      <3> QED
        BY <1>4, <1>7, <3>1
    <2>2. given \o page \in Seq(Nat)
      BY <1>5
    <2>3. more = FALSE
      <3>1. more \in BOOLEAN
        OBVIOUS
      <3> HIDE DEF more
      <3> QED
        BY <2>1, <3>1
    <2> HIDE DEF more, page
    <2>4. w = [filter |-> f, list |-> list, next |-> 0, given |-> given \o page,
               more |-> FALSE, same |-> same]
      BY <1>3, <2>3
    <2>5. w \in Walks
      BY <1>2, <2>2, <2>4 DEF Walks
    <2>6. /\ w.list = list /\ w.same = same /\ w.filter = f
          /\ w.next = 0 /\ w.more = FALSE
      BY <2>4
    <2> QED
      BY <1>4, <1>7, <2>5, <2>6 DEF list
  <1> QED
    BY <1>6, <1>7

LEMMA InitWalk == Init => WalkInv
  <1> SUFFICES ASSUME Init PROVE WalkInv
    OBVIOUS
  <1>1. walk = NoWalk
    BY DEF Init
  <1>2. walk.given = <<>> /\ walk.list = <<>> /\ walk.next = 0 /\ walk.more = FALSE
    BY <1>1 DEF NoWalk
  <1>3. SubSeq(walk.list, 1, 0) = <<>>
    BY SubSeqEmpty
  <1> QED
    BY <1>1, <1>2, <1>3 DEF WalkInv, Walks, NoWalk

(* A page of the list that is there now.                                    *)
LEMMA PageWalk ==
    ASSUME CacheInv, WalkInv, AllBooks, UNCHANGED <<disk, since>>,
           NEW f \in Filters \cup {NoWalk.filter}, NEW start \in Nat, NEW given \in Seq(Nat),
           NEW same \in BOOLEAN, walk' = Page(loaded', f, start, given, same),
           same => /\ start <= Len(Listed(loaded', f))
                   /\ given = SubSeq(Listed(loaded', f), 1, start)
    PROVE  WalkInv'
  <1>1. BooksTyped(loaded') /\ loaded' # Nothing
    BY AllBooksTyped
  <1>2. /\ walk' \in Walks
        /\ walk'.list = Listed(loaded', f) /\ walk'.same = same /\ walk'.filter = f
        /\ walk'.next <= Len(walk'.list)
        /\ walk'.more <=> walk'.next > 0
        /\ start <= Len(walk'.list) /\ given = SubSeq(walk'.list, 1, start) =>
              walk'.given = SubSeq(walk'.list, 1, IF walk'.more THEN walk'.next ELSE Len(walk'.list))
    BY <1>1, PageGives
  <1> QED
    BY <1>1, <1>2 DEF WalkInv

LEMMA KeptWalk ==
    ASSUME WalkInv, UNCHANGED walk, loaded # Nothing => loaded' = loaded
    PROVE  WalkInv'
  BY DEF WalkInv

LEMMA StepWalk ==
    ASSUME CacheInv, WalkInv, [Next]_vars
    PROVE  WalkInv'
  <1>1. ASSUME AllBooks \/ AllBooksFails \/ UNCHANGED caches, UNCHANGED <<disk, since, walk>>
        PROVE  WalkInv'
    <2>1. loaded # Nothing => loaded' = loaded
      BY <1>1, AllBooksTyped DEF AllBooksFails, caches
    <2> QED
      BY <1>1, <2>1, KeptWalk
  <1>2. CASE Edit
    BY <1>2, KeptWalk DEF Edit, caches
  <1>3. CASE Refresh
    <2>1. walk' = [walk EXCEPT !.same = FALSE]
      BY <1>3 DEF Refresh
    <2> QED
      BY <2>1 DEF WalkInv, Walks
  <1>4. CASE Use
    BY <1>1, <1>4 DEF Use
  <1>5. ASSUME NEW f \in Filters, ListFirst(f) PROVE WalkInv'
    <2>1. AllBooks /\ UNCHANGED <<disk, since>> /\ walk' = Page(loaded', f, 0, <<>>, TRUE)
      BY <1>5 DEF ListFirst
    <2>2. Listed(loaded', f) \in Seq(Nat)
      BY <2>1, AllBooksTyped, ListedNumbers
    <2>3. <<>> \in Seq(Nat) /\ 0 <= Len(Listed(loaded', f))
          /\ <<>> = SubSeq(Listed(loaded', f), 1, 0)
      BY <2>2, SubSeqEmpty
    <2> QED
      BY <2>1, <2>3, PageWalk
  <1>6. CASE ListNext
    <2>1. /\ AllBooks /\ UNCHANGED <<disk, since>> /\ walk.more
          /\ walk' = Page(loaded', walk.filter, walk.next, walk.given, walk.same)
      BY <1>6 DEF ListNext
    <2>2. /\ walk.filter \in Filters \cup {NoWalk.filter} /\ walk.next \in Nat
          /\ walk.given \in Seq(Nat) /\ walk.same \in BOOLEAN
      BY DEF WalkInv, Walks
    <2>3. walk.same =>
             /\ loaded # Nothing /\ walk.list = Listed(loaded, walk.filter)
             /\ walk.next <= Len(walk.list)
             /\ walk.given = SubSeq(walk.list, 1, walk.next)
      BY <2>1 DEF WalkInv
    <2>4. loaded # Nothing => loaded' = loaded
      BY <2>1, AllBooksTyped
    <2> QED
      BY <2>1, <2>2, <2>3, <2>4, PageWalk
  <1>7. ASSUME NEW q, Continue(q) PROVE WalkInv'
    BY <1>1, <1>7 DEF Continue
  <1>8. ASSUME NEW r \in Requests, Compare(r) PROVE WalkInv'
    BY <1>7, <1>8 DEF Compare
  <1>9. CASE SchoolSearched
    BY <1>7, <1>9 DEF SchoolSearched
  <1>10. CASE ContextFetched \/ CompareFails \/ UNCHANGED vars
    BY <1>1, <1>10 DEF ContextFetched, CompareFails, vars, caches
  <1> QED
    BY <1>2, <1>3, <1>4, <1>5, <1>6, <1>8, <1>9, <1>10 DEF Next

LEMMA WalkInductive == Spec => []WalkInv
  BY InitWalk, StepWalk, CacheInductive, PTL DEF Spec

(* Every book of a scope is counted in one row, that of its school: the     *)
(* books of a school are numbered by their rank.                            *)
LEMMA CoverageCounts ==
    ASSUME NEW lib, BooksTyped(lib), NEW scope \in SUBSET DOMAIN lib.books, NEW requested
    PROVE  LET rows == Coverage(lib, scope, requested)
               Counted(m) == {m} \X (1..(rows[m].searched + rows[m].missing))
           IN  /\ requested \subseteq DOMAIN rows
               /\ Cardinality(UNION {Counted(m) : m \in DOMAIN rows}) = Cardinality(scope)
  <1> DEFINE rows == Coverage(lib, scope, requested)
             School(b) == lib.books[b].school
             Mine(m) == {b \in scope : School(b) = m}
             Counted(m) == {m} \X (1..(rows[m].searched + rows[m].missing))
             all == UNION {Counted(m) : m \in DOMAIN rows}
             N(S, b) == Rank(Less(S), S, b)
             place == [b \in scope |-> <<School(b), N(Mine(School(b)), b) + 1>>]
  <1>1. scope \in SUBSET Nat /\ IsFiniteSet(scope)
    BY FS_Subset DEF BooksTyped
  <1>2. ASSUME NEW m
        PROVE  /\ Mine(m) \in SUBSET Nat /\ IsFiniteSet(Mine(m))
               /\ Cardinality(Mine(m)) \in Nat
    <2>1. Mine(m) \in SUBSET scope
      OBVIOUS
    <2> HIDE DEF Mine
    <2>2. IsFiniteSet(Mine(m))
      BY <1>1, <2>1, FS_Subset
    <2> QED
      BY <1>1, <2>1, <2>2, FS_CardinalityType
  <1>3. DOMAIN rows = requested \cup {School(b) : b \in scope}
    BY DEF Coverage, RowsFor
  <1>4. ASSUME NEW m \in DOMAIN rows
        PROVE  rows[m].searched + rows[m].missing = Cardinality(Mine(m))
    <2> DEFINE mine == Mine(m)
               read == Readable(lib, mine)
    <2>1. rows[m] = [searched |-> Cardinality(read), missing |-> Cardinality(mine \ read)]
      BY DEF Coverage
    <2>2. read \in SUBSET mine
      BY DEF Readable
    <2> HIDE DEF read, mine, rows
    <2>3. IsFiniteSet(mine) /\ IsFiniteSet(read) /\ IsFiniteSet(mine \ read)
      BY <1>2, <2>2, FS_Subset DEF mine
    <2>4. Cardinality(mine \ read) = Cardinality(mine) - Cardinality(mine \cap read)
      BY <2>3, FS_Difference
    <2>5. mine \cap read = read
      BY <2>2
    <2>6. Cardinality(mine) \in Nat /\ Cardinality(read) \in Nat
      BY <2>3, FS_CardinalityType
    <2>7. Cardinality(read) + Cardinality(mine \ read) = Cardinality(mine)
      <3>1. Cardinality(mine \ read) = Cardinality(mine) - Cardinality(read)
        BY <2>4, <2>5
      <3> QED
        BY <2>6, <3>1
    <2> QED
      BY <2>1, <2>7 DEF mine
  <1>5. ASSUME NEW b \in scope
        PROVE  /\ b \in Mine(School(b)) /\ School(b) \in DOMAIN rows
               /\ place[b] \in Counted(School(b))
    <2>1. b \in Mine(School(b)) /\ School(b) \in DOMAIN rows
      BY <1>3
    <2>2. /\ N(Mine(School(b)), b) \in Nat
          /\ N(Mine(School(b)), b) < Cardinality(Mine(School(b)))
      <3> HIDE DEF Mine
      <3>1. Mine(School(b)) \in SUBSET Nat /\ IsFiniteSet(Mine(School(b)))
        BY <1>2
      <3>2. StrictOrder(Less(Mine(School(b))), Mine(School(b)))
        BY <3>1, LessOrders
      <3> QED
        BY <2>1, <3>1, <3>2, RankRises
    <2>3. N(Mine(School(b)), b) + 1 \in 1..(rows[School(b)].searched + rows[School(b)].missing)
      <3>1. Cardinality(Mine(School(b))) \in Nat
        BY <1>2
      <3>2. N(Mine(School(b)), b) + 1 \in 1..Cardinality(Mine(School(b)))
        <4> HIDE DEF Mine
        <4> QED
          BY <2>2, <3>1
      <3> QED
        BY <1>4, <2>1, <3>2
    <2> QED
      BY <2>1, <2>3
  <1>6. ASSUME NEW b \in scope, NEW c \in scope, place[b] = place[c] PROVE b = c
    <2> DEFINE mine == Mine(School(b))
    <2>1. School(b) = School(c) /\ N(mine, b) + 1 = N(mine, c) + 1
      BY <1>6
    <2>2. b \in mine /\ c \in mine
      BY <2>1
    <2>3. mine \in SUBSET Nat /\ IsFiniteSet(mine)
      BY <1>2
    <2> HIDE DEF mine
    <2>4. StrictOrder(Less(mine), mine)
      BY <2>3, LessOrders
    <2>5. N(mine, b) \in Nat /\ N(mine, c) \in Nat
      BY <2>2, <2>3, <2>4, RankRises
    <2> QED
      BY <2>1, <2>2, <2>3, <2>4, <2>5, RankOnce
  <1>7. ASSUME NEW x \in all PROVE \E b \in scope : place[b] = x
    <2>1. PICK m \in DOMAIN rows : x \in Counted(m)
      OBVIOUS
    <2>2. PICK k \in 1..(rows[m].searched + rows[m].missing) : x = <<m, k>>
      BY <2>1
    <2>3. k - 1 \in 0..(Cardinality(Mine(m)) - 1)
      <3>1. Cardinality(Mine(m)) \in Nat /\ k \in 1..Cardinality(Mine(m))
        BY <1>2, <1>4, <2>2
      <3> HIDE DEF Mine
      <3> QED
        BY <3>1
    <2>4. PICK b \in Mine(m) : N(Mine(m), b) = k - 1
      <3>1. Mine(m) \in SUBSET Nat /\ IsFiniteSet(Mine(m))
        BY <1>2
      <3> HIDE DEF Mine
      <3>2. StrictOrder(Less(Mine(m)), Mine(m))
        BY <3>1, LessOrders
      <3> QED
        BY <2>3, <3>1, <3>2, RankTaken
    <2>5. b \in scope /\ School(b) = m
      BY <2>4
    <2>6. (k - 1) + 1 = k
      BY <2>2
    <2> QED
      BY <2>2, <2>4, <2>5, <2>6
  <1>8. place \in [scope -> all]
    BY <1>5
  <1> HIDE DEF place, all
  <1>9. place \in Bijection(scope, all)
    BY <1>6, <1>7, <1>8 DEF Bijection, Injection, Surjection, IsInjective
  <1>10. Cardinality(all) = Cardinality(scope)
    BY <1>1, <1>9, FS_Bijection DEF ExistsBijection
  <1> QED
    BY <1>3, <1>10 DEF all

(* For any library, any filter and any edits of the disk, who follows the   *)
(* cursor gets a first part of the list at every page and the whole list at *)
(* the last, and every coverage report accounts for each book of its scope  *)
(* once (listBooks.ts, coverage.ts).                                        *)
THEOREM ListsAreWhole == Spec => []ListWhole
  <1>1. CacheInv => CoverageComplete
    <2> SUFFICES ASSUME CacheInv, NEW r \in Requests
                 PROVE  LET scope == SelectBooks(loaded, ToSet(r.schools), r.ids)
                            rows == Coverage(loaded, scope, ToSet(r.schools))
                            Counted(m) == {m} \X (1..(rows[m].searched + rows[m].missing))
                        IN  /\ ToSet(r.schools) \subseteq DOMAIN rows
                            /\ Cardinality(UNION {Counted(m) : m \in DOMAIN rows})
                                  = Cardinality(scope)
      BY DEF CoverageComplete
    <2>1. SelectBooks(loaded, ToSet(r.schools), r.ids) \in SUBSET DOMAIN loaded.books
      BY DEF SelectBooks
    <2> QED
      BY <2>1, LoadedTyped, CoverageCounts
  <1>2. ASSUME WalkInv, walk.same
        PROVE  /\ walk.given = SubSeq(walk.list, 1, Len(walk.given))
               /\ ~walk.more => walk.given = walk.list
    <2> DEFINE end == IF walk.more THEN walk.next ELSE Len(walk.list)
    <2>1. walk.list \in Seq(Nat) /\ walk.next \in Nat /\ walk.next <= Len(walk.list)
      BY <1>2 DEF WalkInv, Walks
    <2>2. end \in 0..Len(walk.list) /\ walk.given = SubSeq(walk.list, 1, end)
      BY <1>2, <2>1 DEF WalkInv
    <2>3. Len(walk.given) = end
      <3> HIDE DEF end
      <3> QED
        BY <2>1, <2>2
    <2>4. SubSeq(walk.list, 1, Len(walk.list)) = walk.list
      BY <2>1
    <2> QED
      BY <2>2, <2>3, <2>4
  <1>3. CacheInv /\ WalkInv => ListWhole
    BY <1>1, <1>2 DEF ListWhole
  <1> QED
    BY <1>3, CacheInductive, WalkInductive, PTL

(* Everything has its type.                                                 *)
THEOREM TypeCorrect == Spec => []TypeOK
  <1>1. ASSUME CacheInv
        PROVE  /\ disk \in DOMAIN Editions /\ since \in 1..disk
               /\ {cls, raw, loaded.of[1], loaded.of[2]} \subseteq 0..disk
    <2>1. disk \in Nat \ {0} /\ cls \in 0..disk /\ raw \in 0..disk
      BY <1>1, EditionsNumbered DEF CacheInv
    <2>2. loaded.of = <<0, 0>> \/ loaded.of = <<cls, raw>>
      BY <1>1 DEF CacheInv, Nothing, Classified
    <2>3. loaded.of[1] \in 0..disk /\ loaded.of[2] \in 0..disk
      BY <2>1, <2>2
    <2> QED
      BY <1>1, <2>1, <2>3 DEF CacheInv
  <1>2. ASSUME WalkInv
        PROVE  /\ walk.filter \in Filters \cup {NoWalk.filter} /\ walk.same \in BOOLEAN
               /\ walk.next \in 0..Len(walk.list)
               /\ walk.more \in BOOLEAN /\ (walk.more <=> walk.next > 0)
    BY <1>2 DEF WalkInv, Walks
  <1>3. ASSUME CmpInv
        PROVE  /\ cmp.phase \in {"none", "search", "fetch", "done", "failed"}
               /\ cmp.at \in 0..Len(cmp.schools)
               /\ cmp.scope # <<>> <=> cmp.phase = "search"
               /\ {p.school : p \in ToSet(cmp.collected \o cmp.passages)} \subseteq Schools
               /\ cmp.wanted # <<>> => cmp.phase = "fetch"
               /\ cmp.broken \subseteq Nat /\ {cmp.cut, cmp.shifted} \subseteq BOOLEAN
    <2>1. /\ CmpTyped(cmp) /\ (cmp.scope # <<>> <=> cmp.phase = "search")
          /\ cmp.wanted # <<>> => cmp.phase = "fetch"
      BY <1>3 DEF CmpInv, CmpGood
    <2>2. /\ cmp.phase \in Phases /\ cmp.at \in Nat /\ cmp.at <= Len(cmp.schools)
          /\ cmp.schools \in Seq(Schools)
          /\ cmp.collected \in Seq(Passages) /\ cmp.passages \in Seq(Passages)
          /\ cmp.cut \in BOOLEAN /\ cmp.shifted \in BOOLEAN /\ cmp.broken \subseteq Nat
      BY <2>1 DEF CmpTyped
    <2>3. ToSet(cmp.collected \o cmp.passages) = ToSet(cmp.collected) \cup ToSet(cmp.passages)
      BY <2>2, ToSetJoined
    <2>4. ToSet(cmp.collected) \subseteq Passages /\ ToSet(cmp.passages) \subseteq Passages
      BY <2>2 DEF ToSet
    <2>5. {p.school : p \in ToSet(cmp.collected \o cmp.passages)} \subseteq Schools
      BY <2>3, <2>4 DEF Passages
    <2>6. cmp.at \in 0..Len(cmp.schools)
      BY <2>2
    <2> QED
      BY <2>1, <2>2, <2>5, <2>6 DEF Phases
  <1>4. CacheInv /\ WalkInv /\ CmpInv => TypeOK
    BY <1>1, <1>2, <1>3 DEF TypeOK
  <1> QED
    BY <1>4, CacheInductive, WalkInductive, CmpInductive, PTL
=============================================================================
