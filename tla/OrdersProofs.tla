---------------------------- MODULE OrdersProofs ----------------------------
(* A finite set in order is all of it, and each member once; its first n    *)
(* are a first part of it, and n of them if there are so many. And the      *)
(* least of some numbers is one of them.                                    *)
EXTENDS Orders, FiniteSetsExt, FiniteSetTheorems, WellFoundedInduction, TLAPS

(* R puts the members of S in a line.                                       *)
StrictOrder(R, S) ==
    /\ \A x \in S : <<x, x>> \notin R
    /\ \A x, y \in S : x = y \/ <<x, y>> \in R \/ <<y, x>> \in R
    /\ \A x, y, z \in S : <<x, y>> \in R /\ <<y, z>> \in R => <<x, z>> \in R

(* The least of some naturals is one of them.                              *)
LEMMA LeastOf ==
    ASSUME NEW S, S \subseteq Nat, S # {}
    PROVE  Min(S) \in S /\ \A k \in S : Min(S) <= k
  <1> DEFINE R == {ss \in Nat \X Nat : ss[1] < ss[2]}
  <1>1. IsWellFoundedOn(R, Nat)
    BY NatLessThanWellFounded DEF OpToRel
  <1>2. PICK m \in S : \A k \in S : <<k, m>> \notin R
    BY <1>1, WFMin
  <1>3. ASSUME NEW k \in S PROVE m <= k
    <2>1. k \in Nat /\ m \in Nat /\ <<k, m>> \in Nat \X Nat
      OBVIOUS
    <2>2. ~(k < m)
      BY <1>2, <2>1
    <2> QED
      BY <2>1, <2>2
  <1> QED
    BY <1>3 DEF Min

(* Numbers are in a line.                                                   *)
LEMMA LessOrders == ASSUME NEW S \in SUBSET Nat PROVE StrictOrder(Less(S), S)
  <1>1. \A x, y \in S : <<x, y>> \in Less(S) <=> x < y
    BY DEF Less
  <1>2. \A x \in S : x \in Nat
    OBVIOUS
  <1> QED
    BY <1>1, <1>2 DEF StrictOrder

(* A later member has a greater rank, and ranks are less than the size.     *)
LEMMA RankRises ==
    ASSUME NEW R, NEW S, StrictOrder(R, S), IsFiniteSet(S), NEW x \in S
    PROVE  /\ Cardinality(S) \in Nat
           /\ Rank(R, S, x) \in Nat /\ Rank(R, S, x) < Cardinality(S)
           /\ \A z \in S : <<x, z>> \in R => Rank(R, S, x) < Rank(R, S, z)
  <1> DEFINE L(z) == {y \in S : <<y, z>> \in R}
  <1>1. ASSUME NEW z \in S
        PROVE  IsFiniteSet(L(z)) /\ Cardinality(L(z)) \in Nat /\ Rank(R, S, z) = Cardinality(L(z))
    <2>1. L(z) \in SUBSET S
      OBVIOUS
    <2>2. IsFiniteSet(L(z))
      BY <2>1, FS_Subset
    <2> QED
      BY <2>2, FS_CardinalityType DEF Rank
  <1>2. Cardinality(S) \in Nat
    BY FS_CardinalityType
  <1>3. Rank(R, S, x) < Cardinality(S)
    <2>1. L(x) \in SUBSET S /\ x \notin L(x)
      BY DEF StrictOrder
    <2>2. Cardinality(L(x)) <= Cardinality(S) /\ Cardinality(L(x)) # Cardinality(S)
      BY <2>1, FS_Subset
    <2> QED
      BY <2>2, <1>1, <1>2
  <1>4. ASSUME NEW z \in S, <<x, z>> \in R PROVE Rank(R, S, x) < Rank(R, S, z)
    <2>1. L(x) \in SUBSET L(z) /\ x \in L(z) /\ x \notin L(x)
      BY <1>4 DEF StrictOrder
    <2>2. Cardinality(L(x)) <= Cardinality(L(z)) /\ Cardinality(L(x)) # Cardinality(L(z))
      BY <2>1, <1>1, FS_Subset
    <2> QED
      BY <2>2, <1>1
  <1> QED
    BY <1>1, <1>2, <1>3, <1>4

(* The ranks tell the order.                                                *)
LEMMA RankTells ==
    ASSUME NEW R, NEW S, StrictOrder(R, S), IsFiniteSet(S), NEW x \in S, NEW y \in S
    PROVE  Rank(R, S, x) < Rank(R, S, y) <=> <<x, y>> \in R
  <1>1. /\ Rank(R, S, x) \in Nat /\ Rank(R, S, y) \in Nat
        /\ <<x, y>> \in R => Rank(R, S, x) < Rank(R, S, y)
        /\ <<y, x>> \in R => Rank(R, S, y) < Rank(R, S, x)
    BY RankRises
  <1>2. x = y \/ <<x, y>> \in R \/ <<y, x>> \in R
    BY DEF StrictOrder
  <1> QED
    BY <1>1, <1>2

LEMMA RankOnce ==
    ASSUME NEW R, NEW S, StrictOrder(R, S), IsFiniteSet(S), NEW x \in S, NEW y \in S,
           Rank(R, S, x) = Rank(R, S, y)
    PROVE  x = y
  <1>1. Rank(R, S, x) \in Nat /\ Rank(R, S, y) \in Nat
    BY RankRises
  <1>2. <<x, y>> \notin R
    BY <1>1, RankTells
  <1>3. <<y, x>> \notin R
    BY <1>1, RankTells
  <1> QED
    BY <1>2, <1>3 DEF StrictOrder

(* Every rank below the size is taken: ranks are distinct, and there are as *)
(* many as members.                                                         *)
LEMMA RankTaken ==
    ASSUME NEW R, NEW S, StrictOrder(R, S), IsFiniteSet(S), NEW n \in 0..(Cardinality(S) - 1)
    PROVE  \E x \in S : Rank(R, S, x) = n
  <1> DEFINE size == Cardinality(S)
             T == 0..(size - 1)
             f == [x \in S |-> Rank(R, S, x)]
  <1>1. size \in Nat
    BY FS_CardinalityType
  <1>2. IsFiniteSet(T) /\ Cardinality(T) = size
    BY <1>1, FS_Interval
  <1>3. f \in [S -> T]
    BY <1>1, RankRises
  <1>4. ASSUME NEW x \in S, NEW z \in S, f[x] = f[z] PROVE x = z
    <2>1. Rank(R, S, x) = Rank(R, S, z)
      BY <1>4
    <2> QED
      BY <2>1, RankOnce
  <1>5. f \in Injection(S, T)
    BY <1>3, <1>4 DEF Injection, IsInjective
  <1>6. f \in Surjection(S, T)
    <2> HIDE DEF f, T, size
    <2> QED
      BY <1>2, <1>5, FS_Injection DEF size
  <1>7. PICK x \in S : f[x] = n
    BY <1>6 DEF Surjection
  <1> QED
    BY <1>7

(* The members in order are those of the set, each once.                    *)
LEMMA OrderedSorts ==
    ASSUME NEW R, NEW S, StrictOrder(R, S), IsFiniteSet(S)
    PROVE  /\ Cardinality(S) \in Nat
           /\ Ordered(R, S) \in [1..Cardinality(S) -> S]
           /\ \A n \in 1..Cardinality(S) : Rank(R, S, Ordered(R, S)[n]) = n - 1
           /\ \A m, n \in 1..Cardinality(S) :
                 m < n => <<Ordered(R, S)[m], Ordered(R, S)[n]>> \in R
           /\ \A x \in S : \E n \in 1..Cardinality(S) : Ordered(R, S)[n] = x
  <1> DEFINE size == Cardinality(S)
             s == Ordered(R, S)
  <1>1. size \in Nat
    BY FS_CardinalityType
  <1>2. ASSUME NEW n \in 1..size PROVE s[n] \in S /\ Rank(R, S, s[n]) = n - 1
    <2>1. n - 1 \in 0..(size - 1)
      BY <1>1
    <2>2. \E x \in S : Rank(R, S, x) = n - 1
      BY <2>1, RankTaken
    <2> QED
      BY <2>2 DEF Ordered
  <1>3. s \in [1..size -> S]
    BY <1>2 DEF Ordered
  <1>4. ASSUME NEW m \in 1..size, NEW n \in 1..size, m < n PROVE <<s[m], s[n]>> \in R
    <2>1. s[m] \in S /\ s[n] \in S /\ Rank(R, S, s[m]) < Rank(R, S, s[n])
      BY <1>2, <1>4
    <2> QED
      BY <2>1, RankTells
  <1>5. ASSUME NEW x \in S PROVE \E n \in 1..size : s[n] = x
    <2> DEFINE n == Rank(R, S, x) + 1
    <2>1. n \in 1..size /\ n - 1 = Rank(R, S, x)
      BY <1>1, RankRises
    <2>2. s[n] \in S /\ Rank(R, S, s[n]) = Rank(R, S, x)
      BY <1>2, <2>1
    <2>3. s[n] = x
      <3> HIDE DEF n, s
      <3> QED
        BY <2>2, RankOnce
    <2> QED
      BY <2>1, <2>3
  <1> QED
    BY <1>1, <1>2, <1>3, <1>4, <1>5

LEMMA AscendingSorts ==
    ASSUME NEW S \in SUBSET Nat, IsFiniteSet(S)
    PROVE  /\ Cardinality(S) \in Nat
           /\ Ascending(S) \in [1..Cardinality(S) -> S]
           /\ \A m, n \in 1..Cardinality(S) : m < n => Ascending(S)[m] < Ascending(S)[n]
           /\ \A x \in S : \E n \in 1..Cardinality(S) : Ascending(S)[n] = x
  <1>1. StrictOrder(Less(S), S)
    BY LessOrders
  <1>2. \A x, y \in S : <<x, y>> \in Less(S) => x < y
    BY DEF Less
  <1> DEFINE R == Less(S)
             s == Ordered(R, S)
  <1>3. /\ Cardinality(S) \in Nat
        /\ s \in [1..Cardinality(S) -> S]
        /\ \A m, n \in 1..Cardinality(S) : m < n => <<s[m], s[n]>> \in R
        /\ \A x \in S : \E n \in 1..Cardinality(S) : s[n] = x
    <2> HIDE DEF R
    <2> QED
      BY <1>1, OrderedSorts DEF R
  <1>4. s = Ascending(S)
    BY DEF Ascending
  <1>5. ASSUME NEW m \in 1..Cardinality(S), NEW n \in 1..Cardinality(S), m < n
        PROVE  s[m] < s[n]
    <2>1. s[m] \in S /\ s[n] \in S /\ <<s[m], s[n]>> \in R
      BY <1>3, <1>5
    <2> QED
      BY <1>2, <2>1
  <1> HIDE DEF s
  <1> QED
    BY <1>3, <1>4, <1>5

(* The same order, of some of the members.                                  *)
LEMMA OrderOfSome ==
    ASSUME NEW R, NEW S, StrictOrder(R, S), NEW T \in SUBSET S
    PROVE  StrictOrder(R, T)
  BY DEF StrictOrder

(* A first and a last member.                                               *)
LEMMA EndsOf ==
    ASSUME NEW R, NEW S, StrictOrder(R, S), IsFiniteSet(S), S # {}
    PROVE  /\ \E x \in S : \A y \in S : y = x \/ <<x, y>> \in R
           /\ Latest(R, S) \in S
           /\ \A y \in S : y = Latest(R, S) \/ <<y, Latest(R, S)>> \in R
  <1>1. Cardinality(S) \in Nat /\ Cardinality(S) # 0
    BY FS_CardinalityType, FS_EmptySet
  <1>2. PICK x \in S : Rank(R, S, x) = 0
    BY <1>1, RankTaken
  <1>3. ASSUME NEW y \in S PROVE y = x \/ <<x, y>> \in R
    <2>1. Rank(R, S, y) \in Nat
      BY RankRises
    <2>2. <<y, x>> \notin R
      BY <1>2, <2>1, RankTells
    <2> QED
      BY <2>2 DEF StrictOrder
  <1>4. PICK z \in S : Rank(R, S, z) = Cardinality(S) - 1
    BY <1>1, RankTaken
  <1>5. ASSUME NEW y \in S PROVE <<z, y>> \notin R
    <2>1. Rank(R, S, y) \in Nat /\ Rank(R, S, y) < Cardinality(S)
      BY RankRises
    <2> QED
      BY <1>1, <1>4, <2>1, RankTells
  <1>6. Latest(R, S) \in S /\ \A y \in S : <<Latest(R, S), y>> \notin R
    BY <1>5 DEF Latest
  <1> QED
    BY <1>3, <1>6 DEF StrictOrder

(* The first n are a first part, are all if they are fewer than n, and are  *)
(* n otherwise.                                                             *)
LEMMA TopOf ==
    ASSUME NEW R, NEW S, StrictOrder(R, S), IsFiniteSet(S), NEW n \in Nat
    PROVE  /\ Top(R, n, S) \in SUBSET S /\ IsFiniteSet(Top(R, n, S))
           /\ Cardinality(Top(R, n, S)) \in Nat /\ Cardinality(Top(R, n, S)) <= n
           /\ Cardinality(S) <= n => Top(R, n, S) = S
           /\ Top(R, n, S) # S => Cardinality(Top(R, n, S)) = n
           /\ \A x \in Top(R, n, S), y \in S \ Top(R, n, S) : <<x, y>> \in R
  <1> DEFINE T == Top(R, n, S)
             size == Cardinality(S)
             m == IF n <= size THEN n ELSE size
             f == [x \in T |-> Rank(R, S, x)]
  <1>1. T \in SUBSET S /\ IsFiniteSet(T) /\ Cardinality(T) \in Nat /\ size \in Nat
    <2>1. T \in SUBSET S
      BY DEF Top
    <2>2. IsFiniteSet(T)
      BY <2>1, FS_Subset
    <2> QED
      BY <2>1, <2>2, FS_CardinalityType
  <1>2. \A x \in S : Rank(R, S, x) \in Nat /\ Rank(R, S, x) < size
    BY RankRises
  <1>3. m \in Nat /\ IsFiniteSet(0..(m - 1)) /\ Cardinality(0..(m - 1)) = m
    <2>1. m \in Nat
      BY <1>1
    <2> HIDE DEF m
    <2> QED
      BY <2>1, FS_Interval
  <1>4. f \in Bijection(T, 0..(m - 1))
    <2>1. f \in [T -> 0..(m - 1)]
      BY <1>1, <1>2 DEF Top
    <2>2. ASSUME NEW x \in T, NEW y \in T, f[x] = f[y] PROVE x = y
      BY <2>2, <1>1, RankOnce
    <2>3. ASSUME NEW k \in 0..(m - 1) PROVE \E x \in T : f[x] = k
      <3>1. k \in 0..(size - 1) /\ k < n
        BY <1>1
      <3>2. PICK x \in S : Rank(R, S, x) = k
        BY <3>1, RankTaken
      <3> QED
        BY <3>1, <3>2 DEF Top
    <2> QED
      BY <2>1, <2>2, <2>3 DEF Bijection, Injection, Surjection, IsInjective
  <1>5. Cardinality(T) = m
    <2> HIDE DEF f, T, m
    <2> QED
      BY <1>1, <1>3, <1>4, FS_Bijection DEF ExistsBijection
  <1>6. size <= n => T = S
    BY <1>1, <1>2 DEF Top
  <1>7. ASSUME NEW x \in T, NEW y \in S \ T PROVE <<x, y>> \in R
    <2>1. Rank(R, S, x) < n /\ ~(Rank(R, S, y) < n)
      BY DEF Top
    <2>2. x \in S /\ Rank(R, S, x) \in Nat /\ Rank(R, S, y) \in Nat
      BY <1>1, <1>2
    <2> QED
      BY <2>1, <2>2, RankTells
  <1> QED
    BY <1>1, <1>5, <1>6, <1>7
=============================================================================
