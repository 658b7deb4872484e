---------------------------- MODULE PassagesProofs ----------------------------
(***************************************************************************)
(* Passages keep their types, their paths, their words and their quotes,   *)
(* for all files, cases and radii. Paths are proved from an inductive      *)
(* invariant of the cache and the table of contents; the forms of a text   *)
(* from invariants of the loops that make them, each a fold.               *)
(***************************************************************************)
EXTENDS Passages, OrdersProofs

-----------------------------------------------------------------------------
(* Counting, and what is greatest.                                           *)

(* What is so of none and of the next is so of all.                          *)
LEMMA CountingUp ==
    ASSUME NEW n \in Nat, NEW I, 0 \in I, \A k \in 0..(n - 1) : k \in I => k + 1 \in I
    PROVE  \A k \in 0..n : k \in I
  <1> DEFINE M == {k \in 0..n : k \notin I}
  <1> SUFFICES ASSUME M # {} PROVE FALSE
    OBVIOUS
  <1>1. M \subseteq Nat
    OBVIOUS
  <1>2. Min(M) \in M /\ \A k \in M : Min(M) <= k
    <2> HIDE DEF M
    <2> QED
      BY <1>1, LeastOf
  <1> DEFINE m == Min(M)
  <1>3. m \in 0..n /\ m \notin I /\ \A k \in M : m <= k
    BY <1>2
  <1> HIDE DEF m
  <1>4. m - 1 \in 0..(n - 1)
    BY <1>3
  <1>5. m - 1 \in I
    BY <1>3, <1>4
  <1> QED
    BY <1>3, <1>4, <1>5

(* The greatest of some numbers is one of them.                              *)
LEMMA GreatestOf ==
    ASSUME NEW n \in Nat, NEW S, S \subseteq 1..n, S # {}
    PROVE  Max(S) \in S /\ \A k \in S : k <= Max(S)
  <1> DEFINE T == {n - k : k \in S}
  <1>1. T \subseteq Nat /\ T # {}
    <2>1. \A k \in S : n - k \in Nat
      OBVIOUS
    <2> QED
      BY <2>1
  <1>2. Min(T) \in T /\ \A k \in T : Min(T) <= k
    <2> HIDE DEF T
    <2> QED
      BY <1>1, LeastOf
  <1>3. PICK m \in S : Min(T) = n - m
    BY <1>2
  <1>4. ASSUME NEW k \in S PROVE k <= m
    <2>1. n - k \in T /\ k \in Nat /\ m \in Nat
      OBVIOUS
    <2>2. n - m <= n - k
      BY <1>2, <1>3, <2>1
    <2> QED
      BY <2>1, <2>2
  <1> QED
    BY <1>4 DEF Max

(* The last of the numbers up to k is k.                                     *)
LEMMA MaxUpto == ASSUME NEW k \in Nat, k > 0 PROVE Max(1..k) = k /\ (1..k) \ {k} = 1..(k - 1)
  <1>1. Max(1..k) \in 1..k /\ \A l \in 1..k : l <= Max(1..k)
    <2>1. 1..k \subseteq 1..k /\ 1..k # {}
      OBVIOUS
    <2> QED
      BY <2>1, GreatestOf
  <1> QED
    BY <1>1

(* The same of the greatest of every set of places.                          *)
LEMMA TopPlaces ==
    ASSUME NEW n \in Nat
    PROVE  /\ \A t \in SUBSET (1..n) : t # {} =>
                 /\ Max(t) \in 1..n /\ Max(t) \in t
                 /\ t \ {Max(t)} \in SUBSET (1..n)
           /\ \A k \in 1..n : /\ 1..k \in SUBSET (1..n) /\ 1..k # {}
                              /\ Max(1..k) = k /\ (1..k) \ {k} = 1..(k - 1)
           /\ 1..0 = {}
  <1>1. ASSUME NEW t \in SUBSET (1..n), t # {}
        PROVE  Max(t) \in t
    BY <1>1, GreatestOf
  <1>2. ASSUME NEW k \in 1..n
        PROVE  /\ 1..k \in SUBSET (1..n) /\ 1..k # {}
               /\ Max(1..k) = k /\ (1..k) \ {k} = 1..(k - 1)
    BY MaxUpto
  <1>3. ASSUME NEW t \in SUBSET (1..n), t # {}
        PROVE  Max(t) \in 1..n /\ t \ {Max(t)} \in SUBSET (1..n)
    BY <1>1, <1>3
  <1>4. 1..0 = {}
    OBVIOUS
  <1> QED
    BY <1>1, <1>2, <1>3, <1>4

-----------------------------------------------------------------------------
(* Sequences.                                                                *)

(* A function of places is a sequence, and                                   *)
LEMMA SeqOfFun ==
    ASSUME NEW T, NEW n \in Nat, NEW s \in [1..n -> T]
    PROVE  s \in Seq(T) /\ Len(s) = n /\ DOMAIN s = 1..n
OBVIOUS

(* a sequence a function of its places.                                      *)
LEMMA FunOfSeq ==
    ASSUME NEW T, NEW s \in Seq(T)
    PROVE  /\ Len(s) \in Nat /\ DOMAIN s = 1..Len(s) /\ s \in [1..Len(s) -> T]
           /\ \A n \in 1..Len(s) : s[n] \in T
  OBVIOUS

(* One more at the end.                                                      *)
LEMMA Appended ==
    ASSUME NEW T, NEW s \in Seq(T), NEW x \in T
    PROVE  /\ Append(s, x) \in Seq(T)
           /\ Len(s) \in Nat /\ DOMAIN s = 1..Len(s)
           /\ Len(Append(s, x)) = Len(s) + 1
           /\ DOMAIN Append(s, x) = 1..(Len(s) + 1)
           /\ Append(s, x)[Len(s) + 1] = x
           /\ \A n \in 1..Len(s) : Append(s, x)[n] = s[n] /\ n \in 1..(Len(s) + 1)
           /\ \A n \in 1..(Len(s) + 1) : n \in 1..Len(s) \/ n = Len(s) + 1
  OBVIOUS

(* What was put at the end.                                                  *)
LEMMA FrontLast ==
    ASSUME NEW T, NEW s \in Seq(T), NEW x \in T
    PROVE  Front(Append(s, x)) = s /\ Last(Append(s, x)) = x
  <1> DEFINE a == Append(s, x)
             n == Len(s)
  <1>1. /\ a \in Seq(T) /\ n \in Nat /\ Len(a) = n + 1 /\ a[n + 1] = x
        /\ \A k \in 1..n : a[k] = s[k]
    BY Appended
  <1>2. s \in [1..n -> T] /\ Len(a) - 1 = n
    BY <1>1, FunOfSeq
  <1> HIDE DEF a, n
  <1>3. Front(a) = [k \in 1..n |-> a[k]]
    <2>1. Front(a) = SubSeq(a, 1, n)
      BY <1>2 DEF Front
    <2> QED
      BY <1>1, <2>1
  <1>4. Front(a) = s
    <2>1. s = [k \in 1..n |-> s[k]]
      BY <1>2
    <2> QED
      BY <1>1, <1>3, <2>1
  <1>5. Last(a) = x
    BY <1>1 DEF Last
  <1> QED
    BY <1>4, <1>5 DEF a

(* Two more at the end are one, and one more.                                *)
LEMMA TwoMore ==
    ASSUME NEW T, NEW s \in Seq(T), NEW x \in T, NEW y \in T
    PROVE  /\ s \o Append(<<x>>, y) = Append(Append(s, x), y)
           /\ s \o <<x, y>> = Append(Append(s, x), y)
  <1> DEFINE t == Append(<<x>>, y)
  <1>1. t \in Seq(T) /\ Len(t) = 2 /\ t[1] = x /\ t[2] = y
    OBVIOUS
  <1> HIDE DEF t
  <1>2. s \o t = Append(Append(s, x), y)
    BY <1>1 DEF t
  <1> QED
    BY <1>2 DEF t

(* A sequence of whatever.                                                   *)
Listed(s) == \E T : s \in Seq(T)

(* It grows at its end, whatever is put there.                               *)
LEMMA ListedGrows ==
    ASSUME NEW s, Listed(s), NEW x
    PROVE  /\ Listed(Append(s, x))
           /\ Len(s) \in Nat /\ DOMAIN s = 1..Len(s)
           /\ Len(Append(s, x)) = Len(s) + 1
           /\ DOMAIN Append(s, x) = 1..(Len(s) + 1)
           /\ Append(s, x)[Len(s) + 1] = x
           /\ \A n \in 1..Len(s) : Append(s, x)[n] = s[n] /\ n \in 1..(Len(s) + 1)
           /\ \A n \in 1..(Len(s) + 1) : n \in 1..Len(s) \/ n = Len(s) + 1
  <1>1. PICK T : s \in Seq(T)
    BY DEF Listed
  <1> DEFINE U == T \cup {x}
  <1>2. s \in Seq(U) /\ x \in U
    <2>1. Len(s) \in Nat /\ s \in [1..Len(s) -> U]
      BY <1>1
    <2> HIDE DEF U
    <2>2. s \in Seq(U)
      BY <2>1, SeqOfFun
    <2> QED
      BY <2>2 DEF U
  <1> HIDE DEF U
  <1>3. Append(s, x) \in Seq(U)
    BY <1>2, Appended
  <1> QED
    BY <1>2, <1>3, Appended DEF Listed

(* A text and its first characters.                                          *)
LEMMA Upto ==
    ASSUME NEW s \in Seq(Chars)
    PROVE  /\ SubSeq(s, 1, 0) = <<>> /\ SubSeq(s, 1, Len(s)) = s
           /\ \A k \in 0..Len(s) : SubSeq(s, 1, k) \in Seq(Chars) /\ Len(SubSeq(s, 1, k)) = k
           /\ \A k \in 0..(Len(s) - 1) :
                 SubSeq(s, 1, k + 1) = Append(SubSeq(s, 1, k), s[k + 1])
  <1> DEFINE n == Len(s)
  <1>1. n \in Nat /\ s \in [1..n -> Chars]
    BY FunOfSeq
  <1>2. SubSeq(s, 1, 0) = <<>>
    OBVIOUS
  <1>3. SubSeq(s, 1, n) = s
    OBVIOUS
  <1>4. ASSUME NEW k \in 0..n
        PROVE  /\ SubSeq(s, 1, k) \in Seq(Chars) /\ Len(SubSeq(s, 1, k)) = k
               /\ \A i \in 1..k : SubSeq(s, 1, k)[i] = s[i]
    OBVIOUS
  <1>5. ASSUME NEW k \in 0..(n - 1) PROVE SubSeq(s, 1, k + 1) = Append(SubSeq(s, 1, k), s[k + 1])
    <2>1. k \in Nat /\ k \in 0..n /\ k + 1 \in 0..n /\ k + 1 \in 1..n /\ s[k + 1] \in Chars
      BY <1>1
    <2> DEFINE a == SubSeq(s, 1, k)
               b == SubSeq(s, 1, k + 1)
               x == s[k + 1]
               e == Append(a, x)
    <2>2. /\ a \in Seq(Chars) /\ Len(a) = k /\ \A i \in 1..k : a[i] = s[i]
          /\ b \in Seq(Chars) /\ Len(b) = k + 1 /\ \A i \in 1..(k + 1) : b[i] = s[i]
          /\ x \in Chars
      BY <1>4, <2>1
    <2> HIDE DEF a, b
    <2>3. /\ e \in Seq(Chars) /\ Len(e) = k + 1 /\ e[k + 1] = x
          /\ \A i \in 1..k : e[i] = a[i]
          /\ \A i \in 1..(k + 1) : i \in 1..k \/ i = k + 1
      <3> HIDE DEF x
      <3> QED
        BY <2>2, Appended
    <2> HIDE DEF e
    <2>4. e = [i \in 1..(k + 1) |-> e[i]] /\ b = [i \in 1..(k + 1) |-> b[i]]
      BY <2>2, <2>3, FunOfSeq
    <2>5. \A i \in 1..(k + 1) : e[i] = b[i]
      BY <2>2, <2>3
    <2> QED
      BY <2>4, <2>5 DEF e, a, b
  <1> QED
    BY <1>2, <1>3, <1>4, <1>5

(* A loop that adds each character to what it has copied copies the text.    *)
LEMMA Copies ==
    ASSUME NEW s \in Seq(Chars), NEW f \in [0..Len(s) -> Seq(Chars)], f[0] = <<>>,
           \A k \in 1..Len(s) :
              f[k - 1] = SubSeq(s, 1, k - 1) => f[k] = Append(f[k - 1], s[k])
    PROVE  f[Len(s)] = s
  <1> DEFINE n == Len(s)
             I == {k \in 0..n : f[k] = SubSeq(s, 1, k)}
  <1>1. n \in Nat /\ n \in 0..n
    OBVIOUS
  <1>2. 0 \in I
    OBVIOUS
  <1>3. ASSUME NEW k \in 0..(n - 1), k \in I PROVE k + 1 \in I
    <2>1. k + 1 \in 1..n /\ (k + 1) - 1 = k /\ k + 1 \in 0..n
      BY <1>1
    <2>2. f[k + 1] = Append(SubSeq(s, 1, k), s[k + 1])
      <3>1. f[k] = SubSeq(s, 1, k)
        BY <1>3
      <3>2. f[(k + 1) - 1] = SubSeq(s, 1, (k + 1) - 1)
              => f[k + 1] = Append(f[(k + 1) - 1], s[k + 1])
        BY <2>1
      <3> QED
        BY <2>1, <3>1, <3>2
    <2>3. Append(SubSeq(s, 1, k), s[k + 1]) = SubSeq(s, 1, k + 1)
      <3> DEFINE a == SubSeq(s, 1, k)
                 b == SubSeq(s, 1, k + 1)
      <3>1. /\ a \in Seq(Chars) /\ Len(a) = k /\ \A i \in 1..k : a[i] = s[i]
            /\ b \in Seq(Chars) /\ Len(b) = k + 1 /\ \A i \in 1..(k + 1) : b[i] = s[i]
            /\ s[k + 1] \in Chars /\ k \in Nat
        BY <2>1
      <3> HIDE DEF a, b
      <3> DEFINE d == Append(a, s[k + 1])
      <3>2. /\ d \in Seq(Chars) /\ Len(d) = k + 1 /\ d[k + 1] = s[k + 1]
            /\ \A i \in 1..k : d[i] = a[i]
            /\ \A i \in 1..(k + 1) : i \in 1..k \/ i = k + 1
        BY <3>1, Appended
      <3> HIDE DEF d
      <3>3. \A i \in 1..(k + 1) : d[i] = b[i]
        BY <3>1, <3>2
      <3>4. d \in [1..(k + 1) -> Chars] /\ b \in [1..(k + 1) -> Chars]
        <4>1. d \in [1..Len(d) -> Chars] /\ b \in [1..Len(b) -> Chars]
          BY <3>1, <3>2, FunOfSeq
        <4> QED
          BY <3>1, <3>2, <4>1
      <3> QED
        BY <3>3, <3>4 DEF a, b, d
    <2> QED
      BY <2>1, <2>2, <2>3
  <1> HIDE DEF I
  <1>4. \A k \in 0..n : k \in I
    BY <1>1, <1>2, <1>3, CountingUp
  <1>5. f[n] = SubSeq(s, 1, n)
    BY <1>1, <1>4 DEF I
  <1>6. SubSeq(s, 1, n) = s
    OBVIOUS
  <1> QED
    BY <1>5, <1>6

-----------------------------------------------------------------------------
(* Folds: a fold to the left is chosen by its equation over all sets of      *)
(* places, so the function that runs through its steps has to be shown to    *)
(* exist; what it chose then obeys the equation, step after step.            *)

(* What a fold to the left chooses: the result for every set of places.      *)
Folding(S, step, a, n, s, g) ==
    /\ g \in [SUBSET (1..n) -> S]
    /\ \A t \in SUBSET (1..n) :
          g[t] = IF t = {} THEN a ELSE step[<<g[t \ {Max(t)}], s[Max(t)]>>]

(* It exists.                                                                *)
LEMMA LoopRuns ==
    ASSUME NEW S, NEW C, NEW step \in [S \X C -> S], NEW a \in S, NEW n \in Nat,
           NEW s \in [1..n -> C]
    PROVE  \E g : Folding(S, step, a, n, s, g)
  <1> DEFINE Fits(k, g) == \A t \in SUBSET (1..k) :
                 g[t] = IF t = {} THEN a ELSE step[<<g[t \ {Max(t)}], s[Max(t)]>>]
             I == {k \in 0..n : \E g \in [SUBSET (1..k) -> S] : Fits(k, g)}
  <1>1. 0 \in I
    <2> DEFINE g == [t \in SUBSET (1..0) |-> a]
    <2>1. g \in [SUBSET (1..0) -> S]
      OBVIOUS
    <2>2. \A t \in SUBSET (1..0) : t = {}
      OBVIOUS
    <2>3. Fits(0, g)
      BY <2>2
    <2>4. 0 \in 0..n
      OBVIOUS
    <2> HIDE DEF g, Fits
    <2> QED
      BY <2>1, <2>3, <2>4
  <1>2. ASSUME NEW k \in 0..(n - 1), k \in I PROVE k + 1 \in I
    <2>1. PICK g \in [SUBSET (1..k) -> S] : Fits(k, g)
      BY <1>2
    <2> DEFINE m == k + 1
               h == [t \in SUBSET (1..m) |->
                       IF m \in t THEN step[<<g[t \ {m}], s[m]>>] ELSE g[t]]
    <2>2. m \in 1..n /\ m \notin 1..k /\ 1..m = (1..k) \cup {m} /\ s[m] \in C
      OBVIOUS
    <2> HIDE DEF m
    <2>3. ASSUME NEW t \in SUBSET (1..m), m \in t
          PROVE  t \ {m} \in SUBSET (1..k) /\ Max(t) = m /\ t # {}
      <3>1. t \subseteq 1..n /\ t # {}
        BY <2>2, <2>3
      <3>2. Max(t) \in t /\ \A l \in t : l <= Max(t)
        BY <3>1, GreatestOf
      <3>3. Max(t) = m
        <4>1. m \in Nat
          BY <2>2
        <4>2. Max(t) \in 1..m /\ m <= Max(t)
          BY <2>3, <3>2
        <4> HIDE DEF Fits
        <4> QED
          BY <4>1, <4>2
      <3>4. t \ {m} \in SUBSET (1..k)
        BY <2>2
      <3> QED
        BY <3>1, <3>3, <3>4
    <2>4. ASSUME NEW t \in SUBSET (1..m), m \notin t
          PROVE  t \in SUBSET (1..k)
      BY <2>2, <2>4
    <2>5. h \in [SUBSET (1..m) -> S]
      <3>1. ASSUME NEW t \in SUBSET (1..m) PROVE h[t] \in S
        <4>1. CASE m \in t
          <5>1. g[t \ {m}] \in S
            BY <2>3, <4>1
          <5>2. <<g[t \ {m}], s[m]>> \in S \X C
            BY <5>1, <2>2
          <5> QED
            BY <4>1, <5>2
        <4>2. CASE m \notin t
          BY <2>4, <4>2
        <4> QED
          BY <4>1, <4>2
      <3> QED
        BY <3>1
    <2>6. ASSUME NEW t \in SUBSET (1..m)
          PROVE  h[t] = IF t = {} THEN a ELSE step[<<h[t \ {Max(t)}], s[Max(t)]>>]
      <3>1. CASE m \in t
        <4>1. t \ {m} \in SUBSET (1..m) /\ m \notin t \ {m}
          OBVIOUS
        <4>2. h[t \ {m}] = g[t \ {m}]
          BY <4>1
        <4> QED
          BY <2>3, <3>1, <4>2
      <3>2. CASE m \notin t
        <4>1. t \in SUBSET (1..k) /\ h[t] = g[t]
          BY <2>4, <3>2
        <4>2. t # {} => Max(t) \in t
          <5>1. t \subseteq 1..n
            BY <2>2
          <5> QED
            BY <5>1, GreatestOf
        <4>3. t # {} => /\ t \ {Max(t)} \in SUBSET (1..m)
                        /\ m \notin t \ {Max(t)}
          BY <3>2
        <4>4. t # {} => h[t \ {Max(t)}] = g[t \ {Max(t)}]
          BY <4>3
        <4> QED
          BY <2>1, <4>1, <4>4
      <3> QED
        BY <3>1, <3>2
    <2>7. Fits(m, h)
      BY <2>6
    <2>8. m \in 0..n /\ m = k + 1
      BY DEF m
    <2> QED
      BY <2>5, <2>7, <2>8
  <1>3. n \in I
    <2>1. n \in 0..n
      OBVIOUS
    <2> HIDE DEF I
    <2>2. \A k \in 0..n : k \in I
      BY <1>1, <1>2, CountingUp
    <2> QED
      BY <2>1, <2>2
  <1> QED
    BY <1>3 DEF Folding

-----------------------------------------------------------------------------
(* Orders that grow.                                                         *)

(* One more member, after all others.                                        *)
AddsTo(R, Q, S, z) ==
    /\ IsFiniteSet(S) /\ z \notin S
    /\ StrictOrder(R, S) /\ StrictOrder(Q, S \cup {z})
    /\ \A x, y \in S : <<x, y>> \in R <=> <<x, y>> \in Q
    /\ \A x \in S : <<x, z>> \in Q

(* It comes last, and nothing else moves.                                    *)
LEMMA OrderGrows ==
    ASSUME NEW R, NEW Q, NEW S, NEW z, AddsTo(R, Q, S, z)
    PROVE  Ordered(Q, S \cup {z}) = Append(Ordered(R, S), z)
  <1> USE DEF AddsTo
  <1> DEFINE T == S \cup {z}
             size == Cardinality(S)
             a == Ordered(R, S)
             b == Ordered(Q, T)
  <1>1. IsFiniteSet(T) /\ Cardinality(T) = size + 1 /\ size \in Nat /\ S \subseteq T /\ z \in T
    BY FS_AddElement, FS_CardinalityType
  <1>2. ASSUME NEW x \in S PROVE Rank(Q, T, x) = Rank(R, S, x)
    <2>1. <<z, x>> \notin Q
      BY DEF StrictOrder
    <2>2. {y \in T : <<y, x>> \in Q} = {y \in S : <<y, x>> \in R}
      BY <2>1
    <2> QED
      BY <2>2 DEF Rank
  <1>3. Rank(Q, T, z) = size
    <2>1. <<z, z>> \notin Q
      BY DEF StrictOrder
    <2>2. {y \in T : <<y, z>> \in Q} = S
      BY <2>1
    <2> QED
      BY <2>2 DEF Rank
  <1>4. /\ a \in [1..size -> S] /\ \A n \in 1..size : Rank(R, S, a[n]) = n - 1
    BY OrderedSorts
  <1> HIDE DEF T
  <1>5. /\ b \in [1..(size + 1) -> T] /\ \A n \in 1..(size + 1) : Rank(Q, T, b[n]) = n - 1
    <2>1. StrictOrder(Q, T)
      BY DEF T
    <2>2. /\ b \in [1..Cardinality(T) -> T]
          /\ \A n \in 1..Cardinality(T) : Rank(Q, T, b[n]) = n - 1
      BY <1>1, <2>1, OrderedSorts
    <2> QED
      BY <1>1, <2>2
  <1> HIDE DEF a, b, size
  <1>6. ASSUME NEW x \in T, NEW y \in T, Rank(Q, T, x) = Rank(Q, T, y) PROVE x = y
    BY <1>1, <1>6, RankOnce DEF T
  <1>7. ASSUME NEW n \in 1..size PROVE b[n] = a[n]
    <2>1. n \in 1..(size + 1)
      BY <1>1
    <2>2. a[n] \in S /\ a[n] \in T /\ b[n] \in T
      BY <1>1, <1>4, <1>5, <2>1
    <2>3. Rank(Q, T, a[n]) = n - 1 /\ Rank(Q, T, b[n]) = n - 1
      BY <1>2, <1>4, <1>5, <2>1, <2>2
    <2> QED
      BY <1>6, <2>2, <2>3
  <1>8. b[size + 1] = z
    <2>1. b[size + 1] \in T /\ size + 1 \in 1..(size + 1) /\ (size + 1) - 1 = size
      BY <1>1, <1>5
    <2>2. Rank(Q, T, b[size + 1]) = size
      BY <1>5, <2>1
    <2> QED
      BY <1>1, <1>3, <1>6, <2>1, <2>2
  <1>9. b = Append(a, z)
    <2>1. size + 1 \in Nat
      BY <1>1
    <2>2. a \in [1..size -> T]
      <3>1. \A n \in 1..size : a[n] \in T
        BY <1>1, <1>4
      <3> QED
        BY <1>4, <3>1
    <2>3. a \in Seq(T) /\ Len(a) = size
      BY <1>1, <2>2, SeqOfFun
    <2>4. /\ Append(a, z) \in Seq(T) /\ Len(Append(a, z)) = size + 1
          /\ Append(a, z)[size + 1] = z
          /\ \A n \in 1..size : Append(a, z)[n] = a[n]
          /\ \A n \in 1..(size + 1) : n \in 1..size \/ n = size + 1
      BY <1>1, <2>3, Appended
    <2>5. Append(a, z) \in [1..(size + 1) -> T]
      BY <2>4, FunOfSeq
    <2>6. \A n \in 1..(size + 1) : b[n] = Append(a, z)[n]
      BY <1>7, <1>8, <2>4
    <2>7. b = [n \in 1..(size + 1) |-> b[n]]
      BY <1>5
    <2>8. Append(a, z) = [n \in 1..(size + 1) |-> Append(a, z)[n]]
      BY <2>5
    <2> QED
      BY <2>6, <2>7, <2>8
  <1> QED
    BY <1>9 DEF a, b, T

(* Orders that agree.                                                        *)
LEMMA OrdersAgree ==
    ASSUME NEW R, NEW Q, NEW S, \A x, y \in S : <<x, y>> \in R <=> <<x, y>> \in Q
    PROVE  Ordered(R, S) = Ordered(Q, S)
  <1>1. ASSUME NEW x \in S PROVE Rank(R, S, x) = Rank(Q, S, x)
    <2>1. {y \in S : <<y, x>> \in R} = {y \in S : <<y, x>> \in Q}
      OBVIOUS
    <2> QED
      BY <2>1 DEF Rank
  <1>2. ASSUME NEW n \in Int
        PROVE  (CHOOSE x \in S : Rank(R, S, x) = n - 1) = (CHOOSE x \in S : Rank(Q, S, x) = n - 1)
    <2>1. \A x : (x \in S /\ Rank(R, S, x) = n - 1) <=> (x \in S /\ Rank(Q, S, x) = n - 1)
      BY <1>1
    <2> QED
      BY <2>1
  <1>3. Cardinality(S) = Cardinality(S) /\ \A n \in 1..Cardinality(S) : n \in Int
    OBVIOUS
  <1> QED
    BY <1>2, <1>3 DEF Ordered

(* Numbers in order, and a greater one after them.                           *)
LEMMA OneMoreInOrder ==
    ASSUME NEW I \in SUBSET Nat, IsFiniteSet(I), NEW k \in Nat, \A i \in I : i < k
    PROVE  Ascending(I \cup {k}) = Append(Ascending(I), k)
  <1> DEFINE J == I \cup {k}
  <1>1. k \notin I /\ J \in SUBSET Nat
    OBVIOUS
  <1>2. StrictOrder(Less(I), I) /\ StrictOrder(Less(J), J)
    <2> HIDE DEF J
    <2> QED
      BY <1>1, LessOrders
  <1>3. /\ \A x, y \in I : <<x, y>> \in Less(I) <=> <<x, y>> \in Less(J)
        /\ \A x \in I : <<x, k>> \in Less(J)
    BY DEF Less
  <1>4. AddsTo(Less(I), Less(J), I, k)
    BY <1>1, <1>2, <1>3 DEF AddsTo
  <1>5. Ordered(Less(J), I \cup {k}) = Append(Ordered(Less(I), I), k)
    <2> HIDE DEF J
    <2> QED
      BY ONLY <1>4, OrderGrows
  <1>6. Ascending(J) = Ordered(Less(J), J) /\ Ascending(I) = Ordered(Less(I), I)
    BY DEF Ascending
  <1> QED
    BY <1>5, <1>6

(* What is picked from the first k of a sequence, and from the first k - 1.  *)
LEMMA OnlyGrows ==
    ASSUME NEW T, NEW s \in Seq(T), NEW k \in 1..Len(s), NEW S
    PROVE  LET before == Only(SubSeq(s, 1, k - 1), S)
               after == Only(SubSeq(s, 1, k), S)
           IN  /\ before \in Seq(T)
               /\ s[k] \notin S => after = before
               /\ s[k] \in S => after = Append(before, s[k])
  <1> DEFINE a == SubSeq(s, 1, k - 1)
             b == SubSeq(s, 1, k)
             I == {n \in DOMAIN a : a[n] \in S}
             J == {n \in DOMAIN b : b[n] \in S}
  <1>1. /\ Len(s) \in Nat /\ DOMAIN s = 1..Len(s) /\ k \in Nat /\ k - 1 \in Nat
        /\ DOMAIN a = 1..(k - 1) /\ \A n \in 1..(k - 1) : a[n] = s[n] /\ a[n] \in T
        /\ DOMAIN b = 1..k /\ \A n \in 1..k : b[n] = s[n] /\ b[n] \in T
    OBVIOUS
  <1> HIDE DEF a, b
  <1>2. /\ I \in SUBSET Nat /\ IsFiniteSet(I) /\ \A i \in I : i < k
        /\ I \subseteq 1..(k - 1)
    <2>1. I \in SUBSET (1..(k - 1)) /\ IsFiniteSet(1..(k - 1))
      BY <1>1, FS_Interval
    <2>2. IsFiniteSet(I)
      BY <2>1, FS_Subset
    <2>3. \A i \in 1..(k - 1) : i < k /\ i \in Nat
      BY <1>1
    <2> QED
      BY <2>1, <2>2, <2>3
  <1>3. J = IF s[k] \in S THEN I \cup {k} ELSE I
    <2>1. \A n : n \in 1..k <=> n \in 1..(k - 1) \/ n = k
      BY <1>1
    <2>2. \A n \in 1..(k - 1) : a[n] = b[n]
      BY <1>1, <2>1
    <2> QED
      BY <1>1, <2>1, <2>2
  <1> DEFINE at == Ascending(I)
             size == Cardinality(I)
  <1>4. at \in [1..size -> I] /\ size \in Nat
    <2> HIDE DEF I
    <2> QED
      BY <1>2, AscendingSorts
  <1> HIDE DEF I, J, at, size
  <1>5. Only(a, S) = [n \in 1..size |-> a[at[n]]]
    BY <1>4 DEF Only, Picked, I, at
  <1>6. \A n \in 1..size : at[n] \in 1..(k - 1) /\ a[at[n]] = s[at[n]] /\ a[at[n]] \in T
                           /\ b[at[n]] = s[at[n]]
    <2>1. \A n \in 1..size : at[n] \in 1..(k - 1)
      BY <1>2, <1>4
    <2>2. \A n \in 1..(k - 1) : n \in 1..k
      BY <1>1
    <2> QED
      BY <1>1, <2>1, <2>2
  <1>7. Only(a, S) \in Seq(T) /\ Len(Only(a, S)) = size
    <2>1. Only(a, S) \in [1..size -> T]
      BY <1>5, <1>6
    <2> QED
      BY <1>4, <2>1, SeqOfFun
  <1>8. CASE s[k] \notin S
    <2>1. Only(b, S) = [n \in DOMAIN at |-> b[at[n]]]
      BY <1>3, <1>8 DEF Only, Picked, J, at
    <2>2. Only(b, S) = Only(a, S)
      BY <1>4, <1>5, <1>6, <2>1
    <2> QED
      BY <1>7, <1>8, <2>2 DEF a, b
  <1>9. CASE s[k] \in S
    <2> DEFINE bt == Append(at, k)
    <2>1. Ascending(J) = bt
      BY <1>1, <1>2, <1>3, <1>9, OneMoreInOrder DEF at
    <2>2. /\ DOMAIN bt = 1..(size + 1) /\ bt[size + 1] = k /\ \A n \in 1..size : bt[n] = at[n]
          /\ \A n \in 1..(size + 1) : n \in 1..size \/ n = size + 1
      <3>1. at \in Seq(Nat) /\ Len(at) = size
        <4>1. at \in [1..size -> Nat]
          BY <1>2, <1>4
        <4> QED
          BY <1>4, <4>1, SeqOfFun
      <3> QED
        BY <1>1, <3>1, Appended
    <2> HIDE DEF bt
    <2>3. Only(b, S) = [n \in 1..(size + 1) |-> b[bt[n]]]
      BY <2>1, <2>2 DEF Only, Picked, J
    <2>4. s[k] \in T /\ b[k] = s[k]
      BY <1>1
    <2>5. /\ Len(Append(Only(a, S), s[k])) = size + 1 /\ Append(Only(a, S), s[k]) \in Seq(T)
          /\ Append(Only(a, S), s[k])[size + 1] = s[k]
          /\ \A n \in 1..size : Append(Only(a, S), s[k])[n] = Only(a, S)[n]
      BY <1>7, <2>4, Appended
    <2>6. \A n \in 1..(size + 1) : b[bt[n]] = Append(Only(a, S), s[k])[n]
      <3>1. \A n \in 1..size : b[bt[n]] = Only(a, S)[n]
        BY <1>5, <1>6, <2>2
      <3> QED
        BY <2>2, <2>4, <2>5, <3>1
    <2>7. Append(Only(a, S), s[k]) = [n \in 1..(size + 1) |-> Append(Only(a, S), s[k])[n]]
      BY <2>5
    <2>8. Only(b, S) = Append(Only(a, S), s[k])
      BY <2>3, <2>6, <2>7
    <2> QED
      BY <1>7, <1>9, <2>8 DEF a, b
  <1> QED
    BY <1>8, <1>9

-----------------------------------------------------------------------------
(* Tables of contents, trails and paths.                                     *)

(* By page, as the query orders it.                                          *)
Sorted(toc) == \A m, n \in DOMAIN toc : m < n => toc[m].page <= toc[n].page

(* A table of contents.                                                      *)
LEMMA HeadingFacts ==
    ASSUME NEW toc \in Seq(Headings)
    PROVE  /\ Len(toc) \in Nat /\ DOMAIN toc = 1..Len(toc)
           /\ \A k \in 1..Len(toc) :
                 /\ toc[k] \in Headings
                 /\ toc[k].id \in Int /\ toc[k].page \in Int
                 /\ toc[k].level \in Int /\ toc[k].words \in BOOLEAN
  <1>1. Len(toc) \in Nat /\ DOMAIN toc = 1..Len(toc) /\ \A k \in 1..Len(toc) : toc[k] \in Headings
    OBVIOUS
  <1> QED
    BY <1>1 DEF Headings

(* The loop breaks where the headings of later pages begin.                  *)
LEMMA EntriesAre ==
    ASSUME NEW toc \in Seq(Headings), Sorted(toc), NEW page \in Int
    PROVE  \E n \in 0..Len(toc) :
              /\ DOMAIN Entries(toc, page) = 1..n
              /\ 1..n = {k \in DOMAIN toc : toc[k].page <= page}
  <1> DEFINE I == {i \in 1..Len(toc) : toc[i].page > page}
             later == IF I # {} THEN Min(I) ELSE 0
  <1>1. Len(toc) \in Nat /\ DOMAIN toc = 1..Len(toc) /\ \A k \in 1..Len(toc) : toc[k].page \in Int
    BY HeadingFacts
  <1>2. Entries(toc, page) = IF later = 0 THEN toc ELSE SubSeq(toc, 1, later - 1)
    <2>1. SelectInSeq(toc, LAMBDA e : e.page > page) = later
      BY Zenon DEF SelectInSeq
    <2> HIDE DEF later
    <2> QED
      BY <2>1 DEF Entries
  <1>3. CASE I = {}
    <2>1. Entries(toc, page) = toc
      BY <1>2, <1>3
    <2>2. \A k \in 1..Len(toc) : toc[k].page <= page
      BY <1>1, <1>3
    <2>3. Len(toc) \in 0..Len(toc)
      BY <1>1
    <2>4. /\ DOMAIN Entries(toc, page) = 1..Len(toc)
          /\ 1..Len(toc) = {k \in DOMAIN toc : toc[k].page <= page}
      BY <1>1, <2>1, <2>2
    <2> QED
      BY ONLY <2>3, <2>4
  <1>4. CASE I # {}
    <2>1. I \subseteq Nat
      BY <1>1
    <2>2. later \in I /\ \A k \in I : later <= k
      <3> HIDE DEF I
      <3> QED
        BY <1>4, <2>1, LeastOf
    <2>3. later \in 1..Len(toc) /\ toc[later].page > page /\ \A k \in I : later <= k
      BY <2>2
    <2>4. later # 0
      BY <2>3
    <2> HIDE DEF later
    <2> DEFINE n == later - 1
    <2>5. n \in 0..Len(toc) /\ n \in Nat
      BY <1>1, <2>3
    <2>6. DOMAIN Entries(toc, page) = 1..n
      BY <1>1, <1>2, <2>3, <2>4
    <2>7. ASSUME NEW k \in 1..Len(toc) PROVE toc[k].page <= page <=> k \in 1..n
      <3>1. CASE k < later
        <4>1. k \notin I
          BY <1>1, <2>3, <3>1
        <4> QED
          BY <1>1, <2>3, <3>1, <4>1
      <3>2. CASE ~(k < later)
        <4>1. k = later \/ later < k
          BY <1>1, <2>3, <3>2
        <4>2. toc[later].page <= toc[k].page
          BY <1>1, <2>3, <4>1 DEF Sorted
        <4> QED
          BY <1>1, <2>3, <3>2, <4>2
      <3> QED
        BY <3>1, <3>2
    <2>8. 1..n = {k \in DOMAIN toc : toc[k].page <= page}
      <3>1. 1..n \subseteq 1..Len(toc)
        BY <1>1, <2>5
      <3> HIDE DEF n
      <3> QED
        BY <1>1, <2>7, <3>1
    <2> QED
      BY <2>5, <2>6, <2>8
  <1> QED
    BY <1>3, <1>4

(* The trail while the loop runs.                                            *)
Nested(toc, last, n) == {k \in last : toc[k].level < toc[n].level} \cup {n}

(* The loop of the trail over n entries, step by step, from no heading.      *)
Trailed(toc, page, n) ==
    \E f : /\ f[0] = {}
           /\ \A k \in 1..n : f[k] = Nested(toc, f[k - 1], k)
           /\ Trail(toc, page) = f[n]

(* It has such steps.                                                        *)
LEMMA TrailRuns ==
    ASSUME NEW toc, NEW page, NEW n \in Nat, DOMAIN Entries(toc, page) = 1..n
    PROVE  Trailed(toc, page, n)
  <1> DEFINE S == SUBSET (1..n)
             C == 1..n
             start == {}
             s == [i \in 1..n |-> i]
             step == [p \in S \X C |-> Nested(toc, p[1], p[2])]
             Eq(h) == h = [t \in SUBSET (1..n) |->
                             IF t = {} THEN {}
                             ELSE {k \in h[t \ {Max(t)}] : toc[k].level < toc[s[Max(t)]].level}
                                  \cup {s[Max(t)]}]
  <1>1. step \in [S \X C -> S]
    BY DEF Nested
  <1>2. start \in S /\ s \in [1..n -> C]
    OBVIOUS
  <1>3. PICK g : Folding(S, step, start, n, s, g)
    <2> HIDE DEF s, step, S, C, start
    <2> QED
      BY <1>1, <1>2, LoopRuns
  <1>4. Eq(g)
    <2>0. /\ g \in [SUBSET (1..n) -> S]
          /\ \A t \in SUBSET (1..n) :
                g[t] = IF t = {} THEN {} ELSE step[<<g[t \ {Max(t)}], s[Max(t)]>>]
      BY <1>3 DEF Folding
    <2>1. ASSUME NEW t \in SUBSET (1..n), t # {}
          PROVE  step[<<g[t \ {Max(t)}], s[Max(t)]>>]
                   = {k \in g[t \ {Max(t)}] : toc[k].level < toc[s[Max(t)]].level} \cup {s[Max(t)]}
      BY <2>0, <2>1, TopPlaces DEF Nested
    <2> HIDE DEF step, s
    <2> QED
      BY <2>0, <2>1
  <1> DEFINE h == CHOOSE h : Eq(h)
  <1>5. Eq(h)
    <2> HIDE DEF Eq
    <2> QED
      BY <1>4
  <1>6. Trail(toc, page) = h[1..n]
    BY DEF Trail, FoldLeftDomain, FoldLeft, MapThenFoldSet
  <1> HIDE DEF h
  <1> DEFINE f == [k \in 0..n |-> h[1..k]]
  <1>7. f[0] = {}
    BY <1>5, TopPlaces
  <1>8. ASSUME NEW k \in 1..n PROVE f[k] = Nested(toc, f[k - 1], k)
    <2>1. k \in 0..n /\ k - 1 \in 0..n /\ k - 1 \in Nat
      OBVIOUS
    <2>2. h[1..k] = Nested(toc, h[1..(k - 1)], k)
      <3>1. 1..k \in SUBSET (1..n) /\ 1..k # {} /\ Max(1..k) = k /\ (1..k) \ {k} = 1..(k - 1)
        BY TopPlaces
      <3>2. \A t \in SUBSET (1..n) : t # {} => h[t] = Nested(toc, h[t \ {Max(t)}], s[Max(t)])
        BY <1>5 DEF Nested
      <3>3. h[1..k] = Nested(toc, h[(1..k) \ {Max(1..k)}], s[Max(1..k)])
        BY <3>1, <3>2
      <3> QED
        BY <3>1, <3>3
    <2> QED
      BY <2>1, <2>2
  <1>9. h[1..n] = f[n]
    OBVIOUS
  <1> QED
    BY <1>6, <1>7, <1>8, <1>9 DEF Trailed

(* The trail is the headings the page is under.                              *)
LEMMA TrailIs ==
    ASSUME NEW toc \in Seq(Headings), Sorted(toc), NEW page \in Int
    PROVE  /\ Trail(toc, page) = Under(toc, page)
           /\ Under(toc, page) \in SUBSET DOMAIN toc /\ IsFiniteSet(Under(toc, page))
           /\ \A k, l \in Under(toc, page) : k < l => toc[k].level < toc[l].level
  <1> DEFINE before == {k \in DOMAIN toc : toc[k].page <= page}
  <1>1. /\ Len(toc) \in Nat /\ DOMAIN toc = 1..Len(toc)
        /\ \A k \in 1..Len(toc) : toc[k].level \in Int
    BY HeadingFacts
  <1>2. PICK n \in 0..Len(toc) : DOMAIN Entries(toc, page) = 1..n /\ 1..n = before
    BY EntriesAre
  <1>3. n \in Nat /\ 1..n \subseteq 1..Len(toc)
    BY <1>1
  <1>4. PICK f : /\ f[0] = {}
                 /\ \A k \in 1..n : f[k] = Nested(toc, f[k - 1], k)
                 /\ Trail(toc, page) = f[n]
    <2>1. n \in Nat /\ DOMAIN Entries(toc, page) = 1..n
      BY <1>2, <1>3
    <2>2. Trailed(toc, page, n)
      BY ONLY <2>1, TrailRuns
    <2> QED
      BY <2>2 DEF Trailed
  <1> DEFINE U(m) == {k \in 1..m : \A l \in 1..m : l > k => toc[k].level < toc[l].level}
             I == {m \in 0..n : f[m] = U(m)}
  <1>5. 0 \in I
    <2>1. U(0) = {}
      OBVIOUS
    <2> QED
      BY <1>3, <1>4, <2>1
  <1>6. ASSUME NEW m \in 0..(n - 1), m \in I PROVE m + 1 \in I
    <2>1. m + 1 \in 1..n /\ (m + 1) - 1 = m /\ f[m] = U(m) /\ m \in Nat
      BY <1>3, <1>6
    <2>2. f[m + 1] = Nested(toc, U(m), m + 1)
      <3>1. f[m + 1] = Nested(toc, f[(m + 1) - 1], m + 1)
        BY <1>4, <2>1
      <3> QED
        BY <2>1, <3>1
    <2>3. Nested(toc, U(m), m + 1) = U(m + 1)
      <3>1. \A k : k \in 1..(m + 1) <=> k \in 1..m \/ k = m + 1
        BY <2>1
      <3>2. \A k \in 1..m : k < m + 1 /\ k # m + 1 /\ ~(k > m + 1)
        BY <2>1
      <3>3. ~(m + 1 > m + 1) /\ m + 1 \in Int
        BY <2>1
      <3>4. ASSUME NEW k \in 1..m
            PROVE  k \in U(m + 1) <=> k \in U(m) /\ toc[k].level < toc[m + 1].level
        BY <3>1, <3>2, <3>4
      <3>5. m + 1 \in U(m + 1)
        BY <3>1, <3>2, <3>3
      <3>6. U(m + 1) \subseteq 1..(m + 1) /\ U(m) \subseteq 1..m
        OBVIOUS
      <3> HIDE DEF U
      <3> QED
        BY <3>1, <3>4, <3>5, <3>6 DEF Nested
    <2> HIDE DEF U
    <2> QED
      BY <2>1, <2>2, <2>3
  <1>7. n \in I
    <2>1. n \in 0..n
      BY <1>3
    <2> HIDE DEF I
    <2>2. \A k \in 0..n : k \in I
      BY <1>3, <1>5, <1>6, CountingUp
    <2> QED
      BY <2>1, <2>2
  <1>8. Trail(toc, page) = U(n)
    BY <1>4, <1>7
  <1>9. U(n) = Under(toc, page)
    BY <1>2 DEF Under
  <1>10. U(n) \in SUBSET (1..n) /\ IsFiniteSet(U(n))
    <2>1. IsFiniteSet(1..n)
      BY <1>3, FS_Interval
    <2>2. U(n) \in SUBSET (1..n)
      OBVIOUS
    <2> QED
      BY <2>1, <2>2, FS_Subset
  <1>11. \A k, l \in U(n) : k < l => toc[k].level < toc[l].level
    <2>1. \A k, l \in 1..n : k < l <=> l > k
      BY <1>3
    <2> QED
      BY <2>1
  <1> HIDE DEF U
  <1> QED
    BY <1>1, <1>3, <1>8, <1>9, <1>10, <1>11

(* The path: the headings of the trail that have words, by level, which is   *)
(* the order of their places.                                                *)
LEMMA PathIs ==
    ASSUME NEW toc \in Seq(Headings), NEW trail \in SUBSET DOMAIN toc, IsFiniteSet(trail),
           \A k, l \in trail : k < l => toc[k].level < toc[l].level
    PROVE  /\ Path(toc, trail) \in Seq(Nat)
           /\ ToSet(Path(toc, trail)) = {n \in trail : toc[n].words}
           /\ \A k, l \in DOMAIN Path(toc, trail) :
                 k < l => Path(toc, trail)[k] < Path(toc, trail)[l]
  <1> DEFINE T == {n \in trail : toc[n].words}
             R == Levels(toc)
             p == Ordered(R, T)
             size == Cardinality(T)
  <1>1. /\ Len(toc) \in Nat /\ DOMAIN toc = 1..Len(toc)
        /\ \A k \in 1..Len(toc) : toc[k].level \in Int
    BY HeadingFacts
  <1>2. IsFiniteSet(T) /\ T \in SUBSET trail
    BY FS_Subset
  <1>3. \A x, y \in T : <<x, y>> \in R <=> toc[x].level < toc[y].level
    BY <1>2 DEF Levels
  <1>4. \A x \in T : x \in Nat /\ toc[x].level \in Int
    BY <1>1, <1>2
  <1>5. \A x, y \in T : x < y => toc[x].level < toc[y].level
    BY <1>2
  <1> HIDE DEF T, R
  <1>6. \A x, y \in T : <<x, y>> \in R => x < y
    <2> SUFFICES ASSUME NEW x \in T, NEW y \in T, <<x, y>> \in R PROVE x < y
      OBVIOUS
    <2>1. toc[x].level < toc[y].level
      BY <1>3
    <2>2. x # y /\ ~(y < x)
      BY <1>4, <1>5, <2>1
    <2> QED
      BY <1>4, <2>2
  <1>7. StrictOrder(R, T)
    <2>1. \A x \in T : <<x, x>> \notin R
      BY <1>3, <1>4
    <2>2. ASSUME NEW x \in T, NEW y \in T PROVE x = y \/ <<x, y>> \in R \/ <<y, x>> \in R
      <3>1. x = y \/ x < y \/ y < x
        BY <1>4
      <3> QED
        BY <1>3, <1>5, <3>1
    <2>3. ASSUME NEW x \in T, NEW y \in T, NEW z \in T, <<x, y>> \in R, <<y, z>> \in R
          PROVE  <<x, z>> \in R
      <3>1. toc[x].level < toc[y].level /\ toc[y].level < toc[z].level
        BY <1>3, <2>3
      <3>2. toc[x].level < toc[z].level
        BY <1>4, <3>1
      <3> QED
        BY <1>3, <3>2
    <2> QED
      BY <2>1, <2>2, <2>3 DEF StrictOrder
  <1>8. /\ size \in Nat
        /\ p \in [1..size -> T]
        /\ \A m, n \in 1..size : m < n => <<p[m], p[n]>> \in R
        /\ \A x \in T : \E n \in 1..size : p[n] = x
    BY <1>2, <1>7, OrderedSorts
  <1>9. Path(toc, trail) = p
    BY DEF Path, T, R
  <1> HIDE DEF p, size
  <1>10. p \in Seq(Nat) /\ DOMAIN p = 1..size
    BY <1>4, <1>8
  <1>11. ToSet(p) = T
    BY <1>8, <1>10 DEF ToSet
  <1>12. \A k, l \in 1..size : k < l => p[k] < p[l]
    BY <1>6, <1>8
  <1> QED
    BY <1>9, <1>10, <1>11, <1>12 DEF T

(* Words only come to the headings of a trail, and only known ones.          *)
LEMMA FilledIs ==
    ASSUME NEW toc \in Seq(Headings), NEW trail, NEW titles
    PROVE  LET new == Filled(toc, trail, titles)
           IN  /\ new \in Seq(Headings) /\ DOMAIN new = DOMAIN toc
               /\ \A n \in DOMAIN toc :
                     /\ new[n].id = toc[n].id /\ new[n].page = toc[n].page
                     /\ new[n].level = toc[n].level
                     /\ new[n].words <=>
                          toc[n].words \/ (n \in trail /\ toc[n].id \in titles.known)
               /\ Sorted(toc) => Sorted(new)
               /\ \A page : Under(new, page) = Under(toc, page)
  <1> DEFINE new == Filled(toc, trail, titles)
  <1>1. /\ Len(toc) \in Nat /\ DOMAIN toc = 1..Len(toc)
        /\ \A k \in 1..Len(toc) : toc[k] \in Headings
    BY HeadingFacts
  <1>2. DOMAIN new = DOMAIN toc
    BY DEF Filled
  <1>3. ASSUME NEW n \in DOMAIN toc
        PROVE  /\ new[n] \in Headings
               /\ new[n].id = toc[n].id /\ new[n].page = toc[n].page
               /\ new[n].level = toc[n].level
               /\ new[n].words <=> toc[n].words \/ (n \in trail /\ toc[n].id \in titles.known)
    <2>1. toc[n] \in Headings
      BY <1>1
    <2>2. CASE n \in trail
      <3>1. new[n] = [toc[n] EXCEPT !.words = toc[n].words \/ toc[n].id \in titles.known]
        BY <2>2 DEF Filled
      <3> HIDE DEF new
      <3> QED
        BY <2>1, <2>2, <3>1 DEF Headings
    <2>3. CASE n \notin trail
      <3>1. new[n] = toc[n]
        BY <2>3 DEF Filled
      <3> HIDE DEF new
      <3> QED
        BY <2>1, <2>3, <3>1
    <2> QED
      BY <2>2, <2>3
  <1>4. new \in Seq(Headings)
    <2>1. new \in [1..Len(toc) -> Headings]
      <3>1. new = [n \in DOMAIN toc |-> new[n]]
        BY DEF Filled
      <3> HIDE DEF new
      <3> QED
        BY <1>1, <1>2, <1>3, <3>1
    <2> HIDE DEF new
    <2> QED
      BY <1>1, <2>1
  <1> HIDE DEF new
  <1>5. Sorted(toc) => Sorted(new)
    BY <1>2, <1>3 DEF Sorted
  <1>6. ASSUME NEW page PROVE Under(new, page) = Under(toc, page)
    BY <1>2, <1>3 DEF Under
  <1> QED
    BY <1>2, <1>3, <1>4, <1>5, <1>6 DEF new

(* The headings that are asked for: those over the page that have no words.  *)
LEMMA TrailIdsAre ==
    ASSUME NEW toc \in Seq(Headings), Sorted(toc), NEW page \in Int
    PROVE  TrailIds(toc, page) = {toc[n].id : n \in {k \in Under(toc, page) : ~toc[k].words}}
  BY TrailIs DEF TrailIds

(* A table of contents as it is read.                                        *)
LEMMA TablesSorted ==
    ASSUME NEW profile, NEW rows \in Seq(Headings), NEW toc \in Tables(profile, rows)
    PROVE  toc \in Seq(Headings) /\ Sorted(toc)
  <1>1. CASE profile.titlesTable = Null \/ profile.titlePageRef = Null
    <2>1. toc = <<>>
      BY <1>1 DEF Tables
    <2> QED
      BY <2>1 DEF Sorted
  <1>2. CASE ~(profile.titlesTable = Null \/ profile.titlePageRef = Null)
    <2>1. PICK o \in [DOMAIN rows -> DOMAIN rows] :
              /\ \A m, n \in DOMAIN o :
                    m < n => Ref(profile, rows[o[m]]) <= Ref(profile, rows[o[n]])
              /\ toc = [n \in DOMAIN o |-> Heading(profile, rows[o[n]])]
      BY <1>2 DEF Tables
    <2>2. /\ Len(rows) \in Nat /\ DOMAIN rows = 1..Len(rows) /\ DOMAIN o = 1..Len(rows)
          /\ \A n \in 1..Len(rows) : o[n] \in 1..Len(rows) /\ rows[o[n]] \in Headings
      BY FunOfSeq
    <2>3. ASSUME NEW row \in Headings
          PROVE  /\ Heading(profile, row) \in Headings
                 /\ Heading(profile, row).page = Ref(profile, row)
      <3>1. row.id \in Int /\ row.page \in Int /\ row.level \in Int /\ row.words \in BOOLEAN
        BY DEF Headings
      <3>2. Ref(profile, row) \in Int
        BY <3>1 DEF Ref
      <3> QED
        BY <3>1, <3>2 DEF Heading, Headings
    <2>4. \A n \in 1..Len(rows) :
             toc[n] \in Headings /\ toc[n].page = Ref(profile, rows[o[n]])
      BY <2>1, <2>2, <2>3
    <2>5. toc \in [1..Len(rows) -> Headings]
      BY <2>1, <2>2, <2>4
    <2>6. toc \in Seq(Headings) /\ DOMAIN toc = 1..Len(rows)
      BY <2>2, <2>5, SeqOfFun
    <2> QED
      BY <2>1, <2>2, <2>4, <2>6 DEF Sorted
  <1> QED
    BY <1>1, <1>2

-----------------------------------------------------------------------------
(* The cache, and the invariant of the types and the paths.                  *)

(* A case.                                                                   *)
LEMMA CaseFacts ==
    ASSUME NEW c \in Cases
    PROVE  /\ c.layout \in DOMAIN Files
           /\ c.rows \in Seq(Headings) /\ c.body \in Seq(Chars) /\ c.query \in Seq(Chars)
           /\ c.hits \in Seq(Int) /\ Len(c.hits) \in Nat /\ DOMAIN c.hits = 1..Len(c.hits)
           /\ \A n \in 1..Len(c.hits) : c.hits[n] \in Int /\ c.hits[n] \in ToSet(c.hits)
           /\ Radius \in Nat /\ Radius > 0
  <1>1. c.hits \in Seq(Int) /\ Radius \in Nat \ {0}
    BY PassagesAssumption DEF PassagesAssumption
  <1> QED
    BY <1>1, PassagesAssumption DEF PassagesAssumption, ToSet

(* What a look leaves of a cache.                                            *)
Pair(cache) == cache = [known |-> cache.known, missing |-> cache.missing]
TrueTo(cache, held) ==
    Pair(cache) /\ cache.known \subseteq held /\ cache.missing \cap held = {}
Told(cache) == cache.known \cup cache.missing

(* Nothing that was known is forgotten, what is known is held, what is       *)
(* missing is not, and an answered request settles all that was wanted.      *)
LEMMA LookKeeps ==
    ASSUME NEW cache, NEW wanted, NEW held, NEW ok, TrueTo(cache, held)
    PROVE  LET new == Looked(cache, wanted, held, ok)
           IN  /\ TrueTo(new, held)
               /\ cache.known \subseteq new.known /\ Told(cache) \subseteq Told(new)
               /\ ok => wanted \subseteq Told(new)
  <1>1. CASE ok
    <2> DEFINE need == wanted \ (cache.known \cup cache.missing)
               new == [known |-> cache.known \cup (need \cap held),
                       missing |-> cache.missing \cup (need \ held)]
    <2>1. Looked(cache, wanted, held, ok) = new
      BY <1>1 DEF Looked, Answered, Need, Outstanding
    <2>2. /\ Pair(new) /\ new.known = cache.known \cup (need \cap held)
          /\ new.missing = cache.missing \cup (need \ held)
      BY DEF Pair
    <2> HIDE DEF new
    <2>3. /\ new.known \subseteq held /\ new.missing \cap held = {}
          /\ cache.known \subseteq new.known /\ cache.missing \subseteq new.missing
      BY <2>2 DEF TrueTo
    <2>4. wanted \subseteq new.known \cup new.missing
      BY <2>2
    <2> QED
      BY <2>1, <2>2, <2>3, <2>4 DEF TrueTo, Told
  <1>2. CASE ~ok
    BY <1>2 DEF Looked
  <1> QED
    BY <1>1, <1>2

(* The path of a passage after its headings were looked for: what a step     *)
(* makes of the table, the cache and the path.                               *)
LEMMA PathBuilt ==
    ASSUME NEW toc \in Seq(Headings), Sorted(toc), NEW page \in Int,
           NEW cache, NEW held, TrueTo(cache, held), NEW ok
    PROVE  LET titles == Looked(cache, TrailIds(toc, page), held, ok)
               new == Filled(toc, Trail(toc, page), titles)
               path == Path(new, Trail(new, page))
               Known(h) == h.words \/ h.id \in held
               whole == {k \in Under(toc, page) : Known(toc[k])}
           IN  /\ TrueTo(titles, held) /\ Told(cache) \subseteq Told(titles)
               /\ new \in Seq(Headings) /\ Sorted(new)
               /\ \A p : Under(new, p) = Under(toc, p)
               /\ \A k \in DOMAIN toc : Known(new[k]) <=> Known(toc[k])
               /\ \A p \in Int : TrailIds(new, p) \subseteq TrailIds(toc, p)
               /\ ToSet(path) \subseteq whole
               /\ ok => ToSet(path) = whole
               /\ \A k, l \in DOMAIN path : k < l => path[k] < path[l]
  <1> DEFINE ids == TrailIds(toc, page)
             titles == Looked(cache, ids, held, ok)
             trail == Trail(toc, page)
             new == Filled(toc, trail, titles)
             path == Path(new, Trail(new, page))
             Known(h) == h.words \/ h.id \in held
             U == Under(toc, page)
             whole == {k \in U : Known(toc[k])}
  <1>1. /\ TrueTo(titles, held) /\ Told(cache) \subseteq Told(titles)
        /\ ok => ids \subseteq Told(titles)
    BY LookKeeps
  <1> HIDE DEF titles
  <1>2. /\ new \in Seq(Headings) /\ DOMAIN new = DOMAIN toc /\ Sorted(new)
        /\ \A p : Under(new, p) = Under(toc, p)
        /\ \A n \in DOMAIN toc :
              /\ new[n].id = toc[n].id /\ new[n].level = toc[n].level
              /\ new[n].words <=> toc[n].words \/ (n \in trail /\ toc[n].id \in titles.known)
    BY FilledIs
  <1>3. trail = U /\ U \in SUBSET DOMAIN toc
    BY TrailIs
  <1> HIDE DEF new, trail
  <1>4. /\ Trail(new, page) = U /\ IsFiniteSet(U)
        /\ \A k, l \in U : k < l => new[k].level < new[l].level
    BY <1>2, TrailIs
  <1> HIDE DEF U
  <1>5. /\ ToSet(path) = {n \in U : new[n].words}
        /\ \A k, l \in DOMAIN path : k < l => path[k] < path[l]
    BY <1>2, <1>3, <1>4, PathIs
  <1>6. titles.known \subseteq held /\ titles.missing \cap held = {}
    BY <1>1 DEF TrueTo
  <1>7. \A k \in DOMAIN toc : Known(new[k]) <=> Known(toc[k])
    BY <1>2, <1>6
  <1>8. ToSet(path) \subseteq whole
    BY <1>2, <1>3, <1>5, <1>6
  <1>9. ASSUME ok PROVE whole \subseteq ToSet(path)
    <2> SUFFICES ASSUME NEW k \in U, Known(toc[k]), ~toc[k].words PROVE new[k].words
      BY <1>2, <1>3, <1>5
    <2>1. toc[k].id \in ids
      BY TrailIdsAre DEF U
    <2>2. toc[k].id \in titles.known
      BY <1>1, <1>6, <1>9, <2>1 DEF Told
    <2> QED
      BY <1>2, <1>3, <2>2
  <1>10. ASSUME NEW p \in Int PROVE TrailIds(new, p) \subseteq TrailIds(toc, p)
    <2>1. TrailIds(new, p) = {new[n].id : n \in {k \in Under(toc, p) : ~new[k].words}}
      BY <1>2, TrailIdsAre
    <2>2. TrailIds(toc, p) = {toc[n].id : n \in {k \in Under(toc, p) : ~toc[k].words}}
      BY TrailIdsAre
    <2>3. Under(toc, p) \in SUBSET DOMAIN toc
      BY TrailIs
    <2> QED
      BY <1>2, <2>1, <2>2, <2>3
  <1> HIDE DEF path, whole
  <1> QED
    BY <1>1, <1>2, <1>7, <1>8, <1>9, <1>10, <1>5 DEF new, path, titles, trail, U, whole

(* What the steps keep.                                                      *)
ReaderOK ==
    /\ reader = [profile |-> reader.profile, toc |-> reader.toc]
    /\ reader.toc \in Seq(Headings) /\ Sorted(reader.toc)

(* The cache is true to the index.                                           *)
SourceOK ==
    /\ source = [pages |-> source.pages, titles |-> source.titles]
    /\ TrueTo(source.pages, case.held) /\ TrueTo(source.titles, case.titles)

(* Before the hits are gone through there is nothing to tell of.             *)
Untouched ==
    pc \in {"pages", "open", "titles"} => hit = 1 /\ out = <<>> /\ asked = <<>> /\ warm = FALSE

(* After a warming that succeeded all headings of the hits are settled: no   *)
(* later request asks for any.                                               *)
WarmOnce ==
    warm => /\ AllIds \subseteq Told(source.titles)
            /\ Len(asked) > 0
            /\ \A n \in DOMAIN asked : n > 1 => asked[n] = {}

(* The inductive invariant of the types and the paths.                       *)
PassagesInv ==
    /\ case \in Cases /\ ReaderOK /\ SourceOK /\ Listed(out) /\ Listed(asked)
    /\ Untouched /\ WarmOnce /\ TypeOK /\ PathByRule

(* It holds at first,                                                        *)
LEMMA InvInit == Init => PassagesInv
  <1> SUFFICES ASSUME Init PROVE PassagesInv
    OBVIOUS
  <1>1. /\ case \in Cases /\ Len(case.hits) \in Nat /\ case.hits \in Seq(Int)
    BY CaseFacts DEF Init
  <1>2. ReaderOK
    BY DEF Init, ReaderOK, NoReader, Sorted
  <1>3. SourceOK
    BY DEF Init, SourceOK, TrueTo, Pair
  <1>4. Listed(out) /\ Listed(asked) /\ DOMAIN out = {} /\ DOMAIN asked = {}
    <2>1. <<>> \in Seq(Int) /\ DOMAIN <<>> = {}
      OBVIOUS
    <2> QED
      BY <2>1 DEF Init, Listed
  <1>5. TypeOK
    <2>1. SubSeq(case.hits, 1, 0) = <<>>
      BY <1>1
    <2>2. Only(<<>>, case.pages) = <<>>
      <3>1. {n \in DOMAIN <<>> : <<>>[n] \in case.pages} = {}
        OBVIOUS
      <3>2. Ascending({}) = <<>>
        <4>1. Cardinality({}) = 0
          BY FS_EmptySet
        <4> QED
          BY <4>1 DEF Ascending, Ordered
      <3> QED
        BY <3>1, <3>2 DEF Only, Picked
    <2>3. hit = 1 /\ hit - 1 = 0 /\ hit \in 1..(Len(case.hits) + 1)
      BY <1>1 DEF Init
    <2>4. [n \in DOMAIN out |-> out[n].page] = <<>>
      BY <1>4
    <2>5. pc \in {"pages", "open", "titles", "hits", "over"} /\ warm \in BOOLEAN
      BY DEF Init
    <2> QED
      BY <1>3, <2>1, <2>2, <2>3, <2>4, <2>5 DEF TypeOK, SourceOK, TrueTo
  <1>6. PathByRule /\ Untouched /\ WarmOnce
    BY <1>4 DEF Init, PathByRule, Untouched, WarmOnce
  <1> QED
    BY <1>1, <1>2, <1>3, <1>4, <1>5, <1>6 DEF PassagesInv

(* The invariant after a step that leaves the passages and the table.        *)
LEMMA OthersKeep ==
    ASSUME PassagesInv, UNCHANGED <<case, reader, hit, asked, warm, out>>,
           SourceOK', Told(source.titles) \subseteq Told(source.titles'), Untouched',
           pc' \in {"pages", "open", "titles", "hits", "over"}
    PROVE  PassagesInv'
  <1>1. ReaderOK' /\ Listed(out)' /\ Listed(asked)' /\ (case \in Cases)'
    BY DEF PassagesInv, ReaderOK
  <1>2. WarmOnce'
    BY DEF PassagesInv, WarmOnce, AllIds
  <1>3. TypeOK'
    BY DEF PassagesInv, TypeOK, SourceOK, TrueTo
  <1>4. PathByRule'
    BY DEF PassagesInv, PathByRule, HasWords
  <1> QED
    BY <1>1, <1>2, <1>3, <1>4 DEF PassagesInv

(* after the pages were asked for,                                           *)
LEMMA WarmPagesKeeps == ASSUME PassagesInv, WarmPages PROVE PassagesInv'
  <1> DEFINE new(ok) == Looked(source.pages, ToSet(case.hits), case.held, ok)
  <1>1. PICK ok \in Outcomes(source.pages, ToSet(case.hits)) :
            source' = [source EXCEPT !.pages = new(ok)]
    BY DEF WarmPages
  <1>2. TrueTo(new(ok), case.held)
    BY LookKeeps DEF PassagesInv, SourceOK
  <1> HIDE DEF new
  <1>3. SourceOK' /\ source'.titles = source.titles
    BY <1>1, <1>2 DEF PassagesInv, SourceOK, WarmPages
  <1>4. UNCHANGED <<case, reader, hit, asked, warm, out>> /\ pc = "pages" /\ pc' = "open"
    BY DEF WarmPages
  <1>5. Untouched'
    BY <1>4 DEF PassagesInv, Untouched
  <1>6. Told(source.titles) \subseteq Told(source.titles')
    BY <1>3
  <1> QED
    BY <1>3, <1>4, <1>5, <1>6, OthersKeep

(* after the book was opened,                                                *)
LEMMA OpenKeeps == ASSUME PassagesInv, Open PROVE PassagesInv'
  <1>1. PICK toc \in Tables(Profile[case.layout], case.rows) :
            reader' = [profile |-> Profile[case.layout], toc |-> toc]
    BY DEF Open
  <1>2. case \in Cases /\ case.rows \in Seq(Headings)
    BY CaseFacts DEF PassagesInv
  <1>3. ReaderOK'
    BY <1>1, <1>2, TablesSorted DEF ReaderOK
  <1>4. /\ UNCHANGED <<case, source, hit, asked, warm, out>>
        /\ pc = "open" /\ pc' \in {"titles", "hits"}
    BY DEF Open
  <1>5. hit = 1 /\ out = <<>> /\ asked = <<>> /\ warm = FALSE
    BY <1>4 DEF PassagesInv, Untouched
  <1>6. SourceOK' /\ Listed(out)' /\ Listed(asked)' /\ (case \in Cases)' /\ TypeOK'
    BY <1>4 DEF PassagesInv, SourceOK, TypeOK
  <1>7. Untouched' /\ WarmOnce' /\ PathByRule'
    BY <1>4, <1>5 DEF Untouched, WarmOnce, PathByRule
  <1> QED
    BY <1>3, <1>6, <1>7 DEF PassagesInv

(* or was no book,                                                           *)
LEMMA OpenFailsKeeps == ASSUME PassagesInv, OpenFails PROVE PassagesInv'
  <1>1. UNCHANGED <<case, reader, source, hit, asked, warm, out>> /\ pc' = "over"
    BY DEF OpenFails
  <1>2. SourceOK' /\ Untouched' /\ Told(source.titles) \subseteq Told(source.titles')
    BY <1>1 DEF PassagesInv, SourceOK, Untouched
  <1> QED
    BY <1>1, <1>2, OthersKeep

(* after the headings were asked for,                                        *)
LEMMA WarmTitlesKeeps == ASSUME PassagesInv, WarmTitles PROVE PassagesInv'
  <1> DEFINE new(ok) == Looked(source.titles, AllIds, case.titles, ok)
             need == Need(source.titles, AllIds)
  <1>1. PICK ok \in Outcomes(source.titles, AllIds) :
            source' = [source EXCEPT !.titles = new(ok)] /\ warm' = ok
    BY DEF WarmTitles
  <1>2. /\ UNCHANGED <<case, reader, hit, out>> /\ pc = "titles" /\ pc' = "hits"
        /\ asked' = Append(asked, need)
    BY DEF WarmTitles
  <1>3. hit = 1 /\ out = <<>> /\ asked = <<>> /\ warm = FALSE
    BY <1>2 DEF PassagesInv, Untouched
  <1>4. TrueTo(new(ok), case.titles) /\ (ok => AllIds \subseteq Told(new(ok)))
    BY LookKeeps DEF PassagesInv, SourceOK
  <1> HIDE DEF new, need
  <1>5. SourceOK' /\ source'.titles = new(ok)
    BY <1>1, <1>2, <1>4 DEF PassagesInv, SourceOK
  <1>6. AllIds' = AllIds
    BY <1>2 DEF AllIds
  <1>7. Len(asked') > 0 /\ (\A n \in DOMAIN asked' : ~(n > 1)) /\ Listed(asked')
    <2>1. <<>> \in Seq(Int)
      OBVIOUS
    <2>2. Listed(<<>>) /\ Len(<<>>) = 0 /\ 1..1 = {1}
      BY <2>1 DEF Listed
    <2>3. asked' = Append(<<>>, need)
      BY <1>2, <1>3
    <2>4. /\ Listed(Append(<<>>, need)) /\ Len(Append(<<>>, need)) = Len(<<>>) + 1
          /\ DOMAIN Append(<<>>, need) = 1..(Len(<<>>) + 1)
      BY <2>2, ListedGrows
    <2>5. DOMAIN asked' = {1} /\ Len(asked') = 1
      BY <2>2, <2>3, <2>4
    <2> QED
      BY <2>3, <2>4, <2>5
  <1>8. WarmOnce'
    <2>1. warm' => AllIds' \subseteq Told(source'.titles)
      BY <1>1, <1>4, <1>5, <1>6
    <2> QED
      BY <1>7, <2>1 DEF WarmOnce
  <1>9. warm' \in BOOLEAN
    BY <1>1 DEF Outcomes
  <1>10. TypeOK'
    BY <1>2, <1>5, <1>9 DEF PassagesInv, TypeOK, SourceOK, TrueTo
  <1>11. PathByRule' /\ Untouched'
    BY <1>2, <1>3, <1>7 DEF PathByRule, Untouched
  <1>12. ReaderOK' /\ Listed(out)' /\ (case \in Cases)'
    BY <1>2 DEF PassagesInv, ReaderOK
  <1> QED
    BY <1>5, <1>7, <1>8, <1>10, <1>11, <1>12 DEF PassagesInv

(* after a page the book does not have,                                      *)
LEMMA SkipKeeps == ASSUME PassagesInv, Skip PROVE PassagesInv'
  <1>1. /\ UNCHANGED <<case, pc, reader, source, asked, warm, out>> /\ pc = "hits"
        /\ hit' = hit + 1 /\ hit <= Len(case.hits) /\ case.hits[hit] \notin case.pages
    BY DEF Skip, InHits, Page
  <1>2. case.hits \in Seq(Int) /\ Len(case.hits) \in Nat
    BY CaseFacts DEF PassagesInv
  <1>3. hit \in 1..Len(case.hits) /\ hit' \in 1..(Len(case.hits) + 1) /\ hit' - 1 = hit
    BY <1>1, <1>2 DEF PassagesInv, TypeOK
  <1>4. Only(SubSeq(case.hits, 1, hit), case.pages)
          = Only(SubSeq(case.hits, 1, hit - 1), case.pages)
    BY <1>1, <1>2, <1>3, OnlyGrows
  <1>5. TypeOK'
    BY <1>1, <1>3, <1>4 DEF PassagesInv, TypeOK
  <1>6. ReaderOK' /\ SourceOK' /\ Listed(out)' /\ Listed(asked)' /\ (case \in Cases)'
    BY <1>1 DEF PassagesInv, ReaderOK, SourceOK
  <1>7. Untouched' /\ WarmOnce' /\ PathByRule'
    BY <1>1 DEF PassagesInv, Untouched, WarmOnce, PathByRule, AllIds, HasWords
  <1> QED
    BY <1>5, <1>6, <1>7 DEF PassagesInv

(* after a passage,                                                          *)
LEMMA BuildKeeps == ASSUME PassagesInv, Build PROVE PassagesInv'
  <1> DEFINE page == case.hits[hit]
             wanted == IF case.operation = "batch" \/ case.text THEN {page} ELSE {}
             ids == TrailIds(reader.toc, page)
             need == Need(source.titles, ids)
             PagesOf(ok) == Looked(source.pages, wanted, case.held, ok)
             TitlesOf(ok) == Looked(source.titles, ids, case.titles, ok)
             TocOf(ok) == Filled(reader.toc, Trail(reader.toc, page), TitlesOf(ok))
             PathOf(ok) == Path(TocOf(ok), Trail(TocOf(ok), page))
             Item(a, b) ==
                [page |-> page, path |-> PathOf(b), lost |-> ~b, text |-> TextOf(PagesOf(a)),
                 caveats |-> Caveats(reader.profile, PathOf(b)),
                 quote |-> IF case.operation = "batch"
                          THEN Quote(Query(case.query, case.mode), TextOf(PagesOf(a))) ELSE NoQuote]
  <1>1. PICK a \in Outcomes(source.pages, wanted), b \in Outcomes(source.titles, ids) :
            /\ source' = [pages |-> PagesOf(a), titles |-> TitlesOf(b)]
            /\ reader' = [reader EXCEPT !.toc = TocOf(b)]
            /\ asked' = Append(asked, need)
            /\ out' = Append(out, Item(a, b))
    BY DEF Build, Page
  <1>2. /\ UNCHANGED <<case, pc, warm>> /\ hit' = hit + 1
        /\ pc = "hits" /\ hit <= Len(case.hits) /\ page \in case.pages
    BY DEF Build, InHits, Page
  <1>3. case.hits \in Seq(Int) /\ Len(case.hits) \in Nat
    BY CaseFacts DEF PassagesInv
  <1>4. hit \in 1..Len(case.hits) /\ hit' \in 1..(Len(case.hits) + 1) /\ hit' - 1 = hit
    BY <1>2, <1>3 DEF PassagesInv, TypeOK
  <1>5. page \in Int /\ page \in ToSet(case.hits)
    BY <1>4, CaseFacts DEF PassagesInv
  <1> DEFINE before == Only(SubSeq(case.hits, 1, hit - 1), case.pages)
  <1>0. before \in Seq(Int) /\ Only(SubSeq(case.hits, 1, hit), case.pages) = Append(before, page)
    <2> DEFINE s == case.hits
               k == hit
               S == case.pages
    <2>1. s \in Seq(Int) /\ k \in 1..Len(s) /\ s[k] \in S
      BY <1>2, <1>3, <1>4
    <2> HIDE DEF s, k, S
    <2>2. /\ Only(SubSeq(s, 1, k - 1), S) \in Seq(Int)
          /\ Only(SubSeq(s, 1, k), S) = Append(Only(SubSeq(s, 1, k - 1), S), s[k])
      BY <2>1, OnlyGrows
    <2> QED
      BY <2>2 DEF s, k, S
  <1> HIDE DEF before
  <1> DEFINE n == Len(out) + 1
             new == out'[n]
             path == new.path
  <1>6. /\ new.page = page /\ path = PathOf(b) /\ new.lost = ~b
        /\ DOMAIN out = 1..Len(out) /\ DOMAIN out' = 1..n /\ Listed(out') /\ Len(out) \in Nat
        /\ \A k \in 1..Len(out) : out'[k] = out[k] /\ k \in 1..n
        /\ \A k \in 1..n : k \in 1..Len(out) \/ k = n
    <2> HIDE DEF page, PathOf, PagesOf
    <2> DEFINE x == Item(a, b)
    <2>1. x.page = page /\ x.path = PathOf(b) /\ x.lost = ~b
      OBVIOUS
    <2> HIDE DEF x
    <2>2. out' = Append(out, x) /\ Listed(out)
      BY <1>1 DEF x, PassagesInv
    <2> QED
      BY <2>1, <2>2, ListedGrows
  <1> HIDE DEF page, n, new, PagesOf, TitlesOf, TocOf, PathOf, Item
  <1> DEFINE toc == reader.toc
             next == reader'.toc
             whole == {k \in Under(toc, page) : HasWords(toc[k])}
  <1>7. toc \in Seq(Headings) /\ Sorted(toc) /\ TrueTo(source.titles, case.titles)
        /\ TrueTo(source.pages, case.held)
    BY DEF PassagesInv, ReaderOK, SourceOK
  <1>8. /\ reader' = [profile |-> reader'.profile, toc |-> next] /\ next = TocOf(b)
        /\ source' = [pages |-> source'.pages, titles |-> source'.titles]
        /\ source'.pages = PagesOf(a) /\ source'.titles = TitlesOf(b)
    <2>1. reader = [profile |-> reader.profile, toc |-> reader.toc]
      BY DEF PassagesInv, ReaderOK
    <2> QED
      BY <1>1, <2>1
  <1>9. TrueTo(PagesOf(a), case.held)
    BY <1>7, LookKeeps DEF PagesOf
  <1>10. /\ TrueTo(TitlesOf(b), case.titles) /\ Told(source.titles) \subseteq Told(TitlesOf(b))
         /\ next \in Seq(Headings) /\ Sorted(next)
         /\ \A p : Under(next, p) = Under(toc, p)
         /\ \A k \in DOMAIN toc : HasWords(next[k]) <=> HasWords(toc[k])
         /\ \A p \in Int : TrailIds(next, p) \subseteq TrailIds(toc, p)
         /\ ToSet(path) \subseteq whole
         /\ b => ToSet(path) = whole
         /\ \A k, l \in DOMAIN path : k < l => path[k] < path[l]
    <2> HIDE DEF toc
    <2> QED
      BY <1>5, <1>6, <1>7, <1>8, PathBuilt DEF TitlesOf, TocOf, PathOf, HasWords, toc
  <1> HIDE DEF path
  <1>11. SourceOK' /\ ReaderOK'
    <2>1. case' = case
      BY <1>2
    <2> QED
      BY <1>8, <1>9, <1>10, <2>1 DEF SourceOK, ReaderOK
  <1>12. TypeOK'
    <2> DEFINE after == [k \in DOMAIN out' |-> out'[k].page]
    <2>2. before = [k \in DOMAIN out |-> out[k].page]
      BY DEF PassagesInv, TypeOK, before
    <2>3. before \in Seq(Int) /\ page \in Int
      BY <1>0, <1>5
    <2>4. DOMAIN before = 1..Len(out) /\ Len(before) = Len(out)
      <3>1. DOMAIN before = 1..Len(out) /\ Len(before) \in Nat /\ DOMAIN before = 1..Len(before)
        <4>1. DOMAIN before = 1..Len(out)
          BY <1>6, <2>2
        <4> QED
          BY <2>3, <4>1, FunOfSeq
      <3> QED
        BY <1>6, <3>1
    <2>5. DOMAIN after = 1..n /\ \A k \in 1..n : after[k] = out'[k].page
      BY <1>6
    <2>6. \A k \in 1..Len(out) : after[k] = before[k]
      BY <1>6, <2>2
    <2>7. after[n] = page
      <3>1. n \in 1..n
        BY <1>6 DEF n
      <3> QED
        BY <1>6, <2>5, <3>1 DEF new
    <2>8. after = Append(before, page)
      <3>1. after = [k \in 1..n |-> after[k]]
        BY <2>5
      <3> HIDE DEF after
      <3>2. /\ DOMAIN Append(before, page) = 1..n /\ Append(before, page)[n] = page
            /\ \A k \in 1..Len(out) : Append(before, page)[k] = before[k]
            /\ Append(before, page) \in Seq(Int) /\ Len(Append(before, page)) = n
        BY <2>3, <2>4, Appended DEF n
      <3>3. Append(before, page) = [k \in 1..n |-> Append(before, page)[k]]
        BY <3>2, FunOfSeq
      <3>4. \A k \in 1..n : after[k] = Append(before, page)[k]
        BY <1>6, <2>6, <2>7, <3>2
      <3> QED
        BY <3>1, <3>3, <3>4
    <2> HIDE DEF after
    <2>9. after = Only(SubSeq(case.hits', 1, hit' - 1), case.pages')
      BY <1>0, <1>2, <1>4, <2>8
    <2>10. pc' \in {"pages", "open", "titles", "hits", "over"} /\ warm' \in BOOLEAN
           /\ hit' \in 1..(Len(case.hits') + 1)
      BY <1>2, <1>4 DEF PassagesInv, TypeOK
    <2> QED
      BY <1>11, <2>9, <2>10 DEF TypeOK, SourceOK, TrueTo, after
  <1>13. Listed(asked') /\ WarmOnce' /\ (warm' => \A k \in DOMAIN asked' : k > 1 => asked'[k] = {})
    <2>1. Listed(asked) /\ asked' = Append(asked, need)
      BY <1>1 DEF PassagesInv
    <2> HIDE DEF need
    <2>2. /\ Listed(asked') /\ Len(asked) \in Nat /\ Len(asked') = Len(asked) + 1
          /\ DOMAIN asked = 1..Len(asked) /\ DOMAIN asked' = 1..(Len(asked) + 1)
          /\ asked'[Len(asked) + 1] = need
          /\ \A k \in 1..Len(asked) : asked'[k] = asked[k]
          /\ \A k \in 1..(Len(asked) + 1) : k \in 1..Len(asked) \/ k = Len(asked) + 1
      BY <2>1, ListedGrows
    <2>3. ASSUME warm
          PROVE  /\ AllIds' \subseteq Told(source'.titles)
                 /\ \A k \in DOMAIN asked' : k > 1 => asked'[k] = {}
      <3>1. AllIds \subseteq Told(source.titles)
        BY <2>3 DEF PassagesInv, WarmOnce
      <3>2. ids \subseteq AllIds
        BY <1>5 DEF AllIds
      <3>3. need = {}
        BY <3>1, <3>2 DEF need, Need, Outstanding, Told
      <3>4. AllIds' \subseteq AllIds
        <4>1. \A p \in ToSet(case.hits) : p \in Int
          BY <1>3 DEF ToSet
        <4> QED
          BY <1>2, <1>10, <4>1 DEF AllIds
      <3>5. \A k \in DOMAIN asked' : k > 1 => asked'[k] = {}
        BY <2>2, <2>3, <3>3 DEF PassagesInv, WarmOnce
      <3> QED
        BY <1>8, <1>10, <3>1, <3>4, <3>5
    <2>4. Len(asked') > 0
      BY <2>2
    <2> QED
      BY <1>2, <2>2, <2>3, <2>4 DEF WarmOnce
  <1>14. PathByRule'
    <2> DEFINE Good(t, o) ==
                 LET p == o.path
                     w == {k \in Under(t, o.page) : HasWords(t[k])}
                 IN  /\ ToSet(p) \subseteq w
                     /\ ~o.lost => ToSet(p) = w
                     /\ \A k, l \in DOMAIN p : k < l => p[k] < p[l]
    <2>1. \A k \in DOMAIN out : Good(toc, out[k])
      BY DEF PassagesInv, PathByRule
    <2>2. ASSUME NEW p \in Int
          PROVE  {k \in Under(next, p) : HasWords(next[k])}
                   = {k \in Under(toc, p) : HasWords(toc[k])}
      <3>1. Under(toc, p) \in SUBSET DOMAIN toc
        BY <1>7, <2>2, TrailIs
      <3> QED
        BY <1>10, <3>1
    <2>3. \A k \in DOMAIN out : out[k].page \in Int
      <3>1. [k \in DOMAIN out |-> out[k].page] \in Seq(Int)
        BY <1>0 DEF PassagesInv, TypeOK, before
      <3> DEFINE f == [k \in DOMAIN out |-> out[k].page]
      <3>2. DOMAIN f = DOMAIN out /\ \A k \in DOMAIN out : f[k] = out[k].page
        OBVIOUS
      <3> HIDE DEF f
      <3>3. \A k \in DOMAIN f : f[k] \in Int
        BY <3>1, FunOfSeq DEF f
      <3> QED
        BY <3>2, <3>3
    <2>4. ASSUME NEW k \in 1..n PROVE Good(next, out'[k])
      <3>1. CASE k \in 1..Len(out)
        <4>1. out'[k] = out[k] /\ Good(toc, out[k]) /\ out[k].page \in Int
          BY <1>6, <2>1, <2>3, <3>1
        <4> QED
          BY <2>2, <4>1
      <3>2. CASE k = n
        <4>1. out'[k].path = path /\ out'[k].page = page /\ out'[k].lost = ~b
          BY <1>6, <3>2 DEF new, path
        <4>2. {l \in Under(next, page) : HasWords(next[l])} = whole
          BY <1>5, <2>2
        <4>3. b \in BOOLEAN
          BY <1>1 DEF Outcomes
        <4> HIDE DEF whole
        <4> QED
          BY <1>10, <4>1, <4>2, <4>3
      <3> QED
        BY <1>6, <3>1, <3>2
    <2>5. \A k \in DOMAIN out' : Good(next, out'[k])
      BY <1>6, <2>4
    <2>6. case' = case
      BY <1>2
    <2> QED
      BY <1>13, <2>5, <2>6 DEF PathByRule, HasWords
  <1>15. Listed(out') /\ (case \in Cases)' /\ Untouched'
    BY <1>2, <1>6 DEF PassagesInv, Untouched
  <1> QED
    BY ONLY <1>11, <1>12, <1>13, <1>14, <1>15 DEF PassagesInv

(* after the last hit,                                                       *)
LEMMA FinishKeeps == ASSUME PassagesInv, Finish PROVE PassagesInv'
  <1>1. UNCHANGED <<case, reader, source, hit, asked, warm, out>> /\ pc' = "over"
    BY DEF Finish
  <1>2. SourceOK' /\ Untouched' /\ Told(source.titles) \subseteq Told(source.titles')
    BY <1>1 DEF PassagesInv, SourceOK, Untouched
  <1> QED
    BY <1>1, <1>2, OthersKeep

(* and after a step that is not of this operation.                           *)
LEMMA NothingKeeps == ASSUME PassagesInv, UNCHANGED vars PROVE PassagesInv'
  <1>1. UNCHANGED <<case, pc, reader, source, hit, asked, warm, out>>
    BY DEF vars
  <1>2. SourceOK' /\ Untouched' /\ Told(source.titles) \subseteq Told(source.titles')
    BY <1>1 DEF PassagesInv, SourceOK, Untouched
  <1>3. pc' \in {"pages", "open", "titles", "hits", "over"}
    BY <1>1 DEF PassagesInv, TypeOK
  <1> QED
    BY <1>1, <1>2, <1>3, OthersKeep

(* Every step keeps it.                                                      *)
LEMMA NextKeeps == ASSUME PassagesInv, [Next]_vars PROVE PassagesInv'
  BY WarmPagesKeeps, OpenKeeps, OpenFailsKeeps, WarmTitlesKeeps, SkipKeeps, BuildKeeps,
     FinishKeeps, NothingKeeps DEF Next

-----------------------------------------------------------------------------
(* The loops over a text.                                                    *)

(* A step of the loop that leaves out a kind.                                *)
Sieved(rest, c, kind) == IF c \in kind THEN rest ELSE Append(rest, c)

(* The loops over a text, step by step: what is left out,                    *)
LEMMA WithoutRuns ==
    ASSUME NEW text \in Seq(Chars), NEW kind
    PROVE  \E f : /\ f[0] = <<>> /\ f \in [0..Len(text) -> Seq(Chars)]
                  /\ \A k \in 1..Len(text) : f[k] = Sieved(f[k - 1], text[k], kind)
                  /\ Without(text, kind) = f[Len(text)]
  <1> DEFINE n == Len(text)
             S == Seq(Chars)
             C == Chars
             start == <<>>
             s == text
             step == [p \in S \X C |-> Sieved(p[1], p[2], kind)]
             Eq(h) == h = [t \in SUBSET (1..n) |->
                             IF t = {} THEN start
                             ELSE IF s[Max(t)] \in kind THEN h[t \ {Max(t)}]
                             ELSE Append(h[t \ {Max(t)}], s[Max(t)])]
  <1>1. n \in Nat /\ s \in [1..n -> C] /\ DOMAIN text = 1..n
    OBVIOUS
  <1>2. ASSUME NEW x \in S, NEW y \in C PROVE Sieved(x, y, kind) \in S
    BY DEF Sieved
  <1>3. step \in [S \X C -> S] /\ start \in S
    <2>1. start \in S
      OBVIOUS
    <2> HIDE DEF S, C, start
    <2> QED
      BY <1>2, <2>1
  <1>4. PICK g : Folding(S, step, start, n, s, g)
    <2> HIDE DEF n, s, step, S, C, start
    <2> QED
      BY <1>1, <1>3, LoopRuns
  <1>5. Eq(g)
    <2>0. /\ g \in [SUBSET (1..n) -> S]
          /\ \A t \in SUBSET (1..n) :
                g[t] = IF t = {} THEN start ELSE step[<<g[t \ {Max(t)}], s[Max(t)]>>]
      BY <1>4 DEF Folding
    <2>1. ASSUME NEW t \in SUBSET (1..n), t # {}
          PROVE  step[<<g[t \ {Max(t)}], s[Max(t)]>>]
                   = IF s[Max(t)] \in kind THEN g[t \ {Max(t)}]
                     ELSE Append(g[t \ {Max(t)}], s[Max(t)])
      <3>1. g[t \ {Max(t)}] \in S /\ s[Max(t)] \in C
        <4> HIDE DEF n, s, S, C
        <4> QED
          BY <1>1, <2>0, <2>1, TopPlaces
      <3> HIDE DEF n, s, S, C
      <3> QED
        BY <3>1 DEF Sieved
    <2> HIDE DEF step, s, n, S, C, start
    <2> QED
      BY <2>0, <2>1
  <1> DEFINE h == CHOOSE h : Eq(h)
  <1>6. Eq(h)
    <2> HIDE DEF Eq
    <2> QED
      BY <1>5
  <1>7. Without(text, kind) = h[1..n]
    BY <1>1 DEF Without, FoldLeft, MapThenFoldSet
  <1> HIDE DEF h
  <1> DEFINE f == [k \in 0..n |-> h[1..k]]
  <1>8. f[0] = start /\ DOMAIN f = 0..n /\ 0 \in 0..n /\ f[n] = h[1..n] /\ f = [k \in 0..n |-> f[k]]
    <2>0. 0 \in 0..n /\ n \in 0..n
      BY <1>1
    <2> HIDE DEF n, start
    <2> QED
      BY <1>1, <1>6, <2>0, TopPlaces
  <1>9. ASSUME NEW k \in 1..n PROVE f[k] = Sieved(f[k - 1], s[k], kind)
    <2>1. k \in 0..n /\ k - 1 \in 0..n /\ k - 1 \in Nat
      BY <1>1
    <2>2. 1..k \in SUBSET (1..n) /\ 1..k # {} /\ Max(1..k) = k /\ (1..k) \ {k} = 1..(k - 1)
      BY <1>1, TopPlaces
    <2>3. \A t \in SUBSET (1..n) :
            t # {} => h[t] = IF s[Max(t)] \in kind THEN h[t \ {Max(t)}]
                             ELSE Append(h[t \ {Max(t)}], s[Max(t)])
      BY <1>6
    <2> HIDE DEF n, s
    <2>4. h[1..k] = Sieved(h[1..(k - 1)], s[k], kind)
      BY <2>2, <2>3 DEF Sieved
    <2> QED
      BY <2>1, <2>4
  <1> HIDE DEF f
  <1>10. \A k \in 0..n : f[k] \in S
    <2> DEFINE I == {k \in 0..n : f[k] \in S}
    <2>1. 0 \in I
      BY <1>3, <1>8
    <2>2. ASSUME NEW k \in 0..(n - 1), k \in I PROVE k + 1 \in I
      <3>1. k + 1 \in 1..n /\ (k + 1) - 1 = k /\ k + 1 \in 0..n
        BY <1>1
      <3>2. s[k + 1] \in C /\ f[k] \in S
        BY <1>1, <2>2, <3>1
      <3> HIDE DEF n, S, C, s
      <3>3. f[k + 1] = Sieved(f[k], s[k + 1], kind)
        BY <1>9, <3>1
      <3>4. f[k + 1] \in S
        BY <1>2, <3>2, <3>3
      <3> QED
        BY <3>1, <3>4
    <2> HIDE DEF I, n, S
    <2>3. \A k \in 0..n : k \in I
      BY <1>1, <2>1, <2>2, CountingUp
    <2> QED
      BY <2>3 DEF I
  <1>11. f \in [0..n -> S]
    <2> HIDE DEF n, S
    <2> QED
      BY <1>8, <1>10
  <1> QED
    BY <1>7, <1>8, <1>9, <1>11

(* A text without a kind has none of it.                                     *)
LEMMA WithoutFits ==
    ASSUME NEW text \in Seq(Chars), NEW kind
    PROVE  /\ Without(text, kind) \in Seq(Chars)
           /\ \A k \in 1..Len(Without(text, kind)) : Without(text, kind)[k] \notin kind
  <1>1. PICK f \in [0..Len(text) -> Seq(Chars)] :
            /\ f[0] = <<>>
            /\ \A k \in 1..Len(text) : f[k] = Sieved(f[k - 1], text[k], kind)
            /\ Without(text, kind) = f[Len(text)]
    BY WithoutRuns
  <1> DEFINE I == {k \in 0..Len(text) : \A l \in 1..Len(f[k]) : f[k][l] \notin kind}
  <1>2. Len(text) \in Nat /\ \A k \in 1..Len(text) : text[k] \in Chars
    OBVIOUS
  <1>3. 0 \in I
    BY <1>1, <1>2
  <1>4. ASSUME NEW k \in 0..(Len(text) - 1), k \in I PROVE k + 1 \in I
    <2>1. k + 1 \in 1..Len(text) /\ (k + 1) - 1 = k /\ k \in 0..Len(text) /\ k + 1 \in 0..Len(text)
      BY <1>2
    <2>2. f[k + 1] = Sieved(f[k], text[k + 1], kind) /\ f[k] \in Seq(Chars) /\ text[k + 1] \in Chars
      BY <1>1, <1>2, <2>1
    <2>3. \A l \in 1..Len(f[k]) : f[k][l] \notin kind
      BY <1>4
    <2>4. CASE text[k + 1] \in kind
      BY <2>1, <2>2, <2>3, <2>4 DEF Sieved
    <2>5. CASE text[k + 1] \notin kind
      <3> DEFINE s == f[k]
                 c == text[k + 1]
      <3>1. f[k + 1] = Append(s, c) /\ s \in Seq(Chars) /\ c \in Chars
        BY <2>2, <2>5 DEF Sieved
      <3> HIDE DEF s, c
      <3>2. \A l \in 1..Len(Append(s, c)) : Append(s, c)[l] \notin kind
        BY <2>3, <2>5, <3>1, Appended DEF s, c
      <3> QED
        BY <2>1, <3>1, <3>2
    <2> QED
      BY <2>4, <2>5
  <1> HIDE DEF I
  <1>5. \A k \in 0..Len(text) : k \in I
    BY <1>2, <1>3, <1>4, CountingUp
  <1>6. Len(text) \in 0..Len(text)
    BY <1>2
  <1> QED
    BY <1>1, <1>5, <1>6 DEF I

(* Where each character of a text is once a kind of them is left out.        *)
LEMMA SievedPlaces ==
    ASSUME NEW text \in Seq(Chars), NEW kind
    PROVE  \E w \in [0..Len(text) -> Nat] :
              /\ w[0] = 0 /\ w[Len(text)] = Len(Without(text, kind))
              /\ \A k \in 1..Len(text) :
                    /\ text[k] \in kind => w[k] = w[k - 1]
                    /\ text[k] \notin kind =>
                          /\ w[k] = w[k - 1] + 1 /\ w[k] \in 1..Len(Without(text, kind))
                          /\ Without(text, kind)[w[k]] = text[k]
  <1> DEFINE n == Len(text)
  <1>1. PICK f \in [0..n -> Seq(Chars)] :
            /\ f[0] = <<>>
            /\ \A k \in 1..n : f[k] = Sieved(f[k - 1], text[k], kind)
            /\ Without(text, kind) = f[n]
    BY WithoutRuns
  <1>2. n \in Nat /\ n \in 0..n /\ 0 \in 0..n /\ \A k \in 1..n : text[k] \in Chars
    OBVIOUS
  <1> HIDE DEF n
  <1>3. ASSUME NEW k \in 1..n
        PROVE  /\ k \in 0..n /\ k - 1 \in 0..n
               /\ text[k] \in kind => f[k] = f[k - 1]
               /\ text[k] \notin kind =>
                     /\ Len(f[k]) = Len(f[k - 1]) + 1 /\ f[k][Len(f[k])] = text[k]
                     /\ \A i \in 1..Len(f[k - 1]) : f[k][i] = f[k - 1][i]
               /\ Len(f[k - 1]) \in Nat /\ Len(f[k]) \in Nat /\ Len(f[k - 1]) <= Len(f[k])
    <2>1. k \in 0..n /\ k - 1 \in 0..n
      BY <1>2
    <2> DEFINE s == f[k - 1]
               c == text[k]
    <2>2. s \in Seq(Chars) /\ c \in Chars /\ f[k] = Sieved(s, c, kind) /\ Len(s) \in Nat
      BY <1>1, <1>2, <2>1
    <2> HIDE DEF s, c
    <2>3. CASE c \in kind
      BY <2>1, <2>2, <2>3 DEF Sieved, s, c
    <2>4. CASE c \notin kind
      <3>1. f[k] = Append(s, c)
        BY <2>2, <2>4 DEF Sieved
      <3>2. /\ Len(Append(s, c)) = Len(s) + 1 /\ Append(s, c)[Len(s) + 1] = c
            /\ \A i \in 1..Len(s) : Append(s, c)[i] = s[i]
        BY <2>2, Appended
      <3>3. Len(f[k]) = Len(s) + 1 /\ f[k][Len(f[k])] = c /\ \A i \in 1..Len(s) : f[k][i] = s[i]
        BY <3>1, <3>2
      <3> QED
        BY <2>1, <2>2, <2>4, <3>3 DEF s, c
    <2> QED
      BY <2>3, <2>4
  <1> DEFINE Starts(a, b) == Len(a) <= Len(b) /\ \A i \in 1..Len(a) : b[i] = a[i]
             I == {m \in 0..n : \A k \in 0..m : Starts(f[k], f[m])}
  <1>4. \A k \in 0..n : Len(f[k]) \in Nat
    BY <1>1
  <1>5. 0 \in I
    <2>1. Starts(f[0], f[0]) /\ \A k \in 0..0 : k = 0
      BY <1>2, <1>4
    <2> HIDE DEF Starts
    <2> QED
      BY <1>2, <2>1
  <1>6. ASSUME NEW m \in 0..(n - 1), m \in I PROVE m + 1 \in I
    <2>1. m + 1 \in 1..n /\ (m + 1) - 1 = m /\ m \in 0..n /\ m + 1 \in 0..n
          /\ \A k \in 0..(m + 1) : (k \in 0..m \/ k = m + 1) /\ k \in 0..n
      BY <1>2
    <2> DEFINE l == m + 1
    <2>2. Starts(f[m], f[l])
      <3>1. /\ Len(f[m]) \in Nat /\ Len(f[l]) \in Nat /\ Len(f[m]) <= Len(f[l])
            /\ text[l] \in kind => f[l] = f[m]
            /\ text[l] \notin kind => \A i \in 1..Len(f[m]) : f[l][i] = f[m][i]
        BY <1>3, <2>1
      <3> QED
        BY <3>1
    <2>3. ASSUME NEW k \in 0..m PROVE Starts(f[k], f[l])
      <3>1. Starts(f[k], f[m])
        BY <1>6
      <3>2. Len(f[k]) \in Nat /\ Len(f[m]) \in Nat /\ Len(f[l]) \in Nat
        BY <1>4, <2>1
      <3> HIDE DEF l
      <3> QED
        BY <2>2, <3>1, <3>2
    <2>4. Starts(f[l], f[l])
      BY <1>4, <2>1
    <2> HIDE DEF Starts
    <2> QED
      BY <2>1, <2>3, <2>4
  <1> HIDE DEF I
  <1>7. \A k \in 0..n : k \in I
    BY <1>2, <1>5, <1>6, CountingUp
  <1>8. \A k \in 0..n : Starts(f[k], f[n])
    BY <1>2, <1>7 DEF I
  <1> DEFINE w == [k \in 0..n |-> Len(f[k])]
  <1>9. w \in [0..n -> Nat] /\ w[0] = 0 /\ w[n] = Len(f[n]) /\ \A k \in 0..n : w[k] = Len(f[k])
    BY <1>1, <1>2, <1>4
  <1> HIDE DEF w
  <1>10. ASSUME NEW k \in 1..n
         PROVE  /\ text[k] \in kind => w[k] = w[k - 1]
                /\ text[k] \notin kind =>
                      w[k] = w[k - 1] + 1 /\ w[k] \in 1..Len(f[n]) /\ f[n][w[k]] = text[k]
    <2>1. k \in 0..n /\ k - 1 \in 0..n /\ Len(f[k]) \in Nat /\ Len(f[n]) \in Nat
          /\ Len(f[k - 1]) \in Nat /\ w[k] = Len(f[k]) /\ w[k - 1] = Len(f[k - 1])
      BY <1>2, <1>3, <1>4, <1>9
    <2>2. Starts(f[k], f[n])
      BY <1>8, <2>1
    <2>3. CASE text[k] \in kind
      BY <1>3, <2>1, <2>3
    <2>4. CASE text[k] \notin kind
      <3>1. Len(f[k]) = Len(f[k - 1]) + 1 /\ f[k][Len(f[k])] = text[k]
        BY <1>3, <2>4
      <3>2. Len(f[k]) \in 1..Len(f[k]) /\ Len(f[k]) \in 1..Len(f[n])
        BY <2>1, <2>2, <3>1
      <3> QED
        BY <2>1, <2>2, <2>4, <3>1, <3>2
    <2> QED
      BY <2>3, <2>4
  <1>11. \A k \in 1..n :
            /\ text[k] \in kind => w[k] = w[k - 1]
            /\ text[k] \notin kind =>
                  /\ w[k] = w[k - 1] + 1 /\ w[k] \in 1..Len(Without(text, kind))
                  /\ Without(text, kind)[w[k]] = text[k]
    BY <1>1, <1>10
  <1>12. w \in [0..n -> Nat] /\ w[0] = 0 /\ w[n] = Len(Without(text, kind))
    BY <1>1, <1>9
  <1> QED
    BY ONLY <1>11, <1>12 DEF n

(* A letter and its mark are a letter.                                       *)
LEMMA JoinedFits ==
    ASSUME NEW got \in Seq(Chars), NEW char \in Chars
    PROVE  Joined(got, char) \in Seq(Chars)
  <1> DEFINE I == {i \in 1..Len(got) : got[i] # "harakah"}
             base == SelectLastInSeq(got, LAMBDA c : c # "harakah")
  <1>1. base = IF I # {} THEN Max(I) ELSE 0
    BY DEF SelectLastInSeq
  <1>2. base # 0 => base \in 1..Len(got)
    <2>1. I \subseteq 1..Len(got) /\ Len(got) \in Nat
      OBVIOUS
    <2> HIDE DEF I
    <2>2. I # {} => Max(I) \in I
      BY <2>1, GreatestOf
    <2> HIDE DEF base
    <2> QED
      BY <1>1, <2>1, <2>2
  <1>3. \A p : Composed(p) \in Chars
    BY DEF Composed, Chars, WordChars, Letters
  <1>4. Append(got, char) \in Seq(Chars)
    OBVIOUS
  <1>5. ASSUME base # 0 PROVE [got EXCEPT ![base] = Composed(<<@, char>>)] \in Seq(Chars)
    <2>1. got \in [1..Len(got) -> Chars] /\ Len(got) \in Nat
      BY FunOfSeq
    <2> HIDE DEF base
    <2>2. [got EXCEPT ![base] = Composed(<<@, char>>)] \in [1..Len(got) -> Chars]
      BY <1>2, <1>3, <1>5, <2>1
    <2> QED
      BY <2>1, <2>2, SeqOfFun
  <1> QED
    BY <1>4, <1>5 DEF Joined

(* what is composed,                                                         *)
LEMMA NFCRuns ==
    ASSUME NEW text \in Seq(Chars)
    PROVE  \E f : /\ f[0] = <<>> /\ f \in [0..Len(text) -> Seq(Chars)]
                  /\ \A k \in 1..Len(text) : f[k] = Joined(f[k - 1], text[k])
                  /\ NFC(text) = f[Len(text)]
  <1> DEFINE n == Len(text)
             S == Seq(Chars)
             C == Chars
             start == <<>>
             s == text
             step == [p \in S \X C |-> Joined(p[1], p[2])]
             Eq(h) == h = [t \in SUBSET (1..n) |->
                             IF t = {} THEN start
                             ELSE Joined(h[t \ {Max(t)}], s[Max(t)])]
  <1>1. n \in Nat /\ s \in [1..n -> C] /\ DOMAIN text = 1..n
    OBVIOUS
  <1>2. ASSUME NEW x \in S, NEW y \in C PROVE Joined(x, y) \in S
    BY JoinedFits
  <1>3. step \in [S \X C -> S] /\ start \in S
    <2>1. start \in S
      OBVIOUS
    <2> HIDE DEF S, C, start
    <2> QED
      BY <1>2, <2>1
  <1>4. PICK g : Folding(S, step, start, n, s, g)
    <2> HIDE DEF n, s, step, S, C, start
    <2> QED
      BY <1>1, <1>3, LoopRuns
  <1>5. Eq(g)
    <2>0. /\ g \in [SUBSET (1..n) -> S]
          /\ \A t \in SUBSET (1..n) :
                g[t] = IF t = {} THEN start ELSE step[<<g[t \ {Max(t)}], s[Max(t)]>>]
      BY <1>4 DEF Folding
    <2>1. ASSUME NEW t \in SUBSET (1..n), t # {}
          PROVE  step[<<g[t \ {Max(t)}], s[Max(t)]>>] = Joined(g[t \ {Max(t)}], s[Max(t)])
      <3>1. g[t \ {Max(t)}] \in S /\ s[Max(t)] \in C
        <4> HIDE DEF n, s, S, C
        <4> QED
          BY <1>1, <2>0, <2>1, TopPlaces
      <3> HIDE DEF n, s, S, C
      <3> QED
        BY <3>1
    <2> HIDE DEF step, s, n, S, C, start
    <2> QED
      BY <2>0, <2>1
  <1> DEFINE h == CHOOSE h : Eq(h)
  <1>6. Eq(h)
    <2> HIDE DEF Eq
    <2> QED
      BY <1>5
  <1>7. NFC(text) = h[1..n]
    BY <1>1 DEF NFC, FoldLeft, MapThenFoldSet
  <1> HIDE DEF h
  <1> DEFINE f == [k \in 0..n |-> h[1..k]]
  <1>8. f[0] = start /\ DOMAIN f = 0..n /\ 0 \in 0..n /\ f[n] = h[1..n] /\ f = [k \in 0..n |-> f[k]]
    <2>0. 0 \in 0..n /\ n \in 0..n
      BY <1>1
    <2> HIDE DEF n, start
    <2> QED
      BY <1>1, <1>6, <2>0, TopPlaces
  <1>9. ASSUME NEW k \in 1..n PROVE f[k] = Joined(f[k - 1], s[k])
    <2>1. k \in 0..n /\ k - 1 \in 0..n /\ k - 1 \in Nat
      BY <1>1
    <2>2. 1..k \in SUBSET (1..n) /\ 1..k # {} /\ Max(1..k) = k /\ (1..k) \ {k} = 1..(k - 1)
      BY <1>1, TopPlaces
    <2>3. \A t \in SUBSET (1..n) : t # {} => h[t] = Joined(h[t \ {Max(t)}], s[Max(t)])
      BY <1>6
    <2> HIDE DEF n, s
    <2>4. h[1..k] = Joined(h[1..(k - 1)], s[k])
      BY <2>2, <2>3
    <2> QED
      BY <2>1, <2>4
  <1> HIDE DEF f
  <1>10. \A k \in 0..n : f[k] \in S
    <2> DEFINE I == {k \in 0..n : f[k] \in S}
    <2>1. 0 \in I
      BY <1>3, <1>8
    <2>2. ASSUME NEW k \in 0..(n - 1), k \in I PROVE k + 1 \in I
      <3>1. k + 1 \in 1..n /\ (k + 1) - 1 = k /\ k + 1 \in 0..n
        BY <1>1
      <3>2. s[k + 1] \in C /\ f[k] \in S
        BY <1>1, <2>2, <3>1
      <3> HIDE DEF n, S, C, s
      <3>3. f[k + 1] = Joined(f[k], s[k + 1])
        BY <1>9, <3>1
      <3>4. f[k + 1] \in S
        BY <1>2, <3>2, <3>3
      <3> QED
        BY <3>1, <3>4
    <2> HIDE DEF I, n, S
    <2>3. \A k \in 0..n : k \in I
      BY <1>1, <2>1, <2>2, CountingUp
    <2> QED
      BY <2>3 DEF I
  <1>11. f \in [0..n -> S]
    <2> HIDE DEF n, S
    <2> QED
      BY <1>8, <1>10
  <1> QED
    BY <1>7, <1>8, <1>9, <1>11

(* Composed text is text.                                                    *)
LEMMA NFCFits ==
    ASSUME NEW text \in Seq(Chars)
    PROVE  NFC(text) \in Seq(Chars)
  <1>1. PICK f : f \in [0..Len(text) -> Seq(Chars)] /\ NFC(text) = f[Len(text)]
    BY NFCRuns
  <1>2. Len(text) \in 0..Len(text)
    OBVIOUS
  <1> QED
    BY <1>1, <1>2

(* what is brought together for the normal form,                             *)
LEMMA CollapsedRuns ==
    ASSUME NEW text \in Seq(Chars)
    PROVE  \E f : /\ f[0] = <<>> /\ f \in [0..Len(text) -> Seq(Chars)]
                  /\ \A k \in 1..Len(text) : f[k] = Collapsed(f[k - 1], text[k])
                  /\ FoldLeft(Collapsed, <<>>, text) = f[Len(text)]
  <1> DEFINE n == Len(text)
             S == Seq(Chars)
             C == Chars
             start == <<>>
             s == text
             step == [p \in S \X C |-> Collapsed(p[1], p[2])]
             Eq(h) == h = [t \in SUBSET (1..n) |->
                             IF t = {} THEN start
                             ELSE Collapsed(h[t \ {Max(t)}], s[Max(t)])]
  <1>1. n \in Nat /\ s \in [1..n -> C] /\ DOMAIN text = 1..n
    OBVIOUS
  <1>2. ASSUME NEW x \in S, NEW y \in C PROVE Collapsed(x, y) \in S
    BY DEF Collapsed, Chars, White
  <1>3. step \in [S \X C -> S] /\ start \in S
    <2>1. start \in S
      OBVIOUS
    <2> HIDE DEF S, C, start
    <2> QED
      BY <1>2, <2>1
  <1>4. PICK g : Folding(S, step, start, n, s, g)
    <2> HIDE DEF n, s, step, S, C, start
    <2> QED
      BY <1>1, <1>3, LoopRuns
  <1>5. Eq(g)
    <2>0. /\ g \in [SUBSET (1..n) -> S]
          /\ \A t \in SUBSET (1..n) :
                g[t] = IF t = {} THEN start ELSE step[<<g[t \ {Max(t)}], s[Max(t)]>>]
      BY <1>4 DEF Folding
    <2>1. ASSUME NEW t \in SUBSET (1..n), t # {}
          PROVE  step[<<g[t \ {Max(t)}], s[Max(t)]>>] = Collapsed(g[t \ {Max(t)}], s[Max(t)])
      <3>1. g[t \ {Max(t)}] \in S /\ s[Max(t)] \in C
        <4> HIDE DEF n, s, S, C
        <4> QED
          BY <1>1, <2>0, <2>1, TopPlaces
      <3> HIDE DEF n, s, S, C
      <3> QED
        BY <3>1
    <2> HIDE DEF step, s, n, S, C, start
    <2> QED
      BY <2>0, <2>1
  <1> DEFINE h == CHOOSE h : Eq(h)
  <1>6. Eq(h)
    <2> HIDE DEF Eq
    <2> QED
      BY <1>5
  <1>7. FoldLeft(Collapsed, <<>>, text) = h[1..n]
    BY <1>1 DEF FoldLeft, MapThenFoldSet
  <1> HIDE DEF h
  <1> DEFINE f == [k \in 0..n |-> h[1..k]]
  <1>8. f[0] = start /\ DOMAIN f = 0..n /\ 0 \in 0..n /\ f[n] = h[1..n] /\ f = [k \in 0..n |-> f[k]]
    <2>0. 0 \in 0..n /\ n \in 0..n
      BY <1>1
    <2> HIDE DEF n, start
    <2> QED
      BY <1>1, <1>6, <2>0, TopPlaces
  <1>9. ASSUME NEW k \in 1..n PROVE f[k] = Collapsed(f[k - 1], s[k])
    <2>1. k \in 0..n /\ k - 1 \in 0..n /\ k - 1 \in Nat
      BY <1>1
    <2>2. 1..k \in SUBSET (1..n) /\ 1..k # {} /\ Max(1..k) = k /\ (1..k) \ {k} = 1..(k - 1)
      BY <1>1, TopPlaces
    <2>3. \A t \in SUBSET (1..n) : t # {} => h[t] = Collapsed(h[t \ {Max(t)}], s[Max(t)])
      BY <1>6
    <2> HIDE DEF n, s
    <2>4. h[1..k] = Collapsed(h[1..(k - 1)], s[k])
      BY <2>2, <2>3
    <2> QED
      BY <2>1, <2>4
  <1> HIDE DEF f
  <1>10. \A k \in 0..n : f[k] \in S
    <2> DEFINE I == {k \in 0..n : f[k] \in S}
    <2>1. 0 \in I
      BY <1>3, <1>8
    <2>2. ASSUME NEW k \in 0..(n - 1), k \in I PROVE k + 1 \in I
      <3>1. k + 1 \in 1..n /\ (k + 1) - 1 = k /\ k + 1 \in 0..n
        BY <1>1
      <3>2. s[k + 1] \in C /\ f[k] \in S
        BY <1>1, <2>2, <3>1
      <3> HIDE DEF n, S, C, s
      <3>3. f[k + 1] = Collapsed(f[k], s[k + 1])
        BY <1>9, <3>1
      <3>4. f[k + 1] \in S
        BY <1>2, <3>2, <3>3
      <3> QED
        BY <3>1, <3>4
    <2> HIDE DEF I, n, S
    <2>3. \A k \in 0..n : k \in I
      BY <1>1, <2>1, <2>2, CountingUp
    <2> QED
      BY <2>3 DEF I
  <1>11. f \in [0..n -> S]
    <2> HIDE DEF n, S
    <2> QED
      BY <1>8, <1>10
  <1> QED
    BY <1>7, <1>8, <1>9, <1>11

(* and for plain text.                                                       *)
LEMMA SpacedRuns ==
    ASSUME NEW text \in Seq(Chars)
    PROVE  \E f : /\ f[0] = <<>> /\ f \in [0..Len(text) -> Seq(Chars)]
                  /\ \A k \in 1..Len(text) : f[k] = Spaced(f[k - 1], text[k])
                  /\ FoldLeft(Spaced, <<>>, text) = f[Len(text)]
  <1> DEFINE n == Len(text)
             S == Seq(Chars)
             C == Chars
             start == <<>>
             s == text
             step == [p \in S \X C |-> Spaced(p[1], p[2])]
             Eq(h) == h = [t \in SUBSET (1..n) |->
                             IF t = {} THEN start
                             ELSE Spaced(h[t \ {Max(t)}], s[Max(t)])]
  <1>1. n \in Nat /\ s \in [1..n -> C] /\ DOMAIN text = 1..n
    OBVIOUS
  <1>2. ASSUME NEW x \in S, NEW y \in C PROVE Spaced(x, y) \in S
    BY DEF Spaced, Chars, White, Front
  <1>3. step \in [S \X C -> S] /\ start \in S
    <2>1. start \in S
      OBVIOUS
    <2> HIDE DEF S, C, start
    <2> QED
      BY <1>2, <2>1
  <1>4. PICK g : Folding(S, step, start, n, s, g)
    <2> HIDE DEF n, s, step, S, C, start
    <2> QED
      BY <1>1, <1>3, LoopRuns
  <1>5. Eq(g)
    <2>0. /\ g \in [SUBSET (1..n) -> S]
          /\ \A t \in SUBSET (1..n) :
                g[t] = IF t = {} THEN start ELSE step[<<g[t \ {Max(t)}], s[Max(t)]>>]
      BY <1>4 DEF Folding
    <2>1. ASSUME NEW t \in SUBSET (1..n), t # {}
          PROVE  step[<<g[t \ {Max(t)}], s[Max(t)]>>] = Spaced(g[t \ {Max(t)}], s[Max(t)])
      <3>1. g[t \ {Max(t)}] \in S /\ s[Max(t)] \in C
        <4> HIDE DEF n, s, S, C
        <4> QED
          BY <1>1, <2>0, <2>1, TopPlaces
      <3> HIDE DEF n, s, S, C
      <3> QED
        BY <3>1
    <2> HIDE DEF step, s, n, S, C, start
    <2> QED
      BY <2>0, <2>1
  <1> DEFINE h == CHOOSE h : Eq(h)
  <1>6. Eq(h)
    <2> HIDE DEF Eq
    <2> QED
      BY <1>5
  <1>7. FoldLeft(Spaced, <<>>, text) = h[1..n]
    BY <1>1 DEF FoldLeft, MapThenFoldSet
  <1> HIDE DEF h
  <1> DEFINE f == [k \in 0..n |-> h[1..k]]
  <1>8. f[0] = start /\ DOMAIN f = 0..n /\ 0 \in 0..n /\ f[n] = h[1..n] /\ f = [k \in 0..n |-> f[k]]
    <2>0. 0 \in 0..n /\ n \in 0..n
      BY <1>1
    <2> HIDE DEF n, start
    <2> QED
      BY <1>1, <1>6, <2>0, TopPlaces
  <1>9. ASSUME NEW k \in 1..n PROVE f[k] = Spaced(f[k - 1], s[k])
    <2>1. k \in 0..n /\ k - 1 \in 0..n /\ k - 1 \in Nat
      BY <1>1
    <2>2. 1..k \in SUBSET (1..n) /\ 1..k # {} /\ Max(1..k) = k /\ (1..k) \ {k} = 1..(k - 1)
      BY <1>1, TopPlaces
    <2>3. \A t \in SUBSET (1..n) : t # {} => h[t] = Spaced(h[t \ {Max(t)}], s[Max(t)])
      BY <1>6
    <2> HIDE DEF n, s
    <2>4. h[1..k] = Spaced(h[1..(k - 1)], s[k])
      BY <2>2, <2>3
    <2> QED
      BY <2>1, <2>4
  <1> HIDE DEF f
  <1>10. \A k \in 0..n : f[k] \in S
    <2> DEFINE I == {k \in 0..n : f[k] \in S}
    <2>1. 0 \in I
      BY <1>3, <1>8
    <2>2. ASSUME NEW k \in 0..(n - 1), k \in I PROVE k + 1 \in I
      <3>1. k + 1 \in 1..n /\ (k + 1) - 1 = k /\ k + 1 \in 0..n
        BY <1>1
      <3>2. s[k + 1] \in C /\ f[k] \in S
        BY <1>1, <2>2, <3>1
      <3> HIDE DEF n, S, C, s
      <3>3. f[k + 1] = Spaced(f[k], s[k + 1])
        BY <1>9, <3>1
      <3>4. f[k + 1] \in S
        BY <1>2, <3>2, <3>3
      <3> QED
        BY <3>1, <3>4
    <2> HIDE DEF I, n, S
    <2>3. \A k \in 0..n : k \in I
      BY <1>1, <2>1, <2>2, CountingUp
    <2> QED
      BY <2>3 DEF I
  <1>11. f \in [0..n -> S]
    <2> HIDE DEF n, S
    <2> QED
      BY <1>8, <1>10
  <1> QED
    BY <1>7, <1>8, <1>9, <1>11

(* What is left of a text when the blanks at its end are cut off.            *)
LEMMA TrimmedIs ==
    ASSUME NEW text \in Seq(Chars)
    PROVE  \E j \in 0..Len(text) :
              /\ TrimmedEnd(text) = SubSeq(text, 1, j)
              /\ j # 0 => text[j] \notin White
              /\ \A k \in (j + 1)..Len(text) : text[k] \in White
              /\ TrimmedEnd(text) \in Seq(Chars) /\ Len(TrimmedEnd(text)) = j
              /\ \A k \in 1..j : TrimmedEnd(text)[k] = text[k]
  <1> DEFINE I == {i \in 1..Len(text) : text[i] \notin White}
             j == IF I # {} THEN Max(I) ELSE 0
  <1>1. TrimmedEnd(text) = SubSeq(text, 1, j)
    BY DEF TrimmedEnd, SelectLastInSeq
  <1>2. Len(text) \in Nat
    OBVIOUS
  <1>3. /\ j \in 0..Len(text) /\ (j # 0 => text[j] \notin White)
        /\ \A k \in (j + 1)..Len(text) : text[k] \in White
    <2>1. CASE I = {}
      <3>1. j = 0
        BY <2>1
      <3>2. \A k \in 1..Len(text) : text[k] \in White
        BY <2>1
      <3> HIDE DEF j, I
      <3> QED
        BY <1>2, <3>1, <3>2
    <2>2. CASE I # {}
      <3>1. I \subseteq 1..Len(text)
        OBVIOUS
      <3>2. j \in I /\ \A k \in I : k <= j
        <4> HIDE DEF I
        <4> QED
          BY <1>2, <2>2, <3>1, GreatestOf
      <3> HIDE DEF j
      <3>3. j \in 1..Len(text) /\ text[j] \notin White
        BY <3>2
      <3>4. ASSUME NEW k \in (j + 1)..Len(text) PROVE text[k] \in White
        <4>1. k \in 1..Len(text) /\ ~(k <= j)
          BY <1>2, <3>3
        <4> QED
          BY <3>2, <4>1
      <3> QED
        BY <3>3, <3>4
    <2> QED
      BY <2>1, <2>2
  <1> HIDE DEF j
  <1>4. /\ SubSeq(text, 1, j) \in Seq(Chars) /\ Len(SubSeq(text, 1, j)) = j
        /\ \A k \in 1..j : SubSeq(text, 1, j)[k] = text[k]
    BY <1>3
  <1> QED
    BY <1>1, <1>3, <1>4

(* What the mapping loop has, over a text of n characters, and what it has   *)
(* at first.                                                                 *)
Progress(n) == [text : Seq(Chars), map : Seq(1..n), pending : BOOLEAN]
Nothing == [text |-> <<>>, map |-> <<>>, pending |-> FALSE]

(* Folding neither makes blanks nor takes them away, and makes no mark.      *)
LEMMA FoldedFits ==
    ASSUME NEW c \in Chars
    PROVE  /\ Folded(c) \in Chars
           /\ c \notin White => Folded(c) \notin White
           /\ c \in White => Folded(c) = c
           /\ Folded(c) # "alefHamza"
           /\ \A kind \in {{"hamza"}, {"acute"}, Stripped} : c \notin kind => Folded(c) \notin kind
  BY DEF Folded, Chars, WordChars, Letters, White, Stripped

(* A step of the mapping is within its text.                                 *)
LEMMA MappedFits ==
    ASSUME NEW src \in Seq(Chars), NEW done \in Progress(Len(src)), NEW k \in 1..Len(src)
    PROVE  Mapped(src, done, k) \in Progress(Len(src))
  <1> DEFINE S == Seq(Chars)
             P == Seq(1..Len(src))
             space == IF done.pending THEN <<"space">> ELSE <<>>
             text == done.text \o Append(space, Folded(src[k]))
             map == done.map \o [i \in 1..(Len(space) + 1) |-> k]
  <1>1. src[k] \in Chars /\ done.text \in S /\ done.map \in P /\ done.pending \in BOOLEAN
        /\ done = [text |-> done.text, map |-> done.map, pending |-> done.pending]
    BY DEF Progress
  <1>2. text \in S
    <2>1. Folded(src[k]) \in Chars /\ "space" \in Chars
      BY <1>1, FoldedFits DEF Chars, White
    <2> QED
      BY <1>1, <2>1
  <1>3. map \in P
    <2>1. Len(space) + 1 \in Nat
      OBVIOUS
    <2> HIDE DEF space
    <2>2. [i \in 1..(Len(space) + 1) |-> k] \in [1..(Len(space) + 1) -> 1..Len(src)]
      OBVIOUS
    <2>3. [i \in 1..(Len(space) + 1) |-> k] \in P
      BY <2>1, <2>2, SeqOfFun
    <2> QED
      BY <1>1, <2>3
  <1> HIDE DEF text, map, S, P
  <1>4. [text |-> text, map |-> map, pending |-> FALSE] \in [text : S, map : P, pending : BOOLEAN]
    BY <1>2, <1>3
  <1>5. \A b \in BOOLEAN : [done EXCEPT !.pending = b] \in [text : S, map : P, pending : BOOLEAN]
    BY <1>1
  <1>6. (done.text # <<>>) \in BOOLEAN
    OBVIOUS
  <1>7. done \in [text : S, map : P, pending : BOOLEAN]
    BY <1>1
  <1>8. CASE src[k] \in Stripped
    BY <1>7, <1>8 DEF Mapped, Progress, S, P
  <1>9. CASE src[k] \notin Stripped /\ src[k] \in White
    BY <1>5, <1>6, <1>9 DEF Mapped, Progress, S, P
  <1>10. CASE src[k] \notin Stripped /\ src[k] \notin White
    BY <1>4, <1>10 DEF Mapped, Progress, S, P, text, map
  <1> QED
    BY <1>8, <1>9, <1>10

(* The mapping, step by step.                                                *)
LEMMA MappedRuns ==
    ASSUME NEW text \in Seq(Chars)
    PROVE  \E f : /\ f[0] = Nothing /\ f \in [0..Len(NFC(text)) -> Progress(Len(NFC(text)))]
                  /\ \A k \in 1..Len(NFC(text)) : f[k] = Mapped(NFC(text), f[k - 1], k)
                  /\ NormalisedWithMap(text) = f[Len(NFC(text))]
  <1> DEFINE n == Len(NFC(text))
             S == Progress(Len(NFC(text)))
             C == 1..Len(NFC(text))
             start == Nothing
             s == [i \in 1..Len(NFC(text)) |-> i]
             step == [p \in S \X C |-> Mapped(NFC(text), p[1], p[2])]
             Eq(h) == h = [t \in SUBSET (1..n) |->
                             IF t = {} THEN start
                             ELSE Mapped(NFC(text), h[t \ {Max(t)}], s[Max(t)])]
  <1>1. n \in Nat /\ s \in [1..n -> C] /\ DOMAIN NFC(text) = 1..n
    BY NFCFits
  <1>2. ASSUME NEW x \in S, NEW y \in C PROVE Mapped(NFC(text), x, y) \in S
    BY NFCFits, MappedFits
  <1>3. step \in [S \X C -> S] /\ start \in S
    <2>1. start \in S
      BY DEF Nothing, Progress
    <2> HIDE DEF S, C, start
    <2> QED
      BY <1>2, <2>1
  <1>4. PICK g : Folding(S, step, start, n, s, g)
    <2> HIDE DEF n, s, step, S, C, start
    <2> QED
      BY <1>1, <1>3, LoopRuns
  <1>5. Eq(g)
    <2>0. /\ g \in [SUBSET (1..n) -> S]
          /\ \A t \in SUBSET (1..n) :
                g[t] = IF t = {} THEN start ELSE step[<<g[t \ {Max(t)}], s[Max(t)]>>]
      BY <1>4 DEF Folding
    <2>1. ASSUME NEW t \in SUBSET (1..n), t # {}
          PROVE  step[<<g[t \ {Max(t)}], s[Max(t)]>>] = Mapped(NFC(text), g[t \ {Max(t)}], s[Max(t)])
      <3>1. g[t \ {Max(t)}] \in S /\ s[Max(t)] \in C
        <4> HIDE DEF n, s, S, C
        <4> QED
          BY <1>1, <2>0, <2>1, TopPlaces
      <3> HIDE DEF n, s, S, C
      <3> QED
        BY <3>1
    <2> HIDE DEF step, s, n, S, C, start
    <2> QED
      BY <2>0, <2>1
  <1> DEFINE h == CHOOSE h : Eq(h)
  <1>6. Eq(h)
    <2> HIDE DEF Eq
    <2> QED
      BY <1>5
  <1>7. NormalisedWithMap(text) = h[1..n]
    BY <1>1 DEF Nothing, NormalisedWithMap, FoldLeftDomain, FoldLeft, MapThenFoldSet
  <1> HIDE DEF h
  <1> DEFINE f == [k \in 0..n |-> h[1..k]]
  <1>8. f[0] = start /\ DOMAIN f = 0..n /\ 0 \in 0..n /\ f[n] = h[1..n] /\ f = [k \in 0..n |-> f[k]]
    <2>0. 0 \in 0..n /\ n \in 0..n
      BY <1>1
    <2> HIDE DEF n, start
    <2> QED
      BY <1>1, <1>6, <2>0, TopPlaces
  <1>9. ASSUME NEW k \in 1..n PROVE f[k] = Mapped(NFC(text), f[k - 1], s[k])
    <2>1. k \in 0..n /\ k - 1 \in 0..n /\ k - 1 \in Nat
      BY <1>1
    <2>2. 1..k \in SUBSET (1..n) /\ 1..k # {} /\ Max(1..k) = k /\ (1..k) \ {k} = 1..(k - 1)
      BY <1>1, TopPlaces
    <2>3. \A t \in SUBSET (1..n) : t # {} => h[t] = Mapped(NFC(text), h[t \ {Max(t)}], s[Max(t)])
      BY <1>6
    <2> HIDE DEF n, s
    <2>4. h[1..k] = Mapped(NFC(text), h[1..(k - 1)], s[k])
      BY <2>2, <2>3
    <2> QED
      BY <2>1, <2>4
  <1> HIDE DEF f
  <1>10. \A k \in 0..n : f[k] \in S
    <2> DEFINE I == {k \in 0..n : f[k] \in S}
    <2>1. 0 \in I
      BY <1>3, <1>8
    <2>2. ASSUME NEW k \in 0..(n - 1), k \in I PROVE k + 1 \in I
      <3>1. k + 1 \in 1..n /\ (k + 1) - 1 = k /\ k + 1 \in 0..n
        BY <1>1
      <3>2. s[k + 1] \in C /\ f[k] \in S
        BY <1>1, <2>2, <3>1
      <3> HIDE DEF n, S, C, s
      <3>3. f[k + 1] = Mapped(NFC(text), f[k], s[k + 1])
        BY <1>9, <3>1
      <3>4. f[k + 1] \in S
        BY <1>2, <3>2, <3>3
      <3> QED
        BY <3>1, <3>4
    <2> HIDE DEF I, n, S
    <2>3. \A k \in 0..n : k \in I
      BY <1>1, <2>1, <2>2, CountingUp
    <2> QED
      BY <2>3 DEF I
  <1>11. f \in [0..n -> S]
    <2> HIDE DEF n, S
    <2> QED
      BY <1>8, <1>10
  <1> QED
    BY <1>7, <1>8, <1>9, <1>11

(* What a step of the mapping adds.                                          *)
LEMMA MappedAdds ==
    ASSUME NEW src \in Seq(Chars), NEW done \in Progress(Len(src)), NEW k \in 1..Len(src)
    PROVE  LET new == Mapped(src, done, k)
               char == Folded(src[k])
               gap == Append(done.text, "space")
           IN  /\ src[k] \in Stripped => new = done
               /\ src[k] \in White =>
                     /\ new.text = done.text /\ new.map = done.map
                     /\ new.pending = (done.text # <<>>)
               /\ src[k] \notin Stripped \cup White =>
                     /\ ~new.pending
                     /\ ~done.pending => /\ new.text = Append(done.text, char)
                                         /\ new.map = Append(done.map, k)
                     /\ done.pending => /\ new.text = Append(gap, char)
                                        /\ new.map = Append(Append(done.map, k), k)
  <1> DEFINE new == Mapped(src, done, k)
             char == Folded(src[k])
             space == IF done.pending THEN <<"space">> ELSE <<>>
             text == done.text \o Append(space, char)
             map == done.map \o [i \in 1..(Len(space) + 1) |-> k]
             I == 1..Len(src)
  <1>1. done.text \in Seq(Chars) /\ done.map \in Seq(I) /\ done.pending \in BOOLEAN
        /\ done = [text |-> done.text, map |-> done.map, pending |-> done.pending]
        /\ char \in Chars /\ "space" \in Chars /\ k \in I
    <2>1. src[k] \in Chars /\ "space" \in Chars
      BY DEF Chars, White
    <2> QED
      BY <2>1, FoldedFits DEF Progress
  <1> HIDE DEF I
  <1>2. CASE src[k] \in Stripped
    <2>2. src[k] \notin White
      BY <1>2 DEF White, Stripped
    <2>1. new = done
      BY <1>2, <2>2 DEF Mapped
    <2> HIDE DEF new, char
    <2> QED
      BY <1>2, <2>1, <2>2 DEF new, char
  <1>3. CASE src[k] \in White
    <2>1. src[k] \notin Stripped
      BY <1>3 DEF White, Stripped
    <2>2. new = [done EXCEPT !.pending = done.text # <<>>]
      BY <1>3, <2>1 DEF Mapped
    <2> HIDE DEF new, char
    <2>3. new.text = done.text /\ new.map = done.map /\ new.pending = (done.text # <<>>)
      BY <1>1, <2>2
    <2> QED
      BY <1>3, <2>1, <2>3 DEF new, char
  <1>4. CASE src[k] \notin Stripped \cup White
    <2>1. new = [text |-> text, map |-> map, pending |-> FALSE]
      BY <1>4 DEF Mapped
    <2> HIDE DEF char
    <2>2. ASSUME ~done.pending
          PROVE  text = Append(done.text, char) /\ map = Append(done.map, k)
      <3>1. space = <<>>
        BY <2>2
      <3>2. Append(<<>>, char) = <<char>> /\ [i \in 1..(0 + 1) |-> k] = <<k>> /\ Len(<<>>) = 0
        OBVIOUS
      <3>3. /\ done.text \o <<char>> = Append(done.text, char)
            /\ done.map \o <<k>> = Append(done.map, k)
        BY <1>1
      <3> HIDE DEF space
      <3> QED
        BY <3>1, <3>2, <3>3
    <2>3. ASSUME done.pending
          PROVE  /\ text = Append(Append(done.text, "space"), char)
                 /\ map = Append(Append(done.map, k), k)
      <3>1. space = <<"space">>
        BY <2>3
      <3>2. Len(<<"space">>) = 1 /\ [i \in 1..(1 + 1) |-> k] = <<k, k>>
        <4>1. 1..(1 + 1) = {1, 2} /\ [i \in {1, 2} |-> k] = <<k, k>>
          OBVIOUS
        <4> QED
          BY <4>1
      <3>3. /\ done.text \o Append(<<"space">>, char) = Append(Append(done.text, "space"), char)
            /\ done.map \o <<k, k>> = Append(Append(done.map, k), k)
        BY <1>1, TwoMore
      <3> HIDE DEF space
      <3> QED
        BY <3>1, <3>2, <3>3
    <2> HIDE DEF text, map
    <2>4. new.text = text /\ new.map = map /\ new.pending = FALSE
      BY <2>1
    <2> HIDE DEF new
    <2> QED
      BY <1>4, <2>2, <2>3, <2>4 DEF new, char
  <1> QED
    BY <1>2, <1>3, <1>4

-----------------------------------------------------------------------------
(* The normal form and its map.                                              *)

(* What is mapped: each character of the form has its place in the text, and *)
(* spaces are single and never first.                                        *)
Places(src, n, text, map) ==
    /\ Len(map) = Len(text)
    /\ \A k \in 1..Len(text) :
          /\ map[k] \in 1..n
          /\ \/ text[k] = "space"
             \/ /\ src[map[k]] \notin Stripped \cup White
                /\ text[k] = Folded(src[map[k]])
          /\ text[k] = "space" => k > 1 /\ text[k - 1] # "space"

(* Only marks and blanks are passed over.                                    *)
Passed(src, n, map) ==
    \A p \in 1..n : src[p] \in White \cup Stripped \/ \E k \in 1..Len(map) : map[k] = p

(* What is so of the form and its map after n characters.                    *)
WellMapped(src, n, done) ==
    /\ Places(src, n, done.text, done.map) /\ Passed(src, n, done.map)
    /\ done.text # <<>> => done.text[Len(done.text)] # "space"
    /\ done.pending => done.text # <<>>

(* What is written with the character at n: a space after a letter, or what  *)
(* the character is folded to.                                               *)
MayFollow(src, n, text, c) ==
    \/ c = "space" /\ text # <<>> /\ text[Len(text)] # "space"
    \/ src[n] \notin Stripped \cup White /\ c = Folded(src[n]) /\ c # "space"

(* It stays so of a form that grows by a letter, or by a space after one,    *)
LEMMA PlaceAdded ==
    ASSUME NEW src \in Seq(Chars), NEW n \in 1..Len(src), NEW text \in Seq(Chars),
           NEW map \in Seq(1..Len(src)), NEW c \in Chars, Places(src, n, text, map),
           MayFollow(src, n, text, c)
    PROVE  /\ Places(src, n, Append(text, c), Append(map, n))
           /\ Append(text, c) \in Seq(Chars) /\ Append(text, c) # <<>>
           /\ Append(text, c)[Len(Append(text, c))] = c
           /\ Append(map, n) \in Seq(1..Len(src))
           /\ n \in {Append(map, n)[k] : k \in 1..Len(Append(map, n))}
           /\ \A k \in 1..Len(map) : /\ k \in 1..Len(Append(map, n))
                                     /\ Append(map, n)[k] = map[k]
  <1> DEFINE t == Append(text, c)
             m == Append(map, n)
             l == Len(text)
  <1> USE DEF MayFollow
  <1>1. /\ l \in Nat /\ Len(t) = l + 1 /\ t[l + 1] = c /\ \A k \in 1..l : t[k] = text[k]
        /\ t \in Seq(Chars) /\ \A k \in 1..(l + 1) : k \in 1..l \/ k = l + 1
    BY Appended
  <1>2. l = Len(map)
    BY DEF Places
  <1>3. /\ Len(m) = l + 1 /\ m[l + 1] = n /\ \A k \in 1..l : m[k] = map[k]
        /\ m \in Seq(1..Len(src))
    <2> DEFINE T == 1..Len(src)
    <2>1. map \in Seq(T) /\ n \in T
      OBVIOUS
    <2> HIDE DEF T
    <2>2. /\ Len(m) = Len(map) + 1 /\ m[Len(map) + 1] = n
          /\ \A k \in 1..Len(map) : m[k] = map[k]
          /\ m \in Seq(T)
      BY <2>1, Appended
    <2> QED
      BY <1>2, <2>2 DEF T
  <1>4. text # <<>> => l \in 1..l /\ l > 0
    <2>1. l = 0 => text = <<>>
      OBVIOUS
    <2> QED
      BY <1>1, <2>1
  <1> HIDE DEF t, m, l
  <1>5. ASSUME NEW k \in 1..(l + 1)
        PROVE  /\ m[k] \in 1..n
               /\ \/ t[k] = "space"
                  \/ src[m[k]] \notin Stripped \cup White /\ t[k] = Folded(src[m[k]])
               /\ t[k] = "space" => k > 1 /\ t[k - 1] # "space"
    <2>1. CASE k \in 1..l
      <3>1. /\ map[k] \in 1..n
            /\ \/ text[k] = "space"
               \/ src[map[k]] \notin Stripped \cup White /\ text[k] = Folded(src[map[k]])
            /\ text[k] = "space" => k > 1 /\ text[k - 1] # "space"
        BY <2>1 DEF Places, l
      <3>2. k > 1 => k - 1 \in 1..l
        BY <1>1, <2>1
      <3> QED
        BY <1>1, <1>3, <2>1, <3>1, <3>2
    <2>2. CASE k = l + 1
      <3>1. t[k] = c /\ m[k] = n /\ n \in 1..n
        BY <1>1, <1>3, <2>2
      <3>2. c = "space" => k > 1 /\ t[k - 1] # "space"
        <4>1. c = "space" => text # <<>> /\ text[l] # "space"
          BY DEF l
        <4>2. k - 1 = l
          BY <1>1, <2>2
        <4>3. text # <<>> => k > 1
          BY <1>1, <1>4, <2>2
        <4> QED
          BY <1>1, <1>4, <4>1, <4>2, <4>3
      <3> QED
        BY <3>1, <3>2
    <2> QED
      BY <1>1, <2>1, <2>2
  <1>6. Places(src, n, t, m)
    BY <1>1, <1>3, <1>5 DEF Places
  <1>7. t # <<>> /\ t[Len(t)] = c
    <2>1. Len(t) # 0
      BY <1>1
    <2> QED
      BY <1>1, <2>1
  <1>8. n \in {m[k] : k \in 1..Len(m)}
    <2>1. l + 1 \in 1..Len(m)
      BY <1>1, <1>3
    <2> QED
      BY <1>3, <2>1
  <1>9. \A k \in 1..Len(map) : k \in 1..Len(m) /\ m[k] = map[k]
    BY <1>1, <1>2, <1>3
  <1> QED
    BY <1>1, <1>3, <1>6, <1>7, <1>8, <1>9 DEF t, m

(* and so after each step.                                                   *)
LEMMA MappedWell ==
    ASSUME NEW src \in Seq(Chars), NEW done \in Progress(Len(src)), NEW k \in 1..Len(src),
           WellMapped(src, k - 1, done)
    PROVE  WellMapped(src, k, Mapped(src, done, k))
  <1> DEFINE new == Mapped(src, done, k)
             char == Folded(src[k])
             size == Len(src)
  <1>1. /\ size \in Nat /\ k \in Nat /\ src[k] \in Chars /\ "space" \in Chars
        /\ done.text \in Seq(Chars) /\ done.map \in Seq(1..Len(src)) /\ done.pending \in BOOLEAN
        /\ \A p \in 1..k : p \in 1..(k - 1) \/ p = k
        /\ \A p \in 1..(k - 1) : p \in 1..k
    BY DEF Progress, Chars, White
  <1>2. /\ src[k] \in Stripped => new = done
        /\ src[k] \in White =>
              new.text = done.text /\ new.map = done.map /\ new.pending = (done.text # <<>>)
        /\ src[k] \notin Stripped \cup White =>
              /\ ~new.pending
              /\ ~done.pending => /\ new.text = Append(done.text, char)
                                  /\ new.map = Append(done.map, k)
              /\ done.pending => /\ new.text = Append(Append(done.text, "space"), char)
                                 /\ new.map = Append(Append(done.map, k), k)
    BY MappedAdds
  <1> HIDE DEF new, char, size
  <1>3. Places(src, k, done.text, done.map)
    <2>1. \A l \in 1..Len(done.text) : done.map[l] \in 1..k
      BY <1>1 DEF WellMapped, Places
    <2> QED
      BY <2>1 DEF WellMapped, Places
  <1>4. ASSUME src[k] \in Stripped \cup White, new.text = done.text, new.map = done.map
        PROVE  Places(src, k, new.text, new.map) /\ Passed(src, k, new.map)
    <2>1. Passed(src, k, done.map)
      BY <1>1, <1>4 DEF WellMapped, Passed
    <2> QED
      BY <1>3, <1>4, <2>1
  <1>5. CASE src[k] \in Stripped
    BY <1>2, <1>4, <1>5 DEF WellMapped, new
  <1>6. CASE src[k] \in White
    <2>1. new.pending => new.text # <<>>
      BY <1>2, <1>6
    <2> QED
      BY <1>2, <1>4, <1>6, <2>1 DEF WellMapped, new
  <1>7. CASE src[k] \notin Stripped \cup White
    <2>1. char \in Chars /\ char # "space" /\ char = Folded(src[k])
      <3>1. char \notin White
        BY <1>1, <1>7, FoldedFits DEF char
      <3> QED
        BY <1>1, <3>1, FoldedFits DEF char, White
    <2>2. \E t \in Seq(Chars), m \in Seq(1..Len(src)) :
              /\ Places(src, k, t, m) /\ new.text = Append(t, char) /\ new.map = Append(m, k)
              /\ \A l \in 1..Len(done.map) : l \in 1..Len(m) /\ m[l] = done.map[l]
      <3>1. CASE ~done.pending
        BY <1>1, <1>2, <1>3, <1>7, <3>1
      <3>2. CASE done.pending
        <4>1. done.text # <<>> /\ done.text[Len(done.text)] # "space"
          BY <3>2 DEF WellMapped
        <4> DEFINE t == Append(done.text, "space")
                   m == Append(done.map, k)
        <4>2. /\ Places(src, k, t, m) /\ t \in Seq(Chars) /\ m \in Seq(1..Len(src))
              /\ \A l \in 1..Len(done.map) : l \in 1..Len(m) /\ m[l] = done.map[l]
          <5>1. MayFollow(src, k, done.text, "space")
            BY <4>1 DEF MayFollow
          <5> QED
            BY <1>1, <1>3, <5>1, PlaceAdded
        <4>3. new.text = Append(t, char) /\ new.map = Append(m, k)
          BY <1>2, <1>7, <3>2
        <4> HIDE DEF t, m
        <4> QED
          BY <4>2, <4>3
      <3> QED
        BY <3>1, <3>2
    <2>3. PICK t \in Seq(Chars), m \in Seq(1..Len(src)) :
              /\ Places(src, k, t, m) /\ new.text = Append(t, char) /\ new.map = Append(m, k)
              /\ \A l \in 1..Len(done.map) : l \in 1..Len(m) /\ m[l] = done.map[l]
      BY <2>2
    <2>4. /\ Places(src, k, new.text, new.map)
          /\ new.text[Len(new.text)] = char /\ new.text # <<>>
          /\ k \in {new.map[l] : l \in 1..Len(new.map)}
          /\ \A l \in 1..Len(m) : l \in 1..Len(new.map) /\ new.map[l] = m[l]
      <3>1. src[k] \notin Stripped \cup White /\ char = Folded(src[k]) /\ char # "space"
        BY <1>7, <2>1
      <3>2. /\ Places(src, k, Append(t, char), Append(m, k)) /\ Append(t, char) # <<>>
            /\ Append(t, char)[Len(Append(t, char))] = char
            /\ k \in {Append(m, k)[l] : l \in 1..Len(Append(m, k))}
            /\ \A l \in 1..Len(m) : l \in 1..Len(Append(m, k)) /\ Append(m, k)[l] = m[l]
        <4>1. Places(src, k, t, m) /\ char \in Chars /\ t \in Seq(Chars) /\ m \in Seq(1..Len(src))
          BY <2>1, <2>3
        <4>2. MayFollow(src, k, t, char)
          BY <3>1 DEF MayFollow
        <4>3. /\ Places(src, k, Append(t, char), Append(m, k))
              /\ Append(t, char) \in Seq(Chars) /\ Append(t, char) # <<>>
              /\ Append(t, char)[Len(Append(t, char))] = char
              /\ Append(m, k) \in Seq(1..Len(src))
              /\ k \in {Append(m, k)[l] : l \in 1..Len(Append(m, k))}
              /\ \A l \in 1..Len(m) : /\ l \in 1..Len(Append(m, k))
                                      /\ Append(m, k)[l] = m[l]
          BY ONLY src \in Seq(Chars), k \in 1..Len(src), <4>1, <4>2, PlaceAdded
        <4> QED
          BY ONLY <4>3
      <3> QED
        BY <2>3, <3>2
    <2>5. Passed(src, k, new.map)
      <3>1. ASSUME NEW p \in 1..k
            PROVE  src[p] \in White \cup Stripped \/ \E l \in 1..Len(new.map) : new.map[l] = p
        <4>1. CASE p = k
          BY <2>4, <4>1
        <4>2. CASE p \in 1..(k - 1)
          <5>1. src[p] \in White \cup Stripped \/ \E l \in 1..Len(done.map) : done.map[l] = p
            BY <4>2 DEF WellMapped, Passed
          <5> QED
            BY <2>3, <2>4, <5>1
        <4> QED
          BY <1>1, <4>1, <4>2
      <3> QED
        BY <3>1 DEF Passed
    <2> QED
      BY <1>2, <1>7, <2>1, <2>4, <2>5 DEF WellMapped, new
  <1> QED
    BY <1>5, <1>6, <1>7

(* The loop that maps, with what is so after each step.                      *)
LEMMA MappingRuns ==
    ASSUME NEW text \in Seq(Chars)
    PROVE  LET src == NFC(text)
               n == Len(src)
           IN  /\ src \in Seq(Chars) /\ n \in Nat
               /\ \E f \in [0..n -> Progress(n)] :
                     /\ f[0] = Nothing /\ \A k \in 1..n : f[k] = Mapped(src, f[k - 1], k)
                     /\ NormalisedWithMap(text) = f[n]
                     /\ \A k \in 0..n : WellMapped(src, k, f[k])
  <1> DEFINE src == NFC(text)
             n == Len(src)
  <1>1. PICK f \in [0..n -> Progress(n)] :
            /\ f[0] = Nothing /\ \A k \in 1..n : f[k] = Mapped(src, f[k - 1], k)
            /\ NormalisedWithMap(text) = f[n]
    BY MappedRuns
  <1>2. src \in Seq(Chars) /\ n \in Nat
    BY NFCFits
  <1> HIDE DEF src
  <1> DEFINE I == {k \in 0..n : WellMapped(src, k, f[k])}
  <1>3. 0 \in I
    <2>1. WellMapped(src, 0, Nothing)
      BY DEF WellMapped, Nothing, Places, Passed
    <2> QED
      BY <1>1, <1>2, <2>1
  <1>4. ASSUME NEW k \in 0..(n - 1), k \in I PROVE k + 1 \in I
    <2>1. k + 1 \in 1..n /\ (k + 1) - 1 = k /\ k \in 0..n /\ k + 1 \in 0..n
      BY <1>2
    <2>2. f[k + 1] = Mapped(src, f[k], k + 1) /\ f[k] \in Progress(n) /\ WellMapped(src, k, f[k])
      BY <1>1, <1>4, <2>1
    <2>3. WellMapped(src, k + 1, f[k + 1])
      <3> DEFINE m == k + 1
                 done == f[k]
      <3>1. m \in 1..Len(src) /\ done \in Progress(Len(src)) /\ WellMapped(src, m - 1, done)
        BY <2>1, <2>2
      <3> HIDE DEF m, done
      <3>2. WellMapped(src, m, Mapped(src, done, m))
        BY <1>2, <3>1, MappedWell
      <3> QED
        BY <2>2, <3>2 DEF m, done
    <2> QED
      BY <2>1, <2>3
  <1> HIDE DEF I, n
  <1>6. \A k \in 0..n : k \in I
    BY <1>2, <1>3, <1>4, CountingUp
  <1>7. \A k \in 0..n : WellMapped(src, k, f[k])
    BY <1>6 DEF I
  <1> QED
    BY <1>1, <1>2, <1>7 DEF n, src

(* The form and its map.                                                     *)
LEMMA FormIs ==
    ASSUME NEW text \in Seq(Chars)
    PROVE  /\ NFC(text) \in Seq(Chars)
           /\ NormalisedWithMap(text) \in Progress(Len(NFC(text)))
           /\ WellMapped(NFC(text), Len(NFC(text)), NormalisedWithMap(text))
  <1>1. \A n \in Nat : n \in 0..n
    OBVIOUS
  <1> QED
    BY <1>1, MappingRuns

(* The form so far, with the space that waits.                               *)
Pended(done) == IF done.pending THEN Append(done.text, "space") ELSE done.text

(* A form has no blanks but spaces, none of the marks that are stripped.     *)
LEMMA FormChars ==
    ASSUME NEW src \in Seq(Chars), NEW n \in 0..Len(src), NEW done \in Progress(Len(src)),
           WellMapped(src, n, done)
    PROVE  /\ done.text \in Seq(Chars) /\ Len(done.text) \in Nat
           /\ \A k \in 1..Len(done.text) :
                 /\ done.text[k] \in Chars /\ done.text[k] # "alefHamza"
                 /\ done.text[k] \notin Stripped
                 /\ done.text[k] \in White => done.text[k] = "space"
           /\ done.text # <<>> => /\ Len(done.text) \in 1..Len(done.text)
                                  /\ done.text[Len(done.text)] \notin White
  <1>1. done.text \in Seq(Chars) /\ Len(done.text) \in Nat /\ Len(src) \in Nat
    BY DEF Progress
  <1>2. ASSUME NEW k \in 1..Len(done.text)
        PROVE  /\ done.text[k] \in Chars /\ done.text[k] # "alefHamza"
               /\ done.text[k] \notin Stripped
               /\ done.text[k] \in White => done.text[k] = "space"
    <2>1. done.text[k] \in Chars
      BY <1>1
    <2>2. CASE done.text[k] = "space"
      BY <2>1, <2>2 DEF Stripped
    <2>3. CASE done.text[k] # "space"
      <3> DEFINE c == src[done.map[k]]
      <3>1. done.map[k] \in 1..n /\ c \notin Stripped \cup White /\ done.text[k] = Folded(c)
        BY <2>3 DEF WellMapped, Places
      <3>2. c \in Chars
        <4>1. done.map[k] \in 1..Len(src)
          BY <1>1, <3>1
        <4> HIDE DEF WellMapped
        <4> QED
          BY <4>1
      <3> HIDE DEF c
      <3>3. Folded(c) \notin White /\ Folded(c) \notin Stripped /\ Folded(c) # "alefHamza"
        <4>1. c \notin Stripped /\ c \notin White
          BY <3>1
        <4>2. Stripped \in {{"hamza"}, {"acute"}, Stripped}
          OBVIOUS
        <4> QED
          BY <3>2, <4>1, <4>2, FoldedFits
      <3> QED
        BY <2>1, <3>1, <3>3
    <2> QED
      BY <2>2, <2>3
  <1>3. done.text # <<>> => Len(done.text) \in 1..Len(done.text)
    <2>1. Len(done.text) = 0 => done.text = <<>>
      BY <1>1
    <2> QED
      BY <1>1, <2>1
  <1>4. done.text # <<>> => done.text[Len(done.text)] # "space"
    BY DEF WellMapped
  <1> QED
    BY <1>1, <1>2, <1>3, <1>4

(* Both loops write the same.                                                *)
LEMMA StepMeets ==
    ASSUME NEW src \in Seq(Chars), NEW k \in 1..Len(src), NEW done \in Progress(Len(src)),
           WellMapped(src, k - 1, done)
    PROVE  LET new == Mapped(src, done, k)
           IN  /\ src[k] \in Stripped => Pended(new) = Pended(done)
               /\ src[k] \notin Stripped =>
                     Pended(new) = Collapsed(Pended(done), Folded(src[k]))
  <1> DEFINE new == Mapped(src, done, k)
             c == src[k]
             char == Folded(c)
             text == done.text
             gap == Append(text, "space")
  <1>1. /\ c \in Stripped => new = done
        /\ c \in White =>
              new.text = text /\ new.map = done.map /\ new.pending = (text # <<>>)
        /\ c \notin Stripped \cup White =>
              /\ ~new.pending
              /\ ~done.pending => new.text = Append(text, char)
              /\ done.pending => new.text = Append(gap, char)
    BY MappedAdds
  <1>2. c \in Chars /\ k - 1 \in 0..Len(src)
    OBVIOUS
  <1>3. /\ text \in Seq(Chars) /\ Len(text) \in Nat
        /\ text # <<>> => text[Len(text)] \notin White
        /\ done.pending => text # <<>>
    BY <1>2, FormChars DEF WellMapped
  <1> HIDE DEF new, c, char, text
  <1>4. gap # <<>> /\ Last(gap) = "space"
    <2>1. "space" \in Chars
      BY DEF Chars, White
    <2>2. Len(gap) = Len(text) + 1 /\ gap[Len(text) + 1] = "space"
      BY <1>3, <2>1, Appended
    <2> HIDE DEF gap
    <2>3. gap # <<>>
      <3>1. Len(gap) # 0 /\ Len(<<>>) = 0
        BY <1>3, <2>2
      <3> QED
        BY <3>1
    <2> QED
      BY <2>2, <2>3 DEF Last
  <1>5. CASE c \in Stripped
    BY <1>1, <1>5 DEF c, new
  <1>6. CASE c \in White
    <2>1. c \notin Stripped /\ char = c /\ char \in White
      <3>1. c \notin Stripped
        BY <1>6 DEF White, Stripped
      <3>2. char = c
        BY <1>2, <1>6, FoldedFits DEF char
      <3> QED
        BY <1>6, <3>1, <3>2
    <2>2. CASE done.pending
      <3>1. Pended(done) = gap /\ Pended(new) = gap
        BY <1>1, <1>3, <1>6, <2>2 DEF Pended, text
      <3>2. Collapsed(gap, char) = gap
        BY <1>4, <2>1 DEF Collapsed
      <3> QED
        BY <2>1, <3>1, <3>2 DEF c, new, char
    <2>3. CASE ~done.pending
      <3>1. Pended(done) = text
        BY <2>3 DEF Pended, text
      <3>2. CASE text = <<>>
        <4>1. Pended(new) = text
          BY <1>1, <1>6, <3>2 DEF Pended
        <4>2. Collapsed(text, char) = text
          BY <2>1, <3>2 DEF Collapsed
        <4> QED
          BY <2>1, <3>1, <4>1, <4>2 DEF c, new, char
      <3>3. CASE text # <<>>
        <4>1. Pended(new) = gap
          BY <1>1, <1>6, <3>3 DEF Pended
        <4>2. Last(text) # "space"
          BY <1>3, <3>3 DEF White, Last
        <4>3. Collapsed(text, char) = gap
          BY <2>1, <3>3, <4>2 DEF Collapsed
        <4> QED
          BY <2>1, <3>1, <4>1, <4>3 DEF c, new, char
      <3> QED
        BY <3>2, <3>3
    <2> QED
      BY <2>2, <2>3
  <1>7. CASE c \notin Stripped \cup White
    <2>1. char \notin White
      BY <1>2, <1>7, FoldedFits DEF char
    <2>2. Collapsed(Pended(done), char) = Append(Pended(done), char)
      BY <2>1 DEF Collapsed
    <2>3. Pended(new) = Append(Pended(done), char)
      BY <1>1, <1>7 DEF Pended, text
    <2> QED
      BY <1>7, <2>2, <2>3 DEF c, new, char
  <1> QED
    BY <1>5, <1>6, <1>7

(* A form whose space waits no more.                                         *)
LEMMA PendedTrims ==
    ASSUME NEW src \in Seq(Chars), NEW done \in Progress(Len(src)),
           WellMapped(src, Len(src), done)
    PROVE  TrimmedEnd(Pended(done)) = done.text
  <1> DEFINE text == done.text
             p == Pended(done)
  <1>1. /\ text \in Seq(Chars) /\ Len(text) \in Nat
        /\ text # <<>> => Len(text) \in 1..Len(text) /\ text[Len(text)] \notin White
        /\ "space" \in White /\ "space" \in Chars
    <2>1. Len(src) \in 0..Len(src) /\ "space" \in White /\ "space" \in Chars
      BY DEF Chars, White
    <2> QED
      BY <2>1, FormChars
  <1> HIDE DEF text
  <1>2. /\ p \in Seq(Chars) /\ Len(p) \in {Len(text), Len(text) + 1}
        /\ \A k \in 1..Len(text) : p[k] = text[k]
        /\ Len(p) = Len(text) + 1 => p[Len(p)] = "space"
    <2>1. CASE done.pending
      <3>1. p = Append(text, "space")
        BY <2>1 DEF Pended, text
      <3> HIDE DEF p
      <3> QED
        BY <1>1, <3>1, Appended
    <2>2. CASE ~done.pending
      <3>1. p = text
        BY <2>2 DEF Pended, text
      <3> HIDE DEF p
      <3> QED
        BY <1>1, <3>1
    <2> QED
      BY <2>1, <2>2
  <1> HIDE DEF p
  <1>3. PICK j \in 0..Len(p) :
            /\ j # 0 => p[j] \notin White
            /\ \A k \in (j + 1)..Len(p) : p[k] \in White
            /\ TrimmedEnd(p) \in Seq(Chars) /\ Len(TrimmedEnd(p)) = j
            /\ \A k \in 1..j : TrimmedEnd(p)[k] = p[k]
    BY <1>2, TrimmedIs
  <1>4. j = Len(text)
    <2>1. ~(j > Len(text))
      <3> SUFFICES ASSUME j > Len(text) PROVE FALSE
        OBVIOUS
      <3>1. j = Len(p) /\ j = Len(text) + 1 /\ j # 0
        BY <1>1, <1>2, <1>3
      <3> QED
        BY <1>1, <1>2, <1>3, <3>1
    <2>0. j \in Nat /\ Len(text) \in Nat
      BY <1>1, <1>2, <1>3
    <2>2. ~(j < Len(text))
      <3> SUFFICES ASSUME j < Len(text) PROVE FALSE
        OBVIOUS
      <3>1. Len(text) \in (j + 1)..Len(p) /\ Len(text) # 0
        BY <1>1, <1>2, <1>3
      <3>2. text # <<>>
        BY <3>1
      <3> QED
        BY <1>1, <1>2, <1>3, <3>1, <3>2
    <2> QED
      BY <2>0, <2>1, <2>2
  <1>5. \A k \in 1..Len(text) : TrimmedEnd(p)[k] = text[k]
    BY <1>2, <1>3, <1>4
  <1>6. TrimmedEnd(p) \in [1..Len(text) -> Chars] /\ text \in [1..Len(text) -> Chars]
    <2>1. TrimmedEnd(p) \in [1..Len(TrimmedEnd(p)) -> Chars] /\ text \in [1..Len(text) -> Chars]
      BY <1>1, <1>3, FunOfSeq
    <2> QED
      BY <1>3, <1>4, <2>1
  <1>7. TrimmedEnd(p) = text
    BY ONLY <1>5, <1>6
  <1> QED
    BY <1>7 DEF text, p

(* The form that is mapped is the one of queries.                            *)
LEMMA FormsMeet ==
    ASSUME NEW text \in Seq(Chars)
    PROVE  NormalisedWithMap(text).text = Normalised(text)
  <1> DEFINE src == NFC(text)
             n == Len(src)
             kept == Without(src, Stripped)
             q == [k \in DOMAIN kept |-> Folded(kept[k])]
  <1>1. src \in Seq(Chars) /\ n \in Nat
    BY MappingRuns
  <1>2. PICK f \in [0..n -> Progress(n)] :
            /\ f[0] = Nothing /\ \A k \in 1..n : f[k] = Mapped(src, f[k - 1], k)
            /\ NormalisedWithMap(text) = f[n]
            /\ \A k \in 0..n : WellMapped(src, k, f[k])
    BY MappingRuns
  <1>3. Normalised(text) = TrimmedEnd(FoldLeft(Collapsed, <<>>, q))
    BY DEF Normalised
  <1> HIDE DEF src
  <1>4. PICK w \in [0..n -> Nat] :
            /\ w[0] = 0 /\ w[n] = Len(kept)
            /\ \A k \in 1..n :
                  /\ src[k] \in Stripped => w[k] = w[k - 1]
                  /\ src[k] \notin Stripped =>
                        /\ w[k] = w[k - 1] + 1 /\ w[k] \in 1..Len(kept)
                        /\ kept[w[k]] = src[k]
    BY <1>1, SievedPlaces
  <1>5. kept \in Seq(Chars)
    BY <1>1, WithoutFits
  <1> HIDE DEF kept, n
  <1>6. q \in Seq(Chars) /\ Len(q) = Len(kept) /\ Len(q) \in Nat
        /\ \A k \in 1..Len(q) : q[k] = Folded(kept[k])
    <2>1. /\ Len(kept) \in Nat /\ DOMAIN kept = 1..Len(kept)
          /\ \A k \in 1..Len(kept) : kept[k] \in Chars
      BY <1>5, FunOfSeq
    <2>2. q \in [1..Len(kept) -> Chars]
      BY <2>1, FoldedFits
    <2>3. \A k \in 1..Len(kept) : q[k] = Folded(kept[k])
      BY <2>1
    <2> HIDE DEF q
    <2> QED
      BY <2>1, <2>2, <2>3, SeqOfFun
  <1> HIDE DEF q
  <1>7. PICK c \in [0..Len(q) -> Seq(Chars)] :
            /\ c[0] = <<>> /\ \A k \in 1..Len(q) : c[k] = Collapsed(c[k - 1], q[k])
            /\ FoldLeft(Collapsed, <<>>, q) = c[Len(q)]
    BY <1>6, CollapsedRuns
  <1> DEFINE I == {k \in 0..n : c[w[k]] = Pended(f[k])}
  <1>8. 0 \in I
    <2>1. Pended(Nothing) = <<>>
      BY DEF Pended, Nothing
    <2> QED
      BY <1>1, <1>2, <1>4, <1>7, <2>1
  <1>9. ASSUME NEW k \in 0..(n - 1), k \in I PROVE k + 1 \in I
    <2> DEFINE m == k + 1
               done == f[k]
    <2>1. m \in 1..n /\ m - 1 = k /\ k \in 0..n /\ m \in 0..n /\ n = Len(src)
      BY <1>1 DEF n
    <2>2. c[w[k]] = Pended(done) /\ done \in Progress(Len(src)) /\ WellMapped(src, m - 1, done)
          /\ f[m] = Mapped(src, done, m)
      BY <1>2, <1>9, <2>1
    <2> HIDE DEF m, done
    <2>3. /\ src[m] \in Stripped => Pended(f[m]) = Pended(done)
          /\ src[m] \notin Stripped => Pended(f[m]) = Collapsed(Pended(done), Folded(src[m]))
      BY <1>1, <2>1, <2>2, StepMeets
    <2>4. CASE src[m] \in Stripped
      BY <1>4, <2>1, <2>2, <2>3, <2>4 DEF m
    <2>5. CASE src[m] \notin Stripped
      <3>1. w[m] = w[k] + 1 /\ w[m] \in 1..Len(q) /\ kept[w[m]] = src[m] /\ w[k] \in Nat
        BY <1>4, <1>6, <2>1, <2>5
      <3>2. w[m] - 1 = w[k]
        BY <3>1
      <3>3. q[w[m]] = Folded(src[m])
        BY <1>6, <3>1
      <3>4. c[w[m]] = Collapsed(c[w[k]], Folded(src[m]))
        BY <1>7, <3>1, <3>2, <3>3
      <3> QED
        BY <2>1, <2>2, <2>3, <2>5, <3>4 DEF m
    <2> QED
      BY <2>4, <2>5
  <1> HIDE DEF I
  <1>10. \A k \in 0..n : k \in I
    BY <1>1, <1>8, <1>9, CountingUp DEF n
  <1>11. c[Len(q)] = Pended(f[n])
    <2>1. n \in 0..n
      BY <1>1 DEF n
    <2> QED
      BY <1>4, <1>6, <1>10, <2>1 DEF I
  <1>12. TrimmedEnd(Pended(f[n])) = f[n].text
    <2>1. n \in 0..n
      BY <1>1 DEF n
    <2>2. f[n] \in Progress(Len(src)) /\ WellMapped(src, Len(src), f[n])
      BY <1>2, <2>1 DEF n
    <2> QED
      BY <1>1, <2>2, PendedTrims
  <1> QED
    BY <1>2, <1>3, <1>7, <1>11, <1>12

(* A form is its own form.                                                   *)
InForm(s) ==
    /\ \A k \in 1..Len(s) :
          /\ s[k] \notin Stripped /\ s[k] \notin {"acute", "alefHamza"}
          /\ s[k] \in White => s[k] = "space" /\ k > 1 /\ s[k - 1] # "space"
    /\ s # <<>> => s[Len(s)] \notin White

(* Normalising changes nothing in it.                                        *)
LEMMA FormStays == ASSUME NEW s \in Seq(Chars), InForm(s) PROVE Normalised(s) = s
  <1>1. /\ Len(s) \in Nat /\ DOMAIN s = 1..Len(s)
        /\ \A k \in 1..Len(s) :
              /\ s[k] \in Chars /\ s[k] \notin Stripped /\ s[k] \notin {"acute", "alefHamza"}
              /\ s[k] \in White => s[k] = "space" /\ k > 1 /\ s[k - 1] # "space"
    BY DEF InForm
  <1>2. NFC(s) = s
    <2>1. PICK f \in [0..Len(s) -> Seq(Chars)] :
              /\ f[0] = <<>> /\ \A k \in 1..Len(s) : f[k] = Joined(f[k - 1], s[k])
              /\ NFC(s) = f[Len(s)]
      BY NFCRuns
    <2>2. ASSUME NEW k \in 1..Len(s) PROVE f[k] = Append(f[k - 1], s[k])
      <3>1. s[k] # "hamza" /\ s[k] # "acute"
        BY <1>1 DEF Stripped
      <3>2. \A x : <<x, s[k]>> \notin Pairs
        BY <3>1 DEF Pairs
      <3>3. Joined(f[k - 1], s[k]) = Append(f[k - 1], s[k])
        BY <3>2 DEF Joined
      <3> QED
        BY <2>1, <3>3
    <2> QED
      BY <2>1, <2>2, Copies
  <1>3. Without(s, Stripped) = s
    <2>1. PICK f \in [0..Len(s) -> Seq(Chars)] :
              /\ f[0] = <<>> /\ \A k \in 1..Len(s) : f[k] = Sieved(f[k - 1], s[k], Stripped)
              /\ Without(s, Stripped) = f[Len(s)]
      BY WithoutRuns
    <2>2. ASSUME NEW k \in 1..Len(s) PROVE f[k] = Append(f[k - 1], s[k])
      BY <1>1, <2>1 DEF Sieved
    <2> QED
      BY <2>1, <2>2, Copies
  <1>4. [k \in DOMAIN s |-> Folded(s[k])] = s
    <2>1. \A k \in DOMAIN s : Folded(s[k]) = s[k]
      BY <1>1 DEF Folded
    <2> QED
      BY <1>1, <2>1
  <1>5. FoldLeft(Collapsed, <<>>, s) = s
    <2>1. PICK f \in [0..Len(s) -> Seq(Chars)] :
              /\ f[0] = <<>> /\ \A k \in 1..Len(s) : f[k] = Collapsed(f[k - 1], s[k])
              /\ FoldLeft(Collapsed, <<>>, s) = f[Len(s)]
      BY CollapsedRuns
    <2>2. ASSUME NEW k \in 1..Len(s), f[k - 1] = SubSeq(s, 1, k - 1)
          PROVE  f[k] = Append(f[k - 1], s[k])
      <3>1. CASE s[k] \notin White
        BY <2>1, <3>1 DEF Collapsed
      <3>2. CASE s[k] \in White
        <4>1. s[k] = "space" /\ k > 1 /\ s[k - 1] # "space"
          BY <1>1, <3>2
        <4>2. Len(SubSeq(s, 1, k - 1)) = k - 1 /\ SubSeq(s, 1, k - 1)[k - 1] = s[k - 1]
          BY <4>1
        <4>3. f[k - 1] # <<>> /\ Last(f[k - 1]) # "space"
          <5>1. Len(f[k - 1]) = k - 1 /\ f[k - 1][k - 1] = s[k - 1]
            BY <2>2, <4>2
          <5>2. Len(f[k - 1]) # 0 /\ Len(<<>>) = 0
            BY <4>1, <5>1
          <5> QED
            BY <4>1, <5>1, <5>2 DEF Last
        <4> QED
          BY <2>1, <3>2, <4>1, <4>3 DEF Collapsed
      <3> QED
        BY <3>1, <3>2
    <2> QED
      BY <2>1, <2>2, Copies
  <1>6. TrimmedEnd(s) = s
    <2>1. PICK j \in 0..Len(s) :
              /\ TrimmedEnd(s) = SubSeq(s, 1, j)
              /\ \A k \in (j + 1)..Len(s) : s[k] \in White
      BY TrimmedIs
    <2>2. j = Len(s)
      <3>1. j \in Nat /\ Len(s) \in Nat /\ j <= Len(s)
        OBVIOUS
      <3>2. ASSUME j < Len(s) PROVE FALSE
        <4>1. Len(s) \in (j + 1)..Len(s) /\ s # <<>>
          BY <3>1, <3>2
        <4> QED
          BY <2>1, <4>1 DEF InForm
      <3> QED
        BY <3>1, <3>2
    <2>3. SubSeq(s, 1, Len(s)) = s
      OBVIOUS
    <2> QED
      BY <2>1, <2>2, <2>3
  <1> QED
    BY <1>2, <1>3, <1>4, <1>5, <1>6 DEF Normalised

(* So normalising again changes nothing, if no mark is left to be composed.  *)
LEMMA NormalisedTwice ==
    ASSUME NEW text \in Seq(Chars), "acute" \notin ToSet(NFC(text))
    PROVE  Normalised(NormalisedWithMap(text).text) = NormalisedWithMap(text).text
  <1> DEFINE src == NFC(text)
             done == NormalisedWithMap(text)
             s == done.text
  <1>1. src \in Seq(Chars) /\ done \in Progress(Len(src)) /\ WellMapped(src, Len(src), done)
        /\ Len(src) \in 0..Len(src)
    <2>1. src \in Seq(Chars) /\ done \in Progress(Len(src)) /\ WellMapped(src, Len(src), done)
      BY FormIs
    <2> HIDE DEF src, done
    <2> QED
      BY <2>1
  <1>2. \A k \in 1..Len(src) : src[k] # "acute"
    <2>1. src \in Seq(Chars) /\ "acute" \notin ToSet(src)
      BY <1>1
    <2> HIDE DEF src
    <2>2. DOMAIN src = 1..Len(src)
      BY <2>1
    <2> QED
      BY <2>1, <2>2 DEF ToSet
  <1> HIDE DEF src, done
  <1>3. /\ s \in Seq(Chars) /\ Len(s) \in Nat
        /\ \A k \in 1..Len(s) :
              /\ s[k] \in Chars /\ s[k] # "alefHamza" /\ s[k] \notin Stripped
              /\ s[k] \in White => s[k] = "space"
        /\ s # <<>> => s[Len(s)] \notin White
    BY <1>1, FormChars
  <1>4. ASSUME NEW k \in 1..Len(s)
        PROVE  s[k] # "acute" /\ (s[k] = "space" => k > 1 /\ s[k - 1] # "space")
    <2>1. /\ done.map[k] \in 1..Len(src)
          /\ s[k] = "space" \/ s[k] = Folded(src[done.map[k]])
          /\ s[k] = "space" => k > 1 /\ s[k - 1] # "space"
      BY <1>1 DEF WellMapped, Places
    <2>2. src[done.map[k]] # "acute"
      BY <1>2, <2>1
    <2>3. \A c : c # "acute" => Folded(c) # "acute"
      BY DEF Folded
    <2> QED
      BY <2>1, <2>2, <2>3
  <1>5. InForm(s)
    <2> HIDE DEF s
    <2> QED
      BY <1>3, <1>4 DEF InForm
  <1>6. Normalised(s) = s
    <2> HIDE DEF s
    <2> QED
      BY <1>3, <1>5, FormStays
  <1> QED
    BY <1>6 DEF done

-----------------------------------------------------------------------------
(* Words.                                                                    *)

(* Runs of a kind.                                                           *)
IsRun(t, kind, a, b) ==
    /\ a \in 1..Len(t) /\ b \in 1..Len(t) /\ a <= b
    /\ \A n \in a..b : t[n] \in kind
    /\ a = 1 \/ t[a - 1] \notin kind
    /\ b = Len(t) \/ t[b + 1] \notin kind

(* They follow one another.                                                  *)
LEMMA RunsAre ==
    ASSUME NEW t \in Seq(Chars), NEW kind
    PROVE  /\ Runs(t, kind) = {r \in (1..Len(t)) \X (1..Len(t)) : IsRun(t, kind, r[1], r[2])}
           /\ IsFiniteSet(Runs(t, kind)) /\ StrictOrder(ByStart(t), Runs(t, kind))
           /\ \A p, q \in (1..Len(t)) \X (1..Len(t)) : <<p, q>> \in ByStart(t) <=> p[1] < q[1]
  <1> DEFINE n == Len(t)
             D == 1..n
             S == Runs(t, kind)
  <1>1. n \in Nat /\ DOMAIN t = D
    OBVIOUS
  <1>2. S = {r \in D \X D : IsRun(t, kind, r[1], r[2])}
    <2>1. ASSUME NEW r \in D \X D
          PROVE  r[1] \in 1..Len(t) /\ r[2] \in 1..Len(t)
      OBVIOUS
    <2> QED
      BY <1>1, <2>1 DEF Runs, IsRun
  <1>3. \A p, q \in D \X D : <<p, q>> \in ByStart(t) <=> p[1] < q[1]
    BY <1>1 DEF ByStart
  <1>4. IsFiniteSet(S)
    <2>1. IsFiniteSet(D)
      BY <1>1, FS_Interval
    <2>2. IsFiniteSet(D \X D)
      <3> HIDE DEF D
      <3> QED
        BY <2>1, FS_Product
    <2>3. S \subseteq D \X D
      BY <1>2
    <2> HIDE DEF D, S
    <2> QED
      BY <2>2, <2>3, FS_Subset
  <1>5. ASSUME NEW r \in S, NEW q \in S PROVE r = q \/ r[1] < q[1] \/ q[1] < r[1]
    <2> SUFFICES ASSUME r[1] = q[1] PROVE r = q
      <3>1. r[1] \in Nat /\ q[1] \in Nat
        BY <1>2
      <3> HIDE DEF S
      <3> QED
        BY <3>1
    <2>1. r \in D \X D /\ q \in D \X D /\ IsRun(t, kind, r[1], r[2]) /\ IsRun(t, kind, q[1], q[2])
      BY <1>2
    <2> HIDE DEF S
    <2>2. ASSUME NEW a \in Nat, NEW b \in Nat, NEW c \in Nat,
                 IsRun(t, kind, a, b), IsRun(t, kind, a, c)
          PROVE  ~(b < c)
      <3> SUFFICES ASSUME b < c PROVE FALSE
        OBVIOUS
      <3>0. a \in 1..n /\ b \in 1..n /\ c \in 1..n /\ a <= b
        BY <2>2 DEF IsRun
      <3>1. b + 1 \in a..c /\ b # n
        <4>1. n \in Nat /\ b < c
          BY <1>1
        <4> HIDE DEF n
        <4> QED
          BY ONLY <3>0, <4>1, a \in Nat, b \in Nat, c \in Nat
      <3> QED
        BY <2>2, <3>1 DEF IsRun
    <2>3. ~(r[2] < q[2]) /\ ~(q[2] < r[2])
      <3>1. r[1] \in Nat /\ r[2] \in Nat /\ q[1] \in Nat /\ q[2] \in Nat
        BY <2>1
      <3> HIDE DEF D
      <3> QED
        BY <2>1, <2>2, <3>1
    <2>4. r[2] = q[2]
      BY <1>1, <2>1, <2>3
    <2> QED
      BY <2>1, <2>4
  <1>6. StrictOrder(ByStart(t), S)
    <2>1. \A r \in S : r \in D \X D /\ r[1] \in Nat
      BY <1>2
    <2> HIDE DEF S, D
    <2> QED
      BY <1>3, <1>5, <2>1 DEF StrictOrder
  <1> QED
    BY <1>2, <1>3, <1>4, <1>6

(* The pieces of a text at the places S, in order.                           *)
Cut(t, S) ==
    LET at == Ordered(ByStart(t), S) IN [n \in DOMAIN at |-> SubSeq(t, at[n][1], at[n][2])]

(* One piece for each place.                                                 *)
LEMMA CutFits ==
    ASSUME NEW t \in Seq(Chars), NEW S \in SUBSET ((1..Len(t)) \X (1..Len(t))),
           IsFiniteSet(S), StrictOrder(ByStart(t), S)
    PROVE  /\ Cardinality(S) \in Nat
           /\ Cut(t, S) \in Seq(Seq(Chars)) /\ Len(Cut(t, S)) = Cardinality(S)
           /\ \A n \in 1..Cardinality(S) :
                 LET r == Ordered(ByStart(t), S)[n]
                 IN  r \in S /\ Cut(t, S)[n] = SubSeq(t, r[1], r[2])
           /\ \A r \in S : \E n \in 1..Cardinality(S) : Cut(t, S)[n] = SubSeq(t, r[1], r[2])
  <1> DEFINE at == Ordered(ByStart(t), S)
             size == Cardinality(S)
  <1>1. /\ size \in Nat /\ at \in [1..size -> S]
        /\ \A r \in S : \E n \in 1..size : at[n] = r
    BY OrderedSorts
  <1>2. Cut(t, S) = [n \in 1..size |-> SubSeq(t, at[n][1], at[n][2])]
    BY <1>1 DEF Cut
  <1> HIDE DEF at, size
  <1>3. ASSUME NEW r \in S PROVE SubSeq(t, r[1], r[2]) \in Seq(Chars)
    <2>1. r[1] \in 1..Len(t) /\ r[2] \in 1..Len(t)
      OBVIOUS
    <2> QED
      BY <2>1
  <1>4. Cut(t, S) \in [1..size -> Seq(Chars)]
    BY <1>1, <1>2, <1>3
  <1>5. Cut(t, S) \in Seq(Seq(Chars)) /\ Len(Cut(t, S)) = size
    BY <1>1, <1>4, SeqOfFun
  <1>6. \A n \in 1..size : at[n] \in S /\ Cut(t, S)[n] = SubSeq(t, at[n][1], at[n][2])
    BY <1>1, <1>2
  <1>7. \A r \in S : \E n \in 1..size : Cut(t, S)[n] = SubSeq(t, r[1], r[2])
    BY <1>1, <1>6
  <1> QED
    BY <1>1, <1>5, <1>6, <1>7 DEF at, size

(* One more piece, after the others, perhaps of a longer text.               *)
LEMMA CutGrows ==
    ASSUME NEW t \in Seq(Chars), NEW S \in SUBSET ((1..Len(t)) \X (1..Len(t))),
           IsFiniteSet(S), StrictOrder(ByStart(t), S),
           NEW u \in Seq(Chars), Len(t) <= Len(u), \A k \in 1..Len(t) : u[k] = t[k],
           NEW z \in (1..Len(u)) \X (1..Len(u)), \A r \in S : r[1] < z[1],
           StrictOrder(ByStart(u), S \cup {z})
    PROVE  Cut(u, S \cup {z}) = Append(Cut(t, S), SubSeq(u, z[1], z[2]))
  <1> DEFINE a == Ordered(ByStart(t), S)
             b == Ordered(ByStart(u), S \cup {z})
             size == Cardinality(S)
             D(v) == (1..Len(v)) \X (1..Len(v))
             word == SubSeq(u, z[1], z[2])
  <1>0. Len(t) \in Nat /\ Len(u) \in Nat
    OBVIOUS
  <1>1. z \notin S
    <2>1. z[1] \in Nat
      OBVIOUS
    <2> QED
      BY <2>1
  <1>2. /\ \A p, q \in D(t) : <<p, q>> \in ByStart(t) <=> p[1] < q[1]
        /\ \A p, q \in D(u) : <<p, q>> \in ByStart(u) <=> p[1] < q[1]
    <2>1. \A p, q \in D(t) : <<p, q>> \in ByStart(t) <=> p[1] < q[1]
      BY RunsAre
    <2>2. \A p, q \in D(u) : <<p, q>> \in ByStart(u) <=> p[1] < q[1]
      BY RunsAre
    <2> QED
      BY <2>1, <2>2
  <1>3. S \subseteq D(t) /\ S \subseteq D(u) /\ z \in D(u)
    <2>1. ASSUME NEW r \in S PROVE r \in D(t) /\ r \in D(u)
      <3>1. r \in D(t) /\ \A k \in 1..Len(t) : k \in 1..Len(u)
        BY <1>0
      <3> QED
        BY <3>1
    <2> QED
      BY <2>1
  <1> HIDE DEF D
  <1>4. b = Append(a, z)
    <2>1. \A x, y \in S : <<x, y>> \in ByStart(t) <=> <<x, y>> \in ByStart(u)
      BY <1>2, <1>3
    <2>2. \A x \in S : <<x, z>> \in ByStart(u)
      BY <1>2, <1>3
    <2>3. AddsTo(ByStart(t), ByStart(u), S, z)
      BY <1>1, <2>1, <2>2 DEF AddsTo
    <2>4. Ordered(ByStart(u), S \cup {z}) = Append(Ordered(ByStart(t), S), z)
      BY ONLY <2>3, OrderGrows
    <2> QED
      BY <2>4
  <1>5. /\ size \in Nat /\ a \in [1..size -> S]
        /\ Cut(t, S) \in Seq(Seq(Chars)) /\ Len(Cut(t, S)) = size
        /\ \A n \in 1..size : a[n] \in S /\ Cut(t, S)[n] = SubSeq(t, a[n][1], a[n][2])
    BY CutFits, OrderedSorts
  <1>6. word \in Seq(Chars)
    <2>1. z[1] \in 1..Len(u) /\ z[2] \in 1..Len(u)
      OBVIOUS
    <2> QED
      BY <2>1
  <1> HIDE DEF a, b, size, word
  <1>7. /\ DOMAIN b = 1..(size + 1) /\ b[size + 1] = z /\ \A n \in 1..size : b[n] = a[n]
        /\ \A n \in 1..(size + 1) : n \in 1..size \/ n = size + 1
    <2> DEFINE T == S \cup {z}
    <2>1. a \in [1..size -> T]
      <3>1. \A n \in 1..size : a[n] \in T
        BY <1>5
      <3> QED
        BY <1>5, <3>1
    <2>2. z \in T
      OBVIOUS
    <2> HIDE DEF T
    <2>3. a \in Seq(T) /\ Len(a) = size
      BY <1>5, <2>1, SeqOfFun
    <2> QED
      BY <1>4, <2>2, <2>3, Appended
  <1> DEFINE c == Append(Cut(t, S), word)
  <1>8. /\ c \in Seq(Seq(Chars)) /\ Len(c) = size + 1 /\ c[size + 1] = word
        /\ \A n \in 1..size : c[n] = Cut(t, S)[n]
    <2> DEFINE T == Seq(Chars)
               s == Cut(t, S)
    <2>1. s \in Seq(T) /\ word \in T /\ Len(s) = size
      BY <1>5, <1>6
    <2> HIDE DEF T, s
    <2>2. /\ Append(s, word) \in Seq(T) /\ Len(Append(s, word)) = size + 1
          /\ Append(s, word)[size + 1] = word
          /\ \A n \in 1..size : Append(s, word)[n] = s[n]
      BY <2>1, Appended
    <2> QED
      BY <2>2 DEF T, s
  <1>9. ASSUME NEW n \in 1..size PROVE SubSeq(u, a[n][1], a[n][2]) = SubSeq(t, a[n][1], a[n][2])
    <2> DEFINE l == a[n][1]
               m == a[n][2]
    <2>1. l \in 1..Len(t) /\ m \in 1..Len(t)
      BY <1>3, <1>5 DEF D
    <2> HIDE DEF l, m
    <2>2. SubSeq(u, l, m) = SubSeq(t, l, m)
      BY <1>0, <2>1
    <2> QED
      BY <2>2 DEF l, m
  <1>10. Cut(u, S \cup {z}) = [n \in 1..(size + 1) |-> SubSeq(u, b[n][1], b[n][2])]
    BY <1>7 DEF Cut, b
  <1>11. c = [n \in 1..(size + 1) |-> c[n]]
    BY <1>8, FunOfSeq
  <1> HIDE DEF c
  <1>12. \A n \in 1..(size + 1) : SubSeq(u, b[n][1], b[n][2]) = c[n]
    <2>1. ASSUME NEW n \in 1..size PROVE SubSeq(u, b[n][1], b[n][2]) = c[n]
      <3>1. b[n] = a[n] /\ c[n] = Cut(t, S)[n]
        BY <1>7, <1>8
      <3>2. Cut(t, S)[n] = SubSeq(t, a[n][1], a[n][2])
        BY <1>5
      <3> QED
        BY <1>9, <3>1, <3>2
    <2>2. SubSeq(u, b[size + 1][1], b[size + 1][2]) = c[size + 1]
      BY <1>7, <1>8 DEF word
    <2> QED
      BY <1>7, <2>1, <2>2
  <1> QED
    BY <1>10, <1>11, <1>12 DEF c, word

(* The words of a text are cut where its runs are.                           *)
LEMMA WordsCut ==
    ASSUME NEW t \in Seq(Chars), NEW kind
    PROVE  /\ RunsInOrder(t, kind) = Cut(t, Runs(t, kind))
           /\ RunsInOrder(t, kind) \in Seq(Seq(Chars))
           /\ Runs(t, kind) \in SUBSET ((1..Len(t)) \X (1..Len(t)))
           /\ ToSet(RunsInOrder(t, kind)) = {SubSeq(t, r[1], r[2]) : r \in Runs(t, kind)}
  <1> DEFINE S == Runs(t, kind)
             D == (1..Len(t)) \X (1..Len(t))
             ws == Cut(t, S)
  <1>1. S \in SUBSET D /\ IsFiniteSet(S) /\ StrictOrder(ByStart(t), S)
    <2>1. IsFiniteSet(S) /\ StrictOrder(ByStart(t), S) /\ S = {r \in D : IsRun(t, kind, r[1], r[2])}
      BY RunsAre
    <2> HIDE DEF S
    <2> QED
      BY <2>1
  <1>2. RunsInOrder(t, kind) = ws
    BY DEF RunsInOrder, Cut
  <1> HIDE DEF S
  <1> DEFINE Piece(r) == SubSeq(t, r[1], r[2])
             size == Cardinality(S)
  <1>3. /\ ws \in Seq(Seq(Chars)) /\ Len(ws) = size
        /\ \A n \in 1..size : \E r \in S : ws[n] = Piece(r)
        /\ \A r \in S : \E n \in 1..size : ws[n] = Piece(r)
    BY <1>1, CutFits
  <1> HIDE DEF ws, Piece, size
  <1>4. DOMAIN ws = 1..size
    BY <1>3, FunOfSeq
  <1>5. ToSet(ws) = {Piece(r) : r \in S}
    <2>1. ToSet(ws) = {ws[n] : n \in 1..size}
      BY <1>4 DEF ToSet
    <2>2. ASSUME NEW n \in 1..size PROVE ws[n] \in {Piece(r) : r \in S}
      BY <1>3
    <2>3. ASSUME NEW r \in S PROVE Piece(r) \in {ws[n] : n \in 1..size}
      <3>1. PICK n \in 1..size : ws[n] = Piece(r)
        BY <1>3
      <3> QED
        BY <3>1
    <2> QED
      BY <2>1, <2>2, <2>3
  <1>6. RunsInOrder(t, kind) \in Seq(Seq(Chars))
    BY <1>2, <1>3
  <1>7. ToSet(RunsInOrder(t, kind)) = {SubSeq(t, r[1], r[2]) : r \in S}
    BY <1>2, <1>5 DEF Piece
  <1> QED
    BY <1>1, <1>2, <1>6, <1>7 DEF S, ws

(* The words of a text and a further character.                              *)
Ends(t, kind) == t # <<>> /\ t[Len(t)] \in kind
Extended(ws, inside, c, kind) ==
    IF c \notin kind THEN ws
    ELSE IF inside THEN Append(Front(ws), Append(Last(ws), c)) ELSE Append(ws, <<c>>)

(* Where the last run begins.                                                *)
LEMMA LastRun ==
    ASSUME NEW t \in Seq(Chars), NEW kind, Ends(t, kind)
    PROVE  \E a \in 1..Len(t) :
              /\ IsRun(t, kind, a, Len(t))
              /\ \A b \in 1..Len(t) : IsRun(t, kind, b, Len(t)) => b = a
  <1> DEFINE n == Len(t)
             M == {a \in 1..n : \A k \in a..n : t[k] \in kind}
             a == Min(M)
  <1>1. n \in Nat /\ n > 0 /\ t[n] \in kind
    <2>1. t # <<>> /\ n \in Nat /\ (n = 0 => t = <<>>)
      BY DEF Ends
    <2> QED
      BY <2>1 DEF Ends
  <1> HIDE DEF n
  <1>2. a \in M /\ \A k \in M : a <= k
    <2>1. M \subseteq Nat
      BY <1>1
    <2>2. n \in M
      BY <1>1
    <2> HIDE DEF M
    <2> QED
      BY <2>1, <2>2, LeastOf
  <1>3. a \in 1..n /\ \A k \in a..n : t[k] \in kind
    BY <1>2
  <1> HIDE DEF a
  <1>4. a = 1 \/ t[a - 1] \notin kind
    <2> SUFFICES ASSUME a # 1, t[a - 1] \in kind PROVE FALSE
      OBVIOUS
    <2>1. a - 1 \in 1..n /\ \A k \in (a - 1)..n : k = a - 1 \/ k \in a..n
      BY <1>1, <1>3
    <2>2. a - 1 \in M
      BY <1>3, <2>1
    <2> QED
      BY <1>2, <1>3, <2>2
  <1>5. IsRun(t, kind, a, n)
    <2>1. n \in 1..n /\ a <= n
      BY <1>1, <1>3
    <2> QED
      BY <1>3, <1>4, <2>1 DEF IsRun, n
  <1>6. ASSUME NEW b \in 1..n, IsRun(t, kind, b, n) PROVE b = a
    <2>1. b \in M /\ (b = 1 \/ t[b - 1] \notin kind)
      BY <1>6 DEF IsRun
    <2>2. a <= b
      BY <1>2, <2>1
    <2>3. ~(a < b)
      <3> SUFFICES ASSUME a < b PROVE FALSE
        OBVIOUS
      <3>1. b # 1 /\ b - 1 \in a..n
        BY <1>1, <1>3
      <3> QED
        BY <1>3, <2>1, <3>1
    <2> QED
      BY <1>3, <2>2, <2>3
  <1> QED
    BY <1>3, <1>5, <1>6 DEF n

(* A character that is of no word leaves the words as they are; another goes *)
(* on with the last word if the text ended with one, and begins a word if    *)
(* not.                                                                      *)
LEMMA WordsGrow ==
    ASSUME NEW t \in Seq(Chars), NEW c \in Chars, NEW kind
    PROVE  RunsInOrder(Append(t, c), kind)
              = Extended(RunsInOrder(t, kind), Ends(t, kind), c, kind)
  <1> DEFINE u == Append(t, c)
             n == Len(t)
             D == (1..n) \X (1..n)
             E == (1..(n + 1)) \X (1..(n + 1))
             S == Runs(t, kind)
             U == Runs(u, kind)
  <1>1. /\ n \in Nat /\ u \in Seq(Chars) /\ Len(u) = n + 1 /\ u[n + 1] = c
        /\ \A k \in 1..n : u[k] = t[k] /\ k \in 1..(n + 1)
        /\ \A k \in 1..(n + 1) : k \in 1..n \/ k = n + 1
    BY Appended
  <1>2. /\ S = {r \in D : IsRun(t, kind, r[1], r[2])}
        /\ IsFiniteSet(S) /\ StrictOrder(ByStart(t), S)
        /\ \A p, q \in D : <<p, q>> \in ByStart(t) <=> p[1] < q[1]
    BY RunsAre
  <1>3. RunsInOrder(t, kind) = Cut(t, S) /\ RunsInOrder(t, kind) \in Seq(Seq(Chars))
    BY WordsCut
  <1> HIDE DEF u
  <1>4. /\ U = {r \in E : IsRun(u, kind, r[1], r[2])}
        /\ IsFiniteSet(U) /\ StrictOrder(ByStart(u), U)
        /\ \A p, q \in E : <<p, q>> \in ByStart(u) <=> p[1] < q[1]
    <2>1. Len(u) = n + 1 /\ u \in Seq(Chars)
      BY <1>1
    <2> HIDE DEF n
    <2> QED
      BY <2>1, RunsAre
  <1>5. RunsInOrder(u, kind) = Cut(u, U)
    BY <1>1, WordsCut
  <1>6. D \subseteq E
    BY <1>1
  <1>7. ASSUME NEW a \in 1..n, NEW b \in 1..n
        PROVE  /\ \A k \in a..b : u[k] = t[k]
               /\ a # 1 => u[a - 1] = t[a - 1]
               /\ b # n => u[b + 1] = t[b + 1]
               /\ b # n + 1 /\ b + 1 \in 1..(n + 1) /\ a \in 1..(n + 1) /\ b \in 1..(n + 1)
    <2>1. \A k \in a..b : k \in 1..n
      BY <1>1
    <2>2. a # 1 => a - 1 \in 1..n
      BY <1>1
    <2>3. b # n => b + 1 \in 1..n
      BY <1>1
    <2>4. b # n + 1 /\ b + 1 \in 1..(n + 1)
      BY <1>1
    <2> QED
      BY <1>1, <2>1, <2>2, <2>3, <2>4
  <1>8. Ends(t, kind) <=> n > 0 /\ t[n] \in kind
    <2>1. t # <<>> <=> n > 0
      OBVIOUS
    <2> QED
      BY <2>1 DEF Ends
  <1>9. CASE c \notin kind
    <2>1. ASSUME NEW a \in 1..n, NEW b \in 1..n
          PROVE  IsRun(u, kind, a, b) <=> IsRun(t, kind, a, b)
      <3>1. b = n => u[b + 1] \notin kind
        BY <1>1, <1>9
      <3> QED
        BY <1>1, <1>7, <3>1 DEF IsRun
    <2>2. ASSUME NEW a \in 1..(n + 1), NEW b \in 1..(n + 1), IsRun(u, kind, a, b)
          PROVE  a \in 1..n /\ b \in 1..n
      <3>1. b # n + 1
        <4>1. a <= b /\ \A k \in a..b : u[k] \in kind
          BY <2>2 DEF IsRun
        <4>2. b \in a..b
          BY <4>1
        <4> QED
          BY <1>1, <1>9, <4>1, <4>2
      <3>2. b \in 1..n /\ a <= b
        BY <1>1, <2>2, <3>1 DEF IsRun
      <3> QED
        BY <3>2
    <2>3. U = S
      <3>1. ASSUME NEW r \in S PROVE r \in U
        <4>1. r \in D /\ IsRun(t, kind, r[1], r[2]) /\ r \in E
          BY <1>2, <1>6
        <4>2. r[1] \in 1..n /\ r[2] \in 1..n
          BY <4>1
        <4> QED
          BY <1>4, <2>1, <4>1, <4>2
      <3>2. ASSUME NEW r \in U PROVE r \in S
        <4>1. r \in E /\ IsRun(u, kind, r[1], r[2])
          BY <1>4
        <4>2. r[1] \in 1..(n + 1) /\ r[2] \in 1..(n + 1) /\ r = <<r[1], r[2]>>
          BY <4>1
        <4>3. r[1] \in 1..n /\ r[2] \in 1..n
          BY <2>2, <4>1, <4>2
        <4>4. r \in D
          BY <4>2, <4>3
        <4> QED
          BY <1>2, <2>1, <4>1, <4>3, <4>4
      <3> HIDE DEF S, U
      <3> QED
        BY <3>1, <3>2
    <2> HIDE DEF S, U
    <2>4. Ordered(ByStart(u), S) = Ordered(ByStart(t), S)
      <3>1. \A p, q \in S : p \in D /\ q \in D /\ p \in E /\ q \in E
        BY <1>2, <1>6
      <3>2. \A p, q \in S : <<p, q>> \in ByStart(u) <=> <<p, q>> \in ByStart(t)
        <4> HIDE DEF D, E
        <4> QED
          BY <1>2, <1>4, <3>1
      <3> QED
        BY <3>2, OrdersAgree
    <2> DEFINE at == Ordered(ByStart(t), S)
    <2>5. at \in [1..Cardinality(S) -> S]
      BY <1>2, OrderedSorts
    <2> HIDE DEF at
    <2>6. ASSUME NEW k \in DOMAIN at
          PROVE  SubSeq(u, at[k][1], at[k][2]) = SubSeq(t, at[k][1], at[k][2])
      <3> DEFINE l == at[k][1]
                 m == at[k][2]
      <3>1. l \in 1..n /\ m \in 1..n
        BY <1>2, <2>5
      <3>2. \A i \in l..m : u[i] = t[i]
        BY <1>7, <3>1
      <3> HIDE DEF l, m
      <3>3. SubSeq(u, l, m) = SubSeq(t, l, m)
        BY <1>1, <3>1, <3>2
      <3> QED
        BY <3>3 DEF l, m
    <2>7. Cut(u, S) = Cut(t, S)
      BY <2>4, <2>6 DEF Cut, at
    <2> QED
      BY <1>3, <1>5, <1>9, <2>3, <2>7 DEF Extended, u
  <1>10. CASE c \in kind /\ ~Ends(t, kind)
    <2> DEFINE z == <<n + 1, n + 1>>
    <2>0. z \in E /\ z[1] = n + 1 /\ z[2] = n + 1
      BY <1>1
    <2>1. ASSUME NEW a \in 1..n, NEW b \in 1..n
          PROVE  IsRun(u, kind, a, b) <=> IsRun(t, kind, a, b)
      <3>1. CASE b = n
        <4>1. n > 0 /\ t[n] \notin kind /\ u[n] \notin kind
          BY <1>1, <1>8, <1>10
        <4>2. a <= b => b \in a..b
          BY <1>1
        <4> QED
          BY <3>1, <4>1, <4>2 DEF IsRun
      <3>2. CASE b # n
        BY <1>1, <1>7, <3>2 DEF IsRun
      <3> QED
        BY <3>1, <3>2
    <2>2. ASSUME NEW a \in 1..(n + 1), NEW b \in 1..(n + 1), IsRun(u, kind, a, b)
          PROVE  (a \in 1..n /\ b \in 1..n) \/ (a = n + 1 /\ b = n + 1)
      <3>1. a <= b /\ \A k \in a..b : u[k] \in kind
        BY <2>2 DEF IsRun
      <3>2. CASE b = n + 1 /\ a # n + 1
        <4>1. n \in 1..n /\ n \in a..b
          BY <1>1, <3>2
        <4>2. t[n] \in kind /\ n > 0
          BY <1>1, <3>1, <4>1
        <4> QED
          BY <1>8, <1>10, <4>2
      <3> QED
        BY <1>1, <3>1, <3>2
    <2>3. IsRun(u, kind, n + 1, n + 1)
      <3>1. n + 1 \in 1..Len(u) /\ n + 1 <= n + 1 /\ n + 1 = Len(u) /\ (n + 1) - 1 = n
        BY <1>1
      <3>2. \A k \in (n + 1)..(n + 1) : u[k] \in kind
        BY <1>1, <1>10
      <3>3. n + 1 = 1 \/ u[n] \notin kind
        <4>1. CASE n = 0
          BY <4>1
        <4>2. CASE n # 0
          <5>1. n > 0 /\ n \in 1..n
            BY <1>1, <4>2
          <5> QED
            BY <1>1, <1>8, <1>10, <5>1
        <4> QED
          BY <4>1, <4>2
      <3> QED
        BY <3>1, <3>2, <3>3 DEF IsRun
    <2>4. U = S \cup {z}
      <3>1. ASSUME NEW r \in S PROVE r \in U
        <4>1. r \in D /\ IsRun(t, kind, r[1], r[2]) /\ r \in E
          BY <1>2, <1>6
        <4>2. r[1] \in 1..n /\ r[2] \in 1..n
          BY <4>1
        <4> QED
          BY <1>4, <2>1, <4>1, <4>2
      <3>2. ASSUME NEW r \in U PROVE r \in S \/ r = z
        <4>1. r \in E /\ IsRun(u, kind, r[1], r[2])
          BY <1>4
        <4>2. r[1] \in 1..(n + 1) /\ r[2] \in 1..(n + 1) /\ r = <<r[1], r[2]>>
          BY <4>1
        <4>3. (r[1] \in 1..n /\ r[2] \in 1..n) \/ r = z
          BY <2>2, <4>1, <4>2
        <4>4. r[1] \in 1..n /\ r[2] \in 1..n => r \in D
          BY <4>2
        <4> QED
          BY <1>2, <2>1, <4>1, <4>3, <4>4
      <3>3. z \in U
        BY <1>4, <2>0, <2>3
      <3> HIDE DEF S, U, z
      <3> QED
        BY <3>1, <3>2, <3>3
    <2>5. \A r \in S : r[1] < z[1]
      BY <1>1, <1>2
    <2>6. StrictOrder(ByStart(u), S \cup {z})
      BY <1>4, <2>4
    <2>7. S \in SUBSET ((1..Len(t)) \X (1..Len(t)))
      BY <1>2
    <2>8. z \in (1..Len(u)) \X (1..Len(u)) /\ Len(t) <= Len(u)
      BY <1>1, <2>0
    <2> HIDE DEF S, U, z
    <2>9. Cut(u, S \cup {z}) = Append(Cut(t, S), SubSeq(u, z[1], z[2]))
      BY <1>1, <1>2, <2>5, <2>6, <2>7, <2>8, CutGrows
    <2>10. SubSeq(u, n + 1, n + 1) = <<c>>
      <3>1. n + 1 \in Nat /\ (n + 1) - (n + 1) + 1 = 1
        BY <1>1
      <3>2. SubSeq(u, n + 1, n + 1) = [k \in 1..1 |-> u[(n + 1) + k - 1]]
        BY <3>1
      <3>3. \A k \in 1..1 : u[(n + 1) + k - 1] = c
        BY <1>1
      <3>4. <<c>> = [k \in 1..1 |-> c]
        OBVIOUS
      <3> QED
        BY <3>2, <3>3, <3>4
    <2> QED
      BY <1>3, <1>5, <1>10, <2>0, <2>4, <2>9, <2>10 DEF Extended, u
  <1>11. CASE c \in kind /\ Ends(t, kind)
    <2>0. PICK a0 \in 1..n : /\ IsRun(t, kind, a0, n)
                             /\ \A b \in 1..n : IsRun(t, kind, b, n) => b = a0
      BY <1>11, LastRun
    <2> DEFINE y == <<a0, n>>
               z == <<a0, n + 1>>
               T == {r \in S : r[2] < n}
    <2>a. /\ y \in D /\ y[1] = a0 /\ y[2] = n /\ n > 0 /\ n \in 1..n
          /\ z \in E /\ z[1] = a0 /\ z[2] = n + 1
      BY <1>1
    <2>1. ASSUME NEW a \in 1..n, NEW b \in 1..n
          PROVE  IsRun(u, kind, a, b) <=> IsRun(t, kind, a, b) /\ b < n
      <3>1. CASE b = n
        <4>1. u[b + 1] \in kind /\ b # Len(u)
          BY <1>1, <1>11, <3>1
        <4> QED
          BY <1>1, <3>1, <4>1 DEF IsRun
      <3>2. CASE b # n
        <4>1. b < n
          BY <1>1, <3>2
        <4> QED
          BY <1>1, <1>7, <3>2, <4>1 DEF IsRun
      <3> QED
        BY <3>1, <3>2
    <2>2. ASSUME NEW a \in 1..(n + 1), IsRun(u, kind, a, n + 1) PROVE a = a0
      <3>1. /\ \A k \in a..(n + 1) : u[k] \in kind
            /\ a = 1 \/ u[a - 1] \notin kind
        BY <2>2 DEF IsRun
      <3>2. a # n + 1
        <4> SUFFICES ASSUME a = n + 1 PROVE FALSE
          OBVIOUS
        <4>1. a # 1 /\ a - 1 = n
          BY <1>1, <2>a
        <4>2. u[n] = t[n] /\ t[n] \in kind
          BY <1>1, <1>8, <1>11, <2>a
        <4> QED
          BY <3>1, <4>1, <4>2
      <3>3. a \in 1..n
        BY <1>1, <3>2
      <3>4. a <= n /\ \A k \in a..n : k \in a..(n + 1) /\ k \in 1..n
        BY <1>1, <3>3
      <3>5. a # 1 => a - 1 \in 1..n
        BY <1>1, <3>3
      <3>6. IsRun(t, kind, a, n)
        BY <1>1, <2>a, <3>1, <3>3, <3>4, <3>5 DEF IsRun
      <3> QED
        BY <2>0, <3>3, <3>6
    <2>3. IsRun(u, kind, a0, n + 1)
      <3>1. /\ a0 <= n /\ \A k \in a0..n : t[k] \in kind
            /\ a0 = 1 \/ t[a0 - 1] \notin kind
        BY <2>0 DEF IsRun
      <3>2. a0 \in 1..(n + 1) /\ n + 1 \in 1..(n + 1) /\ a0 <= n + 1
        BY <1>1, <3>1
      <3>3. \A k \in a0..(n + 1) : (k \in a0..n /\ k \in 1..n) \/ k = n + 1
        BY <1>1, <3>1
      <3>4. a0 # 1 => a0 - 1 \in 1..n
        BY <1>1
      <3>5. \A k \in a0..(n + 1) : u[k] \in kind
        BY <1>1, <1>11, <3>1, <3>3
      <3>6. a0 = 1 \/ u[a0 - 1] \notin kind
        BY <1>1, <3>1, <3>4
      <3> QED
        BY <1>1, <3>2, <3>5, <3>6 DEF IsRun
    <2>4. S = T \cup {y}
      <3>1. y \in S
        BY <1>2, <2>0, <2>a
      <3>2. ASSUME NEW r \in S PROVE r \in T \/ r = y
        <4>1. r \in D /\ IsRun(t, kind, r[1], r[2])
          BY <1>2
        <4>2. r[1] \in 1..n /\ r[2] \in 1..n /\ r = <<r[1], r[2]>>
          BY <4>1
        <4>3. r[2] = n => r[1] = a0
          BY <2>0, <4>1, <4>2
        <4> QED
          BY <1>1, <4>2, <4>3
      <3> HIDE DEF S, y
      <3> QED
        BY <3>1, <3>2
    <2>5. U = T \cup {z}
      <3>1. ASSUME NEW r \in T PROVE r \in U
        <4>1. r \in D /\ IsRun(t, kind, r[1], r[2]) /\ r \in E /\ r[2] < n
          BY <1>2, <1>6
        <4>2. r[1] \in 1..n /\ r[2] \in 1..n
          BY <4>1
        <4> QED
          BY <1>4, <2>1, <4>1, <4>2
      <3>2. ASSUME NEW r \in U PROVE r \in T \/ r = z
        <4>1. r \in E /\ IsRun(u, kind, r[1], r[2])
          BY <1>4
        <4>2. r[1] \in 1..(n + 1) /\ r[2] \in 1..(n + 1) /\ r = <<r[1], r[2]>>
          BY <4>1
        <4>3. CASE r[2] = n + 1
          BY <2>2, <4>1, <4>2, <4>3
        <4>4. CASE r[2] # n + 1
          <5>1. r[1] <= r[2]
            BY <4>1 DEF IsRun
          <5>2. r[1] \in 1..n /\ r[2] \in 1..n
            BY <1>1, <4>2, <4>4, <5>1
          <5>3. r \in D
            BY <4>2, <5>2
          <5> QED
            BY <1>2, <2>1, <4>1, <5>2, <5>3
        <4> QED
          BY <4>3, <4>4
      <3>3. z \in U
        BY <1>4, <2>3, <2>a
      <3> HIDE DEF S, U, T, z
      <3> QED
        BY <3>1, <3>2, <3>3
    <2>6. ASSUME NEW r \in T PROVE r[1] < a0
      <3>1. r \in D /\ IsRun(t, kind, r[1], r[2]) /\ r[2] < n
        BY <1>2
      <3> DEFINE l == r[1]
                 m == r[2]
      <3>2. l \in 1..n /\ m \in 1..n /\ l <= m /\ m < n
        BY <3>1 DEF IsRun
      <3>3. t[m + 1] \notin kind
        BY <1>1, <3>1, <3>2 DEF IsRun
      <3>4. \A k \in a0..n : t[k] \in kind
        BY <2>0 DEF IsRun
      <3> HIDE DEF l, m
      <3>5. l < a0
        <4> SUFFICES ASSUME a0 <= l PROVE FALSE
          BY <3>2
        <4>1. m + 1 \in a0..n
          BY <1>1, <3>2
        <4> QED
          BY <3>3, <3>4, <4>1
      <3> QED
        BY <3>5 DEF l
    <2>7. T \in SUBSET D /\ T \subseteq S
      BY <1>2
    <2> HIDE DEF T
    <2>8. IsFiniteSet(T) /\ StrictOrder(ByStart(t), T)
      <3> HIDE DEF S
      <3>1. IsFiniteSet(T)
        BY <1>2, <2>7, FS_Subset
      <3>2. StrictOrder(ByStart(t), T)
        BY <1>2, <2>7 DEF StrictOrder
      <3> QED
        BY <3>1, <3>2
    <2> HIDE DEF S, U, y, z
    <2>9. Cut(t, S) = Append(Cut(t, T), SubSeq(t, a0, n))
      <3>1. StrictOrder(ByStart(t), T \cup {y})
        BY <1>2, <2>4
      <3>2. \A r \in T : r[1] < y[1]
        BY <2>6, <2>a
      <3>3. Len(t) <= Len(t) /\ \A k \in 1..Len(t) : t[k] = t[k]
        OBVIOUS
      <3>4. T \in SUBSET ((1..Len(t)) \X (1..Len(t))) /\ y \in (1..Len(t)) \X (1..Len(t))
        BY <2>7, <2>a
      <3> HIDE DEF n
      <3>5. Cut(t, T \cup {y}) = Append(Cut(t, T), SubSeq(t, y[1], y[2]))
        BY <2>8, <3>1, <3>2, <3>3, <3>4, CutGrows
      <3> QED
        BY <2>4, <2>a, <3>5
    <2>10. Cut(u, U) = Append(Cut(t, T), SubSeq(u, a0, n + 1))
      <3>1. StrictOrder(ByStart(u), T \cup {z})
        BY <1>4, <2>5
      <3>2. \A r \in T : r[1] < z[1]
        BY <2>6, <2>a
      <3>3. Len(t) <= Len(u) /\ \A k \in 1..Len(t) : u[k] = t[k]
        BY <1>1
      <3>4. T \in SUBSET ((1..Len(t)) \X (1..Len(t))) /\ z \in (1..Len(u)) \X (1..Len(u))
        BY <1>1, <2>7, <2>a
      <3>5. u \in Seq(Chars)
        BY <1>1
      <3> HIDE DEF n
      <3>6. Cut(u, T \cup {z}) = Append(Cut(t, T), SubSeq(u, z[1], z[2]))
        BY <2>8, <3>1, <3>2, <3>3, <3>4, <3>5, CutGrows
      <3> QED
        BY <2>5, <2>a, <3>6
    <2> DEFINE w == SubSeq(t, a0, n)
               v == SubSeq(u, a0, n + 1)
               cs == Cut(t, T)
    <2>11. w \in Seq(Chars) /\ v = Append(w, c)
      <3>1. a0 \in 1..n
        OBVIOUS
      <3>2. /\ w \in Seq(Chars) /\ Len(w) = n - a0 + 1
            /\ \A k \in 1..(n - a0 + 1) : w[k] = t[a0 + k - 1]
        BY <1>1
      <3>3. v = [k \in 1..(n - a0 + 2) |-> u[a0 + k - 1]]
        <4>1. a0 \in Nat /\ n + 1 \in Nat /\ (n + 1) - a0 + 1 = n - a0 + 2
          BY <1>1
        <4> HIDE DEF n
        <4> QED
          BY <4>1
      <3> DEFINE m == n - a0 + 1
      <3>4. m \in Nat /\ n - a0 + 2 = m + 1 /\ a0 + (m + 1) - 1 = n + 1
            /\ \A k \in 1..m : a0 + k - 1 \in 1..n
        BY <1>1
      <3> HIDE DEF n, w, v, m
      <3>5. Len(w) = m /\ \A k \in 1..m : w[k] = t[a0 + k - 1]
        BY <3>2 DEF m
      <3>6. /\ Append(w, c) = [k \in 1..(m + 1) |-> Append(w, c)[k]]
            /\ Append(w, c)[m + 1] = c /\ \A k \in 1..m : Append(w, c)[k] = w[k]
            /\ \A k \in 1..(m + 1) : k \in 1..m \/ k = m + 1
        <4>1. Append(w, c) \in Seq(Chars) /\ Len(Append(w, c)) = m + 1
          BY <3>2, <3>5, Appended
        <4>2. Append(w, c) \in [1..(m + 1) -> Chars]
          BY <4>1, FunOfSeq
        <4>3. /\ Append(w, c)[m + 1] = c /\ \A k \in 1..m : Append(w, c)[k] = w[k]
              /\ \A k \in 1..(m + 1) : k \in 1..m \/ k = m + 1
          BY <3>2, <3>5, Appended
        <4>4. Append(w, c) = [k \in 1..(m + 1) |-> Append(w, c)[k]]
          BY <4>2
        <4> QED
          BY <4>3, <4>4
      <3>7. \A k \in 1..(m + 1) : u[a0 + k - 1] = Append(w, c)[k]
        <4>1. ASSUME NEW k \in 1..m PROVE u[a0 + k - 1] = Append(w, c)[k]
          <5>1. a0 + k - 1 \in 1..n
            BY <3>4
          <5> QED
            BY <1>1, <3>5, <3>6, <5>1
        <4> QED
          BY <1>1, <3>4, <3>6, <4>1
      <3>8. v = [k \in 1..(m + 1) |-> u[a0 + k - 1]]
        BY <3>3, <3>4
      <3> QED
        BY <3>2, <3>6, <3>7, <3>8
    <2>12. cs \in Seq(Seq(Chars))
      <3>1. T \in SUBSET ((1..Len(t)) \X (1..Len(t)))
        BY <2>7
      <3> HIDE DEF n
      <3> QED
        BY <2>8, <3>1, CutFits
    <2> HIDE DEF w, v, cs
    <2>13. Front(Append(cs, w)) = cs /\ Last(Append(cs, w)) = w
      <3> DEFINE W == Seq(Chars)
      <3>1. cs \in Seq(W) /\ w \in W
        BY <2>11, <2>12
      <3> HIDE DEF W
      <3> QED
        BY <3>1, FrontLast
    <2>14. RunsInOrder(t, kind) = Append(cs, w) /\ RunsInOrder(u, kind) = Append(cs, v)
      BY <1>3, <1>5, <2>9, <2>10 DEF w, v, cs
    <2> QED
      BY <1>11, <2>11, <2>13, <2>14 DEF Extended, u
  <1> QED
    BY <1>9, <1>10, <1>11

-----------------------------------------------------------------------------
(* Plain text has the words of its mark-up: the text and what the loop has   *)
(* written of it have the same words, character after character.             *)

(* Two texts of the same words, both with or both without a word at the end, *)
(* that may grow.                                                            *)
SameSoFar(a, b) ==
    /\ Words(a) = Words(b)
    /\ Ends(a, WordChars) <=> Ends(b, WordChars)

(* What a text ends with.                                                    *)
LEMMA EndsAppended ==
    ASSUME NEW t \in Seq(Chars), NEW c \in Chars, NEW kind
    PROVE  Ends(Append(t, c), kind) <=> c \in kind
  <1> DEFINE u == Append(t, c)
  <1>1. u \in Seq(Chars) /\ Len(u) = Len(t) + 1 /\ u[Len(t) + 1] = c /\ Len(t) \in Nat
    BY Appended
  <1> HIDE DEF u
  <1>2. u # <<>> /\ u[Len(u)] = c
    BY <1>1
  <1> QED
    BY <1>2 DEF Ends, u

(* The same character after both, or after each one that ends a word, or one *)
(* after the first only, where no word stood at the end.                     *)
LEMMA SameGrows ==
    ASSUME NEW a \in Seq(Chars), NEW b \in Seq(Chars), SameSoFar(a, b), NEW c \in Chars
    PROVE  /\ SameSoFar(Append(a, c), Append(b, c))
           /\ c \notin WordChars =>
                 /\ \A d \in Chars \ WordChars : SameSoFar(Append(a, c), Append(b, d))
                 /\ ~Ends(b, WordChars) => SameSoFar(Append(a, c), b)
  <1>1. ASSUME NEW t \in Seq(Chars), NEW d \in Chars
        PROVE  /\ Words(Append(t, d)) = Extended(Words(t), Ends(t, WordChars), d, WordChars)
               /\ Ends(Append(t, d), WordChars) <=> d \in WordChars
    BY WordsGrow, EndsAppended DEF Words
  <1>2. Words(a) = Words(b) /\ (Ends(a, WordChars) <=> Ends(b, WordChars))
    BY DEF SameSoFar
  <1>3. SameSoFar(Append(a, c), Append(b, c))
    <2>1. Extended(Words(a), Ends(a, WordChars), c, WordChars)
             = Extended(Words(b), Ends(b, WordChars), c, WordChars)
      BY <1>2 DEF Extended
    <2> QED
      BY <1>1, <2>1 DEF SameSoFar
  <1>4. ASSUME c \notin WordChars
        PROVE  Words(Append(a, c)) = Words(a) /\ ~Ends(Append(a, c), WordChars)
    BY <1>1, <1>4 DEF Extended
  <1>5. ASSUME NEW d \in Chars \ WordChars
        PROVE  Words(Append(b, d)) = Words(b) /\ ~Ends(Append(b, d), WordChars)
    BY <1>1, <1>5 DEF Extended
  <1> QED
    BY <1>2, <1>3, <1>4, <1>5 DEF SameSoFar

(* Blocks become the ends of lines, inline tags vanish.                      *)
LEMMA UntaggedWords ==
    ASSUME NEW body \in Seq(Chars)
    PROVE  /\ Untagged(body) \in Seq(Chars)
           /\ Words(Untagged(body)) = Words(Without(body, {"inline"}))
  <1> DEFINE n == Len(body)
             lines == [k \in DOMAIN body |-> IF body[k] = "block" THEN "newline" ELSE body[k]]
             kind == {"inline"}
  <1>1. /\ n \in Nat /\ DOMAIN body = 1..n
        /\ \A k \in 1..n : body[k] \in Chars
    BY FunOfSeq
  <1>2. "newline" \in Chars \ WordChars /\ "block" \notin WordChars /\ "newline" \notin kind
    BY DEF Chars, WordChars, White, Letters, Stripped
  <1>3. lines \in Seq(Chars) /\ Len(lines) = n
    <2> DEFINE L == [k \in 1..n |-> IF body[k] = "block" THEN "newline" ELSE body[k]]
    <2>1. lines = L
      BY <1>1
    <2>2. L \in [1..n -> Chars]
      BY <1>1, <1>2
    <2> HIDE DEF L, n
    <2> QED
      BY <1>1, <2>1, <2>2, SeqOfFun
  <1>4. \A k \in 1..n : lines[k] = IF body[k] = "block" THEN "newline" ELSE body[k]
    BY <1>1
  <1>5. Untagged(body) = Without(lines, kind)
    BY DEF Untagged
  <1> HIDE DEF lines
  <1>6. PICK f : /\ f[0] = <<>> /\ f \in [0..n -> Seq(Chars)]
                 /\ \A k \in 1..n : f[k] = Sieved(f[k - 1], lines[k], kind)
                 /\ Without(lines, kind) = f[n]
    <2> HIDE DEF n, kind
    <2> QED
      BY <1>3, WithoutRuns
  <1>7. PICK g : /\ g[0] = <<>> /\ g \in [0..n -> Seq(Chars)]
                 /\ \A k \in 1..n : g[k] = Sieved(g[k - 1], body[k], kind)
                 /\ Without(body, kind) = g[n]
    <2> HIDE DEF kind
    <2> QED
      BY WithoutRuns
  <1> DEFINE I == {k \in 0..n : SameSoFar(f[k], g[k])}
  <1>8. 0 \in I
    BY <1>1, <1>6, <1>7 DEF SameSoFar
  <1>9. ASSUME NEW k \in 0..(n - 1), k \in I PROVE k + 1 \in I
    <2>1. k + 1 \in 1..n /\ k + 1 \in 0..n /\ (k + 1) - 1 = k
      BY <1>1
    <2> DEFINE a == f[k]
               b == g[k]
               c == lines[k + 1]
               d == body[k + 1]
    <2>2. a \in Seq(Chars) /\ b \in Seq(Chars) /\ c \in Chars /\ d \in Chars /\ SameSoFar(a, b)
      <3>1. a \in Seq(Chars) /\ b \in Seq(Chars)
        <4>1. k \in 0..n /\ f \in [0..n -> Seq(Chars)] /\ g \in [0..n -> Seq(Chars)]
          BY <1>6, <1>7
        <4> HIDE DEF n
        <4> QED
          BY ONLY <4>1
      <3>2. c \in Chars
        <4> HIDE DEF n
        <4> QED
          BY <1>3, <2>1
      <3>3. d \in Chars
        BY <2>1
      <3>4. SameSoFar(a, b)
        BY <1>9
      <3> HIDE DEF a, b, c, d
      <3> QED
        BY <3>1, <3>2, <3>3, <3>4
    <2>3. c = IF d = "block" THEN "newline" ELSE d
      BY <1>4, <2>1
    <2>4. f[k + 1] = Sieved(a, c, kind) /\ g[k + 1] = Sieved(b, d, kind)
      BY <1>6, <1>7, <2>1
    <2> HIDE DEF a, b, c, d, n, kind
    <2>5. SameSoFar(Append(a, c), Append(b, d))
      <3>1. CASE d = "block"
        <4>1. c \in Chars /\ c \notin WordChars /\ d \in Chars \ WordChars
          BY <1>2, <2>2, <2>3, <3>1
        <4> QED
          BY <2>2, <4>1, SameGrows
      <3>2. CASE d # "block"
        BY <2>2, <2>3, <3>2, SameGrows
      <3> QED
        BY <3>1, <3>2
    <2>6. c \in kind <=> d \in kind
      BY <1>2, <2>3 DEF kind
    <2>7. SameSoFar(f[k + 1], g[k + 1])
      BY <2>2, <2>4, <2>5, <2>6 DEF Sieved
    <2> QED
      BY <2>1, <2>7
  <1>10. n \in I /\ n \in 0..n
    <2> HIDE DEF I
    <2>1. \A k \in 0..n : k \in I
      BY <1>1, <1>8, <1>9, CountingUp
    <2> QED
      BY <1>1, <2>1
  <1> QED
    BY <1>5, <1>6, <1>7, <1>10 DEF SameSoFar

(* Blanks are brought together: no word is joined to the next.               *)
LEMMA SpacedStep ==
    ASSUME NEW a \in Seq(Chars), NEW b \in Seq(Chars), SameSoFar(a, b), NEW c \in Chars
    PROVE  SameSoFar(Append(a, c), Spaced(b, c))
  <1> DEFINE last == IF b = <<>> THEN "newline" ELSE Last(b)
             before == IF Len(b) < 2 THEN "newline" ELSE b[Len(b) - 1]
  <1>1. "newline" \in Chars \ WordChars /\ "space" \in Chars \ WordChars
    BY DEF Chars, WordChars, White, Letters, Stripped
  <1>2. Gap(c) => c \notin WordChars /\ c # "newline"
    BY DEF Gap, WordChars, Letters, Stripped
  <1>3. ASSUME last \notin WordChars PROVE ~Ends(b, WordChars)
    BY <1>3 DEF Ends, Last
  <1>4. Spaced(b, c) = CASE Gap(c) -> IF last \in {"space", "newline"} THEN b ELSE Append(b, "space")
          [] c = "newline" /\ last = "space" -> Append(Front(b), "newline")
          [] c = "newline" /\ last = "newline" ->
                IF before = "newline" THEN b ELSE Append(b, "newline")
          [] OTHER -> Append(b, c)
    BY DEF Spaced
  <1>5. last = "space" => Front(b) \in Seq(Chars) /\ b = Append(Front(b), "space")
    <2> SUFFICES ASSUME last = "space" PROVE Front(b) \in Seq(Chars) /\ b = Append(Front(b), "space")
      OBVIOUS
    <2>1. b # <<>> /\ Last(b) = "space"
      OBVIOUS
    <2> DEFINE m == Len(b)
    <2>2. m \in Nat /\ m > 0 /\ b[m] = "space"
      BY <2>1 DEF Last
    <2>3. m - 1 \in 0..m /\ m - 1 \in 0..(m - 1) /\ (m - 1) + 1 = m
      BY <2>2
    <2>4. SubSeq(b, 1, m - 1) \in Seq(Chars) /\ b = Append(SubSeq(b, 1, m - 1), b[m])
      BY <2>3, Upto
    <2> QED
      BY <2>2, <2>4 DEF Front
  <1> HIDE DEF last, before
  <1>6. SameSoFar(Append(a, c), Append(b, c))
    BY SameGrows
  <1>7. ASSUME c \notin WordChars, last \in {"space", "newline"}
        PROVE  SameSoFar(Append(a, c), b)
    BY <1>1, <1>3, <1>7, SameGrows
  <1>8. ASSUME c \notin WordChars, NEW d \in Chars \ WordChars
        PROVE  SameSoFar(Append(a, c), Append(b, d))
    BY <1>8, SameGrows
  <1>9. ASSUME c \notin WordChars, last = "space"
        PROVE  SameSoFar(Append(a, c), Append(Front(b), "newline"))
    <2>1. Front(b) \in Seq(Chars) /\ b = Append(Front(b), "space")
      BY <1>5, <1>9
    <2> DEFINE s == Front(b)
    <2> HIDE DEF s
    <2>2. Words(b) = Words(s) /\ Words(Append(s, "newline")) = Words(s)
          /\ ~Ends(Append(s, "newline"), WordChars) /\ ~Ends(b, WordChars)
      <3>1. s \in Seq(Chars) /\ b = Append(s, "space")
        BY <2>1 DEF s
      <3>2. \A d \in Chars \ WordChars :
               RunsInOrder(Append(s, d), WordChars) = RunsInOrder(s, WordChars)
               /\ ~Ends(Append(s, d), WordChars)
        BY <3>1, WordsGrow, EndsAppended DEF Extended
      <3> QED
        BY <1>1, <3>1, <3>2 DEF Words
    <2>3. SameSoFar(Append(a, c), b)
      BY <1>7, <1>9
    <2> QED
      BY <2>2, <2>3 DEF SameSoFar, s
  <1>10. CASE Gap(c)
    <2>1. Spaced(b, c) = IF last \in {"space", "newline"} THEN b ELSE Append(b, "space")
      BY <1>2, <1>4, <1>10
    <2> QED
      BY <1>1, <1>2, <1>7, <1>8, <1>10, <2>1
  <1>11. CASE c = "newline" /\ last = "space"
    <2>1. Spaced(b, c) = Append(Front(b), "newline")
      BY <1>2, <1>4, <1>11
    <2> QED
      BY <1>1, <1>9, <1>11, <2>1
  <1>12. CASE c = "newline" /\ last = "newline"
    <2>1. Spaced(b, c) = IF before = "newline" THEN b ELSE Append(b, "newline")
      BY <1>2, <1>4, <1>12
    <2> QED
      BY <1>1, <1>7, <1>8, <1>12, <2>1
  <1>13. CASE ~Gap(c) /\ ~(c = "newline" /\ last = "space") /\ ~(c = "newline" /\ last = "newline")
    <2>1. Spaced(b, c) = Append(b, c)
      BY <1>4, <1>13
    <2> QED
      BY <1>6, <2>1
  <1> QED
    BY <1>10, <1>11, <1>12, <1>13

(* So the words are those of the text.                                       *)
LEMMA SpacedWords ==
    ASSUME NEW text \in Seq(Chars)
    PROVE  /\ FoldLeft(Spaced, <<>>, text) \in Seq(Chars)
           /\ Words(FoldLeft(Spaced, <<>>, text)) = Words(text)
  <1> DEFINE n == Len(text)
             Until(k) == SubSeq(text, 1, k)
  <1>1. n \in Nat /\ \A k \in 1..n : text[k] \in Chars
    BY FunOfSeq
  <1>2. PICK f : /\ f[0] = <<>> /\ f \in [0..n -> Seq(Chars)]
                 /\ \A k \in 1..n : f[k] = Spaced(f[k - 1], text[k])
                 /\ FoldLeft(Spaced, <<>>, text) = f[n]
    BY SpacedRuns
  <1>3. /\ Until(0) = <<>> /\ Until(n) = text
        /\ \A k \in 0..n : Until(k) \in Seq(Chars)
        /\ \A k \in 0..(n - 1) : Until(k + 1) = Append(Until(k), text[k + 1])
    BY Upto
  <1> HIDE DEF Until
  <1> DEFINE I == {k \in 0..n : SameSoFar(Until(k), f[k])}
  <1>4. 0 \in I
    BY <1>1, <1>2, <1>3 DEF SameSoFar
  <1>5. ASSUME NEW k \in 0..(n - 1), k \in I PROVE k + 1 \in I
    <2>1. k + 1 \in 1..n /\ k + 1 \in 0..n /\ (k + 1) - 1 = k /\ k \in 0..n
      BY <1>1
    <2>2. Until(k) \in Seq(Chars) /\ f[k] \in Seq(Chars) /\ text[k + 1] \in Chars
          /\ SameSoFar(Until(k), f[k])
      BY <1>1, <1>2, <1>3, <1>5, <2>1
    <2>3. SameSoFar(Append(Until(k), text[k + 1]), Spaced(f[k], text[k + 1]))
      BY <2>2, SpacedStep
    <2>4. f[k + 1] = Spaced(f[k], text[k + 1])
      BY <1>2, <2>1
    <2> QED
      BY <1>3, <2>1, <2>3, <2>4
  <1>6. n \in I /\ n \in 0..n
    <2> HIDE DEF I, n
    <2>1. \A k \in 0..n : k \in I
      BY <1>1, <1>4, <1>5, CountingUp
    <2> QED
      BY <1>1, <2>1
  <1> QED
    BY <1>2, <1>3, <1>6 DEF SameSoFar

(* Blanks at the end are no words.                                           *)
LEMMA TrimmedWords ==
    ASSUME NEW text \in Seq(Chars)
    PROVE  TrimmedEnd(text) \in Seq(Chars) /\ Words(TrimmedEnd(text)) = Words(text)
  <1> DEFINE n == Len(text)
             Until(k) == SubSeq(text, 1, k)
  <1>1. n \in Nat /\ \A k \in 1..n : text[k] \in Chars
    BY FunOfSeq
  <1>2. PICK j \in 0..n : /\ TrimmedEnd(text) = Until(j) /\ TrimmedEnd(text) \in Seq(Chars)
                          /\ \A k \in (j + 1)..n : text[k] \in White
    BY TrimmedIs
  <1>3. /\ Until(n) = text
        /\ \A k \in 0..n : Until(k) \in Seq(Chars)
        /\ \A k \in 0..(n - 1) : Until(k + 1) = Append(Until(k), text[k + 1])
    BY Upto
  <1> HIDE DEF Until
  <1> DEFINE m == n - j
             I == {k \in 0..m : Words(Until(j + k)) = Words(Until(j))}
  <1>4. m \in Nat /\ j + m = n /\ j + 0 = j
    BY <1>1
  <1>5. 0 \in I
    BY <1>4
  <1>6. ASSUME NEW k \in 0..(m - 1), k \in I PROVE k + 1 \in I
    <2>1. k + 1 \in 0..m /\ j + k \in 0..(n - 1) /\ j + k \in 0..n
          /\ j + (k + 1) = (j + k) + 1 /\ (j + k) + 1 \in (j + 1)..n /\ (j + k) + 1 \in 1..n
      BY <1>1, <1>4
    <2> DEFINE i == j + k
               c == text[i + 1]
               s == Until(i)
    <2>2. s \in Seq(Chars) /\ c \in Chars /\ c \in White /\ Words(s) = Words(Until(j))
          /\ Until(i + 1) = Append(s, c)
      BY <1>1, <1>2, <1>3, <1>6, <2>1
    <2> HIDE DEF i, c, s
    <2>3. c \notin WordChars
      BY <2>2 DEF White, WordChars, Letters, Stripped
    <2>4. Words(Append(s, c)) = Words(s)
      BY <2>2, <2>3, WordsGrow DEF Words, Extended
    <2> QED
      BY <2>1, <2>2, <2>4 DEF i
  <1>7. m \in I /\ m \in 0..m
    <2> HIDE DEF I, m
    <2>1. \A k \in 0..m : k \in I
      BY <1>4, <1>5, <1>6, CountingUp
    <2> QED
      BY <1>4, <2>1
  <1> QED
    BY <1>2, <1>3, <1>4, <1>7

(* Plain text has the words of its mark-up.                                  *)
LEMMA PlainWords ==
    ASSUME NEW body \in Seq(Chars)
    PROVE  /\ HtmlToText(body) \in Seq(Chars)
           /\ Words(HtmlToText(body)) = Words(Without(body, {"inline"}))
  BY UntaggedWords, SpacedWords, TrimmedWords DEF HtmlToText

-----------------------------------------------------------------------------
(* What the passages have.                                                   *)

(* The forms of the text of a page agree.                                    *)
LEMMA FormsOfBody ==
    ASSUME NEW body \in Seq(Chars)
    PROVE  LET text == HtmlToText(body)
               src == NFC(text)
               form == NormalisedWithMap(text)
               places == ToSet(form.map)
           IN  /\ Words(text) = Words(Without(body, {"inline"}))
               /\ form.text = Normalised(text)
               /\ "acute" \notin ToSet(src) => Normalised(form.text) = form.text
               /\ \A k \in DOMAIN form.text :
                     form.text[k] \in {"space", Folded(src[form.map[k]])}
               /\ \A p \in (DOMAIN src) \ places : src[p] \in White \cup Stripped
  <1> DEFINE text == HtmlToText(body)
             src == NFC(text)
             form == NormalisedWithMap(text)
             n == Len(src)
  <1>1. text \in Seq(Chars) /\ Words(text) = Words(Without(body, {"inline"}))
    BY PlainWords
  <1> HIDE DEF text
  <1>2. form.text = Normalised(text)
    BY <1>1, FormsMeet
  <1>3. "acute" \notin ToSet(src) => Normalised(form.text) = form.text
    BY <1>1, NormalisedTwice
  <1>4. src \in Seq(Chars) /\ form \in Progress(n) /\ WellMapped(src, n, form)
    BY <1>1, FormIs
  <1> HIDE DEF src, form
  <1>5. /\ DOMAIN src = 1..n /\ DOMAIN form.text = 1..Len(form.text)
        /\ DOMAIN form.map = 1..Len(form.map)
    BY <1>4 DEF Progress
  <1>6. ASSUME NEW k \in DOMAIN form.text
        PROVE  form.text[k] \in {"space", Folded(src[form.map[k]])}
    BY <1>4, <1>5 DEF WellMapped, Places
  <1>7. ASSUME NEW p \in (DOMAIN src) \ ToSet(form.map) PROVE src[p] \in White \cup Stripped
    <2>1. p \in 1..n /\ \A k \in 1..Len(form.map) : form.map[k] # p
      BY <1>5 DEF ToSet
    <2> QED
      BY <1>4, <2>1 DEF WellMapped, Passed
  <1> QED
    BY <1>1, <1>2, <1>3, <1>6, <1>7 DEF text, src, form

(* Where words are found in a text.                                          *)
LEMMA AtIs ==
    ASSUME NEW text \in Seq(Chars), NEW words
    PROVE  /\ At(text, words) \in 0..Len(text)
           /\ \A k \in 1..Len(text) :
                 k + Len(words) - 1 <= Len(text) /\ SubSeq(text, k, k + Len(words) - 1) = words
                    => At(text, words) # 0
  <1> DEFINE n == Len(text)
             ids == [k \in DOMAIN text |-> k]
             Here(k) == /\ k + Len(words) - 1 <= Len(text)
                        /\ SubSeq(text, k, k + Len(words) - 1) = words
             I == {i \in 1..n : Here(i)}
  <1>1. n \in Nat /\ DOMAIN text = 1..n
    BY FunOfSeq
  <1>2. Len(ids) = n /\ \A i \in 1..n : ids[i] = i
    <2>1. ids = [k \in 1..n |-> k]
      BY <1>1
    <2> HIDE DEF n
    <2> QED
      BY <1>1, <2>1
  <1> HIDE DEF ids
  <1>3. At(text, words) = IF I # {} THEN Min(I) ELSE 0
    <2>1. {i \in 1..Len(ids) : Here(ids[i])} = I
      <3> HIDE DEF Here, n
      <3> QED
        BY <1>2
    <2>2. At(text, words) = IF {i \in 1..Len(ids) : Here(ids[i])} # {}
                            THEN Min({i \in 1..Len(ids) : Here(ids[i])}) ELSE 0
      BY DEF At, SelectInSeq, ids
    <2> QED
      BY <2>1, <2>2
  <1> HIDE DEF Here
  <1>4. I \subseteq 1..n /\ I \subseteq Nat
    BY <1>1
  <1>5. I # {} => Min(I) \in 1..n
    <2> HIDE DEF I
    <2> QED
      BY <1>4, LeastOf
  <1>6. \A k \in 1..n : Here(k) => I # {}
    OBVIOUS
  <1> HIDE DEF I
  <1>7. \A k \in 1..n : Here(k) => At(text, words) # 0
    BY <1>1, <1>3, <1>5, <1>6
  <1>8. At(text, words) \in 0..n
    BY <1>1, <1>3, <1>5
  <1> QED
    BY <1>7, <1>8 DEF Here

(* The match is a place of the text, or none.                                *)
LEMMA FirstMatchIs ==
    ASSUME NEW query, NEW text \in Seq(Chars)
    PROVE  FirstMatch(query, text) \in 0..Len(text)
  <1> DEFINE n == Len(text)
             phrase == IF query.mode = "phrase" THEN At(text, Phrase(query.terms)) ELSE 0
             places == {At(text, t) : t \in TermsIn(query, text)}
  <1>1. n \in Nat /\ phrase \in 0..n
    BY AtIs
  <1>2. places \subseteq 0..n /\ places \subseteq Nat
    <2>1. \A t : At(text, t) \in 0..n
      BY AtIs
    <2> QED
      BY <1>1, <2>1
  <1>3. FirstMatch(query, text) = CASE phrase # 0 -> phrase
          [] phrase = 0 /\ places # {} -> CHOOSE m \in places : \A k \in places : m <= k
          [] OTHER -> 0
    BY DEF FirstMatch
  <1> HIDE DEF phrase, places
  <1>4. ASSUME places # {} PROVE (CHOOSE m \in places : \A k \in places : m <= k) \in 0..n
    <2>1. Min(places) \in places
      BY <1>2, <1>4, LeastOf
    <2> QED
      BY <1>2, <2>1 DEF Min
  <1>5. CASE phrase # 0
    BY <1>1, <1>3, <1>5
  <1>6. CASE phrase = 0 /\ places # {}
    BY <1>3, <1>4, <1>6
  <1>7. CASE phrase = 0 /\ places = {}
    BY <1>1, <1>3, <1>7
  <1> QED
    BY <1>5, <1>6, <1>7

(* The window is cut where words end, around its place.                      *)
LEMMA WindowIs ==
    ASSUME NEW s \in Seq(Chars), NEW around \in Nat, around <= Len(s), NEW radius \in Nat,
           radius > 0
    PROVE  LET from == Window(s, around, radius)[1]
               to == Window(s, around, radius)[2]
           IN  /\ from \in 0..Len(s) /\ to \in 0..Len(s) /\ from <= to
               /\ from = 0 \/ s[from] \in White
               /\ to = Len(s) \/ s[to + 1] \in White
               /\ from <= around
               /\ to = Len(s) \/ around < to
  <1> DEFINE n == Len(s)
             start == IF around > radius THEN around - radius ELSE 0
             end == IF around + radius < n THEN around + radius ELSE n
             starts == {m \in 0..start : m = 0 \/ s[m] \in White}
             ends == {m \in end..n : m = n \/ s[m + 1] \in White}
             first == CHOOSE m \in starts : \A k \in starts : k <= m
             last == CHOOSE m \in ends : \A k \in ends : m <= k
  <1>1. n \in Nat
    BY FunOfSeq
  <1>2. Window(s, around, radius) = IF n <= 2 * radius THEN <<0, n>> ELSE <<first, last>>
    BY DEF Window
  <1> HIDE DEF n
  <1>3. start \in Nat /\ start <= around /\ start <= n
    BY <1>1 DEF n
  <1>4. end \in Nat /\ end <= n /\ around <= end /\ (end = n \/ around < end)
    BY <1>1 DEF n
  <1> HIDE DEF start, end
  <1>5. first \in starts
    <2> DEFINE M == {m + 1 : m \in starts}
    <2>1. starts \subseteq 0..start /\ 0 \in starts
      BY <1>3
    <2> HIDE DEF starts
    <2>2. M \subseteq 1..(start + 1) /\ M # {} /\ start + 1 \in Nat
      <3>1. \A m \in 0..start : m + 1 \in 1..(start + 1)
        BY <1>3
      <3>2. start + 1 \in Nat
        BY <1>3
      <3> QED
        BY <2>1, <3>1, <3>2
    <2>3. Max(M) \in M /\ \A k \in M : k <= Max(M)
      <3> HIDE DEF M
      <3> QED
        BY <2>2, GreatestOf
    <2>4. PICK m \in starts : Max(M) = m + 1
      BY <2>3
    <2>5. \A k \in starts : k <= m
      <3> TAKE k \in starts
      <3>1. k + 1 \in M
        OBVIOUS
      <3>2. k + 1 <= m + 1
        BY <2>3, <2>4, <3>1
      <3>3. k \in Int /\ m \in Int
        BY <2>1
      <3> QED
        BY <3>2, <3>3
    <2> QED
      BY <2>5
  <1>6. last \in ends
    <2>1. ends \subseteq Nat /\ n \in ends
      BY <1>1, <1>4
    <2> HIDE DEF ends
    <2>2. Min(ends) \in ends
      BY <2>1, LeastOf
    <2> QED
      BY <2>2 DEF Min
  <1> HIDE DEF first, last
  <1>7. /\ first \in 0..n /\ first <= around /\ (first = 0 \/ s[first] \in White)
    <2>1. first \in 0..start /\ (first = 0 \/ s[first] \in White)
      BY <1>5
    <2> QED
      BY <1>1, <1>3, <2>1
  <1>8. /\ last \in 0..n /\ around <= last /\ (last = n \/ s[last + 1] \in White)
        /\ last = n \/ around < last
    <2>1. last \in end..n /\ (last = n \/ s[last + 1] \in White)
      BY <1>6
    <2> QED
      BY <1>1, <1>4, <2>1
  <1> DEFINE cut == Window(s, around, radius)
  <1>9. CASE n <= 2 * radius
    <2>1. cut[1] = 0 /\ cut[2] = n
      BY <1>2, <1>9
    <2> HIDE DEF cut
    <2>2. 0 \in 0..n /\ n \in 0..n /\ 0 <= n /\ 0 <= around
      BY <1>1
    <2> QED
      BY <2>1, <2>2 DEF n, cut
  <1>10. CASE ~(n <= 2 * radius)
    <2>1. cut[1] = first /\ cut[2] = last
      BY <1>2, <1>10
    <2> HIDE DEF cut
    <2>2. first <= last
      BY <1>1, <1>7, <1>8
    <2> QED
      BY <1>7, <1>8, <2>1, <2>2 DEF n, cut
  <1> QED
    BY <1>9, <1>10

(* A word of a text is found in it, also without its alef.                   *)
LEMMA WordFound ==
    ASSUME NEW text \in Seq(Chars), NEW term \in ToSet(Tokenize(text))
    PROVE  At(text, term) # 0
  <1> DEFINE words == RunsInOrder(text, Letters)
             n == Len(text)
  <1>1. /\ words \in Seq(Seq(Chars))
        /\ ToSet(words) = {SubSeq(text, r[1], r[2]) : r \in Runs(text, Letters)}
        /\ Runs(text, Letters) = {r \in (1..n) \X (1..n) : IsRun(text, Letters, r[1], r[2])}
    BY WordsCut, RunsAre
  <1>2. Tokenize(text) = [k \in DOMAIN words |-> FoldToken(words[k])]
    BY DEF Tokenize
  <1> HIDE DEF words
  <1>3. PICK k \in DOMAIN words : term = FoldToken(words[k])
    BY <1>2 DEF ToSet
  <1>4. PICK r \in Runs(text, Letters) : words[k] = SubSeq(text, r[1], r[2])
    <2>1. words[k] \in ToSet(words)
      BY <1>3 DEF ToSet
    <2> QED
      BY <1>1, <2>1
  <1> DEFINE a == r[1]
             b == r[2]
             word == SubSeq(text, a, b)
  <1>5. n \in Nat /\ a \in 1..n /\ b \in 1..n /\ a <= b
    <2>1. IsRun(text, Letters, a, b) /\ n \in Nat
      BY <1>1, FunOfSeq
    <2> QED
      BY <2>1 DEF IsRun
  <1> HIDE DEF a, b
  <1>6. Len(word) = b - a + 1 /\ \A i \in 1..(b - a + 1) : word[i] = text[a + i - 1]
    BY <1>5
  <1>7. words[k] = word
    BY <1>4 DEF a, b
  <1>8. CASE word # <<"alef", "beh", "noon">>
    <2>1. term = word
      BY <1>3, <1>7, <1>8 DEF FoldToken
    <2>2. a + Len(word) - 1 = b /\ b <= n
      BY <1>5, <1>6
    <2> QED
      BY <1>5, <2>1, <2>2, AtIs
  <1>9. CASE word = <<"alef", "beh", "noon">>
    <2>1. term = <<"beh", "noon">>
      BY <1>3, <1>7, <1>9 DEF FoldToken
    <2>2. Len(word) = 3 /\ word[2] = "beh" /\ word[3] = "noon"
      BY <1>9
    <2> HIDE DEF word
    <2>3. b = a + 2 /\ a + 1 \in 1..n /\ 2 \in 1..(b - a + 1) /\ 3 \in 1..(b - a + 1)
      <3>1. a \in Nat /\ b \in Nat /\ a > 0 /\ b <= n
        BY <1>5
      <3>2. b - a + 1 = 3
        BY <1>6, <2>2
      <3>3. b = a + 2
        BY <3>1, <3>2
      <3>4. a + 1 \in 1..n
        BY <1>5, <3>1, <3>3
      <3> QED
        BY <3>2, <3>3, <3>4
    <2>4. text[a + 1] = "beh" /\ text[a + 2] = "noon"
      <3>1. word[2] = text[a + 2 - 1] /\ word[3] = text[a + 3 - 1] /\ a + 2 - 1 = a + 1
            /\ a + 3 - 1 = a + 2
        BY <1>5, <1>6, <2>3
      <3> QED
        BY <2>2, <3>1
    <2>5. SubSeq(text, a + 1, a + 2) = <<"beh", "noon">>
      <3>1. a \in Nat /\ (a + 2) - (a + 1) + 1 = 2 /\ a + 1 + 1 - 1 = a + 1 /\ a + 1 + 2 - 1 = a + 2
        <4>1. a \in Nat
          BY <1>5
        <4> QED
          BY ONLY <4>1
      <3>2. SubSeq(text, a + 1, a + 2) = [i \in 1..2 |-> text[(a + 1) + i - 1]]
        BY <3>1
      <3>3. \A i \in 1..2 : text[(a + 1) + i - 1] = <<"beh", "noon">>[i]
        <4>1. \A i \in 1..2 : i = 1 \/ i = 2
          OBVIOUS
        <4> QED
          BY <2>4, <3>1, <4>1
      <3>4. <<"beh", "noon">> = [i \in 1..2 |-> <<"beh", "noon">>[i]]
        OBVIOUS
      <3> QED
        BY <3>2, <3>3, <3>4
    <2>6. Len(term) = 2 /\ (a + 1) + 2 - 1 = a + 2 /\ a + 2 <= n
      BY <1>5, <2>1, <2>3
    <2> QED
      BY <2>1, <2>3, <2>5, <2>6, AtIs
  <1> QED
    BY <1>8, <1>9

(* What a quotation says of its text.                                        *)
QuoteOf(query, text) ==
    LET quote == Quote(query, text)
        src == NFC(text)
        from == quote.cut[1]
        to == quote.cut[2]
        word == {r \in Runs(src, Letters \cup Stripped) :
                    r[1] <= quote.around + 1 /\ quote.around + 1 <= r[2]}
    IN  /\ from = 0 \/ src[from] \in White
        /\ to = Len(src) \/ src[to + 1] \in White
        /\ from <= to
        /\ \A r \in word : from < r[1] /\ r[2] <= to
        /\ ToSet(query.terms) \cap ToSet(Tokenize(Normalised(text)))
              \subseteq quote.reason.found

(* It holds of every text.                                                   *)
LEMMA QuoteHolds ==
    ASSUME NEW text \in Seq(Chars), NEW query, PassagesAssumption
    PROVE  QuoteOf(query, text)
  <1> DEFINE src == NFC(text)
             form == NormalisedWithMap(text)
             n == Len(src)
             match == FirstMatch(query, form.text)
             around == IF match = 0 THEN 0 ELSE form.map[match] - 1
             cut == Window(src, around, Radius)
             kind == Letters \cup Stripped
             quote == Quote(query, text)
  <1>1. src \in Seq(Chars) /\ n \in Nat /\ form \in Progress(n) /\ WellMapped(src, n, form)
        /\ form.text = Normalised(text)
    <2>1. src \in Seq(Chars) /\ form \in Progress(n) /\ WellMapped(src, n, form)
      BY FormIs
    <2>2. form.text = Normalised(text)
      BY FormsMeet
    <2> HIDE DEF src, form
    <2> QED
      BY <2>1, <2>2, FunOfSeq
  <1>2. /\ quote.around = around /\ quote.cut = cut
        /\ quote.reason.found = TermsIn(query, form.text)
    BY DEF Quote, Reason
  <1> HIDE DEF quote, src, form
  <1>3. /\ form.text \in Seq(Chars) /\ form.map \in Seq(1..n) /\ Len(form.map) = Len(form.text)
    BY <1>1 DEF Progress, WellMapped, Places
  <1>4. around \in Nat /\ around <= n
    <2>1. match \in 0..Len(form.text) /\ Len(form.text) \in Nat
      BY <1>3, FirstMatchIs, FunOfSeq
    <2>2. ASSUME match # 0 PROVE form.map[match] \in 1..n
      <3>1. match \in 1..Len(form.map)
        BY <1>3, <2>1, <2>2
      <3> HIDE DEF match
      <3> QED
        BY <1>3, <3>1, FunOfSeq
    <2> HIDE DEF match
    <2> QED
      BY <1>1, <2>2
  <1>5. Radius \in Nat /\ Radius > 0
    BY DEF PassagesAssumption
  <1> HIDE DEF around
  <1> DEFINE from == cut[1]
             to == cut[2]
  <1>6. /\ from \in 0..n /\ to \in 0..n /\ from <= to
        /\ from = 0 \/ src[from] \in White
        /\ to = n \/ src[to + 1] \in White
        /\ from <= around
        /\ to = n \/ around < to
    BY <1>1, <1>4, <1>5, WindowIs
  <1> HIDE DEF cut, from, to
  <1>7. ASSUME NEW r \in Runs(src, kind), r[1] <= around + 1, around + 1 <= r[2]
        PROVE  from < r[1] /\ r[2] <= to
    <2> DEFINE a == r[1]
               b == r[2]
    <2>1. IsRun(src, kind, a, b)
      BY <1>1, RunsAre
    <2>2. a \in 1..n /\ b \in 1..n /\ \A k \in a..b : src[k] \in kind
      BY <2>1 DEF IsRun
    <2>3. a <= around + 1 /\ around + 1 <= b
      BY <1>7
    <2>4. \A k \in a..b : src[k] \notin White
      BY <2>2 DEF White, Letters, Stripped
    <2> HIDE DEF a, b, n
    <2>5. from < a
      <3> SUFFICES ASSUME a <= from PROVE FALSE
        BY <1>6, <2>2
      <3>1. from \in a..b /\ from # 0
        BY <1>1, <1>4, <1>6, <2>2, <2>3
      <3> QED
        BY <1>6, <2>4, <3>1
    <2>6. b <= to
      <3> SUFFICES ASSUME to < b PROVE FALSE
        BY <1>6, <2>2
      <3>1. to # n /\ to + 1 \in a..b
        BY <1>1, <1>4, <1>6, <2>2, <2>3
      <3> QED
        BY <1>6, <2>4, <3>1
    <2> QED
      BY <2>5, <2>6 DEF a, b
  <1>8. ASSUME NEW t \in ToSet(query.terms), t \in ToSet(Tokenize(Normalised(text)))
        PROVE  t \in TermsIn(query, form.text)
    BY <1>1, <1>3, <1>8, WordFound DEF TermsIn
  <1> QED
    BY <1>2, <1>6, <1>7, <1>8 DEF QuoteOf, quote, src, from, to

-----------------------------------------------------------------------------
(* The invariant with the texts, and the properties.                         *)

(* What is quoted, and from what.                                            *)
Texts ==
    \A n \in DOMAIN out :
        /\ out[n].text \in {<<>>, HtmlToText(case.body)}
        /\ case.operation = "batch"
             => out[n].quote = Quote(Query(case.query, case.mode), out[n].text)

(* The inductive invariant with the texts.                                   *)
PassagesTextsInv == PassagesInv /\ Texts

(* A passage quotes its own text,                                            *)
LEMMA BuildKeepsTexts == ASSUME PassagesInv, Texts, Build PROVE Texts'
  <1> DEFINE page == case.hits[hit]
             wanted == IF case.operation = "batch" \/ case.text THEN {page} ELSE {}
             ids == TrailIds(reader.toc, page)
             Text(ok) == TextOf(Looked(source.pages, wanted, case.held, ok))
             TocOf(ok) == Filled(reader.toc, Trail(reader.toc, page),
                                 Looked(source.titles, ids, case.titles, ok))
             PathOf(ok) == Path(TocOf(ok), Trail(TocOf(ok), page))
             Quotes(text) == IF case.operation = "batch"
                             THEN Quote(Query(case.query, case.mode), text) ELSE NoQuote
             Item(a, b) ==
                [page |-> page, path |-> PathOf(b), lost |-> ~b, text |-> Text(a),
                 caveats |-> Caveats(reader.profile, PathOf(b)), quote |-> Quotes(Text(a))]
  <1>1. PICK a \in Outcomes(source.pages, wanted), b \in Outcomes(source.titles, ids) :
            out' = Append(out, Item(a, b))
    BY DEF Build, Page
  <1>2. case' = case
    BY DEF Build
  <1>3. \A ok : Text(ok) \in {<<>>, HtmlToText(case.body)}
    BY DEF TextOf
  <1> DEFINE n == Len(out)
             new == out'[n + 1]
             text == new.text
  <1>4. /\ DOMAIN out = 1..n /\ DOMAIN out' = 1..(n + 1)
        /\ \A k \in 1..n : out'[k] = out[k]
        /\ \A k \in 1..(n + 1) : k \in 1..n \/ k = n + 1
        /\ text \in {<<>>, HtmlToText(case.body)} /\ new.quote = Quotes(text)
    <2> DEFINE x == Item(a, b)
    <2> HIDE DEF page, PathOf, Text, Quotes
    <2>2. x.text = Text(a) /\ x.quote = Quotes(Text(a))
      OBVIOUS
    <2> HIDE DEF x
    <2>3. out' = Append(out, x) /\ Listed(out)
      BY <1>1 DEF x, PassagesInv
    <2> QED
      BY <1>3, <2>2, <2>3, ListedGrows
  <1> HIDE DEF n, new
  <1>5. ASSUME NEW k \in DOMAIN out'
        PROVE  /\ out'[k].text \in {<<>>, HtmlToText(case'.body)}
               /\ case'.operation = "batch" =>
                     out'[k].quote = Quote(Query(case'.query, case'.mode), out'[k].text)
    <2>1. CASE k \in 1..n
      <3>1. out'[k] = out[k] /\ k \in DOMAIN out
        BY <1>4, <2>1
      <3> QED
        BY <1>2, <3>1 DEF Texts
    <2>2. CASE k = n + 1
      <3>1. out'[k] = new
        BY <2>2 DEF new
      <3> QED
        BY <1>2, <1>4, <3>1
    <2> QED
      BY <1>4, <1>5, <2>1, <2>2
  <1> QED
    BY <1>5 DEF Texts

(* and is never changed.                                                     *)
LEMMA OthersKeepTexts == ASSUME Texts, UNCHANGED <<case, out>> PROVE Texts'
  BY DEF Texts

(* The invariant holds of all behaviours.                                    *)
LEMMA TextsAlways == Spec => []PassagesTextsInv
  <1>1. Init => PassagesTextsInv
    BY InvInit DEF PassagesTextsInv, Init, Texts
  <1>2. ASSUME PassagesTextsInv, [Next]_vars PROVE PassagesTextsInv'
    <2>1. PassagesInv /\ Texts /\ PassagesInv'
      BY <1>2, NextKeeps DEF PassagesTextsInv
    <2>2. CASE Build
      BY <2>1, <2>2, BuildKeepsTexts DEF PassagesTextsInv
    <2>3. CASE ~Build
      <3>1. UNCHANGED <<case, out>>
        BY <1>2, <2>3 DEF Next, vars, WarmPages, Open, OpenFails, WarmTitles, Skip, Finish
      <3> QED
        BY <2>1, <3>1, OthersKeepTexts DEF PassagesTextsInv
    <2> QED
      BY <2>2, <2>3
  <1> QED
    BY <1>1, <1>2, PTL DEF Spec

(* What the cache has is held by the index, what it remembers as missing is  *)
(* not, and the passages are of the hits the book has a page for, in the     *)
(* order of the hits (luceneText.ts 83-168, batched by passage.ts 111-123).  *)
THEOREM PassagesTyped == Spec => []TypeOK
  <1>1. PassagesTextsInv => TypeOK
    BY DEF PassagesTextsInv, PassagesInv
  <1> QED
    BY <1>1, TextsAlways, PTL

(* The path of a passage is the headings its page is under, in order; one is *)
(* left out only if nobody has words for it or the request for them failed,  *)
(* and after a warming that succeeded nothing is asked for again             *)
(* (bookRepo.ts 190-252, luceneText.ts 83-168, passage.ts 111-123).          *)
THEOREM PathsByRule == Spec => []PathByRule
  <1>1. PassagesTextsInv => PathByRule
    BY DEF PassagesTextsInv, PassagesInv
  <1> QED
    BY <1>1, TextsAlways, PTL

(* Whatever the mark-up of a page, its plain text has the same words; the    *)
(* form that is mapped is the form queries are put in; its map leads to the  *)
(* character each of its own stands for, with nothing but marks and blanks   *)
(* passed over; and it is its own normal form (html.ts 45-49; normalize.ts   *)
(* 86-89, 126-151).                                                          *)
THEOREM FormsAlwaysAgree == Spec => []FormsAgree
  <1>1. ASSUME PassagesTextsInv PROVE FormsAgree
    <2>1. case.body \in Seq(Chars)
      BY <1>1, CaseFacts DEF PassagesTextsInv, PassagesInv
    <2>2. ASSUME NEW n \in DOMAIN out PROVE out[n].text \in {<<>>, HtmlToText(case.body)}
      BY <1>1 DEF PassagesTextsInv, Texts
    <2> QED
      BY <2>1, <2>2, FormsOfBody DEF FormsAgree
  <1> QED
    BY <1>1, TextsAlways, PTL

(* Whatever the page, the query and the radius, an excerpt is cut between    *)
(* words and has the word that matched, and no term that is a word of the    *)
(* page is told as not found (html.ts 66-70, passage.ts 179-185, query.ts    *)
(* 79-108, normalize.ts 103-110).                                            *)
THEOREM QuotesWhole == Spec => []QuoteWhole
  <1>1. ASSUME PassagesTextsInv PROVE QuoteWhole
    <2> SUFFICES ASSUME case.operation = "batch", NEW n \in DOMAIN out
                 PROVE  /\ out[n].quote = Quote(Query(case.query, case.mode), out[n].text)
                        /\ QuoteOf(Query(case.query, case.mode), out[n].text)
      BY DEF QuoteWhole, QuoteOf
    <2>1. case \in Cases /\ case.body \in Seq(Chars)
      BY <1>1, CaseFacts DEF PassagesTextsInv, PassagesInv
    <2>2. /\ out[n].text \in {<<>>, HtmlToText(case.body)}
          /\ out[n].quote = Quote(Query(case.query, case.mode), out[n].text)
      BY <1>1 DEF PassagesTextsInv, Texts
    <2>3. out[n].text \in Seq(Chars)
      <3>1. HtmlToText(case.body) \in Seq(Chars) /\ <<>> \in Seq(Chars)
        BY <2>1, PlainWords
      <3> QED
        BY <2>2, <3>1
    <2>4. QuoteOf(Query(case.query, case.mode), out[n].text)
      BY <2>3, PassagesAssumption, QuoteHolds
    <2> QED
      BY <2>2, <2>4
  <1> QED
    BY <1>1, TextsAlways, PTL
=============================================================================
