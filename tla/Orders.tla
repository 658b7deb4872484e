------------------------------- MODULE Orders -------------------------------
(* Finite sets in order, in a form that can be reasoned about: the sorting   *)
(* of the community modules rests on a Java override. An order is a set of   *)
(* pairs, the first of which comes before the second.                        *)
EXTENDS Integers, FiniteSets

(* How many members of S come before x. *)
Rank(R, S, x) == Cardinality({y \in S : <<y, x>> \in R})

(* The members of S from the first to the last. *)
Ordered(R, S) == [n \in 1..Cardinality(S) |-> CHOOSE x \in S : Rank(R, S, x) = n - 1]

(* The first n members of S, and the last one. *)
Top(R, n, S) == {x \in S : Rank(R, S, x) < n}
Latest(R, S) == CHOOSE x \in S : \A y \in S : <<x, y>> \notin R

(* Numbers by their size. *)
Less(S) == {p \in S \X S : p[1] < p[2]}
Ascending(S) == Ordered(Less(S), S)

(* What a sequence has at the places I, and its members that are in S. *)
Picked(s, I) == LET at == Ascending(I) IN [n \in DOMAIN at |-> s[at[n]]]
Only(s, S) == Picked(s, {n \in DOMAIN s : s[n] \in S})
=============================================================================
