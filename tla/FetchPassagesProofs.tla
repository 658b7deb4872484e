------------------------- MODULE FetchPassagesProofs -------------------------
(***************************************************************************)
(* What is promised of fiqh4_fetch_passages for any catalogues, books,      *)
(* documents and requests and any bounds of the cache. The invariant IInv   *)
(* says how far the loop of a call has come and what it has dealt with      *)
(* (LoopOf), what the batches before it gave together (AnswerInv), and that *)
(* what is left of the window that was fetched ahead is cached or known to  *)
(* be missing (CacheInv): a fetch trims the oldest of the cache, and what   *)
(* the window wants is the newest. Lists are put in order by rank           *)
(* (OrdersProofs).                                                          *)
(***************************************************************************)
EXTENDS FetchPassages, OrdersProofs, SequenceTheorems, TLAPS

(* Types. *)
KeySet == Books \X Nat
Entries == Seq([book : Books, ids : SUBSET Int])
TargetLists == Seq([key : KeySet, hit : BOOLEAN])
PassageLists == Seq([key : KeySet, text : BOOLEAN])

CallType ==
    [start : Nat, from : Nat, limit : Nat \ {0}, room : Nat \ {0}, entries : Entries,
     neighbors : 0..10, targets : TargetLists, at : Nat, consumed : Nat,
     opened : [Books -> {"unknown", "open", "failed"}], passages : PassageLists,
     failed : SUBSET Books, missing : SUBSET KeySet, cold : BOOLEAN,
     again : SUBSET KeySet, trouble : BOOLEAN]

AnswerType ==
    [more : BOOLEAN, next : Nat, start : Nat, entries : Entries, neighbors : 0..10,
     targets : TargetLists, passages : PassageLists, failed : SUBSET Books,
     missing : SUBSET KeySet, given : Seq(KeySet), said : SUBSET Books,
     gone : SUBSET KeySet, same : BOOLEAN, trouble : BOOLEAN]

TypeInv ==
    /\ cat \in DOMAIN Catalogues
    /\ pc \in {"rest", "warm", "loop", "text"}
    /\ now \in CallType
    /\ pages \in Seq(KeySet) /\ missed \in Seq(KeySet)
    /\ got \in Seq(AnswerType)

(* No page is twice in the list, as far as each book is named once. *)
Once(targets) == \A i, j \in DOMAIN targets : targets[i].key = targets[j].key => i = j

AskedBy(k, entries) == \E e \in ToSet(entries) : e.book = k[1] /\ k[2] \in e.ids

(* The list has the pages around the asked ones of every book that is not    *)
(* named as unreadable, and marks only asked ones as such.                  *)
Fits(entries, neighbors, targets, failed) ==
    /\ \A e \in ToSet(entries) : e.book \notin failed => \A p \in Around(e.ids, neighbors) :
          \E i \in DOMAIN targets :
             targets[i].key = <<e.book, p>> /\ (p \in e.ids => targets[i].hit)
    /\ \A i \in DOMAIN targets : targets[i].hit => AskedBy(targets[i].key, entries)
    /\ EachBookOnce(entries) => Once(targets)

(* What is reported missing was asked for and is missing. *)
Lacks(missing, entries) ==
    \A k \in missing : k[2] \notin PagesOf[k[1]] /\ AskedBy(k, entries)

(* A target whose page the book lacks, reported if it was asked for. *)
Lost(t, missing) == t.key[2] \notin PagesOf[t.key[1]] /\ (t.hit => t.key \in missing)

GivenBy(passages) == {passages[n].key : n \in DOMAIN passages}

(* A target that gave a passage, or did not and why. *)
Dealt(t, call) ==
    \/ t.key \in GivenBy(call.passages)
    \/ call.opened[t.key[1]] = "failed" /\ t.key[1] \in call.failed
    \/ call.opened[t.key[1]] = "open" /\ Lost(t, call.missing)

(* The loop of a call: from the cursor to the last target consumed all were *)
(* dealt with, and the passages are of them, none twice. Where the loop was *)
(* cut short by the budget there is a passage already.                      *)
LoopOf(call, answers) ==
    /\ Fits(call.entries, call.neighbors, call.targets, call.failed)
    /\ Lacks(call.missing, call.entries)
    /\ call.from \in 0..Len(answers) /\ (call.from # 0 => answers[call.from].more)
    /\ call.start = IF call.from = 0 THEN 0 ELSE answers[call.from].next
    /\ call.start <= call.consumed /\ call.consumed <= call.at
    /\ call.consumed = call.at - 1 \/ (call.at > Len(call.targets) /\ call.passages # <<>>)
    /\ call.passages # <<>> => call.start < call.consumed
    /\ call.consumed # call.start => call.consumed <= Len(call.targets)
    /\ \A i \in (call.start + 1)..call.consumed : Dealt(call.targets[i], call)
    /\ \A n \in DOMAIN call.passages : \E i \in (call.start + 1)..call.consumed :
          call.passages[n].key = call.targets[i].key
    /\ \A m, n \in DOMAIN call.passages :
          call.passages[m].key = call.passages[n].key => m = n

Printed(k) == k[2] \in PagesOf[k[1]]

(* What a walk gave is of pages that the books have, and it dealt with the  *)
(* list up to its cursor, or with all of it.                                *)
Walked(g) ==
    /\ \A i \in DOMAIN g.targets : (g.more => i <= g.next) =>
          \/ g.targets[i].key \in ToSet(g.given)
          \/ g.targets[i].key[1] \in g.said
          \/ Lost(g.targets[i], g.gone)
    /\ \A n \in DOMAIN g.given : \E i \in DOMAIN g.targets :
          (g.more => i <= g.next) /\ g.given[n] = g.targets[i].key
    /\ \A n \in DOMAIN g.given : Printed(g.given[n])
    /\ Once(g.targets) => IsInjective(g.given)

(* A passage has its words unless they could not be had. *)
Worded(passages, trouble) ==
    \A n \in DOMAIN passages :
        /\ Printed(passages[n].key)
        /\ passages[n].text \/ trouble \/ passages[n].key \notin Found(<<passages[n].key>>)

AnswerInv(g) ==
    /\ g.more => g.start < g.next /\ g.next <= Len(g.targets)
    /\ Fits(g.entries, g.neighbors, g.targets, g.said)
    /\ Lacks(g.missing, g.entries)
    /\ g.same => Walked(g)
    /\ Worded(g.passages, g.trouble)

(* What is known to be missing is not in the index. *)
Unheld(keys) == \A k \in ToSet(keys) : k \notin Found(<<k>>)

(* What is left of the window is known. *)
Kept(call, s, t) ==
    \A i \in call.at..(call.start + call.limit) :
        i <= Len(call.targets) => call.targets[i].key \in ToSet(s) \cup ToSet(t)

(* Before the window's text comes, what is cached of it is newer than the   *)
(* rest of the cache: trimming spares it.                                   *)
WarmInv ==
    /\ now.at <= Len(now.targets) /\ Spared(now.targets, now.limit)
    /\ missed = <<>> /\ now.again = {} /\ now.at = now.start + 1 /\ ~now.cold /\ Len(pages) <= Cap
    /\ \A m, n \in DOMAIN pages : m < n /\ pages[m] \in ToSet(Wanted) => pages[n] \in ToSet(Wanted)

(* A page is asked for alone only beyond the window, or when the window's   *)
(* text was lost.                                                           *)
TextInv ==
    /\ now.at <= Len(now.targets) /\ ~Seen
    /\ now.opened[Book] = "open" /\ Target.key[2] \in PagesOf[Book]
    /\ Target.key \notin ToSet(pages) \cup ToSet(missed)
    /\ ~now.cold => now.at > now.start + now.limit

CacheInv ==
    /\ IsInjective(pages \o missed)
    /\ Len(pages) <= Ceiling(Len(Wanted)) /\ Len(missed) <= MissCap
    /\ Unheld(missed)
    /\ pc = "warm" => WarmInv
    /\ pc \in {"loop", "text"} /\ ~now.cold =>
         Kept(now, pages, missed) /\ now.again \cap ToSet(Wanted) = {}
    /\ pc = "text" => TextInv
    /\ Worded(now.passages, now.trouble)

IInv ==
    /\ TypeInv
    /\ pc = "rest" => now = NoCall /\ pages = <<>> /\ missed = <<>>
    /\ pc # "rest" => LoopOf(now, got)
    /\ CacheInv
    /\ \A c \in DOMAIN got : AnswerInv(got[c])

-----------------------------------------------------------------------------
(* Sequences.                                                               *)
LEMMA SeqOfFun ==
    ASSUME NEW T, NEW n \in Nat, NEW s \in [1..n -> T]
    PROVE  s \in Seq(T) /\ Len(s) = n /\ DOMAIN s = 1..n
OBVIOUS

(* A sequence, its places and its members. *)
LEMMA SeqFacts ==
    ASSUME NEW T, NEW s \in Seq(T)
    PROVE  /\ Len(s) \in Nat /\ DOMAIN s = 1..Len(s) /\ s \in [1..Len(s) -> T]
           /\ ToSet(s) \in SUBSET T
           /\ \A n \in 1..Len(s) : s[n] \in T /\ s[n] \in ToSet(s)
           /\ \A x \in ToSet(s) : \E n \in 1..Len(s) : s[n] = x
  BY DEF ToSet

(* A sequence without repetition is as long as the set of its members, and  *)
(* no sequence is shorter.                                                  *)
LEMMA OnceCounts ==
    ASSUME NEW T, NEW s \in Seq(T)
    PROVE  /\ IsFiniteSet(ToSet(s)) /\ Cardinality(ToSet(s)) \in Nat
           /\ Cardinality(ToSet(s)) <= Len(s)
           /\ IsInjective(s) => Cardinality(ToSet(s)) = Len(s)
  <1>1. Len(s) \in Nat /\ s \in [1..Len(s) -> ToSet(s)] /\ ToSet(s) \in SUBSET T
    BY SeqFacts DEF ToSet
  <1>2. \A x \in ToSet(s) : \E n \in 1..Len(s) : s[n] = x
    BY SeqFacts
  <1>3. IsFiniteSet(1..Len(s)) /\ Cardinality(1..Len(s)) = Len(s)
    BY <1>1, FS_Interval
  <1>4. s \in Surjection(1..Len(s), ToSet(s))
    BY <1>1, <1>2 DEF Surjection
  <1>5. /\ IsFiniteSet(ToSet(s)) /\ Cardinality(ToSet(s)) <= Cardinality(1..Len(s))
        /\ Cardinality(ToSet(s)) = Cardinality(1..Len(s)) <=> s \in Injection(1..Len(s), ToSet(s))
    BY <1>3, <1>4, FS_Surjection
  <1>6. IsInjective(s) => s \in Injection(1..Len(s), ToSet(s))
    BY <1>1 DEF Injection
  <1> QED
    BY <1>3, <1>5, <1>6, FS_CardinalityType

(* Some of a sequence, in its order.                                        *)
LEMMA PickedSorts ==
    ASSUME NEW T, NEW s \in Seq(T), NEW I \in SUBSET DOMAIN s
    PROVE  /\ IsFiniteSet(I) /\ Cardinality(I) \in Nat
           /\ Picked(s, I) \in Seq(T) /\ Len(Picked(s, I)) = Cardinality(I)
           /\ ToSet(Picked(s, I)) = {s[i] : i \in I}
           /\ (\A i, j \in I : s[i] = s[j] => i = j) => IsInjective(Picked(s, I))
  <1>1. Len(s) \in Nat /\ I \in SUBSET Nat /\ \A i \in I : i \in DOMAIN s /\ i <= Len(s)
    BY SeqFacts
  <1>2. IsFiniteSet(I) /\ Cardinality(I) \in Nat
    BY <1>1, FS_BoundedSetOfNaturals, FS_CardinalityType
  <1> DEFINE size == Cardinality(I)
             at == Ascending(I)
             p == [n \in 1..size |-> s[at[n]]]
  <1>3. /\ at \in [1..size -> I]
        /\ \A m, n \in 1..size : m < n => at[m] < at[n]
        /\ \A x \in I : \E n \in 1..size : at[n] = x
    BY <1>1, <1>2, AscendingSorts
  <1>4. Picked(s, I) = p
    BY <1>3 DEF Picked
  <1>5. \A i \in I : s[i] \in T
    BY <1>1, SeqFacts
  <1> HIDE DEF at
  <1>6. p \in [1..size -> T]
    BY <1>3, <1>5
  <1>7. p \in Seq(T) /\ Len(p) = size /\ DOMAIN p = 1..size
    <2> HIDE DEF p
    <2> QED
      BY <1>2, <1>6, SeqOfFun
  <1>8. ToSet(p) = {s[i] : i \in I}
    BY <1>3, <1>7 DEF ToSet
  <1>9. ASSUME \A i, j \in I : s[i] = s[j] => i = j PROVE IsInjective(p)
    <2>1. ASSUME NEW m \in 1..size, NEW n \in 1..size, p[m] = p[n] PROVE m = n
      <3>1. at[m] = at[n]
        <4>1. at[m] \in I /\ at[n] \in I
          BY <1>3
        <4>2. s[at[m]] = s[at[n]]
          BY <2>1
        <4> QED
          BY <1>9, <4>1, <4>2
      <3>2. m \in Nat /\ n \in Nat /\ at[m] \in Nat
        BY <1>1, <1>2, <1>3
      <3>3. ~(m < n) /\ ~(n < m)
        <4>1. \A i, j \in 1..size : i < j => at[i] < at[j]
          BY <1>3
        <4> QED
          BY <3>1, <3>2, <4>1
      <3> QED
        BY <3>2, <3>3
    <2> QED
      BY <1>7, <2>1 DEF IsInjective
  <1> QED
    BY <1>2, <1>4, <1>7, <1>8, <1>9

(* The members that are in S, in their order. *)
LEMMA OnlySorts ==
    ASSUME NEW T, NEW s \in Seq(T), NEW S
    PROVE  /\ Only(s, S) \in Seq(T)
           /\ ToSet(Only(s, S)) = ToSet(s) \cap S
           /\ Len(Only(s, S)) \in Nat /\ Len(Only(s, S)) <= Len(s)
           /\ IsInjective(s) => IsInjective(Only(s, S))
  <1> DEFINE I == {n \in DOMAIN s : s[n] \in S}
  <1>1. I \in SUBSET DOMAIN s /\ Only(s, S) = Picked(s, I)
    BY DEF Only
  <1>2. /\ IsFiniteSet(I) /\ Cardinality(I) \in Nat
        /\ Picked(s, I) \in Seq(T) /\ Len(Picked(s, I)) = Cardinality(I)
        /\ ToSet(Picked(s, I)) = {s[i] : i \in I}
        /\ (\A i, j \in I : s[i] = s[j] => i = j) => IsInjective(Picked(s, I))
    <2> HIDE DEF I
    <2> QED
      BY <1>1, PickedSorts
  <1>3. {s[i] : i \in I} = ToSet(s) \cap S
    BY DEF ToSet
  <1>4. Cardinality(I) <= Len(s)
    <2>1. I \in SUBSET (1..Len(s)) /\ Len(s) \in Nat
      BY SeqFacts
    <2>2. IsFiniteSet(1..Len(s)) /\ Cardinality(1..Len(s)) = Len(s)
      BY <2>1, FS_Interval
    <2> HIDE DEF I
    <2> QED
      BY <2>1, <2>2, FS_Subset
  <1>5. IsInjective(s) => \A i, j \in I : s[i] = s[j] => i = j
    BY DEF IsInjective
  <1> QED
    BY <1>1, <1>2, <1>3, <1>4, <1>5

(* One sequence after another. *)
LEMMA Joined ==
    ASSUME NEW T, NEW s \in Seq(T), NEW t \in Seq(T)
    PROVE  /\ s \o t \in Seq(T) /\ Len(s \o t) = Len(s) + Len(t)
           /\ \A i \in 1..Len(s) : (s \o t)[i] = s[i]
           /\ \A i \in 1..Len(t) : (s \o t)[Len(s) + i] = t[i]
           /\ \A i \in 1..(Len(s) + Len(t)) :
                 i \in 1..Len(s) \/ \E k \in 1..Len(t) : i = Len(s) + k
           /\ ToSet(s \o t) = ToSet(s) \cup ToSet(t)
           /\ IsInjective(s \o t) <=>
                IsInjective(s) /\ IsInjective(t) /\ ToSet(s) \cap ToSet(t) = {}
  <1> DEFINE u == s \o t
  <1>1. /\ Len(s) \in Nat /\ DOMAIN s = 1..Len(s)
        /\ Len(t) \in Nat /\ DOMAIN t = 1..Len(t)
    BY SeqFacts
  <1>2. u \in Seq(T) /\ Len(u) = Len(s) + Len(t) /\ DOMAIN u = 1..(Len(s) + Len(t))
    BY ConcatProperties, SeqFacts
  <1>3. /\ \A i \in 1..Len(s) : u[i] = s[i]
        /\ \A i \in 1..Len(t) : u[Len(s) + i] = t[i]
    <2>1. \A i \in 1..(Len(s) + Len(t)) : u[i] = IF i <= Len(s) THEN s[i] ELSE t[i - Len(s)]
      BY ConcatProperties
    <2> HIDE DEF u
    <2>2. \A i \in 1..Len(s) : i \in 1..(Len(s) + Len(t)) /\ i <= Len(s)
      BY <1>1
    <2>3. \A i \in 1..Len(t) : /\ Len(s) + i \in 1..(Len(s) + Len(t)) /\ ~(Len(s) + i <= Len(s))
                               /\ (Len(s) + i) - Len(s) = i
      BY <1>1
    <2> QED
      BY <2>1, <2>2, <2>3
  <1>4. \A i \in 1..(Len(s) + Len(t)) :
            i \in 1..Len(s) \/ (i - Len(s) \in 1..Len(t) /\ i = Len(s) + (i - Len(s)))
    BY <1>1
  <1>5. \A i \in 1..(Len(s) + Len(t)) :
            i \in 1..Len(s) \/ \E k \in 1..Len(t) : i = Len(s) + k
    BY <1>4
  <1>6. \A i \in 1..Len(t) : Len(s) + i \in 1..(Len(s) + Len(t)) /\ Len(s) + i \notin 1..Len(s)
    BY <1>1
  <1>7. \A i \in 1..Len(s) : i \in 1..(Len(s) + Len(t))
    BY <1>1
  <1>8. \A i, j \in 1..Len(t) : Len(s) + i = Len(s) + j => i = j
    BY <1>1
  <1> HIDE DEF u
  <1>9. ToSet(u) = ToSet(s) \cup ToSet(t)
    <2>1. \A x \in ToSet(u) : x \in ToSet(s) \/ x \in ToSet(t)
      <3> SUFFICES ASSUME NEW x \in ToSet(u) PROVE x \in ToSet(s) \/ x \in ToSet(t)
        OBVIOUS
      <3>1. PICK i \in 1..(Len(s) + Len(t)) : u[i] = x
        BY <1>2 DEF ToSet
      <3>2. CASE i \in 1..Len(s)
        BY <1>1, <1>3, <3>1, <3>2 DEF ToSet
      <3>3. CASE i \notin 1..Len(s)
        <4>1. PICK k \in 1..Len(t) : i = Len(s) + k
          BY <1>5, <3>3
        <4> QED
          BY <1>1, <1>3, <3>1, <4>1 DEF ToSet
      <3> QED
        BY <3>2, <3>3
    <2>2. \A x \in ToSet(s) : x \in ToSet(u)
      BY <1>1, <1>2, <1>3, <1>7 DEF ToSet
    <2>3. \A x \in ToSet(t) : x \in ToSet(u)
      BY <1>1, <1>2, <1>3, <1>6 DEF ToSet
    <2> QED
      BY <2>1, <2>2, <2>3
  <1>10. ASSUME IsInjective(u)
        PROVE  IsInjective(s) /\ IsInjective(t) /\ ToSet(s) \cap ToSet(t) = {}
    <2>1. IsInjective(s)
      BY <1>1, <1>2, <1>3, <1>7, <1>10 DEF IsInjective
    <2>2. IsInjective(t)
      <3> SUFFICES ASSUME NEW j \in 1..Len(t), NEW k \in 1..Len(t), t[j] = t[k] PROVE j = k
        BY <1>1 DEF IsInjective
      <3>1. u[Len(s) + j] = u[Len(s) + k] /\ Len(s) + j \in DOMAIN u /\ Len(s) + k \in DOMAIN u
        BY <1>2, <1>3, <1>6, <1>8
      <3>2. Len(s) + j = Len(s) + k
        BY <1>10, <3>1 DEF IsInjective
      <3> QED
        BY <1>3, <3>2
    <2>3. ASSUME NEW x \in ToSet(s), x \in ToSet(t) PROVE FALSE
      <3>1. PICK i \in 1..Len(s) : s[i] = x
        BY <1>1 DEF ToSet
      <3>2. PICK j \in 1..Len(t) : t[j] = x
        BY <1>1, <2>3 DEF ToSet
      <3>3. u[i] = u[Len(s) + j] /\ i \in DOMAIN u /\ Len(s) + j \in DOMAIN u
        BY <1>2, <1>3, <1>6, <1>7, <3>1, <3>2
      <3>4. i = Len(s) + j
        BY <1>10, <3>3 DEF IsInjective
      <3> QED
        BY <1>6, <3>4
    <2> QED
      BY <2>1, <2>2, <2>3
  <1>11. ASSUME IsInjective(s), IsInjective(t), ToSet(s) \cap ToSet(t) = {}
         PROVE  IsInjective(u)
    <2> SUFFICES ASSUME NEW i \in 1..(Len(s) + Len(t)), NEW j \in 1..(Len(s) + Len(t)), u[i] = u[j]
                 PROVE  i = j
      BY <1>2 DEF IsInjective
    <2>1. CASE i \in 1..Len(s) /\ j \in 1..Len(s)
      BY <1>1, <1>3, <1>11, <2>1 DEF IsInjective
    <2>2. \A k \in 1..Len(s), l \in 1..Len(t) : u[k] # u[Len(s) + l]
      BY <1>1, <1>3, <1>11 DEF ToSet
    <2>3. CASE i \in 1..Len(s) /\ j \notin 1..Len(s)
      BY <1>5, <2>2, <2>3
    <2>4. CASE i \notin 1..Len(s) /\ j \in 1..Len(s)
      BY <1>5, <2>2, <2>4
    <2>5. CASE i \notin 1..Len(s) /\ j \notin 1..Len(s)
      <3>1. PICK k \in 1..Len(t) : i = Len(s) + k
        BY <1>5, <2>5
      <3>2. PICK l \in 1..Len(t) : j = Len(s) + l
        BY <1>5, <2>5
      <3>3. t[k] = t[l]
        BY <1>3, <3>1, <3>2
      <3>4. k = l
        BY <1>1, <1>11, <3>3 DEF IsInjective
      <3> QED
        BY <3>1, <3>2, <3>4
    <2> QED
      BY <2>1, <2>3, <2>4, <2>5
  <1> QED
    BY <1>2, <1>3, <1>9, <1>10, <1>11, <1>5 DEF u

-----------------------------------------------------------------------------
(* The cache. *)
Newest(s, W) == \A m, n \in DOMAIN s : m < n /\ s[m] \in W => s[n] \in W

(* Trimming leaves the newest, as many as the cap admits. *)
LEMMA TrimmedTo ==
    ASSUME NEW T, NEW s \in Seq(T), NEW cap \in Nat
    PROVE  /\ Trimmed(s, cap) \in Seq(T) /\ Len(Trimmed(s, cap)) <= cap
           /\ ToSet(Trimmed(s, cap)) \in SUBSET ToSet(s)
           /\ \A n \in DOMAIN s : n > Len(s) - cap => s[n] \in ToSet(Trimmed(s, cap))
           /\ Len(s) <= cap => Trimmed(s, cap) = s
           /\ IsInjective(s) => IsInjective(Trimmed(s, cap))
  <1> DEFINE first == IF Len(s) > cap THEN Len(s) - cap + 1 ELSE 1
             t == SubSeq(s, first, Len(s))
  <1>1. Len(s) \in Nat /\ DOMAIN s = 1..Len(s) /\ \A n \in 1..Len(s) : s[n] \in T
    BY SeqFacts
  <1>2. /\ first \in Nat /\ 1 <= first /\ first <= Len(s) + 1 /\ Len(s) - first + 1 <= cap
        /\ \A n \in 1..Len(s) : n > Len(s) - cap => first <= n
        /\ Len(s) <= cap => first = 1
    BY <1>1
  <1>3. Trimmed(s, cap) = t
    BY DEF Trimmed
  <1> HIDE DEF first
  <1>4. \A n \in first..Len(s) : s[n] \in T
    BY <1>1, <1>2
  <1>5. /\ t \in Seq(T) /\ Len(t) = IF first <= Len(s) THEN Len(s) - first + 1 ELSE 0
        /\ \A n \in 1..(Len(s) - first + 1) : t[n] = s[first + n - 1]
    BY <1>1, <1>2, <1>4, SubSeqProperties
  <1>6. Len(t) = Len(s) - first + 1 /\ DOMAIN t = 1..(Len(s) - first + 1)
    <2> HIDE DEF t
    <2> QED
      BY <1>1, <1>2, <1>5, SeqFacts
  <1>7. Len(s) <= cap => t = s
    BY <1>2, SubSeqFull
  <1> HIDE DEF t
  <1>8. ASSUME NEW n \in DOMAIN t PROVE first + n - 1 \in DOMAIN s /\ t[n] = s[first + n - 1]
    BY <1>1, <1>2, <1>5, <1>6
  <1>9. ASSUME NEW n \in DOMAIN s, n > Len(s) - cap PROVE s[n] \in ToSet(t)
    <2> DEFINE k == n - first + 1
    <2>1. k \in 1..(Len(s) - first + 1) /\ first + k - 1 = n
      BY <1>1, <1>2, <1>9
    <2> HIDE DEF k
    <2>2. t[k] = s[n] /\ k \in DOMAIN t
      BY <1>5, <1>6, <2>1
    <2> QED
      BY <2>2 DEF ToSet
  <1>10. ToSet(t) \in SUBSET ToSet(s)
    BY <1>8 DEF ToSet
  <1>11. ASSUME IsInjective(s) PROVE IsInjective(t)
    <2> SUFFICES ASSUME NEW m \in DOMAIN t, NEW n \in DOMAIN t, t[m] = t[n] PROVE m = n
      BY DEF IsInjective
    <2>1. first + m - 1 = first + n - 1
      BY <1>8, <1>11 DEF IsInjective
    <2> QED
      BY <1>2, <1>6, <2>1
  <1> QED
    BY <1>1, <1>2, <1>3, <1>5, <1>6, <1>7, <1>9, <1>10, <1>11

(* What fits is not thrown out when it is the newest.                       *)
LEMMA TrimKeeps ==
    ASSUME NEW T, NEW s \in Seq(T), IsInjective(s), NEW cap \in Nat,
           NEW W, IsFiniteSet(W), Cardinality(W) <= cap, Newest(s, W)
    PROVE  ToSet(s) \cap W \subseteq ToSet(Trimmed(s, cap))
  <1> SUFFICES ASSUME NEW x \in ToSet(s), x \in W, x \notin ToSet(Trimmed(s, cap))
               PROVE  FALSE
    OBVIOUS
  <1>1. Len(s) \in Nat /\ DOMAIN s = 1..Len(s)
    BY SeqFacts
  <1>2. PICK i \in 1..Len(s) : s[i] = x
    BY SeqFacts
  <1>3. i <= Len(s) - cap
    BY <1>1, <1>2, TrimmedTo
  <1> DEFINE f == [n \in i..Len(s) |-> s[n]]
  <1>4. \A n \in i..Len(s) : n \in DOMAIN s /\ s[n] \in W
    BY <1>1, <1>2 DEF Newest
  <1>5. f \in Injection(i..Len(s), W)
    BY <1>4 DEF Injection, IsInjective
  <1>6. Cardinality(i..Len(s)) <= Cardinality(W)
    BY <1>5, FS_Injection
  <1>7. Cardinality(i..Len(s)) = Len(s) - i + 1
    BY <1>1, FS_Interval
  <1>8. Cardinality(W) \in Nat
    BY FS_CardinalityType
  <1> QED
    BY <1>1, <1>3, <1>6, <1>7, <1>8

(* Touching moves what is wanted to the end and loses nothing. *)
LEMMA TouchedSame ==
    ASSUME NEW T, NEW s \in Seq(T), NEW wanted \in Seq(T), IsInjective(s), IsInjective(wanted)
    PROVE  /\ Touched(s, wanted) \in Seq(T) /\ IsInjective(Touched(s, wanted))
           /\ ToSet(Touched(s, wanted)) = ToSet(s) /\ Len(Touched(s, wanted)) = Len(s)
           /\ Newest(Touched(s, wanted), ToSet(wanted))
  <1> DEFINE a == Only(s, ToSet(s) \ ToSet(wanted))
             b == Only(wanted, ToSet(s))
             t == a \o b
  <1>1. /\ a \in Seq(T) /\ IsInjective(a) /\ ToSet(a) = ToSet(s) \ ToSet(wanted)
        /\ b \in Seq(T) /\ IsInjective(b) /\ ToSet(b) = ToSet(wanted) \cap ToSet(s)
    BY OnlySorts
  <1>2. Touched(s, wanted) = t
    BY DEF Touched
  <1> HIDE DEF a, b
  <1>3. t \in Seq(T) /\ IsInjective(t) /\ ToSet(t) = ToSet(s)
    <2>1. t \in Seq(T) /\ ToSet(t) = ToSet(a) \cup ToSet(b)
      BY <1>1, Joined
    <2>2. ToSet(a) \cap ToSet(b) = {}
      BY <1>1
    <2>3. IsInjective(t)
      BY <1>1, <2>2, Joined
    <2> HIDE DEF t
    <2> QED
      BY <1>1, <2>1, <2>3
  <1>4. Len(t) = Len(s)
    <2> HIDE DEF t
    <2> QED
      BY <1>3, OnceCounts
  <1>5. Newest(t, ToSet(wanted))
    <2> SUFFICES ASSUME NEW m \in DOMAIN t, NEW n \in DOMAIN t, m < n, t[m] \in ToSet(wanted)
                 PROVE  t[n] \in ToSet(wanted)
      BY DEF Newest
    <2>1. /\ Len(a) \in Nat /\ DOMAIN a = 1..Len(a) /\ Len(b) \in Nat /\ DOMAIN b = 1..Len(b)
          /\ DOMAIN t = 1..(Len(a) + Len(b))
      BY <1>1, <1>3, Joined, SeqFacts
    <2>2. m \notin 1..Len(a)
      <3> SUFFICES ASSUME m \in 1..Len(a) PROVE FALSE
        OBVIOUS
      <3>1. t[m] = a[m]
        BY <1>1, Joined
      <3> QED
        BY <1>1, <2>1, <3>1 DEF ToSet
    <2>3. n \notin 1..Len(a)
      BY <2>1, <2>2
    <2>4. PICK k \in 1..Len(b) : n = Len(a) + k
      BY <1>1, <2>1, <2>3, Joined
    <2>5. t[n] = b[k]
      BY <1>1, <2>4, Joined
    <2> QED
      BY <1>1, <2>1, <2>5 DEF ToSet
  <1> QED
    BY <1>2, <1>3, <1>4, <1>5

(* What is added is the newest, and what was there keeps its place. *)
LEMMA AddedAll ==
    ASSUME NEW T, NEW s \in Seq(T), NEW more \in Seq(T), IsInjective(s), IsInjective(more)
    PROVE  /\ Added(s, more) \in Seq(T) /\ IsInjective(Added(s, more))
           /\ ToSet(Added(s, more)) = ToSet(s) \cup ToSet(more)
           /\ Len(Added(s, more)) \in Nat /\ Len(Added(s, more)) <= Len(s) + Len(more)
           /\ \A W : Newest(s, W) /\ ToSet(more) \subseteq W => Newest(Added(s, more), W)
  <1> DEFINE b == Only(more, ToSet(more) \ ToSet(s))
             t == s \o b
  <1>1. /\ b \in Seq(T) /\ IsInjective(b) /\ ToSet(b) = ToSet(more) \ ToSet(s)
        /\ Len(b) \in Nat /\ Len(b) <= Len(more)
    BY OnlySorts
  <1>2. Added(s, more) = t
    BY DEF Added
  <1> HIDE DEF b
  <1>3. /\ t \in Seq(T) /\ IsInjective(t) /\ ToSet(t) = ToSet(s) \cup ToSet(more)
        /\ Len(t) = Len(s) + Len(b)
    BY <1>1, Joined
  <1>4. Len(s) \in Nat /\ Len(more) \in Nat
    BY SeqFacts
  <1>5. ASSUME NEW W, Newest(s, W), ToSet(more) \subseteq W PROVE Newest(t, W)
    <2> SUFFICES ASSUME NEW m \in DOMAIN t, NEW n \in DOMAIN t, m < n, t[m] \in W
                 PROVE  t[n] \in W
      BY DEF Newest
    <2>1. /\ Len(s) \in Nat /\ DOMAIN s = 1..Len(s) /\ Len(b) \in Nat /\ DOMAIN b = 1..Len(b)
          /\ DOMAIN t = 1..(Len(s) + Len(b))
      BY <1>1, <1>3, Joined, SeqFacts
    <2>2. CASE n \in 1..Len(s)
      <3>1. m \in 1..Len(s)
        BY <2>1, <2>2
      <3>2. t[m] = s[m] /\ t[n] = s[n]
        BY <1>1, <2>2, <3>1, Joined
      <3> QED
        BY <1>5, <2>1, <2>2, <3>1, <3>2 DEF Newest
    <2>3. CASE n \notin 1..Len(s)
      <3>1. PICK k \in 1..Len(b) : n = Len(s) + k
        BY <1>1, <2>1, <2>3, Joined
      <3>2. t[n] = b[k]
        BY <1>1, <3>1, Joined
      <3> QED
        BY <1>1, <1>5, <2>1, <3>2 DEF ToSet
    <2> QED
      BY <2>2, <2>3
  <1> QED
    BY <1>1, <1>2, <1>3, <1>4, <1>5

(* The helper finds each page that the index has, with whatever others it   *)
(* is asked for.                                                            *)
LEMMA FoundIs ==
    ASSUME NEW keys \in Seq(KeySet)
    PROVE  Found(keys) = {k \in ToSet(keys) :
              \E n \in DOMAIN Documents : Documents[n].key = k /\ Documents[n].body}
  <1> DEFINE hits == {n \in DOMAIN Documents : Has(keys, Documents[n].key)}
             f == [n \in hits |-> Documents[n].key]
  <1>1. /\ Documents \in Seq([key : KeySet, body : BOOLEAN])
        /\ \A m, n \in DOMAIN Documents : Documents[m].key = Documents[n].key => m = n
    BY FetchAssumption DEF FetchAssumption, KeySet
  <1>2. Len(Documents) \in Nat /\ DOMAIN Documents = 1..Len(Documents)
    BY <1>1, SeqFacts
  <1>3. /\ IsFiniteSet(ToSet(keys)) /\ Cardinality(ToSet(keys)) \in Nat
        /\ Cardinality(ToSet(keys)) <= Len(keys) /\ Len(keys) \in Nat
    BY OnceCounts, SeqFacts
  <1>4. f \in Injection(hits, ToSet(keys))
    BY <1>1 DEF Injection, IsInjective, Has
  <1>5. IsFiniteSet(hits) /\ Cardinality(hits) <= Cardinality(ToSet(keys))
    BY <1>3, <1>4, FS_Injection
  <1>6. Cardinality(hits) \in Nat /\ Cardinality(hits) <= Len(keys)
    BY <1>3, <1>5, FS_CardinalityType
  <1>7. hits \in SUBSET Nat
    BY <1>2
  <1>8. StrictOrder(Less(hits), hits)
    BY <1>7, LessOrders
  <1>9. Top(Less(hits), Len(keys), hits) = hits
    <2> DEFINE R == Less(hits)
    <2> HIDE DEF hits, R
    <2>1. StrictOrder(R, hits)
      BY <1>8 DEF R
    <2>2. Top(R, Len(keys), hits) = hits
      BY <1>3, <1>5, <1>6, <2>1, TopOf
    <2> QED
      BY <2>2 DEF R
  <1>10. Found(keys) = {k \in ToSet(keys) :
            \E n \in hits : /\ Documents[n].key = k /\ Documents[n].body
                            /\ \A m \in hits : m > n => Documents[m].key # k}
    BY <1>9 DEF Found
  <1>11. ASSUME NEW k \in ToSet(keys), NEW n \in DOMAIN Documents, Documents[n].key = k
         PROVE  n \in hits /\ \A m \in hits : m > n => Documents[m].key # k
    BY <1>1, <1>2, <1>11 DEF Has
  <1> QED
    BY <1>10, <1>11

(* A page is found by itself if it is found with others. *)
LEMMA OneFound ==
    ASSUME NEW k \in KeySet
    PROVE  /\ <<k>> \in Seq(KeySet) /\ IsInjective(<<k>>) /\ Len(<<k>>) = 1 /\ ToSet(<<k>>) = {k}
           /\ \A keys \in Seq(KeySet) :
                 k \in ToSet(keys) => (k \in Found(keys) <=> k \in Found(<<k>>))
  <1>1. <<k>> \in Seq(KeySet) /\ IsInjective(<<k>>) /\ Len(<<k>>) = 1 /\ ToSet(<<k>>) = {k}
    BY DEF IsInjective, ToSet
  <1>2. ASSUME NEW keys \in Seq(KeySet), k \in ToSet(keys)
        PROVE  k \in Found(keys) <=> k \in Found(<<k>>)
    BY <1>1, <1>2, FoundIs
  <1> QED
    BY <1>1, <1>2

-----------------------------------------------------------------------------
(* The window. *)
LEMMA FirstOnes ==
    ASSUME NEW T, NEW s \in Seq(T)
    PROVE  /\ Distinct(s) \in Seq(T) /\ IsInjective(Distinct(s)) /\ ToSet(Distinct(s)) = ToSet(s)
           /\ Len(Distinct(s)) \in Nat /\ Len(Distinct(s)) <= Len(s)
  <1> DEFINE I == {m \in DOMAIN s : \A l \in 1..(m - 1) : s[l] # s[m]}
  <1>1. Len(s) \in Nat /\ DOMAIN s = 1..Len(s)
    BY SeqFacts
  <1>2. I \in SUBSET DOMAIN s /\ Distinct(s) = Picked(s, I)
    BY DEF Distinct
  <1>3. ASSUME NEW i \in I, NEW j \in I, s[i] = s[j] PROVE i = j
    BY <1>1, <1>3
  <1>4. ASSUME NEW n \in DOMAIN s PROVE \E i \in I : s[i] = s[n]
    <2> DEFINE same == {m \in DOMAIN s : s[m] = s[n]}
    <2>1. same \subseteq Nat /\ same # {}
      BY <1>1
    <2> DEFINE i == Min(same)
    <2>2. i \in same /\ \A k \in same : i <= k
      <3> HIDE DEF same
      <3> QED
        BY <2>1, LeastOf
    <2> HIDE DEF i
    <2>3. \A l \in 1..(i - 1) : l \in DOMAIN s /\ ~(i <= l)
      BY <1>1, <2>2
    <2>4. i \in I
      BY <2>2, <2>3
    <2> QED
      BY <2>2, <2>4
  <1>5. {s[i] : i \in I} = ToSet(s)
    BY <1>2, <1>4 DEF ToSet
  <1>6. /\ Picked(s, I) \in Seq(T) /\ ToSet(Picked(s, I)) = {s[i] : i \in I}
        /\ IsInjective(Picked(s, I)) /\ Len(Picked(s, I)) = Cardinality(I) /\ Cardinality(I) \in Nat
    <2> HIDE DEF I
    <2> QED
      BY <1>2, <1>3, PickedSorts
  <1>7. Cardinality(I) <= Len(s)
    <2>1. IsFiniteSet(1..Len(s)) /\ Cardinality(1..Len(s)) = Len(s)
      BY <1>1, FS_Interval
    <2>2. I \in SUBSET (1..Len(s))
      BY <1>1
    <2> HIDE DEF I
    <2> QED
      BY <2>1, <2>2, FS_Subset
  <1> QED
    BY <1>2, <1>5, <1>6, <1>7

(* The keys of a list of targets. *)
LEMMA KeysAre ==
    ASSUME NEW targets \in TargetLists
    PROVE  LET keys == Keys(targets)
           IN  /\ keys \in Seq(KeySet) /\ DOMAIN keys = DOMAIN targets
               /\ \A i \in DOMAIN targets : keys[i] = targets[i].key
  <1> DEFINE T == [key : KeySet, hit : BOOLEAN]
             keys == Keys(targets)
  <1>1. targets \in Seq(T)
    BY DEF TargetLists
  <1>2. \A t \in T : t.key \in KeySet
    OBVIOUS
  <1> HIDE DEF T
  <1>3. /\ Len(targets) \in Nat /\ DOMAIN targets = 1..Len(targets)
        /\ \A n \in DOMAIN targets : targets[n] \in T
    BY <1>1, SeqFacts
  <1>4. /\ keys \in [1..Len(targets) -> KeySet]
        /\ \A i \in DOMAIN targets : keys[i] = targets[i].key
    BY <1>2, <1>3 DEF Keys
  <1> HIDE DEF keys
  <1>5. keys \in Seq(KeySet) /\ DOMAIN keys = DOMAIN targets
    BY <1>3, <1>4, SeqOfFun
  <1> QED
    BY <1>4, <1>5 DEF keys

InWindow(targets, start, limit) ==
    {targets[i].key : i \in {i \in DOMAIN targets : start < i /\ i <= start + limit}}

(* The window's pages, each once. *)
LEMMA WindowIs ==
    ASSUME NEW targets \in TargetLists, NEW start \in Nat, NEW limit \in Nat
    PROVE  LET w == Distinct(Keys(Window(targets, start, limit)))
           IN  /\ w \in Seq(KeySet) /\ IsInjective(w) /\ Len(w) \in Nat /\ Len(w) <= limit
               /\ ToSet(w) = InWindow(targets, start, limit)
  <1> DEFINE last == IF start + limit < Len(targets) THEN start + limit ELSE Len(targets)
             win == SubSeq(targets, start + 1, last)
             keys == Keys(win)
             T == [key : KeySet, hit : BOOLEAN]
  <1>1. /\ Len(targets) \in Nat /\ DOMAIN targets = 1..Len(targets)
        /\ \A n \in 1..Len(targets) : targets[n] \in T
    BY SeqFacts DEF TargetLists
  <1>2. /\ last \in Nat /\ last <= Len(targets) /\ last - start <= limit
        /\ \A i \in DOMAIN targets : (start < i /\ i <= start + limit) <=> (start < i /\ i <= last)
    BY <1>1
  <1>3. Window(targets, start, limit) = win
    BY DEF Window
  <1> HIDE DEF last, T
  <1>4. \A i \in (start + 1)..last : i \in 1..Len(targets) /\ targets[i] \in T
    BY <1>1, <1>2
  <1>5. /\ win \in Seq(T) /\ Len(win) = IF start + 1 <= last THEN last - (start + 1) + 1 ELSE 0
        /\ \A i \in 1..(last - (start + 1) + 1) : win[i] = targets[start + 1 + i - 1]
    BY <1>2, <1>4, SubSeqProperties
  <1>6. /\ Len(win) \in Nat /\ DOMAIN win = 1..Len(win) /\ Len(win) <= limit
        /\ \A i \in DOMAIN win : start + i \in DOMAIN targets /\ start + i <= last /\ win[i] = targets[start + i]
    <2> HIDE DEF win
    <2>1. DOMAIN win = 1..Len(win)
      BY <1>5, SeqFacts
    <2> QED
      BY <1>1, <1>2, <1>5, <2>1
  <1>7. \A j \in DOMAIN targets : start < j /\ j <= last => j - start \in DOMAIN win /\ start + (j - start) = j
    BY <1>1, <1>2, <1>5, <1>6
  <1> HIDE DEF win
  <1>8. keys \in Seq(KeySet) /\ Len(keys) = Len(win) /\ DOMAIN keys = DOMAIN win
    <2>1. keys \in [1..Len(win) -> KeySet]
      BY <1>1, <1>6 DEF Keys, T
    <2> HIDE DEF keys
    <2> QED
      BY <1>6, <2>1, SeqOfFun
  <1>9. ToSet(keys) = {win[i].key : i \in DOMAIN win}
    BY <1>8 DEF ToSet, Keys
  <1>10. {win[i].key : i \in DOMAIN win} = InWindow(targets, start, limit)
    <2>1. ASSUME NEW i \in DOMAIN win PROVE win[i].key \in InWindow(targets, start, limit)
      <3>1. /\ start + i \in DOMAIN targets /\ start < start + i /\ start + i <= start + limit
            /\ win[i] = targets[start + i]
        BY <1>1, <1>2, <1>6
      <3> QED
        BY <3>1 DEF InWindow
    <2>2. ASSUME NEW j \in DOMAIN targets, start < j, j <= start + limit
          PROVE  \E i \in DOMAIN win : targets[j].key = win[i].key
      BY <1>2, <1>6, <1>7, <2>2
    <2> QED
      BY <2>1, <2>2 DEF InWindow
  <1> HIDE DEF keys
  <1>11. /\ Distinct(keys) \in Seq(KeySet) /\ IsInjective(Distinct(keys))
         /\ ToSet(Distinct(keys)) = ToSet(keys)
         /\ Len(Distinct(keys)) \in Nat /\ Len(Distinct(keys)) <= Len(keys)
    BY <1>8, FirstOnes
  <1>12. Len(Distinct(keys)) <= limit
    BY <1>6, <1>8, <1>11
  <1> QED
    BY <1>3, <1>9, <1>10, <1>11, <1>12 DEF keys

-----------------------------------------------------------------------------
(* The list that a request expands to. *)
Asked(r) == /\ r \in [entries : Entries, neighbors : 0..10, limit : Nat \ {0}, room : Nat \ {0}]
            /\ \A n \in DOMAIN r.entries : IsFiniteSet(r.entries[n].ids)

(* Requests are of the type that is assumed. *)
LEMMA RequestAsked == ASSUME NEW r \in Requests PROVE Asked(r)
  BY FetchAssumption DEF FetchAssumption, Asked, Entries

(* The entries of a request. *)
LEMMA EntryFacts ==
    ASSUME NEW r, Asked(r)
    PROVE  /\ Len(r.entries) \in Nat /\ DOMAIN r.entries = 1..Len(r.entries)
           /\ r.neighbors \in 0..10
           /\ \A m \in DOMAIN r.entries :
                 /\ r.entries[m].book \in Books
                 /\ r.entries[m].ids \in SUBSET Int /\ IsFiniteSet(r.entries[m].ids)
                 /\ r.entries[m] \in ToSet(r.entries)
           /\ \A e \in ToSet(r.entries) : \E m \in DOMAIN r.entries : r.entries[m] = e
  <1> DEFINE s == r.entries
             T == [book : Books, ids : SUBSET Int]
  <1>1. s \in Seq(T) /\ r.neighbors \in 0..10 /\ \A n \in DOMAIN s : IsFiniteSet(s[n].ids)
    BY DEF Asked, Entries
  <1>2. \A x \in T : x.book \in Books /\ x.ids \in SUBSET Int
    OBVIOUS
  <1> HIDE DEF s, T
  <1>3. /\ Len(s) \in Nat /\ DOMAIN s = 1..Len(s)
        /\ \A n \in 1..Len(s) : s[n] \in T /\ s[n] \in ToSet(s)
        /\ \A e \in ToSet(s) : \E n \in 1..Len(s) : s[n] = e
    BY <1>1, SeqFacts
  <1> QED
    BY <1>1, <1>2, <1>3 DEF s

(* The pages around finitely many are finitely many. *)
LEMMA AroundFinite ==
    ASSUME NEW ids \in SUBSET Int, IsFiniteSet(ids), NEW n \in 0..10
    PROVE  IsFiniteSet(Around(ids, n)) /\ Around(ids, n) \in SUBSET Nat
  <1> DEFINE f == [i \in ids |-> (i - n)..(i + n)]
             S == {(i - n)..(i + n) : i \in ids}
  <1>1. f \in Surjection(ids, S)
    BY DEF Surjection
  <1>2. IsFiniteSet(S)
    <2> HIDE DEF f, S
    <2> QED
      BY <1>1, FS_Surjection
  <1>3. \A T \in S : IsFiniteSet(T)
    BY FS_Interval
  <1>4. IsFiniteSet(UNION S)
    <2> HIDE DEF S
    <2> QED
      BY <1>2, <1>3, FS_UNION
  <1>5. Around(ids, n) \in SUBSET (UNION S)
    BY DEF Around
  <1>6. IsFiniteSet(Around(ids, n))
    <2> HIDE DEF S
    <2> QED
      BY <1>4, <1>5, FS_Subset
  <1>7. ASSUME NEW p \in Around(ids, n) PROVE p \in Nat
    <2>1. PICK i \in ids : p \in (i - n)..(i + n)
      BY DEF Around
    <2>2. p >= 0
      BY DEF Around
    <2> QED
      BY <2>1, <2>2
  <1> QED
    BY <1>6, <1>7

(* The places that a request names can be put in order. *)
LEMMA PlacesFinite ==
    ASSUME NEW catalogue, NEW r, Asked(r)
    PROVE  LET S == Places(catalogue, r)
           IN  /\ IsFiniteSet(S) /\ StrictOrder(Before(S), S)
               /\ \A x : x \in S <=>
                    \E m \in DOMAIN r.entries : \E p \in Around(r.entries[m].ids, r.neighbors) :
                        Readable(catalogue, r.entries[m]) /\ x = <<m, p>>
  <1> DEFINE S == Places(catalogue, r)
             I == {m \in DOMAIN r.entries : Readable(catalogue, r.entries[m])}
             Of(m) == {m} \X Around(r.entries[m].ids, r.neighbors)
             P == {Of(m) : m \in I}
             f == [m \in I |-> Of(m)]
  <1>1. S = UNION P
    BY DEF Places
  <1>2. IsFiniteSet(I)
    <2>1. I \in SUBSET (1..Len(r.entries)) /\ Len(r.entries) \in Nat
      BY EntryFacts
    <2>2. IsFiniteSet(1..Len(r.entries))
      BY <2>1, FS_Interval
    <2> HIDE DEF I
    <2> QED
      BY <2>1, <2>2, FS_Subset
  <1>3. IsFiniteSet(P)
    <2>1. f \in Surjection(I, P)
      <3> HIDE DEF I, Of
      <3> QED
        BY DEF Surjection
    <2> HIDE DEF f, P, I
    <2> QED
      BY <1>2, <2>1, FS_Surjection
  <1>4. ASSUME NEW m \in I PROVE IsFiniteSet(Of(m))
    <2> DEFINE A == Around(r.entries[m].ids, r.neighbors)
               g == [p \in A |-> <<m, p>>]
    <2>1. IsFiniteSet(A)
      BY EntryFacts, AroundFinite
    <2> HIDE DEF A
    <2>2. g \in Surjection(A, {m} \X A)
      BY DEF Surjection
    <2> HIDE DEF g
    <2>3. IsFiniteSet({m} \X A)
      BY <2>1, <2>2, FS_Surjection
    <2> QED
      BY <2>3 DEF A
  <1>5. \A T \in P : IsFiniteSet(T)
    BY <1>4
  <1>6. IsFiniteSet(S)
    <2> HIDE DEF P, S
    <2> QED
      BY <1>1, <1>3, <1>5, FS_UNION
  <1>7. ASSUME NEW x
        PROVE  x \in S <=> \E m \in DOMAIN r.entries : \E p \in Around(r.entries[m].ids, r.neighbors) :
                              Readable(catalogue, r.entries[m]) /\ x = <<m, p>>
    BY <1>1
  <1>8. \A x \in S : x = <<x[1], x[2]>> /\ x[1] \in Nat /\ x[2] \in Nat
    <2> SUFFICES ASSUME NEW x \in S PROVE x = <<x[1], x[2]>> /\ x[1] \in Nat /\ x[2] \in Nat
      OBVIOUS
    <2>1. PICK m \in DOMAIN r.entries : \E p \in Around(r.entries[m].ids, r.neighbors) : x = <<m, p>>
      BY <1>7
    <2>3. PICK p \in Around(r.entries[m].ids, r.neighbors) : x = <<m, p>>
      BY <2>1
    <2>2. m \in Nat /\ p \in Nat
      BY EntryFacts, AroundFinite
    <2> QED
      BY <2>2, <2>3
  <1> HIDE DEF S
  <1>9. StrictOrder(Before(S), S)
    <2>1. \A x, y \in S : <<x, y>> \in Before(S) <=> (x[1] < y[1] \/ (x[1] = y[1] /\ x[2] < y[2]))
      BY DEF Before
    <2>2. \A x, y \in S : x = y \/ x[1] # y[1] \/ x[2] # y[2]
      BY <1>8
    <2>3. \A x \in S : <<x, x>> \notin Before(S)
      BY <1>8, <2>1
    <2>4. \A x, y \in S : x = y \/ <<x, y>> \in Before(S) \/ <<y, x>> \in Before(S)
      <3> SUFFICES ASSUME NEW x \in S, NEW y \in S, x # y
                   PROVE  <<x, y>> \in Before(S) \/ <<y, x>> \in Before(S)
        OBVIOUS
      <3>1. x[1] # y[1] \/ x[2] # y[2]
        BY <2>2
      <3>2. x[1] \in Nat /\ x[2] \in Nat /\ y[1] \in Nat /\ y[2] \in Nat
        BY <1>8
      <3> QED
        BY <2>1, <3>1, <3>2
    <2>5. \A x, y, z \in S : <<x, y>> \in Before(S) /\ <<y, z>> \in Before(S) => <<x, z>> \in Before(S)
      BY <1>8, <2>1
    <2> QED
      BY <2>3, <2>4, <2>5 DEF StrictOrder
  <1> QED
    BY <1>6, <1>7, <1>9 DEF S

(* expandTargets lists what it should. *)
LEMMA TargetsFit ==
    ASSUME NEW catalogue, NEW r, Asked(r)
    PROVE  LET t == Targets(catalogue, r)
               refused == Refused(catalogue, r)
           IN  /\ t \in TargetLists /\ refused \in SUBSET Books
               /\ Fits(r.entries, r.neighbors, t, refused)
  <1> DEFINE S == Places(catalogue, r)
             R == Before(S)
             at == Ordered(R, S)
             size == Cardinality(S)
             E(n) == r.entries[at[n][1]]
             t == [n \in 1..size |-> [key |-> <<E(n).book, at[n][2]>>, hit |-> at[n][2] \in E(n).ids]]
             refused == Refused(catalogue, r)
  <1>1. /\ IsFiniteSet(S) /\ StrictOrder(R, S)
        /\ \A x : x \in S <=>
             \E m \in DOMAIN r.entries : \E p \in Around(r.entries[m].ids, r.neighbors) :
                 Readable(catalogue, r.entries[m]) /\ x = <<m, p>>
    BY PlacesFinite
  <1> HIDE DEF S, R
  <1>2. /\ size \in Nat /\ at \in [1..size -> S]
        /\ \A m, n \in 1..size : m < n => <<at[m], at[n]>> \in R
        /\ \A x \in S : \E n \in 1..size : at[n] = x
    BY <1>1, OrderedSorts
  <1>3. Targets(catalogue, r) = t
    BY <1>2 DEF Targets, S, R
  <1> HIDE DEF at, size
  <1>4. ASSUME NEW n \in 1..size
        PROVE  \E m \in DOMAIN r.entries : \E p \in Nat :
                  /\ at[n] = <<m, p>> /\ Readable(catalogue, r.entries[m])
                  /\ p \in Around(r.entries[m].ids, r.neighbors)
                  /\ t[n] = [key |-> <<r.entries[m].book, p>>, hit |-> p \in r.entries[m].ids]
                  /\ t[n].key = <<r.entries[m].book, p>>
                  /\ t[n].key[1] = r.entries[m].book /\ t[n].key[2] = p
                  /\ t[n].hit <=> p \in r.entries[m].ids
    <2>4. PICK m \in DOMAIN r.entries : \E p \in Around(r.entries[m].ids, r.neighbors) :
             Readable(catalogue, r.entries[m]) /\ at[n] = <<m, p>>
      BY <1>1, <1>2
    <2>1. PICK p \in Around(r.entries[m].ids, r.neighbors) :
             Readable(catalogue, r.entries[m]) /\ at[n] = <<m, p>>
      BY <2>4
    <2>2. p \in Nat
      BY EntryFacts, AroundFinite
    <2>3. t[n] = [key |-> <<r.entries[m].book, p>>, hit |-> p \in r.entries[m].ids]
      BY <2>1
    <2> QED
      BY <2>1, <2>2, <2>3
  <1>5. t \in TargetLists /\ DOMAIN t = 1..size
    <2>1. ASSUME NEW n \in 1..size PROVE t[n] \in [key : KeySet, hit : BOOLEAN]
      <3>1. PICK m \in DOMAIN r.entries, p \in Nat :
               t[n] = [key |-> <<r.entries[m].book, p>>, hit |-> p \in r.entries[m].ids]
        BY <1>4
      <3>2. r.entries[m].book \in Books
        BY EntryFacts
      <3> HIDE DEF t
      <3> QED
        BY <3>1, <3>2 DEF KeySet
    <2>2. t \in [1..size -> [key : KeySet, hit : BOOLEAN]]
      BY <2>1
    <2> HIDE DEF t
    <2> QED
      BY <1>2, <2>2, SeqOfFun DEF TargetLists
  <1> HIDE DEF t
  <1>6. refused \in SUBSET Books
    BY EntryFacts DEF Refused
  <1>7. ASSUME NEW e \in ToSet(r.entries), e.book \notin refused,
               NEW p \in Around(e.ids, r.neighbors)
        PROVE  \E i \in DOMAIN t : t[i].key = <<e.book, p>> /\ (p \in e.ids => t[i].hit)
    <2>1. PICK m \in DOMAIN r.entries : r.entries[m] = e
      BY EntryFacts
    <2>2. Readable(catalogue, r.entries[m])
      BY <1>7, <2>1 DEF Refused
    <2>3. <<m, p>> \in S
      BY <1>1, <2>1, <2>2
    <2>4. PICK n \in 1..size : at[n] = <<m, p>>
      BY <1>2, <2>3
    <2>5. PICK k \in DOMAIN r.entries, q \in Nat :
             /\ at[n] = <<k, q>> /\ t[n].key = <<r.entries[k].book, q>>
             /\ t[n].hit <=> q \in r.entries[k].ids
      BY <1>4
    <2>6. k = m /\ q = p
      BY <2>4, <2>5
    <2> QED
      BY <1>5, <2>1, <2>5, <2>6
  <1>8. ASSUME NEW i \in DOMAIN t, t[i].hit PROVE AskedBy(t[i].key, r.entries)
    <2>1. PICK m \in DOMAIN r.entries, p \in Nat :
             /\ t[i].key[1] = r.entries[m].book /\ t[i].key[2] = p
             /\ t[i].hit <=> p \in r.entries[m].ids
      BY <1>4, <1>5
    <2>2. /\ r.entries[m] \in ToSet(r.entries) /\ r.entries[m].book = t[i].key[1]
          /\ t[i].key[2] \in r.entries[m].ids
      BY <1>8, <2>1, EntryFacts
    <2> QED
      BY <2>2 DEF AskedBy
  <1>9. ASSUME EachBookOnce(r.entries), NEW i \in DOMAIN t, NEW j \in DOMAIN t, t[i].key = t[j].key
        PROVE  i = j
    <2>1. PICK m \in DOMAIN r.entries, p \in Nat :
             at[i] = <<m, p>> /\ t[i].key[1] = r.entries[m].book /\ t[i].key[2] = p
      BY <1>4, <1>5
    <2>2. PICK k \in DOMAIN r.entries, q \in Nat :
             at[j] = <<k, q>> /\ t[j].key[1] = r.entries[k].book /\ t[j].key[2] = q
      BY <1>4, <1>5
    <2>8. t[i].key[1] = t[j].key[1] /\ t[i].key[2] = t[j].key[2]
      BY <1>9
    <2>3. r.entries[m].book = r.entries[k].book /\ p = q
      BY <2>1, <2>2, <2>8
    <2>4. m = k
      BY <1>9, <2>3 DEF EachBookOnce
    <2>5. at[i] = at[j] /\ at[i] \in S
      BY <1>2, <1>5, <2>1, <2>2, <2>3, <2>4
    <2>6. <<at[i], at[j]>> \notin R /\ <<at[j], at[i]>> \notin R
      BY <1>1, <2>5 DEF StrictOrder
    <2>7. i \in Nat /\ j \in Nat /\ ~(i < j) /\ ~(j < i)
      BY <1>2, <1>5, <2>6
    <2> QED
      BY <2>7
  <1>10. Fits(r.entries, r.neighbors, t, refused)
    BY <1>7, <1>8, <1>9 DEF Fits, Once
  <1> QED
    BY <1>3, <1>5, <1>6, <1>10

-----------------------------------------------------------------------------
(* A call under way. *)
LEMMA CallFacts ==
    ASSUME NEW call \in CallType
    PROVE  /\ call.start \in Nat /\ call.from \in Nat /\ call.limit \in Nat /\ call.limit > 0
           /\ call.room \in Nat \ {0} /\ call.entries \in Entries /\ call.neighbors \in 0..10
           /\ call.targets \in TargetLists /\ call.at \in Nat /\ call.consumed \in Nat
           /\ call.opened \in [Books -> {"unknown", "open", "failed"}]
           /\ call.passages \in PassageLists
           /\ call.failed \in SUBSET Books /\ call.missing \in SUBSET KeySet
           /\ call.cold \in BOOLEAN /\ call.again \in SUBSET KeySet /\ call.trouble \in BOOLEAN
           /\ Len(call.targets) \in Nat /\ DOMAIN call.targets = 1..Len(call.targets)
           /\ Len(call.passages) \in Nat /\ DOMAIN call.passages = 1..Len(call.passages)
           /\ \A i \in DOMAIN call.targets :
                 /\ call.targets[i].key \in KeySet /\ call.targets[i].hit \in BOOLEAN
                 /\ call.targets[i].key[1] \in Books /\ call.targets[i].key[2] \in Nat
           /\ \A n \in DOMAIN call.passages :
                 call.passages[n].key \in KeySet /\ call.passages[n].text \in BOOLEAN
  <1>1. /\ call.start \in Nat /\ call.from \in Nat /\ call.limit \in Nat /\ call.limit > 0
        /\ call.room \in Nat \ {0} /\ call.entries \in Entries /\ call.neighbors \in 0..10
        /\ call.targets \in TargetLists /\ call.at \in Nat /\ call.consumed \in Nat
        /\ call.opened \in [Books -> {"unknown", "open", "failed"}]
        /\ call.passages \in PassageLists
        /\ call.failed \in SUBSET Books /\ call.missing \in SUBSET KeySet
        /\ call.cold \in BOOLEAN /\ call.again \in SUBSET KeySet /\ call.trouble \in BOOLEAN
    BY DEF CallType
  <1> DEFINE T == [key : KeySet, hit : BOOLEAN]
             P == [key : KeySet, text : BOOLEAN]
             targets == call.targets
             passages == call.passages
  <1>2. targets \in Seq(T) /\ passages \in Seq(P)
    BY <1>1 DEF TargetLists, PassageLists
  <1>3. \A x \in T : x.key \in KeySet /\ x.hit \in BOOLEAN /\ x.key[1] \in Books /\ x.key[2] \in Nat
    BY DEF KeySet
  <1>4. \A x \in P : x.key \in KeySet /\ x.text \in BOOLEAN
    OBVIOUS
  <1> HIDE DEF T, P, targets, passages
  <1>5. /\ Len(targets) \in Nat /\ DOMAIN targets = 1..Len(targets)
        /\ \A i \in 1..Len(targets) : targets[i] \in T
        /\ Len(passages) \in Nat /\ DOMAIN passages = 1..Len(passages)
        /\ \A i \in 1..Len(passages) : passages[i] \in P
    BY <1>2, SeqFacts
  <1> QED
    BY <1>1, <1>3, <1>4, <1>5 DEF targets, passages

(* The next target.                                                         *)
LEMMA ToGo ==
    ASSUME NEW call \in CallType, NEW answers, LoopOf(call, answers),
           call.at <= Len(call.targets)
    PROVE  /\ call.at \in DOMAIN call.targets /\ call.consumed = call.at - 1
           /\ call.start < call.at
  BY CallFacts DEF LoopOf

Same(call, next) ==
    /\ next.start = call.start /\ next.from = call.from
    /\ next.limit = call.limit /\ next.room = call.room
    /\ next.entries = call.entries /\ next.neighbors = call.neighbors
    /\ next.targets = call.targets

(* Targets that were dealt with stay so.                                    *)
LEMMA StaysDealt ==
    ASSUME NEW call, NEW next, NEW t, Dealt(t, call),
           \A k : k \in GivenBy(call.passages) => k \in GivenBy(next.passages),
           call.failed \subseteq next.failed, call.missing \subseteq next.missing,
           call.opened[t.key[1]] = "unknown" \/ next.opened[t.key[1]] = call.opened[t.key[1]]
    PROVE  Dealt(t, next)
  BY DEF Dealt, Lost

(* More books may be named as unreadable. *)
LEMMA StaysFit ==
    ASSUME NEW entries, NEW neighbors, NEW targets, NEW failed, NEW more,
           Fits(entries, neighbors, targets, failed), failed \subseteq more
    PROVE  Fits(entries, neighbors, targets, more)
  BY DEF Fits

(* A target gives a passage or none.                                        *)
Grown(next, call) ==
    LET t == call.targets[call.at]
    IN  \/ next.passages = call.passages
        \/ /\ t.key \notin GivenBy(call.passages)
           /\ \E text \in BOOLEAN : next.passages = Append(call.passages, [key |-> t.key, text |-> text])

(* The pages that have a passage, after a step. *)
LEMMA GrownIs ==
    ASSUME NEW call \in CallType, NEW next \in CallType, Grown(next, call),
           call.at \in DOMAIN call.targets
    PROVE  LET k == call.targets[call.at].key
           IN  /\ GivenBy(call.passages) \subseteq GivenBy(next.passages)
               /\ GivenBy(next.passages) \subseteq GivenBy(call.passages) \cup {k}
               /\ next.passages # call.passages =>
                    /\ k \in GivenBy(next.passages) /\ k \notin GivenBy(call.passages)
                    /\ Len(next.passages) = Len(call.passages) + 1
                    /\ next.passages[Len(call.passages) + 1].key = k
                    /\ \A n \in DOMAIN call.passages : next.passages[n] = call.passages[n]
  <1> DEFINE k == call.targets[call.at].key
             p == call.passages
             q == next.passages
  <1>1. CASE next.passages = call.passages
    BY <1>1
  <1>2. CASE next.passages # call.passages
    <2>1. PICK text \in BOOLEAN : q = Append(p, [key |-> k, text |-> text])
      BY <1>2 DEF Grown
    <2>2. k \notin GivenBy(p)
      BY <1>2 DEF Grown
    <2>3. Len(p) \in Nat /\ DOMAIN p = 1..Len(p) /\ p \in Seq([key : KeySet, text : BOOLEAN])
      BY CallFacts DEF PassageLists
    <2>4. k \in KeySet
      BY CallFacts
    <2> HIDE DEF k, p, q
    <2>5. /\ Len(q) = Len(p) + 1 /\ DOMAIN q = 1..(Len(p) + 1)
          /\ q[Len(p) + 1] = [key |-> k, text |-> text]
          /\ \A n \in 1..Len(p) : q[n] = p[n]
      BY <2>1, <2>3, <2>4
    <2>6. q[Len(p) + 1].key = k /\ Len(p) + 1 \in DOMAIN q
      BY <2>3, <2>5
    <2>7. \A n \in DOMAIN p : n \in DOMAIN q /\ q[n] = p[n]
      BY <2>3, <2>5
    <2>8. \A n \in DOMAIN q : n \in DOMAIN p \/ n = Len(p) + 1
      BY <2>3, <2>5
    <2>9. GivenBy(p) \subseteq GivenBy(q) /\ k \in GivenBy(q)
      BY <2>6, <2>7 DEF GivenBy
    <2>10. GivenBy(q) \subseteq GivenBy(p) \cup {k}
      BY <2>6, <2>7, <2>8 DEF GivenBy
    <2> QED
      BY <2>2, <2>5, <2>6, <2>7, <2>9, <2>10 DEF k, p, q
  <1> QED
    BY <1>1, <1>2

(* A target that is dealt with brings the call on.                          *)
LEMMA Advances ==
    ASSUME NEW call \in CallType, NEW next \in CallType, NEW answers,
           LoopOf(call, answers), Same(call, next), call.at <= Len(call.targets),
           next.at = call.at + 1, next.consumed = call.at, next.opened = call.opened,
           call.failed \subseteq next.failed, call.missing \subseteq next.missing,
           Lacks(next.missing, next.entries), Grown(next, call),
           Dealt(call.targets[call.at], next)
    PROVE  LoopOf(next, answers)
  <1> DEFINE at == call.at
             k == call.targets[at].key
  <1>1. /\ at \in DOMAIN call.targets /\ call.consumed = at - 1 /\ call.start < at
        /\ at \in Nat /\ call.start \in Nat /\ Len(call.targets) \in Nat
        /\ DOMAIN call.targets = 1..Len(call.targets)
    BY ToGo, CallFacts
  <1>2. /\ next.start = call.start /\ next.from = call.from
        /\ next.entries = call.entries /\ next.neighbors = call.neighbors
        /\ next.targets = call.targets
    BY DEF Same
  <1>3. /\ GivenBy(call.passages) \subseteq GivenBy(next.passages)
        /\ next.passages # call.passages =>
             /\ k \notin GivenBy(call.passages)
             /\ Len(next.passages) = Len(call.passages) + 1
             /\ next.passages[Len(call.passages) + 1].key = k
             /\ \A n \in DOMAIN call.passages : next.passages[n] = call.passages[n]
    BY <1>1, GrownIs
  <1>4. /\ Len(call.passages) \in Nat /\ DOMAIN call.passages = 1..Len(call.passages)
        /\ Len(next.passages) \in Nat /\ DOMAIN next.passages = 1..Len(next.passages)
    BY CallFacts
  <1>5. Fits(next.entries, next.neighbors, next.targets, next.failed)
    BY <1>2, StaysFit DEF LoopOf
  <1>6. ASSUME NEW i \in (next.start + 1)..next.consumed PROVE Dealt(next.targets[i], next)
    <2>1. CASE i = at
      BY <1>2, <2>1
    <2>2. CASE i # at
      <3>1. i \in (call.start + 1)..call.consumed
        BY <1>1, <1>2, <1>6, <2>2
      <3>2. Dealt(call.targets[i], call)
        BY <3>1 DEF LoopOf
      <3> QED
        BY <1>2, <1>3, <3>2, StaysDealt
    <2> QED
      BY <2>1, <2>2
  <1>7. ASSUME NEW n \in DOMAIN next.passages
        PROVE  \/ n \in DOMAIN call.passages /\ next.passages[n] = call.passages[n]
               \/ /\ next.passages[n].key = k /\ k \notin GivenBy(call.passages)
                  /\ n = Len(call.passages) + 1
    BY <1>3, <1>4
  <1>8. ASSUME NEW n \in DOMAIN next.passages
        PROVE  \E i \in (next.start + 1)..next.consumed : next.passages[n].key = next.targets[i].key
    <2>1. CASE n \in DOMAIN call.passages /\ next.passages[n] = call.passages[n]
      <3>1. PICK i \in (call.start + 1)..call.consumed : call.passages[n].key = call.targets[i].key
        BY <2>1 DEF LoopOf
      <3>2. i \in (next.start + 1)..next.consumed
        BY <1>1, <1>2
      <3> QED
        BY <1>2, <2>1, <3>1, <3>2
    <2>2. CASE next.passages[n].key = k
      <3>1. at \in (next.start + 1)..next.consumed
        BY <1>1, <1>2
      <3> QED
        BY <1>2, <2>2, <3>1
    <2> QED
      BY <1>7, <2>1, <2>2
  <1>9. ASSUME NEW m \in DOMAIN next.passages, NEW n \in DOMAIN next.passages,
               next.passages[m].key = next.passages[n].key
        PROVE  m = n
    <2>1. CASE m \in DOMAIN call.passages /\ n \in DOMAIN call.passages
      <3>1. next.passages[m] = call.passages[m] /\ next.passages[n] = call.passages[n]
        BY <1>4, <1>7, <2>1
      <3> QED
        BY <1>9, <2>1, <3>1 DEF LoopOf
    <2>2. CASE m \notin DOMAIN call.passages /\ n \notin DOMAIN call.passages
      BY <1>7, <2>2
    <2>3. \A j \in DOMAIN call.passages : call.passages[j].key \in GivenBy(call.passages)
      BY DEF GivenBy
    <2>4. CASE m \in DOMAIN call.passages /\ n \notin DOMAIN call.passages
      <3>1. next.passages[m] = call.passages[m]
        BY <1>4, <1>7, <2>4
      <3> QED
        BY <1>7, <1>9, <2>3, <2>4, <3>1
    <2>5. CASE m \notin DOMAIN call.passages /\ n \in DOMAIN call.passages
      <3>1. next.passages[n] = call.passages[n]
        BY <1>4, <1>7, <2>5
      <3> QED
        BY <1>7, <1>9, <2>3, <2>5, <3>1
    <2> QED
      BY <2>1, <2>2, <2>4, <2>5
  <1>10. /\ next.from \in 0..Len(answers) /\ (next.from # 0 => answers[next.from].more)
         /\ next.start = IF next.from = 0 THEN 0 ELSE answers[next.from].next
    BY <1>2 DEF LoopOf
  <1>11. /\ next.start <= next.consumed /\ next.consumed <= next.at
         /\ next.consumed = next.at - 1 /\ next.start < next.consumed
         /\ next.consumed <= Len(next.targets)
    BY <1>1, <1>2
  <1> QED
    BY <1>5, <1>6, <1>8, <1>9, <1>10, <1>11 DEF LoopOf

(* A passage for which there is no room ends the loop before its target.    *)
LEMMA CutShort ==
    ASSUME NEW call \in CallType, NEW next \in CallType, NEW answers,
           LoopOf(call, answers), Same(call, next), call.at <= Len(call.targets),
           next.at = Len(call.targets) + 1, next.consumed = call.consumed, next.opened = call.opened,
           next.failed = call.failed, next.missing = call.missing,
           next.passages = call.passages, call.passages # <<>>
    PROVE  LoopOf(next, answers)
  <1>1. /\ call.consumed = call.at - 1 /\ call.at \in Nat /\ Len(call.targets) \in Nat
    BY ToGo, CallFacts
  <1>2. /\ next.start = call.start /\ next.from = call.from
        /\ next.entries = call.entries /\ next.neighbors = call.neighbors
        /\ next.targets = call.targets
    BY DEF Same
  <1>3. next.consumed <= next.at /\ next.at > Len(next.targets)
    BY <1>1, <1>2
  <1>4. \A i : Dealt(call.targets[i], call) => Dealt(call.targets[i], next)
    BY DEF Dealt
  <1> QED
    BY <1>2, <1>3, <1>4 DEF LoopOf

(* A book is opened.                                                        *)
LEMMA Opens ==
    ASSUME NEW call \in CallType, NEW next \in CallType, NEW answers,
           LoopOf(call, answers), Same(call, next), next.at = call.at, next.consumed = call.consumed,
           NEW book, call.opened[book] = "unknown",
           \A b \in Books : b # book => next.opened[b] = call.opened[b],
           next.failed = call.failed, next.missing = call.missing,
           next.passages = call.passages
    PROVE  LoopOf(next, answers)
  <1>1. /\ next.start = call.start /\ next.from = call.from
        /\ next.entries = call.entries /\ next.neighbors = call.neighbors
        /\ next.targets = call.targets
    BY DEF Same
  <1>2. ASSUME NEW i \in (call.start + 1)..call.consumed PROVE Dealt(call.targets[i], next)
    <2> DEFINE t == call.targets[i]
    <2>1. Dealt(t, call)
      BY DEF LoopOf
    <2>2. i \in DOMAIN call.targets
      BY CallFacts DEF LoopOf
    <2>3. t.key[1] \in Books
      BY <2>2, CallFacts
    <2>4. call.opened[t.key[1]] = "unknown" \/ next.opened[t.key[1]] = call.opened[t.key[1]]
      BY <2>3
    <2> HIDE DEF t
    <2>5. Dealt(t, next)
      BY <2>1, <2>4, StaysDealt
    <2> QED
      BY <2>5 DEF t
  <1> QED
    BY <1>1, <1>2 DEF LoopOf

-----------------------------------------------------------------------------
(* Requests for text. *)
LEMMA Ceilings ==
    ASSUME NEW n \in Nat
    PROVE  /\ Cap \in Nat /\ Cap > 0 /\ MissCap \in Nat
           /\ Ceiling(n) \in Nat /\ Ceiling(n) >= n /\ Ceiling(n) >= Cap /\ Ceiling(1) = Cap
  <1>1. Cap \in Nat \ {0} /\ MissCap \in Nat \ {0}
    BY FetchAssumption DEF FetchAssumption
  <1> QED
    BY <1>1 DEF Ceiling

(* The window of the call under way. *)
LEMMA WantedIs ==
    ASSUME now \in CallType
    PROVE  /\ Wanted \in Seq(KeySet) /\ IsInjective(Wanted)
           /\ Len(Wanted) \in Nat /\ Len(Wanted) <= now.limit
           /\ ToSet(Wanted) = InWindow(now.targets, now.start, now.limit)
           /\ IsFiniteSet(ToSet(Wanted)) /\ Cardinality(ToSet(Wanted)) = Len(Wanted)
  <1>1. now.targets \in TargetLists /\ now.start \in Nat /\ now.limit \in Nat
    BY CallFacts
  <1>2. /\ Wanted \in Seq(KeySet) /\ IsInjective(Wanted)
        /\ Len(Wanted) \in Nat /\ Len(Wanted) <= now.limit
        /\ ToSet(Wanted) = InWindow(now.targets, now.start, now.limit)
    BY <1>1, WindowIs DEF Wanted
  <1> QED
    BY <1>2, OnceCounts

(* What is wanted and neither cached nor known to be missing. *)
LEMMA OutstandingIs ==
    ASSUME NEW wanted \in Seq(KeySet), IsInjective(wanted)
    PROVE  /\ Outstanding(wanted) \in Seq(KeySet) /\ IsInjective(Outstanding(wanted))
           /\ ToSet(Outstanding(wanted)) = ToSet(wanted) \ (ToSet(pages) \cup ToSet(missed))
           /\ Len(Outstanding(wanted)) \in Nat /\ Len(Outstanding(wanted)) <= Len(wanted)
           /\ ToSet(Outstanding(wanted)) = {} <=> Outstanding(wanted) = <<>>
  <1> DEFINE s == Outstanding(wanted)
  <1>1. /\ s \in Seq(KeySet) /\ IsInjective(s)
        /\ ToSet(s) = ToSet(wanted) \cap (ToSet(wanted) \ (ToSet(pages) \cup ToSet(missed)))
        /\ Len(s) \in Nat /\ Len(s) <= Len(wanted)
    BY OnlySorts DEF Outstanding
  <1> HIDE DEF s
  <1>2. ToSet(s) = {} <=> s = <<>>
    <2>1. Len(s) \in Nat /\ DOMAIN s = 1..Len(s)
      BY <1>1, SeqFacts
    <2>2. ToSet(s) = {} => Len(s) = 0
      <3>1. Len(s) # 0 => 1 \in DOMAIN s
        BY <2>1
      <3>2. 1 \in DOMAIN s => s[1] \in ToSet(s)
        BY DEF ToSet
      <3> QED
        BY <3>1, <3>2
    <2>3. Len(s) = 0 => s = <<>>
      BY <1>1, EmptySeq
    <2>4. s = <<>> => ToSet(s) = {}
      BY DEF ToSet
    <2> QED
      BY <2>2, <2>3, <2>4
  <1> QED
    BY <1>1, <1>2 DEF s

CacheType ==
    /\ pages \in Seq(KeySet) /\ missed \in Seq(KeySet)
    /\ IsInjective(pages \o missed) /\ Unheld(missed)

(* No page is both cached and missed. *)
LEMMA Apart ==
    ASSUME CacheType
    PROVE  /\ IsInjective(pages) /\ IsInjective(missed) /\ ToSet(pages) \cap ToSet(missed) = {}
  BY Joined DEF CacheType

(* An answer: what was found is cached, as far as it fits, what was not is  *)
(* remembered.                                                              *)
LEMMA FetchedIs ==
    ASSUME CacheType, NEW need \in Seq(KeySet), IsInjective(need),
           ToSet(need) \cap (ToSet(pages) \cup ToSet(missed)) = {},
           NEW fetching \in Nat, Fetched(need, fetching)
    PROVE  /\ CacheType'
           /\ Len(pages') <= Ceiling(fetching) /\ Len(missed') <= MissCap
           /\ ToSet(pages') \subseteq ToSet(pages) \cup Found(need)
           /\ \A W : /\ IsFiniteSet(W) /\ Cardinality(W) <= Ceiling(fetching)
                     /\ Newest(pages, W) /\ ToSet(need) \subseteq W
                     => W \cap (ToSet(pages) \cup Found(need)) \subseteq ToSet(pages')
           /\ missed = <<>> /\ Cardinality(ToSet(need) \ Found(need)) <= MissCap =>
                ToSet(missed') = ToSet(need) \ Found(need)
  <1> DEFINE here == Found(need)
             a == Only(need, here)
             b == Only(need, ToSet(need) \ here)
             p == Added(pages, a)
             m == Added(missed, b)
             cap == Ceiling(fetching)
  <1>1. pages' = Trimmed(p, cap) /\ missed' = Trimmed(m, MissCap)
    BY DEF Fetched
  <1>2. here \in SUBSET ToSet(need)
    BY DEF Found
  <1>3. /\ pages \in Seq(KeySet) /\ missed \in Seq(KeySet) /\ Unheld(missed)
        /\ IsInjective(pages) /\ IsInjective(missed) /\ ToSet(pages) \cap ToSet(missed) = {}
    BY Apart DEF CacheType
  <1>4. cap \in Nat /\ MissCap \in Nat
    BY Ceilings
  <1>5. /\ a \in Seq(KeySet) /\ ToSet(a) = here /\ IsInjective(a) /\ Len(a) <= Len(need)
        /\ b \in Seq(KeySet) /\ ToSet(b) = ToSet(need) \ here /\ IsInjective(b) /\ Len(b) <= Len(need)
        /\ Len(b) \in Nat /\ Len(need) \in Nat
    <2> HIDE DEF here
    <2>1. /\ a \in Seq(KeySet) /\ ToSet(a) = ToSet(need) \cap here /\ IsInjective(a)
          /\ Len(a) <= Len(need)
      BY OnlySorts
    <2>2. /\ b \in Seq(KeySet) /\ ToSet(b) = ToSet(need) \cap (ToSet(need) \ here) /\ IsInjective(b)
          /\ Len(b) <= Len(need) /\ Len(b) \in Nat
      BY OnlySorts
    <2>3. Len(need) \in Nat
      BY SeqFacts
    <2> QED
      BY <1>2, <2>1, <2>2, <2>3
  <1> HIDE DEF here, a, b
  <1>6. /\ p \in Seq(KeySet) /\ IsInjective(p) /\ ToSet(p) = ToSet(pages) \cup here
        /\ \A W : Newest(pages, W) /\ here \subseteq W => Newest(p, W)
    BY <1>3, <1>5, AddedAll
  <1>7. /\ m \in Seq(KeySet) /\ IsInjective(m) /\ ToSet(m) = ToSet(missed) \cup (ToSet(need) \ here)
        /\ Len(m) \in Nat /\ Len(m) <= Len(missed) + Len(b)
    BY <1>3, <1>5, AddedAll
  <1> HIDE DEF p, m, cap
  <1>8. /\ pages' \in Seq(KeySet) /\ Len(pages') <= cap /\ ToSet(pages') \subseteq ToSet(p)
        /\ IsInjective(pages')
    BY <1>1, <1>4, <1>6, TrimmedTo
  <1>9. /\ missed' \in Seq(KeySet) /\ Len(missed') <= MissCap /\ ToSet(missed') \subseteq ToSet(m)
        /\ IsInjective(missed') /\ (Len(m) <= MissCap => missed' = m)
    BY <1>1, <1>4, <1>7, TrimmedTo
  <1>10. IsInjective(pages' \o missed')
    <2>1. ToSet(pages') \cap ToSet(missed') = {}
      BY <1>2, <1>3, <1>6, <1>7, <1>8, <1>9
    <2> QED
      BY <1>8, <1>9, <2>1, Joined
  <1>11. Unheld(missed')
    <2> SUFFICES ASSUME NEW k \in ToSet(missed') PROVE k \notin Found(<<k>>)
      BY DEF Unheld
    <2>1. k \in ToSet(missed) \/ (k \in ToSet(need) /\ k \notin here)
      BY <1>7, <1>9
    <2>2. CASE k \in ToSet(missed)
      BY <1>3, <2>2 DEF Unheld
    <2>3. CASE k \in ToSet(need) /\ k \notin here
      <3>1. k \in KeySet
        BY <2>3, SeqFacts
      <3> QED
        BY <2>3, <3>1, OneFound DEF here
    <2> QED
      BY <2>1, <2>2, <2>3
  <1>12. ASSUME NEW W, IsFiniteSet(W), Cardinality(W) <= cap, Newest(pages, W), ToSet(need) \subseteq W
         PROVE  W \cap (ToSet(pages) \cup here) \subseteq ToSet(pages')
    <2>1. Newest(p, W)
      BY <1>2, <1>6, <1>12
    <2>2. ToSet(p) \cap W \subseteq ToSet(Trimmed(p, cap))
      BY <1>4, <1>6, <1>12, <2>1, TrimKeeps
    <2> QED
      BY <1>1, <1>6, <2>2
  <1>13. ASSUME missed = <<>>, Cardinality(ToSet(need) \ here) <= MissCap
         PROVE  ToSet(missed') = ToSet(need) \ here
    <2>1. Len(missed) = 0 /\ ToSet(missed) = {}
      BY <1>13 DEF ToSet
    <2>2. Len(m) <= MissCap
      <3>1. Len(b) = Cardinality(ToSet(need) \ here)
        BY <1>5, OnceCounts
      <3> QED
        BY <1>4, <1>5, <1>7, <1>13, <2>1, <3>1
    <2> QED
      BY <1>7, <1>9, <2>1, <2>2
  <1>14. CacheType'
    BY <1>8, <1>9, <1>10, <1>11 DEF CacheType
  <1> QED
    BY <1>6, <1>8, <1>9, <1>12, <1>13, <1>14 DEF here, cap

(* A request that failed only trims. *)
LEMMA UnfetchedIs ==
    ASSUME CacheType, NEW fetching \in Nat, Unfetched(fetching)
    PROVE  /\ CacheType'
           /\ Len(pages') <= Ceiling(fetching) /\ Len(missed') <= MissCap
  <1>1. /\ pages \in Seq(KeySet) /\ missed \in Seq(KeySet) /\ Unheld(missed)
        /\ IsInjective(pages) /\ IsInjective(missed) /\ ToSet(pages) \cap ToSet(missed) = {}
    BY Apart DEF CacheType
  <1>2. Ceiling(fetching) \in Nat /\ MissCap \in Nat
    BY Ceilings
  <1>3. /\ pages' \in Seq(KeySet) /\ Len(pages') <= Ceiling(fetching)
        /\ ToSet(pages') \subseteq ToSet(pages) /\ IsInjective(pages')
    BY <1>1, <1>2, TrimmedTo DEF Unfetched
  <1>4. /\ missed' \in Seq(KeySet) /\ Len(missed') <= MissCap
        /\ ToSet(missed') \subseteq ToSet(missed) /\ IsInjective(missed')
    BY <1>1, <1>2, TrimmedTo DEF Unfetched
  <1>5. IsInjective(pages' \o missed')
    <2>1. ToSet(pages') \cap ToSet(missed') = {}
      BY <1>1, <1>3, <1>4
    <2> QED
      BY <1>3, <1>4, <2>1, Joined
  <1>6. Unheld(missed')
    BY <1>1, <1>4 DEF Unheld
  <1> QED
    BY <1>3, <1>4, <1>5, <1>6 DEF CacheType

-----------------------------------------------------------------------------
(* Steps of the loop. *)
LEMMA PassedIs ==
    ASSUME NEW call \in CallType
    PROVE  LET next == Passed(call)
           IN  /\ next \in CallType /\ Same(call, next)
               /\ next.at = call.at + 1 /\ next.consumed = call.at
               /\ next.opened = call.opened /\ next.passages = call.passages
               /\ next.failed = call.failed /\ next.missing = call.missing
               /\ next.cold = call.cold /\ next.again = call.again /\ next.trouble = call.trouble
  <1>1. call.at + 1 \in Nat
    BY CallFacts
  <1> QED
    BY <1>1 DEF Passed, CallType, Same

(* A passage is added, or the budget ends the loop. *)
LEMMA WithIs ==
    ASSUME now \in CallType, NEW call \in CallType, LoopOf(call, got), Same(now, call),
           call.at = now.at, call.at <= Len(call.targets), NEW text \in BOOLEAN,
           Target.key \notin GivenBy(call.passages)
    PROVE  LET next == With(call, text)
           IN  /\ next \in CallType /\ Same(call, next) /\ LoopOf(next, got)
               /\ next.at > call.at
               /\ next.cold = call.cold /\ next.again = call.again /\ next.trouble = call.trouble
               /\ \/ next.passages = call.passages
                  \/ next.passages = Append(call.passages, [key |-> Target.key, text |-> text])
  <1> DEFINE next == With(call, text)
             k == Target.key
             more == Append(call.passages, [key |-> k, text |-> text])
             mid == [call EXCEPT !.passages = more]
  <1>1. Target = call.targets[call.at]
    BY DEF Target, Same
  <1>2. /\ call.at \in DOMAIN call.targets /\ call.at \in Nat /\ Len(call.targets) \in Nat
        /\ call.room \in Nat \ {0} /\ Len(call.passages) \in Nat
        /\ call.passages \in PassageLists /\ call.missing \in SUBSET KeySet
    BY ToGo, CallFacts
  <1>3. k \in KeySet
    BY <1>1, <1>2, CallFacts
  <1>4. Lacks(call.missing, call.entries)
    BY DEF LoopOf
  <1>5. CASE Len(call.passages) < call.room
    <2>1. next = Passed(mid)
      BY <1>5 DEF With
    <2>2. more \in PassageLists
      <3> DEFINE p == call.passages
                 x == [key |-> k, text |-> text]
      <3>1. p \in Seq([key : KeySet, text : BOOLEAN]) /\ x \in [key : KeySet, text : BOOLEAN]
        BY <1>2, <1>3 DEF PassageLists
      <3> HIDE DEF p, x
      <3>2. Append(p, x) \in Seq([key : KeySet, text : BOOLEAN])
        BY <3>1
      <3> QED
        BY <3>2 DEF p, x, PassageLists
    <2> HIDE DEF more
    <2>3. /\ mid \in CallType /\ Same(call, mid)
          /\ mid.at = call.at /\ mid.consumed = call.consumed
          /\ mid.opened = call.opened /\ mid.passages = more
          /\ mid.failed = call.failed /\ mid.missing = call.missing
          /\ mid.cold = call.cold /\ mid.again = call.again /\ mid.trouble = call.trouble
      BY <2>2 DEF CallType, Same
    <2> HIDE DEF mid
    <2>4. /\ next \in CallType /\ Same(mid, next)
          /\ next.at = call.at + 1 /\ next.consumed = call.at
          /\ next.opened = call.opened /\ next.passages = more
          /\ next.failed = call.failed /\ next.missing = call.missing
          /\ next.cold = call.cold /\ next.again = call.again /\ next.trouble = call.trouble
      BY <2>1, <2>3, PassedIs
    <2>5. Same(call, next)
      BY <2>3, <2>4 DEF Same
    <2> HIDE DEF next
    <2>6. Grown(next, call)
      BY <1>1, <2>4 DEF Grown, more
    <2>7. next.passages # call.passages
      <3>1. call.passages \in Seq([key : KeySet, text : BOOLEAN])
        BY <1>2 DEF PassageLists
      <3>2. Len(more) = Len(call.passages) + 1
        BY <3>1 DEF more
      <3> QED
        BY <1>2, <2>4, <3>2
    <2>8. k \in GivenBy(next.passages)
      BY <1>1, <1>2, <2>4, <2>6, <2>7, GrownIs
    <2>9. Dealt(call.targets[call.at], next)
      BY <1>1, <2>8 DEF Dealt
    <2>10. Lacks(next.missing, next.entries)
      BY <1>4, <2>4, <2>5 DEF Same
    <2>11. LoopOf(next, got)
      BY <2>4, <2>5, <2>6, <2>9, <2>10, Advances
    <2>12. next.at > call.at
      BY <1>2, <2>4
    <2> QED
      BY <2>4, <2>5, <2>11, <2>12 DEF more, next
  <1>6. CASE ~(Len(call.passages) < call.room)
    <2>1. next = [call EXCEPT !.at = Len(call.targets) + 1]
      BY <1>6 DEF With
    <2>2. Len(call.targets) + 1 \in Nat
      BY <1>2
    <2>3. /\ next \in CallType /\ Same(call, next)
          /\ next.at = Len(call.targets) + 1 /\ next.consumed = call.consumed
          /\ next.opened = call.opened /\ next.passages = call.passages
          /\ next.failed = call.failed /\ next.missing = call.missing
          /\ next.cold = call.cold /\ next.again = call.again /\ next.trouble = call.trouble
      BY <2>1, <2>2 DEF CallType, Same
    <2>4. call.passages # <<>>
      BY <1>2, <1>6
    <2> HIDE DEF next
    <2>5. LoopOf(next, got)
      BY <2>3, <2>4, CutShort
    <2>6. next.at > call.at
      BY <1>2, <2>3
    <2> QED
      BY <2>3, <2>5, <2>6 DEF next
  <1> QED
    BY <1>5, <1>6

(* A passage that is added has its words, as the others have. *)
LEMMA StaysWorded ==
    ASSUME NEW call \in CallType, NEW next \in CallType, NEW k \in KeySet, NEW text \in BOOLEAN,
           Worded(call.passages, call.trouble), call.trouble => next.trouble,
           \/ next.passages = call.passages
           \/ next.passages = Append(call.passages, [key |-> k, text |-> text]),
           Printed(k), text \/ next.trouble \/ k \notin Found(<<k>>)
    PROVE  Worded(next.passages, next.trouble)
  <1> DEFINE p == call.passages
             q == next.passages
             x == [key |-> k, text |-> text]
  <1>1. p \in Seq([key : KeySet, text : BOOLEAN]) /\ x \in [key : KeySet, text : BOOLEAN]
    BY CallFacts DEF PassageLists
  <1>2. x.key = k /\ x.text = text
    OBVIOUS
  <1>3. q = p \/ q = Append(p, x)
    OBVIOUS
  <1>4. Worded(p, call.trouble)
    OBVIOUS
  <1> SUFFICES ASSUME NEW n \in DOMAIN q
               PROVE  /\ Printed(q[n].key)
                      /\ q[n].text \/ next.trouble \/ q[n].key \notin Found(<<q[n].key>>)
    BY DEF Worded
  <1> HIDE DEF p, q, x
  <1>5. (n \in DOMAIN p /\ q[n] = p[n]) \/ q[n] = x
    BY <1>1, <1>3
  <1>6. CASE n \in DOMAIN p /\ q[n] = p[n]
    BY <1>4, <1>6 DEF Worded
  <1>7. CASE q[n] = x
    BY <1>2, <1>7
  <1> QED
    BY <1>5, <1>6, <1>7

(* The types of the cache. *)
LEMMA CacheIs == ASSUME IInv PROVE CacheType
  BY DEF IInv, TypeInv, CacheInv, CacheType

(* What a step that leaves the call in the loop has to show.                *)
LEMMA StepOn ==
    ASSUME IInv, pc # "rest", pc' = "loop", cat' = cat, got' = got,
           now' \in CallType, Same(now, now'), LoopOf(now', got),
           CacheType', Len(pages') <= Ceiling(Len(Wanted)), Len(missed') <= MissCap,
           ~now'.cold => Kept(now', pages', missed') /\ now'.again \cap ToSet(Wanted) = {},
           Worded(now'.passages, now'.trouble)
    PROVE  IInv'
  <1>1. Wanted' = Wanted
    BY DEF Wanted, Same
  <1>2. TypeInv'
    BY DEF IInv, TypeInv, CacheType
  <1>3. CacheInv'
    BY <1>1 DEF CacheInv, CacheType
  <1>4. (\A c \in DOMAIN got : AnswerInv(got[c]))'
    BY DEF IInv
  <1>5. LoopOf(now, got)'
    OBVIOUS
  <1> QED
    BY <1>2, <1>3, <1>4, <1>5 DEF IInv

(* The target that the loop is at. *)
LEMMA AtTarget ==
    ASSUME now \in CallType, LoopOf(now, got), now.at <= Len(now.targets)
    PROVE  /\ Target = now.targets[now.at] /\ now.at \in DOMAIN now.targets
           /\ Target.key \in KeySet /\ Target.hit \in BOOLEAN
           /\ Book = Target.key[1] /\ Book \in Books /\ Target.key[2] \in Nat
           /\ Target.key = <<Target.key[1], Target.key[2]>>
           /\ Seen <=> Target.key \in GivenBy(now.passages)
           /\ now.at \in Nat /\ now.start < now.at /\ now.consumed = now.at - 1
  <1>1. now.at \in DOMAIN now.targets /\ now.start < now.at /\ now.consumed = now.at - 1 /\ now.at \in Nat
    BY ToGo, CallFacts
  <1>2. Target = now.targets[now.at]
    BY DEF Target
  <1>3. /\ Target.key \in KeySet /\ Target.hit \in BOOLEAN
        /\ Target.key[1] \in Books /\ Target.key[2] \in Nat
    BY <1>1, <1>2, CallFacts
  <1>4. Target.key = <<Target.key[1], Target.key[2]>>
    BY <1>3 DEF KeySet
  <1>5. Seen <=> Target.key \in GivenBy(now.passages)
    BY DEF Seen, GivenBy
  <1> QED
    BY <1>1, <1>2, <1>3, <1>4, <1>5 DEF Book

(* What the invariant says of a call under way. *)
LEMMA LoopFacts ==
    ASSUME IInv, pc # "rest"
    PROVE  /\ now \in CallType /\ LoopOf(now, got) /\ CacheType
           /\ Len(pages) <= Ceiling(Len(Wanted)) /\ Len(missed) <= MissCap
           /\ Worded(now.passages, now.trouble)
           /\ now.cold \in BOOLEAN /\ now.at \in Nat
           /\ pc \in {"loop", "text"} /\ ~now.cold =>
                Kept(now, pages, missed) /\ now.again \cap ToSet(Wanted) = {}
           /\ pc = "text" => TextInv
           /\ pc = "warm" => WarmInv
  BY CacheIs, CallFacts DEF IInv, TypeInv, CacheInv

(* Steps that leave the cache alone.                                        *)
LEMMA KeepsOn ==
    ASSUME NEW call \in CallType, NEW next \in CallType, Same(call, next), next.at >= call.at,
           NEW s, NEW t, Kept(call, s, t)
    PROVE  Kept(next, s, t)
  BY CallFacts DEF Kept, Same

(* A step that leaves the cache and the passages alone. *)
LEMMA CacheRests ==
    ASSUME IInv, pc = "loop", pc' = "loop", UNCHANGED <<cat, pages, missed, got>>,
           now' \in CallType, Same(now, now'), LoopOf(now', got), now'.at >= now.at,
           now'.cold = now.cold, now'.again = now.again, now'.trouble = now.trouble,
           now'.passages = now.passages
    PROVE  IInv'
  <1>1. /\ now \in CallType /\ CacheType
        /\ Len(pages) <= Ceiling(Len(Wanted)) /\ Len(missed) <= MissCap
        /\ Worded(now.passages, now.trouble)
        /\ ~now.cold => Kept(now, pages, missed) /\ now.again \cap ToSet(Wanted) = {}
    BY LoopFacts
  <1>2. CacheType'
    BY <1>1 DEF CacheType
  <1>3. ~now'.cold => Kept(now', pages', missed') /\ now'.again \cap ToSet(Wanted) = {}
    BY <1>1, KeepsOn
  <1> QED
    BY <1>1, <1>2, <1>3, StepOn

(* Targets that give no passage, and books that are opened. *)
LEMMA SkipSeenStep == ASSUME IInv, SkipSeen PROVE IInv'
  <1>1. pc = "loop" /\ now.at <= Len(now.targets) /\ Seen /\ pc' = "loop"
    BY DEF SkipSeen, InLoop
  <1>2. now \in CallType /\ LoopOf(now, got)
    BY <1>1, LoopFacts
  <1>3. now' = Passed(now) /\ UNCHANGED <<cat, pages, missed, got>>
    BY DEF SkipSeen
  <1>4. /\ now' \in CallType /\ Same(now, now') /\ now'.at = now.at + 1 /\ now'.consumed = now.at
        /\ now'.opened = now.opened /\ now'.passages = now.passages
        /\ now'.failed = now.failed /\ now'.missing = now.missing
        /\ now'.cold = now.cold /\ now'.again = now.again /\ now'.trouble = now.trouble
    BY <1>2, <1>3, PassedIs
  <1>5. Dealt(now.targets[now.at], now')
    BY <1>1, <1>2, <1>4, AtTarget DEF Dealt
  <1>6. Lacks(now'.missing, now'.entries)
    BY <1>2, <1>4 DEF LoopOf, Same
  <1>7. Grown(now', now)
    BY <1>4 DEF Grown
  <1>8. LoopOf(now', got)
    BY <1>1, <1>2, <1>4, <1>5, <1>6, <1>7, Advances
  <1>9. now'.at >= now.at
    BY <1>2, <1>4, CallFacts
  <1> QED
    BY <1>1, <1>3, <1>4, <1>8, <1>9, CacheRests

(* Opening a book deals with no target. *)
LEMMA OpenBookStep == ASSUME IInv, OpenBook PROVE IInv'
  <1>1. pc = "loop" /\ now.at <= Len(now.targets) /\ pc' = "loop" /\ now.opened[Book] = "unknown"
    BY DEF OpenBook, InLoop
  <1>2. now \in CallType /\ LoopOf(now, got) /\ Book \in Books
    BY <1>1, LoopFacts, AtTarget
  <1>3. UNCHANGED <<cat, pages, missed, got>>
    BY DEF OpenBook
  <1>4. PICK how \in {"open", "failed"} : now' = [now EXCEPT !.opened[Book] = how]
    BY DEF OpenBook
  <1> DEFINE o == [now.opened EXCEPT ![Book] = how]
             b == Book
  <1>5. now.opened \in [Books -> {"unknown", "open", "failed"}]
    BY <1>2, CallFacts
  <1>6. o \in [Books -> {"unknown", "open", "failed"}] /\ \A x \in Books : x # b => o[x] = now.opened[x]
    BY <1>2, <1>5
  <1>7. now' = [now EXCEPT !.opened = o]
    BY <1>4
  <1> HIDE DEF o, b
  <1>8. /\ now' \in CallType /\ Same(now, now') /\ now'.at = now.at /\ now'.consumed = now.consumed
        /\ now'.opened = o /\ now'.passages = now.passages
        /\ now'.failed = now.failed /\ now'.missing = now.missing
        /\ now'.cold = now.cold /\ now'.again = now.again /\ now'.trouble = now.trouble
    BY <1>2, <1>6, <1>7 DEF CallType, Same
  <1>9. now.opened[b] = "unknown" /\ \A x \in Books : x # b => now'.opened[x] = now.opened[x]
    BY <1>1, <1>6, <1>8 DEF b
  <1>10. LoopOf(now', got)
    BY <1>2, <1>8, <1>9, Opens
  <1>11. now'.at >= now.at
    BY <1>2, <1>8, CallFacts
  <1> QED
    BY <1>1, <1>3, <1>8, <1>10, <1>11, CacheRests

(* A book that does not open is named. *)
LEMMA SkipUnopenedStep == ASSUME IInv, SkipUnopened PROVE IInv'
  <1> DEFINE mid == [now EXCEPT !.failed = @ \cup {Book}]
  <1>1. pc = "loop" /\ now.at <= Len(now.targets) /\ pc' = "loop" /\ now.opened[Book] = "failed"
    BY DEF SkipUnopened, InLoop
  <1>2. now \in CallType /\ LoopOf(now, got)
    BY <1>1, LoopFacts
  <1>3. now' = Passed(mid) /\ UNCHANGED <<cat, pages, missed, got>>
    BY DEF SkipUnopened
  <1>4. /\ Target = now.targets[now.at] /\ Book = Target.key[1] /\ Book \in Books
    BY <1>1, <1>2, AtTarget
  <1>5. now.failed \cup {Book} \in SUBSET Books
    BY <1>2, <1>4, CallFacts
  <1>6. /\ mid \in CallType /\ Same(now, mid) /\ mid.at = now.at
        /\ mid.opened = now.opened /\ mid.passages = now.passages
        /\ mid.failed = now.failed \cup {Book} /\ mid.missing = now.missing
        /\ mid.cold = now.cold /\ mid.again = now.again /\ mid.trouble = now.trouble
    BY <1>2, <1>5 DEF CallType, Same
  <1> HIDE DEF mid
  <1>7. /\ now' \in CallType /\ Same(mid, now') /\ now'.at = now.at + 1 /\ now'.consumed = now.at
        /\ now'.opened = now.opened /\ now'.passages = now.passages
        /\ now'.failed = now.failed \cup {Book} /\ now'.missing = now.missing
        /\ now'.cold = now.cold /\ now'.again = now.again /\ now'.trouble = now.trouble
    BY <1>3, <1>6, PassedIs
  <1>8. Same(now, now')
    BY <1>6, <1>7 DEF Same
  <1>9. Dealt(now.targets[now.at], now')
    BY <1>1, <1>4, <1>7 DEF Dealt
  <1>10. Lacks(now'.missing, now'.entries)
    BY <1>2, <1>7, <1>8 DEF LoopOf, Same
  <1>11. Grown(now', now)
    BY <1>7 DEF Grown
  <1>12. now.failed \subseteq now'.failed /\ now.missing \subseteq now'.missing
    BY <1>7
  <1>13. LoopOf(now', got)
    BY <1>1, <1>2, <1>7, <1>8, <1>9, <1>10, <1>11, <1>12, Advances
  <1>14. now'.at >= now.at
    BY <1>2, <1>7, CallFacts
  <1> QED
    BY <1>1, <1>3, <1>7, <1>8, <1>13, <1>14, CacheRests

(* A page that its book lacks is reported if it was asked for. *)
LEMMA SkipMissingStep == ASSUME IInv, SkipMissing PROVE IInv'
  <1> DEFINE mid == [now EXCEPT !.missing = @ \cup Missing]
  <1>1. /\ pc = "loop" /\ now.at <= Len(now.targets) /\ pc' = "loop" /\ now.opened[Book] = "open"
        /\ Target.key[2] \notin PagesOf[Book]
    BY DEF SkipMissing, InLoop
  <1>2. now \in CallType /\ LoopOf(now, got)
    BY <1>1, LoopFacts
  <1>3. now' = Passed(mid) /\ UNCHANGED <<cat, pages, missed, got>>
    BY DEF SkipMissing
  <1>4. /\ Target = now.targets[now.at] /\ Book = Target.key[1] /\ now.at \in DOMAIN now.targets
        /\ Target.key \in KeySet
    BY <1>1, <1>2, AtTarget
  <1>5. now.missing \cup Missing \in SUBSET KeySet
    BY <1>2, <1>4, CallFacts DEF Missing
  <1>6. /\ mid \in CallType /\ Same(now, mid) /\ mid.at = now.at
        /\ mid.opened = now.opened /\ mid.passages = now.passages
        /\ mid.failed = now.failed /\ mid.missing = now.missing \cup Missing
        /\ mid.cold = now.cold /\ mid.again = now.again /\ mid.trouble = now.trouble
    BY <1>2, <1>5 DEF CallType, Same
  <1> HIDE DEF mid
  <1>7. /\ now' \in CallType /\ Same(mid, now') /\ now'.at = now.at + 1 /\ now'.consumed = now.at
        /\ now'.opened = now.opened /\ now'.passages = now.passages
        /\ now'.failed = now.failed /\ now'.missing = now.missing \cup Missing
        /\ now'.cold = now.cold /\ now'.again = now.again /\ now'.trouble = now.trouble
    BY <1>3, <1>6, PassedIs
  <1>8. Same(now, now')
    BY <1>6, <1>7 DEF Same
  <1>9. Dealt(now.targets[now.at], now')
    BY <1>1, <1>4, <1>7 DEF Dealt, Lost, Missing
  <1>10. Lacks(now'.missing, now'.entries)
    <2>1. Lacks(now.missing, now.entries)
      BY <1>2 DEF LoopOf
    <2>2. ASSUME NEW k \in Missing PROVE k[2] \notin PagesOf[k[1]] /\ AskedBy(k, now.entries)
      <3>1. k = Target.key /\ Target.hit
        BY DEF Missing
      <3>2. AskedBy(Target.key, now.entries)
        BY <1>2, <1>4, <3>1 DEF LoopOf, Fits
      <3> QED
        BY <1>1, <1>4, <3>1, <3>2
    <2> QED
      BY <1>7, <1>8, <2>1, <2>2 DEF Lacks, Same
  <1>11. Grown(now', now)
    BY <1>7 DEF Grown
  <1>12. now.failed \subseteq now'.failed /\ now.missing \subseteq now'.missing
    BY <1>7
  <1>13. LoopOf(now', got)
    BY <1>1, <1>2, <1>7, <1>8, <1>9, <1>10, <1>11, <1>12, Advances
  <1>14. now'.at >= now.at
    BY <1>2, <1>7, CallFacts
  <1> QED
    BY <1>1, <1>3, <1>7, <1>8, <1>13, <1>14, CacheRests

(* Steps that read a page.                                                  *)
LEMMA KnownPage ==
    ASSUME CacheType, NEW k \in KeySet
    PROVE  /\ Outstanding(<<k>>) = <<>> <=> k \in ToSet(pages) \cup ToSet(missed)
           /\ k \notin ToSet(pages) \cup ToSet(missed) =>
                /\ <<k>> \in Seq(KeySet) /\ IsInjective(<<k>>) /\ Len(<<k>>) = 1 /\ ToSet(<<k>>) = {k}
  <1>1. <<k>> \in Seq(KeySet) /\ IsInjective(<<k>>) /\ Len(<<k>>) = 1 /\ ToSet(<<k>>) = {k}
    BY OneFound
  <1> DEFINE w == <<k>>
             known == ToSet(pages) \cup ToSet(missed)
  <1>2. w \in Seq(KeySet) /\ IsInjective(w) /\ ToSet(w) = {k}
    BY <1>1
  <1> HIDE DEF w
  <1>3. /\ ToSet(Outstanding(w)) = ToSet(w) \ known
        /\ ToSet(Outstanding(w)) = {} <=> Outstanding(w) = <<>>
    BY <1>2, OutstandingIs
  <1>4. Outstanding(w) = <<>> <=> k \in known
    BY <1>2, <1>3
  <1> QED
    BY <1>1, <1>4 DEF w

(* The page's text is known. *)
LEMMA ReadCachedStep == ASSUME IInv, ReadCached PROVE IInv'
  <1> DEFINE k == Target.key
             text == Has(pages, Target.key)
  <1>1. /\ pc = "loop" /\ now.at <= Len(now.targets) /\ pc' = "loop" /\ ~Seen
        /\ Outstanding(<<k>>) = <<>>
    BY DEF ReadCached, HasPage, InLoop
  <1>2. /\ now \in CallType /\ LoopOf(now, got) /\ CacheType
        /\ Len(pages) <= Ceiling(Len(Wanted)) /\ Len(missed) <= MissCap
        /\ Worded(now.passages, now.trouble)
        /\ ~now.cold => Kept(now, pages, missed) /\ now.again \cap ToSet(Wanted) = {}
    BY <1>1, LoopFacts
  <1>3. now' = With(now, text) /\ pages' = Touched(pages, <<k>>) /\ UNCHANGED <<cat, missed, got>>
    BY DEF ReadCached
  <1>4. k \in KeySet /\ k \notin GivenBy(now.passages) /\ now.at \in Nat
    BY <1>1, <1>2, AtTarget
  <1>5. text \in BOOLEAN /\ (text <=> k \in ToSet(pages))
    BY DEF Has
  <1>6. Printed(k)
    BY DEF ReadCached, HasPage, Book, Printed
  <1>7. Same(now, now)
    BY DEF Same
  <1> HIDE DEF text
  <1>8. /\ now' \in CallType /\ Same(now, now') /\ LoopOf(now', got) /\ now'.at > now.at
        /\ now'.cold = now.cold /\ now'.again = now.again /\ now'.trouble = now.trouble
        /\ \/ now'.passages = now.passages
           \/ now'.passages = Append(now.passages, [key |-> k, text |-> text])
    BY <1>1, <1>2, <1>3, <1>4, <1>5, <1>7, WithIs
  <1> HIDE DEF k
  <1>9. k \in ToSet(pages) \cup ToSet(missed)
    BY <1>1, <1>2, <1>4, KnownPage
  <1>10. text \/ k \notin Found(<<k>>)
    BY <1>2, <1>5, <1>9 DEF CacheType, Unheld
  <1>11. Worded(now'.passages, now'.trouble)
    BY <1>2, <1>4, <1>5, <1>8, <1>10, <1>6, StaysWorded
  <1>12. /\ pages' \in Seq(KeySet) /\ IsInjective(pages') /\ ToSet(pages') = ToSet(pages)
         /\ Len(pages') = Len(pages)
    <2>1. pages \in Seq(KeySet) /\ IsInjective(pages)
      BY <1>2, Apart DEF CacheType
    <2>2. <<k>> \in Seq(KeySet) /\ IsInjective(<<k>>)
      BY <1>4, OneFound
    <2> QED
      BY <1>3, <2>1, <2>2, TouchedSame
  <1>13. CacheType'
    <2>1. missed \in Seq(KeySet) /\ IsInjective(missed) /\ ToSet(pages') \cap ToSet(missed) = {}
      BY <1>2, <1>12, Apart DEF CacheType
    <2>2. IsInjective(pages' \o missed)
      BY <1>12, <2>1, Joined
    <2> QED
      BY <1>2, <1>3, <1>12, <2>1, <2>2 DEF CacheType
  <1>14. ~now'.cold => Kept(now', pages', missed') /\ now'.again \cap ToSet(Wanted) = {}
    <2>1. now'.at >= now.at
      BY <1>2, <1>8, CallFacts
    <2>2. ~now.cold => Kept(now', pages, missed)
      BY <1>2, <1>8, <2>1, KeepsOn
    <2>3. Kept(now', pages, missed) => Kept(now', pages', missed')
      BY <1>3, <1>12 DEF Kept
    <2> QED
      BY <1>2, <1>8, <2>2, <2>3
  <1> QED
    BY <1>1, <1>2, <1>3, <1>8, <1>11, <1>12, <1>13, <1>14, StepOn

(* A page of the window is asked for alone only when the window's text was  *)
(* lost.                                                                    *)
LEMMA AskPageStep == ASSUME IInv, AskPage PROVE IInv'
  <1> DEFINE k == Target.key
  <1>1. /\ pc = "loop" /\ now.at <= Len(now.targets) /\ pc' = "text" /\ ~Seen
        /\ Outstanding(<<k>>) # <<>>
        /\ now.opened[Book] = "open" /\ Target.key[2] \in PagesOf[Book]
    BY DEF AskPage, HasPage, InLoop
  <1>2. /\ now \in CallType /\ LoopOf(now, got) /\ CacheType
        /\ Len(pages) <= Ceiling(Len(Wanted)) /\ Len(missed) <= MissCap
        /\ Worded(now.passages, now.trouble)
        /\ ~now.cold => Kept(now, pages, missed) /\ now.again \cap ToSet(Wanted) = {}
    BY <1>1, LoopFacts
  <1>3. now' = [now EXCEPT !.again = @ \cup {k}] /\ UNCHANGED <<cat, pages, missed, got>>
    BY DEF AskPage
  <1>4. /\ k \in KeySet /\ k = now.targets[now.at].key /\ now.at \in DOMAIN now.targets
        /\ now.at \in Nat /\ now.start < now.at /\ now.consumed = now.at - 1
        /\ Book = k[1] /\ (Seen <=> k \in GivenBy(now.passages))
    BY <1>1, <1>2, AtTarget
  <1>5. now.again \cup {k} \in SUBSET KeySet
    BY <1>2, <1>4, CallFacts
  <1>6. /\ now' \in CallType /\ Same(now, now') /\ now'.at = now.at /\ now'.consumed = now.consumed
        /\ now'.opened = now.opened /\ now'.passages = now.passages
        /\ now'.failed = now.failed /\ now'.missing = now.missing
        /\ now'.cold = now.cold /\ now'.again = now.again \cup {k} /\ now'.trouble = now.trouble
    BY <1>2, <1>3, <1>5 DEF CallType, Same
  <1>7. k \notin ToSet(pages) \cup ToSet(missed)
    BY <1>1, <1>2, <1>4, KnownPage
  <1>8. ~now.cold => now.at > now.start + now.limit
    <2> SUFFICES ASSUME ~now.cold, ~(now.at > now.start + now.limit) PROVE FALSE
      OBVIOUS
    <2>1. now.at \in now.at..(now.start + now.limit) /\ now.at <= Len(now.targets)
      BY <1>1, <1>2, <1>4, CallFacts
    <2> QED
      BY <1>2, <1>4, <1>7, <2>1 DEF Kept
  <1>9. ~now.cold => k \notin ToSet(Wanted)
    <2> SUFFICES ASSUME ~now.cold, k \in ToSet(Wanted) PROVE FALSE
      OBVIOUS
    <2>1. ToSet(Wanted) = InWindow(now.targets, now.start, now.limit)
      BY <1>2, WantedIs
    <2>2. PICK j \in DOMAIN now.targets :
             now.start < j /\ j <= now.start + now.limit /\ k = now.targets[j].key
      BY <2>1 DEF InWindow
    <2>3. j \in (now.start + 1)..now.consumed
      <3>1. /\ now.start \in Nat /\ now.limit \in Nat /\ now.consumed = now.at - 1 /\ now.at \in Nat
            /\ now.at > now.start + now.limit /\ j \in Nat
        BY <1>2, <1>4, <1>8, <2>2, CallFacts
      <3>2. now.start < j /\ j <= now.start + now.limit
        BY <2>2
      <3> QED
        BY <3>1, <3>2
    <2>4. Dealt(now.targets[j], now)
      BY <1>2, <2>3 DEF LoopOf
    <2> QED
      BY <1>1, <1>4, <2>2, <2>4 DEF Dealt, Lost
  <1>10. Wanted' = Wanted
    BY <1>6 DEF Wanted, Same
  <1>11. Target' = Target /\ Book' = Book
    BY <1>6 DEF Target, Book, Same
  <1>12. TextInv'
    <2>1. ~Seen'
      BY <1>1, <1>6, <1>11 DEF Seen
    <2>2. /\ now'.at <= Len(now'.targets) /\ now'.opened[Book'] = "open"
          /\ Target'.key[2] \in PagesOf[Book']
          /\ Target'.key \notin ToSet(pages') \cup ToSet(missed')
          /\ ~now'.cold => now'.at > now'.start + now'.limit
      BY <1>1, <1>3, <1>6, <1>7, <1>8, <1>11 DEF Same
    <2> QED
      BY <2>1, <2>2 DEF TextInv
  <1>13. LoopOf(now', got)
    <2>1. \A i : Dealt(now.targets[i], now) => Dealt(now.targets[i], now')
      BY <1>6 DEF Dealt
    <2> QED
      BY <1>2, <1>6, <2>1 DEF LoopOf, Same
  <1>14. ~now'.cold => Kept(now', pages', missed') /\ now'.again \cap ToSet(Wanted) = {}
    <2>1. ~now.cold => Kept(now', pages', missed')
      <3> SUFFICES ASSUME ~now.cold PROVE Kept(now', pages', missed')
        OBVIOUS
      <3>1. Kept(now, pages, missed)
        BY <1>2
      <3>2. now \in CallType /\ now' \in CallType /\ Same(now, now') /\ now'.at >= now.at
        BY <1>2, <1>4, <1>6
      <3>3. Kept(now', pages, missed)
        BY <3>1, <3>2, KeepsOn
      <3> QED
        BY <1>3, <3>3
    <2> QED
      BY <1>2, <1>6, <1>9, <2>1
  <1>15. CacheInv'
    BY <1>1, <1>2, <1>3, <1>6, <1>10, <1>12, <1>14 DEF CacheInv, CacheType
  <1>16. TypeInv' /\ (\A c \in DOMAIN got : AnswerInv(got[c]))'
    BY <1>1, <1>3, <1>6 DEF IInv, TypeInv
  <1>17. LoopOf(now, got)'
    BY <1>3, <1>13
  <1> QED
    BY <1>1, <1>15, <1>16, <1>17 DEF IInv

(* The page asked for alone comes, or does not.                             *)
LEMMA PageAnswersStep == ASSUME IInv, PageAnswers PROVE IInv'
  <1> DEFINE k == Target.key
             text == Has(pages', Target.key)
  <1>1. pc = "text" /\ pc' = "loop"
    BY DEF PageAnswers
  <1>2. /\ now \in CallType /\ LoopOf(now, got) /\ CacheType
        /\ Len(pages) <= Ceiling(Len(Wanted)) /\ Len(missed) <= MissCap
        /\ Worded(now.passages, now.trouble) /\ TextInv
        /\ ~now.cold => Kept(now, pages, missed) /\ now.again \cap ToSet(Wanted) = {}
    BY <1>1, LoopFacts
  <1>3. now' = With(now, text) /\ Fetched(<<k>>, 1) /\ UNCHANGED <<cat, got>>
    BY DEF PageAnswers
  <1>4. /\ now.at <= Len(now.targets) /\ k \notin ToSet(pages) \cup ToSet(missed)
        /\ ~now.cold => now.at > now.start + now.limit
    BY <1>2 DEF TextInv
  <1>5. k \in KeySet /\ k \notin GivenBy(now.passages) /\ now.at \in Nat
    BY <1>2, <1>4, AtTarget DEF TextInv
  <1>6. text \in BOOLEAN /\ (text <=> k \in ToSet(pages'))
    BY DEF Has
  <1>7. Same(now, now)
    BY DEF Same
  <1> HIDE DEF text
  <1>8. /\ now' \in CallType /\ Same(now, now') /\ LoopOf(now', got) /\ now'.at > now.at
        /\ now'.cold = now.cold /\ now'.again = now.again /\ now'.trouble = now.trouble
        /\ \/ now'.passages = now.passages
           \/ now'.passages = Append(now.passages, [key |-> k, text |-> text])
    BY <1>2, <1>3, <1>4, <1>5, <1>6, <1>7, WithIs
  <1> HIDE DEF k
  <1>9. <<k>> \in Seq(KeySet) /\ IsInjective(<<k>>) /\ ToSet(<<k>>) = {k} /\ 1 \in Nat
    BY <1>5, OneFound
  <1>10. /\ CacheType' /\ Len(pages') <= Ceiling(1) /\ Len(missed') <= MissCap
         /\ \A W : /\ IsFiniteSet(W) /\ Cardinality(W) <= Ceiling(1)
                   /\ Newest(pages, W) /\ ToSet(<<k>>) \subseteq W
                   => W \cap (ToSet(pages) \cup Found(<<k>>)) \subseteq ToSet(pages')
    <2>1. ToSet(<<k>>) \cap (ToSet(pages) \cup ToSet(missed)) = {}
      BY <1>4, <1>9
    <2>2. <<k>> \in Seq(KeySet) /\ IsInjective(<<k>>) /\ CacheType /\ Fetched(<<k>>, 1)
      BY <1>2, <1>3, <1>9
    <2> DEFINE need == <<k>>
    <2>3. /\ CacheType /\ need \in Seq(KeySet) /\ IsInjective(need) /\ Fetched(need, 1) /\ 1 \in Nat
          /\ ToSet(need) \cap (ToSet(pages) \cup ToSet(missed)) = {}
      BY <2>1, <2>2
    <2>4. /\ CacheType' /\ Len(pages') <= Ceiling(1) /\ Len(missed') <= MissCap
          /\ \A W : /\ IsFiniteSet(W) /\ Cardinality(W) <= Ceiling(1)
                    /\ Newest(pages, W) /\ ToSet(need) \subseteq W
                    => W \cap (ToSet(pages) \cup Found(need)) \subseteq ToSet(pages')
      <3> HIDE DEF need
      <3> QED
        BY <2>3, FetchedIs
    <2> QED
      BY <2>4
  <1>11. k \in Found(<<k>>) => k \in ToSet(pages')
    <2>1. IsFiniteSet({k}) /\ Cardinality({k}) = 1
      BY FS_Singleton
    <2>2. Cardinality({k}) <= Ceiling(1)
      BY <2>1, Ceilings
    <2>3. Newest(pages, {k})
      BY <1>4 DEF Newest, ToSet
    <2> QED
      BY <1>9, <1>10, <2>1, <2>2, <2>3
  <1>12. Worded(now'.passages, now'.trouble)
    <2>1. Printed(k)
      BY <1>2 DEF TextInv, Book, Printed, k
    <2> QED
      BY <1>2, <1>5, <1>6, <1>8, <1>11, <2>1, StaysWorded
  <1>13. Len(pages') <= Ceiling(Len(Wanted))
    <2>1. Len(Wanted) \in Nat
      BY <1>2, WantedIs
    <2>2. pages' \in Seq(KeySet)
      BY <1>10 DEF CacheType
    <2>3. Len(pages') \in Nat
      BY <2>2, SeqFacts
    <2>4. Ceiling(1) = Cap /\ Cap \in Nat /\ Ceiling(Len(Wanted)) \in Nat /\ Cap <= Ceiling(Len(Wanted))
      BY <2>1, Ceilings
    <2> QED
      BY <1>10, <2>3, <2>4
  <1>14. ~now'.cold => Kept(now', pages', missed') /\ now'.again \cap ToSet(Wanted) = {}
    <2>1. ~now.cold => Kept(now', pages', missed')
      <3>1. now.start \in Nat /\ now.limit \in Nat /\ now'.at \in Nat
        BY <1>2, <1>8, CallFacts
      <3>2. now'.start = now.start /\ now'.limit = now.limit
        BY <1>8 DEF Same
      <3>3. ~now.cold => now'.at > now'.start + now'.limit
        BY <1>4, <1>5, <1>8, <3>1, <3>2
      <3> QED
        BY <3>1, <3>2, <3>3 DEF Kept
    <2> QED
      BY <1>2, <1>8, <2>1
  <1> QED
    BY <1>1, <1>3, <1>8, <1>10, <1>12, <1>13, <1>14, StepOn

(* The passage is made without words, and the trouble is remembered. *)
LEMMA PageFailsStep == ASSUME IInv, PageFails PROVE IInv'
  <1> DEFINE k == Target.key
             mid == [now EXCEPT !.trouble = TRUE]
  <1>1. pc = "text" /\ pc' = "loop"
    BY DEF PageFails
  <1>2. /\ now \in CallType /\ LoopOf(now, got) /\ CacheType
        /\ Len(pages) <= Ceiling(Len(Wanted)) /\ Len(missed) <= MissCap
        /\ Worded(now.passages, now.trouble) /\ TextInv
        /\ ~now.cold => Kept(now, pages, missed) /\ now.again \cap ToSet(Wanted) = {}
    BY <1>1, LoopFacts
  <1>3. now' = With(mid, FALSE) /\ Unfetched(1) /\ UNCHANGED <<cat, got>>
    BY DEF PageFails
  <1>4. /\ now.at <= Len(now.targets)
        /\ ~now.cold => now.at > now.start + now.limit
    BY <1>2 DEF TextInv
  <1>5. k \in KeySet /\ k \notin GivenBy(now.passages) /\ now.at \in Nat
    BY <1>2, <1>4, AtTarget DEF TextInv
  <1>6. /\ mid \in CallType /\ Same(now, mid) /\ mid.at = now.at /\ mid.consumed = now.consumed
        /\ mid.opened = now.opened /\ mid.passages = now.passages
        /\ mid.failed = now.failed /\ mid.missing = now.missing
        /\ mid.cold = now.cold /\ mid.again = now.again /\ mid.trouble = TRUE
    BY <1>2 DEF CallType, Same
  <1> HIDE DEF mid
  <1>7. LoopOf(mid, got) /\ mid.at <= Len(mid.targets)
    <2>1. \A i : Dealt(now.targets[i], now) => Dealt(now.targets[i], mid)
      BY <1>6 DEF Dealt
    <2>2. /\ mid.start = now.start /\ mid.from = now.from /\ mid.entries = now.entries
          /\ mid.neighbors = now.neighbors /\ mid.targets = now.targets
      BY <1>6 DEF Same
    <2>3. now.at <= Len(now.targets) /\ LoopOf(now, got)
      BY <1>2, <1>4
    <2> QED
      BY <1>6, <2>1, <2>2, <2>3 DEF LoopOf
  <1>8. /\ now' \in CallType /\ Same(mid, now') /\ LoopOf(now', got) /\ now'.at > mid.at
        /\ now'.cold = mid.cold /\ now'.again = mid.again /\ now'.trouble = mid.trouble
        /\ \/ now'.passages = mid.passages
           \/ now'.passages = Append(mid.passages, [key |-> k, text |-> FALSE])
    BY <1>2, <1>3, <1>5, <1>6, <1>7, WithIs
  <1> HIDE DEF k
  <1>9. CacheType' /\ Len(pages') <= Ceiling(1) /\ Len(missed') <= MissCap
    BY <1>2, <1>3, UnfetchedIs
  <1>10. Worded(now'.passages, now'.trouble)
    <2>1. Printed(k)
      BY <1>2 DEF TextInv, Book, Printed, k
    <2>2. Worded(mid.passages, mid.trouble)
      BY <1>2, <1>6 DEF Worded
    <2> QED
      BY <1>5, <1>6, <1>8, <2>1, <2>2, StaysWorded
  <1>11. Len(pages') <= Ceiling(Len(Wanted))
    <2>1. Len(Wanted) \in Nat
      BY <1>2, WantedIs
    <2>2. pages' \in Seq(KeySet)
      BY <1>9 DEF CacheType
    <2>3. Len(pages') \in Nat
      BY <2>2, SeqFacts
    <2>4. Ceiling(1) = Cap /\ Cap \in Nat /\ Ceiling(Len(Wanted)) \in Nat /\ Cap <= Ceiling(Len(Wanted))
      BY <2>1, Ceilings
    <2> QED
      BY <1>9, <2>3, <2>4
  <1>12. Same(now, now')
    BY <1>6, <1>8 DEF Same
  <1>13. ~now'.cold => Kept(now', pages', missed') /\ now'.again \cap ToSet(Wanted) = {}
    <2>1. ~now.cold => Kept(now', pages', missed')
      <3>1. now.start \in Nat /\ now.limit \in Nat /\ now'.at \in Nat
        BY <1>2, <1>8, CallFacts
      <3>2. now'.start = now.start /\ now'.limit = now.limit
        BY <1>12 DEF Same
      <3>3. ~now.cold => now'.at > now'.start + now'.limit
        <4>1. now'.at > now.at
          BY <1>6, <1>8
        <4>2. ~now.cold => now.at > now.start + now.limit
          BY <1>4
        <4>3. now.at \in Nat
          BY <1>5
        <4> QED
          BY <3>1, <3>2, <4>1, <4>2, <4>3
      <3> QED
        BY <3>1, <3>2, <3>3 DEF Kept
    <2> QED
      BY <1>2, <1>6, <1>8, <2>1
  <1> QED
    BY <1>1, <1>3, <1>8, <1>9, <1>10, <1>11, <1>12, <1>13, StepOn

(* The window's text comes, or does not.                                    *)
LEMMA WarmAnswersStep == ASSUME IInv, WarmAnswers PROVE IInv'
  <1> DEFINE need == Outstanding(Wanted)
             W == ToSet(Wanted)
  <1>1. pc = "warm" /\ pc' = "loop"
    BY DEF WarmAnswers
  <1>2. /\ now \in CallType /\ LoopOf(now, got) /\ CacheType
        /\ Worded(now.passages, now.trouble) /\ WarmInv
    BY <1>1, LoopFacts
  <1>3. Fetched(need, Len(Wanted)) /\ UNCHANGED <<cat, now, got>>
    BY DEF WarmAnswers
  <1>4. /\ Wanted \in Seq(KeySet) /\ IsInjective(Wanted)
        /\ Len(Wanted) \in Nat /\ Len(Wanted) <= now.limit
        /\ W = InWindow(now.targets, now.start, now.limit)
        /\ IsFiniteSet(W) /\ Cardinality(W) = Len(Wanted)
    BY <1>2, WantedIs
  <1>5. /\ need \in Seq(KeySet) /\ IsInjective(need)
        /\ ToSet(need) = W \ (ToSet(pages) \cup ToSet(missed))
        /\ Len(need) \in Nat /\ Len(need) <= Len(Wanted)
    BY <1>4, OutstandingIs
  <1>6. Newest(pages, W) /\ missed = <<>> /\ now.again = {} /\ now.at = now.start + 1
    BY <1>2 DEF WarmInv, Newest
  <1>7. Cardinality(W) <= Ceiling(Len(Wanted))
    BY <1>4, Ceilings
  <1>8. Cardinality(ToSet(need) \ Found(need)) <= MissCap
    <2> DEFINE lost == ToSet(need) \ Found(need)
               K == Keys(now.targets)
               L == {k \in ToSet(K) : k \notin Found(<<k>>)}
    <2>1. now.targets \in TargetLists /\ now.limit \in Nat
      BY <1>2, CallFacts
    <2>2. 1 \in Nat
      OBVIOUS
    <2>3. MissCap \in Nat
      BY <2>2, Ceilings
    <2>4. /\ IsFiniteSet(ToSet(need)) /\ Cardinality(ToSet(need)) \in Nat
          /\ Cardinality(ToSet(need)) <= Len(need)
      BY <1>5, OnceCounts
    <2>5. /\ K \in Seq(KeySet) /\ DOMAIN K = DOMAIN now.targets
          /\ \A i \in DOMAIN now.targets : K[i] = now.targets[i].key
      BY <2>1, KeysAre
    <2>6. IsFiniteSet(ToSet(K)) /\ Cardinality(ToSet(K)) \in Nat
      BY <2>5, OnceCounts
    <2>7. lost \subseteq L
      <3> SUFFICES ASSUME NEW k \in ToSet(need), k \notin Found(need) PROVE k \in ToSet(K) /\ k \notin Found(<<k>>)
        OBVIOUS
      <3>1. k \in KeySet /\ k \in W
        BY <1>5, SeqFacts
      <3>2. PICK i \in DOMAIN now.targets : k = now.targets[i].key
        BY <1>4, <3>1 DEF InWindow
      <3>3. k \in ToSet(K)
        BY <2>5, <3>2 DEF ToSet
      <3> QED
        BY <1>5, <3>1, <3>3, OneFound
    <2>8. Spared(now.targets, now.limit)
      BY <1>2 DEF WarmInv
    <2> HIDE DEF need, W, K
    <2>9. IsFiniteSet(lost) /\ Cardinality(lost) <= Cardinality(ToSet(need)) /\ Cardinality(lost) \in Nat
      BY <2>4, FS_Subset, FS_CardinalityType
    <2>10. IsFiniteSet(L) /\ Cardinality(L) \in Nat
      BY <2>6, FS_Subset, FS_CardinalityType
    <2>11. Cardinality(lost) <= Cardinality(L)
      BY <2>7, <2>10, FS_Subset
    <2>12. CASE now.limit <= MissCap
      BY <1>4, <1>5, <2>1, <2>3, <2>4, <2>9, <2>12
    <2>13. CASE Cardinality(L) <= MissCap
      BY <2>3, <2>9, <2>10, <2>11, <2>13
    <2> QED
      BY <2>8, <2>12, <2>13 DEF Spared, K
  <1> HIDE DEF need, W
  <1>9. ToSet(need) \cap (ToSet(pages) \cup ToSet(missed)) = {} /\ ToSet(need) \subseteq W
    BY <1>5
  <1>10. /\ CacheType'
         /\ Len(pages') <= Ceiling(Len(Wanted)) /\ Len(missed') <= MissCap
         /\ \A V : /\ IsFiniteSet(V) /\ Cardinality(V) <= Ceiling(Len(Wanted))
                   /\ Newest(pages, V) /\ ToSet(need) \subseteq V
                   => V \cap (ToSet(pages) \cup Found(need)) \subseteq ToSet(pages')
         /\ missed = <<>> /\ Cardinality(ToSet(need) \ Found(need)) <= MissCap =>
              ToSet(missed') = ToSet(need) \ Found(need)
    BY <1>2, <1>3, <1>4, <1>5, <1>9, FetchedIs
  <1>11. W \cap (ToSet(pages) \cup Found(need)) \subseteq ToSet(pages')
    BY <1>4, <1>6, <1>7, <1>9, <1>10
  <1>12. ToSet(missed') = ToSet(need) \ Found(need)
    BY <1>6, <1>8, <1>10
  <1>13. ToSet(missed) = {}
    BY <1>6 DEF ToSet
  <1>14. W \subseteq ToSet(pages') \cup ToSet(missed')
    BY <1>5, <1>11, <1>12, <1>13
  <1>15. Kept(now, pages', missed')
    <2> SUFFICES ASSUME NEW i \in now.at..(now.start + now.limit), i <= Len(now.targets)
                 PROVE  now.targets[i].key \in ToSet(pages') \cup ToSet(missed')
      BY DEF Kept
    <2>1. now.start \in Nat /\ now.limit \in Nat /\ DOMAIN now.targets = 1..Len(now.targets)
          /\ Len(now.targets) \in Nat
      BY <1>2, CallFacts
    <2>2. i \in DOMAIN now.targets /\ now.start < i /\ i <= now.start + now.limit
      BY <1>6, <2>1
    <2>3. now.targets[i].key \in W
      BY <1>4, <2>2 DEF InWindow
    <2> QED
      BY <1>14, <2>3
  <1>16. now' \in CallType /\ Same(now, now') /\ LoopOf(now', got)
    BY <1>2, <1>3 DEF Same
  <1>17. Worded(now'.passages, now'.trouble)
    BY <1>2, <1>3
  <1>18. ~now'.cold => Kept(now', pages', missed') /\ now'.again \cap ToSet(Wanted) = {}
    BY <1>3, <1>6, <1>15
  <1> QED
    BY <1>1, <1>3, <1>10, <1>16, <1>17, <1>18, StepOn

(* The window stays cold. *)
LEMMA WarmFailsStep == ASSUME IInv, WarmFails PROVE IInv'
  <1>1. pc = "warm" /\ pc' = "loop"
    BY DEF WarmFails
  <1>2. now \in CallType /\ LoopOf(now, got) /\ CacheType /\ Worded(now.passages, now.trouble)
    BY <1>1, LoopFacts
  <1>3. /\ Unfetched(Len(Wanted)) /\ now' = [now EXCEPT !.cold = TRUE, !.trouble = TRUE]
        /\ UNCHANGED <<cat, got>>
    BY DEF WarmFails
  <1>4. /\ now' \in CallType /\ Same(now, now') /\ now'.at = now.at /\ now'.consumed = now.consumed
        /\ now'.opened = now.opened /\ now'.passages = now.passages
        /\ now'.failed = now.failed /\ now'.missing = now.missing
        /\ now'.cold = TRUE /\ now'.trouble = TRUE
    BY <1>2, <1>3 DEF CallType, Same
  <1>5. LoopOf(now', got)
    <2>1. \A i : Dealt(now.targets[i], now) => Dealt(now.targets[i], now')
      BY <1>4 DEF Dealt
    <2>2. /\ now'.start = now.start /\ now'.from = now.from /\ now'.entries = now.entries
          /\ now'.neighbors = now.neighbors /\ now'.targets = now.targets
      BY <1>4 DEF Same
    <2> QED
      BY <1>2, <1>4, <2>1, <2>2 DEF LoopOf
  <1>6. CacheType' /\ Len(pages') <= Ceiling(Len(Wanted)) /\ Len(missed') <= MissCap
    BY <1>2, <1>3, UnfetchedIs, WantedIs
  <1>7. Worded(now'.passages, now'.trouble)
    BY <1>2, <1>4 DEF Worded
  <1> QED
    BY <1>1, <1>3, <1>4, <1>5, <1>6, <1>7, StepOn

(* A call begins.                                                           *)
LEMMA NoCallType == NoCall \in CallType
  <1>1. 1 \in Nat \ {0}
    OBVIOUS
  <1>2. <<>> \in Entries /\ <<>> \in TargetLists /\ <<>> \in PassageLists
    BY DEF Entries, TargetLists, PassageLists
  <1> QED
    BY <1>1, <1>2 DEF NoCall, CallType

(* The empty sequence. *)
LEMMA NothingHeld ==
    /\ <<>> \in Seq(KeySet) /\ Len(<<>>) = 0 /\ ToSet(<<>>) = {} /\ IsInjective(<<>>)
    /\ Unheld(<<>>) /\ \A trouble : Worded(<<>>, trouble)
  <1>1. <<>> \in Seq(KeySet) /\ Len(<<>>) = 0 /\ DOMAIN <<>> = {}
    OBVIOUS
  <1>2. ToSet(<<>>) = {} /\ IsInjective(<<>>)
    BY <1>1 DEF ToSet, IsInjective
  <1> QED
    BY <1>1, <1>2 DEF Unheld, Worded

(* The list fits the request, and the window's pages are the newest. *)
LEMMA BeginStep ==
    ASSUME IInv, NEW r \in Requests, NEW from \in {0} \cup {c \in DOMAIN got : got[c].more},
           NEW seed \in Seq(KeySet), Len(seed) <= Cap, IsInjective(seed),
           Begin(r, from, seed)
    PROVE  IInv'
  <1> DEFINE start == Past(from).next
             targets == Targets(Catalogues[cat], r)
             refused == Refused(Catalogues[cat], r)
             wanted == Distinct(Keys(Window(targets, start, r.limit)))
  <1>1. /\ now' = [NoCall EXCEPT !.start = start, !.consumed = start, !.at = start + 1,
                     !.from = from, !.limit = r.limit, !.room = r.room,
                     !.entries = r.entries, !.neighbors = r.neighbors,
                     !.targets = targets, !.failed = refused]
        /\ pages' = Touched(seed, wanted) /\ missed' = <<>>
        /\ pc' = IF ToSet(wanted) \subseteq ToSet(seed) THEN "loop" ELSE "warm"
        /\ cat' = cat /\ got' = got
    BY DEF Begin
  <1>2. TypeInv /\ \A c \in DOMAIN got : AnswerInv(got[c])
    BY DEF IInv
  <1>3. /\ start \in Nat /\ from \in Nat /\ from \in 0..Len(got)
        /\ from # 0 => got[from].more
        /\ start = IF from = 0 THEN 0 ELSE got[from].next
    <2>1. got \in Seq(AnswerType) /\ DOMAIN got = 1..Len(got) /\ Len(got) \in Nat
      BY <1>2 DEF TypeInv
    <2>2. CASE from = 0
      BY <2>1, <2>2 DEF Past
    <2>3. CASE from # 0
      <3>1. from \in 1..Len(got) /\ got[from].more
        BY <2>1, <2>3
      <3>2. got[from] \in AnswerType
        BY <2>1, <3>1
      <3>3. got[from].next \in Nat
        BY <3>2 DEF AnswerType
      <3> QED
        BY <2>1, <2>3, <3>1, <3>3 DEF Past
    <2> QED
      BY <2>2, <2>3
  <1>4. Asked(r)
    BY RequestAsked
  <1>5. /\ targets \in TargetLists /\ refused \in SUBSET Books
        /\ Fits(r.entries, r.neighbors, targets, refused)
    BY <1>4, TargetsFit
  <1>6. r.limit \in Nat \ {0} /\ r.room \in Nat \ {0}
        /\ r.entries \in Entries /\ r.neighbors \in 0..10
    BY <1>4 DEF Asked
  <1>7. Spared(targets, r.limit)
    BY <1>2, MissAssumption DEF MissAssumption, TypeInv
  <1> HIDE DEF start, targets, refused
  <1>8. /\ wanted \in Seq(KeySet) /\ IsInjective(wanted) /\ Len(wanted) \in Nat
        /\ ToSet(wanted) = InWindow(targets, start, r.limit)
    BY <1>3, <1>5, <1>6, WindowIs
  <1>9. /\ now' \in CallType
        /\ now'.start = start /\ now'.consumed = start /\ now'.at = start + 1
        /\ now'.from = from /\ now'.limit = r.limit /\ now'.room = r.room
        /\ now'.entries = r.entries /\ now'.neighbors = r.neighbors
        /\ now'.targets = targets /\ now'.failed = refused
        /\ now'.missing = {} /\ now'.passages = <<>> /\ now'.cold = FALSE
        /\ now'.again = {} /\ now'.trouble = FALSE
    <2>1. now' = [start |-> start, from |-> from, limit |-> r.limit, room |-> r.room,
                  entries |-> r.entries, neighbors |-> r.neighbors, targets |-> targets,
                  at |-> start + 1, consumed |-> start, opened |-> [b \in Books |-> "unknown"],
                  passages |-> <<>>, failed |-> refused, missing |-> {},
                  cold |-> FALSE, again |-> {}, trouble |-> FALSE]
      BY <1>1 DEF NoCall
    <2>2. start + 1 \in Nat
      BY <1>3
    <2>3. <<>> \in PassageLists /\ [b \in Books |-> "unknown"] \in [Books -> {"unknown", "open", "failed"}]
      BY DEF PassageLists
    <2>4. now' \in CallType
      BY <1>3, <1>5, <1>6, <2>1, <2>2, <2>3 DEF CallType
    <2> QED
      BY <2>1, <2>4
  <1>10. Wanted' = wanted
    BY <1>9 DEF Wanted
  <1> HIDE DEF wanted
  <1>11. /\ pages' \in Seq(KeySet) /\ IsInjective(pages')
         /\ ToSet(pages') = ToSet(seed) /\ Len(pages') = Len(seed)
         /\ Newest(pages', ToSet(wanted))
    BY <1>1, <1>8, TouchedSame
  <1>12. LoopOf(now', got')
    <2>1. Lacks({}, now'.entries)
      BY DEF Lacks
    <2>2. Len(<<>>) = 0 /\ DOMAIN <<>> = {}
      OBVIOUS
    <2>3. (start + 1)..start = {} /\ start = (start + 1) - 1 /\ start <= start /\ start <= start + 1
      BY <1>3
    <2> QED
      BY <1>1, <1>3, <1>5, <1>9, <2>1, <2>2, <2>3 DEF LoopOf
  <1>13. IsInjective(pages' \o missed')
    BY <1>1, <1>11, NothingHeld, Joined
  <1>14. /\ Len(pages') <= Cap /\ Len(pages') <= Ceiling(Len(Wanted')) /\ Len(missed') <= MissCap
    <2>1. Len(pages') \in Nat /\ Len(pages') <= Cap
      BY <1>11
    <2>2. Cap \in Nat /\ MissCap \in Nat /\ Ceiling(Len(wanted)) \in Nat /\ Ceiling(Len(wanted)) >= Cap
      BY <1>8, Ceilings
    <2> QED
      BY <1>1, <1>10, <2>1, <2>2, NothingHeld
  <1>15. pc' = "warm" => WarmInv'
    <2> SUFFICES ASSUME pc' = "warm" PROVE WarmInv'
      OBVIOUS
    <2>1. PICK k \in ToSet(wanted) : k \notin ToSet(seed)
      BY <1>1
    <2>2. PICK i \in DOMAIN targets : start < i
      BY <1>8, <2>1 DEF InWindow
    <2>3. now'.at <= Len(now'.targets)
      <3>1. DOMAIN targets = 1..Len(targets) /\ Len(targets) \in Nat
        BY <1>5 DEF TargetLists
      <3> QED
        BY <1>3, <1>9, <2>2, <3>1
    <2>4. \A m, n \in DOMAIN pages' :
             m < n /\ pages'[m] \in ToSet(Wanted') => pages'[n] \in ToSet(Wanted')
      BY <1>10, <1>11 DEF Newest
    <2> QED
      BY <1>1, <1>9, <1>14, <1>7, <2>3, <2>4 DEF WarmInv
  <1>16. pc' # "warm" => Kept(now', pages', missed')
    <2> SUFFICES ASSUME pc' # "warm", NEW i \in (start + 1)..(start + r.limit), i <= Len(targets)
                 PROVE  targets[i].key \in ToSet(pages') \cup ToSet(missed')
      BY <1>9 DEF Kept
    <2>1. DOMAIN targets = 1..Len(targets) /\ Len(targets) \in Nat
      BY <1>5 DEF TargetLists
    <2>2. i \in DOMAIN targets /\ start < i /\ i <= start + r.limit
      BY <1>3, <1>6, <2>1
    <2>3. targets[i].key \in ToSet(wanted)
      BY <1>8, <2>2 DEF InWindow
    <2>4. ToSet(wanted) \subseteq ToSet(seed)
      BY <1>1
    <2> QED
      BY <1>11, <2>3, <2>4
  <1>17. CacheInv'
    <2>1. Unheld(missed')
      BY <1>1, NothingHeld
    <2>2. Worded(now'.passages, now'.trouble)
      BY <1>9, NothingHeld
    <2>3. pc' # "text"
      BY <1>1
    <2>4. ~now'.cold /\ pc' # "warm" =>
             Kept(now', pages', missed') /\ now'.again \cap ToSet(Wanted') = {}
      BY <1>9, <1>16
    <2> QED
      BY <1>13, <1>14, <1>15, <2>1, <2>2, <2>3, <2>4 DEF CacheInv
  <1>18. TypeInv'
    BY <1>1, <1>2, <1>9, <1>11, NothingHeld DEF TypeInv
  <1>19. (\A c \in DOMAIN got : AnswerInv(got[c]))'
    BY <1>1, <1>2
  <1>20. pc' # "rest"
    BY <1>1
  <1> QED
    BY <1>12, <1>17, <1>18, <1>19, <1>20 DEF IInv

(* What the batches before the call gave.                                   *)
LEMMA AnswerFacts ==
    ASSUME NEW g \in AnswerType
    PROVE  /\ g.targets \in TargetLists /\ g.next \in Nat /\ g.given \in Seq(KeySet)
           /\ g.said \in SUBSET Books /\ g.gone \in SUBSET KeySet /\ g.same \in BOOLEAN
           /\ g.more \in BOOLEAN
  BY DEF AnswerType

(* A call goes on where the batches before it ended. *)
LEMMA PastIs ==
    ASSUME IInv, pc = "loop"
    PROVE  LET past == Past(now.from)
           IN  /\ past.given \in Seq(KeySet) /\ past.said \in SUBSET Books
               /\ past.gone \in SUBSET KeySet /\ past.same \in BOOLEAN
               /\ past.same /\ (now.from # 0 => got[now.from].targets = now.targets) =>
                    /\ \A i \in DOMAIN now.targets : i <= now.start =>
                          \/ now.targets[i].key \in ToSet(past.given)
                          \/ now.targets[i].key[1] \in past.said
                          \/ Lost(now.targets[i], past.gone)
                    /\ \A n \in DOMAIN past.given : \E i \in DOMAIN now.targets :
                          i <= now.start /\ past.given[n] = now.targets[i].key
                    /\ \A n \in DOMAIN past.given : Printed(past.given[n])
                    /\ Once(now.targets) => IsInjective(past.given)
  <1>1. now \in CallType /\ LoopOf(now, got)
    BY LoopFacts
  <1>2. /\ now.from \in 0..Len(got) /\ (now.from # 0 => got[now.from].more)
        /\ now.start = IF now.from = 0 THEN 0 ELSE got[now.from].next
    BY <1>1 DEF LoopOf
  <1>3. CASE now.from = 0
    <2>1. Past(now.from) = [given |-> <<>>, said |-> {}, gone |-> {}, same |-> TRUE, next |-> 0]
      BY <1>3 DEF Past
    <2>2. DOMAIN now.targets = 1..Len(now.targets) /\ now.start = 0
      BY <1>1, <1>2, <1>3, CallFacts
    <2>3. \A i \in DOMAIN now.targets : ~(i <= now.start)
      BY <2>2
    <2>4. DOMAIN <<>> = {}
      OBVIOUS
    <2> QED
      BY <2>1, <2>3, <2>4, NothingHeld
  <1>4. CASE now.from # 0
    <2> DEFINE g == got[now.from]
    <2>1. got \in Seq(AnswerType) /\ DOMAIN got = 1..Len(got) /\ Len(got) \in Nat
      BY DEF IInv, TypeInv
    <2>2. now.from \in DOMAIN got /\ g.more /\ now.start = g.next
      BY <1>2, <1>4, <2>1
    <2>3. g \in AnswerType
      BY <2>1, <2>2
    <2>4. AnswerInv(g)
      BY <2>2 DEF IInv
    <2>5. Past(now.from) = g
      BY <1>4 DEF Past
    <2> HIDE DEF g
    <2>6. g.same => Walked(g)
      BY <2>4 DEF AnswerInv
    <2>7. g.same /\ g.targets = now.targets =>
            /\ \A i \in DOMAIN now.targets : i <= now.start =>
                  \/ now.targets[i].key \in ToSet(g.given)
                  \/ now.targets[i].key[1] \in g.said
                  \/ Lost(now.targets[i], g.gone)
            /\ \A n \in DOMAIN g.given : \E i \in DOMAIN now.targets :
                  i <= now.start /\ g.given[n] = now.targets[i].key
            /\ \A n \in DOMAIN g.given : Printed(g.given[n])
            /\ Once(now.targets) => IsInjective(g.given)
      BY <2>2, <2>6 DEF Walked
    <2>8. g = got[now.from]
      BY DEF g
    <2> QED
      BY <1>4, <2>3, <2>5, <2>7, <2>8, AnswerFacts
  <1> QED
    BY <1>3, <1>4

(* The keys of a call's passages.                                           *)
LEMMA KeysGiven ==
    ASSUME NEW passages \in PassageLists
    PROVE  LET keys == [n \in DOMAIN passages |-> passages[n].key]
           IN  /\ keys \in Seq(KeySet) /\ DOMAIN keys = DOMAIN passages
               /\ ToSet(keys) = GivenBy(passages)
               /\ \A n \in DOMAIN passages : keys[n] = passages[n].key
  <1> DEFINE keys == [n \in DOMAIN passages |-> passages[n].key]
  <1>1. /\ Len(passages) \in Nat /\ DOMAIN passages = 1..Len(passages)
        /\ \A n \in DOMAIN passages : passages[n].key \in KeySet
    <2> DEFINE T == [key : KeySet, text : BOOLEAN]
    <2>1. passages \in Seq(T)
      BY DEF PassageLists
    <2>2. \A t \in T : t.key \in KeySet
      OBVIOUS
    <2> HIDE DEF T
    <2>3. /\ Len(passages) \in Nat /\ DOMAIN passages = 1..Len(passages)
          /\ \A n \in DOMAIN passages : passages[n] \in T
      BY <2>1, SeqFacts
    <2> QED
      BY <2>2, <2>3
  <1>2. keys \in [1..Len(passages) -> KeySet]
    BY <1>1
  <1>3. keys \in Seq(KeySet) /\ DOMAIN keys = DOMAIN passages
    BY <1>1, <1>2, SeqOfFun
  <1>4. ToSet(keys) = GivenBy(passages)
    BY <1>3 DEF ToSet, GivenBy
  <1> QED
    BY <1>3, <1>4

(* A batch that ends.                                                       *)
LEMMA EndsAt ==
    ASSUME now \in CallType, LoopOf(now, got), ~(now.at <= Len(now.targets) /\ Len(now.passages) < now.limit)
    PROVE  /\ now.start \in Nat /\ now.consumed \in Nat /\ Len(now.targets) \in Nat
           /\ DOMAIN now.targets = 1..Len(now.targets)
           /\ now.start <= now.consumed
           /\ now.consumed < Len(now.targets) => now.start < now.consumed
           /\ now.consumed # now.start => now.consumed <= Len(now.targets)
  <1>1. /\ now.start \in Nat /\ now.consumed \in Nat /\ Len(now.targets) \in Nat /\ now.at \in Nat
        /\ DOMAIN now.targets = 1..Len(now.targets) /\ now.limit \in Nat /\ now.limit > 0
        /\ Len(now.passages) \in Nat
    BY CallFacts
  <1>2. /\ now.start <= now.consumed
        /\ now.consumed = now.at - 1 \/ (now.at > Len(now.targets) /\ now.passages # <<>>)
        /\ now.passages # <<>> => now.start < now.consumed
        /\ now.consumed # now.start => now.consumed <= Len(now.targets)
    BY DEF LoopOf
  <1>3. now.limit > 0
    BY <1>1
  <1>4. now.passages = <<>> => Len(now.passages) = 0
    OBVIOUS
  <1>5. now.consumed < Len(now.targets) => now.passages # <<>>
    BY <1>1, <1>2, <1>3, <1>4
  <1> QED
    BY <1>1, <1>2, <1>5

(* The walk up to a batch that ends.                                        *)
LEMMA WalkedOn ==
    ASSUME IInv, pc = "loop", ~(now.at <= Len(now.targets) /\ Len(now.passages) < now.limit),
           NEW g, g.targets = now.targets, g.more <=> (now.consumed < Len(now.targets)),
           g.more => g.next = now.consumed,
           g.given = Past(now.from).given \o [n \in DOMAIN now.passages |-> now.passages[n].key],
           g.said = Past(now.from).said \cup now.failed,
           g.gone = Past(now.from).gone \cup now.missing,
           Past(now.from).same /\ (now.from # 0 => got[now.from].targets = now.targets)
    PROVE  Walked(g)
  <1> DEFINE past == Past(now.from)
             keys == [n \in DOMAIN now.passages |-> now.passages[n].key]
  <1>1. now \in CallType /\ LoopOf(now, got) /\ Worded(now.passages, now.trouble)
    BY LoopFacts
  <1>2. /\ now.start \in Nat /\ now.consumed \in Nat /\ Len(now.targets) \in Nat
        /\ DOMAIN now.targets = 1..Len(now.targets)
        /\ now.start <= now.consumed
        /\ now.consumed < Len(now.targets) => now.start < now.consumed
        /\ now.consumed # now.start => now.consumed <= Len(now.targets)
    BY <1>1, EndsAt
  <1>3. /\ past.given \in Seq(KeySet)
        /\ \A i \in DOMAIN now.targets : i <= now.start =>
              \/ now.targets[i].key \in ToSet(past.given)
              \/ now.targets[i].key[1] \in past.said
              \/ Lost(now.targets[i], past.gone)
        /\ \A n \in DOMAIN past.given : \E i \in DOMAIN now.targets :
              i <= now.start /\ past.given[n] = now.targets[i].key
        /\ \A n \in DOMAIN past.given : Printed(past.given[n])
        /\ Once(now.targets) => IsInjective(past.given)
    BY PastIs
  <1>4. /\ keys \in Seq(KeySet) /\ DOMAIN keys = DOMAIN now.passages
        /\ ToSet(keys) = GivenBy(now.passages)
        /\ \A n \in DOMAIN now.passages : keys[n] = now.passages[n].key
    <2>1. now.passages \in PassageLists
      BY <1>1, CallFacts
    <2> QED
      BY <2>1, KeysGiven
  <1>5. g.given = past.given \o keys /\ g.said = past.said \cup now.failed
        /\ g.gone = past.gone \cup now.missing /\ g.targets = now.targets
    OBVIOUS
  <1>6. /\ \A i \in (now.start + 1)..now.consumed : Dealt(now.targets[i], now)
        /\ \A n \in DOMAIN now.passages : \E i \in (now.start + 1)..now.consumed :
              now.passages[n].key = now.targets[i].key
        /\ \A m, n \in DOMAIN now.passages :
              now.passages[m].key = now.passages[n].key => m = n
    BY <1>1 DEF LoopOf
  <1> HIDE DEF past, keys
  <1>7. /\ g.given \in Seq(KeySet) /\ Len(g.given) = Len(past.given) + Len(keys)
        /\ \A i \in 1..Len(past.given) : g.given[i] = past.given[i]
        /\ \A i \in 1..Len(keys) : g.given[Len(past.given) + i] = keys[i]
        /\ \A i \in 1..(Len(past.given) + Len(keys)) :
              i \in 1..Len(past.given) \/ \E k \in 1..Len(keys) : i = Len(past.given) + k
        /\ ToSet(g.given) = ToSet(past.given) \cup ToSet(keys)
        /\ IsInjective(g.given) <=>
             IsInjective(past.given) /\ IsInjective(keys) /\ ToSet(past.given) \cap ToSet(keys) = {}
    <2> DEFINE s == past.given
    <2>1. s \in Seq(KeySet) /\ keys \in Seq(KeySet) /\ g.given = s \o keys
      BY <1>3, <1>4, <1>5
    <2>2. \A t, u \in Seq(KeySet) :
            /\ t \o u \in Seq(KeySet) /\ Len(t \o u) = Len(t) + Len(u)
            /\ \A i \in 1..Len(t) : (t \o u)[i] = t[i]
            /\ \A i \in 1..Len(u) : (t \o u)[Len(t) + i] = u[i]
            /\ \A i \in 1..(Len(t) + Len(u)) :
                  i \in 1..Len(t) \/ \E k \in 1..Len(u) : i = Len(t) + k
            /\ ToSet(t \o u) = ToSet(t) \cup ToSet(u)
            /\ IsInjective(t \o u) <=>
                 IsInjective(t) /\ IsInjective(u) /\ ToSet(t) \cap ToSet(u) = {}
      BY Joined
    <2>3. /\ s \o keys \in Seq(KeySet) /\ Len(s \o keys) = Len(s) + Len(keys)
          /\ \A i \in 1..Len(s) : (s \o keys)[i] = s[i]
          /\ \A i \in 1..Len(keys) : (s \o keys)[Len(s) + i] = keys[i]
          /\ \A i \in 1..(Len(s) + Len(keys)) :
                i \in 1..Len(s) \/ \E k \in 1..Len(keys) : i = Len(s) + k
          /\ ToSet(s \o keys) = ToSet(s) \cup ToSet(keys)
          /\ IsInjective(s \o keys) <=>
               IsInjective(s) /\ IsInjective(keys) /\ ToSet(s) \cap ToSet(keys) = {}
      <3> HIDE DEF s
      <3> QED
        BY <2>1, <2>2
    <2>4. g.given = s \o keys
      BY <2>1
    <2> QED
      BY <2>3, <2>4
  <1>8. ASSUME NEW i \in DOMAIN now.targets, g.more => i <= g.next
        PROVE  \/ now.targets[i].key \in ToSet(g.given)
               \/ now.targets[i].key[1] \in g.said
               \/ Lost(now.targets[i], g.gone)
    <2>1. CASE i <= now.start
      BY <1>3, <1>5, <1>7, <2>1 DEF Lost
    <2>2. CASE ~(i <= now.start)
      <3>1. i <= now.consumed
        <4>1. i \in Nat /\ i <= Len(now.targets)
          BY <1>2
        <4>2. CASE g.more
          BY <1>2, <1>8, <4>1, <4>2
        <4>3. CASE ~g.more
          BY <1>2, <4>1, <4>3
        <4> QED
          BY <4>2, <4>3
      <3>2. i \in (now.start + 1)..now.consumed
        BY <1>2, <2>2, <3>1
      <3>3. Dealt(now.targets[i], now)
        BY <1>6, <3>2
      <3> QED
        BY <1>4, <1>5, <1>7, <3>3 DEF Dealt, Lost
    <2> QED
      BY <2>1, <2>2
  <1>9. \A n \in DOMAIN now.passages : \E i \in DOMAIN now.targets :
           now.start < i /\ i <= now.consumed /\ keys[n] = now.targets[i].key
    <2> SUFFICES ASSUME NEW n \in DOMAIN now.passages
                 PROVE  \E i \in DOMAIN now.targets :
                           now.start < i /\ i <= now.consumed /\ keys[n] = now.targets[i].key
      OBVIOUS
    <2>1. PICK i \in (now.start + 1)..now.consumed : now.passages[n].key = now.targets[i].key
      BY <1>6
    <2>2. i \in DOMAIN now.targets /\ now.start < i /\ i <= now.consumed
      BY <1>2, <2>1
    <2> QED
      BY <1>4, <2>1, <2>2
  <1>10. ASSUME NEW n \in DOMAIN g.given
         PROVE  \E i \in DOMAIN now.targets :
                   (g.more => i <= g.next) /\ g.given[n] = now.targets[i].key /\ Printed(g.given[n])
    <2>1. n \in 1..(Len(past.given) + Len(keys)) /\ DOMAIN past.given = 1..Len(past.given)
          /\ DOMAIN keys = 1..Len(keys)
      BY <1>3, <1>4, <1>7
    <2>2. CASE n \in 1..Len(past.given)
      <3>1. PICK i \in DOMAIN now.targets : i <= now.start /\ past.given[n] = now.targets[i].key
        BY <1>3, <2>1, <2>2
      <3>2. i <= now.consumed
        BY <1>2, <3>1
      <3> QED
        BY <1>3, <1>7, <2>1, <2>2, <3>1, <3>2
    <2>3. CASE n \notin 1..Len(past.given)
      <3>1. PICK k \in 1..Len(keys) : n = Len(past.given) + k
        BY <1>7, <2>1, <2>3
      <3>2. k \in DOMAIN now.passages /\ g.given[n] = keys[k]
        BY <1>4, <1>7, <2>1, <3>1
      <3>3. Printed(now.passages[k].key)
        BY <1>1, <3>2 DEF Worded
      <3> QED
        BY <1>4, <1>9, <3>2, <3>3
    <2> QED
      BY <2>2, <2>3
  <1>11. ASSUME Once(now.targets) PROVE IsInjective(g.given)
    <2>1. IsInjective(past.given)
      BY <1>3, <1>11
    <2>2. IsInjective(keys)
      BY <1>4, <1>6 DEF IsInjective
    <2>3. ToSet(past.given) \cap ToSet(keys) = {}
      <3> SUFFICES ASSUME NEW m \in DOMAIN past.given, NEW n \in DOMAIN keys,
                          past.given[m] = keys[n]
                   PROVE  FALSE
        BY DEF ToSet
      <3>1. PICK i \in DOMAIN now.targets : i <= now.start /\ past.given[m] = now.targets[i].key
        BY <1>3
      <3>2. PICK j \in DOMAIN now.targets : now.start < j /\ keys[n] = now.targets[j].key
        BY <1>4, <1>9
      <3>3. i = j
        BY <1>11, <3>1, <3>2 DEF Once
      <3> QED
        BY <1>2, <3>1, <3>2, <3>3
    <2> QED
      BY <1>7, <2>1, <2>2, <2>3
  <1> QED
    BY <1>5, <1>8, <1>10, <1>11 DEF Walked

(* The call ends with an answer. *)
LEMMA FinishStep == ASSUME IInv, Finish PROVE IInv'
  <1> DEFINE past == Past(now.from)
             keys == [n \in DOMAIN now.passages |-> now.passages[n].key]
             more == now.consumed < Len(now.targets)
             next == IF more THEN NextPlace ELSE 0
             same == past.same /\ (now.from # 0 => got[now.from].targets = now.targets)
             g == [more |-> more, next |-> next,
                   start |-> now.start, entries |-> now.entries, neighbors |-> now.neighbors,
                   targets |-> now.targets, passages |-> now.passages,
                   failed |-> now.failed, missing |-> now.missing,
                   given |-> past.given \o keys,
                   said |-> past.said \cup now.failed,
                   gone |-> past.gone \cup now.missing,
                   same |-> same, trouble |-> now.trouble]
  <1>1. /\ pc = "loop" /\ ~InLoop /\ got' = Append(got, g) /\ pc' = "rest"
        /\ now' = NoCall /\ pages' = <<>> /\ missed' = <<>> /\ cat' = cat
    BY DEF Finish
  <1>2. ~(now.at <= Len(now.targets) /\ Len(now.passages) < now.limit)
    BY <1>1 DEF InLoop
  <1>3. now \in CallType /\ LoopOf(now, got) /\ Worded(now.passages, now.trouble)
    BY <1>1, LoopFacts
  <1>4. /\ now.start \in Nat /\ now.consumed \in Nat /\ Len(now.targets) \in Nat
        /\ now.consumed < Len(now.targets) => now.start < now.consumed
    BY <1>2, <1>3, EndsAt
  <1>5. /\ past.given \in Seq(KeySet) /\ past.said \in SUBSET Books
        /\ past.gone \in SUBSET KeySet /\ past.same \in BOOLEAN
    BY <1>1, PastIs
  <1>6. keys \in Seq(KeySet)
    <2>1. now.passages \in PassageLists
      BY <1>3, CallFacts
    <2> QED
      BY <2>1, KeysGiven
  <1>7. past.given \o keys \in Seq(KeySet)
    BY <1>5, <1>6
  <1>8. /\ next \in Nat /\ more \in BOOLEAN /\ same \in BOOLEAN
        /\ more => next = now.consumed
    BY <1>4, <1>5 DEF NextPlace
  <1>9. same => Walked(g)
    <2> SUFFICES ASSUME past.same, now.from # 0 => got[now.from].targets = now.targets
                 PROVE  Walked(g)
      OBVIOUS
    <2>1. /\ g.targets = now.targets
          /\ g.more => g.next = now.consumed
          /\ g.more <=> (now.consumed < Len(now.targets))
          /\ g.given = Past(now.from).given \o [n \in DOMAIN now.passages |-> now.passages[n].key]
          /\ g.said = Past(now.from).said \cup now.failed
          /\ g.gone = Past(now.from).gone \cup now.missing
          /\ Past(now.from).same /\ (now.from # 0 => got[now.from].targets = now.targets)
      BY <1>8
    <2> HIDE DEF g
    <2> QED
      BY <1>1, <1>2, <2>1, WalkedOn
  <1> HIDE DEF past, keys, more, next, same
  <1>10. g \in AnswerType
    <2>1. /\ now.entries \in Entries /\ now.neighbors \in 0..10 /\ now.targets \in TargetLists
          /\ now.passages \in PassageLists /\ now.failed \in SUBSET Books
          /\ now.missing \in SUBSET KeySet /\ now.trouble \in BOOLEAN
      BY <1>3, CallFacts
    <2> QED
      BY <1>4, <1>5, <1>7, <1>8, <2>1 DEF AnswerType
  <1>11. AnswerInv(g)
    <2>1. /\ Fits(now.entries, now.neighbors, now.targets, now.failed)
          /\ Lacks(now.missing, now.entries)
      BY <1>3 DEF LoopOf
    <2>2. Fits(now.entries, now.neighbors, now.targets, past.said \cup now.failed)
      BY <2>1, StaysFit
    <2>3. more => now.start < next /\ next <= Len(now.targets)
      BY <1>4, <1>8 DEF more
    <2> QED
      BY <1>3, <1>9, <2>1, <2>2, <2>3 DEF AnswerInv
  <1> HIDE DEF g
  <1>12. got \in Seq(AnswerType) /\ cat \in DOMAIN Catalogues /\ \A c \in DOMAIN got : AnswerInv(got[c])
    BY DEF IInv, TypeInv
  <1>13. got' \in Seq(AnswerType) /\ \A c \in DOMAIN got' : AnswerInv(got'[c])
    <2>1. /\ DOMAIN got' = 1..(Len(got) + 1) /\ DOMAIN got = 1..Len(got) /\ Len(got) \in Nat
          /\ got'[Len(got) + 1] = g /\ \A c \in 1..Len(got) : got'[c] = got[c]
      BY <1>1, <1>10, <1>12
    <2>2. got' \in Seq(AnswerType)
      BY <1>1, <1>10, <1>12
    <2>3. \A c \in 1..(Len(got) + 1) : c \in 1..Len(got) \/ c = Len(got) + 1
      BY <2>1
    <2> QED
      BY <1>11, <1>12, <2>1, <2>2, <2>3
  <1>14. TypeInv'
    BY <1>1, <1>12, <1>13, NoCallType, NothingHeld DEF TypeInv
  <1>15. CacheInv'
    <2>1. now' \in CallType
      BY <1>1, NoCallType
    <2>2. Len(Wanted') \in Nat
      <3>1. now'.targets \in TargetLists /\ now'.start \in Nat /\ now'.limit \in Nat
        BY <2>1, CallFacts
      <3> QED
        BY <3>1, WindowIs DEF Wanted
    <2>3. Len(pages') <= Ceiling(Len(Wanted')) /\ Len(missed') <= MissCap
      BY <1>1, <2>2, NothingHeld, Ceilings
    <2>4. IsInjective(pages' \o missed')
      BY <1>1, NothingHeld
    <2>5. Worded(now'.passages, now'.trouble) /\ Unheld(missed')
      BY <1>1, NothingHeld DEF NoCall
    <2> QED
      BY <1>1, <2>3, <2>4, <2>5 DEF CacheInv
  <1> QED
    BY <1>1, <1>13, <1>14, <1>15 DEF IInv

-----------------------------------------------------------------------------
(* The specification. *)
LEMMA InvInit == Init => IInv
  <1> SUFFICES ASSUME Init PROVE IInv
    OBVIOUS
  <1>1. cat = 1 /\ pc = "rest" /\ now = NoCall /\ pages = <<>> /\ missed = <<>> /\ got = <<>>
    BY DEF Init
  <1>2. 1 \in DOMAIN Catalogues
    <2> DEFINE T == [Books -> {"absent", "listed", "downloaded"}]
    <2>1. Catalogues \in Seq(T) /\ Catalogues # <<>>
      BY FetchAssumption DEF FetchAssumption
    <2> HIDE DEF T
    <2> QED
      BY <2>1
  <1>3. <<>> \in Seq(AnswerType) /\ DOMAIN <<>> = {}
    OBVIOUS
  <1>4. TypeInv
    BY <1>1, <1>2, <1>3, NoCallType, NothingHeld DEF TypeInv
  <1>5. Len(Wanted) \in Nat
    BY <1>1, NoCallType, WantedIs
  <1>6. CacheInv
    <2>1. Len(pages) <= Ceiling(Len(Wanted)) /\ Len(missed) <= MissCap
      BY <1>1, <1>5, NothingHeld, Ceilings
    <2>2. IsInjective(pages \o missed)
      BY <1>1, NothingHeld
    <2>3. Worded(now.passages, now.trouble) /\ Unheld(missed)
      BY <1>1, NothingHeld DEF NoCall
    <2> QED
      BY <1>1, <2>1, <2>2, <2>3 DEF CacheInv
  <1> QED
    BY <1>1, <1>3, <1>4, <1>6 DEF IInv

(* The catalogue matters to the calls that begin later.                     *)
LEMMA CallRests ==
    ASSUME IInv, UNCHANGED <<pc, now, pages, missed, got>>, cat' \in DOMAIN Catalogues
    PROVE  IInv'
  <1>1. TypeInv'
    BY DEF IInv, TypeInv
  <1>2. Wanted' = Wanted /\ Target' = Target /\ Book' = Book
    BY DEF Wanted, Target, Book
  <1>3. Seen' <=> Seen
    BY <1>2 DEF Seen
  <1>4. WarmInv' <=> WarmInv
    BY <1>2 DEF WarmInv
  <1>5. TextInv' <=> TextInv
    BY <1>2, <1>3 DEF TextInv
  <1>6. CacheInv'
    BY <1>2, <1>4, <1>5 DEF IInv, CacheInv
  <1> QED
    BY <1>1, <1>6 DEF IInv

(* The catalogue is read anew. *)
LEMMA RecatalogueStep == ASSUME IInv, Recatalogue PROVE IInv'
  <1>1. /\ cat \in DOMAIN Catalogues /\ cat < Len(Catalogues) /\ cat' = cat + 1
        /\ UNCHANGED <<pc, now, pages, missed, got>>
    BY DEF Recatalogue, IInv, TypeInv
  <1>2. cat' \in DOMAIN Catalogues
    <2> DEFINE T == [Books -> {"absent", "listed", "downloaded"}]
    <2>1. Catalogues \in Seq(T)
      BY FetchAssumption DEF FetchAssumption
    <2> HIDE DEF T
    <2> QED
      BY <1>1, <2>1
  <1> QED
    BY <1>1, <1>2, CallRests

(* The caches that calls begin with. *)
LEMMA SeedFacts ==
    /\ \A seed \in Seeds : seed \in Seq(KeySet) /\ Len(seed) <= Cap /\ IsInjective(seed)
    /\ <<>> \in Seq(KeySet) /\ Len(<<>>) <= Cap /\ IsInjective(<<>>)
  <1>1. \A seed \in Seeds : seed \in Seq(KeySet) /\ Len(seed) <= Cap /\ IsInjective(seed)
    BY FetchAssumption DEF FetchAssumption, KeySet
  <1>2. Cap \in Nat
    BY FetchAssumption DEF FetchAssumption
  <1> QED
    BY <1>1, <1>2, NothingHeld

(* Every step preserves the invariant. *)
LEMMA InvStep == IInv /\ [Next]_vars => IInv'
  <1> SUFFICES ASSUME IInv, [Next]_vars PROVE IInv'
    OBVIOUS
  <1>1. ASSUME NEW r \in Requests, NEW seed \in Seeds, Begin(r, 0, seed) PROVE IInv'
    BY <1>1, SeedFacts, BeginStep
  <1>2. ASSUME NEW r \in Requests, NEW from \in {c \in DOMAIN got : got[c].more},
               Begin(r, from, <<>>)
        PROVE  IInv'
    BY <1>2, SeedFacts, BeginStep
  <1>3. CASE UNCHANGED vars
    <2>1. cat' \in DOMAIN Catalogues /\ UNCHANGED <<pc, now, pages, missed, got>>
      BY <1>3 DEF vars, IInv, TypeInv
    <2> QED
      BY <2>1, CallRests
  <1> QED
    BY <1>1, <1>2, <1>3, WarmAnswersStep, WarmFailsStep, SkipSeenStep, OpenBookStep,
       SkipUnopenedStep, SkipMissingStep, ReadCachedStep, AskPageStep, PageAnswersStep,
       PageFailsStep, FinishStep, RecatalogueStep DEF Next

(* The invariant holds throughout. *)
LEMMA Invariant == Spec => []IInv
  BY InvInit, InvStep, PTL DEF Spec

(* The cache keeps to its bounds, a page is cached or missed and not both,  *)
(* and the loop of fetchPassages stays inside its list.                     *)
THEOREM TypeCorrect == Spec => []TypeOK
  <1>1. IInv => TypeOK
    <2> SUFFICES ASSUME IInv PROVE TypeOK
      OBVIOUS
    <2>1. TypeInv /\ CacheInv
      BY DEF IInv
    <2>2. cat \in 1..Len(Catalogues)
      <3> DEFINE T == [Books -> {"absent", "listed", "downloaded"}]
      <3>1. Catalogues \in Seq(T)
        BY FetchAssumption DEF FetchAssumption
      <3> HIDE DEF T
      <3> QED
        BY <2>1, <3>1 DEF TypeInv
    <2>3. pc \in {"warm", "text"} => now.at <= Len(now.targets)
      BY <2>1 DEF CacheInv, WarmInv, TextInv
    <2>4. now.start <= now.consumed /\ now.consumed <= now.at
      <3>1. pc = "rest" => now.start = 0 /\ now.consumed = 0 /\ now.at = 0
        BY DEF IInv, NoCall
      <3> QED
        BY <3>1 DEF IInv, LoopOf
    <2>5. now.failed \cup {k[1] : k \in now.missing} \subseteq Books
      <3>1. now.failed \in SUBSET Books /\ now.missing \in SUBSET KeySet
        BY <2>1, CallFacts DEF TypeInv
      <3> QED
        BY <3>1 DEF KeySet
    <2> QED
      BY <2>1, <2>2, <2>3, <2>4, <2>5 DEF TypeOK, TypeInv, CacheInv
  <1> QED
    BY <1>1, Invariant, PTL

(* A walk by cursors over one list, the same in every batch, gives or       *)
(* reports every page that was asked for when it ends, and none twice when  *)
(* the list names each book once. Over any list each batch advances, and    *)
(* what is reported missing was asked for and is missing.                   *)
THEOREM WalksAreWhole == Spec => []WalkWhole
  <1>1. IInv => WalkWhole
    <2> SUFFICES ASSUME IInv, NEW c \in DOMAIN got
                 PROVE  /\ got[c].more => got[c].next > got[c].start
                        /\ \A k \in got[c].missing :
                              /\ k[2] \notin PagesOf[k[1]]
                              /\ \E e \in ToSet(got[c].entries) : e.book = k[1] /\ k[2] \in e.ids
                        /\ got[c].same =>
                            /\ EachBookOnce(got[c].entries) => IsInjective(got[c].given)
                            /\ ~got[c].more => \A e \in ToSet(got[c].entries) :
                                  \/ e.book \in got[c].said
                                  \/ \A p \in Around(e.ids, got[c].neighbors) :
                                        IF p \in PagesOf[e.book] THEN <<e.book, p>> \in ToSet(got[c].given)
                                        ELSE p \in e.ids => <<e.book, p>> \in got[c].gone
      BY DEF WalkWhole, WalkAdvances, MissingHonest
    <2> DEFINE g == got[c]
    <2>1. AnswerInv(g)
      BY DEF IInv
    <2>2. g \in AnswerType
      BY DEF IInv, TypeInv
    <2> HIDE DEF g
    <2>3. g.more => g.next > g.start
      <3>1. g.next \in Nat /\ g.start \in Nat
        BY <2>2 DEF AnswerType
      <3> QED
        BY <2>1, <3>1 DEF AnswerInv
    <2>4. \A k \in g.missing :
             /\ k[2] \notin PagesOf[k[1]]
             /\ \E e \in ToSet(g.entries) : e.book = k[1] /\ k[2] \in e.ids
      BY <2>1 DEF AnswerInv, Lacks, AskedBy
    <2>5. ASSUME g.same, EachBookOnce(g.entries) PROVE IsInjective(g.given)
      BY <2>1, <2>5 DEF AnswerInv, Walked, Fits
    <2>6. ASSUME g.same, ~g.more, NEW e \in ToSet(g.entries), e.book \notin g.said,
                 NEW p \in Around(e.ids, g.neighbors)
          PROVE  IF p \in PagesOf[e.book] THEN <<e.book, p>> \in ToSet(g.given)
                 ELSE p \in e.ids => <<e.book, p>> \in g.gone
      <3>1. PICK i \in DOMAIN g.targets :
               g.targets[i].key = <<e.book, p>> /\ (p \in e.ids => g.targets[i].hit)
        BY <2>1, <2>6 DEF AnswerInv, Fits
      <3>2. Walked(g)
        BY <2>1, <2>6 DEF AnswerInv
      <3>3. \/ <<e.book, p>> \in ToSet(g.given)
            \/ e.book \in g.said
            \/ Lost(g.targets[i], g.gone)
        BY <2>6, <3>1, <3>2 DEF Walked
      <3>4. \A k \in ToSet(g.given) : Printed(k)
        BY <3>2 DEF Walked, ToSet
      <3>5. <<e.book, p>> \in ToSet(g.given) => p \in PagesOf[e.book]
        BY <3>4 DEF Printed
      <3>6. Lost(g.targets[i], g.gone) =>
               p \notin PagesOf[e.book] /\ (p \in e.ids => <<e.book, p>> \in g.gone)
        BY <3>1 DEF Lost
      <3> QED
        BY <2>6, <3>3, <3>5, <3>6
    <2> QED
      BY <2>3, <2>4, <2>5, <2>6 DEF g
  <1> QED
    BY <1>1, Invariant, PTL

(* What a batch fetched ahead stays cached until it is read, and a passage  *)
(* lacks its words only if they are not in the index or a request failed.   *)
THEOREM BatchesAreKept == Spec => []BatchKept
  <1>1. IInv => BatchKept
    <2> SUFFICES ASSUME IInv PROVE BatchKept
      OBVIOUS
    <2>1. ~now.cold => now.again \cap ToSet(Wanted) = {}
      <3>1. CASE pc = "rest"
        BY <3>1 DEF IInv, NoCall
      <3>2. CASE pc = "warm"
        BY <3>2 DEF IInv, CacheInv, WarmInv
      <3>3. CASE pc \in {"loop", "text"}
        BY <3>3 DEF IInv, CacheInv
      <3>4. pc \in {"rest", "warm", "loop", "text"}
        BY DEF IInv, TypeInv
      <3> QED
        BY <3>1, <3>2, <3>3, <3>4
    <2>2. ASSUME NEW c \in DOMAIN got, NEW n \in DOMAIN got[c].passages
          PROVE  \/ got[c].passages[n].text \/ got[c].trouble
                 \/ got[c].passages[n].key \notin Found(<<got[c].passages[n].key>>)
      BY <2>2 DEF IInv, AnswerInv, Worded
    <2> QED
      BY <2>1, <2>2 DEF BatchKept
  <1> QED
    BY <1>1, Invariant, PTL
=============================================================================
