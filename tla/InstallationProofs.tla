------------------------- MODULE InstallationProofs --------------------------
(***************************************************************************)
(* The engine in the cache is that of the cached catalogue, and a health   *)
(* report is true of the machine, for any number of clients, machines and  *)
(* schemas.                                                                *)
(*                                                                         *)
(* The first does not follow from itself: an engine is opened for the      *)
(* catalogue of one moment and cached at a later one. What carries it over *)
(* the await is that a catalogue, once opened, is replaced by a refresh    *)
(* only, and that a refresh crosses every call that is opening an engine   *)
(* (IInv). The second joins two moments as well: what the report carries   *)
(* over the await was true when it was made, and unless a refresh crossed  *)
(* it the engine it waits for reads the library it names (RInv).           *)
(***************************************************************************)
EXTENDS Installation, WellFoundedInduction, TLAPS

Shapes ==
    /\ pc \in [Calls -> {"idle", "refreshing", "opening", "using"}]
    /\ mine = [c \in Calls |-> mine[c]]

(* The engine a call opens is for the catalogue in the cache, until a      *)
(* refresh crosses the call.                                               *)
OpeningHere ==
    \A c \in Calls : pc[c] = "opening" /\ c \notin crossed =>
        cat # NoCatalogue /\ mine[c].root = cat.root

CachedHere ==
    eng # NoEngine /\ ~eng.astride => cat # NoCatalogue /\ eng.root = cat.root

IInv == Shapes /\ OpeningHere /\ CachedHere

(* What every report says, from its first half on: what the machine was    *)
(* like if it comes with a refresh, and what the probe made of its schema. *)
Fresh(r) ==
    r.fresh =>
        LET m == Machines[r.of]
        IN  /\ r.found => Chosen(m, r.root) /\ r.layout = m.at[r.root].master
            /\ ~r.found => \A root \in DOMAIN m.at :
                  Chosen(m, root) => m.at[root].master \notin DOMAIN Profiles
            /\ r.found /\ m.java \notin Blank /\ r.java # m.java =>
                  "javaIgnored" \in r.warnings

Probed(r) == r.found => r.layout \in DOMAIN Profiles /\ r.notes = Notes[r.layout]

Fields == {"of", "fresh", "found", "root", "layout", "notes", "java", "engine",
           "mixed", "readable", "warnings"}
ReportShape(r) == r = [f \in Fields |-> r[f]]

Told(r) == ReportShape(r) /\ Fresh(r) /\ Probed(r) /\ r.mixed \in BOOLEAN

Explained(r) ==
    r.warnings \cap {"reason", "noPages", "noJars", "noJava", "noHelper", "notOpened"} # {}

(* Of each call: the engine it holds or opens, and the report it carries.   *)
CallOK(c) ==
    /\ mine[c] \in Engines \cup {NoEngine}
    /\ mine[c] = NoEngine <=> pc[c] = "idle"
    /\ report[c] # NoReport =>
          /\ pc[c] \in {"refreshing", "opening"}
          /\ Told(report[c]) /\ report[c].found /\ ~report[c].readable

CatalogueOK(k) ==
    k = NoCatalogue \/ /\ \E n \in DOMAIN Machines : k.root \in DOMAIN Machines[n].at
                       /\ k.layout \in DOMAIN Profiles

Typed ==
    /\ now \in DOMAIN Machines
    /\ CatalogueOK(cat)
    /\ eng \in Engines \cup {NoEngine}
    /\ holders \in Nat
    /\ report = [c \in Calls |-> report[c]]
    /\ \A c \in Calls : CallOK(c)
    /\ crossed \subseteq Waiting

(* A call that no refresh has crossed waits for the engine of the catalogue *)
(* in the cache, which is the one its report is on.                        *)
WaitsHere(c) ==
    /\ cat # NoCatalogue
    /\ mine[c].astride \/ mine[c].root = cat.root
    /\ report[c] # NoReport => report[c].mixed \/ report[c].root = cat.root

WaitingHere == \A c \in Waiting \ crossed : WaitsHere(c)

Sent ==
    said # NoReport =>
        /\ Told(said)
        /\ ~said.readable => Explained(said)
        /\ said.readable => said.engine = said.root \/ said.mixed

RInv == Typed /\ IInv /\ WaitingHere /\ Sent

(* A catalogue in the cache is the one that catalogue() returns.           *)
LEMMA CatalogueStays ==
    ASSUME NEW cached, cached # NoCatalogue
    PROVE  Catalogue(cached) = cached
  BY DEF Catalogue

(* What openEngineProcess leaves at its await: an engine is being opened   *)
(* for the catalogue in the cache, or the call is over.                    *)
LEMMA LaunchHere ==
    ASSUME Shapes, NEW c \in Calls, NEW cached, NEW r, Launch(c, cached, r)
    PROVE  /\ Shapes'
           /\ cat' = Catalogue(cached)
           /\ \A x \in Calls \ {c} : pc'[x] = pc[x] /\ mine'[x] = mine[x]
           /\ pc'[c] = "opening" => cat' # NoCatalogue /\ mine'[c].root = cat'.root
  BY DEF Launch, Fail, Shapes

(* The same of acquireEngine, which may also find an engine in the cache.  *)
LEMMA AcquireHere ==
    ASSUME Shapes, NEW c \in Calls, NEW cached, NEW engine, NEW count, NEW r,
           Acquire(c, Catalogue(cached), engine, count, r)
    PROVE  /\ Shapes'
           /\ cat' = Catalogue(cached)
           /\ eng' \in {engine, NoEngine}
           /\ \A x \in Calls \ {c} : pc'[x] = pc[x] /\ mine'[x] = mine[x]
           /\ pc'[c] = "opening" => cat' # NoCatalogue /\ mine'[c].root = cat'.root
  <1>1. Catalogue(Catalogue(cached)) = Catalogue(cached)
    BY DEF Catalogue
  <1>2. CASE engine # NoEngine
    BY <1>2 DEF Acquire, Shapes
  <1>3. CASE engine = NoEngine
    <2>1. Launch(c, Catalogue(cached), r) /\ eng' = NoEngine
      BY <1>3 DEF Acquire
    <2> QED
      BY <1>1, <2>1, LaunchHere
  <1> QED
    BY <1>2, <1>3

(* An engine that was there before, or none, and the calls but one as they *)
(* were: the invariant holds if the catalogue is still there too.          *)
LEMMA StaysHere ==
    ASSUME IInv, NEW c \in Calls, Shapes',
           eng' \in {eng, NoEngine}, crossed' \in {crossed, crossed \ {c}},
           cat' = Catalogue(cat),
           \A x \in Calls \ {c} : pc'[x] = pc[x] /\ mine'[x] = mine[x],
           pc'[c] = "opening" => cat' # NoCatalogue /\ mine'[c].root = cat'.root
    PROVE  IInv'
  <1>1. CASE cat = NoCatalogue
    BY <1>1 DEF IInv, OpeningHere, CachedHere
  <1>2. CASE cat # NoCatalogue
    <2>1. cat' = cat
      BY <1>2, CatalogueStays
    <2> QED
      BY <2>1 DEF IInv, OpeningHere, CachedHere
  <1> QED
    BY <1>1, <1>2

LEMMA InvInit == Init => IInv
  BY DEF Init, IInv, Shapes, OpeningHere, CachedHere

LEMMA SearchKeeps ==
    ASSUME IInv, NEW c \in Calls, Search(c)
    PROVE  IInv'
  <1>1. Shapes
    BY DEF IInv
  <1>2. CASE Acquire(c, Catalogue(cat), eng, holders, NoReport)
    BY <1>1, <1>2, AcquireHere, StaysHere DEF Search
  <1>3. CASE UNCHANGED <<cat, eng, pc, mine>>
    BY <1>3 DEF Search, IInv, Shapes, OpeningHere, CachedHere
  <1> QED
    BY <1>2, <1>3 DEF Search

LEMMA HealthKeeps ==
    ASSUME IInv, NEW c \in Calls, NEW refresh \in BOOLEAN, Health(c, refresh)
    PROVE  IInv'
  <1> DEFINE kept == KeptCatalogue(refresh)
             found == Catalogue(kept)
             engine == EngineAfter(refresh)
             count == IF refresh THEN 0 ELSE holders
  <1>1. Shapes
    BY DEF IInv
  <1>2. /\ Shapes' /\ eng' \in {engine, NoEngine} /\ cat' = found
        /\ \A x \in Calls \ {c} : pc'[x] = pc[x] /\ mine'[x] = mine[x]
        /\ pc'[c] = "opening" => cat' # NoCatalogue /\ mine'[c].root = cat'.root
    <2>1. CASE Acquire(c, found, engine, count, FoundReport(Here, found, refresh))
      BY <1>1, <2>1, AcquireHere
    <2>2. CASE UNCHANGED <<pc, mine>> /\ cat' = found /\ eng' = engine
      BY <1>1, <2>2 DEF Shapes, Health
    <2> QED
      BY <2>1, <2>2 DEF Health
  <1>3. CASE ~refresh
    <2>1. kept = cat /\ engine = eng /\ crossed' = crossed
      BY <1>3 DEF Health, KeptCatalogue, EngineAfter
    <2> QED
      BY <1>2, <2>1, StaysHere
  <1>4. CASE refresh
    <2>1. eng' = NoEngine
      BY <1>2, <1>4 DEF EngineAfter
    <2>2. \A x \in Calls \ {c} : pc'[x] = "opening" => x \in crossed'
      BY <1>2, <1>4 DEF Health, Waiting
    <2> QED
      BY <1>2, <2>1, <2>2 DEF IInv, OpeningHere, CachedHere
  <1> QED
    BY <1>3, <1>4

(* The steps that take up an answer.                                       *)
LEMMA AnswersKeep ==
    ASSUME IInv, NEW c \in Calls, RefreshOk(c) \/ RefreshLost(c) \/ OpenOk(c) \/ OpenFails(c)
    PROVE  IInv'
  <1>1. Shapes
    BY DEF IInv
  <1>2. CASE RefreshOk(c)
    <2>1. \A x \in Calls \ {c} : pc'[x] = pc[x] /\ mine'[x] = mine[x]
      BY <1>1, <1>2 DEF RefreshOk, Got, Shapes
    <2>2. Shapes' /\ pc'[c] # "opening" /\ cat' = cat /\ eng' = eng /\ crossed' = crossed \ {c}
      BY <1>1, <1>2 DEF RefreshOk, Got, Shapes
    <2> QED
      BY <2>1, <2>2 DEF IInv, OpeningHere, CachedHere
  <1>3. CASE RefreshLost(c)
    <2>1. Launch(c, cat, Known(c)) /\ eng' = NoEngine /\ crossed' = crossed \ {c}
      BY <1>3 DEF RefreshLost
    <2> QED
      BY <1>1, <2>1, LaunchHere, StaysHere
  <1>4. CASE OpenOk(c)
    <2>1. \A x \in Calls \ {c} : pc'[x] = pc[x] /\ mine'[x] = mine[x]
      BY <1>1, <1>4 DEF OpenOk, Got, Shapes
    <2>2. Shapes' /\ pc'[c] # "opening" /\ cat' = cat /\ crossed' = crossed \ {c}
      BY <1>1, <1>4 DEF OpenOk, Got, Shapes
    <2>3. ~eng'.astride => cat # NoCatalogue /\ eng'.root = cat.root
      BY <1>4 DEF OpenOk, IInv, OpeningHere
    <2> QED
      BY <2>1, <2>2, <2>3 DEF IInv, OpeningHere, CachedHere
  <1>5. CASE OpenFails(c)
    <2>1. \A x \in Calls \ {c} : pc'[x] = pc[x] /\ mine'[x] = mine[x]
      BY <1>1, <1>5 DEF OpenFails, Fail, Shapes
    <2>2. /\ Shapes' /\ pc'[c] # "opening"
          /\ cat' = cat /\ eng' = eng /\ crossed' = crossed \ {c}
      BY <1>1, <1>5 DEF OpenFails, Fail, Shapes
    <2> QED
      BY <2>1, <2>2 DEF IInv, OpeningHere, CachedHere
  <1> QED
    BY <1>2, <1>3, <1>4, <1>5

(* The steps that open nothing and find nothing.                           *)
LEMMA OthersKeep ==
    ASSUME IInv, Change \/ IdleFires \/ (\E c \in Calls : Release(c)) \/ UNCHANGED vars
    PROVE  IInv'
  <1>1. CASE Change \/ IdleFires \/ UNCHANGED vars
    BY <1>1 DEF Change, IdleFires, vars, IInv, Shapes, OpeningHere, CachedHere
  <1>2. CASE \E c \in Calls : Release(c)
    BY <1>2 DEF Release, IInv, Shapes, OpeningHere, CachedHere
  <1> QED
    BY <1>1, <1>2

(* The text of a library is read where its catalogue was read, unless the  *)
(* call that opened the engine was already waiting at a refresh.           *)
THEOREM EngineFollowsCatalogue == Spec => []EngineOfLibrary
  <1>1. IInv /\ [Next]_vars => IInv'
    BY SearchKeeps, HealthKeeps, AnswersKeep, OthersKeep DEF Next
  <1>2. IInv => EngineOfLibrary
    BY DEF IInv, CachedHere, EngineOfLibrary
  <1> QED
    BY InvInit, <1>1, <1>2, PTL DEF Spec

-----------------------------------------------------------------------------
(* The least of some naturals is one of them.                              *)
LEMMA LeastOf ==
    ASSUME NEW S, S \subseteq Nat, S # {}
    PROVE  Min(S) \in S /\ \A k \in S : Min(S) <= k
  <1> DEFINE R == {ss \in Nat \X Nat : ss[1] < ss[2]}
  <1>1. IsWellFoundedOn(R, Nat)
    BY NatLessThanWellFounded DEF OpToRel
  <1>2. PICK m \in S : \A k \in S : <<k, m>> \notin R
    BY <1>1, WFMin
  <1>3. ASSUME NEW k \in S PROVE m <= k
    <2>1. k \in Nat /\ m \in Nat /\ <<k, m>> \in Nat \X Nat
      OBVIOUS
    <2>2. ~(k < m)
      BY <1>2, <2>1
    <2> QED
      BY <2>1, <2>2
  <1> QED
    BY <1>3 DEF Min

LEMMA FirstOf ==
    ASSUME NEW S, NEW seq \in Seq(S), NEW these, NEW default
    PROVE  LET I == {n \in 1..Len(seq) : seq[n] \in these}
           IN  First(seq, these, default) = IF I = {} THEN default ELSE seq[Min(I)]
  <1> DEFINE I == {n \in 1..Len(seq) : seq[n] \in these}
             J == {n \in DOMAIN seq : seq[n] \in these} \cup {Len(seq) + 1}
             s == Append(seq, default)
  <1>1. Len(seq) \in Nat /\ DOMAIN seq = 1..Len(seq)
    OBVIOUS
  <1>2. s[Len(seq) + 1] = default /\ \A n \in 1..Len(seq) : s[n] = seq[n]
    OBVIOUS
  <1>3. J \subseteq Nat /\ J # {} /\ J = I \cup {Len(seq) + 1} /\ I \subseteq 1..Len(seq)
    BY <1>1
  <1>4. First(seq, these, default) = s[Min(J)]
    BY DEF First
  <1> HIDE DEF I, J, s
  <1>5. CASE I = {}
    <2>1. Min(J) = Len(seq) + 1
      BY <1>3, <1>5, LeastOf
    <2> QED
      BY <1>2, <1>4, <1>5, <2>1 DEF I
  <1>6. CASE I # {}
    <2>1. I \subseteq Nat
      BY <1>3
    <2>2. Min(I) \in I /\ \A k \in I : Min(I) <= k
      BY <1>6, <2>1, LeastOf
    <2>3. Min(J) \in J /\ \A k \in J : Min(J) <= k
      BY <1>3, LeastOf
    <2>4. Min(J) = Min(I) /\ Min(I) \in 1..Len(seq)
      <3>1. Min(I) \in 1..Len(seq) /\ Min(I) \in J
        BY <1>3, <2>2
      <3>2. Min(J) <= Min(I) /\ Min(J) \in Nat /\ Min(I) \in Nat
        BY <1>3, <2>1, <2>2, <2>3, <3>1
      <3>3. Min(J) # Len(seq) + 1
        BY <1>1, <3>1, <3>2
      <3>4. Min(I) <= Min(J)
        BY <1>3, <2>2, <2>3, <3>3
      <3> QED
        BY <3>1, <3>2, <3>4
    <2> QED
      BY <1>2, <1>4, <1>6, <2>4 DEF I
  <1> QED
    BY <1>5, <1>6

(* The folder that is found is the one the rule chooses, and there is none  *)
(* only if the rule chooses none.                                          *)
LEMMA LocateRule ==
    ASSUME NEW n \in DOMAIN Machines
    PROVE  LET m == Machines[n]
           IN  /\ Locate(m).root # Null => Chosen(m, Locate(m).root)
               /\ \A root \in DOMAIN m.at : Chosen(m, root) => Locate(m).root = root
  <1> DEFINE m == Machines[n]
             I == {i \in 1..Len(Roots(m)) : Usable(m, Roots(m)[i])}
  <1>1. /\ SearchRoots \in Seq(ToSet(SearchRoots))
        /\ m.dir \in Blank \cup DOMAIN m.at
        /\ Null \notin DOMAIN m.at
    BY InstallationAssumption
  <1>2. Locate(m).root = IF I = {} THEN Null ELSE Roots(m)[Min(I)]
    <2> DEFINE these == {r \in DOMAIN m.at : Usable(m, r)}
    <2>1. Roots(m) \in Seq(ToSet(SearchRoots) \cup {Cleaned(m.dir)})
      <3> DEFINE S == ToSet(SearchRoots) \cup {Cleaned(m.dir)}
      <3>1. SearchRoots \in Seq(S)
        <4>1. ToSet(SearchRoots) \subseteq S
          OBVIOUS
        <4> HIDE DEF S
        <4> QED
          BY <1>1, <4>1
      <3>2. <<Cleaned(m.dir)>> \in Seq(S)
        <4>1. Cleaned(m.dir) \in S
          OBVIOUS
        <4> HIDE DEF S
        <4> QED
          BY <4>1
      <3> QED
        BY <3>1, <3>2 DEF Roots
    <2>2. \A r : r \in these <=> Usable(m, r)
      BY DEF Usable
    <2>3. Locate(m).root = First(Roots(m), these, Null)
      BY DEF Locate
    <2>4. I = {i \in 1..Len(Roots(m)) : Roots(m)[i] \in these}
      BY <2>2
    <2> HIDE DEF these, I
    <2> QED
      BY <2>1, <2>3, <2>4, FirstOf
  <1>3. I # {} => Min(I) \in I /\ \A k \in I : Min(I) <= k
    BY LeastOf
  <1>4. CASE m.dir \in Blank
    <2>1. Roots(m) = SearchRoots /\ DOMAIN SearchRoots = 1..Len(SearchRoots) /\ Len(SearchRoots) \in Nat
      BY <1>1, <1>4 DEF Roots, Cleaned
    <2>2. ASSUME Locate(m).root # Null PROVE Chosen(m, Locate(m).root)
      <3>1. PICK i \in 1..Len(SearchRoots) :
               /\ Usable(m, SearchRoots[i]) /\ Locate(m).root = SearchRoots[i]
               /\ \A k \in I : i <= k
        BY <1>2, <1>3, <2>1, <2>2
      <3>2. \A k \in 1..(i - 1) : ~Usable(m, SearchRoots[k])
        BY <2>1, <3>1
      <3> QED
        BY <1>4, <2>1, <3>1, <3>2 DEF Chosen
    <2>3. ASSUME NEW root \in DOMAIN m.at, Chosen(m, root) PROVE Locate(m).root = root
      <3>1. PICK i \in DOMAIN SearchRoots :
               SearchRoots[i] = root /\ \A k \in 1..(i - 1) : ~Usable(m, SearchRoots[k])
        BY <1>4, <2>3 DEF Chosen
      <3>2. i \in I /\ \A k \in I : i <= k
        BY <2>1, <2>3, <3>1 DEF Chosen
      <3> QED
        BY <1>2, <1>3, <2>1, <3>1, <3>2
    <2> QED
      BY <2>2, <2>3
  <1>5. CASE m.dir \notin Blank
    <2>1. m.dir # Null /\ Roots(m) = <<m.dir>>
      BY <1>1, <1>5 DEF Roots, Cleaned
    <2>2. I = IF Usable(m, m.dir) THEN {1} ELSE {}
      BY <2>1
    <2>3. Locate(m).root = IF Usable(m, m.dir) THEN m.dir ELSE Null
      BY <1>2, <1>3, <2>1, <2>2
    <2> QED
      BY <1>5, <2>3 DEF Chosen
  <1> QED
    BY <1>4, <1>5

(* What catalogue() opens on a machine is the library the rule chooses, if  *)
(* its books table is known; otherwise there is no such library.            *)
LEMMA CatalogueRule ==
    ASSUME NEW n \in DOMAIN Machines
    PROVE  LET m == Machines[n]
               k == Catalogues[n]
           IN  /\ k # NoCatalogue =>
                     /\ Chosen(m, k.root) /\ k.root \in DOMAIN m.at
                     /\ k.layout = m.at[k.root].master /\ k.layout \in DOMAIN Profiles
               /\ k = NoCatalogue => \A root \in DOMAIN m.at :
                     Chosen(m, root) => m.at[root].master \notin DOMAIN Profiles
  <1> DEFINE m == Machines[n]
             k == Catalogues[n]
             root0 == Locate(m).root
  <1>1. /\ root0 # Null => Chosen(m, root0)
        /\ \A root \in DOMAIN m.at : Chosen(m, root) => root0 = root
    BY LocateRule
  <1>2. k = IF CanOpen(m) THEN Opened(m) ELSE NoCatalogue
    BY DEF Catalogues
  <1>3. Null \notin DOMAIN m.at
    BY InstallationAssumption
  <1>4. CanOpen(m) <=> root0 # Null /\ m.at[root0].master \in DOMAIN Profiles
    BY DEF CanOpen
  <1>5. Opened(m).root = root0 /\ Opened(m).layout = m.at[root0].master
    BY DEF Opened
  <1>6. NoCatalogue.root = Null
    BY DEF NoCatalogue
  <1> HIDE DEF m, k, root0
  <1>7. ASSUME k # NoCatalogue
        PROVE  /\ Chosen(m, k.root) /\ k.root \in DOMAIN m.at
               /\ k.layout = m.at[k.root].master /\ k.layout \in DOMAIN Profiles
    <2>1. CanOpen(m) /\ k = Opened(m)
      BY <1>2, <1>7
    <2>2. Chosen(m, root0)
      BY <1>1, <1>4, <2>1
    <2> QED
      BY <1>4, <1>5, <2>1, <2>2 DEF Chosen, Usable
  <1>8. ASSUME k = NoCatalogue, NEW root \in DOMAIN m.at, Chosen(m, root)
        PROVE  m.at[root].master \notin DOMAIN Profiles
    <2>1. root0 = root /\ root0 # Null
      BY <1>1, <1>3, <1>8
    <2>2. ~CanOpen(m)
      BY <1>2, <1>5, <1>6, <1>8, <2>1
    <2> QED
      BY <1>4, <2>1, <2>2
  <1> QED
    BY <1>7, <1>8 DEF m, k

(* A table that is named for the books scores more than any that is not.    *)
LEMMA NameDecides ==
    ASSUME NEW t
    PROVE  /\ BooksScore(t) \in 0..17
           /\ t.name \in BookNames <=> BooksScore(t) >= 10
  BY DEF BooksScore, Points

(* The first of the best candidates scores as much as any other.           *)
LEMMA BestIsBest ==
    ASSUME NEW tables, tables \in Seq(ToSet(tables)), NEW t \in ToSet(tables), IsBooks(t)
    PROVE  BooksScore(t) <= BooksScore(BooksTable(tables))
  <1> DEFINE fit == {n \in DOMAIN tables : IsBooks(tables[n])}
             best == {n \in fit : \A k \in fit : BooksScore(tables[k]) <= BooksScore(tables[n])}
             Lack(n) == 17 - BooksScore(tables[n])
             lacks == {Lack(n) : n \in fit}
  <1>1. PICK i \in fit : tables[i] = t
    BY DEF ToSet
  <1>2. BooksTable(tables) = tables[Min(best)]
    BY <1>1 DEF BooksTable, Best
  <1>3. \A n \in fit : BooksScore(tables[n]) \in 0..17 /\ Lack(n) \in Nat
    <2>1. ASSUME NEW n \in fit PROVE BooksScore(tables[n]) \in 0..17
      BY NameDecides
    <2> QED
      BY <2>1
  <1>4. lacks \subseteq Nat /\ lacks # {}
    BY <1>1, <1>3
  <1>5. PICK n \in fit : Lack(n) = Min(lacks)
    BY <1>4, LeastOf
  <1>6. n \in best
    <2>1. ASSUME NEW k \in fit PROVE BooksScore(tables[k]) <= BooksScore(tables[n])
      <3>1. Lack(k) \in lacks /\ Min(lacks) <= Lack(k)
        BY <1>4, LeastOf
      <3>2. BooksScore(tables[k]) \in 0..17 /\ BooksScore(tables[n]) \in 0..17
        BY <1>3
      <3>3. 17 - BooksScore(tables[n]) <= 17 - BooksScore(tables[k])
        BY <1>5, <3>1
      <3>4. \A a, b \in 0..17 : 17 - a <= 17 - b => b <= a
        OBVIOUS
      <3> QED
        BY <3>2, <3>3, <3>4
    <2> QED
      BY <2>1
  <1>7. best \subseteq Nat
    OBVIOUS
  <1>8. Min(best) \in best
    BY <1>6, <1>7, LeastOf
  <1> QED
    BY <1>1, <1>2, <1>8

LEMMA BooksTableNamed ==
    ASSUME NEW l \in DOMAIN Profiles, NEW t \in ToSet(Layouts[l]), t.name \in BookNames, IsBooks(t)
    PROVE  Profiles[l].booksTable \in BookNames
  <1> DEFINE best == BooksTable(Layouts[l])
  <1>1. l \in DOMAIN Layouts /\ Layouts[l] \in Seq(ToSet(Layouts[l]))
    BY InstallationAssumption DEF Profiles
  <1>2. BooksScore(t) <= BooksScore(best)
    BY <1>1, BestIsBest
  <1>3. BooksScore(t) \in 0..17 /\ BooksScore(t) >= 10 /\ BooksScore(best) \in 0..17
    BY NameDecides
  <1>4. best.name \in BookNames
    BY <1>2, <1>3, NameDecides
  <1>5. Profiles[l].booksTable = best.name
    BY DEF Profiles, ProbeMaster
  <1> QED
    BY <1>4, <1>5

-----------------------------------------------------------------------------
(* The two halves of a report.                                             *)

\* A record of three fields is none of eleven.
LEMMA ToldIsReport == ASSUME NEW r, ReportShape(r), r.found PROVE r # NoReport
  BY DEF NoReport

(* The first half, with a library.                                         *)
LEMMA FoundTold ==
    ASSUME now \in DOMAIN Machines, NEW k, k # NoCatalogue, k.layout \in DOMAIN Profiles,
           NEW fresh \in BOOLEAN, fresh => k = Catalogues[now]
    PROVE  LET r == FoundReport(Here, k, fresh)
           IN  /\ Told(r) /\ r.found /\ ~r.readable /\ ~r.mixed /\ r.root = k.root /\ r # NoReport
               /\ ~AllThere(Here, k.root) => Explained(r)
  <1> DEFINE r == FoundReport(Here, k, fresh)
             m == Machines[now]
  <1>1. r = [of |-> IF fresh THEN now ELSE 0, fresh |-> fresh, found |-> TRUE,
             root |-> k.root, layout |-> k.layout,
             notes |-> Notes[k.layout], java |-> ResolveJava(m, k.root).path,
             engine |-> Null, mixed |-> FALSE, readable |-> FALSE,
             warnings |-> Warnings(m, k.root)]
    BY DEF FoundReport, Here
  <1> HIDE DEF r
  <1>2. ReportShape(r) /\ Probed(r) /\ r.mixed \in BOOLEAN
    BY <1>1 DEF ReportShape, Fields, Probed
  <1>3. Fresh(r)
    <2> SUFFICES ASSUME fresh
                 PROVE  /\ Chosen(m, k.root) /\ k.layout = m.at[k.root].master
                        /\ m.java \notin Blank /\ ResolveJava(m, k.root).path # m.java =>
                              "javaIgnored" \in Warnings(m, k.root)
      BY <1>1 DEF Fresh
    <2>1. Chosen(m, k.root) /\ k.layout = m.at[k.root].master
      BY CatalogueRule
    <2>2. ASSUME m.java \notin Blank, ResolveJava(m, k.root).path # m.java
          PROVE  "javaIgnored" \in Warnings(m, k.root)
      <3>1. m.java # Null
        BY <2>2, InstallationAssumption
      <3>2. ResolveJava(m, k.root).ignored = m.java
        BY <2>2, <3>1 DEF ResolveJava, Cleaned
      <3> QED
        BY <3>1, <3>2 DEF Warnings
    <2> QED
      BY <2>1, <2>2
  <1>4. ~AllThere(Here, k.root) => Explained(r)
    <2>1. ~AllThere(m, k.root) =>
             ~m.at[k.root].page \/ ResolveJava(m, k.root).path = Null \/ ~m.at[k.root].jars \/ ~m.helper
      BY DEF AllThere, CanLaunch
    <2>2. r.warnings = Warnings(m, k.root)
      BY <1>1
    <2> QED
      BY <2>1, <2>2 DEF Explained, Warnings, Here
  <1>5. r.found /\ ~r.readable /\ ~r.mixed /\ r.root = k.root
    BY <1>1
  <1>6. Told(r) /\ r # NoReport
    BY <1>2, <1>3, <1>5, ToldIsReport DEF Told
  <1> QED
    BY <1>4, <1>5, <1>6 DEF r

(* And without one.                                                        *)
LEMMA MissingTold ==
    ASSUME now \in DOMAIN Machines, NEW fresh \in BOOLEAN, fresh => Catalogues[now] = NoCatalogue
    PROVE  LET r == MissingReport(Here, fresh)
           IN  Told(r) /\ ~r.readable /\ Explained(r)
  <1> DEFINE r == MissingReport(Here, fresh)
             m == Machines[now]
  <1>1. PICK w : /\ "reason" \in w
                 /\ r = [of |-> IF fresh THEN now ELSE 0, fresh |-> fresh, found |-> FALSE,
                         root |-> Null, layout |-> NoMaster, notes |-> {}, java |-> Null,
                         engine |-> Null, mixed |-> FALSE, readable |-> FALSE, warnings |-> w]
    BY DEF MissingReport, Here
  <1> HIDE DEF r
  <1>2. ReportShape(r) /\ Probed(r) /\ r.mixed \in BOOLEAN /\ ~r.readable /\ Explained(r)
    BY <1>1 DEF ReportShape, Fields, Probed, Explained
  <1>3. Fresh(r)
    BY <1>1, CatalogueRule DEF Fresh
  <1> QED
    BY <1>2, <1>3 DEF Told, r

(* The second half, by the engine or by its failure.                       *)
LEMMA ReadableTold ==
    ASSUME NEW r, Told(r), r.found, NEW e \in Engines
    PROVE  LET s == Readable(r, e)
           IN  /\ Told(s) /\ s.readable /\ s.engine = e.root /\ s.root = r.root
               /\ s.mixed = (r.mixed \/ e.astride)
  <1> DEFINE s == Readable(r, e)
  <1>1. r.mixed \in BOOLEAN /\ e.astride \in BOOLEAN /\ ReportShape(r)
    BY DEF Told, Engines
  <1>2. ReportShape(s)
    BY <1>1 DEF Readable, ReportShape, Fields
  <1>3. s.of = r.of /\ s.fresh = r.fresh /\ s.found = r.found
    BY <1>1 DEF Readable, ReportShape, Fields
  <1>4. s.layout = r.layout /\ s.root = r.root /\ s.notes = r.notes
    BY <1>1 DEF Readable, ReportShape, Fields
  <1>5. s.java = r.java /\ s.warnings = r.warnings
    BY <1>1 DEF Readable, ReportShape, Fields
  <1>6. s.readable = TRUE /\ s.engine = e.root
    BY <1>1 DEF Readable, ReportShape, Fields
  <1>7. s.mixed = (r.mixed \/ e.astride)
    BY <1>1 DEF Readable, ReportShape, Fields
  <1> HIDE DEF s
  <1>8. Fresh(s) /\ Probed(s)
    BY <1>3, <1>4, <1>5 DEF Told, Fresh, Probed
  <1> QED
    BY <1>2, <1>4, <1>6, <1>7, <1>8 DEF Told, s

LEMMA UnreadableTold ==
    ASSUME NEW r, Told(r), r.found, ~r.readable
    PROVE  LET s == Unreadable(r)
           IN  Told(s) /\ ~s.readable /\ Explained(s)
  <1> DEFINE s == Unreadable(r)
  <1>1. r.mixed \in BOOLEAN /\ ReportShape(r)
    BY DEF Told
  <1>2. ReportShape(s)
    BY <1>1 DEF Unreadable, ReportShape, Fields
  <1>3. s.of = r.of /\ s.fresh = r.fresh /\ s.found = r.found
    BY <1>1 DEF Unreadable, ReportShape, Fields
  <1>4. s.layout = r.layout /\ s.root = r.root /\ s.notes = r.notes /\ s.java = r.java
    BY <1>1 DEF Unreadable, ReportShape, Fields
  <1>5. s.mixed = r.mixed /\ s.readable = r.readable
    BY <1>1 DEF Unreadable, ReportShape, Fields
  <1>6. s.warnings = r.warnings \cup {"notOpened"}
    BY <1>1 DEF Unreadable, ReportShape, Fields
  <1> HIDE DEF s
  <1>7. Fresh(s) /\ Probed(s) /\ Explained(s)
    BY <1>3, <1>4, <1>6 DEF Told, Fresh, Probed, Explained
  <1> QED
    BY <1>1, <1>2, <1>5, <1>7 DEF Told, s

(* What a refresh in between does to a report.                             *)
LEMMA KnownTold ==
    ASSUME NEW c \in Calls, Told(report[c]), report[c].found, ~report[c].readable
    PROVE  /\ Told(Known(c)) /\ Known(c).found /\ ~Known(c).readable /\ Known(c) # NoReport
           /\ Known(c).root = report[c].root
           /\ Known(c).mixed <=> report[c].mixed \/ c \in crossed
  <1> DEFINE r == report[c]
             s == Known(c)
  <1>1. r # NoReport /\ ReportShape(r)
    BY ToldIsReport DEF Told
  <1>2. CASE c \in crossed
    <2>0. s = [r EXCEPT !.mixed = TRUE]
      BY <1>1, <1>2 DEF Known
    <2>1. ReportShape(s)
      BY <1>1, <2>0 DEF ReportShape, Fields
    <2>2. s.of = r.of /\ s.fresh = r.fresh /\ s.found = r.found /\ s.root = r.root
      BY <1>1, <2>0 DEF ReportShape, Fields
    <2>3. s.layout = r.layout /\ s.notes = r.notes /\ s.java = r.java /\ s.warnings = r.warnings
      BY <1>1, <2>0 DEF ReportShape, Fields
    <2>4. s.mixed = TRUE /\ s.readable = r.readable
      BY <1>1, <2>0 DEF ReportShape, Fields
    <2> HIDE DEF s
    <2>5. Fresh(s) /\ Probed(s)
      BY <2>2, <2>3 DEF Told, Fresh, Probed
    <2>6. s # NoReport
      BY <2>1, <2>2, ToldIsReport
    <2> QED
      BY <1>2, <2>1, <2>2, <2>4, <2>5, <2>6 DEF Told, s
  <1>3. CASE c \notin crossed
    BY <1>1, <1>3 DEF Known, Told
  <1> QED
    BY <1>2, <1>3

-----------------------------------------------------------------------------
(* The steps, for what is reported.                                         *)

(* Only c moves: the others keep what they hold and what they will say.     *)
Moves(c) ==
    \A x \in Calls \ {c} : pc'[x] = pc[x] /\ mine'[x] = mine[x] /\ report'[x] = report[x]

(* What a step of c has to show; a call that waits uncrossed on the other   *)
(* side of it has the same catalogue still.                                *)
LEMMA Together ==
    ASSUME RInv, IInv', NEW c \in Calls, now' \in DOMAIN Machines,
           CatalogueOK(cat'), eng' \in Engines \cup {NoEngine}, holders' \in Nat,
           report' = [x \in Calls |-> report'[x]], Moves(c), CallOK(c)',
           c \notin crossed', crossed' \subseteq crossed \cup Waiting,
           c \in Waiting' => WaitsHere(c)',
           \A x \in (Waiting \ crossed') \ {c} : x \notin crossed /\ cat' = cat,
           Sent'
    PROVE  RInv'
  <1>1. \A x \in Calls \ {c} : x \in Waiting' <=> x \in Waiting
    BY DEF Moves, Waiting
  <1>2. ASSUME NEW x \in Calls \ {c} PROVE CallOK(x)'
    BY DEF RInv, Typed, CallOK, Moves
  <1>3. crossed \subseteq Waiting /\ Waiting \subseteq Calls
    BY DEF RInv, Typed, Waiting
  <1>4. crossed' \subseteq Waiting'
    BY <1>1, <1>3
  <1>5. Typed'
    BY <1>2, <1>4 DEF Typed, CatalogueOK
  <1>6. ASSUME NEW x \in Waiting' \ crossed', x # c PROVE WaitsHere(x)'
    <2>1. x \in Calls /\ x \in Waiting \ crossed /\ cat' = cat
      BY <1>1, <1>6 DEF Waiting
    <2>2. WaitsHere(x)
      BY <2>1 DEF RInv, WaitingHere
    <2> QED
      BY <1>6, <2>1, <2>2 DEF Moves, WaitsHere
  <1>7. WaitingHere'
    BY <1>6 DEF WaitingHere
  <1> QED
    BY <1>5, <1>7 DEF RInv

LEMMA CatalogueType ==
    ASSUME now \in DOMAIN Machines, NEW cached, CatalogueOK(cached)
    PROVE  CatalogueOK(Catalogue(cached))
  BY CatalogueRule DEF Catalogue, CatalogueOK

LEMMA JavaType ==
    ASSUME NEW n \in DOMAIN Machines, NEW root
    PROVE  ResolveJava(Machines[n], root).path
              \in {"bundled", Null} \cup UNION {DOMAIN Machines[k].files : k \in DOMAIN Machines}
  <1> DEFINE m == Machines[n]
             path == ResolveJava(m, root).path
  <1>1. m.java \in Blank \cup DOMAIN m.files
    BY InstallationAssumption
  <1>2. path \in {Cleaned(m.java), "bundled", Null} /\ (path = Cleaned(m.java) => Cleaned(m.java) # Null \/ path = Null)
    BY DEF ResolveJava
  <1>3. Cleaned(m.java) # Null => Cleaned(m.java) \in DOMAIN m.files
    BY <1>1 DEF Cleaned
  <1> QED
    BY <1>2, <1>3

(* What a call may carry into the second half.                             *)
Carried(r, root) ==
    r # NoReport => Told(r) /\ r.found /\ ~r.readable /\ (r.mixed \/ r.root = root)

LEMMA FailTells ==
    ASSUME Typed, Shapes, NEW c \in Calls, NEW r, NEW root, Carried(r, root) \/ r = report[c], Fail(c, r)
    PROVE  /\ Moves(c) /\ CallOK(c)' /\ pc'[c] = "idle" /\ Sent'
           /\ report' = [x \in Calls |-> report'[x]]
  <1>1. /\ \A x \in Calls : pc'[x] = IF x = c THEN "idle" ELSE pc[x]
        /\ \A x \in Calls : mine'[x] = IF x = c THEN NoEngine ELSE mine[x]
        /\ report' = [report EXCEPT ![c] = NoReport]
        /\ said' = IF r = NoReport THEN r ELSE Unreadable(r)
    BY DEF Fail, Shapes
  <1>2. \A x \in Calls : report'[x] = IF x = c THEN NoReport ELSE report[x]
    BY <1>1 DEF Typed
  <1>3. Sent'
    <2>1. r # NoReport => Told(r) /\ r.found /\ ~r.readable
      BY DEF Carried, Typed, CallOK
    <2> QED
      BY <1>1, <2>1, UnreadableTold DEF Sent
  <1>4. report' = [x \in Calls |-> report'[x]]
    BY <1>1 DEF Typed
  <1> QED
    BY <1>1, <1>2, <1>3, <1>4, EngineAssumption DEF Moves, CallOK

LEMMA LaunchTells ==
    ASSUME Typed, Shapes, NEW c \in Calls, NEW cached, CatalogueOK(cached), NEW r,
           Carried(r, Catalogue(cached).root), Launch(c, cached, r)
    PROVE  /\ cat' = Catalogue(cached) /\ CatalogueOK(cat')
           /\ Moves(c) /\ CallOK(c)' /\ report' = [x \in Calls |-> report'[x]] /\ Sent'
           /\ c \in Waiting' => WaitsHere(c)'
  <1> DEFINE found == Catalogue(cached)
  <1>1. CatalogueOK(found) /\ cat' = found
    BY CatalogueType DEF Typed, Launch
  <1>2. CASE Fail(c, r)
    BY <1>1, <1>2, FailTells DEF Waiting
  <1>3. CASE ~Fail(c, r)
    <2> DEFINE engine == [root |-> found.root, java |-> ResolveJava(Here, found.root).path,
                          astride |-> FALSE]
    <2>1. /\ found # NoCatalogue
          /\ pc' = [pc EXCEPT ![c] = "opening"]
          /\ mine' = [mine EXCEPT ![c] = engine]
          /\ report' = [report EXCEPT ![c] = r]
          /\ said' = NoReport
      BY <1>3 DEF Launch
    <2>2. engine \in Engines /\ engine.root = found.root /\ engine # NoEngine
      <3>1. engine.root \in UNION {DOMAIN Machines[n].at : n \in DOMAIN Machines}
        BY <1>1, <2>1 DEF CatalogueOK
      <3>2. engine.java \in {"bundled", Null}
               \cup UNION {DOMAIN Machines[k].files : k \in DOMAIN Machines}
        BY JavaType DEF Here, Typed
      <3>3. engine \in Engines
        BY <3>1, <3>2 DEF Engines
      <3> QED
        BY <3>3, EngineAssumption
    <2> HIDE DEF found, engine
    <2>3. /\ \A x \in Calls : pc'[x] = IF x = c THEN "opening" ELSE pc[x]
          /\ \A x \in Calls : mine'[x] = IF x = c THEN engine ELSE mine[x]
          /\ \A x \in Calls : report'[x] = IF x = c THEN r ELSE report[x]
      BY <2>1 DEF Shapes, Typed
    <2>4. mine'[c].root = cat'.root /\ mine'[c] # NoEngine /\ cat' # NoCatalogue
      BY <1>1, <2>1, <2>2, <2>3
    <2>5. Moves(c) /\ Sent' /\ report' = [x \in Calls |-> report'[x]]
      BY <2>1, <2>3 DEF Moves, Sent, Typed
    <2>6. CallOK(c)'
      BY <2>2, <2>3, <2>4 DEF CallOK, Carried
    <2>7. WaitsHere(c)'
      BY <1>1, <2>3, <2>4 DEF WaitsHere, Carried, found
    <2> QED
      BY <1>1, <2>5, <2>6, <2>7 DEF found
  <1> QED
    BY <1>2, <1>3

LEMMA AcquireTells ==
    ASSUME Typed, Shapes, CachedHere, NEW c \in Calls, NEW kept, NEW cached, NEW count \in Nat, NEW r,
           \/ kept = cat /\ cached = eng
           \/ kept = NoCatalogue /\ cached = NoEngine,
           Catalogue(kept) # NoCatalogue, Carried(r, Catalogue(kept).root),
           Acquire(c, Catalogue(kept), cached, count, r)
    PROVE  /\ cat' = Catalogue(kept) /\ CatalogueOK(cat')
           /\ eng' \in Engines \cup {NoEngine} /\ holders' \in Nat
           /\ Moves(c) /\ CallOK(c)' /\ report' = [x \in Calls |-> report'[x]] /\ Sent'
           /\ c \in Waiting' => WaitsHere(c)'
  <1> DEFINE found == Catalogue(kept)
  <1>1. CatalogueOK(kept)
    BY DEF Typed, CatalogueOK
  <1>2. CatalogueOK(found) /\ Catalogue(found) = found
    BY <1>1, CatalogueType DEF Typed, Catalogue
  <1> HIDE DEF found
  <1>3. CASE cached = NoEngine
    <2>1. Launch(c, found, r) /\ eng' = NoEngine /\ holders' = count
      BY <1>3 DEF Acquire, found
    <2> QED
      BY <1>2, <2>1, LaunchTells DEF found
  <1>4. CASE cached # NoEngine
    <2>1. /\ kept = cat /\ cached = eng /\ eng \in Engines
          /\ cat' = found /\ eng' = eng /\ holders' = count + 1
          /\ pc' = [pc EXCEPT ![c] = "refreshing"]
          /\ mine' = [mine EXCEPT ![c] = eng]
          /\ report' = [report EXCEPT ![c] = r]
          /\ said' = NoReport
      BY <1>4 DEF Acquire, found, Typed
    <2>2. /\ \A x \in Calls : pc'[x] = IF x = c THEN "refreshing" ELSE pc[x]
          /\ \A x \in Calls : mine'[x] = IF x = c THEN eng ELSE mine[x]
          /\ \A x \in Calls : report'[x] = IF x = c THEN r ELSE report[x]
      BY <2>1 DEF Shapes, Typed
    <2>3. Moves(c) /\ Sent' /\ report' = [x \in Calls |-> report'[x]]
      BY <2>1, <2>2 DEF Moves, Sent, Typed
    <2>4. CallOK(c)'
      BY <2>1, <2>2, <1>4 DEF CallOK, Carried
    <2>5. eng.astride \/ eng.root = found.root
      BY <1>4, <2>1 DEF CachedHere, Catalogue, found
    <2>6. WaitsHere(c)'
      BY <2>1, <2>2, <2>5 DEF WaitsHere, Carried, found
    <2> QED
      BY <1>2, <2>1, <2>3, <2>4, <2>6 DEF found
  <1> QED
    BY <1>3, <1>4

(* An engine at hand: a search uses it, health speaks of it.               *)
LEMMA GotTells ==
    ASSUME Typed, Shapes, WaitingHere, NEW c \in Waiting, NEW engine \in Engines, NEW count \in Nat,
           engine.root = mine[c].root, engine.astride \/ c \in crossed \/ mine[c].root = cat.root,
           Got(c, engine, count)
    PROVE  /\ holders' \in Nat /\ crossed' = crossed \ {c}
           /\ Moves(c) /\ CallOK(c)' /\ report' = [x \in Calls |-> report'[x]] /\ Sent'
           /\ pc'[c] \in {"using", "idle"}
  <1>1. c \in Calls
    BY DEF Waiting
  <1>2. CASE report[c] = NoReport
    <2>1. /\ pc' = [pc EXCEPT ![c] = "using"]
          /\ mine' = [mine EXCEPT ![c] = engine]
          /\ UNCHANGED report /\ holders' = count /\ said' = NoReport /\ crossed' = crossed \ {c}
      BY <1>2 DEF Got
    <2>2. /\ \A x \in Calls : pc'[x] = IF x = c THEN "using" ELSE pc[x]
          /\ \A x \in Calls : mine'[x] = IF x = c THEN engine ELSE mine[x]
      BY <2>1 DEF Shapes
    <2> QED
      BY <1>1, <1>2, <2>1, <2>2, EngineAssumption DEF Moves, CallOK, Sent, Typed
  <1>3. CASE report[c] # NoReport
    <2>1. /\ pc' = [pc EXCEPT ![c] = "idle"]
          /\ mine' = [mine EXCEPT ![c] = NoEngine]
          /\ report' = [report EXCEPT ![c] = NoReport]
          /\ holders' = Less(count) /\ said' = Readable(Known(c), engine) /\ crossed' = crossed \ {c}
      BY <1>3 DEF Got
    <2>2. /\ \A x \in Calls : pc'[x] = IF x = c THEN "idle" ELSE pc[x]
          /\ \A x \in Calls : mine'[x] = IF x = c THEN NoEngine ELSE mine[x]
          /\ \A x \in Calls : report'[x] = IF x = c THEN NoReport ELSE report[x]
      BY <2>1 DEF Shapes, Typed
    <2>3. Told(report[c]) /\ report[c].found /\ ~report[c].readable
      BY <1>1, <1>3 DEF Typed, CallOK
    <2>4. /\ Told(Known(c)) /\ Known(c).found /\ Known(c).root = report[c].root
          /\ Known(c).mixed <=> report[c].mixed \/ c \in crossed
      BY <1>1, <2>3, KnownTold
    <2>5. /\ Told(said') /\ said'.readable /\ said'.engine = engine.root
          /\ said'.root = report[c].root /\ said'.mixed = (Known(c).mixed \/ engine.astride)
      BY <2>1, <2>4, ReadableTold
    <2>6. c \notin crossed => report[c].mixed \/ report[c].root = cat.root
      BY <1>3 DEF WaitingHere, WaitsHere
    <2>7. said'.engine = said'.root \/ said'.mixed
      BY <2>4, <2>5, <2>6
    <2>8. Sent'
      BY <2>5, <2>7 DEF Sent
    <2>9. holders' \in Nat
      BY <2>1 DEF Less
    <2> QED
      BY <1>1, <2>1, <2>2, <2>8, <2>9 DEF Moves, CallOK, Typed
  <1> QED
    BY <1>2, <1>3

LEMMA RInvInit == Init => RInv
  <1> SUFFICES ASSUME Init PROVE RInv
    OBVIOUS
  <1>1. Typed
    BY DEF Init, Typed, CallOK, CatalogueOK
  <1> QED
    BY <1>1, InvInit DEF Init, RInv, WaitingHere, Waiting, Sent

LEMMA SearchTells ==
    ASSUME RInv, NEW c \in Calls, Search(c)
    PROVE  RInv'
  <1> USE DEF RInv, Typed
  <1>1. IInv' /\ Shapes /\ CachedHere /\ c \notin Waiting /\ c \notin crossed
    BY SearchKeeps DEF IInv, Search, Waiting
  <1>2. CASE Catalogue(cat) # NoCatalogue
    <2>1. Acquire(c, Catalogue(cat), eng, holders, NoReport)
      BY <1>2 DEF Search
    <2>2. Carried(NoReport, Catalogue(cat).root)
      BY DEF Carried
    <2>3. /\ cat' = Catalogue(cat) /\ CatalogueOK(cat')
          /\ eng' \in Engines \cup {NoEngine} /\ holders' \in Nat
          /\ Moves(c) /\ CallOK(c)' /\ report' = [x \in Calls |-> report'[x]] /\ Sent'
          /\ c \in Waiting' => WaitsHere(c)'
      BY <1>1, <1>2, <2>1, <2>2, AcquireTells
    <2>4. \A x \in Waiting \ crossed : cat' = cat
      BY <2>3 DEF WaitingHere, WaitsHere, Catalogue
    <2> QED
      BY <1>1, <2>3, <2>4, Together DEF Search
  <1>3. CASE Catalogue(cat) = NoCatalogue
    <2>1. UNCHANGED <<now, cat, eng, holders, pc, mine, report, crossed>> /\ said' = NoReport
      BY <1>3, <1>1 DEF Search, Acquire, Launch
    <2> QED
      BY <1>1, <2>1 DEF CallOK, CatalogueOK, WaitingHere, WaitsHere, Waiting, Sent
  <1> QED
    BY <1>2, <1>3

LEMMA HealthTells ==
    ASSUME RInv, NEW c \in Calls, NEW refresh \in BOOLEAN, Health(c, refresh)
    PROVE  RInv'
  <1> USE DEF RInv, Typed
  <1> DEFINE kept == KeptCatalogue(refresh)
             found == Catalogue(kept)
             engine == EngineAfter(refresh)
             count == IF refresh THEN 0 ELSE holders
             r == FoundReport(Here, found, refresh)
  <1>1. IInv' /\ Shapes /\ CachedHere /\ c \notin Waiting /\ c \notin crossed
    BY HealthKeeps DEF IInv, Health, Waiting
  <1>2. /\ \/ kept = cat /\ engine = eng
           \/ kept = NoCatalogue /\ engine = NoEngine
        /\ count \in Nat /\ engine \in Engines \cup {NoEngine}
        /\ CatalogueOK(kept) /\ (refresh => kept = NoCatalogue /\ found = Catalogues[now])
    BY DEF KeptCatalogue, EngineAfter, CatalogueOK, Catalogue
  <1>3. CatalogueOK(found)
    BY <1>2, CatalogueType
  <1>4. now' = now /\ c \notin crossed' /\ crossed' \subseteq crossed \cup Waiting
        /\ crossed \subseteq crossed' /\ (refresh => Waiting \subseteq crossed')
    BY <1>1 DEF Health
  <1>5. /\ cat' = found /\ CatalogueOK(cat')
        /\ eng' \in Engines \cup {NoEngine} /\ holders' \in Nat
        /\ Moves(c) /\ CallOK(c)' /\ report' = [x \in Calls |-> report'[x]] /\ Sent'
        /\ c \in Waiting' => WaitsHere(c)'
    <2>1. CASE found = NoCatalogue
      <3>1. /\ cat' = found /\ eng' = engine /\ holders' = count
            /\ said' = MissingReport(Here, refresh)
            /\ UNCHANGED <<pc, mine, report>>
        BY <2>1 DEF Health
      <3>2. Sent'
        BY <1>2, <2>1, <3>1, MissingTold DEF Sent
      <3> QED
        BY <1>1, <1>2, <1>3, <3>1, <3>2 DEF Moves, CallOK, Waiting
    <2>2. CASE found # NoCatalogue
      <3>1. /\ Told(r) /\ r.found /\ ~r.readable /\ ~r.mixed /\ r.root = found.root /\ r # NoReport
            /\ ~AllThere(Here, found.root) => Explained(r)
        BY <1>2, <1>3, <2>2, FoundTold DEF CatalogueOK
      <3>2. CASE AllThere(Here, found.root)
        <4>1. Acquire(c, found, engine, count, r)
          BY <2>2, <3>2 DEF Health
        <4>2. Carried(r, found.root)
          BY <3>1 DEF Carried
        <4> HIDE DEF kept, engine, count, r
        <4> QED
          BY <1>1, <1>2, <2>2, <4>1, <4>2, AcquireTells
      <3>3. CASE ~AllThere(Here, found.root)
        <4>1. /\ cat' = found /\ eng' = engine /\ holders' = count /\ said' = r
              /\ UNCHANGED <<pc, mine, report>>
          BY <2>2, <3>3 DEF Health
        <4>2. Sent'
          BY <3>1, <3>3, <4>1 DEF Sent
        <4> QED
          BY <1>1, <1>2, <1>3, <4>1, <4>2 DEF Moves, CallOK, Waiting
      <3> QED
        BY <3>2, <3>3
    <2> QED
      BY <2>1, <2>2
  <1>6. \A x \in Waiting \ crossed' : x \notin crossed /\ cat' = cat
    <2>1. ASSUME NEW x \in Waiting \ crossed' PROVE x \notin crossed /\ cat' = cat
      <3>1. x \notin crossed /\ ~refresh /\ cat # NoCatalogue
        BY <1>4, <2>1 DEF WaitingHere, WaitsHere
      <3> QED
        BY <1>5, <3>1 DEF KeptCatalogue, Catalogue
    <2> QED
      BY <2>1
  <1> QED
    BY <1>1, <1>4, <1>5, <1>6, Together

LEMMA AnswersTell ==
    ASSUME RInv, NEW c \in Calls, RefreshOk(c) \/ RefreshLost(c) \/ OpenOk(c) \/ OpenFails(c)
    PROVE  RInv'
  <1> USE DEF RInv, Typed
  <1>1. IInv' /\ Shapes /\ CachedHere /\ OpeningHere /\ c \in Waiting
    BY AnswersKeep DEF IInv, Waiting, RefreshOk, RefreshLost, OpenOk, OpenFails
  <1>2. mine[c] \in Engines
    BY <1>1 DEF CallOK, Waiting
  <1>3. c \notin crossed => WaitsHere(c)
    BY <1>1 DEF WaitingHere
  <1>4. ASSUME cat' = cat, eng' \in Engines \cup {NoEngine}, now' = now,
               NEW engine \in Engines, NEW count \in Nat, engine.root = mine[c].root,
               engine.astride \/ c \in crossed \/ mine[c].root = cat.root, Got(c, engine, count)
        PROVE  RInv'
    <2>1. /\ holders' \in Nat /\ crossed' = crossed \ {c}
          /\ Moves(c) /\ CallOK(c)' /\ report' = [x \in Calls |-> report'[x]] /\ Sent'
          /\ pc'[c] \in {"using", "idle"}
      BY <1>1, <1>4, GotTells
    <2>2. c \notin Waiting' /\ CatalogueOK(cat')
      BY <1>4, <2>1 DEF Waiting
    <2> QED
      BY <1>1, <1>4, <2>1, <2>2, Together
  <1>5. CASE RefreshOk(c)
    BY <1>2, <1>3, <1>4, <1>5 DEF RefreshOk, WaitsHere
  <1>6. CASE OpenOk(c)
    <2> DEFINE engine == [root |-> mine[c].root, java |-> Null, astride |-> c \in crossed]
    <2>1. engine \in Engines
      BY <1>2 DEF Engines
    <2>2. cat' = cat /\ now' = now /\ eng' = engine /\ Got(c, engine, holders + 1) /\ pc[c] = "opening"
      BY <1>6 DEF OpenOk
    <2>3. engine.root = mine[c].root /\ (engine.astride \/ c \in crossed \/ mine[c].root = cat.root)
      BY <1>1, <2>2 DEF OpeningHere
    <2>4. holders + 1 \in Nat /\ eng' \in Engines \cup {NoEngine}
      BY <2>1, <2>2
    <2> HIDE DEF engine
    <2> QED
      BY <1>4, <2>1, <2>2, <2>3, <2>4
  <1>7. CASE RefreshLost(c)
    <2>1. /\ Launch(c, cat, Known(c)) /\ eng' = NoEngine /\ holders' = 0
          /\ crossed' = crossed \ {c} /\ now' = now
      BY <1>7 DEF RefreshLost
    <2>2. Carried(Known(c), Catalogue(cat).root)
      <3>1. CASE report[c] = NoReport
        BY <3>1 DEF Carried, Known
      <3>2. CASE report[c] # NoReport
        <4>1. /\ Told(Known(c)) /\ Known(c).found /\ ~Known(c).readable
              /\ Known(c).root = report[c].root
              /\ Known(c).mixed <=> report[c].mixed \/ c \in crossed
          BY <3>2, KnownTold DEF CallOK
        <4>2. c \notin crossed => Catalogue(cat) = cat /\ (report[c].mixed \/ report[c].root = cat.root)
          BY <1>3, <3>2 DEF WaitsHere, Catalogue
        <4> QED
          BY <4>1, <4>2 DEF Carried
      <3> QED
        BY <3>1, <3>2
    <2>3. /\ cat' = Catalogue(cat) /\ CatalogueOK(cat')
          /\ Moves(c) /\ CallOK(c)' /\ report' = [x \in Calls |-> report'[x]] /\ Sent'
          /\ c \in Waiting' => WaitsHere(c)'
      BY <1>1, <2>1, <2>2, LaunchTells
    <2>4. \A x \in Waiting \ crossed : cat' = cat
      BY <2>3 DEF WaitingHere, WaitsHere, Catalogue
    <2> QED
      BY <1>1, <2>1, <2>3, <2>4, Together
  <1>8. CASE OpenFails(c)
    <2>1. Fail(c, report[c]) /\ crossed' = crossed \ {c} /\ UNCHANGED <<now, cat, eng, holders>>
      BY <1>8 DEF OpenFails
    <2>2. /\ Moves(c) /\ CallOK(c)' /\ pc'[c] = "idle" /\ Sent'
          /\ report' = [x \in Calls |-> report'[x]]
      BY <1>1, <2>1, FailTells
    <2>3. c \notin Waiting' /\ CatalogueOK(cat')
      BY <2>1, <2>2 DEF Waiting
    <2> QED
      BY <1>1, <2>1, <2>2, <2>3, Together
  <1> QED
    BY <1>5, <1>6, <1>7, <1>8

LEMMA OthersTell ==
    ASSUME RInv, Change \/ IdleFires \/ (\E c \in Calls : Release(c)) \/ UNCHANGED vars
    PROVE  RInv'
  <1> USE DEF RInv, Typed
  <1>1. IInv'
    BY OthersKeep
  <1>2. ASSUME NEW c \in Calls, Release(c) PROVE RInv'
    <2>1. /\ \A x \in Calls : pc'[x] = IF x = c THEN "idle" ELSE pc[x]
          /\ \A x \in Calls : mine'[x] = IF x = c THEN NoEngine ELSE mine[x]
          /\ UNCHANGED <<now, cat, eng, report, crossed>> /\ said' = NoReport
          /\ holders' = Less(holders) /\ pc[c] = "using"
      BY <1>2 DEF Release, IInv, Shapes
    <2>2. holders' \in Nat
      BY <2>1 DEF Less
    <2>3. Moves(c) /\ CallOK(c)' /\ Sent'
      BY <2>1 DEF Moves, CallOK, Sent
    <2>4. c \notin Waiting' /\ c \notin crossed' /\ CatalogueOK(cat')
      BY <2>1 DEF Waiting
    <2> QED
      BY <1>1, <2>1, <2>2, <2>3, <2>4, Together
  <1>3. CASE Change \/ IdleFires \/ UNCHANGED vars
    <2>1. now' \in DOMAIN Machines
      <3>1. Len(Machines) \in Nat /\ Len(Machines) # 0 /\ DOMAIN Machines = 1..Len(Machines)
        BY InstallationAssumption
      <3> QED
        BY <1>3, <3>1 DEF Change, IdleFires, vars
    <2>2. UNCHANGED <<cat, holders, pc, mine, report, crossed>> /\ eng' \in {eng, NoEngine}
      BY <1>3 DEF Change, IdleFires, vars
    <2>3. said' \in {said, NoReport}
      BY <1>3 DEF Change, IdleFires, vars
    <2>4. Typed'
      BY <2>1, <2>2 DEF CallOK, CatalogueOK, Waiting
    <2>5. WaitingHere'
      BY <2>2 DEF WaitingHere, WaitsHere, Waiting
    <2>6. Sent'
      BY <2>3 DEF Sent
    <2> QED
      BY <1>1, <2>4, <2>5, <2>6
  <1> QED
    BY <1>2, <1>3

LEMMA ReportInductive == Spec => []RInv
  <1>1. RInv /\ [Next]_vars => RInv'
    BY SearchTells, HealthTells, AnswersTell, OthersTell DEF Next
  <1> QED
    BY RInvInit, <1>1, PTL DEF Spec

-----------------------------------------------------------------------------
(* Every variable keeps its type: in particular the counter of holders      *)
(* never goes below zero, and a call has an engine exactly while it is not  *)
(* idle, on any machines.                                                  *)
THEOREM TypeCorrect == Spec => []TypeOK
  <1>1. RInv => TypeOK
    BY DEF RInv, Typed, IInv, Shapes, CallOK, CatalogueOK, TypeOK
  <1> QED
    BY <1>1, ReportInductive, PTL

(* fiqh4_health with refresh speaks of the machine as it was when it asked: *)
(* of the library the settings mean, or of none if there is none to read.   *)
THEOREM ReportsAreFresh == Spec => []FreshReport
  <1>1. RInv => FreshReport
    BY DEF RInv, Sent, Told, Fresh, FreshReport, NoReport
  <1> QED
    BY <1>1, ReportInductive, PTL

(* No failure is left unexplained, and an index is called readable on the   *)
(* word of the engine of the library reported on, unless a refresh came in  *)
(* between.                                                                *)
THEOREM ReportsAreTruthful == Spec => []HealthTruthful
  <1>1. RInv => HealthTruthful
    BY DEF RInv, Sent, Explained, HealthTruthful
  <1> QED
    BY <1>1, ReportInductive, PTL

(* For every schema: a missing table of categories is reported; when there  *)
(* is a table that was taken for it, the report says that no book will be   *)
(* classified exactly when the catalogue joins no category; and a table     *)
(* named for the books is preferred to any that looks like it.              *)
THEOREM SchemaIsSaid == Spec => []SchemaSaid
  <1>1. ASSUME RInv, said.found PROVE
           LET tables == Layouts[said.layout]
               profile == Profiles[said.layout]
           IN  /\ profile.categoriesTable = Null => "noCategories" \in said.notes
               /\ profile.categoriesTable # Null =>
                     (JoinsCategories(profile) <=>
                         said.notes \cap {"categoriesUnread", "noCategoryColumn"} = {})
               /\ (\E t \in ToSet(tables) : t.name \in BookNames /\ IsBooks(t)) =>
                     profile.booksTable \in BookNames
    <2>1. said.layout \in DOMAIN Profiles /\ said.notes = Notes[said.layout]
      BY <1>1 DEF RInv, Sent, Told, Probed, NoReport
    <2>2. said.notes = MasterNotes(Profiles[said.layout], Candidates(Layouts[said.layout]))
      BY <2>1 DEF Notes
    <2> DEFINE p == Profiles[said.layout]
    <2>3. p.categoriesTable = Null => "noCategories" \in said.notes
      BY <2>2 DEF MasterNotes
    <2>4. ASSUME p.categoriesTable # Null
          PROVE  JoinsCategories(p) <=>
                    said.notes \cap {"categoriesUnread", "noCategoryColumn"} = {}
      <3>1. "categoriesUnread" \in said.notes <=> Null \in {p.categoryId, p.categoryName}
        BY <2>2, <2>4 DEF MasterNotes
      <3>2. "noCategoryColumn" \in said.notes <=> p.bookCategoryId = Null
        BY <2>2 DEF MasterNotes
      <3> QED
        BY <2>4, <3>1, <3>2 DEF JoinsCategories
    <2> QED
      BY <2>1, <2>3, <2>4, BooksTableNamed
  <1>2. RInv => SchemaSaid
    BY <1>1 DEF SchemaSaid
  <1> QED
    BY <1>2, ReportInductive, PTL
=============================================================================
