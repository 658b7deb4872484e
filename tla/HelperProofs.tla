---------------------------- MODULE HelperProofs -----------------------------
(***************************************************************************)
(* The Java helper, from both sides: who keeps it running (EngineLifecycle)*)
(* and how it is asked (LuceneBridge), each proved by itself, for any      *)
(* finite set of tool calls and any number of requests, deaths, timeouts   *)
(* and orders of the events of pipes and processes.                        *)
(***************************************************************************)
EXTENDS EngineLifecycle, LuceneBridge, FiniteSetTheorems, TLAPS

(***************************************************************************)
(* The engine that the tool calls share.                                   *)
(***************************************************************************)
(* The variables keep their types through every callback of context.ts.    *)
THEOREM TypeCorrect == Spec => []TypeOK
<1>1. Init => TypeOK
  <2> SUFFICES ASSUME Init PROVE TypeOK
    OBVIOUS
  <2> USE DEF Init
  <2>1. cache \in Calls \union {NoEngine} /\ holders \in Nat /\ timer \in BOOLEAN
    OBVIOUS
  <2>2. pc \in [Calls -> Phases]
    BY DEF Phases
  <2>3. eng \in [Calls -> Calls \union {NoEngine}]
    OBVIOUS
  <2>4. helper \in [Calls -> {"unused", "on", "closing", "off"}]
    OBVIOUS
  <2>5. closed \in SUBSET Calls /\ stale \in BOOLEAN
    OBVIOUS
  <2> QED
    BY <2>1, <2>2, <2>3, <2>4, <2>5 DEF TypeOK
<1>2. TypeOK /\ [Next]_vars => TypeOK'
  <2> SUFFICES ASSUME TypeOK, [Next]_vars PROVE TypeOK'
    OBVIOUS
  <2> USE DEF TypeOK, Phases
  <2>1. ASSUME NEW c \in Calls, AcquireCached(c) PROVE TypeOK'
    <3>1. pc' \in [Calls -> Phases]
      BY <2>1 DEF AcquireCached
    <3>2. eng' \in [Calls -> Calls \union {NoEngine}]
      BY <2>1 DEF AcquireCached
    <3>3. helper' \in [Calls -> {"unused", "on", "closing", "off"}]
      BY <2>1 DEF AcquireCached, AfterSend
    <3>4. /\ cache' \in Calls \union {NoEngine} /\ timer' \in BOOLEAN
          /\ closed' \in SUBSET Calls /\ stale' \in BOOLEAN
      BY <2>1 DEF AcquireCached
    <3>5. holders' \in Nat
      BY <2>1 DEF AcquireCached
    <3> QED
      BY <3>1, <3>2, <3>3, <3>4, <3>5
  <2>2. ASSUME NEW c \in Calls, AcquireEmpty(c) PROVE TypeOK'
    BY <2>2 DEF AcquireEmpty, AfterSend
  <2>3. ASSUME NEW c \in Calls, AcquireRefused(c) PROVE TypeOK'
    BY <2>3 DEF AcquireRefused
  <2>4. ASSUME NEW c \in Calls, RefreshOk(c) PROVE TypeOK'
    BY <2>4 DEF RefreshOk
  <2>5. ASSUME NEW c \in Calls, RefreshLost(c) PROVE TypeOK'
    BY <2>5 DEF RefreshLost
  <2>6. ASSUME NEW c \in Calls, Reopen(c) PROVE TypeOK'
    <3>1. pc' \in [Calls -> Phases]
      BY <2>6 DEF Reopen
    <3>2. eng' \in [Calls -> Calls \union {NoEngine}]
      BY <2>6 DEF Reopen
    <3>3. helper' \in [Calls -> {"unused", "on", "closing", "off"}]
      BY <2>6 DEF Reopen, AfterClose, AfterSend
    <3>4. /\ cache' \in Calls \union {NoEngine} /\ holders' \in Nat
          /\ timer' \in BOOLEAN /\ closed' \in SUBSET Calls /\ stale' \in BOOLEAN
      BY <2>6 DEF Reopen, CloseEngineNow
    <3> QED
      BY <3>1, <3>2, <3>3, <3>4
  <2>7. ASSUME NEW c \in Calls, OpenOk(c) PROVE TypeOK'
    BY <2>7 DEF OpenOk
  <2>8. ASSUME NEW c \in Calls, OpenFails(c) PROVE TypeOK'
    BY <2>8 DEF OpenFails
  <2>9. ASSUME NEW c \in Calls, Use(c) PROVE TypeOK'
    BY <2>9 DEF Use, AfterSend
  <2>10. ASSUME NEW c \in Calls, Release(c) PROVE TypeOK'
    <3>1. pc' \in [Calls -> Phases] /\ eng' \in [Calls -> Calls \union {NoEngine}]
      BY <2>10 DEF Release
    <3>2. helper' \in [Calls -> {"unused", "on", "closing", "off"}]
      BY <2>10 DEF Release, ReleaseEngine, AfterClose
    <3>3. holders' \in Nat
      BY <2>10 DEF Release, ReleaseEngine, CloseEngineNow
    <3>4. /\ cache' \in Calls \union {NoEngine} /\ timer' \in BOOLEAN
          /\ closed' \in SUBSET Calls /\ stale' \in BOOLEAN
      BY <2>10, Zenon DEF Release, ReleaseEngine, CloseEngineNow
    <3> QED
      BY <3>1, <3>2, <3>3, <3>4
  <2>11. ASSUME NEW c \in Calls, Abandon(c) PROVE TypeOK'
    BY <2>11 DEF Abandon
  <2>12. ASSUME NEW e \in Calls, HelperDies(e) PROVE TypeOK'
    BY <2>12 DEF HelperDies
  <2>13. ASSUME NEW e \in Calls, HelperStops(e) PROVE TypeOK'
    BY <2>13 DEF HelperStops
  <2>14. CASE IdleFires
    BY <2>14 DEF IdleFires, CloseEngineNow, AfterClose
  <2>15. CASE Reset
    BY <2>15 DEF Reset, CloseEngineNow, AfterClose
  <2>16. CASE UNCHANGED vars
    BY <2>16 DEF vars
  <2> QED
    BY <2>1, <2>2, <2>3, <2>4, <2>5, <2>6, <2>7, <2>8, <2>9, <2>10, <2>11,
       <2>12, <2>13, <2>14, <2>15, <2>16 DEF Next
<1> QED
  BY <1>1, <1>2, PTL DEF Spec

-----------------------------------------------------------------------------
(* A helper whose count is zero always has its shutdown scheduled           *)
(* (releaseEngine), so a cached helper is never forgotten.                  *)
THEOREM AlwaysArmed == Spec => []IdleArmed
<1>1. Init => IdleArmed
  BY DEF Init, IdleArmed
<1>2. TypeOK /\ IdleArmed /\ [Next]_vars => IdleArmed'
  <2> SUFFICES ASSUME TypeOK, IdleArmed, [Next]_vars,
                      cache' # NoEngine, holders' = 0
               PROVE  timer'
    BY DEF IdleArmed
  <2>1. holders \in Nat
    BY DEF TypeOK
  <2>2. ASSUME NEW c \in Calls, AcquireCached(c) \/ OpenOk(c) PROVE FALSE
    <3>1. holders' = holders + 1
      BY <2>2 DEF AcquireCached, OpenOk
    <3> QED
      BY <3>1, <2>1
  <2>3. ASSUME NEW c \in Calls, Release(c) PROVE timer'
    BY <2>3 DEF Release, ReleaseEngine, CloseEngineNow
  <2>4. ASSUME NEW c \in Calls,
               \/ AcquireEmpty(c) \/ AcquireRefused(c) \/ RefreshOk(c)
               \/ RefreshLost(c) \/ OpenFails(c) \/ Use(c) \/ Abandon(c)
               \/ HelperDies(c) \/ HelperStops(c)
        PROVE  timer'
    <3>1. UNCHANGED <<cache, holders, timer>>
      BY <2>4 DEF AcquireEmpty, AcquireRefused, RefreshOk, RefreshLost,
                  OpenFails, Use, Abandon, HelperDies, HelperStops
    <3> QED
      BY <3>1 DEF IdleArmed
  <2>5. ASSUME NEW c \in Calls, Reopen(c) PROVE FALSE
    BY <2>5 DEF Reopen, CloseEngineNow
  <2>6. CASE Reset
    BY <2>6 DEF Reset, CloseEngineNow
  <2>7. CASE IdleFires
    BY <2>7 DEF IdleFires, CloseEngineNow
  <2>8. CASE UNCHANGED vars
    BY <2>8 DEF vars, IdleArmed
  <2> QED
    BY <2>2, <2>3, <2>4, <2>5, <2>6, <2>7, <2>8 DEF Next
<1> QED
  BY <1>1, <1>2, TypeCorrect, PTL DEF Spec

-----------------------------------------------------------------------------
(* An engine in the cache has not been closed: a call that acquires it gets *)
(* a bridge with a helper of its own.  The strengthening says where an      *)
(* engine's opener stands once the engine has been cached or closed.        *)
OpenerInv ==
    /\ \A c \in Calls : pc[c] = "opening" => eng[c] = c
    /\ \A e \in Calls : e \in closed \/ e = cache => pc[e] \in {"using", "released", "abandoned"}
    /\ CacheNotClosed

THEOREM CacheIsOpen == Spec => []CacheNotClosed
<1>1. Init => OpenerInv
  BY EngineAssumption DEF Init, OpenerInv, CacheNotClosed
<1>2. TypeOK /\ OpenerInv /\ [Next]_vars => OpenerInv'
  <2> SUFFICES ASSUME TypeOK, OpenerInv, [Next]_vars PROVE OpenerInv'
    OBVIOUS
  <2> USE EngineAssumption DEF TypeOK, OpenerInv, CacheNotClosed
  <2>1. ASSUME NEW c \in Calls,
               AcquireCached(c) \/ AcquireEmpty(c) \/ AcquireRefused(c)
        PROVE  OpenerInv'
    BY <2>1 DEF AcquireCached, AcquireEmpty, AcquireRefused
  <2>2. ASSUME NEW c \in Calls, RefreshOk(c) \/ RefreshLost(c) PROVE OpenerInv'
    BY <2>2 DEF RefreshOk, RefreshLost
  <2>3. ASSUME NEW c \in Calls, Reopen(c) PROVE OpenerInv'
    BY <2>3 DEF Reopen, CloseEngineNow
  <2>4. ASSUME NEW c \in Calls, OpenOk(c) PROVE OpenerInv'
    BY <2>4 DEF OpenOk
  <2>5. ASSUME NEW c \in Calls, OpenFails(c) \/ Use(c) \/ Abandon(c) PROVE OpenerInv'
    BY <2>5 DEF OpenFails, Use, Abandon
  <2>6. ASSUME NEW c \in Calls, Release(c) PROVE OpenerInv'
    BY <2>6 DEF Release, ReleaseEngine, CloseEngineNow
  <2>7. ASSUME NEW e \in Calls, HelperDies(e) \/ HelperStops(e) PROVE OpenerInv'
    BY <2>7 DEF HelperDies, HelperStops
  <2>8. CASE IdleFires \/ Reset
    BY <2>8 DEF IdleFires, Reset, CloseEngineNow
  <2>9. CASE UNCHANGED vars
    BY <2>9 DEF vars
  <2> QED
    BY <2>1, <2>2, <2>3, <2>4, <2>5, <2>6, <2>7, <2>8, <2>9 DEF Next
<1>3. OpenerInv => CacheNotClosed
  BY DEF OpenerInv
<1> QED
  BY <1>1, <1>2, <1>3, TypeCorrect, PTL DEF Spec

(* Together: a cached engine is open, and about to be given up when nobody  *)
(* counts on it.                                                            *)
THEOREM CacheIsTended == Spec => []CacheTended
BY AlwaysArmed, CacheIsOpen, PTL DEF CacheTended

-----------------------------------------------------------------------------
(* The live handles as a set that grows and shrinks by one call.           *)
Live(q) == {c \in Calls : q[c] \in Holding}

LEMMA LiveSize ==
  ASSUME NEW q PROVE IsFiniteSet(Live(q)) /\ Cardinality(Live(q)) \in Nat
<1>1. Live(q) \in SUBSET Calls
  BY DEF Live
<1> QED
  BY <1>1, EngineAssumption, FS_Subset, FS_CardinalityType

LEMMA LiveGrows ==
  ASSUME NEW q \in [Calls -> Phases], NEW c \in Calls, q[c] \notin Holding,
         NEW p \in Holding
  PROVE  Cardinality(Live([q EXCEPT ![c] = p])) = Cardinality(Live(q)) + 1
<1>1. Live([q EXCEPT ![c] = p]) = Live(q) \union {c} /\ c \notin Live(q)
  BY DEF Live
<1> QED
  BY <1>1, LiveSize, FS_AddElement

LEMMA LiveShrinks ==
  ASSUME NEW q \in [Calls -> Phases], NEW c \in Calls, q[c] \in Holding,
         NEW p \in Phases \ Holding
  PROVE  Cardinality(Live([q EXCEPT ![c] = p])) = Cardinality(Live(q)) - 1
<1>1. Live([q EXCEPT ![c] = p]) = Live(q) \ {c} /\ c \in Live(q)
  BY DEF Live
<1> QED
  BY <1>1, LiveSize, FS_RemoveElement

(* What each kind of step does to the count and to the live handles.       *)
LEMMA TakeStep ==
  ASSUME TypeOK, NEW c \in Calls, AcquireCached(c) \/ OpenOk(c)
  PROVE  /\ holders' = holders + 1
         /\ Cardinality(Live(pc')) = Cardinality(Live(pc)) + 1
<1>1. CASE AcquireCached(c)
  <2>1. pc[c] \notin Holding /\ pc' = [pc EXCEPT ![c] = "refreshing"]
    BY <1>1 DEF AcquireCached, Holding
  <2>2. "refreshing" \in Holding /\ pc \in [Calls -> Phases]
    BY DEF Holding, TypeOK
  <2>3. Cardinality(Live(pc')) = Cardinality(Live(pc)) + 1
    BY <2>1, <2>2, LiveGrows
  <2> QED
    BY <1>1, <2>3 DEF AcquireCached
<1>2. CASE OpenOk(c)
  <2>1. pc[c] \notin Holding /\ pc' = [pc EXCEPT ![c] = "using"]
    BY <1>2 DEF OpenOk, Holding
  <2>2. "using" \in Holding /\ pc \in [Calls -> Phases]
    BY DEF Holding, TypeOK
  <2>3. Cardinality(Live(pc')) = Cardinality(Live(pc)) + 1
    BY <2>1, <2>2, LiveGrows
  <2> QED
    BY <1>2, <2>3 DEF OpenOk
<1> QED
  BY <1>1, <1>2

LEMMA GiveStep ==
  ASSUME TypeOK, NEW c \in Calls, Release(c)
  PROVE  /\ holders' = IF holders > 0 THEN holders - 1 ELSE 0
         /\ Live(pc') = Live(pc) \ {c} /\ c \in Live(pc)
         /\ Cardinality(Live(pc')) = Cardinality(Live(pc)) - 1
<1>1. pc[c] = "using" /\ pc' = [pc EXCEPT ![c] = "released"]
  BY DEF Release
<1>2. Live(pc') = Live(pc) \ {c} /\ c \in Live(pc)
  BY <1>1 DEF Live, Holding, TypeOK
<1>3. Cardinality(Live(pc')) = Cardinality(Live(pc)) - 1
  BY <1>1, LiveShrinks DEF TypeOK, Holding, Phases
<1>4. holders' = IF holders > 0 THEN holders - 1 ELSE 0
  BY DEF Release, ReleaseEngine, CloseEngineNow
<1> QED
  BY <1>2, <1>3, <1>4

LEMMA KeepStep ==
  ASSUME TypeOK, NEW c \in Calls,
         \/ AcquireEmpty(c) \/ AcquireRefused(c) \/ RefreshOk(c) \/ RefreshLost(c)
         \/ OpenFails(c) \/ Use(c) \/ Abandon(c) \/ HelperDies(c) \/ HelperStops(c)
  PROVE  UNCHANGED <<cache, holders, timer, closed, stale>> /\ Live(pc') = Live(pc)
<1> USE DEF TypeOK, Live, Holding
<1>1. CASE AcquireEmpty(c) \/ AcquireRefused(c)
  BY <1>1 DEF AcquireEmpty, AcquireRefused
<1>2. CASE RefreshOk(c) \/ RefreshLost(c)
  BY <1>2 DEF RefreshOk, RefreshLost
<1>3. CASE OpenFails(c) \/ Use(c) \/ Abandon(c)
  BY <1>3 DEF OpenFails, Use, Abandon
<1>4. CASE HelperDies(c)
  BY <1>4 DEF HelperDies
<1>5. CASE HelperStops(c)
  BY <1>5 DEF HelperStops
<1> QED
  BY <1>1, <1>2, <1>3, <1>4, <1>5

-----------------------------------------------------------------------------
(* engineHolders never exceeds the handles that are out, whatever restarts, *)
(* resets and late releases do, so the helper is never pinned for ever.     *)
THEOREM NeverOvercounts == Spec => []HoldersNeverOvercount
<1> USE DEF HoldersNeverOvercount
<1>0. LiveHandles = Live(pc)
  BY DEF LiveHandles, Live
<1>1. Init => HoldersNeverOvercount
  BY <1>0, LiveSize DEF Init
<1>2. TypeOK /\ HoldersNeverOvercount /\ [Next]_vars => HoldersNeverOvercount'
  <2> SUFFICES ASSUME TypeOK, holders <= Cardinality(Live(pc)), [Next]_vars
               PROVE  holders' <= Cardinality(Live(pc'))
    BY <1>0 DEF LiveHandles, Live
  <2>1. /\ holders \in Nat
        /\ Cardinality(Live(pc)) \in Nat /\ Cardinality(Live(pc')) \in Nat
    BY LiveSize DEF TypeOK
  <2>2. ASSUME NEW c \in Calls, AcquireCached(c) \/ OpenOk(c)
        PROVE  holders' <= Cardinality(Live(pc'))
    BY <2>1, <2>2, TakeStep
  <2>3. ASSUME NEW c \in Calls, Release(c)
        PROVE  holders' <= Cardinality(Live(pc'))
    BY <2>1, <2>3, GiveStep
  <2>4. ASSUME NEW c \in Calls,
               \/ AcquireEmpty(c) \/ AcquireRefused(c) \/ RefreshOk(c)
               \/ RefreshLost(c) \/ OpenFails(c) \/ Use(c) \/ Abandon(c)
               \/ HelperDies(c) \/ HelperStops(c)
        PROVE  holders' <= Cardinality(Live(pc'))
    BY <2>4, KeepStep
  <2>5. ASSUME NEW c \in Calls, Reopen(c)
        PROVE  holders' <= Cardinality(Live(pc'))
    BY <2>1, <2>5 DEF Reopen, CloseEngineNow
  <2>6. CASE Reset \/ IdleFires
    <3>1. pc' = pc /\ (holders' = 0 \/ holders' = holders)
      BY <2>6 DEF Reset, IdleFires, CloseEngineNow
    <3> QED
      BY <2>1, <3>1
  <2>7. CASE UNCHANGED vars
    BY <2>7 DEF vars
  <2> QED
    BY <2>2, <2>3, <2>4, <2>5, <2>6, <2>7 DEF Next
<1> QED
  BY <1>1, <1>2, TypeCorrect, PTL DEF Spec

-----------------------------------------------------------------------------
(* As long as no engine was closed over somebody's handle the count is      *)
(* exactly the number of handles, however many first calls race to open a  *)
(* helper and however many helpers fail.                                    *)
THEOREM ExactWhileFresh == Spec => []ExactUnlessStale
<1> USE DEF ExactUnlessStale
<1>0. LiveHandles = Live(pc)
  BY DEF LiveHandles, Live
<1>1. Init => ExactUnlessStale
  <2> SUFFICES ASSUME Init PROVE ExactUnlessStale
    OBVIOUS
  <2>1. Live(pc) = {}
    BY DEF Init, Live, Holding
  <2> QED
    BY <1>0, <2>1, FS_EmptySet DEF Init
<1>2. TypeOK /\ ExactUnlessStale /\ [Next]_vars => ExactUnlessStale'
  <2> SUFFICES ASSUME TypeOK, ExactUnlessStale, [Next]_vars, ~stale'
               PROVE  holders' = Cardinality(Live(pc'))
    BY DEF LiveHandles, Live
  <2>0. ~stale
    <3>1. ASSUME NEW c \in Calls,
                 \/ AcquireCached(c) \/ AcquireEmpty(c) \/ AcquireRefused(c)
                 \/ RefreshOk(c) \/ RefreshLost(c) \/ OpenOk(c) \/ OpenFails(c)
                 \/ Use(c) \/ Abandon(c) \/ HelperDies(c) \/ HelperStops(c)
          PROVE  ~stale
      BY <3>1 DEF AcquireCached, AcquireEmpty, AcquireRefused, RefreshOk, RefreshLost,
             OpenOk, OpenFails, Use, Abandon, HelperDies, HelperStops
    <3>2. ASSUME NEW c \in Calls, Reopen(c) \/ Release(c) PROVE ~stale
      BY <3>2, Zenon DEF Reopen, Release, ReleaseEngine, CloseEngineNow
    <3>3. CASE IdleFires \/ Reset
      BY <3>3, Zenon DEF IdleFires, Reset, CloseEngineNow
    <3>4. CASE UNCHANGED vars
      BY <3>4 DEF vars
    <3> QED
      BY <3>1, <3>2, <3>3, <3>4 DEF Next
  <2>1. /\ holders \in Nat /\ holders = Cardinality(Live(pc))
        /\ Cardinality(Live(pc)) \in Nat /\ IsFiniteSet(Live(pc))
    BY <1>0, <2>0, LiveSize DEF TypeOK
  <2>2. ASSUME NEW c \in Calls, AcquireCached(c) \/ OpenOk(c)
        PROVE  holders' = Cardinality(Live(pc'))
    BY <2>1, <2>2, TakeStep
  <2>3. ASSUME NEW c \in Calls, Release(c)
        PROVE  holders' = Cardinality(Live(pc'))
    <3>1. holders > 0
      BY <2>1, <2>3, GiveStep, LiveSize
    <3> QED
      BY <2>1, <2>3, <3>1, GiveStep
  <2>4. ASSUME NEW c \in Calls,
               \/ AcquireEmpty(c) \/ AcquireRefused(c) \/ RefreshOk(c)
               \/ RefreshLost(c) \/ OpenFails(c) \/ Use(c) \/ Abandon(c)
               \/ HelperDies(c) \/ HelperStops(c)
        PROVE  holders' = Cardinality(Live(pc'))
    BY <2>1, <2>4, KeepStep
  <2>5. ASSUME NEW c \in Calls, Reopen(c)
        PROVE  holders' = Cardinality(Live(pc'))
    <3>1. LiveHandles \ {c} = {}
      BY <2>5, Zenon DEF Reopen, CloseEngineNow
    <3>2. \E p \in {"opening", "failed"} : pc' = [pc EXCEPT ![c] = p]
      BY <2>5 DEF Reopen
    <3>3. Live(pc') = {}
      BY <1>0, <3>1, <3>2 DEF Live, Holding, TypeOK
    <3>4. holders' = 0
      BY <2>5 DEF Reopen, CloseEngineNow
    <3> QED
      BY <3>3, <3>4, FS_EmptySet
  <2>6. CASE Reset
    <3>1. LiveHandles = {} /\ pc' = pc
      BY <2>6, Zenon DEF Reset, CloseEngineNow
    <3>2. holders' = 0
      BY <2>6 DEF Reset, CloseEngineNow
    <3> QED
      BY <1>0, <3>1, <3>2, FS_EmptySet
  <2>7. CASE IdleFires
    <3>1. pc' = pc /\ ((holders' = 0 /\ holders = 0) \/ holders' = holders)
      BY <2>7 DEF IdleFires, CloseEngineNow
    <3> QED
      BY <2>1, <3>1
  <2>8. CASE UNCHANGED vars
    BY <2>1, <2>8 DEF vars
  <2> QED
    BY <2>2, <2>3, <2>4, <2>5, <2>6, <2>7, <2>8 DEF Next
<1> QED
  BY <1>1, <1>2, TypeCorrect, PTL DEF Spec

(* Together: the count is never too high, and too low only after a handle   *)
(* was left behind by a restart or a reset.                                 *)
THEOREM CountExact == Spec => []HoldersExact
BY NeverOvercounts, ExactWhileFresh, PTL DEF HoldersExact

(* Then a release, or the idle timer, closes only a helper nobody holds:   *)
(* what EngineHandle.release promises, up to stale handles.                 *)
THEOREM SparesHolders == Spec => SparesUnlessStale
<1>0. LiveHandles = Live(pc)
  BY DEF LiveHandles, Live
<1>1. ASSUME TypeOK, ExactUnlessStale, ~stale,
             IdleFires \/ \E c \in Calls : Release(c), closed' # closed
      PROVE  \A c \in Calls : pc'[c] \notin Holding
  <2>1. holders \in Nat /\ holders = Cardinality(Live(pc)) /\ IsFiniteSet(Live(pc))
    BY <1>0, <1>1, LiveSize DEF TypeOK, ExactUnlessStale
  <2>2. CASE IdleFires
    <3>1. holders = 0 /\ pc' = pc
      BY <1>1, <2>2 DEF IdleFires
    <3>2. Live(pc) = {}
      BY <2>1, <3>1, FS_EmptySet
    <3> QED
      BY <3>1, <3>2 DEF Live
  <2>3. ASSUME NEW c \in Calls, Release(c)
        PROVE  \A d \in Calls : pc'[d] \notin Holding
    <3>1. (IF holders > 0 THEN holders - 1 ELSE 0) = 0
      BY <1>1, <2>3 DEF Release, ReleaseEngine
    <3>2. Cardinality(Live(pc')) = 0
      BY <1>1, <2>1, <2>3, <3>1, GiveStep, LiveSize
    <3>3. Live(pc') = {}
      BY <3>2, LiveSize, FS_EmptySet
    <3> QED
      BY <3>3 DEF Live
  <2> QED
    BY <1>1, <2>2, <2>3
<1>2. TypeOK /\ ExactUnlessStale => [~stale => ~ClosesUnderHolder]_vars
  BY <1>1 DEF ClosesUnderHolder
<1> QED
  BY <1>2, ExactWhileFresh, TypeCorrect, PTL DEF Spec, SparesUnlessStale

-----------------------------------------------------------------------------
(***************************************************************************)
(* The bridge.                                                             *)
(*                                                                         *)
(* failAll rejects everything that is pending, whichever process it was    *)
(* written to. What keeps this from harm before the first close() is that  *)
(* a process is spawned only where no other is running or is still to be   *)
(* seen off (OneRuns); what keeps answers honest is that a whole line in a *)
(* pipe was written by a helper that had read the request (Pipes).         *)
(***************************************************************************)
Running == {"up", "killed", "dead"}
Unsettled == \A k \in Closes : status[k] \in {"new", "pending"}

(* A send is written to a process that was spawned, by a send that began.  *)
Spawned ==
    /\ \A s \in Sends :
          /\ status[s] = "new" => target[s] = NoProc
          /\ status[s] = "pending" => target[s] \in Requests
          /\ target[s] # NoProc => life[target[s]] # "none"
    /\ \A p \in Requests : life[p] # "none" => status[p] # "new"
    /\ proc # NoProc => life[proc] \in Running

(* Until close() is over, the current process is the only one there is.    *)
OneRuns == Unsettled => \A p \in Requests : life[p] \in Running => proc = p

NoneWaits == \A s \in Pending : life[target[s]] # "gone"

CloseStopped ==
    \A k \in Closes :
        status[k] \in {"answered", "failed"} /\ target[k] # NoProc => life[target[k]] # "up"

(* What is read was sent, and a line is whole only if it was written.       *)
Pipes ==
    \A p \in Requests :
        /\ \A n \in 1..Len(stdin[p]) : status[stdin[p][n]] # "new"
        /\ \A n \in 1..Len(stdout[p]) :
              stdout[p][n].part = "end" => stdout[p][n].of \in written

ProcInv == Spawned /\ OneRuns /\ NoneWaits /\ CloseStopped
BridgeInv == BridgeTypeOK /\ ProcInv /\ Pipes

-----------------------------------------------------------------------------
LEMMA BridgeInvAtFirst == BridgeInit => BridgeInv
  <1> SUFFICES ASSUME BridgeInit PROVE BridgeInv
    OBVIOUS
  <1> USE BridgeAssumption DEF BridgeInit, Sends
  <1>1. BridgeTypeOK
    BY DEF BridgeTypeOK, Pieces
  <1>2. ProcInv
    BY DEF ProcInv, Spawned, OneRuns, NoneWaits, CloseStopped, Pending, Running, Unsettled
  <1>3. Pipes
    <2>1. \A p \in Requests : stdin[p] = << >> /\ stdout[p] = << >>
      OBVIOUS
    <2>2. \A p \in Requests : Len(stdin[p]) = 0 /\ Len(stdout[p]) = 0
      BY <2>1
    <2>3. \A n \in 1..0 : FALSE
      OBVIOUS
    <2> QED
      BY <2>2, <2>3 DEF Pipes
  <1> QED
    BY <1>1, <1>2, <1>3 DEF BridgeInv

(* Types. A piece taken from a pipe is of a send, and so is the head of    *)
(* what a helper has still to read.                                        *)
LEMMA SettleTypes ==
    ASSUME BridgeTypeOK, NEW s \in Sends, NEW how \in {"answered", "failed"}, Settle(s, how)
    PROVE  /\ status' \in [Sends -> {"new", "pending", "answered", "failed"}]
           /\ proc' \in Requests \union {NoProc}
           /\ life' \in [Requests -> {"none", "up", "killed", "dead", "gone"}]
  BY DEF Settle, KillCurrent, BridgeTypeOK

LEMMA WriteTypes ==
    ASSUME BridgeTypeOK, NEW s \in Sends, NEW p \in Requests, WriteTo(s, p)
    PROVE  /\ status' \in [Sends -> {"new", "pending", "answered", "failed"}]
           /\ target' \in [Sends -> Requests \union {NoProc}]
           /\ stdin' \in [Requests -> Seq(Sends)]
  <1>1. Append(stdin[p], s) \in Seq(Sends)
    BY DEF BridgeTypeOK
  <1> QED
    BY <1>1 DEF WriteTo, BridgeTypeOK

LEMMA BridgeTypeStep == BridgeTypeOK /\ [BridgeNext]_bridgeVars => BridgeTypeOK'
  <1> SUFFICES ASSUME BridgeTypeOK, [BridgeNext]_bridgeVars PROVE BridgeTypeOK'
    OBVIOUS
  <1> USE BridgeAssumption DEF BridgeTypeOK, Sends
  <1>1. ASSUME NEW s \in Requests, Send(s) PROVE BridgeTypeOK'
    <2>1. PICK p \in Requests : WriteTo(s, p)
      BY <1>1 DEF Send
    <2>2. /\ proc' \in Requests \union {NoProc}
          /\ life' \in [Requests -> {"none", "up", "killed", "dead", "gone"}]
      BY <1>1 DEF Send
    <2> QED
      BY <1>1, <2>1, <2>2, WriteTypes DEF Send
  <1>2. ASSUME NEW k \in Closes, Close(k) PROVE BridgeTypeOK'
    <2>1. CASE proc = NoProc
      BY <1>2, <2>1 DEF Close
    <2>2. CASE proc # NoProc
      BY <1>2, <2>2, WriteTypes DEF Close
    <2> QED
      BY <2>1, <2>2
  <1>3. ASSUME NEW s \in Sends, Timeout(s) PROVE BridgeTypeOK'
    BY <1>3, SettleTypes DEF Timeout
  <1>4. ASSUME NEW p \in Requests, OnData(p) PROVE BridgeTypeOK'
    <2> DEFINE piece == Head(stdout[p])
    <2>1. piece \in Pieces /\ Tail(stdout[p]) \in Seq(Pieces)
      BY <1>4 DEF OnData
    <2>2. piece.of \in Sends
      BY <2>1 DEF Pieces
    <2>3. buffer' \in Sends \union {NoLine, Junk}
      BY <1>4, <2>2 DEF OnData
    <2>4. /\ status' \in [Sends -> {"new", "pending", "answered", "failed"}]
          /\ proc' \in Requests \union {NoProc}
          /\ life' \in [Requests -> {"none", "up", "killed", "dead", "gone"}]
      <3>1. CASE Settle(piece.of, "answered")
        BY <3>1, <2>2, SettleTypes
      <3>2. CASE UNCHANGED <<status, proc, life>>
        BY <3>2
      <3> QED
        BY <1>4, <3>1, <3>2 DEF OnData
    <2>5. stdout' \in [Requests -> Seq(Pieces)]
      BY <1>4, <2>1 DEF OnData
    <2> QED
      BY <1>4, <2>3, <2>4, <2>5 DEF OnData
  <1>5. ASSUME NEW p \in Requests, OnExit(p) PROVE BridgeTypeOK'
    BY <1>5 DEF OnExit, Pending
  <1>6. ASSUME NEW p \in Requests, Answer(p) PROVE BridgeTypeOK'
    <2> DEFINE s == Head(stdin[p])
    <2>1. s \in Sends /\ Tail(stdin[p]) \in Seq(Sends)
      BY <1>6 DEF Answer
    <2>2. <<Begin(s), End(s)>> \in Seq(Pieces)
      BY <2>1 DEF Begin, End, Pieces
    <2>3. stdout[p] \o <<Begin(s), End(s)>> \in Seq(Pieces)
      BY <2>2
    <2> QED
      BY <1>6, <2>1, <2>3 DEF Answer
  <1>7. ASSUME NEW p \in Requests, Die(p) PROVE BridgeTypeOK'
    <2>1. stdin[p] # << >> => Append(stdout[p], Begin(Head(stdin[p]))) \in Seq(Pieces)
      <3>1. stdin[p] # << >> => Begin(Head(stdin[p])) \in Pieces
        BY DEF Begin, Pieces
      <3> QED
        BY <3>1
    <2>2. stdout' \in [Requests -> Seq(Pieces)]
      BY <1>7, <2>1 DEF Die
    <2> QED
      BY <1>7, <2>2 DEF Die
  <1>8. CASE UNCHANGED bridgeVars
    BY <1>8 DEF bridgeVars
  <1> QED
    BY <1>1, <1>2, <1>3, <1>4, <1>5, <1>6, <1>7, <1>8 DEF BridgeNext

-----------------------------------------------------------------------------
(* A promise that settles by itself: of a request, or of close(), which    *)
(* then stops the process there is.                                        *)
LEMMA SettleKeeps ==
    ASSUME BridgeTypeOK, ProcInv, NEW s \in Sends, status[s] = "pending",
           NEW how \in {"answered", "failed"}, Settle(s, how), target' = target
    PROVE  ProcInv'
  <1> USE BridgeAssumption DEF BridgeTypeOK, Sends, Running
  <1>0. /\ status' = [status EXCEPT ![s] = how]
        /\ \A x \in Sends : status'[x] = IF x = s THEN how ELSE status[x]
    BY DEF Settle
  <1>1. CASE s \in Closes
    <2>1. /\ life' = [p \in Requests |-> IF p = proc /\ life[p] = "up" THEN "killed" ELSE life[p]]
          /\ proc' = NoProc
      BY <1>1 DEF Settle, KillCurrent
    <2>2. Spawned'
      BY <1>0, <2>1 DEF ProcInv, Spawned
    <2>3. ~Unsettled'
      BY <1>0, <1>1 DEF Unsettled
    <2>4. NoneWaits'
      BY <1>0, <2>1 DEF ProcInv, Spawned, NoneWaits, Pending
    <2>5. Unsettled
      BY <1>1 DEF Unsettled
    <2>6. \A p \in Requests : life'[p] # "up"
      BY <2>1, <2>5 DEF ProcInv, OneRuns
    <2>7. CloseStopped'
      BY <2>6 DEF ProcInv, Spawned, CloseStopped
    <2> QED
      BY <2>2, <2>3, <2>4, <2>7 DEF ProcInv, OneRuns
  <1>2. CASE s \notin Closes
    <2>1. UNCHANGED <<proc, life>>
      BY <1>2 DEF Settle
    <2>2. Unsettled' <=> Unsettled
      BY <1>0, <1>2 DEF Unsettled
    <2>3. Spawned'
      BY <1>0, <2>1 DEF ProcInv, Spawned
    <2>4. OneRuns'
      BY <2>1, <2>2 DEF ProcInv, OneRuns
    <2>5. NoneWaits'
      BY <1>0, <2>1 DEF ProcInv, NoneWaits, Pending
    <2>6. CloseStopped'
      BY <1>0, <1>2, <2>1 DEF ProcInv, CloseStopped
    <2> QED
      BY <2>3, <2>4, <2>5, <2>6 DEF ProcInv
  <1> QED
    BY <1>1, <1>2

(* A process that dies, by itself or at the end of its loop.               *)
LEMMA DeathKeeps ==
    ASSUME BridgeTypeOK, ProcInv, NEW p \in Requests, Alive(p),
           life' = [life EXCEPT ![p] = "dead"] \/ life' = life,
           UNCHANGED <<proc, status, target>>
    PROVE  ProcInv'
  <1> USE DEF BridgeTypeOK, Sends, Running, Alive
  <1>1. Spawned'
    BY DEF ProcInv, Spawned
  <1>2. OneRuns'
    BY DEF ProcInv, OneRuns, Unsettled
  <1>3. NoneWaits'
    BY DEF ProcInv, Spawned, NoneWaits, Pending
  <1>4. CloseStopped'
    BY DEF ProcInv, Spawned, CloseStopped
  <1> QED
    BY <1>1, <1>2, <1>3, <1>4 DEF ProcInv

LEMMA SendKeeps ==
    ASSUME BridgeTypeOK, ProcInv, NEW s \in Requests, Send(s)
    PROVE  ProcInv'
  <1> USE BridgeAssumption DEF BridgeTypeOK, Sends, Running
  <1>1. CASE proc # NoProc
    <2>1. /\ status' = [status EXCEPT ![s] = "pending"]
          /\ target' = [target EXCEPT ![s] = proc]
          /\ UNCHANGED <<proc, life>> /\ status[s] = "new" /\ proc \in Requests
      BY <1>1 DEF Send, WriteTo
    <2>2. Spawned'
      BY <1>1, <2>1 DEF ProcInv, Spawned
    <2>3. OneRuns'
      BY <2>1 DEF ProcInv, OneRuns, Unsettled
    <2>4. NoneWaits'
      BY <1>1, <2>1 DEF ProcInv, Spawned, NoneWaits, Pending
    <2>5. CloseStopped'
      BY <2>1 DEF ProcInv, CloseStopped
    <2> QED
      BY <2>2, <2>3, <2>4, <2>5 DEF ProcInv
  <1>2. CASE proc = NoProc
    <2>1. /\ status' = [status EXCEPT ![s] = "pending"]
          /\ target' = [target EXCEPT ![s] = s]
          /\ proc' = s /\ life' = [life EXCEPT ![s] = "up"] /\ status[s] = "new"
      BY <1>2 DEF Send, WriteTo
    <2>2. life[s] = "none" /\ \A x \in Sends : target[x] # s
      BY <2>1 DEF ProcInv, Spawned
    <2>3. Spawned'
      BY <2>1, <2>2 DEF ProcInv, Spawned
    <2>4. OneRuns'
      BY <1>2, <2>1 DEF ProcInv, OneRuns, Unsettled
    <2>5. NoneWaits'
      BY <2>1, <2>2 DEF ProcInv, Spawned, NoneWaits, Pending
    <2>6. CloseStopped'
      BY <2>1, <2>2 DEF ProcInv, Spawned, CloseStopped
    <2> QED
      BY <2>3, <2>4, <2>5, <2>6 DEF ProcInv
  <1> QED
    BY <1>1, <1>2

LEMMA CloseKeeps ==
    ASSUME BridgeTypeOK, ProcInv, NEW k \in Closes, Close(k)
    PROVE  ProcInv'
  <1> USE BridgeAssumption DEF BridgeTypeOK, Sends, Running
  <1>1. CASE proc = NoProc
    <2>1. /\ status' = [status EXCEPT ![k] = "answered"] /\ status[k] = "new"
          /\ UNCHANGED <<proc, life, target>>
      BY <1>1 DEF Close
    <2>2. Spawned'
      BY <2>1 DEF ProcInv, Spawned
    <2>3. OneRuns'
      BY <2>1 DEF OneRuns, Unsettled
    <2>4. NoneWaits'
      BY <2>1 DEF ProcInv, NoneWaits, Pending
    <2>5. CloseStopped'
      BY <2>1 DEF ProcInv, Spawned, CloseStopped
    <2> QED
      BY <2>2, <2>3, <2>4, <2>5 DEF ProcInv
  <1>2. CASE proc # NoProc
    <2>1. /\ status' = [status EXCEPT ![k] = "pending"] /\ status[k] = "new"
          /\ target' = [target EXCEPT ![k] = proc] /\ proc \in Requests
          /\ UNCHANGED <<proc, life>>
      BY <1>2 DEF Close, WriteTo
    <2>2. Spawned'
      BY <1>2, <2>1 DEF ProcInv, Spawned
    <2>3. OneRuns'
      BY <2>1 DEF ProcInv, OneRuns, Unsettled
    <2>4. NoneWaits'
      BY <1>2, <2>1 DEF ProcInv, Spawned, NoneWaits, Pending
    <2>5. CloseStopped'
      BY <2>1 DEF ProcInv, CloseStopped
    <2> QED
      BY <2>2, <2>3, <2>4, <2>5 DEF ProcInv
  <1> QED
    BY <1>1, <1>2

(* An exit, of whichever process: as long as close() is not over, it is     *)
(* that of the current one, and no other is left.                          *)
LEMMA ExitKeeps ==
    ASSUME BridgeTypeOK, ProcInv, NEW p \in Requests, OnExit(p)
    PROVE  ProcInv'
  <1> USE BridgeAssumption DEF BridgeTypeOK, Sends, Running
  <1>1. /\ \A x \in Sends : status'[x] = IF status[x] = "pending" THEN "failed" ELSE status[x]
        /\ proc' = NoProc /\ life' = [life EXCEPT ![p] = "gone"] /\ life[p] = "dead"
        /\ target' = target
    BY DEF OnExit, Pending
  <1>2. Spawned'
    BY <1>1 DEF ProcInv, Spawned
  <1>3. Unsettled => \A q \in Requests : life'[q] \notin Running
    BY <1>1 DEF ProcInv, OneRuns
  <1>4. OneRuns'
    <2>1. Unsettled' => Unsettled
      BY <1>1 DEF Unsettled
    <2> QED
      BY <1>3, <2>1 DEF OneRuns
  <1>5. NoneWaits'
    BY <1>1 DEF NoneWaits, Pending
  <1>6. CloseStopped'
    <2> SUFFICES ASSUME NEW k \in Closes, status'[k] \in {"answered", "failed"},
                        target'[k] # NoProc
                 PROVE  life'[target'[k]] # "up"
      BY DEF CloseStopped
    <2>1. CASE status[k] = "pending"
      <3>1. Unsettled
        BY <2>1 DEF Unsettled
      <3> QED
        BY <1>1, <1>3, <2>1, <3>1 DEF ProcInv, Spawned
    <2>2. CASE status[k] # "pending"
      BY <1>1, <2>2 DEF ProcInv, CloseStopped
    <2> QED
      BY <2>1, <2>2
  <1> QED
    BY <1>2, <1>4, <1>5, <1>6 DEF ProcInv

LEMMA ProcStep == BridgeTypeOK /\ ProcInv /\ [BridgeNext]_bridgeVars => ProcInv'
  <1> SUFFICES ASSUME BridgeTypeOK, ProcInv, [BridgeNext]_bridgeVars PROVE ProcInv'
    OBVIOUS
  <1>1. ASSUME NEW s \in Sends, Timeout(s) PROVE ProcInv'
    BY <1>1, SettleKeeps DEF Timeout
  <1>2. ASSUME NEW p \in Requests, OnData(p) PROVE ProcInv'
    <2> DEFINE piece == Head(stdout[p])
    <2>0. piece \in Pieces
      BY <1>2 DEF OnData, BridgeTypeOK
    <2>1. piece.of \in Sends
      BY <2>0 DEF Pieces
    <2>2. CASE status[piece.of] = "pending" /\ Settle(piece.of, "answered")
      BY <1>2, <2>1, <2>2, SettleKeeps DEF OnData
    <2>3. CASE UNCHANGED <<status, proc, life>>
      BY <1>2, <2>3 DEF OnData, ProcInv, Spawned, OneRuns, NoneWaits, CloseStopped, Unsettled, Pending
    <2> QED
      BY <1>2, <2>2, <2>3 DEF OnData
  <1>3. ASSUME NEW p \in Requests, Answer(p) PROVE ProcInv'
    <2>1. /\ Alive(p) /\ UNCHANGED <<proc, status, target>>
          /\ life' = [life EXCEPT ![p] = "dead"] \/ life' = life
      BY <1>3 DEF Answer
    <2> QED
      BY <2>1, DeathKeeps
  <1>4. ASSUME NEW p \in Requests, Die(p) PROVE ProcInv'
    BY <1>4, DeathKeeps DEF Die
  <1>5. CASE UNCHANGED bridgeVars
    BY <1>5 DEF bridgeVars, ProcInv, Spawned, OneRuns, NoneWaits, CloseStopped, Unsettled, Pending
  <1> QED
    BY <1>1, <1>2, <1>3, <1>4, <1>5, SendKeeps, CloseKeeps, ExitKeeps DEF BridgeNext

-----------------------------------------------------------------------------
(* A send that began never becomes new again.                              *)
LEMMA SendsStayBegun ==
    ASSUME BridgeTypeOK, [BridgeNext]_bridgeVars, NEW x \in Sends, status[x] # "new"
    PROVE  status'[x] # "new"
  <1> USE BridgeAssumption DEF BridgeTypeOK, Sends
  <1>1. ASSUME NEW s \in Requests, Send(s) PROVE status'[x] # "new"
    BY <1>1 DEF Send, WriteTo
  <1>2. ASSUME NEW k \in Closes, Close(k) PROVE status'[x] # "new"
    BY <1>2 DEF Close, WriteTo
  <1>3. ASSUME NEW s \in Sends, Timeout(s) PROVE status'[x] # "new"
    BY <1>3 DEF Timeout, Settle
  <1>4. ASSUME NEW p \in Requests, OnData(p) PROVE status'[x] # "new"
    BY <1>4 DEF OnData, Settle
  <1>5. ASSUME NEW p \in Requests, OnExit(p) PROVE status'[x] # "new"
    BY <1>5 DEF OnExit
  <1>6. ASSUME NEW p \in Requests, Answer(p) \/ Die(p) PROVE status'[x] # "new"
    BY <1>6 DEF Answer, Die
  <1>7. CASE UNCHANGED bridgeVars
    BY <1>7 DEF bridgeVars
  <1> QED
    BY <1>1, <1>2, <1>3, <1>4, <1>5, <1>6, <1>7 DEF BridgeNext

(* What a helper has still to read: nothing new gets in, whoever writes.    *)
LEMMA ReadsStep ==
    ASSUME BridgeTypeOK, Pipes, [BridgeNext]_bridgeVars, NEW p \in Requests, NEW n \in 1..Len(stdin'[p])
    PROVE  status'[stdin'[p][n]] # "new"
  <1>1. \A m \in 1..Len(stdin[p]) :
           stdin[p][m] \in Sends /\ status'[stdin[p][m]] # "new"
    <2> SUFFICES ASSUME NEW m \in 1..Len(stdin[p])
                 PROVE  stdin[p][m] \in Sends /\ status'[stdin[p][m]] # "new"
      OBVIOUS
    <2>1. stdin[p][m] \in Sends
      BY DEF BridgeTypeOK
    <2>2. status[stdin[p][m]] # "new"
      BY DEF Pipes
    <2> QED
      BY <2>1, <2>2, SendsStayBegun
  <1>2. ASSUME NEW s \in Sends, NEW q \in Requests, WriteTo(s, q)
        PROVE  status'[stdin'[p][n]] # "new"
    <2>1. status'[s] = "pending"
      BY <1>2 DEF WriteTo, BridgeTypeOK
    <2>2. stdin'[p] = stdin[p] \/ stdin'[p] = Append(stdin[p], s)
      BY <1>2 DEF WriteTo, BridgeTypeOK
    <2>3. stdin[p] \in Seq(Sends)
      BY DEF BridgeTypeOK
    <2>4. CASE stdin'[p] = Append(stdin[p], s)
      <3>1. Len(stdin'[p]) = Len(stdin[p]) + 1
        BY <2>3, <2>4
      <3>2. n \in 1..Len(stdin[p]) => stdin'[p][n] = stdin[p][n]
        BY <2>3, <2>4
      <3>3. n = Len(stdin[p]) + 1 => stdin'[p][n] = s
        BY <2>3, <2>4
      <3>4. n \in 1..Len(stdin[p]) \/ n = Len(stdin[p]) + 1
        BY <2>3, <3>1
      <3> QED
        BY <1>1, <2>1, <3>2, <3>3, <3>4
    <2> QED
      BY <1>1, <2>2, <2>4
  <1>3. ASSUME NEW q \in Requests, Answer(q) PROVE status'[stdin'[p][n]] # "new"
    <2>1. stdin'[p] = stdin[p] \/ (stdin[p] # << >> /\ stdin'[p] = Tail(stdin[p]))
      BY <1>3 DEF Answer, BridgeTypeOK
    <2>2. stdin[p] \in Seq(Sends)
      BY DEF BridgeTypeOK
    <2>3. CASE stdin[p] # << >> /\ stdin'[p] = Tail(stdin[p])
      <3>1. n + 1 \in 1..Len(stdin[p]) /\ stdin'[p][n] = stdin[p][n + 1]
        BY <2>2, <2>3
      <3> QED
        BY <1>1, <3>1
    <2> QED
      BY <1>1, <2>1, <2>3
  <1>4. CASE stdin' = stdin
    BY <1>1, <1>4
  <1>5. ASSUME NEW s \in Requests, Send(s) PROVE \E q \in Requests : WriteTo(s, q)
    BY <1>5 DEF Send, BridgeTypeOK
  <1>6. ASSUME NEW k \in Closes, Close(k)
        PROVE  stdin' = stdin \/ \E q \in Requests : WriteTo(k, q)
    BY <1>6 DEF Close, BridgeTypeOK
  <1>7. CASE \E s \in Requests : Send(s)
    BY <1>2, <1>5, <1>7 DEF Sends
  <1>8. CASE \E k \in Closes : Close(k)
    BY <1>2, <1>4, <1>6, <1>8 DEF Sends
  <1>9. CASE \E s \in Sends : Timeout(s)
    BY <1>4, <1>9 DEF Timeout
  <1>10. CASE \E q \in Requests : OnData(q) \/ OnExit(q) \/ Die(q)
    BY <1>4, <1>10 DEF OnData, OnExit, Die
  <1>11. CASE UNCHANGED bridgeVars
    BY <1>4, <1>11 DEF bridgeVars
  <1> QED
    BY <1>3, <1>7, <1>8, <1>9, <1>10, <1>11 DEF BridgeNext

(* A whole line gets into a pipe only with its answer written.             *)
LEMMA WholeStep ==
    ASSUME BridgeTypeOK, Pipes, [BridgeNext]_bridgeVars, NEW p \in Requests, NEW n \in 1..Len(stdout'[p]),
           stdout'[p][n].part = "end"
    PROVE  stdout'[p][n].of \in written'
  <1>1. written \subseteq written'
    BY DEF BridgeNext, bridgeVars, Send, Close, Timeout, OnData, OnExit, Answer, Die
  <1>2. \A m \in 1..Len(stdout[p]) : stdout[p][m].part = "end" => stdout[p][m].of \in written'
    BY <1>1 DEF Pipes
  <1>3. stdout[p] \in Seq(Pieces)
    BY DEF BridgeTypeOK
  <1>4. CASE stdout' = stdout
    BY <1>2, <1>4
  <1>5. ASSUME NEW q \in Requests, OnData(q) PROVE stdout'[p][n].of \in written'
    <2>1. stdout'[p] = stdout[p] \/ (stdout[p] # << >> /\ stdout'[p] = Tail(stdout[p]))
      BY <1>5 DEF OnData, BridgeTypeOK
    <2>2. CASE stdout[p] # << >> /\ stdout'[p] = Tail(stdout[p])
      <3>1. n + 1 \in 1..Len(stdout[p]) /\ stdout'[p][n] = stdout[p][n + 1]
        BY <1>3, <2>2
      <3> QED
        BY <1>2, <3>1
    <2> QED
      BY <1>2, <2>1, <2>2
  <1>6. ASSUME NEW q \in Requests, Answer(q) PROVE stdout'[p][n].of \in written'
    <2> DEFINE s == Head(stdin[q])
               a == Begin(s)
               b == End(s)
    <2>1. a.part = "begin" /\ b.of = s
      BY DEF Begin, End
    <2>2. s \in written'
      BY <1>6 DEF Answer
    <2>3. stdout'[p] = stdout[p] \/ stdout'[p] = stdout[p] \o <<a, b>>
      BY <1>6 DEF Answer, BridgeTypeOK
    <2> HIDE DEF s, a, b
    <2>4. CASE stdout'[p] = stdout[p] \o <<a, b>>
      <3>1. Len(stdout'[p]) = Len(stdout[p]) + 2
        BY <1>3, <2>4
      <3>2. n \in 1..Len(stdout[p]) => stdout'[p][n] = stdout[p][n]
        BY <1>3, <2>4
      <3>3. n = Len(stdout[p]) + 1 => stdout'[p][n] = a
        BY <1>3, <2>4
      <3>4. n = Len(stdout[p]) + 2 => stdout'[p][n] = b
        BY <1>3, <2>4
      <3>5. n \in 1..Len(stdout[p]) \/ n = Len(stdout[p]) + 1 \/ n = Len(stdout[p]) + 2
        BY <1>3, <3>1
      <3> QED
        BY <1>2, <2>1, <2>2, <3>2, <3>3, <3>4, <3>5
    <2> QED
      BY <1>2, <2>3, <2>4
  <1>7. ASSUME NEW q \in Requests, Die(q) PROVE stdout'[p][n].of \in written'
    <2> DEFINE a == Begin(Head(stdin[q]))
    <2>1. a.part = "begin"
      BY DEF Begin
    <2>2. stdout'[p] = stdout[p] \/ stdout'[p] = Append(stdout[p], a)
      BY <1>7 DEF Die, BridgeTypeOK
    <2> HIDE DEF a
    <2>3. CASE stdout'[p] = Append(stdout[p], a)
      <3>1. Len(stdout'[p]) = Len(stdout[p]) + 1
        BY <1>3, <2>3
      <3>2. n \in 1..Len(stdout[p]) => stdout'[p][n] = stdout[p][n]
        BY <1>3, <2>3
      <3>3. n = Len(stdout[p]) + 1 => stdout'[p][n] = a
        BY <1>3, <2>3
      <3>4. n \in 1..Len(stdout[p]) \/ n = Len(stdout[p]) + 1
        BY <1>3, <3>1
      <3> QED
        BY <1>2, <2>1, <3>2, <3>3, <3>4
    <2> QED
      BY <1>2, <2>2, <2>3
  <1>8. CASE \/ \E s \in Requests : Send(s)
             \/ \E k \in Closes : Close(k)
             \/ \E s \in Sends : Timeout(s)
             \/ \E q \in Requests : OnExit(q)
             \/ UNCHANGED bridgeVars
    BY <1>4, <1>8 DEF Send, Close, Timeout, OnExit, bridgeVars
  <1> QED
    BY <1>5, <1>6, <1>7, <1>8 DEF BridgeNext

LEMMA PipesStep == BridgeTypeOK /\ Pipes /\ [BridgeNext]_bridgeVars => Pipes'
  BY ReadsStep, WholeStep DEF Pipes

(* BridgeInv is inductive: it holds of every state the bridge can reach.         *)
LEMMA BridgeInvAlways == BridgeSpec => []BridgeInv
  <1>1. BridgeInv /\ [BridgeNext]_bridgeVars => BridgeInv'
    BY BridgeTypeStep, ProcStep, PipesStep DEF BridgeInv
  <1> QED
    BY BridgeInvAtFirst, <1>1, PTL DEF BridgeSpec

-----------------------------------------------------------------------------
(* Every variable stays in its type, for any number of requests.           *)
THEOREM BridgeTypeCorrect == BridgeSpec => []BridgeTypeOK
  <1>1. BridgeInv => BridgeTypeOK
    BY DEF BridgeInv
  <1> QED
    BY BridgeInvAlways, <1>1, PTL

(* No request is left to its timer by a process whose end was seen, close() *)
(* leaves its process stopped or stopping, and before it no process runs    *)
(* that nobody can reach (failAll, ensureStarted, the finally of close).    *)
THEOREM NobodyIsLeftBehind == BridgeSpec => []NobodyLeftBehind
  <1>1. BridgeInv => NobodyLeftBehind
    <2>1. Unclosed => Unsettled
      BY DEF Unclosed, Unsettled
    <2> QED
      BY <2>1 DEF BridgeInv, ProcInv, OneRuns, NoneWaits, CloseStopped, NobodyLeftBehind, Running
  <1> QED
    BY BridgeInvAlways, <1>1, PTL

(* Before anybody calls close(), an exit fails no request of another        *)
(* process, although failAll does not look whose they are.                  *)
THEOREM ExitsFailTheirOwn == BridgeSpec => ExitFailsItsOwnUnclosed
  <1>1. BridgeInv /\ [BridgeNext]_bridgeVars => [Unclosed => ~FailsAnothers]_bridgeVars
    <2> SUFFICES ASSUME BridgeInv, Unclosed,
                        NEW p \in Requests, NEW s \in Sends,
                        life[p] = "dead", status[s] = "pending", target[s] # p
                 PROVE  FALSE
      BY DEF FailsAnothers
    <2>1. Unsettled
      BY DEF Unclosed, Unsettled
    <2>2. target[s] \in Requests /\ life[target[s]] # "none" /\ life[target[s]] # "gone"
      BY BridgeAssumption DEF BridgeInv, ProcInv, Spawned, NoneWaits, Pending, Sends
    <2>3. life[target[s]] \in Running
      BY <2>2 DEF BridgeInv, BridgeTypeOK, Running
    <2> QED
      BY <2>1, <2>2, <2>3 DEF BridgeInv, ProcInv, OneRuns, Running
  <1> QED
    BY BridgeInvAlways, <1>1, PTL DEF BridgeSpec, ExitFailsItsOwnUnclosed

-----------------------------------------------------------------------------
(* Every step of the bridge is one of RequestReply, or changes nothing a    *)
(* caller can tell: a settled timer or exit is a failure, a piece of data   *)
(* answers at most the request it belongs to, and that one was worked out.  *)
LEMMA StepKeepsPromises ==
    ASSUME BridgeInv, [BridgeNext]_bridgeVars
    PROVE  [Promises!Next]_<<status, written>>
  <1> USE BridgeAssumption
  <1> DEFINE Goal == Promises!Next \/ UNCHANGED <<status, written>>
  <1>0. status \in [Sends -> {"new", "pending", "answered", "failed"}]
    BY DEF BridgeInv, BridgeTypeOK
  <1>a. ASSUME NEW s \in Sends, NEW p, status[s] = "new", WriteTo(s, p), written' = written
        PROVE  Goal
    <2>1. Promises!Ask
      BY <1>a DEF WriteTo, Promises!Ask
    <2> QED
      BY <2>1 DEF Promises!Next
  <1>1. ASSUME NEW s \in Requests, Send(s) PROVE Goal
    BY <1>1, <1>a DEF Send, Sends
  <1>2. ASSUME NEW k \in Closes, Close(k) PROVE Goal
    <2>1. CASE proc = NoProc
      <3>1. Promises!Skip
        BY <1>2, <2>1 DEF Close, Promises!Skip
      <3> QED
        BY <3>1 DEF Promises!Next
    <2>2. CASE proc # NoProc
      BY <1>2, <2>2, <1>a DEF Close, Sends
    <2> QED
      BY <2>1, <2>2
  <1>b. ASSUME NEW F \in SUBSET {s \in Sends : status[s] = "pending"}, written' = written,
               status' = [s \in Sends |-> IF s \in F THEN "failed" ELSE status[s]]
        PROVE  Goal
    <2>1. Promises!Fail
      BY <1>b DEF Promises!Fail
    <2> QED
      BY <2>1 DEF Promises!Next
  <1>3. ASSUME NEW s \in Sends, Timeout(s) PROVE Goal
    <2>1. status' = [x \in Sends |-> IF x \in {s} THEN "failed" ELSE status[x]]
      BY <1>0, <1>3 DEF Timeout, Settle
    <2>2. {s} \in SUBSET {x \in Sends : status[x] = "pending"} /\ written' = written
      BY <1>3 DEF Timeout
    <2> QED
      BY <2>1, <2>2, <1>b
  <1>4. ASSUME NEW p \in Requests, OnData(p) PROVE Goal
    <2> DEFINE piece == Head(stdout[p])
    <2>1. CASE piece.part = "end" /\ status[piece.of] = "pending" /\ Settle(piece.of, "answered")
      <3>1. stdout[p] \in Seq(Pieces) /\ stdout[p] # << >>
        BY <1>4 DEF OnData, BridgeInv, BridgeTypeOK
      <3>2. 1 \in 1..Len(stdout[p]) /\ piece = stdout[p][1]
        BY <3>1
      <3>3. piece.of \in written
        BY <2>1, <3>2 DEF BridgeInv, Pipes
      <3>4. written' = written /\ status' = [status EXCEPT ![piece.of] = "answered"]
        BY <1>4, <2>1 DEF OnData, Settle
      <3>5. Promises!Reply
        BY <2>1, <3>3, <3>4 DEF Promises!Reply
      <3> QED
        BY <3>5 DEF Promises!Next
    <2>2. CASE UNCHANGED status
      BY <1>4, <2>2 DEF OnData
    <2> QED
      BY <1>4, <2>1, <2>2 DEF OnData
  <1>5. ASSUME NEW p \in Requests, OnExit(p) PROVE Goal
    BY <1>5, <1>b DEF OnExit, Pending
  <1>6. ASSUME NEW p \in Requests, Answer(p) PROVE Goal
    <2> DEFINE s == Head(stdin[p])
    <2>1. stdin[p] \in Seq(Sends) /\ stdin[p] # << >>
      BY <1>6 DEF Answer, BridgeInv, BridgeTypeOK
    <2>2. 1 \in 1..Len(stdin[p]) /\ s = stdin[p][1] /\ s \in Sends
      BY <2>1
    <2>3. status[s] # "new"
      BY <2>2 DEF BridgeInv, Pipes
    <2>4. written' = written \union {s} /\ status' = status
      BY <1>6 DEF Answer
    <2>5. CASE s \in written
      BY <2>4, <2>5
    <2>6. CASE s \notin written
      <3>1. Promises!Find
        BY <2>2, <2>3, <2>4, <2>6 DEF Promises!Find
      <3> QED
        BY <3>1 DEF Promises!Next
    <2> QED
      BY <2>5, <2>6
  <1>7. CASE UNCHANGED bridgeVars \/ \E p \in Requests : Die(p)
    BY <1>7 DEF bridgeVars, Die
  <1> QED
    BY <1>1, <1>2, <1>3, <1>4, <1>5, <1>6, <1>7 DEF BridgeNext

(* The bridge implements RequestReply: a request is settled at most once,   *)
(* for good, and answered only if a helper wrote its own answer.            *)
THEOREM KeepsPromises == BridgeSpec => PromisesKept
  <1>1. BridgeInit => Promises!Init
    BY DEF BridgeInit, Promises!Init
  <1>2. BridgeInv /\ [BridgeNext]_bridgeVars => [Promises!Next]_<<status, written>>
    BY StepKeepsPromises
  <1> QED
    BY BridgeInvAlways, <1>1, <1>2, PTL DEF BridgeSpec, PromisesKept, Promises!Spec
=============================================================================
