-------------------------- MODULE EngineLifecycle --------------------------
(***************************************************************************)
(* The one shared Lucene helper of src/src/context.ts: acquireEngine, the  *)
(* handles it gives out, their release, the idle timer and resetContext.   *)
(*                                                                         *)
(* Node runs one callback at a time, so every action is one uninterrupted  *)
(* stretch of code between two awaits; what interleaves is the tool calls. *)
(* A call of the model is one tool call and acquires at most once, as the  *)
(* tools do, so an engine is named by the call that opened it.             *)
(***************************************************************************)
EXTENDS Integers, FiniteSets

CONSTANTS
    Calls,      \* the tool calls
    NoEngine,   \* the null of engineCache
    IdleTimes,  \* what FIQH4_ENGINE_IDLE_MS may be, read at each release
    Failures,   \* helpers may die, time out or refuse to open
    Resets,     \* fiqh4_health may be called with refresh = true
    Leaks       \* fiqh4_citation may fail to open its book

ASSUME EngineAssumption ==
    /\ IsFiniteSet(Calls)
    /\ NoEngine \notin Calls
    /\ IdleTimes \subseteq {"zero", "positive"}
    /\ {Failures, Resets, Leaks} \subseteq BOOLEAN

VARIABLES
    cache,      \* engineCache
    holders,    \* engineHolders
    timer,      \* engineIdleTimer # null
    pc,         \* where each call stands in acquireEngine / its finally
    eng,        \* the engine a call holds or is opening
    helper,     \* the child process behind each engine
    closed,     \* history: engines on which close() has been called
    stale       \* history: an engine was closed while handles were out

vars == <<cache, holders, timer, pc, eng, helper, closed, stale>>

Phases == {"idle", "refreshing", "refreshLost", "opening", "using",
           "released", "failed", "abandoned"}

\* A handle exists from hold() until its own release(), if that ever comes.
Holding == {"refreshing", "refreshLost", "using", "abandoned"}
LiveHandles == {c \in Calls : pc[c] \in Holding}

Quiet == \A c \in Calls : pc[c] \notin Holding \union {"opening"}

Init ==
    /\ cache = NoEngine
    /\ holders = 0
    /\ timer = FALSE
    /\ pc = [c \in Calls |-> "idle"]
    /\ eng = [c \in Calls |-> NoEngine]
    /\ helper = [c \in Calls |-> "unused"]
    /\ closed = {}
    /\ stale = FALSE

-----------------------------------------------------------------------------
(* LuceneBridge.close() asks a running helper to stop; without a process it *)
(* returns at once.                                                        *)
AfterClose(h, e) ==
    [x \in Calls |-> IF x = e /\ h[x] = "on" THEN "closing" ELSE h[x]]

(* LuceneBridge.send() starts the process when there is none, also on a    *)
(* bridge that has been closed.                                            *)
AfterSend(h, e) ==
    [x \in Calls |-> IF x = e /\ h[x] # "closing" THEN "on" ELSE h[x]]

\* Mutant: the engine is closed but stays in the cache.
CloseKeepsCache(left) ==
    /\ timer' = FALSE
    /\ UNCHANGED cache
    /\ holders' = 0
    /\ closed' = closed \union ({cache} \ {NoEngine})
    /\ stale' = (stale \/ left # {})

(* closeEngineNow, apart from the helper it stops, while the calls of left  *)
(* still have a handle.                                                    *)
CloseEngineNow(left) ==
    /\ timer' = FALSE
    /\ cache' = NoEngine
    /\ holders' = 0
    /\ closed' = closed \union ({cache} \ {NoEngine})
    /\ stale' = (stale \/ left # {})

\* Mutant: without the test that the count is positive.
ReleaseUnclamped(c) ==
    /\ holders' = holders - 1
    /\ timer' = (timer \/ (holders = 1 /\ cache # NoEngine))
    /\ UNCHANGED <<cache, helper, closed, stale>>

\* Mutant: the last release schedules nothing.
ReleaseUnarmed(c) ==
    /\ holders' = IF holders > 0 THEN holders - 1 ELSE 0
    /\ UNCHANGED <<cache, timer, helper, closed, stale>>

\* releaseEngine: what the first release() of c's handle runs.
ReleaseEngine(c) ==
    LET rest == IF holders > 0 THEN holders - 1 ELSE 0
    IN  \/ /\ rest > 0 \/ cache = NoEngine
           /\ holders' = rest
           /\ UNCHANGED <<cache, timer, helper, closed, stale>>
        \/ /\ rest = 0 /\ cache # NoEngine /\ "zero" \in IdleTimes
           /\ CloseEngineNow(LiveHandles \ {c})
           /\ helper' = AfterClose(helper, cache)
        \/ /\ rest = 0 /\ cache # NoEngine /\ "positive" \in IdleTimes
           /\ holders' = 0
           /\ timer' = TRUE
           /\ UNCHANGED <<cache, helper, closed, stale>>

-----------------------------------------------------------------------------
\* acquireEngine with a cached engine: take a handle, then await refresh().
AcquireCached(c) ==
    /\ pc[c] = "idle"
    /\ cache # NoEngine
    /\ timer' = FALSE
    /\ holders' = holders + 1
    /\ pc' = [pc EXCEPT ![c] = "refreshing"]
    /\ eng' = [eng EXCEPT ![c] = cache]
    /\ helper' = AfterSend(helper, cache)
    /\ UNCHANGED <<cache, closed, stale>>

\* acquireEngine with nothing cached: openEngineProcess awaits its first health.
AcquireEmpty(c) ==
    /\ pc[c] = "idle"
    /\ cache = NoEngine
    /\ pc' = [pc EXCEPT ![c] = "opening"]
    /\ eng' = [eng EXCEPT ![c] = c]
    /\ helper' = AfterSend(helper, c)
    /\ UNCHANGED <<cache, holders, timer, closed, stale>>

\* openEngineProcess finds no Java, no jars or no helper classes.
AcquireRefused(c) ==
    /\ Failures
    /\ pc[c] = "idle"
    /\ cache = NoEngine
    /\ pc' = [pc EXCEPT ![c] = "failed"]
    /\ UNCHANGED <<cache, holders, timer, eng, helper, closed, stale>>

\* The cached engine answered its health check.
RefreshOk(c) ==
    /\ pc[c] = "refreshing"
    /\ pc' = [pc EXCEPT ![c] = "using"]
    /\ UNCHANGED <<cache, holders, timer, eng, helper, closed, stale>>

\* The health check times out, or reports that the page index is missing.
RefreshLost(c) ==
    /\ Failures
    /\ pc[c] = "refreshing"
    /\ pc' = [pc EXCEPT ![c] = "refreshLost"]
    /\ UNCHANGED <<cache, holders, timer, eng, helper, closed, stale>>

\* Mutant: a restart waits until the other handles have come back.
ReopenAlone(c) ==
    /\ pc[c] = "refreshLost"
    /\ LiveHandles = {c}
    /\ CloseEngineNow(LiveHandles \ {c})
    /\ pc' = [pc EXCEPT ![c] = "opening"]
    /\ eng' = [eng EXCEPT ![c] = c]
    /\ helper' = AfterSend(AfterClose(helper, cache), c)

(* The catch of acquireEngine: release the handle, close whatever is cached *)
(* now, open another helper.  What the release does closeEngineNow redoes.  *)
Reopen(c) ==
    /\ pc[c] = "refreshLost"
    /\ CloseEngineNow(LiveHandles \ {c})
    /\ \/ /\ pc' = [pc EXCEPT ![c] = "opening"]
          /\ eng' = [eng EXCEPT ![c] = c]
          /\ helper' = AfterSend(AfterClose(helper, cache), c)
       \/ /\ pc' = [pc EXCEPT ![c] = "failed"]
          /\ helper' = AfterClose(helper, cache)
          /\ UNCHANGED eng

\* Mutant: the opener is not counted.
OpenUncounted(c) ==
    /\ pc[c] = "opening"
    /\ cache' = eng[c]
    /\ pc' = [pc EXCEPT ![c] = "using"]
    /\ UNCHANGED <<holders, timer, eng, helper, closed, stale>>

\* The new helper answered: it becomes the cached one, and the call holds it.
OpenOk(c) ==
    /\ pc[c] = "opening"
    /\ cache' = eng[c]
    /\ holders' = holders + 1
    /\ pc' = [pc EXCEPT ![c] = "using"]
    /\ UNCHANGED <<timer, eng, helper, closed, stale>>

(* ShamelaSearchEngine.open rejects.  The bridge it made is dropped without *)
(* being closed, so a helper that is still running stays.                  *)
OpenFails(c) ==
    /\ Failures
    /\ pc[c] = "opening"
    /\ pc' = [pc EXCEPT ![c] = "failed"]
    /\ UNCHANGED <<cache, holders, timer, eng, helper, closed, stale>>

\* The tool sends a request on the engine of its handle.
Use(c) ==
    /\ pc[c] = "using"
    /\ helper' = AfterSend(helper, eng[c])
    /\ UNCHANGED <<cache, holders, timer, pc, eng, closed, stale>>

\* The finally of the tool.
Release(c) ==
    /\ pc[c] = "using"
    /\ ReleaseEngine(c)
    /\ pc' = [pc EXCEPT ![c] = "released"]
    /\ UNCHANGED eng

(* fiqh4_citation opens the book's file between acquiring the engine        *)
(* and its try; if that throws, the handle is never released.               *)
Abandon(c) ==
    /\ Leaks
    /\ pc[c] = "using"
    /\ pc' = [pc EXCEPT ![c] = "abandoned"]
    /\ UNCHANGED <<cache, holders, timer, eng, helper, closed, stale>>

\* Mutant: the callback does not look at the count.
IdleUnchecked ==
    /\ timer
    /\ CloseEngineNow(LiveHandles)
    /\ helper' = AfterClose(helper, cache)
    /\ UNCHANGED <<pc, eng>>

\* The idle timer's callback.
IdleFires ==
    /\ timer
    /\ \/ /\ holders = 0
          /\ CloseEngineNow(LiveHandles)
          /\ helper' = AfterClose(helper, cache)
       \/ /\ holders # 0
          /\ timer' = FALSE
          /\ UNCHANGED <<cache, holders, helper, closed, stale>>
    /\ UNCHANGED <<pc, eng>>

\* resetContext, from fiqh4_health before that call acquires.
Reset ==
    /\ Resets
    /\ CloseEngineNow(LiveHandles)
    /\ helper' = AfterClose(helper, cache)
    /\ UNCHANGED <<pc, eng>>

\* A helper exits.  Every call awaiting its first answer is rejected with it.
HelperDies(e) ==
    /\ Failures
    /\ helper[e] \in {"on", "closing"}
    /\ helper' = [helper EXCEPT ![e] = "off"]
    /\ pc' = [c \in Calls |->
                IF eng[c] # e THEN pc[c]
                ELSE CASE pc[c] = "refreshing" -> "refreshLost"
                       [] pc[c] = "opening"    -> "failed"
                       [] OTHER                -> pc[c]]
    /\ UNCHANGED <<cache, holders, timer, eng, closed, stale>>

(* A helper asked to stop answers what was sent before that, then exits:   *)
(* it reads one request at a time.                                         *)
HelperStops(e) ==
    /\ helper[e] = "closing"
    /\ \A c \in Calls : eng[c] = e => pc[c] # "refreshing"
    /\ helper' = [helper EXCEPT ![e] = "off"]
    /\ UNCHANGED <<cache, holders, timer, pc, eng, closed, stale>>

Next ==
    \/ \E c \in Calls :
        \/ AcquireCached(c) \/ AcquireEmpty(c) \/ AcquireRefused(c)
        \/ RefreshOk(c) \/ RefreshLost(c) \/ Reopen(c)
        \/ OpenOk(c) \/ OpenFails(c)
        \/ Use(c) \/ Release(c) \/ Abandon(c)
    \/ \E e \in Calls : HelperDies(e) \/ HelperStops(e)
    \/ IdleFires
    \/ Reset

Spec == Init /\ [][Next]_vars

(***************************************************************************)
(* Every request is settled by its answer, the helper's exit or its 180 s  *)
(* timer; a tool that uses its engine comes to its finally; Node runs      *)
(* timers that are due.                                                    *)
(***************************************************************************)
Fairness ==
    /\ \A c \in Calls :
        /\ WF_vars(RefreshOk(c) \/ RefreshLost(c))
        /\ WF_vars(Reopen(c))
        /\ WF_vars(OpenOk(c) \/ OpenFails(c))
        /\ WF_vars(Release(c))
    /\ WF_vars(IdleFires)

FairSpec == Spec /\ Fairness

-----------------------------------------------------------------------------
TypeOK ==
    /\ cache \in Calls \union {NoEngine}
    /\ holders \in Nat
    /\ timer \in BOOLEAN
    /\ pc \in [Calls -> Phases]
    /\ eng \in [Calls -> Calls \union {NoEngine}]
    /\ helper \in [Calls -> {"unused", "on", "closing", "off"}]
    /\ closed \in SUBSET Calls
    /\ stale \in BOOLEAN

(* A cached helper nobody counts has its shutdown scheduled: no path        *)
(* forgets to arm the timer, and with an idle time of zero the last        *)
(* release closes (context.ts, releaseEngine and acquireEngine).            *)
IdleArmed == cache # NoEngine /\ holders = 0 => timer

(* acquireEngine never finds an engine in the cache that someone closed     *)
(* (context.ts, closeEngineNow and the assignment after the await).         *)
CacheNotClosed == cache \notin closed

(* The shared engine is tended: open, and about to be given up when no call *)
(* counts on it.                                                            *)
CacheTended == IdleArmed /\ CacheNotClosed

(* The count never exceeds the handles that are really out, whatever order  *)
(* restarts, resets and late releases come in: an overcount would pin the   *)
(* helper for ever (context.ts, engineHolders).                             *)
HoldersNeverOvercount == holders <= Cardinality(LiveHandles)

(* As long as no engine was closed over somebody's handle the count is      *)
(* exact, also when first calls race to open helpers and when helpers fail *)
(* (context.ts, hold and releaseEngine).                                    *)
ExactUnlessStale == ~stale => holders = Cardinality(LiveHandles)

(* The count of holders is never too high, and too low only when a handle  *)
(* was left behind.                                                         *)
HoldersExact == HoldersNeverOvercount /\ ExactUnlessStale

\* A release or the idle timer closes an engine that some call holds.
ClosesUnderHolder ==
    /\ IdleFires \/ \E c \in Calls : Release(c)
    /\ \E e \in closed' \ closed, c \in Calls : pc'[c] \in Holding /\ eng'[c] = e

(* "release ... never closes the helper while another call still holds it"  *)
(* (context.ts, EngineHandle.release), and neither does the idle timer,     *)
(* unless a restart or a reset left a handle of an engine it closed.        *)
SparesUnlessStale == [][ ~stale => ~ClosesUnderHolder ]_vars

(* "The one live helper, shared by every tool call": a helper that runs is  *)
(* the cached one, or one still being opened (context.ts, engineCache).     *)
NoOrphanHelper ==
    \A e \in Calls :
        helper[e] = "on" =>
            e = cache \/ \E c \in Calls : pc[c] = "opening" /\ eng[c] = e

(* Every acquisition ends, with an engine or with an error.                 *)
AcquireSettles ==
    \A c \in Calls :
        pc[c] \in {"refreshing", "opening"} ~>
            pc[c] \in {"using", "released", "failed"}

(* Once no call is active the shared helper is given up, unless another     *)
(* call starts: "it shuts down only after an idle period" (context.ts).     *)
IdleShutdown == Quiet ~> (cache = NoEngine \/ ~Quiet)
=============================================================================
