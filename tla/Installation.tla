---------------------------- MODULE Installation -----------------------------
(***************************************************************************)
(* From the settings to a running engine: which folder is the library      *)
(* (config.ts, discover.ts), the catalogue that is opened on it once and   *)
(* kept (context.ts, masterRepo.ts), the Java and the jars the helper is   *)
(* started with, and what fiqh4_health says of all this.                   *)
(*                                                                         *)
(* The machine changes under the server at any moment: folders come and    *)
(* go, Java is installed or removed, the environment is set anew. Every    *)
(* action is one stretch of code between two awaits. The count of holders  *)
(* is here what it does to the cached engine; EngineLifecycle has more of  *)
(* it, and the idle time is positive, as it is by default.                 *)
(***************************************************************************)
EXTENDS Schema

CONSTANTS
    Calls,       \* the clients of the server, each with one tool call at a time
    SearchRoots, \* searchCandidates(): where to look without a setting, in order
    Machines,    \* the states the machine can be in: [dir, java, files, at, helper]
    Layouts,     \* [name of a master.db -> its tables]
    NoEngine     \* the null of engineCache

(* A setting that is left alone arrives in one of these forms.             *)
Blank == {"unset", "empty", "unresolved_placeholder"}
NoMaster == "no master.db"

(* The roots a setting may name are those the machines say something of,   *)
(* and no path is Null.                                                    *)
ASSUME InstallationAssumption ==
    /\ SearchRoots # <<>> /\ SearchRoots \in Seq(ToSet(SearchRoots))
    /\ Machines # <<>> /\ Machines \in Seq(ToSet(Machines))
    /\ \A n \in DOMAIN Machines : LET m == Machines[n] IN
          /\ ToSet(SearchRoots) \subseteq DOMAIN m.at
          /\ m.dir \in Blank \cup DOMAIN m.at
          /\ m.java \in Blank \cup DOMAIN m.files
          /\ \A r \in DOMAIN m.at : m.at[r].master \in DOMAIN Layouts \cup {NoMaster}
          /\ Null \notin DOMAIN m.at \cup DOMAIN m.files
    /\ \A l \in DOMAIN Layouts : Layouts[l] \in Seq(ToSet(Layouts[l]))

VARIABLES
    now,      \* which of the machines it is
    cat,      \* catalogueCache: where the catalogue was found and what it is, or NoCatalogue
    eng,      \* engineCache: the root of the engine
    holders,  \* engineHolders
    pc,       \* where each call stands
    mine,     \* the engine a call holds or is opening
    report,   \* what a fiqh4_health that waits for an engine has found, or NoReport
    said,     \* the report that was sent by the last step, or NoReport
    crossed   \* history: calls that wait for an engine since before a refresh

vars == <<now, cat, eng, holders, pc, mine, report, said, crossed>>

NoCatalogue == [root |-> Null, source |-> Null, layout |-> NoMaster]
NoReport == [of |-> 0, fresh |-> FALSE, found |-> FALSE]
Here == Machines[now]

-----------------------------------------------------------------------------
(* The settings, and where the library is.                                  *)

(* cleaned: the user chose this, or nothing.                               *)
Cleaned(setting) == IF setting \in Blank THEN Null ELSE setting

(* checkLibraryPath: the first thing wrong with a root.                    *)
Problem(site) ==
    CASE site.kind = "none" -> "missing"
      [] site.kind = "file" -> "a file"
      [] site.kind = "folder" /\ ~site.database /\ ~site.app -> "not a root"
      [] site.kind = "folder" /\ ~site.database /\ site.app -> "no database"
      [] site.kind = "folder" /\ site.database /\ ~site.app -> "no app"
      [] site.kind = "folder" /\ site.database /\ site.app /\ site.master = NoMaster -> "no master"
      [] OTHER -> Null

Usable(m, root) == root \in DOMAIN m.at /\ Problem(m.at[root]) = Null

(* Mutant: a named folder that will not do is looked for elsewhere. *)
RootsWithFallback(m) ==
    (IF Cleaned(m.dir) = Null THEN <<>> ELSE <<Cleaned(m.dir)>>) \o SearchRoots

(* A folder that is named is the only one that is tried.                   *)
Roots(m) == IF Cleaned(m.dir) = Null THEN SearchRoots ELSE <<Cleaned(m.dir)>>

(* locateLibrary.                                                          *)
Locate(m) ==
    [root |-> First(Roots(m), {r \in DOMAIN m.at : Usable(m, r)}, Null),
     source |-> IF Cleaned(m.dir) = Null THEN "search" ELSE "env"]

(* What the probe makes of each master.db.                                 *)
Profiles == [l \in {l \in DOMAIN Layouts : Recognised(Layouts[l])} |-> ProbeMaster(Layouts[l])]
Notes == [l \in DOMAIN Profiles |-> MasterNotes(Profiles[l], Candidates(Layouts[l]))]

(* MasterCatalogue.open: the library is found and its books table known.   *)
CanOpen(m) ==
    /\ Locate(m).root # Null
    /\ m.at[Locate(m).root].master \in DOMAIN Profiles
Opened(m) ==
    [root |-> Locate(m).root, source |-> Locate(m).source,
     layout |-> m.at[Locate(m).root].master]
Catalogues ==
    [n \in DOMAIN Machines |->
        IF CanOpen(Machines[n]) THEN Opened(Machines[n]) ELSE NoCatalogue]

(* resolveJava: anything that exists under the configured path is taken.   *)
ResolveJava(m, root) ==
    LET chosen == Cleaned(m.java)
        exists == chosen # Null /\ m.files[chosen] # "none"
    IN  [path |-> IF exists THEN chosen ELSE IF m.at[root].bundled THEN "bundled" ELSE Null,
         ignored |-> IF exists THEN Null ELSE chosen]

CanLaunch(m, root) == ResolveJava(m, root).path # Null /\ m.at[root].jars /\ m.helper

-----------------------------------------------------------------------------
(* What fiqh4_health says before it opens an engine. For the properties, it *)
(* also has the machine a refresh has read, and is mixed if the refresh of *)
(* another call came between its parts.                                    *)
MissingReport(m, fresh) ==
    [of |-> IF fresh THEN now ELSE 0, fresh |-> fresh, found |-> FALSE,
     root |-> Null, layout |-> NoMaster,
     notes |-> {}, java |-> Null, engine |-> Null, mixed |-> FALSE, readable |-> FALSE,
     warnings |-> {"reason"}
        \cup (IF m.dir = "unresolved_placeholder" THEN {"dirPlaceholder"} ELSE {})
        \cup (IF Cleaned(m.dir) = Null THEN {"noDir"} ELSE {})]

(* Mutant: says nothing of a helper that has not been built. *)
WarningsButHelper(m, root) ==
    (IF m.at[root].page THEN {} ELSE {"noPages"})
    \cup (IF m.at[root].jars THEN {} ELSE {"noJars"})
    \cup (IF ResolveJava(m, root).path = Null THEN {"noJava"} ELSE {})
    \cup (IF ResolveJava(m, root).ignored # Null THEN {"javaIgnored"} ELSE {})

Warnings(m, root) ==
    (IF m.at[root].page THEN {} ELSE {"noPages"})
    \cup (IF m.at[root].jars THEN {} ELSE {"noJars"})
    \cup (IF ResolveJava(m, root).path = Null THEN {"noJava"} ELSE {})
    \cup (IF ResolveJava(m, root).ignored # Null THEN {"javaIgnored"} ELSE {})
    \cup (IF "unresolved_placeholder" \in {m.dir, m.java} THEN {"placeholders"} ELSE {})
    \cup (IF m.helper THEN {} ELSE {"noHelper"})

FoundReport(m, found, fresh) ==
    [of |-> IF fresh THEN now ELSE 0, fresh |-> fresh, found |-> TRUE,
     root |-> found.root, layout |-> found.layout,
     notes |-> Notes[found.layout], java |-> ResolveJava(m, found.root).path,
     engine |-> Null, mixed |-> FALSE, readable |-> FALSE, warnings |-> Warnings(m, found.root)]

Readable(r, engine) ==
    [r EXCEPT !.readable = TRUE, !.engine = engine.root, !.mixed = @ \/ engine.astride]
Unreadable(r) == [r EXCEPT !.warnings = @ \cup {"notOpened"}]

-----------------------------------------------------------------------------
Init ==
    /\ now \in DOMAIN Machines
    /\ cat = NoCatalogue
    /\ eng = NoEngine
    /\ holders = 0
    /\ pc = [c \in Calls |-> "idle"]
    /\ mine = [c \in Calls |-> NoEngine]
    /\ report = [c \in Calls |-> NoReport]
    /\ said = NoReport
    /\ crossed = {}

Waiting == {c \in Calls : pc[c] \in {"refreshing", "opening"}}

(* Mutant: a release takes one away from none. *)
LessUnclamped(n) == n - 1

Less(n) == IF n > 0 THEN n - 1 ELSE 0

(* What c has found out, when its wait ends.                               *)
Known(c) ==
    IF report[c] # NoReport /\ c \in crossed THEN [report[c] EXCEPT !.mixed = TRUE] ELSE report[c]

(* A call ends without an engine; health says so.                          *)
Fail(c, r) ==
    /\ pc' = [pc EXCEPT ![c] = "idle"]
    /\ mine' = [mine EXCEPT ![c] = NoEngine]
    /\ report' = [report EXCEPT ![c] = NoReport]
    /\ said' = IF r = NoReport THEN r ELSE Unreadable(r)

(* catalogue(), with this in its cache; it throws if there is none.        *)
Catalogue(cached) == IF cached # NoCatalogue THEN cached ELSE Catalogues[now]

(* openEngineProcess up to its await, by a call whose report is r.         *)
Launch(c, cached, r) ==
    LET found == Catalogue(cached)
    IN  \/ /\ found # NoCatalogue /\ CanLaunch(Here, found.root)
           /\ cat' = found
           /\ pc' = [pc EXCEPT ![c] = "opening"]
           /\ mine' = [mine EXCEPT ![c] =
                 [root |-> found.root, java |-> ResolveJava(Here, found.root).path,
                  astride |-> FALSE]]
           /\ report' = [report EXCEPT ![c] = r]
           /\ said' = NoReport
        \/ /\ ~(found # NoCatalogue /\ CanLaunch(Here, found.root))
           /\ cat' = found
           /\ Fail(c, r)

(* acquireEngine up to its first await, with these caches.                 *)
Acquire(c, found, cached, count, r) ==
    \/ /\ cached # NoEngine
       /\ cat' = found /\ eng' = cached /\ holders' = count + 1
       /\ pc' = [pc EXCEPT ![c] = "refreshing"]
       /\ mine' = [mine EXCEPT ![c] = cached]
       /\ report' = [report EXCEPT ![c] = r]
       /\ said' = NoReport
    \/ /\ cached = NoEngine
       /\ eng' = NoEngine /\ holders' = count
       /\ Launch(c, found, r)

(* A tool that searches, or answers that there is no library.              *)
Search(c) ==
    /\ pc[c] = "idle"
    /\ \/ /\ Catalogue(cat) # NoCatalogue
          /\ Acquire(c, Catalogue(cat), eng, holders, NoReport)
       \/ /\ Catalogue(cat) = NoCatalogue
          /\ said' = NoReport
          /\ UNCHANGED <<cat, eng, holders, pc, mine, report>>
    /\ UNCHANGED <<now, crossed>>

(* Mutant: the engine outlives a refresh. *)
KeptEngine(refresh) == eng

(* resetContext: the catalogue is dropped, and the engine with it.         *)
KeptCatalogue(refresh) == IF refresh THEN NoCatalogue ELSE cat
EngineAfter(refresh) == IF refresh THEN NoEngine ELSE eng

(* The pieces health asks for before it acquires the engine.               *)
AllThere(m, root) == m.at[root].page /\ CanLaunch(m, root)

(* fiqh4_health up to its await; without a library it explains why.        *)
Health(c, refresh) ==
    LET kept == KeptCatalogue(refresh)
        found == Catalogue(kept)
        engine == EngineAfter(refresh)
        count == IF refresh THEN 0 ELSE holders
    IN  /\ pc[c] = "idle"
        /\ \/ /\ found # NoCatalogue /\ AllThere(Here, found.root)
              /\ Acquire(c, found, engine, count, FoundReport(Here, found, refresh))
           \/ /\ found # NoCatalogue /\ ~AllThere(Here, found.root)
              /\ cat' = found /\ eng' = engine /\ holders' = count
              /\ said' = FoundReport(Here, found, refresh)
              /\ UNCHANGED <<pc, mine, report>>
           \/ /\ found = NoCatalogue
              /\ cat' = found /\ eng' = engine /\ holders' = count
              /\ said' = MissingReport(Here, refresh)
              /\ UNCHANGED <<pc, mine, report>>
        /\ crossed' = IF refresh THEN crossed \cup Waiting ELSE crossed
        /\ UNCHANGED now

(* A call has its engine: a search uses it, health reads its numbers and   *)
(* gives it back at once.                                                  *)
Got(c, engine, count) ==
    /\ crossed' = crossed \ {c}
    /\ IF report[c] = NoReport
       THEN /\ pc' = [pc EXCEPT ![c] = "using"]
            /\ mine' = [mine EXCEPT ![c] = engine]
            /\ holders' = count
            /\ said' = NoReport
            /\ UNCHANGED report
       ELSE /\ pc' = [pc EXCEPT ![c] = "idle"]
            /\ mine' = [mine EXCEPT ![c] = NoEngine]
            /\ holders' = Less(count)
            /\ report' = [report EXCEPT ![c] = NoReport]
            /\ said' = Readable(Known(c), engine)

(* The cached engine answers its health check.                             *)
RefreshOk(c) ==
    /\ pc[c] = "refreshing" /\ Here.at[mine[c].root].page
    /\ Got(c, mine[c], holders)
    /\ UNCHANGED <<now, cat, eng>>

(* It does not: whatever is cached now is closed, and another opened.      *)
RefreshLost(c) ==
    /\ pc[c] = "refreshing"
    /\ eng' = NoEngine /\ holders' = 0
    /\ Launch(c, cat, Known(c))
    /\ crossed' = crossed \ {c}
    /\ UNCHANGED now

(* Java must be a program to start, and the index must be there.           *)
Runs(m, engine) ==
    /\ m.at[engine.root].page
    /\ IF engine.java = "bundled" THEN m.at[engine.root].bundled
       ELSE m.files[engine.java] = "file"

(* The new engine becomes the cached one, whatever has been cached since;  *)
(* its Java only mattered for its start.                                   *)
OpenOk(c) ==
    /\ pc[c] = "opening" /\ Runs(Here, mine[c])
    /\ eng' = [root |-> mine[c].root, java |-> Null, astride |-> c \in crossed]
    /\ Got(c, eng', holders + 1)
    /\ UNCHANGED <<now, cat>>

OpenFails(c) ==
    /\ pc[c] = "opening"
    /\ Fail(c, report[c])
    /\ crossed' = crossed \ {c}
    /\ UNCHANGED <<now, cat, eng, holders>>

Release(c) ==
    /\ pc[c] = "using"
    /\ holders' = Less(holders)
    /\ pc' = [pc EXCEPT ![c] = "idle"]
    /\ mine' = [mine EXCEPT ![c] = NoEngine]
    /\ said' = NoReport
    /\ UNCHANGED <<now, cat, eng, report, crossed>>

(* The idle timer fires, and finds no holder.                              *)
IdleFires ==
    /\ eng # NoEngine /\ holders = 0
    /\ eng' = NoEngine
    /\ said' = NoReport
    /\ UNCHANGED <<now, cat, holders, pc, mine, report, crossed>>

(* The user and Shamela change what is on the machine: any of them comes   *)
(* after any other, by way of those between.                               *)
Change ==
    /\ now' = IF now = Len(Machines) THEN 1 ELSE now + 1
    /\ said' = NoReport
    /\ UNCHANGED <<cat, eng, holders, pc, mine, report, crossed>>

Next ==
    \/ Change \/ IdleFires
    \/ \E c \in Calls :
          \/ Search(c) \/ RefreshOk(c) \/ RefreshLost(c)
          \/ OpenOk(c) \/ OpenFails(c) \/ Release(c)
          \/ \E refresh \in BOOLEAN : Health(c, refresh)

Spec == Init /\ [][Next]_vars

-----------------------------------------------------------------------------
(* Properties.                                                              *)

Engines == [root : UNION {DOMAIN Machines[n].at : n \in DOMAIN Machines},
            java : {"bundled", Null} \cup UNION {DOMAIN Machines[n].files : n \in DOMAIN Machines},
            astride : BOOLEAN]

ASSUME EngineAssumption == NoEngine \notin Engines

(* Every variable has the values its comment says.                         *)
TypeOK ==
    /\ now \in DOMAIN Machines
    /\ cat = NoCatalogue \/ /\ \E n \in DOMAIN Machines : cat.root \in DOMAIN Machines[n].at
                            /\ cat.layout \in DOMAIN Profiles
    /\ eng \in Engines \cup {NoEngine}
    /\ holders \in Nat
    /\ pc \in [Calls -> {"idle", "refreshing", "opening", "using"}]
    /\ \A c \in Calls :
          /\ mine[c] \in Engines \cup {NoEngine}
          /\ mine[c] = NoEngine <=> pc[c] = "idle"
          /\ report[c] # NoReport => pc[c] \in {"refreshing", "opening"}
    /\ crossed \subseteq Waiting

(* The text of a library is read where its catalogue was read: the cached  *)
(* engine is that of the cached catalogue, whatever moves on the machine   *)
(* and whoever refreshes, unless the call that opened it was already       *)
(* waiting when a refresh dropped both (context.ts:198 caches it then).    *)
EngineOfLibrary ==
    eng # NoEngine /\ cat # NoCatalogue => eng.root = cat.root \/ eng.astride

(* The rule of discover.ts, without its search: a named folder or none,    *)
(* and else the first that will do.                                        *)
Chosen(m, root) ==
    /\ Usable(m, root)
    /\ IF m.dir \notin Blank THEN root = m.dir
       ELSE \E n \in DOMAIN SearchRoots :
               /\ SearchRoots[n] = root
               /\ \A k \in 1..(n - 1) : ~Usable(m, SearchRoots[k])

(* fiqh4_health with refresh speaks of the machine as it is: it finds the  *)
(* library the settings mean, or says there is none exactly if there is    *)
(* none that can be read, and a Java that is not the one configured is     *)
(* named as ignored.                                                       *)
FreshReport ==
    said.fresh =>
        LET m == Machines[said.of]
        IN  /\ said.found => Chosen(m, said.root) /\ said.layout = m.at[said.root].master
            /\ ~said.found => \A root \in DOMAIN m.at :
                  Chosen(m, root) => m.at[root].master \notin DOMAIN Profiles
            /\ said.found /\ m.java \notin Blank /\ said.java # m.java =>
                  "javaIgnored" \in said.warnings

(* No report leaves a failure unexplained, and one that calls the index    *)
(* readable has read that of the library it reports on, unless a refresh   *)
(* came between (health.ts:139-186 and 226-309).                           *)
HealthTruthful ==
    said # NoReport =>
        /\ ~said.readable => said.warnings \cap
              {"reason", "noPages", "noJars", "noJava", "noHelper", "notOpened"} # {}
        /\ said.readable => said.engine = said.root \/ said.mixed

(* If a table was taken for that of the categories, the report says that   *)
(* no book will be classified exactly when no book gets a category; if     *)
(* none was, the report says so. And a table named for the books is        *)
(* preferred to any other that looks like it. Whether the small table is   *)
(* that of the categories at all is not known to the code and not said     *)
(* here (schemaProbe.ts:120-187, masterRepo.ts:58-100).                    *)
SchemaSaid ==
    said.found =>
        LET tables == Layouts[said.layout]
            profile == Profiles[said.layout]
        IN  /\ profile.categoriesTable = Null => "noCategories" \in said.notes
            /\ profile.categoriesTable # Null =>
                  (JoinsCategories(profile) <=>
                      said.notes \cap {"categoriesUnread", "noCategoryColumn"} = {})
            /\ (\E t \in ToSet(tables) : t.name \in BookNames /\ IsBooks(t)) =>
                  profile.booksTable \in BookNames
==============================================================================
