---------------------------- MODULE LuceneBridge ----------------------------
(***************************************************************************)
(* src/src/search/luceneBridge.ts: newline-delimited JSON requests over    *)
(* the stdin of a Java child, answers over its stdout, matched by id; and  *)
(* the request loop of java/src/dev/shamela/fiqh4/Main.java at the other   *)
(* end of the pipes.                                                       *)
(*                                                                         *)
(* A send is named by its id, and a process by the send that spawned it.   *)
(* Node runs one callback at a time.  The process, its pipes and the       *)
(* events about them are not ordered with each other, so an 'exit' event   *)
(* may come before the last data, or after a successor has been spawned.   *)
(***************************************************************************)
EXTENDS Integers, Sequences

CONSTANTS
    Requests,    \* calls of send() by the engine, by their id
    Closes,      \* calls of close(); context.ts closes an engine once
    NoProc,      \* the null of this.proc
    NoLine,      \* an empty this.buffer
    Junk,        \* a buffer that no longer holds one line's beginning
    Timeouts,    \* request timers may fire
    Deaths,      \* the helper may die between two lines
    TornLines,   \* the helper may die inside a line
    SlowStart    \* a JVM starts more slowly than Node drains an old pipe

Sends == Requests \union Closes

ASSUME BridgeAssumption ==
    /\ Requests \subseteq Nat
    /\ Requests \intersect Closes = {}
    /\ \A k, l \in Closes : k = l
    /\ {NoProc, NoLine, Junk} \intersect Sends = {}
    /\ NoLine # Junk
    /\ Timeouts \in BOOLEAN /\ Deaths \in BOOLEAN
    /\ TornLines \in BOOLEAN /\ SlowStart \in BOOLEAN

VARIABLES
    proc,     \* this.proc
    buffer,   \* this.buffer: NoLine, the send whose line began, or Junk
    status,   \* of each send: its promise, and its entry in this.pending
    target,   \* the process a send was written to
    life,     \* of each process: none, up, killed, dead (not noticed), gone
    stdin,    \* per process, requests written and not yet read
    stdout,   \* per process, pieces written and not yet delivered
    written   \* history: sends whose answer line some helper completed

bridgeVars == <<proc, buffer, status, target, life, stdin, stdout, written>>

Alive(p) == life[p] \in {"up", "killed"}
Pending == {s \in Sends : status[s] = "pending"}
Unclosed == \A k \in Closes : status[k] = "new"

\* Every answer line crosses the pipe as a beginning and an end with the newline.
Begin(s) == [part |-> "begin", of |-> s]
End(s)   == [part |-> "end", of |-> s]
Pieces   == [part : {"begin", "end"}, of : Sends]

BridgeInit ==
    /\ proc = NoProc
    /\ buffer = NoLine
    /\ status = [s \in Sends |-> "new"]
    /\ target = [s \in Sends |-> NoProc]
    /\ life = [p \in Requests |-> "none"]
    /\ stdin = [p \in Requests |-> << >>]
    /\ stdout = [p \in Requests |-> << >>]
    /\ written = {}

-----------------------------------------------------------------------------
\* Mutant: the process is forgotten but not killed.
ForgetCurrent ==
    /\ proc' = NoProc
    /\ UNCHANGED life

(* The finally of close() runs on the ticks right after its send settled:  *)
(* it kills and forgets whatever process is current by then.               *)
KillCurrent ==
    /\ life' = [p \in Requests |->
                  IF p = proc /\ life[p] = "up" THEN "killed" ELSE life[p]]
    /\ proc' = NoProc

\* A promise settles; if it was close()'s, its finally follows.
Settle(s, how) ==
    /\ status' = [status EXCEPT ![s] = how]
    /\ IF s \in Closes THEN KillCurrent ELSE UNCHANGED <<proc, life>>

\* ensureStarted, then the write to the process's stdin; a dead one reads nothing.
WriteTo(s, p) ==
    /\ status' = [status EXCEPT ![s] = "pending"]
    /\ target' = [target EXCEPT ![s] = p]
    /\ stdin' = [stdin EXCEPT ![p] = Append(@, s)]

Send(s) ==
    /\ status[s] = "new"
    /\ \A q \in Requests : q < s => status[q] # "new"
    /\ \/ /\ proc # NoProc
          /\ WriteTo(s, proc)
          /\ UNCHANGED <<proc, life>>
       \/ /\ proc = NoProc
          /\ proc' = s
          /\ life' = [life EXCEPT ![s] = "up"]
          /\ WriteTo(s, s)
    /\ UNCHANGED <<buffer, stdout, written>>

\* Mutant: close() starts a process in order to stop it.
CloseStarts(k) ==
    /\ status[k] = "new"
    /\ proc' = IF proc = NoProc THEN k ELSE proc
    /\ WriteTo(k, proc')
    /\ UNCHANGED <<buffer, life, stdout, written>>

\* close(): nothing without a process, otherwise the request "close".
Close(k) ==
    /\ status[k] = "new"
    /\ \/ /\ proc = NoProc
          /\ status' = [status EXCEPT ![k] = "answered"]
          /\ UNCHANGED <<target, stdin>>
       \/ /\ proc # NoProc
          /\ WriteTo(k, proc)
    /\ UNCHANGED <<proc, buffer, life, stdout, written>>

\* Mutant: a timeout gives the process up without stopping it.
TimeoutForgets(s) ==
    /\ Timeouts
    /\ status[s] = "pending"
    /\ status' = [status EXCEPT ![s] = "failed"]
    /\ proc' = NoProc
    /\ UNCHANGED <<buffer, target, life, stdin, stdout, written>>

\* The timer of send(), or its write callback reporting an error.
Timeout(s) ==
    /\ Timeouts
    /\ status[s] = "pending"
    /\ Settle(s, "failed")
    /\ UNCHANGED <<buffer, target, stdin, stdout, written>>

\* Mutant: an answer settles its request also after a timeout.
OnDataLate(p) ==
    /\ stdout[p] # << >>
    /\ LET piece == Head(stdout[p])
           whole == piece.part = "end" /\ buffer = piece.of
       IN  /\ buffer' = IF piece.part = "end" THEN NoLine
                        ELSE IF buffer = NoLine THEN piece.of ELSE Junk
           /\ \/ whole /\ Settle(piece.of, "answered")
              \/ ~whole /\ UNCHANGED <<status, proc, life>>
    /\ stdout' = [stdout EXCEPT ![p] = Tail(@)]
    /\ UNCHANGED <<target, stdin, written>>

(* onData for the next piece.  A line that does not parse is dropped, and  *)
(* so is an answer nobody waits for.                                       *)
OnData(p) ==
    /\ stdout[p] # << >>
    /\ LET piece == Head(stdout[p])
           whole == piece.part = "end" /\ buffer = piece.of
       IN  /\ buffer' = IF piece.part = "end" THEN NoLine
                        ELSE IF buffer = NoLine THEN piece.of ELSE Junk
           /\ \/ /\ whole /\ status[piece.of] = "pending"
                 /\ Settle(piece.of, "answered")
              \/ /\ ~(whole /\ status[piece.of] = "pending")
                 /\ UNCHANGED <<status, proc, life>>
    /\ stdout' = [stdout EXCEPT ![p] = Tail(@)]
    /\ UNCHANGED <<target, stdin, written>>

\* Mutant: the exit is noticed, the waiting requests are not rejected.
OnExitSilent(p) ==
    /\ life[p] = "dead"
    /\ proc' = NoProc
    /\ life' = [life EXCEPT ![p] = "gone"]
    /\ UNCHANGED <<status, buffer, target, stdin, stdout, written>>

(* 'exit' (or 'error', when the spawn failed): failAll rejects everything   *)
(* pending, whichever process it was written to, and forgets the current   *)
(* process.  A rejected close() then finds no process to kill.  this.buffer *)
(* is left as it is.                                                       *)
OnExit(p) ==
    /\ life[p] = "dead"
    /\ status' = [s \in Sends |-> IF s \in Pending THEN "failed" ELSE status[s]]
    /\ proc' = NoProc
    /\ life' = [life EXCEPT ![p] = "gone"]
    /\ UNCHANGED <<buffer, target, stdin, stdout, written>>

-----------------------------------------------------------------------------
(* Main.main: one request at a time, in the order they were written; each  *)
(* is answered, with a result or with an error; "close" ends the loop.     *)
Answer(p) ==
    /\ Alive(p)
    /\ stdin[p] # << >>
    /\ SlowStart => \A q \in Requests \ {p} : ~Alive(q) => stdout[q] = << >>
    /\ LET s == Head(stdin[p])
       IN  /\ stdout' = [stdout EXCEPT ![p] = @ \o <<Begin(s), End(s)>>]
           /\ written' = written \union {s}
           /\ life' = IF s \in Closes THEN [life EXCEPT ![p] = "dead"] ELSE life
    /\ stdin' = [stdin EXCEPT ![p] = Tail(@)]
    /\ UNCHANGED <<proc, buffer, status, target>>

\* The process ends, between two lines or while it writes one.
Die(p) ==
    /\ Alive(p)
    /\ life[p] = "killed" \/ Deaths
    /\ life' = [life EXCEPT ![p] = "dead"]
    /\ \/ UNCHANGED stdout
       \/ /\ TornLines /\ stdin[p] # << >>
          /\ stdout' = [stdout EXCEPT ![p] = Append(@, Begin(Head(stdin[p])))]
    /\ UNCHANGED <<proc, buffer, status, target, stdin, written>>

BridgeNext ==
    \/ \E s \in Requests : Send(s)
    \/ \E k \in Closes : Close(k)
    \/ \E s \in Sends : Timeout(s)
    \/ \E p \in Requests : OnData(p) \/ OnExit(p) \/ Answer(p) \/ Die(p)

BridgeSpec == BridgeInit /\ [][BridgeNext]_bridgeVars

(***************************************************************************)
(* A living helper works through its requests, a killed one dies, and Node *)
(* delivers data and exit events.  Nothing forces a timer to be first.     *)
(***************************************************************************)
BridgeFairness ==
    \A p \in Requests :
        /\ WF_bridgeVars(Answer(p))
        /\ WF_bridgeVars(life[p] = "killed" /\ Die(p))
        /\ WF_bridgeVars(OnData(p))
        /\ WF_bridgeVars(OnExit(p))

BridgeFairSpec == BridgeSpec /\ BridgeFairness

-----------------------------------------------------------------------------
BridgeTypeOK ==
    /\ proc \in Requests \union {NoProc}
    /\ buffer \in Sends \union {NoLine, Junk}
    /\ status \in [Sends -> {"new", "pending", "answered", "failed"}]
    /\ target \in [Sends -> Requests \union {NoProc}]
    /\ life \in [Requests -> {"none", "up", "killed", "dead", "gone"}]
    /\ stdin \in [Requests -> Seq(Sends)]
    /\ stdout \in [Requests -> Seq(Pieces)]
    /\ written \in SUBSET Sends

(* A process whose end Node has seen leaves no request waiting for its      *)
(* timer; close() leaves the process it was sent to stopped or stopping,    *)
(* however it ended; and, as long as nobody has called it, a process that   *)
(* nobody can reach any more is on its way out (luceneBridge.ts, failAll,   *)
(* ensureStarted and the finally of close).                                 *)
NobodyLeftBehind ==
    /\ \A s \in Pending : life[target[s]] # "gone"
    /\ \A k \in Closes :
          status[k] \in {"answered", "failed"} /\ target[k] # NoProc =>
              life[target[k]] # "up"
    /\ Unclosed => \A p \in Requests : life[p] = "up" => proc = p

\* An 'exit' event that fails a request written to another process.
FailsAnothers ==
    \E p \in Requests, s \in Sends :
        /\ life[p] = "dead" /\ life'[p] = "gone"
        /\ status[s] = "pending" /\ status'[s] = "failed" /\ target[s] # p

(* An exit only fails requests that were written to the process that left,  *)
(* as long as nobody has called close(); after that the exit of the old     *)
(* process may fail a request of the new one (luceneBridge.ts 129-140).     *)
ExitFailsItsOwnUnclosed == [][ Unclosed => ~FailsAnothers ]_bridgeVars

(* Without help from the 180 s timer every request is settled, by its       *)
(* answer or by the helper's exit (luceneBridge.ts, failAll).               *)
SettlesWithoutTimer == \A s \in Sends : status[s] = "pending" ~> status[s] # "pending"

(* What of that is true: so it is in a run where lines of two processes are *)
(* never glued together in the buffer.                                     *)
SettlesUnlessTorn == [](buffer # Junk) => SettlesWithoutTimer

(* What callers of send() rely on is RequestReply, whatever happens to the  *)
(* processes, the pipes and the order of their events.                      *)
Promises == INSTANCE RequestReply WITH Asks <- Sends, Free <- Closes,
                                       known <- written
PromisesKept == Promises!Spec
=============================================================================
