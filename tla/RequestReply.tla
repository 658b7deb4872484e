---------------------------- MODULE RequestReply ----------------------------
(***************************************************************************)
(* What LuceneBridge promises its callers: a request is settled at most     *)
(* once, for good, and answered only if its own answer exists.              *)
(***************************************************************************)
CONSTANTS
    Asks,   \* the requests
    Free    \* those that may turn out to need no answer

VARIABLES
    status,   \* new, pending, answered or failed
    known     \* the requests that have an answer

Init == status = [s \in Asks |-> "new"] /\ known = {}

Ask == \E s \in Asks :
    /\ status[s] = "new"
    /\ status' = [status EXCEPT ![s] = "pending"]
    /\ UNCHANGED known

\* The other side has worked out an answer, whether or not anyone still waits.
Find == \E s \in Asks \ known :
    /\ status[s] # "new"
    /\ known' = known \union {s}
    /\ UNCHANGED status

Reply == \E s \in known :
    /\ status[s] = "pending"
    /\ status' = [status EXCEPT ![s] = "answered"]
    /\ UNCHANGED known

\* A failure may take many requests with it.
Fail == \E F \in SUBSET {s \in Asks : status[s] = "pending"} :
    /\ status' = [s \in Asks |-> IF s \in F THEN "failed" ELSE status[s]]
    /\ UNCHANGED known

Skip == \E s \in Free :
    /\ status[s] = "new"
    /\ status' = [status EXCEPT ![s] = "answered"]
    /\ UNCHANGED known

Next == Ask \/ Find \/ Reply \/ Fail \/ Skip

Spec == Init /\ [][Next]_<<status, known>>
=============================================================================
