------------------------------ MODULE MCExport ------------------------------
(* ExportJob on two books, two queries and two versions of the index: a     *)
(* rewrite gives the first match of each book another key, so that a sweep  *)
(* may meet the one of the long book again, and takes the other query's    *)
(* only match away, which then finds nothing anywhere.                     *)
EXTENDS ExportJob, TLC

CONSTANTS long, short, asked, other

Matches(inLong, inShort) == (long :> inLong) @@ (short :> inShort)

MCFound == [v \in Versions |->
    IF v = 1 THEN (asked :> Matches({1, 3}, {2})) @@ (other :> Matches({2}, {}))
             ELSE (asked :> Matches({2, 3}, {1})) @@ (other :> Matches({}, {}))]
=============================================================================
