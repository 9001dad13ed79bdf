---------------------------- MODULE RegistryCheck ----------------------------
(***************************************************************************)
(* What the registry check of vibescan promises (README: "SLOP-001"), with *)
(* no word of how the requests are made: every dependency to check is      *)
(* looked up at most once, what was learnt is never revised, and the       *)
(* report is made when all are looked up and holds exactly the missing     *)
(* ones.  RegistryPool implements it.                                      *)
(***************************************************************************)
EXTENDS Integers, Sequences

CONSTANTS
    ToCheck,  \* dependency names in the order of package.json, some twice
    Scoped,   \* those that start with @
    Kept      \* severities that reach the threshold of the scan

VARIABLES
    status,  \* what each lookup gave
    report   \* the findings, NoReport until there are any to be read

vars == <<status, report>>

Positions == 1..Len(ToCheck)
Outcomes == {"found", "missing", "failed"}
NoReport == [name |-> "no report"]

SeverityOf(n) == IF n \in Scoped THEN "info" ELSE "error"
KindOf(n) == IF n \in Scoped THEN "POSSIBLY_PRIVATE" ELSE "SLOPSQUAT_CANDIDATE"
Missing ==
    {ToCheck[i] : i \in {k \in Positions :
        status[k] = "missing" /\ SeverityOf(ToCheck[k]) \in Kept}}

Init ==
    /\ status = [i \in Positions |-> "unknown"]
    /\ report = {NoReport}

LookUp(i) ==
    /\ status[i] = "unknown"
    /\ \E o \in Outcomes : status' = [status EXCEPT ![i] = o]
    /\ UNCHANGED report

Report ==
    /\ report = {NoReport}
    /\ \A i \in Positions : status[i] # "unknown"
    /\ report' = {[name |-> n, kind |-> KindOf(n)] : n \in Missing}
    /\ UNCHANGED status

\* The check is off, or package.json asks for another registry.
Skip ==
    /\ report = {NoReport}
    /\ \A i \in Positions : status[i] = "unknown"
    /\ report' = {}
    /\ UNCHANGED status

Next == Report \/ Skip \/ \E i \in Positions : LookUp(i)

Spec == Init /\ [][Next]_vars

=============================================================================
