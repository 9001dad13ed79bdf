---------------------------- MODULE RegistryPool ----------------------------
(***************************************************************************)
(* checkDependencies and headStatuses of vibescan's system/ai/slopsquat.ts *)
(* as scanProjectAsync calls them: a pool of async workers that claim      *)
(* dependencies from a shared index and ask the npm registry for each.     *)
(*                                                                         *)
(* A worker runs from one await to the next without interruption: storing  *)
(* an answer and claiming the next dependency are one step.  Positions     *)
(* count from 1.                                                           *)
(***************************************************************************)
EXTENDS Integers, FiniteSets, Sequences

CONSTANTS
    ToCheck,      \* the names in toCheck, one for each declaration
    Scoped,       \* those that start with @
    Kept,         \* severities that filterByThreshold lets by
    Concurrency   \* the concurrency of headStatuses, 5 in the code

ASSUME ToCheckAssumption == ToCheck \in Seq(STRING)
ASSUME ConcurrencyAssumption == Concurrency \in Nat \ {0}

VARIABLES
    stage,    \* where checkDependencies is
    index,    \* the position to be claimed next
    holds,    \* the position each worker claimed last
    results,  \* the answers stored so far
    found,    \* the findings pushed, by the position they stand for
    sent      \* history: requests sent for each position

vars == <<stage, index, holds, results, found, sent>>

N == Len(ToCheck)
Positions == 1..N
Answers == {"found", "missing", "failed"}

\* Math.min(concurrency, Math.max(1, names.length))
PoolSize ==
    LET wanted == IF N > 1 THEN N ELSE 1
    IN IF Concurrency < wanted THEN Concurrency ELSE wanted
Workers == 1..PoolSize
\* false once `i >= names.length` has made the worker return
Asking(w) == holds[w] \in Positions

Init ==
    /\ stage = "start"
    /\ index = 1
    /\ holds = [w \in Workers |-> 0]
    /\ results = [i \in Positions |-> "unset"]
    /\ found = << >>
    /\ sent = [i \in Positions |-> 0]

\* --skip-registry, no package.json or one that does not parse, a registry
\* that is not npmjs.
Skip ==
    /\ stage = "start"
    /\ stage' = "skipped"
    /\ UNCHANGED <<index, holds, results, found, sent>>

\* Array.from runs each worker up to its first request.
MutStartAllAtZero ==
    /\ stage = "start"
    /\ stage' = "asking"
    /\ index' = 2
    /\ holds' = [w \in Workers |-> 1]
    /\ sent' = [i \in Positions |-> IF i = 1 THEN PoolSize ELSE 0]
    /\ UNCHANGED <<results, found>>

Start ==
    /\ stage = "start"
    /\ stage' = "asking"
    /\ index' = PoolSize + 1
    /\ holds' = [w \in Workers |-> w]
    /\ sent' = [i \in Positions |-> IF i <= PoolSize THEN 1 ELSE 0]
    /\ UNCHANGED <<results, found>>

Claim(w) ==
    /\ holds' = [holds EXCEPT ![w] = index]
    /\ sent' = [i \in Positions |-> sent[i] + IF i = index THEN 1 ELSE 0]

\* the answer stored where the shared index is, not where the worker's i is
MutAnswerAtIndex(w) ==
    /\ stage = "asking"
    /\ Asking(w)
    /\ \E a \in Answers :
        results' = IF index \in Positions THEN [results EXCEPT ![index] = a] ELSE results
    /\ Claim(w)
    /\ index' = index + 1
    /\ UNCHANGED <<stage, found>>

\* return after a failed request
MutAnswerFailedReturns(w) ==
    /\ stage = "asking"
    /\ Asking(w)
    /\ \E a \in Answers :
        /\ results' = [results EXCEPT ![holds[w]] = a]
        /\ IF a = "failed"
           THEN holds' = [holds EXCEPT ![w] = N + 1] /\ UNCHANGED <<index, sent>>
           ELSE Claim(w) /\ index' = index + 1
    /\ UNCHANGED <<stage, found>>

\* The registry answers, or the request is rejected (-1).
Answer(w) ==
    /\ stage = "asking"
    /\ Asking(w)
    /\ \E a \in Answers : results' = [results EXCEPT ![holds[w]] = a]
    /\ Claim(w)
    /\ index' = index + 1
    /\ UNCHANGED <<stage, found>>

SeverityOf(n) == IF n \in Scoped THEN "info" ELSE "error"
FindingKind(n) == IF n \in Scoped THEN "POSSIBLY_PRIVATE" ELSE "SLOPSQUAT_CANDIDATE"
MkFinding(n) == [name |-> n, kind |-> FindingKind(n)]

\* done when the index is the length, which it overruns
MutFinishIndexExact ==
    /\ stage = "asking"
    /\ index = N + 1
    /\ \A w \in Workers : ~Asking(w)
    /\ stage' = "done"
    /\ found' = [i \in {k \in Positions :
                    results[k] = "missing" /\ SeverityOf(ToCheck[k]) \in Kept} |->
                    MkFinding(ToCheck[i])]
    /\ UNCHANGED <<index, holds, results, sent>>

\* Promise.all resolves with every worker back; the loop over toCheck.
Finish ==
    /\ stage = "asking"
    /\ \A w \in Workers : ~Asking(w)
    /\ stage' = "done"
    /\ found' = [i \in {k \in Positions :
                    results[k] = "missing" /\ SeverityOf(ToCheck[k]) \in Kept} |->
                    MkFinding(ToCheck[i])]
    /\ UNCHANGED <<index, holds, results, sent>>

Next == Skip \/ Start \/ Finish \/ \E w \in Workers : Answer(w)

Spec == Init /\ [][Next]_vars

(***************************************************************************)
(* Node runs what is due, and fetch ends every request: undici rejects one *)
(* whose headers do not come in time.  The code has no timer of its own.   *)
(***************************************************************************)
FairSpec == Spec /\ WF_vars(Skip \/ Start) /\ WF_vars(Finish) /\ \A w \in Workers : WF_vars(Answer(w))

-----------------------------------------------------------------------------
TypeOK ==
    /\ stage \in {"start", "skipped", "asking", "done"}
    /\ index \in 1..(N + PoolSize + 1)
    /\ holds \in [Workers -> 0..(N + PoolSize)]
    /\ results \in [Positions -> Answers \cup {"unset"}]
    /\ DOMAIN found \subseteq Positions
    /\ \A i \in DOMAIN found : found[i] = MkFinding(ToCheck[i])
    /\ sent \in [Positions -> Nat]

(***************************************************************************)
(* No declaration is asked for twice and none is left out, whichever order *)
(* the answers come in: each is asked for once before the report.          *)
(***************************************************************************)
AskedOnce ==
    /\ \A i \in Positions : sent[i] <= 1
    /\ stage = "done" => \A i \in Positions : sent[i] = 1 /\ results[i] # "unset"

(***************************************************************************)
(* No worker gives up while a declaration has not been asked for, and the  *)
(* requests that wait for their answers never exceed the concurrency.      *)
(***************************************************************************)
PoolIsFull ==
    stage = "asking" =>
        /\ \A i \in Positions : sent[i] = 0 => \A w \in Workers : Asking(w)
        /\ Cardinality({i \in Positions : sent[i] > 0 /\ results[i] = "unset"}) <= Concurrency

(***************************************************************************)
(* The pool does what RegistryCheck promises: lookups happen once each, in *)
(* some order, and the report holds exactly the missing dependencies.      *)
(***************************************************************************)
NoReport == [name |-> "no report"]
Check == INSTANCE RegistryCheck WITH
    status <- [i \in Positions |-> IF results[i] = "unset" THEN "unknown" ELSE results[i]],
    report <- IF stage \in {"done", "skipped"}
              THEN {found[i] : i \in DOMAIN found} ELSE {NoReport}
ImplementsCheck == Check!Spec

(***************************************************************************)
(* The scan that waits for the check gets its report, unless a request is  *)
(* never answered.                                                         *)
(***************************************************************************)
CheckEnds == <>(stage \in {"done", "skipped"})

=============================================================================
