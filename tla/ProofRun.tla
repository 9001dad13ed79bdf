------------------------------- MODULE ProofRun -------------------------------
(***************************************************************************)
(* The proofs of vibescan's findings: `vibescan prove` writes a node test  *)
(* for each finding it can (proof/pipeline.ts, called by scanProjectAsync),*)
(* the scan prints the findings as JSON, `vibescan prove --run` runs the   *)
(* tests the JSON names, several times each, and tallies the outcomes      *)
(* (proof/runner.ts), and `vibescan reproduce` runs one.                   *)
(*                                                                         *)
(* The commands are processes that share a directory of test files and a   *)
(* JSON file, and the project is edited between them.  A test file is      *)
(* known by the finding it is the proof of.                                *)
(***************************************************************************)
EXTENDS Integers, FiniteSets, Sequences

CONSTANTS
    Findings,    \* what scans may find
    Rules,       \* rule ids, as safeProofName writes them
    RuleOf,      \* the rule of each finding
    Supported,   \* findings for which a generator emits a test
    Suppressed,  \* findings the configuration suppresses
    Projects,    \* lists of findings, one for each state the sources may be in
    RetryArgs,   \* what parseInt makes of --retries, 1 where it is not given
    NaN,
    MaxRetries   \* 20 in the code

ASSUME FindingsAssumption ==
    /\ RuleOf \in [Findings -> Rules]
    /\ Supported \subseteq Findings /\ Suppressed \subseteq Findings
    /\ Projects \subseteq Seq(Findings)
ASSUME RetriesAssumption ==
    /\ NaN \notin Int /\ RetryArgs \subseteq Int \cup {NaN}
    /\ MaxRetries \in Nat \ {0}

VARIABLES
    project,   \* the findings a scan of the sources would make now
    list,      \* allFindings of the scan that runs
    emitted,   \* how many of them emitProofTests has been through, -1: no scan
    files,     \* the test files, by name
    json,      \* rows of the saved JSON
    rows,      \* rows the harness has read
    retries,   \* its attempts for each file
    stage,     \* where the harness is
    attempts,  \* those made of the current row's file
    entries,   \* of the log to be written
    tally,     \* pass, fail, inconclusive, flaky, executed
    \* history, read by no guard: no scan has begun since the JSON was made
    jsonFresh, runFresh

scanVars == <<list, emitted>>
runVars == <<rows, retries, stage, attempts, entries, tally>>
vars == <<project, list, emitted, files, json, rows, retries, stage, attempts, entries,
          tally, jsonFresh, runFresh>>

NoFinding == [none |-> "finding"]
NoPath == [none |-> "path"]
\* safeBaseName: the rule and the position among all findings
Path(f, i) == [rule |-> RuleOf[f], index |-> i]
Paths == [rule : Rules, index : Nat \ {0}]

Counters == {"pass", "fail", "inconclusive", "flaky", "executed"}
NoTally == [c \in Counters |-> 0]

Init ==
    /\ project \in Projects
    /\ list = << >> /\ emitted = -1
    /\ files = [p \in {} |-> NoFinding]
    /\ json = << >> /\ jsonFresh = FALSE
    /\ rows = << >> /\ retries = 0 /\ stage = "idle" /\ attempts = << >>
    /\ entries = << >> /\ tally = NoTally /\ runFresh = FALSE

-----------------------------------------------------------------------------
(* The user *)

Edit ==
    /\ project' \in Projects \ {project}
    /\ UNCHANGED <<scanVars, files, json, runVars, jsonFresh, runFresh>>

\* The directory of generated tests is removed.
RemoveTests ==
    /\ DOMAIN files # {}
    /\ files' = [p \in {} |-> NoFinding]
    /\ UNCHANGED <<project, scanVars, json, runVars, jsonFresh, runFresh>>

-----------------------------------------------------------------------------
(* vibescan prove *)

ScanBegin ==
    /\ emitted = -1
    /\ list' = project
    /\ emitted' = 0
    /\ jsonFresh' = FALSE /\ runFresh' = FALSE
    /\ UNCHANGED <<project, files, json, runVars>>

HasProof(f) == f \in Supported

Emit ==
    /\ emitted \in 0..(Len(list) - 1)
    /\ LET f == list[emitted + 1]
           p == Path(f, emitted + 1)
       IN files' = IF HasProof(f)
                   THEN [q \in DOMAIN files \cup {p} |-> IF q = p THEN f ELSE files[q]]
                   ELSE files
    /\ emitted' = emitted + 1
    /\ UNCHANGED <<project, list, json, runVars, jsonFresh, runFresh>>

Kept == {i \in 1..Len(list) : list[i] \notin Suppressed}

\* numbered as they are printed
MutRowNumberedLate(order, k) ==
    LET f == list[order[k]]
    IN [f |-> f, path |-> IF HasProof(f) THEN Path(f, k) ELSE NoPath]
Row(order, k) ==
    LET f == list[order[k]]
    IN [f |-> f, path |-> IF HasProof(f) THEN Path(f, order[k]) ELSE NoPath]

\* sortFindingsStable puts the rows in an order of its own.
Orders == {q \in [1..Cardinality(Kept) -> Kept] : \A i, j \in DOMAIN q : q[i] = q[j] => i = j}

\* Suppressions, then the output: saved as JSON, or printed as a text.
ScanEnd ==
    /\ emitted = Len(list)
    /\ emitted' = -1 /\ list' = << >>
    /\ \/ /\ \E order \in Orders : json' = [k \in DOMAIN order |-> Row(order, k)]
          /\ jsonFresh' = TRUE
       \/ UNCHANGED <<json, jsonFresh>>
    /\ UNCHANGED <<project, files, runVars, runFresh>>

\* The process is ended, or a write fails: files are left, nothing is printed.
ScanFail ==
    /\ emitted >= 0
    /\ emitted' = -1 /\ list' = << >>
    /\ UNCHANGED <<project, files, json, runVars, jsonFresh, runFresh>>

-----------------------------------------------------------------------------
(* vibescan prove --run *)

\* Math.max(1, Math.min(20, retries)); a loop up to NaN makes no attempt.
Clamp(n) == IF n > MaxRetries THEN MaxRetries ELSE IF n < 1 THEN 1 ELSE n
Attempts(arg) == IF arg = NaN THEN 0 ELSE Clamp(arg)

RunBegin ==
    /\ stage = "idle" /\ json # << >>
    /\ rows' = json /\ runFresh' = jsonFresh
    /\ \E arg \in RetryArgs : retries' = Attempts(arg)
    /\ stage' = "row"
    /\ attempts' = << >> /\ entries' = << >> /\ tally' = NoTally
    /\ UNCHANGED <<project, scanVars, files, json, jsonFresh>>

Here == rows[Len(entries) + 1]
Running == stage \in {"row", "file"} /\ Len(entries) < Len(rows)

Count(s) == [c \in Counters |-> tally[c] + IF c \in s THEN 1 ELSE 0]

\* No path on the finding, or no file there.
SkipRow ==
    /\ Running /\ stage = "row"
    /\ Here.path \notin DOMAIN files
    /\ entries' = Append(entries, [executed |-> FALSE, result |-> "inconclusive",
                                   stability |-> "error", perRun |-> << >>, fresh |-> runFresh])
    /\ tally' = Count({"inconclusive"})
    /\ UNCHANGED <<project, scanVars, files, json, rows, retries, stage, attempts,
                   jsonFresh, runFresh>>

OpenRow ==
    /\ Running /\ stage = "row"
    /\ Here.path \in DOMAIN files
    /\ stage' = "file" /\ attempts' = << >>
    /\ UNCHANGED <<project, scanVars, files, json, rows, retries, entries, tally,
                   jsonFresh, runFresh>>

\* How node --test ends: "null" when it could not be spawned.
Exits == {"zero", "failed", "no tests", "null"}
ResultFromExit(x) ==
    CASE x = "zero" -> "pass" [] x = "failed" -> "fail" [] OTHER -> "inconclusive"

\* What is in the file when it is run, if it is still there.
Body(p) == IF p \in DOMAIN files THEN files[p] ELSE NoFinding

Attempt ==
    /\ Running /\ stage = "file" /\ Len(attempts) < retries
    /\ \E x \in Exits :
        /\ x = "zero" => Here.path \in DOMAIN files
        /\ attempts' = Append(attempts, [exit |-> x, of |-> Body(Here.path)])
    /\ UNCHANGED <<project, scanVars, files, json, rows, retries, stage, entries, tally,
                   jsonFresh, runFresh>>

\* What the log keeps of an attempt.
PerRun == [i \in DOMAIN attempts |->
              [result |-> ResultFromExit(attempts[i].exit), of |-> attempts[i].of]]

\* aggregateRetries
Outcomes == {PerRun[i].result : i \in DOMAIN attempts}
\* attempts without a result overlooked
MutMixed == {"pass", "fail"} \subseteq Outcomes
Mixed ==
    \/ {"pass", "fail"} \subseteq Outcomes
    \/ Outcomes \cap {"pass", "fail"} # {} /\ "inconclusive" \in Outcomes
SpawnFailed == \E i \in DOMAIN attempts : attempts[i].exit = "null"
Verdict ==
    CASE Outcomes \subseteq {"pass"} -> [result |-> "pass", stability |-> "stable"]
      [] Outcomes = {"fail"} -> [result |-> "fail", stability |-> "stable"]
      [] Mixed -> [result |-> "inconclusive", stability |-> "flaky"]
      [] OTHER -> [result |-> "inconclusive",
                   stability |-> IF SpawnFailed THEN "error" ELSE "stable"]

\* `else` left out: an inconclusive verdict is counted beside pass and fail
MutConclude ==
    /\ Running /\ stage = "file" /\ Len(attempts) >= retries
    /\ entries' = Append(entries, [executed |-> TRUE, result |-> Verdict.result,
                                   stability |-> Verdict.stability, perRun |-> PerRun,
                                   fresh |-> runFresh])
    /\ tally' = Count({"executed", Verdict.result, "inconclusive"}
                        \cup IF Verdict.stability = "flaky" THEN {"flaky"} ELSE {})
    /\ stage' = "row" /\ attempts' = << >>
    /\ UNCHANGED <<project, scanVars, files, json, rows, retries, jsonFresh, runFresh>>


\* not before the attempts agree
MutConcludeStable ==
    /\ Running /\ stage = "file" /\ Len(attempts) >= retries /\ Verdict.stability # "flaky"
    /\ entries' = Append(entries, [executed |-> TRUE, result |-> Verdict.result,
                                   stability |-> Verdict.stability, perRun |-> PerRun,
                                   fresh |-> runFresh])
    /\ tally' = Count({"executed", Verdict.result})
    /\ stage' = "row" /\ attempts' = << >>
    /\ UNCHANGED <<project, scanVars, files, json, rows, retries, jsonFresh, runFresh>>

Conclude ==
    /\ Running /\ stage = "file" /\ Len(attempts) >= retries
    /\ entries' = Append(entries, [executed |-> TRUE, result |-> Verdict.result,
                                   stability |-> Verdict.stability, perRun |-> PerRun,
                                   fresh |-> runFresh])
    /\ tally' = Count({"executed", Verdict.result}
                        \cup IF Verdict.stability = "flaky" THEN {"flaky"} ELSE {})
    /\ stage' = "row" /\ attempts' = << >>
    /\ UNCHANGED <<project, scanVars, files, json, rows, retries, jsonFresh, runFresh>>

RunEnd ==
    /\ stage = "row" /\ Len(entries) = Len(rows)
    /\ stage' = "logged"
    /\ UNCHANGED <<project, scanVars, files, json, rows, retries, attempts, entries, tally,
                   jsonFresh, runFresh>>

\* Ended by the user, or the log is there for who wants it: nothing is kept.
RunOver ==
    /\ stage # "idle"
    /\ stage' = "idle"
    /\ rows' = << >> /\ retries' = 0 /\ attempts' = << >>
    /\ entries' = << >> /\ tally' = NoTally /\ runFresh' = FALSE
    /\ UNCHANGED <<project, scanVars, files, json, jsonFresh>>

User == Edit \/ RemoveTests \/ ScanBegin \/ ScanFail \/ RunBegin \/ RunOver
Scan == Emit \/ ScanEnd
Run == SkipRow \/ OpenRow \/ Conclude \/ RunEnd

Next == User \/ Scan \/ Run \/ Attempt

Spec == Init /\ [][Next]_vars

\* The harness runs; whether a test ends is up to the test, for spawnSync is
\* given no timeout.
FairSpec == Spec /\ WF_vars(Run)

-----------------------------------------------------------------------------
(* vibescan reproduce *)

\* The first row with a finding's id is looked up; nothing is run where it
\* has no file.
FirstRow(k) == k \in DOMAIN json /\ \A j \in 1..(k - 1) : json[j].f # json[k].f
Reproduced(k) == Body(json[k].path)

-----------------------------------------------------------------------------
Row_ == [f : Findings, path : Paths \cup {NoPath}]
Results == {"pass", "fail", "inconclusive"}
Bodies == Findings \cup {NoFinding}
AttemptRec == [exit : Exits, of : Bodies]
Entry == [executed : BOOLEAN, result : Results,
          stability : {"stable", "flaky", "error"},
          perRun : Seq([result : Results, of : Bodies]), fresh : BOOLEAN]

TypeOK ==
    /\ project \in Projects
    /\ list \in Seq(Findings) /\ emitted \in -1..Len(list)
    /\ DOMAIN files \subseteq Paths /\ \A p \in DOMAIN files : files[p] \in Findings
    /\ json \in Seq(Row_) /\ rows \in Seq(Row_)
    /\ retries \in 0..MaxRetries
    /\ stage \in {"idle", "row", "file", "logged"}
    /\ attempts \in Seq(AttemptRec) /\ Len(attempts) <= retries
    /\ entries \in Seq(Entry) /\ Len(entries) <= Len(rows)
    /\ tally \in [Counters -> Nat]
    /\ jsonFresh \in BOOLEAN /\ runFresh \in BOOLEAN

(***************************************************************************)
(* A finding is judged by its own proof (pipeline.ts:48, :69): as long as  *)
(* no later scan has begun to write tests, what the harness ran for a row  *)
(* of the JSON, and what reproduce would run, is the test made for that    *)
(* finding, whatever was suppressed and however the rows were sorted.      *)
(***************************************************************************)
OwnProof ==
    /\ jsonFresh => \A k \in DOMAIN json : FirstRow(k) => Reproduced(k) \in {json[k].f, NoFinding}
    /\ \A i \in DOMAIN entries : entries[i].fresh =>
          \A a \in DOMAIN entries[i].perRun :
              /\ entries[i].perRun[a].of \in {rows[i].f, NoFinding}
              /\ entries[i].result = "pass" => entries[i].perRun[a].of = rows[i].f

(***************************************************************************)
(* The verdict on a finding follows from its attempts: "pass" and "fail"   *)
(* are unanimous, of one attempt at least whatever number is asked for     *)
(* (only what is no number gets past the limits of runner.ts:222), and     *)
(* entries are flaky exactly when two attempts differ.                     *)
(***************************************************************************)
Agree(e, r) == \A a \in DOMAIN e.perRun : e.perRun[a].result = r
VerdictIsUnanimous ==
    \A i \in DOMAIN entries :
        LET e == entries[i]
        IN /\ e.result \in {"pass", "fail"} => /\ e.executed /\ Agree(e, e.result)
                                               /\ NaN \in RetryArgs \/ DOMAIN e.perRun # {}
           /\ e.stability = "flaky" <=>
                \E a, b \in DOMAIN e.perRun :
                    e.perRun[a].result # e.perRun[b].result

(***************************************************************************)
(* The summary of the log counts its entries: each is one of pass, fail    *)
(* and inconclusive, and the exit code, 1 when any failed, goes by it.     *)
(***************************************************************************)
CountedAs(e) ==
    {e.result} \cup (IF e.executed THEN {"executed"} ELSE {})
               \cup (IF e.stability = "flaky" THEN {"flaky"} ELSE {})
TallyCountsEntries ==
    /\ \A c \in Counters :
          tally[c] = Cardinality({i \in DOMAIN entries : c \in CountedAs(entries[i])})
    /\ tally["pass"] + tally["fail"] + tally["inconclusive"] = Len(entries)

(***************************************************************************)
(* The harness gets to its log unless the user stops it or a test never   *)
(* ends.                                                                   *)
(***************************************************************************)
Testing == stage = "file" /\ Len(attempts) < retries
HarnessEnds == ~<>[]Testing => (stage = "row" ~> stage \in {"logged", "idle"})

=============================================================================
