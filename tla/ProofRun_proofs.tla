--------------------------- MODULE ProofRun_proofs ---------------------------
(***************************************************************************)
(* Proofs about ProofRun: a finding is judged by its own proof, a verdict  *)
(* by all attempts, and the summary counts the entries, for any findings,  *)
(* any sources and any number of attempts.                                 *)
(***************************************************************************)
EXTENDS ProofRun, FiniteSetTheorems, TLAPS

-----------------------------------------------------------------------------
(***************************************************************************)
(* Types                                                                   *)
(***************************************************************************)
LEMMA NoPathIsNone == NoPath \notin Paths
  <1>1. DOMAIN NoPath = {"none"}
    BY DEF NoPath
  <1>2. \A p \in Paths : DOMAIN p = {"rule", "index"}
    BY DEF Paths
  <1>. QED BY <1>1, <1>2

LEMMA PathIsPath ==
  ASSUME NEW f \in Findings, NEW i \in Nat \ {0}
  PROVE  Path(f, i) \in Paths
  BY FindingsAssumption DEF Path, Paths

LEMMA RowIsRow ==
  ASSUME TypeOK, NEW order \in Orders, NEW k \in DOMAIN order
  PROVE  /\ order[k] \in 1..Len(list) /\ list[order[k]] \in Findings
         /\ Row(order, k) \in Row_
  <1>1. order[k] \in 1..Len(list)
    BY DEF Orders, Kept
  <1>2. list[order[k]] \in Findings
    BY <1>1 DEF TypeOK
  <1>3. Path(list[order[k]], order[k]) \in Paths
    BY <1>1, <1>2, PathIsPath
  <1>. QED BY <1>1, <1>2, <1>3 DEF Row, Row_

LEMMA JsonIsSeq ==
  ASSUME TypeOK, NEW order \in Orders
  PROVE  /\ DOMAIN order = 1..Cardinality(Kept)
         /\ Cardinality(Kept) \in Nat
         /\ [k \in DOMAIN order |-> Row(order, k)] \in Seq(Row_)
  <1>1. IsFiniteSet(1..Len(list))
    BY FS_Interval DEF TypeOK
  <1>2. Cardinality(Kept) \in Nat
    BY <1>1, FS_Subset, FS_CardinalityType DEF Kept
  <1>3. DOMAIN order = 1..Cardinality(Kept)
    BY DEF Orders
  <1>4. \A k \in 1..Cardinality(Kept) : Row(order, k) \in Row_
    BY <1>3, RowIsRow
  <1>. QED BY <1>2, <1>3, <1>4

LEMMA BodyType ==
  ASSUME TypeOK, NEW p
  PROVE  Body(p) \in Bodies
  BY DEF TypeOK, Body, Bodies

LEMMA PerRunType ==
  ASSUME TypeOK
  PROVE  /\ PerRun \in Seq([result : Results, of : Bodies])
         /\ DOMAIN PerRun = DOMAIN attempts
         /\ \A a \in DOMAIN attempts :
               /\ PerRun[a] = [result |-> ResultFromExit(attempts[a].exit), of |-> attempts[a].of]
               /\ attempts[a] \in AttemptRec
         /\ Outcomes \subseteq Results
  <1>1. \A a \in 1..Len(attempts) : attempts[a] \in AttemptRec
    BY DEF TypeOK
  <1>2. \A x \in Exits : ResultFromExit(x) \in Results
    BY DEF ResultFromExit, Results
  <1>3. \A a \in 1..Len(attempts) : [result |-> ResultFromExit(attempts[a].exit), of |-> attempts[a].of]
                                      \in [result : Results, of : Bodies]
    BY <1>1, <1>2 DEF AttemptRec
  <1>4. DOMAIN attempts = 1..Len(attempts) /\ Len(attempts) \in Nat
    BY DEF TypeOK
  <1>5. PerRun \in Seq([result : Results, of : Bodies])
    BY <1>3, <1>4 DEF PerRun
  <1>. QED BY <1>1, <1>2, <1>3, <1>4, <1>5 DEF PerRun, Outcomes, AttemptRec

LEMMA VerdictType ==
  /\ Verdict.result \in Results
  /\ Verdict.stability \in {"stable", "flaky", "error"}
  BY DEF Verdict, Results

LEMMA CountType ==
  ASSUME TypeOK, NEW s
  PROVE  Count(s) \in [Counters -> Nat]
  BY DEF TypeOK, Count

LEMMA Empty ==
  /\ Len(<< >>) = 0 /\ \A S : << >> \in Seq(S)
  /\ NoTally \in [Counters -> Nat]
  BY DEF NoTally

LEMMA TypeInit == Init => TypeOK
  <1>. SUFFICES ASSUME Init PROVE TypeOK
    OBVIOUS
  <1>1. retries \in 0..MaxRetries /\ emitted \in -1..Len(list)
    BY Empty, RetriesAssumption DEF Init
  <1>2. list \in Seq(Findings) /\ json \in Seq(Row_) /\ rows \in Seq(Row_)
    BY Empty DEF Init
  <1>3. attempts \in Seq(AttemptRec) /\ Len(attempts) <= retries
    BY Empty DEF Init
  <1>4. entries \in Seq(Entry) /\ Len(entries) <= Len(rows)
    BY Empty DEF Init
  <1>5. DOMAIN files \subseteq Paths /\ \A p \in DOMAIN files : files[p] \in Findings
    BY DEF Init
  <1>. QED BY <1>1, <1>2, <1>3, <1>4, <1>5, Empty DEF Init, TypeOK

LEMMA TypeStep == TypeOK /\ [Next]_vars => TypeOK'
  <1>. SUFFICES ASSUME TypeOK, [Next]_vars PROVE TypeOK'
    OBVIOUS
  <1>1. CASE Edit
    BY <1>1 DEF Edit, TypeOK, scanVars, runVars
  <1>2. CASE RemoveTests
    BY <1>2 DEF RemoveTests, TypeOK, scanVars, runVars
  <1>3. CASE ScanBegin
    <2>1. list' \in Seq(Findings)
      BY <1>3, FindingsAssumption DEF ScanBegin, TypeOK
    <2>2. emitted' \in -1..Len(list')
      BY <1>3, <2>1 DEF ScanBegin
    <2>. QED BY <1>3, <2>1, <2>2 DEF ScanBegin, TypeOK, runVars
  <1>4. CASE ScanFail
    BY <1>4 DEF ScanFail, TypeOK, runVars
  <1>5. CASE RunBegin
    <2>1. \A arg \in RetryArgs : Attempts(arg) \in 0..MaxRetries
      BY RetriesAssumption DEF Attempts, Clamp
    <2>. QED BY <1>5, <2>1 DEF RunBegin, TypeOK, scanVars, NoTally
  <1>6. CASE RunOver
    <2>1. retries' \in 0..MaxRetries /\ rows' \in Seq(Row_)
      BY <1>6, Empty, RetriesAssumption DEF RunOver
    <2>2. attempts' \in Seq(AttemptRec) /\ Len(attempts') <= retries'
      BY <1>6, Empty DEF RunOver
    <2>3. entries' \in Seq(Entry) /\ Len(entries') <= Len(rows')
      BY <1>6, Empty DEF RunOver
    <2>. QED BY <1>6, <2>1, <2>2, <2>3, Empty DEF RunOver, TypeOK, scanVars
  <1>7. CASE Emit
    <2>. DEFINE f == list[emitted + 1]
                p == Path(f, emitted + 1)
    <2>1. f \in Findings /\ emitted + 1 \in Nat \ {0} /\ emitted + 1 \in -1..Len(list)
      BY <1>7 DEF Emit, TypeOK
    <2>2. p \in Paths
      BY <2>1, PathIsPath
    <2>. HIDE DEF f, p
    <2>3. files' = IF HasProof(f) THEN [q \in DOMAIN files \cup {p} |-> IF q = p THEN f ELSE files[q]]
                                  ELSE files
      BY <1>7 DEF Emit, f, p
    <2>4. DOMAIN files' \subseteq Paths /\ \A q \in DOMAIN files' : files'[q] \in Findings
      BY <2>1, <2>2, <2>3 DEF TypeOK
    <2>. QED BY <1>7, <2>1, <2>4 DEF Emit, TypeOK, runVars
  <1>8. CASE ScanEnd
    <2>1. json' \in Seq(Row_) /\ jsonFresh' \in BOOLEAN
      <3>1. CASE \E order \in Orders : json' = [k \in DOMAIN order |-> Row(order, k)] /\ jsonFresh' = TRUE
        BY <3>1, JsonIsSeq
      <3>2. CASE UNCHANGED <<json, jsonFresh>>
        BY <3>2 DEF TypeOK
      <3>. QED BY <1>8, <3>1, <3>2 DEF ScanEnd
    <2>. QED BY <1>8, <2>1 DEF ScanEnd, TypeOK, runVars
  <1>9. CASE SkipRow
    <2>. DEFINE e == [executed |-> FALSE, result |-> "inconclusive",
                      stability |-> "error", perRun |-> << >>, fresh |-> runFresh]
    <2>1. e \in Entry
      BY DEF Entry, Results, TypeOK
    <2>2. entries' = Append(entries, e)
      BY <1>9 DEF SkipRow
    <2>. HIDE DEF e
    <2>3. entries' \in Seq(Entry) /\ Len(entries') <= Len(rows)
      BY <1>9, <2>1, <2>2 DEF TypeOK, SkipRow, Running
    <2>4. tally' \in [Counters -> Nat]
      BY <1>9, CountType DEF SkipRow
    <2>. QED BY <1>9, <2>3, <2>4 DEF SkipRow, TypeOK, scanVars
  <1>10. CASE OpenRow
    BY <1>10 DEF OpenRow, TypeOK, scanVars
  <1>11. CASE Conclude
    <2>. DEFINE e == [executed |-> TRUE, result |-> Verdict.result,
                      stability |-> Verdict.stability, perRun |-> PerRun, fresh |-> runFresh]
    <2>1. e \in Entry
      BY VerdictType, PerRunType DEF Entry, TypeOK
    <2>2. entries' = Append(entries, e)
      BY <1>11 DEF Conclude
    <2>. HIDE DEF e
    <2>3. entries' \in Seq(Entry) /\ Len(entries') <= Len(rows)
      BY <1>11, <2>1, <2>2 DEF TypeOK, Conclude, Running
    <2>4. tally' \in [Counters -> Nat]
      BY <1>11, CountType DEF Conclude
    <2>5. attempts' \in Seq(AttemptRec) /\ Len(attempts') <= retries'
      BY <1>11, Empty DEF Conclude, TypeOK
    <2>. QED BY <1>11, <2>3, <2>4, <2>5 DEF Conclude, TypeOK, scanVars
  <1>12. CASE RunEnd
    BY <1>12 DEF RunEnd, TypeOK, scanVars
  <1>13. CASE Attempt
    <2>1. PICK x \in Exits : attempts' = Append(attempts, [exit |-> x, of |-> Body(Here.path)])
      BY <1>13 DEF Attempt
    <2>2. [exit |-> x, of |-> Body(Here.path)] \in AttemptRec
      BY BodyType DEF AttemptRec
    <2>3. attempts' \in Seq(AttemptRec) /\ Len(attempts') <= retries
      BY <1>13, <2>1, <2>2 DEF Attempt, TypeOK
    <2>. QED BY <1>13, <2>3 DEF Attempt, TypeOK, scanVars
  <1>14. CASE UNCHANGED vars
    BY <1>14 DEF vars, TypeOK
  <1>. QED BY <1>1, <1>2, <1>3, <1>4, <1>5, <1>6, <1>7, <1>8, <1>9, <1>10, <1>11, <1>12, <1>13, <1>14
           DEF Next, User, Scan, Run

-----------------------------------------------------------------------------
(***************************************************************************)
(* A test file is named by the position of its finding in the list of the  *)
(* scan that wrote it, and so is it in the row of the JSON.  As long as no *)
(* scan has begun since, a row's file is that of its finding, or gone; and *)
(* while a scan runs, the files of what it has been through are its own.   *)
(***************************************************************************)
Holds(row) == row.path \in DOMAIN files => files[row.path] = row.f

FilesFresh ==
    /\ emitted >= 0 => ~jsonFresh /\ ~runFresh
    /\ \A i \in 1..emitted :
          /\ HasProof(list[i])
          /\ Path(list[i], i) \in DOMAIN files
          => files[Path(list[i], i)] = list[i]
    /\ jsonFresh => \A k \in DOMAIN json : Holds(json[k])
    /\ runFresh => \A k \in DOMAIN rows : Holds(rows[k])

\* What the scan running now has written is what its rows will name.
LEMMA OwnRow ==
  ASSUME TypeOK, FilesFresh, emitted = Len(list), NEW order \in Orders, NEW k \in DOMAIN order
  PROVE  Holds(Row(order, k))
  <1>. DEFINE f == list[order[k]]
  <1>1. order[k] \in 1..emitted /\ f \in Findings
    BY RowIsRow
  <1>2. CASE HasProof(f)
    <2>1. Row(order, k) = [f |-> f, path |-> Path(f, order[k])]
      BY <1>2 DEF Row
    <2>2. Path(f, order[k]) \in DOMAIN files => files[Path(f, order[k])] = f
      BY <1>1, <1>2 DEF FilesFresh
    <2>. QED BY <2>1, <2>2 DEF Holds
  <1>3. CASE ~HasProof(f)
    <2>1. Row(order, k) = [f |-> f, path |-> NoPath]
      BY <1>3 DEF Row
    <2>. QED BY <2>1, NoPathIsNone DEF Holds, TypeOK
  <1>. QED BY <1>2, <1>3

LEMMA FreshStep ==
  ASSUME TypeOK, TypeOK', FilesFresh, [Next]_vars
  PROVE  FilesFresh'
  <1>1. CASE Edit
    BY <1>1 DEF Edit, FilesFresh, Holds, scanVars, runVars
  <1>2. CASE RemoveTests
    BY <1>2 DEF RemoveTests, FilesFresh, Holds, scanVars, runVars
  <1>3. CASE ScanBegin
    <2>1. 1..emitted' = {}
      BY <1>3 DEF ScanBegin
    <2>. QED BY <1>3, <2>1 DEF ScanBegin, FilesFresh
  <1>4. CASE ScanFail
    <2>1. 1..emitted' = {} /\ ~jsonFresh /\ ~runFresh
      BY <1>4 DEF ScanFail, FilesFresh
    <2>. QED BY <1>4, <2>1 DEF ScanFail, FilesFresh, runVars
  <1>5. CASE RunBegin
    BY <1>5 DEF RunBegin, FilesFresh, Holds, scanVars
  <1>6. CASE RunOver
    BY <1>6 DEF RunOver, FilesFresh, Holds, scanVars
  <1>7. CASE Emit
    <2>. DEFINE f == list[emitted + 1]
                p == Path(f, emitted + 1)
    <2>1. files' = IF HasProof(f) THEN [q \in DOMAIN files \cup {p} |-> IF q = p THEN f ELSE files[q]]
                                  ELSE files
      BY <1>7 DEF Emit
    <2>2. emitted \in Nat /\ emitted' = emitted + 1 /\ list' = list /\ ~jsonFresh' /\ ~runFresh'
      BY <1>7 DEF Emit, FilesFresh, TypeOK, runVars
    <2>3. ASSUME NEW i \in 1..emitted, HasProof(list[i]), Path(list[i], i) \in DOMAIN files'
          PROVE files'[Path(list[i], i)] = list[i]
      <3>1. Path(list[i], i).index = i /\ p.index = emitted + 1
        BY DEF Path
      <3>2. Path(list[i], i) # p
        BY <2>2, <3>1
      <3>. HIDE DEF p, f
      <3>3. Path(list[i], i) \in DOMAIN files /\ files'[Path(list[i], i)] = files[Path(list[i], i)]
        BY <2>1, <2>3, <3>2
      <3>. QED BY <2>3, <3>3 DEF FilesFresh
    <2>4. ASSUME HasProof(f)
          PROVE files'[p] = f
      <3>. HIDE DEF p, f
      <3>. QED BY <2>1, <2>4
    <2>. HIDE DEF p
    <2>5. \A i \in 1..emitted' : i \in 1..emitted \/ (i = emitted + 1 /\ list[i] = f)
      BY <2>2
    <2>6. \A i \in 1..emitted' :
             HasProof(list'[i]) /\ Path(list'[i], i) \in DOMAIN files' => files'[Path(list'[i], i)] = list'[i]
      BY <2>2, <2>3, <2>4, <2>5 DEF p
    <2>. QED BY <2>2, <2>6 DEF FilesFresh, HasProof, Path
  <1>8. CASE ScanEnd
    <2>1. 1..emitted' = {} /\ ~(emitted' >= 0) /\ emitted = Len(list) /\ ~runFresh' /\ files' = files
      BY <1>8 DEF ScanEnd, FilesFresh, TypeOK, runVars
    <2>2. ~jsonFresh
      BY <2>1 DEF FilesFresh, TypeOK
    <2>3. jsonFresh' => \A k \in DOMAIN json' : json'[k].path \in DOMAIN files => files[json'[k].path] = json'[k].f
      <3>1. CASE \E order \in Orders : json' = [k \in DOMAIN order |-> Row(order, k)]
        <4>1. PICK order \in Orders : json' = [k \in DOMAIN order |-> Row(order, k)]
          BY <3>1
        <4>2. \A k \in DOMAIN order : Holds(Row(order, k))
          BY <2>1, OwnRow
        <4>. QED BY <4>1, <4>2 DEF Holds
      <3>2. CASE UNCHANGED <<json, jsonFresh>>
        BY <2>2, <3>2
      <3>. QED BY <1>8, <3>1, <3>2 DEF ScanEnd
    <2>. QED BY <2>1, <2>3 DEF FilesFresh, Holds
  <1>9. CASE Run \/ Attempt
    BY <1>9 DEF Run, SkipRow, OpenRow, Conclude, RunEnd, Attempt, FilesFresh, Holds, scanVars
  <1>10. CASE UNCHANGED vars
    BY <1>10 DEF vars, FilesFresh, Holds
  <1>. QED BY <1>1, <1>2, <1>3, <1>4, <1>5, <1>6, <1>7, <1>8, <1>9, <1>10 DEF Next, User, Scan

-----------------------------------------------------------------------------
(***************************************************************************)
(* What was run for the row the harness is at, and for those before it.    *)
(***************************************************************************)
OwnAttempts ==
    runFresh /\ stage = "file" =>
        \A a \in DOMAIN attempts :
            /\ attempts[a].of \in {Here.f, NoFinding}
            /\ attempts[a].exit = "zero" => attempts[a].of = Here.f
OwnEntry(e, row) ==
    e.fresh => \A a \in DOMAIN e.perRun :
                  /\ e.perRun[a].of \in {row.f, NoFinding}
                  /\ e.result = "pass" => e.perRun[a].of = row.f
Judged == OwnAttempts /\ \A i \in DOMAIN entries : OwnEntry(entries[i], rows[i])

LEMMA VerdictOfAll ==
  ASSUME TypeOK
  PROVE  /\ Verdict.result = "pass" => \A a \in DOMAIN attempts : attempts[a].exit = "zero"
         /\ Verdict.result \in {"pass", "fail"} => \A a \in DOMAIN PerRun : PerRun[a].result = Verdict.result
         /\ Verdict.stability = "flaky" <=> \E a, b \in DOMAIN PerRun : PerRun[a].result # PerRun[b].result
  <1>1. /\ Outcomes = {PerRun[i].result : i \in DOMAIN PerRun} /\ Outcomes \subseteq Results
        /\ \A i \in DOMAIN attempts : PerRun[i].result = ResultFromExit(attempts[i].exit)
        /\ DOMAIN PerRun = DOMAIN attempts
        /\ \A i \in DOMAIN attempts : attempts[i].exit \in Exits
    BY PerRunType DEF Outcomes, AttemptRec
  <1>2. Verdict.result \in {"pass", "fail"} => Outcomes \subseteq {Verdict.result}
    BY DEF Verdict
  <1>3. Verdict.stability = "flaky" <=> \E x, y \in Outcomes : x # y
    <2>1. CASE Outcomes \subseteq {"pass"} \/ Outcomes = {"fail"}
      <3>1. ~Mixed
        BY <2>1 DEF Mixed
      <3>2. Verdict.stability = "stable"
        BY <2>1, <3>1 DEF Verdict
      <3>3. \A x, y \in Outcomes : x = y
        BY <2>1
      <3>. QED BY <3>2, <3>3
    <2>2. CASE ~(Outcomes \subseteq {"pass"}) /\ Outcomes # {"fail"} /\ Mixed
      BY <2>2 DEF Verdict, Mixed
    <2>3. CASE ~(Outcomes \subseteq {"pass"}) /\ Outcomes # {"fail"} /\ ~Mixed
      <3>1. Outcomes \subseteq {"inconclusive"}
        BY <1>1, <2>3 DEF Mixed, Results
      <3>2. Verdict.stability # "flaky"
        BY <2>3 DEF Verdict
      <3>3. \A x, y \in Outcomes : x = y
        BY ONLY <3>1
      <3>. QED BY ONLY <3>2, <3>3
    <2>. QED BY <2>1, <2>2, <2>3
  <1>4. Verdict.result = "pass" => \A a \in DOMAIN attempts : attempts[a].exit = "zero"
    <2>1. \A x \in Exits : ResultFromExit(x) = "pass" => x = "zero"
      BY DEF Exits, ResultFromExit
    <2>. QED BY <1>1, <1>2, <2>1
  <1>5. Verdict.result \in {"pass", "fail"} => \A a \in DOMAIN PerRun : PerRun[a].result = Verdict.result
    BY ONLY <1>1, <1>2
  <1>6. Verdict.stability = "flaky" <=> \E a, b \in DOMAIN PerRun : PerRun[a].result # PerRun[b].result
    BY ONLY <1>1, <1>3
  <1>. QED BY ONLY <1>4, <1>5, <1>6

LEMMA JudgedStep ==
  ASSUME TypeOK, TypeOK', FilesFresh, Judged, [Next]_vars
  PROVE  Judged'
  <1>1. CASE Edit \/ RemoveTests \/ ScanFail
    BY <1>1 DEF Edit, RemoveTests, ScanFail, Judged, OwnAttempts, OwnEntry, Here, scanVars, runVars
  <1>2. CASE ScanBegin
    BY <1>2 DEF ScanBegin, Judged, OwnAttempts, OwnEntry, runVars
  <1>3. CASE RunBegin \/ RunOver
    <2>1. entries' = << >> /\ attempts' = << >>
      BY <1>3 DEF RunBegin, RunOver
    <2>2. DOMAIN entries' = {} /\ DOMAIN attempts' = {}
      BY <2>1
    <2>. QED BY <2>2 DEF Judged, OwnAttempts
  <1>4. CASE Scan
    BY <1>4 DEF Scan, Emit, ScanEnd, Judged, OwnAttempts, OwnEntry, Here, runVars
  <1>5. CASE SkipRow
    <2>. DEFINE e == [executed |-> FALSE, result |-> "inconclusive",
                      stability |-> "error", perRun |-> << >>, fresh |-> runFresh]
    <2>1. entries' = Append(entries, e) /\ rows' = rows /\ stage' = "row"
      BY <1>5 DEF SkipRow
    <2>2. \A row : OwnEntry(e, row)
      BY DEF OwnEntry
    <2>. HIDE DEF e
    <2>3. \A i \in DOMAIN entries' : OwnEntry(entries'[i], rows'[i])
      BY <2>1, <2>2 DEF Judged, TypeOK
    <2>. QED BY <2>1, <2>3 DEF Judged, OwnAttempts, OwnEntry
  <1>6. CASE OpenRow
    <2>1. DOMAIN attempts' = {}
      BY <1>6 DEF OpenRow
    <2>. QED BY <1>6, <2>1 DEF OpenRow, Judged, OwnAttempts, OwnEntry
  <1>7. CASE RunEnd
    BY <1>7 DEF RunEnd, Judged, OwnAttempts, OwnEntry
  <1>8. CASE Attempt
    <2>1. PICK x \in Exits : /\ x = "zero" => Here.path \in DOMAIN files
                             /\ attempts' = Append(attempts, [exit |-> x, of |-> Body(Here.path)])
      BY <1>8 DEF Attempt
    <2>2. Here' = Here /\ UNCHANGED <<runFresh, stage, entries, rows>>
      BY <1>8 DEF Attempt, Here
    <2>3. Len(entries) + 1 \in DOMAIN rows
      BY <1>8 DEF Attempt, Running, TypeOK
    <2>4. runFresh => Body(Here.path) \in {Here.f, NoFinding} /\ (x = "zero" => Body(Here.path) = Here.f)
      BY <2>1, <2>3 DEF FilesFresh, Holds, Here, Body
    <2>5. \A a \in DOMAIN attempts' :
             \/ a \in DOMAIN attempts /\ attempts'[a] = attempts[a]
             \/ attempts'[a] = [exit |-> x, of |-> Body(Here.path)]
      <3>. DEFINE r == [exit |-> x, of |-> Body(Here.path)]
      <3>1. attempts \in Seq(AttemptRec) /\ attempts' = Append(attempts, r)
        BY <2>1 DEF TypeOK
      <3>2. r \in AttemptRec
        BY BodyType, <2>3 DEF AttemptRec, TypeOK, Here
      <3>. HIDE DEF r
      <3>3. /\ attempts' \in Seq(AttemptRec) /\ Len(attempts') = Len(attempts) + 1
            /\ \A a \in 1..Len(attempts) : attempts'[a] = attempts[a]
            /\ attempts'[Len(attempts) + 1] = r
        BY ONLY <3>1, <3>2
      <3>4. DOMAIN attempts' = 1..(Len(attempts) + 1) /\ DOMAIN attempts = 1..Len(attempts)
            /\ Len(attempts) \in Nat
        BY <3>1, <3>3
      <3>5. \A a \in DOMAIN attempts' : \/ a \in DOMAIN attempts /\ attempts'[a] = attempts[a]
                                        \/ attempts'[a] = r
        BY <3>3, <3>4
      <3>. QED BY <3>5 DEF r
    <2>6. OwnAttempts'
      BY <2>2, <2>4, <2>5 DEF Judged, OwnAttempts
    <2>. QED BY <2>2, <2>6 DEF Judged, OwnEntry
  <1>9. CASE Conclude
    <2>. DEFINE e == [executed |-> TRUE, result |-> Verdict.result,
                      stability |-> Verdict.stability, perRun |-> PerRun, fresh |-> runFresh]
    <2>1. entries' = Append(entries, e) /\ rows' = rows /\ stage' = "row" /\ stage = "file"
      BY <1>9 DEF Conclude
    <2>2. OwnEntry(e, Here)
      <3>. SUFFICES ASSUME runFresh, NEW a \in DOMAIN PerRun
                    PROVE  /\ PerRun[a].of \in {Here.f, NoFinding}
                           /\ Verdict.result = "pass" => PerRun[a].of = Here.f
        BY DEF OwnEntry
      <3>1. a \in DOMAIN attempts /\ PerRun[a].of = attempts[a].of
        BY PerRunType
      <3>2. /\ attempts[a].of \in {Here.f, NoFinding}
            /\ attempts[a].exit = "zero" => attempts[a].of = Here.f
        BY <2>1, <3>1 DEF Judged, OwnAttempts
      <3>3. Verdict.result = "pass" => attempts[a].exit = "zero"
        BY <3>1, VerdictOfAll
      <3>. QED BY <3>1, <3>2, <3>3
    <2>. HIDE DEF e
    <2>3. \A i \in DOMAIN entries' : OwnEntry(entries'[i], rows'[i])
      <3>1. /\ entries \in Seq(Entry) /\ Here = rows[Len(entries) + 1]
        BY DEF TypeOK, Here
      <3>2. \A i \in DOMAIN entries' : \/ i \in DOMAIN entries /\ entries'[i] = entries[i]
                                       \/ i = Len(entries) + 1 /\ entries'[i] = e
        BY <2>1, <3>1
      <3>3. \A i \in DOMAIN entries : OwnEntry(entries[i], rows[i])
        BY DEF Judged
      <3>. QED BY ONLY <2>1, <2>2, <3>1, <3>2, <3>3
    <2>. QED BY <2>1, <2>3 DEF Judged, OwnAttempts, OwnEntry
  <1>10. CASE UNCHANGED vars
    BY <1>10 DEF vars, Judged, OwnAttempts, OwnEntry, Here
  <1>. QED BY <1>1, <1>2, <1>3, <1>4, <1>5, <1>6, <1>7, <1>8, <1>9, <1>10 DEF Next, User, Run

-----------------------------------------------------------------------------
(***************************************************************************)
(* Verdicts and the summary: both are settled when an entry is made.       *)
(***************************************************************************)
IsUnanimous(e) ==
    /\ e.result \in {"pass", "fail"} => /\ e.executed /\ Agree(e, e.result)
                                        /\ NaN \in RetryArgs \/ DOMAIN e.perRun # {}
    /\ e.stability = "flaky" <=>
         \E a, b \in DOMAIN e.perRun : e.perRun[a].result # e.perRun[b].result

Counted(es, t) ==
    /\ \A c \in Counters : t[c] = Cardinality({i \in DOMAIN es : c \in CountedAs(es[i])})
    /\ t["pass"] + t["fail"] + t["inconclusive"] = Len(es)

LEMMA CountOne ==
  ASSUME TypeOK, Counted(entries, tally), NEW e \in Entry
  PROVE  Counted(Append(entries, e), Count(CountedAs(e)))
  <1>. DEFINE n == Len(entries)
              es == Append(entries, e)
              Of(s, c) == {i \in DOMAIN s : c \in CountedAs(s[i])}
  <1>1. n \in Nat /\ DOMAIN entries = 1..n /\ DOMAIN es = 1..(n + 1) /\ Len(es) = n + 1
        /\ es[n + 1] = e /\ \A i \in 1..n : es[i] = entries[i]
    BY DEF TypeOK
  <1>. HIDE DEF n, es
  <1>2. ASSUME NEW c \in Counters
        PROVE Count(CountedAs(e))[c] = Cardinality(Of(es, c))
    <2>1. IsFiniteSet(Of(entries, c)) /\ n + 1 \notin Of(entries, c)
      <3>1. IsFiniteSet(1..n)
        BY <1>1, FS_Interval
      <3>2. Of(entries, c) \subseteq 1..n
        BY <1>1
      <3>3. IsFiniteSet(Of(entries, c))
        BY <3>1, <3>2, FS_Subset
      <3>. QED BY <1>1, <3>2, <3>3
    <2>2. Cardinality(Of(entries, c)) = tally[c] /\ tally[c] \in Nat
      BY DEF Counted, TypeOK
    <2>3. CASE c \in CountedAs(e)
      <3>1. Of(es, c) = Of(entries, c) \cup {n + 1}
        BY <1>1, <2>3
      <3>2. Cardinality(Of(es, c)) = tally[c] + 1
        BY <2>1, <2>2, <3>1, FS_AddElement
      <3>. QED BY <2>2, <2>3, <3>2 DEF Count
    <2>4. CASE c \notin CountedAs(e)
      <3>1. Of(es, c) = Of(entries, c)
        BY <1>1, <2>4
      <3>. QED BY <2>2, <2>4, <3>1 DEF Count
    <2>. QED BY <2>3, <2>4
  <1>3. LET t == Count(CountedAs(e)) IN t["pass"] + t["fail"] + t["inconclusive"] = n + 1
    <2>1. /\ tally["pass"] \in Nat /\ tally["fail"] \in Nat /\ tally["inconclusive"] \in Nat
          /\ tally["pass"] + tally["fail"] + tally["inconclusive"] = n
      BY DEF TypeOK, Counted, Counters, n
    <2>2. \A r \in Results : r \in CountedAs(e) <=> r = e.result
      BY DEF CountedAs, Results
    <2>3. e.result \in Results
      BY DEF Entry
    <2>4. \A r \in Results : Count(CountedAs(e))[r] = tally[r] + IF r = e.result THEN 1 ELSE 0
      BY <2>2 DEF Count, Counters, Results
    <2>. QED BY <1>1, <2>1, <2>3, <2>4 DEF Results
  <1>. QED BY <1>1, <1>2, <1>3 DEF Counted, es

LEMMA EmptySummary == Counted(<< >>, NoTally)
  <1>1. DOMAIN << >> = {} /\ Len(<< >>) = 0
    OBVIOUS
  <1>2. \A c \in Counters : {i \in DOMAIN << >> : c \in CountedAs(<< >>[i])} = {} /\ NoTally[c] = 0
    BY <1>1 DEF NoTally
  <1>3. NoTally["pass"] = 0 /\ NoTally["fail"] = 0 /\ NoTally["inconclusive"] = 0
    BY DEF NoTally, Counters
  <1>. QED BY <1>1, <1>2, <1>3, FS_EmptySet DEF Counted

LEMMA EntryStep ==
  ASSUME TypeOK, NEW e \in Entry, IsUnanimous(e), entries' = Append(entries, e), tally' = Count(CountedAs(e)),
         VerdictIsUnanimous, TallyCountsEntries
  PROVE  VerdictIsUnanimous' /\ TallyCountsEntries'
  <1>1. \A i \in DOMAIN entries' : (i \in DOMAIN entries /\ entries'[i] = entries[i]) \/ entries'[i] = e
    BY DEF TypeOK
  <1>2. \A i \in DOMAIN entries : IsUnanimous(entries[i])
    BY DEF VerdictIsUnanimous, IsUnanimous
  <1>3. \A i \in DOMAIN entries' : IsUnanimous(entries'[i])
    BY <1>1, <1>2
  <1>4. Counted(entries, tally)
    BY DEF Counted, TallyCountsEntries
  <1>5. Counted(entries', tally')
    BY <1>4, CountOne
  <1>. QED BY <1>3, <1>5 DEF Counted, TallyCountsEntries, VerdictIsUnanimous, IsUnanimous

\* The harness makes an attempt at least.
Attempted == stage # "idle" => NaN \in RetryArgs \/ retries >= 1

LEMMA AttemptedStep ==
  ASSUME TypeOK, Attempted, [Next]_vars
  PROVE  Attempted'
  <1>1. CASE RunBegin
    <2>1. \A arg \in RetryArgs : NaN \in RetryArgs \/ Attempts(arg) >= 1
      BY RetriesAssumption DEF Attempts, Clamp
    <2>. QED BY <1>1, <2>1 DEF RunBegin, Attempted
  <1>2. CASE RunOver
    BY <1>2 DEF RunOver, Attempted
  <1>3. CASE retries' = retries /\ (stage' = stage \/ stage # "idle")
    BY <1>3 DEF Attempted
  <1>. QED BY <1>1, <1>2, <1>3
           DEF Next, User, Scan, Run, vars, Edit, RemoveTests, ScanBegin, ScanFail, Emit, ScanEnd,
               SkipRow, OpenRow, Conclude, RunEnd, Attempt, Running, runVars

LEMMA SummaryStep ==
  ASSUME TypeOK, TypeOK', Attempted, VerdictIsUnanimous, TallyCountsEntries, [Next]_vars
  PROVE  VerdictIsUnanimous' /\ TallyCountsEntries'
  <1>1. CASE RunBegin \/ RunOver
    <2>1. entries' = << >> /\ tally' = NoTally
      BY <1>1 DEF RunBegin, RunOver
    <2>2. DOMAIN entries' = {} /\ Counted(entries', tally')
      BY <2>1, EmptySummary
    <2>. QED BY <2>2 DEF VerdictIsUnanimous, TallyCountsEntries, Counted
  <1>2. CASE SkipRow
    <2>. DEFINE e == [executed |-> FALSE, result |-> "inconclusive",
                      stability |-> "error", perRun |-> << >>, fresh |-> runFresh]
    <2>1. e \in Entry
      BY Empty DEF Entry, Results, TypeOK
    <2>2. IsUnanimous(e)
      BY DEF IsUnanimous
    <2>3. CountedAs(e) = {"inconclusive"}
      BY DEF CountedAs
    <2>4. entries' = Append(entries, e) /\ tally' = Count(CountedAs(e))
      BY <1>2, <2>3 DEF SkipRow
    <2>. QED BY <2>1, <2>2, <2>4, EntryStep
  <1>3. CASE Conclude
    <2>. DEFINE e == [executed |-> TRUE, result |-> Verdict.result,
                      stability |-> Verdict.stability, perRun |-> PerRun, fresh |-> runFresh]
    <2>1. e \in Entry
      BY VerdictType, PerRunType DEF Entry, TypeOK
    <2>2. IsUnanimous(e)
      <3>1. NaN \in RetryArgs \/ DOMAIN attempts # {}
        <4>1. NaN \in RetryArgs \/ retries >= 1
          BY <1>3 DEF Attempted, Conclude
        <4>2. Len(attempts) >= retries /\ DOMAIN attempts = 1..Len(attempts) /\ Len(attempts) \in Nat
              /\ retries \in Nat
          BY <1>3 DEF Conclude, TypeOK
        <4>. QED BY <4>1, <4>2
      <3>. QED BY <3>1, VerdictOfAll, PerRunType DEF IsUnanimous, Agree
    <2>3. CountedAs(e) = {"executed", Verdict.result} \cup IF Verdict.stability = "flaky" THEN {"flaky"} ELSE {}
      BY DEF CountedAs
    <2>4. entries' = Append(entries, e) /\ tally' = Count(CountedAs(e))
      BY <1>3, <2>3 DEF Conclude
    <2>. QED BY <2>1, <2>2, <2>4, EntryStep
  <1>4. CASE UNCHANGED <<entries, tally>>
    BY <1>4 DEF VerdictIsUnanimous, TallyCountsEntries
  <1>. QED BY <1>1, <1>2, <1>3, <1>4
           DEF Next, User, Scan, Run, vars, Edit, RemoveTests, ScanBegin, ScanFail, Emit, ScanEnd,
               OpenRow, RunEnd, Attempt, runVars

-----------------------------------------------------------------------------
ProofInv == TypeOK /\ FilesFresh /\ Judged /\ Attempted /\ VerdictIsUnanimous /\ TallyCountsEntries

LEMMA InvInit == Init => ProofInv
  <1>. SUFFICES ASSUME Init PROVE ProofInv
    OBVIOUS
  <1>1. TypeOK
    BY TypeInit
  <1>2. FilesFresh
    <2>1. 1..emitted = {} /\ DOMAIN json = {} /\ DOMAIN rows = {}
      BY DEF Init
    <2>. QED BY <2>1 DEF Init, FilesFresh
  <1>3. Judged
    <2>1. DOMAIN entries = {} /\ DOMAIN attempts = {}
      BY DEF Init
    <2>. QED BY <2>1 DEF Judged, OwnAttempts
  <1>4. VerdictIsUnanimous /\ TallyCountsEntries
    <2>1. DOMAIN entries = {} /\ Counted(entries, tally)
      BY EmptySummary DEF Init
    <2>. QED BY <2>1 DEF VerdictIsUnanimous, TallyCountsEntries, Counted
  <1>5. Attempted
    BY DEF Init, Attempted
  <1>. QED BY <1>1, <1>2, <1>3, <1>4, <1>5 DEF ProofInv

LEMMA InvOwn == ProofInv => OwnProof
  <1>. SUFFICES ASSUME ProofInv PROVE OwnProof
    OBVIOUS
  <1>1. ASSUME jsonFresh, NEW k \in DOMAIN json
        PROVE Reproduced(k) \in {json[k].f, NoFinding}
    BY <1>1 DEF ProofInv, FilesFresh, Holds, Reproduced, Body
  <1>2. \A i \in DOMAIN entries : OwnEntry(entries[i], rows[i])
    BY DEF ProofInv, Judged
  <1>. QED BY <1>1, <1>2 DEF OwnProof, OwnEntry

\* What is proved of the harness is one inductive invariant: the types, which
\* finding each test file is the proof of, and what was run for each row.
THEOREM Invariance == Spec => []ProofInv
  <1>1. ProofInv /\ [Next]_vars => ProofInv'
    BY TypeStep, FreshStep, JudgedStep, AttemptedStep, SummaryStep DEF ProofInv
  <1>. QED BY InvInit, <1>1, PTL DEF Spec

\* Every variable keeps its type.
THEOREM TypeCorrect == Spec => []TypeOK
  BY Invariance, PTL DEF ProofInv

\* No finding is judged by the test of another (pipeline.ts, runner.ts).
THEOREM JudgedByOwn == Spec => []OwnProof
  BY Invariance, InvOwn, PTL

\* Verdicts are those of all attempts (runner.ts, aggregateRetries).
THEOREM Unanimous == Spec => []VerdictIsUnanimous
  BY Invariance, PTL DEF ProofInv

\* The summary counts the entries (runner.ts).
THEOREM TallyCounts == Spec => []TallyCountsEntries
  BY Invariance, PTL DEF ProofInv
=============================================================================
