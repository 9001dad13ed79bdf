--------------------------- MODULE ScanRun_proofs ---------------------------
(***************************************************************************)
(* Proofs about ScanRun: for any scans, repositories and numbers of        *)
(* findings, the type invariant, that the demo's hack never gets into an   *)
(* original, that a simulated hack is blocked unless a cap left it out,    *)
(* that a leaderboard row is the highest published count, and that what    *)
(* was served stays served, whatever order scans end in and whatever       *)
(* restarts come between.                                                  *)
(***************************************************************************)
EXTENDS ScanRun, TLAPS

Steps == {"idle", "prepare", "read", "scan", "hack", "publish", "persist", "ended", "gone"}

(***************************************************************************)
(* The strengthening: what each step of a job has done so far.  A hack is  *)
(* in the entries only of a simulated scan, and a result is there exactly  *)
(* from the scan to the end.                                               *)
(***************************************************************************)
Untouched(s) ==
    step[s] = "idle" => /\ \A v \in Views : out[s][v] = NoScan
                        /\ \A p \in Paths : disk[s][p] = NoFile
                        /\ ~entries[s]
StateOfStep(s) ==
    /\ state[s] = "none" <=> step[s] \in {"idle", "gone"}
    /\ state[s] = "done" => step[s] = "ended"
    /\ step[s] = "hack" => scenario[s] = "compare"
OnlySimulated(s) ==
    scenario[s] # "simulated_hacked" => ~entries[s] /\ (step[s] = "read" => ~patched[s])
Simulated(s) ==
    scenario[s] = "simulated_hacked" =>
        /\ step[s] = "read" => patched[s]
        /\ step[s] \in {"scan", "publish", "persist"} /\ fits[s] => entries[s]
        /\ step[s] \in {"publish", "persist"} /\ fits[s] => out[s]["single"].blocking > 0
ResultOfStep(s) ==
    /\ step[s] \in {"prepare", "read", "scan", "hack"} => out[s][ShownView(s)] = NoScan
    /\ step[s] \in {"publish", "persist"} => out[s][ShownView(s)] # NoScan

Phase(s) ==
    Untouched(s) /\ StateOfStep(s) /\ OnlySimulated(s) /\ Simulated(s) /\ ResultOfStep(s)
Phases == \A s \in Scans : Phase(s)

(***************************************************************************)
(* What is on the disk: nothing before a job persists its reports, then    *)
(* reports that are torn or its results, and all of them once it is done.  *)
(***************************************************************************)
\* the reports of a scan: those a finished job answers with
Reported(sc, v, f) ==
    /\ IF sc = "compare" THEN v \in {"original", "hacked"} ELSE v = "single"
    /\ f = "report.html" => HasHtml

FilesOfScan(s) ==
    /\ step[s] \in Steps \ {"persist", "ended", "gone"} => \A p \in Paths : disk[s][p] = NoFile
    /\ \A v \in Views, f \in Served : disk[s][<<v, f>>] \in {NoFile, Torn, out[s][v]}
    /\ state[s] = "done" =>
          \A v \in Views, f \in Served : Reported(scenario[s], v, f) => disk[s][<<v, f>>] = out[s][v]
FilesKept == \A s \in Scans : FilesOfScan(s)

ScanInv ==
    TypeOK /\ Phases /\ FilesKept /\ OriginalIsUntouched /\ HackIsBlocked /\ BoardIsHighest

-----------------------------------------------------------------------------
LEMMA ScanOfType ==
  ASSUME NEW r \in Repos, NEW h \in BOOLEAN
  PROVE  /\ ScanOf(r, h) \in ScanResults /\ ScanOf(r, h) # NoScan
         /\ ScanOf(r, h).total \in Nat /\ (h => ScanOf(r, h).blocking > 0)
  <1>1. Findings[r] \in Nat /\ Blocking[r] \in Nat
    BY FindingsAssumption
  <1>2. /\ ScanOf(r, h).total = Findings[r] + (IF h THEN 1 ELSE 0)
        /\ ScanOf(r, h).blocking = Blocking[r] + (IF h THEN 1 ELSE 0)
    BY DEF ScanOf
  <1>3. NoScan.total = -1
    BY DEF NoScan
  <1>. QED BY <1>1, <1>2, <1>3 DEF ScanResults

LEMMA ResultType ==
  ASSUME NEW x \in ScanResults, x # NoScan
  PROVE  x.total \in Nat
  <1>1. PICK r \in Repos, h \in BOOLEAN : x = ScanOf(r, h)
    BY DEF ScanResults
  <1>. QED BY <1>1, ScanOfType

LEMMA TypeInit == Init => TypeOK
  BY DEF Init, TypeOK, Scenarios, ScanResults, NoFile

LEMMA TypeStep ==
  ASSUME TypeOK, [Next]_vars
  PROVE  TypeOK'
  <1>. USE DEF TypeOK, Scenarios
  <1>1. CASE Restart
    BY <1>1 DEF Restart
  <1>2. ASSUME NEW s \in Scans, Register(s)
        PROVE TypeOK'
    BY <1>2 DEF Register
  <1>3. ASSUME NEW s \in Scans, Prepare(s)
        PROVE TypeOK'
    <2>1. (scenario[s] = "simulated_hacked") \in BOOLEAN
      OBVIOUS
    <2>2. patched' \in [Scans -> BOOLEAN]
      BY <1>3, <2>1, Zenon DEF Prepare
    <2>. QED BY <1>3, <2>2 DEF Prepare
  <1>r. ASSUME NEW s \in Scans, ReadSources(s)
        PROVE TypeOK'
    <2>1. PICK f \in BOOLEAN : /\ fits' = [fits EXCEPT ![s] = f]
                               /\ entries' = [entries EXCEPT ![s] = patched[s] /\ f]
      BY <1>r DEF ReadSources
    <2>2. (patched[s] /\ f) \in BOOLEAN
      OBVIOUS
    <2>3. entries' \in [Scans -> BOOLEAN] /\ fits' \in [Scans -> BOOLEAN]
      BY <2>1, <2>2
    <2>. QED BY <1>r, <2>3 DEF ReadSources
  <1>4. ASSUME NEW s \in Scans, NEW v \in Views, ScanAll(s, v)
        PROVE out' \in [Scans -> [Views -> ScanResults]]
    <2>1. ScanOf(RepoOf[s], entries[s]) \in ScanResults
      BY ScanOfType, RepoOfAssumption
    <2>. QED BY <1>4, <2>1 DEF ScanAll
  <1>5. ASSUME NEW s \in Scans, ScanSingle(s) \/ ScanOriginal(s) \/ ScanHacked(s)
        PROVE TypeOK'
    <2>1. \E v \in Views : ScanAll(s, v)
      BY <1>5 DEF ScanSingle, ScanOriginal, ScanHacked, Views
    <2>2. out' \in [Scans -> [Views -> ScanResults]]
      BY <1>4, <2>1
    <2>. QED BY <1>5, <2>2 DEF ScanSingle, ScanOriginal, ScanHacked
  <1>6. ASSUME NEW s \in Scans, Publish(s)
        PROVE TypeOK'
    <2>. DEFINE n == out[s][ShownView(s)].total
    <2>1. out[s][ShownView(s)] \in ScanResults
      BY DEF ShownView, Views
    <2>2. n \in Nat \cup {Unranked}
      BY <2>1, ResultType DEF NoScan, Unranked
    <2>3. board' = [board EXCEPT ![RepoOf[s]] = IF board[RepoOf[s]] > n THEN board[RepoOf[s]] ELSE n]
      BY <1>6 DEF Publish
    <2>. HIDE DEF n
    <2>4. board' \in [Repos -> Nat \cup {Unranked}]
      BY <2>2, <2>3
    <2>. QED BY <1>6, <2>4 DEF Publish
  <1>7. ASSUME NEW s \in Scans, Write(s)
        PROVE TypeOK'
    <2>0. PICK p : disk' = [disk EXCEPT ![s][p] = IF disk[s][p] = NoFile THEN Torn ELSE out[s][p[1]]]
      BY <1>7 DEF Write
    <2>. DEFINE e == IF disk[s][p] = NoFile THEN Torn ELSE out[s][p[1]]
                d == [disk[s] EXCEPT ![p] = e]
    <2>1. p \in Paths => e \in ScanResults \cup {Torn}
      BY DEF Paths
    <2>2. disk' = [disk EXCEPT ![s] = d]
      BY <2>0
    <2>. HIDE DEF e
    <2>3. d \in [Paths -> ScanResults \cup {Torn}]
      BY <2>1
    <2>. HIDE DEF d
    <2>4. disk' \in [Scans -> [Paths -> ScanResults \cup {Torn}]]
      BY <2>2, <2>3
    <2>. QED BY <1>7, <2>4 DEF Write
  <1>8. ASSUME NEW s \in Scans, Done(s) \/ Fail(s)
        PROVE TypeOK'
    <2>1. /\ state' \in [Scans -> {"none", "running", "done", "error"}]
          /\ step' \in [Scans -> Steps]
      BY <1>8 DEF Done, Fail, Steps
    <2>. QED BY <1>8, <2>1 DEF Done, Fail, Steps
  <1>9. CASE UNCHANGED vars
    BY <1>9 DEF vars
  <1>. QED BY <1>1, <1>2, <1>3, <1>r, <1>5, <1>6, <1>7, <1>8, <1>9 DEF Next, Job

-----------------------------------------------------------------------------
(***************************************************************************)
(* A step of one scan leaves the others as they are.                       *)
(***************************************************************************)
Same(t) ==
    /\ scenario'[t] = scenario[t] /\ step'[t] = step[t] /\ state'[t] = state[t]
    /\ patched'[t] = patched[t] /\ fits'[t] = fits[t] /\ entries'[t] = entries[t]
    /\ out'[t] = out[t] /\ disk'[t] = disk[t]

LEMMA OthersSame ==
  ASSUME TypeOK, NEW s \in Scans, NEW t \in Scans, t # s, Register(s) \/ Job(s)
  PROVE  Same(t)
  <1>. USE DEF TypeOK, Same
  <1>1. CASE Register(s)
    BY <1>1 DEF Register
  <1>2. CASE Prepare(s)
    BY <1>2 DEF Prepare
  <1>3. CASE ReadSources(s)
    BY <1>3 DEF ReadSources
  <1>4. CASE ScanSingle(s) \/ ScanOriginal(s) \/ ScanHacked(s)
    BY <1>4 DEF ScanSingle, ScanOriginal, ScanHacked, ScanAll
  <1>5. CASE Publish(s)
    BY <1>5 DEF Publish
  <1>6. CASE Write(s)
    BY <1>6 DEF Write
  <1>7. CASE Done(s)
    BY <1>7 DEF Done
  <1>8. CASE Fail(s)
    BY <1>8 DEF Fail
  <1>. QED BY <1>1, <1>2, <1>3, <1>4, <1>5, <1>6, <1>7, <1>8 DEF Job

LEMMA PhaseFrame ==
  ASSUME NEW t \in Scans, Phase(t), Same(t)
  PROVE  Phase(t)'
  <1>. USE DEF Phase, Same
  <1>1. Untouched(t)' /\ StateOfStep(t)'
    BY DEF Untouched, StateOfStep
  <1>2. OnlySimulated(t)' /\ Simulated(t)'
    BY DEF OnlySimulated, Simulated
  <1>3. ResultOfStep(t)'
    BY DEF ResultOfStep, ShownView
  <1>. QED BY <1>1, <1>2, <1>3

LEMMA PhaseInit == Init => Phases
  BY DEF Init, Phases, Phase, Untouched, StateOfStep, OnlySimulated, Simulated, ResultOfStep

LEMMA PhaseOfScan ==
  ASSUME TypeOK, TypeOK', NEW s \in Scans, Phase(s), Register(s) \/ Job(s)
  PROVE  Phase(s)'
  <1>. USE DEF TypeOK, Phase, Untouched, StateOfStep, OnlySimulated, Simulated, ResultOfStep, ShownView
  <1>1. CASE Register(s)
    BY <1>1 DEF Register, Views
  <1>2. CASE Prepare(s)
    BY <1>2 DEF Prepare
  <1>3. CASE ReadSources(s)
    BY <1>3 DEF ReadSources
  <1>4. ASSUME NEW v \in Views, ScanAll(s, v)
        PROVE /\ out'[s][v] = ScanOf(RepoOf[s], entries[s])
              /\ \A w \in Views \ {v} : out'[s][w] = out[s][w]
              /\ out'[s][v] # NoScan /\ (entries[s] => out'[s][v].blocking > 0)
    <2>1. /\ out'[s][v] = ScanOf(RepoOf[s], entries[s])
          /\ \A w \in Views \ {v} : out'[s][w] = out[s][w]
      BY <1>4 DEF ScanAll
    <2>2. RepoOf[s] \in Repos /\ entries[s] \in BOOLEAN
      BY RepoOfAssumption
    <2>3. ScanOf(RepoOf[s], entries[s]) # NoScan /\ (entries[s] => ScanOf(RepoOf[s], entries[s]).blocking > 0)
      BY <2>2, ScanOfType
    <2>. QED BY <2>1, <2>3
  <1>5. CASE ScanSingle(s)
    BY <1>5, <1>4 DEF ScanSingle, Views
  <1>6. CASE ScanOriginal(s)
    BY <1>6, <1>4 DEF ScanOriginal, Views
  <1>7. CASE ScanHacked(s)
    BY <1>7, <1>4 DEF ScanHacked, Views
  <1>8. CASE Publish(s)
    BY <1>8 DEF Publish
  <1>9. CASE Write(s)
    BY <1>9 DEF Write
  <1>10. CASE Done(s)
    BY <1>10 DEF Done
  <1>11. CASE Fail(s)
    BY <1>11 DEF Fail
  <1>. QED BY <1>1, <1>2, <1>3, <1>5, <1>6, <1>7, <1>8, <1>9, <1>10, <1>11 DEF Job

LEMMA PhaseStep ==
  ASSUME TypeOK, TypeOK', Phases, [Next]_vars
  PROVE  Phases'
  <1>. USE DEF Phases
  <1>1. ASSUME NEW s \in Scans, Register(s) \/ Job(s), NEW t \in Scans
        PROVE Phase(t)'
    <2>1. CASE t = s
      BY <1>1, <2>1, PhaseOfScan
    <2>2. CASE t # s
      BY <1>1, <2>2, OthersSame, PhaseFrame
    <2>. QED BY <2>1, <2>2
  <1>2. ASSUME Restart, NEW t \in Scans
        PROVE Phase(t)'
    BY <1>2 DEF Restart, Lost, Phase, Untouched, StateOfStep, OnlySimulated, Simulated, ResultOfStep
  <1>3. ASSUME UNCHANGED vars, NEW t \in Scans
        PROVE Phase(t)'
    BY <1>3, PhaseFrame DEF vars, Same
  <1>. QED BY <1>1, <1>2, <1>3 DEF Next

-----------------------------------------------------------------------------
(***************************************************************************)
(* Originals stay untouched: the entries of a scan that is not simulated   *)
(* never have the hack, even in the second half of a comparison.           *)
(***************************************************************************)
OwnView(s) == IF scenario[s] = "compare" THEN "original" ELSE "single"
UntouchedOf(s) ==
    scenario[s] # "simulated_hacked" =>
        /\ out[s][OwnView(s)] \in {NoScan, ScanOf(RepoOf[s], FALSE)}
        /\ \A f \in Served : disk[s][<<OwnView(s), f>>] \in {NoFile, Torn, ScanOf(RepoOf[s], FALSE)}

LEMMA UntouchedSplit == OriginalIsUntouched <=> \A s \in Scans : UntouchedOf(s)
  BY DEF OriginalIsUntouched, UntouchedOf, OwnView

LEMMA UntouchedOfScan ==
  ASSUME TypeOK, NEW s \in Scans, Phase(s), UntouchedOf(s), Register(s) \/ Job(s)
  PROVE  UntouchedOf(s)'
  <1>. USE DEF TypeOK, UntouchedOf, OwnView
  <1>0. \A v \in Views, f \in Served : <<v, f>> \in Paths
    BY DEF Paths
  <1>1. CASE Register(s)
    <2>1. /\ out'[s] = out[s] /\ disk'[s] = disk[s] /\ step[s] = "idle"
          /\ \A v \in Views : out[s][v] = NoScan
          /\ \A p \in Paths : disk[s][p] = NoFile
      BY <1>1 DEF Register, Phase, Untouched
    <2>2. OwnView(s)' \in Views
      BY DEF Views
    <2>. QED BY <1>0, <2>1, <2>2
  <1>2. CASE Prepare(s) \/ ReadSources(s)
    BY <1>2 DEF Prepare, ReadSources
  <1>3. ASSUME NEW v \in Views, ScanAll(s, v), UNCHANGED <<scenario, disk>>
        PROVE UntouchedOf(s)'
    <2>1. \A w \in Views : out'[s][w] = IF w = v THEN ScanOf(RepoOf[s], entries[s]) ELSE out[s][w]
      BY <1>3 DEF ScanAll
    <2>2. scenario[s] # "simulated_hacked" => entries[s] = FALSE
      BY DEF Phase, OnlySimulated
    <2>3. OwnView(s) \in Views
      BY DEF Views
    <2>. QED BY <1>3, <2>1, <2>2, <2>3
  <1>4. CASE ScanSingle(s) \/ ScanOriginal(s) \/ ScanHacked(s)
    BY <1>3, <1>4 DEF ScanSingle, ScanOriginal, ScanHacked, Views
  <1>5. CASE Publish(s)
    BY <1>5 DEF Publish
  <1>6. CASE Write(s)
    <2>1. PICK p :
          /\ disk' = [disk EXCEPT ![s][p] = IF disk[s][p] = NoFile THEN Torn ELSE out[s][p[1]]]
          /\ UNCHANGED <<scenario, out>>
      BY <1>6 DEF Write
    <2>2. \A q \in Paths : \/ disk'[s][q] = disk[s][q]
                           \/ disk'[s][q] \in {Torn, out[s][q[1]]}
      BY <2>1
    <2>3. \A v \in Views, f \in Served : <<v, f>>[1] = v
      OBVIOUS
    <2>4. OwnView(s) \in Views
      BY DEF Views
    <2>. QED BY <1>0, <2>1, <2>2, <2>3, <2>4 DEF NoFile
  <1>7. CASE Done(s) \/ Fail(s)
    BY <1>7 DEF Done, Fail
  <1>. QED BY <1>1, <1>2, <1>4, <1>5, <1>6, <1>7 DEF Job

LEMMA UntouchedStep ==
  ASSUME TypeOK, Phases, OriginalIsUntouched, [Next]_vars
  PROVE  OriginalIsUntouched'
  <1>1. ASSUME NEW s \in Scans, Register(s) \/ Job(s), NEW t \in Scans
        PROVE UntouchedOf(t)'
    <2>1. CASE t = s
      BY <1>1, <2>1, UntouchedOfScan, UntouchedSplit DEF Phases
    <2>2. CASE t # s
      <3>1. Same(t)
        BY <1>1, <2>2, OthersSame
      <3>. QED BY <3>1, UntouchedSplit DEF UntouchedOf, OwnView, Same
    <2>. QED BY <2>1, <2>2
  <1>2. CASE Restart \/ UNCHANGED vars
    BY <1>2 DEF Restart, vars, OriginalIsUntouched
  <1>. QED BY <1>1, <1>2, UntouchedSplit DEF Next, OriginalIsUntouched, UntouchedOf, OwnView

-----------------------------------------------------------------------------
LEMMA BlockedStep ==
  ASSUME TypeOK, Phases, HackIsBlocked, [Next]_vars
  PROVE  HackIsBlocked'
  <1>. USE DEF HackIsBlocked, TypeOK
  <1>1. ASSUME NEW s \in Scans, Register(s) \/ Job(s), ~Done(s)
        PROVE HackIsBlocked'
    <2>1. state'[s] # "done" \/ Same(s) \/ UNCHANGED <<scenario, state, out, fits>>
      BY <1>1 DEF Job, Register, Prepare, ReadSources, ScanSingle, ScanOriginal, ScanHacked,
                  Publish, Write, Fail, Phases, Phase, StateOfStep
    <2>2. \A t \in Scans \ {s} : Same(t)
      BY <1>1, OthersSame
    <2>. QED BY <2>1, <2>2 DEF Same
  <1>2. ASSUME NEW s \in Scans, Done(s)
        PROVE HackIsBlocked'
    <2>1. step[s] = "persist" /\ Phase(s) /\ UNCHANGED <<scenario, out, fits>>
      BY <1>2 DEF Done, Phases
    <2>2. \A t \in Scans \ {s} : Same(t)
      BY <1>2, OthersSame DEF Job
    <2>. QED BY <2>1, <2>2 DEF Phase, Simulated, Same
  <1>3. CASE Restart
    BY <1>3 DEF Restart
  <1>4. CASE UNCHANGED vars
    BY <1>4 DEF vars
  <1>. QED BY <1>1, <1>2, <1>3, <1>4 DEF Next

-----------------------------------------------------------------------------
(***************************************************************************)
(* A row is the maximum of what was published.  Only Publish adds to that, *)
(* and it raises the row to what it adds; only a restart takes anything    *)
(* away, and then everything.                                              *)
(***************************************************************************)
Shown(s) == out[s][ShownView(s)]
IsPublished(s) == state[s] # "none" /\ Shown(s) # NoScan /\ step[s] # "publish"
Counts(r) == {Shown(s).total : s \in Published(r)}
Top(C, x) == IF C = {} THEN x = Unranked ELSE x \in C /\ \A k \in C : k <= x

LEMMA TopFrame ==
  ASSUME TypeOK, BoardIsHighest, board' = board,
         \A s \in Scans : IsPublished(s)' <=> IsPublished(s),
         \A s \in Scans : IsPublished(s) => Shown(s)' = Shown(s)
  PROVE  BoardIsHighest'
  <1>1. ASSUME NEW r \in Repos
        PROVE Counts(r)' = Counts(r)
    <2>1. Published(r) = {s \in Scans : RepoOf[s] = r /\ IsPublished(s)}
      BY DEF Published, IsPublished, Shown
    <2>2. Published(r)' = {s \in Scans : RepoOf[s] = r /\ IsPublished(s)'}
      BY DEF Published, IsPublished, Shown
    <2>3. Published(r)' = Published(r) /\ \A s \in Published(r) : Shown(s)' = Shown(s)
      BY <2>1, <2>2
    <2>4. Counts(r)' = {Shown(s)'.total : s \in Published(r)'}
      BY DEF Counts
    <2>5. Counts(r) = {Shown(s).total : s \in Published(r)}
      BY DEF Counts
    <2>. QED BY <2>3, <2>4, <2>5
  <1>2. \A r \in Repos : Top(Counts(r), board[r])
    BY DEF BoardIsHighest, Counts, Top, Shown
  <1>3. \A r \in Repos : Top(Counts(r)', board'[r])
    BY <1>1, <1>2
  <1>. QED BY <1>3 DEF BoardIsHighest, Counts, Top, Shown

LEMMA TopOfUnion ==
  ASSUME NEW C, C \subseteq Int, NEW x, Top(C, x), NEW n \in Nat
  PROVE  Top(C \cup {n}, IF x > n THEN x ELSE n)
  <1>1. CASE C = {}
    BY <1>1 DEF Top, Unranked
  <1>2. CASE C # {}
    <2>1. x \in C /\ x \in Int /\ \A k \in C : k \in Int /\ k <= x
      BY <1>2 DEF Top
    <2>2. CASE x > n
      <3>1. \A k \in C \cup {n} : k <= x
        BY <2>1, <2>2
      <3>2. (IF x > n THEN x ELSE n) = x
        BY <2>2
      <3>. QED BY <2>1, <3>1, <3>2 DEF Top
    <2>3. CASE ~(x > n)
      <3>1. \A k \in C \cup {n} : k <= n
        BY <2>1, <2>3
      <3>2. (IF x > n THEN x ELSE n) = n
        BY <2>3
      <3>. QED BY <3>1, <3>2 DEF Top
    <2>. QED BY <2>2, <2>3
  <1>. QED BY <1>1, <1>2

LEMMA BoardStep ==
  ASSUME TypeOK, TypeOK', Phases, Phases', BoardIsHighest, [Next]_vars
  PROVE  BoardIsHighest'
  <1>. USE DEF TypeOK
  <1>1. ASSUME NEW s \in Scans, Register(s) \/ Job(s), ~Publish(s)
        PROVE BoardIsHighest'
    <2>1. board' = board
      BY <1>1 DEF Job, Register, Prepare, ReadSources, ScanSingle, ScanOriginal, ScanHacked, Write, Done, Fail
    <2>2. \A t \in Scans \ {s} : Same(t)
      BY <1>1, OthersSame
    <2>3. \A t \in Scans \ {s} : (IsPublished(t)' <=> IsPublished(t)) /\ Shown(t)' = Shown(t)
      BY <2>2 DEF IsPublished, Shown, ShownView, Same
    <2>4. Phase(s) /\ Phase(s)'
      BY DEF Phases
    <2>5. CASE Register(s) \/ Prepare(s) \/ ReadSources(s) \/ ScanSingle(s) \/ ScanOriginal(s) \/ ScanHacked(s)
      <3>1. step[s] \in {"idle", "prepare", "read", "scan", "hack"}
        BY <2>5 DEF Register, Prepare, ReadSources, ScanSingle, ScanOriginal, ScanHacked
      <3>2. step'[s] \in {"prepare", "read", "scan", "hack", "publish"}
        BY <2>5 DEF Register, Prepare, ReadSources, ScanSingle, ScanOriginal, ScanHacked
      <3>3. ~IsPublished(s) /\ ~IsPublished(s)'
        BY <2>4, <3>1, <3>2 DEF IsPublished, Shown, Phase, StateOfStep, ResultOfStep
      <3>. QED BY <2>1, <2>3, <3>3, TopFrame
    <2>6. CASE Write(s) \/ Done(s) \/ Fail(s)
      <3>1. Shown(s)' = Shown(s)
        BY <2>6 DEF Write, Done, Fail, Shown, ShownView
      <3>2. step[s] # "publish" /\ step'[s] # "publish" /\ state'[s] # "none" /\ state[s] # "none"
        BY <2>4, <2>6 DEF Write, Done, Fail, Phase, StateOfStep
      <3>. QED BY <2>1, <2>3, <3>1, <3>2, TopFrame DEF IsPublished
    <2>. QED BY <1>1, <2>5, <2>6 DEF Job
  <1>2. ASSUME NEW s \in Scans, Publish(s)
        PROVE BoardIsHighest'
    <2>. DEFINE n == Shown(s).total
                q == RepoOf[s]
    <2>1. n \in Nat /\ q \in Repos /\ Shown(s) # NoScan
      <3>1. Shown(s) # NoScan /\ Shown(s) \in ScanResults
        BY <1>2 DEF Publish, Phases, Phase, ResultOfStep, Shown, ShownView, Views
      <3>. QED BY <3>1, ResultType, RepoOfAssumption
    <2>2. board' = [board EXCEPT ![q] = IF board[q] > n THEN board[q] ELSE n]
      BY <1>2 DEF Publish, Shown
    <2>3. \A t \in Scans : Shown(t)' = Shown(t)
      BY <1>2 DEF Publish, Shown, ShownView
    <2>4. \A t \in Scans : IsPublished(t)' <=> (IsPublished(t) \/ t = s)
      <3>1. \A t \in Scans \ {s} : IsPublished(t)' <=> IsPublished(t)
        BY <1>2, <2>3 DEF Publish, IsPublished
      <3>2. IsPublished(s)'
        BY <1>2, <2>1, <2>3 DEF Publish, IsPublished, Phases, Phase, StateOfStep
      <3>. QED BY <3>1, <3>2
    <2>5. ASSUME NEW r \in Repos
          PROVE Counts(r)' = IF r = q THEN Counts(r) \cup {n} ELSE Counts(r)
      <3>1. Published(r) = {t \in Scans : RepoOf[t] = r /\ IsPublished(t)}
        BY DEF Published, IsPublished, Shown
      <3>2. Published(r)' = {t \in Scans : RepoOf[t] = r /\ IsPublished(t)'}
        BY DEF Published, IsPublished, Shown
      <3>3. Published(r)' = IF r = q THEN Published(r) \cup {s} ELSE Published(r)
        BY <2>4, <3>1, <3>2
      <3>4. Published(r) \subseteq Scans
        BY <3>1
      <3>. QED BY <2>3, <3>3, <3>4 DEF Counts
    <2>6. ASSUME NEW r \in Repos
          PROVE Counts(r) \subseteq Int
      <3>1. ASSUME NEW t \in Published(r)
            PROVE Shown(t).total \in Nat
        <4>1. Shown(t) \in ScanResults /\ Shown(t) # NoScan
          BY DEF Published, Shown, ShownView, Views
        <4>. QED BY <4>1, ResultType
      <3>. QED BY <3>1 DEF Counts
    <2>7. \A r \in Repos : Top(Counts(r), board[r])
      BY DEF BoardIsHighest, Counts, Top, Shown
    <2>. HIDE DEF n, q
    <2>8. ASSUME NEW r \in Repos
          PROVE Top(Counts(r)', board'[r])
      <3>1. CASE r = q
        <4>1. board'[r] = IF board[r] > n THEN board[r] ELSE n
          BY <2>1, <2>2, <3>1
        <4>2. Top(Counts(r) \cup {n}, IF board[r] > n THEN board[r] ELSE n)
          BY <2>1, <2>6, <2>7, TopOfUnion
        <4>. QED BY <2>5, <3>1, <4>1, <4>2
      <3>2. CASE r # q
        BY <2>2, <2>5, <2>7, <3>2
      <3>. QED BY <3>1, <3>2
    <2>. QED BY <2>8 DEF BoardIsHighest, Counts, Top, Shown
  <1>3. CASE Restart
    <2>1. \A r \in Repos : Published(r)' = {}
      BY <1>3 DEF Restart, Published
    <2>. QED BY <1>3, <2>1 DEF Restart, BoardIsHighest
  <1>4. CASE UNCHANGED vars
    BY <1>4, TopFrame DEF vars, IsPublished, Shown, ShownView
  <1>. QED BY <1>1, <1>2, <1>3, <1>4 DEF Next

-----------------------------------------------------------------------------
LEMMA ReportsAreWritten ==
  ASSUME NEW sc \in Scenarios, NEW v \in Views, NEW f \in Served, Reported(sc, v, f)
  PROVE  \E i \in DOMAIN Writes(sc) : Writes(sc)[i] = <<v, f>>
  <1>. DEFINE Has(w, q) == \E i \in DOMAIN w : w[i] = q
  <1>0. \A x, y \in Seq(Paths) : \A q : (Has(x, q) \/ Has(y, q)) => Has(x \o y, q)
    <2>. SUFFICES ASSUME NEW x \in Seq(Paths), NEW y \in Seq(Paths), NEW q, Has(x, q) \/ Has(y, q)
                  PROVE  Has(x \o y, q)
      OBVIOUS
    <2>1. ASSUME NEW i \in DOMAIN x, x[i] = q PROVE Has(x \o y, q)
      <3>1. i \in DOMAIN (x \o y) /\ (x \o y)[i] = q
        BY <2>1
      <3>. QED BY <3>1
    <2>2. ASSUME NEW i \in DOMAIN y, y[i] = q PROVE Has(x \o y, q)
      <3>1. Len(x) + i \in DOMAIN (x \o y) /\ (x \o y)[Len(x) + i] = q
        BY <2>2
      <3>. QED BY <3>1
    <2>. QED BY <2>1, <2>2
  <1>1. \A w \in Views : /\ FilesOf(w) \in Seq(Paths)
                         /\ f = "report.html" => HasHtml
                         /\ Has(FilesOf(w), <<w, f>>)
    <2>. SUFFICES ASSUME NEW w \in Views PROVE FilesOf(w) \in Seq(Paths) /\ Has(FilesOf(w), <<w, f>>)
      BY DEF Reported
    <2>. DEFINE rest == << <<w, "prompt.md">>, <<w, "project.json">>, <<w, "report.sarif">>, <<w, "meta.json">> >>
    <2>1. CASE HasHtml
      <3>. DEFINE html == << <<w, "report.html">> >>
      <3>1. FilesOf(w) = html \o rest
        BY <2>1 DEF FilesOf
      <3>2. html \in Seq(Paths) /\ rest \in Seq(Paths)
        BY DEF Paths, Served
      <3>3. Has(html, <<w, f>>) \/ Has(rest, <<w, f>>)
        BY DEF Served
      <3>. HIDE DEF html, rest, Has
      <3>. QED BY <1>0, <3>1, <3>2, <3>3
    <2>2. CASE ~HasHtml
      <3>1. FilesOf(w) = rest
        BY <2>2 DEF FilesOf
      <3>2. f # "report.html"
        BY <2>2 DEF Reported
      <3>. QED BY <3>1, <3>2 DEF Paths, Served
    <2>. QED BY <2>1, <2>2
  <1>2. CASE sc # "compare"
    BY <1>1, <1>2 DEF Writes, Reported, Views
  <1>3. CASE sc = "compare"
    <2>1. Writes(sc) = FilesOf("original") \o FilesOf("hacked")
      BY <1>3 DEF Writes
    <2>2. FilesOf("original") \in Seq(Paths) /\ FilesOf("hacked") \in Seq(Paths)
      BY <1>1 DEF Views
    <2>4. v \in {"original", "hacked"}
      BY <1>3 DEF Reported
    <2>. HIDE DEF Has
    <2>5. Has(FilesOf("original"), <<v, f>>) \/ Has(FilesOf("hacked"), <<v, f>>)
      BY <1>1, <2>4 DEF Views
    <2>6. Has(Writes(sc), <<v, f>>)
      BY <1>0, <2>1, <2>2, <2>5
    <2>. QED BY <2>6 DEF Has
  <1>. QED BY <1>2, <1>3

LEMMA FilesInit == Init => FilesKept
  BY DEF Init, FilesKept, FilesOfScan, Paths

LEMMA FilesStepOfScan ==
  ASSUME TypeOK, NEW s \in Scans, Phase(s), FilesOfScan(s), Register(s) \/ Job(s)
  PROVE  FilesOfScan(s)'
  <1>. USE DEF TypeOK, Steps
  <1>0. \A v \in Views, f \in Served : <<v, f>> \in Paths /\ <<v, f>>[1] = v
    BY DEF Paths
  <1>1. CASE Register(s) \/ Prepare(s) \/ ReadSources(s) \/ Publish(s)
    <2>1. /\ disk' = disk /\ out' = out /\ state'[s] # "done"
          /\ step[s] \notin {"persist", "ended", "gone"}
      BY <1>1 DEF Register, Prepare, ReadSources, Publish, Phase, StateOfStep
    <2>. QED BY <2>1 DEF FilesOfScan
  <1>2. CASE ScanSingle(s) \/ ScanOriginal(s) \/ ScanHacked(s)
    <2>1. disk' = disk /\ state'[s] # "done" /\ step[s] \in {"scan", "hack"}
      BY <1>2 DEF ScanSingle, ScanOriginal, ScanHacked, Phase, StateOfStep
    <2>. QED BY <1>0, <2>1 DEF FilesOfScan
  <1>3. CASE Write(s)
    <2>1. /\ step[s] = "persist" /\ step' = step /\ out' = out /\ state'[s] # "done"
          /\ \E p : disk' = [disk EXCEPT ![s][p] = IF disk[s][p] = NoFile THEN Torn ELSE out[s][p[1]]]
      BY <1>3 DEF Write, Phase, StateOfStep
    <2>2. PICK p : disk' = [disk EXCEPT ![s][p] = IF disk[s][p] = NoFile THEN Torn ELSE out[s][p[1]]]
      BY <2>1
    <2>3. \A q \in Paths : disk'[s][q] = disk[s][q] \/ disk'[s][q] \in {Torn, out[s][q[1]]}
      BY <2>2
    <2>. QED BY <1>0, <2>1, <2>3 DEF FilesOfScan
  <1>4. CASE Done(s)
    <2>1. /\ step[s] = "persist" /\ Pending(s) = {} /\ step'[s] = "ended"
          /\ disk' = disk /\ out' = out /\ scenario' = scenario
      BY <1>4 DEF Done
    <2>2. ASSUME NEW v \in Views, NEW f \in Served, Reported(scenario[s], v, f)
          PROVE disk[s][<<v, f>>] = out[s][v]
      <3>1. PICK i \in DOMAIN Writes(scenario[s]) : Writes(scenario[s])[i] = <<v, f>>
        BY <2>2, ReportsAreWritten
      <3>2. disk[s][<<v, f>>] \notin {NoFile, Torn}
        BY <2>1, <3>1 DEF Pending
      <3>. QED BY <3>2 DEF FilesOfScan
    <2>. QED BY <2>1, <2>2 DEF FilesOfScan, Reported
  <1>5. CASE Fail(s)
    BY <1>5 DEF Fail, FilesOfScan
  <1>. QED BY <1>1, <1>2, <1>3, <1>4, <1>5 DEF Job

LEMMA FilesStep ==
  ASSUME TypeOK, Phases, FilesKept, [Next]_vars
  PROVE  FilesKept'
  <1>. USE DEF FilesKept
  <1>1. ASSUME NEW s \in Scans, Register(s) \/ Job(s), NEW t \in Scans
        PROVE FilesOfScan(t)'
    <2>1. CASE t = s
      BY <1>1, <2>1, FilesStepOfScan DEF Phases
    <2>2. CASE t # s
      <3>1. Same(t)
        BY <1>1, <2>2, OthersSame
      <3>. QED BY <3>1 DEF FilesOfScan, Reported, Same
    <2>. QED BY <2>1, <2>2
  <1>2. ASSUME Restart, NEW t \in Scans
        PROVE FilesOfScan(t)'
    BY <1>2 DEF Restart, Lost, FilesOfScan, Steps
  <1>3. CASE UNCHANGED vars
    BY <1>3 DEF vars, FilesOfScan, Reported
  <1>. QED BY <1>1, <1>2, <1>3 DEF Next

\* What is served of a scan: its result while its server knows it, its files
\* once it is gone.
LEMMA ServedIs ==
  ASSUME TypeOK, Phases, NEW s \in Scans, NEW v \in Views, NEW f \in Served,
         Get(s, v, f).code = 200, Get(s, v, f).body # NoFile
  PROVE  \/ /\ step[s] = "ended" /\ state[s] = "done" /\ Reported(scenario[s], v, f)
            /\ out[s][v] # NoFile /\ Get(s, v, f) = Answer(200, out[s][v])
         \/ /\ step[s] \in {"idle", "gone"} /\ disk[s][<<v, f>>] # NoFile
            /\ Get(s, v, f) = Answer(200, disk[s][<<v, f>>])
  <1>0. /\ \A c, b : Answer(c, b).code = c /\ Answer(c, b).body = b
        /\ state[s] \in {"none", "running", "done", "error"} /\ Phase(s)
    BY DEF Answer, TypeOK, Phases
  <1>1. CASE state[s] = "none"
    <2>1. Get(s, v, f) = GetLost(s, v, f) /\ step[s] \in {"idle", "gone"}
      BY <1>0, <1>1 DEF Get, Phase, StateOfStep
    <2>. QED BY <1>0, <2>1 DEF GetLost
  <1>2. CASE state[s] = "done"
    <2>1. Get(s, v, f) = GetDone(s, v, f) /\ step[s] = "ended"
      BY <1>0, <1>2 DEF Get, Phase, StateOfStep
    <2>2. CASE v = "single"
      <3>1. ~(scenario[s] = "compare" \/ (f = "report.html" /\ ~HasHtml))
        BY <1>0, <2>1, <2>2 DEF GetDone
      <3>. QED BY <1>0, <1>2, <2>1, <2>2, <3>1 DEF GetDone, Reported
    <2>3. CASE v # "single"
      <3>1. scenario[s] = "compare"
        BY <1>0, <2>1, <2>3 DEF GetDone
      <3>2. ~(f = "report.html" /\ ~HasHtml)
        BY <1>0, <2>1, <2>3, <3>1 DEF GetDone
      <3>. QED BY <1>0, <1>2, <2>1, <2>3, <3>1, <3>2 DEF GetDone, Reported, Views
    <2>. QED BY <2>2, <2>3
  <1>3. CASE state[s] \in {"running", "error"}
    <2>1. Get(s, v, f) = Answer(409, NoFile)
      BY <1>3 DEF Get
    <2>. QED BY <1>0, <2>1
  <1>. QED BY <1>0, <1>1, <1>2, <1>3

LEMMA ServedStep ==
  ASSUME TypeOK, Phases, FilesKept, [Next]_vars, NEW s \in Scans, NEW v \in Views, NEW f \in Served,
         Get(s, v, f).code = 200, Get(s, v, f).body # NoFile
  PROVE  Get(s, v, f)' = Get(s, v, f)
  <1>1. CASE Same(s)
    BY <1>1 DEF Same, Get, GetLost, GetDone
  <1>2. ASSUME Register(s) \/ Job(s) PROVE FALSE
    <2>1. step[s] \notin {"ended", "gone"}
      BY <1>2 DEF Register, Job, Prepare, ReadSources, ScanSingle, ScanOriginal, ScanHacked,
                  Publish, Write, Done, Fail
    <2>2. <<v, f>> \in Paths
      BY DEF Paths
    <2>. QED BY <2>1, <2>2, ServedIs DEF FilesKept, FilesOfScan, Steps
  <1>3. CASE Restart
    <2>1. UNCHANGED <<out, disk>> /\ state'[s] = "none"
      BY <1>3 DEF Restart
    <2>2. disk[s][<<v, f>>] # NoFile /\ Get(s, v, f) = Answer(200, disk[s][<<v, f>>])
      BY ServedIs DEF FilesKept, FilesOfScan
    <2>3. Get(s, v, f)' = GetLost(s, v, f)'
      BY <2>1 DEF Get
    <2>4. GetLost(s, v, f)' = Answer(200, disk[s][<<v, f>>])
      BY <2>1, <2>2 DEF GetLost, Answer
    <2>. QED BY <2>2, <2>3, <2>4
  <1>4. CASE UNCHANGED vars
    BY <1>1, <1>4 DEF vars, Same
  <1>5. ASSUME NEW t \in Scans, t # s, Register(t) \/ Job(t) PROVE Same(s)
    BY <1>5, OthersSame
  <1>. QED BY <1>1, <1>2, <1>3, <1>4, <1>5 DEF Next

-----------------------------------------------------------------------------
LEMMA InvInit == Init => ScanInv
  <1>. SUFFICES ASSUME Init PROVE ScanInv
    OBVIOUS
  <1>1. TypeOK /\ Phases /\ FilesKept
    BY TypeInit, PhaseInit, FilesInit
  <1>2. OriginalIsUntouched
    <2>1. \A v \in Views, f \in Served : <<v, f>> \in Paths
      BY DEF Paths
    <2>. QED BY <2>1 DEF Init, OriginalIsUntouched, Views
  <1>3. HackIsBlocked
    BY DEF Init, HackIsBlocked
  <1>4. BoardIsHighest
    <2>1. \A r \in Repos : Published(r) = {}
      BY DEF Init, Published
    <2>. QED BY <2>1 DEF Init, BoardIsHighest
  <1>. QED BY <1>1, <1>2, <1>3, <1>4 DEF ScanInv

\* All that is proved of a scan is one inductive invariant: the types, what each
\* step of runScanJob leaves behind, and the three properties that rest on it.
THEOREM Invariance == Spec => []ScanInv
  <1>1. ScanInv /\ [Next]_vars => ScanInv'
    BY TypeStep, PhaseStep, FilesStep, UntouchedStep, BlockedStep, BoardStep DEF ScanInv
  <1>. QED BY InvInit, <1>1, PTL DEF Spec

\* Every variable keeps its type.
THEOREM TypeCorrect == Spec => []TypeOK
  BY Invariance, PTL DEF ScanInv

\* The demo's hack never gets into what is reported of the repository itself.
THEOREM OriginalStaysUntouched == Spec => []OriginalIsUntouched
  BY Invariance, PTL DEF ScanInv

\* A simulated hack that was read is blocked.
THEOREM HackStaysBlocked == Spec => []HackIsBlocked
  BY Invariance, PTL DEF ScanInv

\* A leaderboard row is the highest count published since the server started.
THEOREM BoardStaysHighest == Spec => []BoardIsHighest
  BY Invariance, PTL DEF ScanInv

\* What a finished scan was answered with stays the answer, with the same
\* contents, when the server is restarted and finds it on the disk.
THEOREM ServedIsKept == Spec => ServedStays
  <1>1. ScanInv /\ [Next]_vars =>
          [\A s \in Scans, v \in Views, f \in Served :
              Get(s, v, f).code = 200 /\ Get(s, v, f).body # NoFile => Get(s, v, f)' = Get(s, v, f)]_vars
    BY ServedStep DEF ScanInv
  <1>. QED BY Invariance, <1>1, PTL DEF Spec, ServedStays
=============================================================================
