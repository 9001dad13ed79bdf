------------------------------- MODULE ScanRun -------------------------------
(***************************************************************************)
(* runScanJob of demo/server.mjs from its registration to its end, the     *)
(* leaderboard, the artifacts it writes below .tmp/runs, and the answers   *)
(* of GET /api/scan/..., with server restarts.                             *)
(*                                                                         *)
(* The job map, the results and the leaderboard are in memory; the         *)
(* artifacts survive a restart.  A job's work directory is its own, so the *)
(* awaits in which it touches nothing else are one step.  Reports are      *)
(* known by the findings they were made from.                              *)
(***************************************************************************)
EXTENDS Integers, FiniteSets, Sequences

CONSTANTS
    Scans,     \* scan ids
    Repos,     \* repository URLs
    RepoOf,    \* the repository of each scan
    Findings,  \* findings in each repository as it is on GitHub
    Blocking,  \* those of them that are critical or error
    HasHtml    \* whether the installed package exports projectScanToHtmlReport

ASSUME RepoOfAssumption == RepoOf \in [Scans -> Repos]
ASSUME FindingsAssumption ==
    /\ Findings \in [Repos -> Nat] /\ Blocking \in [Repos -> Nat]
    /\ \A r \in Repos : Blocking[r] <= Findings[r]
ASSUME HasHtmlAssumption == HasHtml \in BOOLEAN

VARIABLES
    scenario,  \* scenario of each scan's request
    step,      \* where runScanJob is
    patched,   \* the hack file is in the scan's work directory
    fits,      \* the hack file sorts within the caps on files and bytes
    entries,   \* the hack is among the sources that were read
    out,       \* what scanOnce returned, for each view of the result
    state,     \* job.state, "none" when the map has no entry
    disk,      \* artifact files below .tmp/runs/<scanId>
    board      \* leaderboard.rowsByRepo: the count shown for a repository

vars == <<scenario, step, patched, fits, entries, out, state, disk, board>>

Scenarios == {"original", "simulated_hacked", "compare"}
\* Views of a result: the only one, or the two of a comparison.
Views == {"single", "original", "hacked"}
Served == {"report.html", "prompt.md", "project.json", "report.sarif"}

NoScan == [total |-> -1, blocking |-> -1]
NoFile == NoScan
Torn == [total |-> -2, blocking |-> -2]    \* a file whose writing has begun
Unranked == -1

\* persistRunArtifacts writes these, in this order, awaiting each.
FilesOf(v) ==
    (IF HasHtml THEN << <<v, "report.html">> >> ELSE << >>) \o
    << <<v, "prompt.md">>, <<v, "project.json">>, <<v, "report.sarif">>, <<v, "meta.json">> >>

Writes(sc) ==
    IF sc = "compare" THEN FilesOf("original") \o FilesOf("hacked") ELSE FilesOf("single")

Paths == Views \X (Served \cup {"meta.json"})

\* The demo's hack adds one finding of severity error.
ScanOf(r, hack) ==
    [total    |-> Findings[r] + IF hack THEN 1 ELSE 0,
     blocking |-> Blocking[r] + IF hack THEN 1 ELSE 0]

\* The view whose numbers the result and the leaderboard show.
ShownView(s) == IF scenario[s] = "compare" THEN "hacked" ELSE "single"

Init ==
    /\ scenario = [s \in Scans |-> "original"]
    /\ step = [s \in Scans |-> "idle"]
    /\ patched = [s \in Scans |-> FALSE]
    /\ fits = [s \in Scans |-> FALSE]
    /\ entries = [s \in Scans |-> FALSE]
    /\ out = [s \in Scans |-> [v \in Views |-> NoScan]]
    /\ state = [s \in Scans |-> "none"]
    /\ disk = [s \in Scans |-> [p \in Paths |-> NoFile]]
    /\ board = [r \in Repos |-> Unranked]

-----------------------------------------------------------------------------

\* The POST handler puts the job in the map and runScanJob marks it running.
Register(s) ==
    /\ step[s] = "idle"
    /\ \E sc \in Scenarios : scenario' = [scenario EXCEPT ![s] = sc]
    /\ step' = [step EXCEPT ![s] = "prepare"]
    /\ state' = [state EXCEPT ![s] = "running"]
    /\ UNCHANGED <<patched, fits, entries, out, disk, board>>

MutPrepareHacksCompare(s) ==
    /\ step[s] = "prepare"
    /\ patched' = [patched EXCEPT ![s] = scenario[s] # "original"]
    /\ step' = [step EXCEPT ![s] = "read"]
    /\ UNCHANGED <<scenario, fits, entries, out, state, disk, board>>

\* only the second write of the hack (server.mjs:435) is left
MutPrepareHacksLate(s) ==
    /\ step[s] = "prepare"
    /\ step' = [step EXCEPT ![s] = "read"]
    /\ UNCHANGED <<scenario, patched, fits, entries, out, state, disk, board>>

\* Clone, copy, and the hack of the simulated scenario.
Prepare(s) ==
    /\ step[s] = "prepare"
    /\ patched' = [patched EXCEPT ![s] = scenario[s] = "simulated_hacked"]
    /\ step' = [step EXCEPT ![s] = "read"]
    /\ UNCHANGED <<scenario, fits, entries, out, state, disk, board>>

\* List the files and read the first 500, 300 and 4 MB of them.
ReadSources(s) ==
    /\ step[s] = "read"
    /\ \E f \in BOOLEAN :
        /\ fits' = [fits EXCEPT ![s] = f]
        /\ entries' = [entries EXCEPT ![s] = patched[s] /\ f]
    /\ step' = [step EXCEPT ![s] = "scan"]
    /\ UNCHANGED <<scenario, patched, out, state, disk, board>>

ScanAll(s, v) == out' = [out EXCEPT ![s][v] = ScanOf(RepoOf[s], entries[s])]

\* The simulated hack is written again, which changes nothing.
ScanSingle(s) ==
    /\ step[s] = "scan" /\ scenario[s] # "compare"
    /\ ScanAll(s, "single")
    /\ step' = [step EXCEPT ![s] = "publish"]
    /\ UNCHANGED <<scenario, patched, fits, entries, state, disk, board>>

ScanOriginal(s) ==
    /\ step[s] = "scan" /\ scenario[s] = "compare"
    /\ ScanAll(s, "original")
    /\ step' = [step EXCEPT ![s] = "hack"]
    /\ UNCHANGED <<scenario, patched, fits, entries, state, disk, board>>

\* "Apply hack and scan again": scanOnce scans the sources read before.
ScanHacked(s) ==
    /\ step[s] = "hack"
    /\ patched' = [patched EXCEPT ![s] = TRUE]
    /\ ScanAll(s, "hacked")
    /\ step' = [step EXCEPT ![s] = "publish"]
    /\ UNCHANGED <<scenario, fits, entries, state, disk, board>>

MutPublishDoneEarly(s) ==
    /\ step[s] = "publish"
    /\ LET n == out[s][ShownView(s)].total
       IN board' = [board EXCEPT ![RepoOf[s]] = IF @ > n THEN @ ELSE n]
    /\ state' = [state EXCEPT ![s] = "done"]
    /\ step' = [step EXCEPT ![s] = "persist"]
    /\ UNCHANGED <<scenario, patched, fits, entries, out, disk>>

MutPublishLatest(s) ==
    /\ step[s] = "publish"
    /\ board' = [board EXCEPT ![RepoOf[s]] = out[s][ShownView(s)].total]
    /\ step' = [step EXCEPT ![s] = "persist"]
    /\ UNCHANGED <<scenario, patched, fits, entries, out, state, disk>>

\* job.result and job.artifacts are set, the leaderboard row is raised.
Publish(s) ==
    /\ step[s] = "publish"
    /\ LET n == out[s][ShownView(s)].total
       IN board' = [board EXCEPT ![RepoOf[s]] = IF @ > n THEN @ ELSE n]
    /\ step' = [step EXCEPT ![s] = "persist"]
    /\ UNCHANGED <<scenario, patched, fits, entries, out, state, disk>>

\* The files still to be written, by their positions; writeFile creates one,
\* then fills it.
Pending(s) ==
    {i \in DOMAIN Writes(scenario[s]) : disk[s][Writes(scenario[s])[i]] \in {NoFile, Torn}}

Write(s) ==
    /\ step[s] = "persist"
    /\ \E i \in Pending(s) :
          LET p == Writes(scenario[s])[i]
          IN /\ \A j \in Pending(s) : i <= j
             /\ disk' = [disk EXCEPT ![s][p] = IF @ = NoFile THEN Torn ELSE out[s][p[1]]]
    /\ UNCHANGED <<scenario, step, patched, fits, entries, out, state, board>>

Done(s) ==
    /\ step[s] = "persist" /\ Pending(s) = {}
    /\ state' = [state EXCEPT ![s] = "done"]
    /\ step' = [step EXCEPT ![s] = "ended"]
    /\ UNCHANGED <<scenario, patched, fits, entries, out, disk, board>>

\* the catch block gone: the rejection ends in .catch(() => {})
MutFailUncaught(s) ==
    /\ step[s] \in {"prepare", "read", "scan", "hack", "persist"}
    /\ step' = [step EXCEPT ![s] = "ended"]
    /\ UNCHANGED <<scenario, patched, fits, entries, out, state, disk, board>>

\* A rejected await: git, the file system, the import, the scanner.
Fail(s) ==
    /\ step[s] \in {"prepare", "read", "scan", "hack", "persist"}
    /\ state' = [state EXCEPT ![s] = "error"]
    /\ step' = [step EXCEPT ![s] = "ended"]
    /\ UNCHANGED <<scenario, patched, fits, entries, out, disk, board>>

\* The process ends and is started again; scans it knew are not resumed, and
\* what the other variables say of them is history that no guard reads again.
Lost == {s \in Scans : step[s] # "idle"}
Restart ==
    /\ Lost # {}
    /\ step' = [s \in Scans |-> IF s \in Lost THEN "gone" ELSE "idle"]
    /\ state' = [s \in Scans |-> "none"]
    /\ board' = [r \in Repos |-> Unranked]
    /\ UNCHANGED <<scenario, patched, fits, entries, out, disk>>

Job(s) ==
    \/ Prepare(s) \/ ReadSources(s) \/ ScanSingle(s) \/ ScanOriginal(s) \/ ScanHacked(s)
    \/ Publish(s) \/ Write(s) \/ Done(s) \/ Fail(s)

Next == Restart \/ \E s \in Scans : Register(s) \/ Job(s)

Spec == Init /\ [][Next]_vars

\* The event loop runs every continuation that is due.
FairSpec == Spec /\ \A s \in Scans : WF_vars(Job(s))

-----------------------------------------------------------------------------
(* GET /api/scan/:id and below *)

Answer(code, body) == [code |-> code, body |-> body]

Status(s) == IF state[s] = "none" THEN "404" ELSE state[s]

\* A scan that is not in memory is looked up on disk.
GetLost(s, v, f) ==
    IF disk[s][<<v, f>>] = NoFile THEN Answer(404, NoFile) ELSE Answer(200, disk[s][<<v, f>>])

GetDone(s, v, f) ==
    IF v = "single"
    THEN IF scenario[s] = "compare" \/ (f = "report.html" /\ ~HasHtml)
         THEN Answer(500, NoFile)
         ELSE Answer(200, out[s][v])
    ELSE IF scenario[s] # "compare" THEN Answer(404, NoFile)
         ELSE Answer(200, IF f = "report.html" /\ ~HasHtml THEN NoFile ELSE out[s][v])

Get(s, v, f) ==
    CASE state[s] = "none" -> GetLost(s, v, f)
      [] state[s] = "done" -> GetDone(s, v, f)
      [] OTHER -> Answer(409, NoFile)

-----------------------------------------------------------------------------
ScanResults == {ScanOf(r, h) : r \in Repos, h \in BOOLEAN} \cup {NoScan}

TypeOK ==
    /\ scenario \in [Scans -> Scenarios]
    /\ step \in [Scans -> {"idle", "prepare", "read", "scan", "hack", "publish", "persist",
                           "ended", "gone"}]
    /\ patched \in [Scans -> BOOLEAN]
    /\ fits \in [Scans -> BOOLEAN]
    /\ entries \in [Scans -> BOOLEAN]
    /\ out \in [Scans -> [Views -> ScanResults]]
    /\ state \in [Scans -> {"none", "running", "done", "error"}]
    /\ disk \in [Scans -> [Paths -> ScanResults \cup {Torn}]]
    /\ board \in [Repos -> Nat \cup {Unranked}]

(***************************************************************************)
(* What a scan of the untouched repository reports is the repository's     *)
(* own: the hack of the demo never gets into an "original" result or into  *)
(* the first half of a comparison, in memory or on disk.                   *)
(***************************************************************************)
OriginalIsUntouched ==
    \A s \in Scans :
        LET v == IF scenario[s] = "compare" THEN "original" ELSE "single"
        IN scenario[s] # "simulated_hacked" =>
            /\ out[s][v] \in {NoScan, ScanOf(RepoOf[s], FALSE)}
            /\ \A f \in Served : disk[s][<<v, f>>] \in {NoFile, Torn, ScanOf(RepoOf[s], FALSE)}

(***************************************************************************)
(* The simulated hack is blocked (README: "blocked: true when any finding  *)
(* has severity critical or error"), unless the caps on what is read left  *)
(* the hack file out.                                                      *)
(***************************************************************************)
HackIsBlocked ==
    \A s \in Scans :
        scenario[s] = "simulated_hacked" /\ state[s] = "done" /\ fits[s] =>
            out[s]["single"].blocking > 0

(***************************************************************************)
(* A row of the leaderboard is the highest count of any scan of that       *)
(* repository this server has published, those included whose job then     *)
(* failed to write its artifacts.                                          *)
(***************************************************************************)
Published(r) ==
    {s \in Scans : /\ RepoOf[s] = r /\ state[s] # "none"
                   /\ out[s][ShownView(s)] # NoScan /\ step[s] # "publish"}
BoardIsHighest ==
    \A r \in Repos :
        LET counts == {out[s][ShownView(s)].total : s \in Published(r)}
        IN IF counts = {} THEN board[r] = Unranked
           ELSE board[r] \in counts /\ \A n \in counts : n <= board[r]

(***************************************************************************)
(* What a server that finished a scan has served stays served, with the    *)
(* same contents, across restarts (server.mjs:647).                        *)
(***************************************************************************)
ServedStays ==
    [][\A s \in Scans, v \in Views, f \in Served :
            Get(s, v, f).code = 200 /\ Get(s, v, f).body # NoFile
                => Get(s, v, f)' = Get(s, v, f)]_vars

(***************************************************************************)
(* Every scan the server took on ends, and frees its slot, unless the      *)
(* server goes down first.                                                 *)
(***************************************************************************)
EveryScanEnds == \A s \in Scans : state[s] = "running" ~> state[s] # "running"

(***************************************************************************)
(* "Apply hack and scan again" (server.mjs:430): in a finished comparison  *)
(* the hacked half shows the hack.  The code scans the sources it had read *)
(* before the hack was applied, so it does not.                            *)
(***************************************************************************)
CompareShowsHack ==
    \A s \in Scans :
        scenario[s] = "compare" /\ state[s] = "done" /\ fits[s] =>
            out[s]["hacked"].total > out[s]["original"].total

=============================================================================
