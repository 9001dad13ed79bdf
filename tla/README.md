# VibeScan in TLA+

TLA+ models of VibeScan (`vibescan/`, a static scanner for JavaScript and
TypeScript) and of its public demo server (`demo/`), TLC configurations that
check them on small instances, and TLAPS proofs of what matters most for every
instance. Paths below are relative to the repository.

## 1. The system

| Part | State | Operations | Hard about it |
|---|---|---|---|
| demo server, admission (`demo/server.mjs` 105-122, 597-635) | `jobs`, `ipCounters` | POST /api/scan | the checks and the registration are separated by `await readJsonBody`; fixed-window limiter |
| demo server, clone cache (124-168) | `cloneCache`, the cache directory, git processes, timers | `ensureClonedRepo`, `gitClone`, `copyDir` | concurrent misses, shared directory names, a timeout racing git's close event |
| demo server, scan job (170-529, 637-773) | `job.state/result/artifacts`, `leaderboard`, files in `.tmp/runs` | `runScanJob`, GET routes | failures at every await, artifacts written one by one, restart between any two steps |
| demo client (`demo/public/app.js`) | the page, one interval per scan | `startScan`, `pollScan`, `showResults`, a permalink | overlapping polls, late answers, restarts of the server, listeners left over |
| registry check (`system/ai/slopsquat.ts`) | worker pool: shared index, result array | `checkDependencies`, `headStatuses` | answers overtake each other, failed requests |
| proof harness (`system/proof`, `cli/vibescan.ts`) | test files, project JSON, run log | `prove`, `prove --run`, `reproduce` | separate processes share files whose names are reused; repeated attempts disagree |
| fix preview (`cli/fixPreview.ts`) | two copies of the project | `fix-preview` | edits while it copies, patches that apply in part, ids across copies, cleanup after failures |
| scan CLI (`cli/index.ts`, `baseline.ts`, `suppress.ts`) | baseline file, configuration | `scan` | what a baseline hides over a series of commits |
| project scan (`scanner.ts`, `engine/ruleEngine.ts`) | none | `scanProject`, `scanProjectAsync` | pure function of the sources |
| taint engine (`engine/taintEngine.ts`) | labels of variables, within a call | one pass over the assignments in source order, then one over the calls | what a program does in an order that is not the text's |
| route graph, route audits, OpenAPI drift (`parser/routeGraph.ts`, `parser/nextRouteGraph.ts`, `engine/*Audit.ts`, `engine/openapiDrift.ts`) | mount paths and routes, within a call | `extractRouteGraph`, `extractNextAppRouteHandlers`, the audits | nested mounts, their order, forms of `use` that are not recognised, where a Next.js app is |
| dependency surface (`depsurface/analyzer.ts`) | none | `analyzeThirdPartySurface` | joins by names, lines, routes and keys |
| secure-arch (`packages/secure-arch-*`) | settings, schema, `.gitignore` | `install`, `check` | users' files among generated ones, kills between writes, settings merged from several files |
| AI rules, project init (`cli/exportAiRules.ts`, `cli/projectInit.ts`) | rule files, configuration, workflow | `export-ai-rules`, `init` | several files of one configuration, kills between writes |
| rules, generators, formats, SARIF, evidence | none | tables, templates, predicates | - |

How they interact: the client polls the server over HTTP. The server's handlers
and jobs share the maps above in one event loop; a job calls the published
scanner package through `scanProjectAsync`, which calls the registry check and
the proof generator. The CLI commands `prove`, `prove --run`, `reproduce` and
`fix-preview` are processes that meet only in files, and so are the commands of
secure-arch and of the rules for AI assistants, which write among the user's own
files. The dependency surface reads what the scan of the project found.

What makes each part correct:

- admission: no more scans than `MAX_CONCURRENT` other than through the race
  the code leaves open; an address gets no more past the limiter than the
  windows allow;
- clone cache: a scan works on a whole clone of its own repository, the cache
  never names a partial one, every job ends;
- scan job: results belong to the sources asked for, the leaderboard is the
  maximum of what was published, what was served stays served, every job ends;
- client: what is shown belongs together and is on the server's disk, and the
  visitor can always scan again;
- registry check: each dependency asked once, the report exactly the missing;
- harness: each finding judged by its own proof, verdicts by all attempts, the
  tally adds up;
- CI gate: what passes against a baseline was there when it was written, and
  what was there passes;
- taint engine: what can reach a sink in a run of the program is reported, and
  what is reported can happen;
- routes: those extracted are those Express and Next.js serve, and what nothing
  guards is reported;
- dependency surface: a package that a route or a finding touches is reported
  with it;
- project files: installs are whole, users' lines stay, a passed check means
  what the settings say, rule files are of one configuration, a fix preview
  compares a project with itself after the patch.

The hazards this list comes from are in `PROJECT.json`, each at its line.

## 2. Modules

| Module | Models | Checked by | Proofs |
|---|---|---|---|
| `DemoAdmission` | POST /api/scan | `MCDemoAdmission` | `Demo_proofs` |
| `CloneCache` | the cache of clones, git and timers | `MCCloneCache` | `Demo_proofs` |
| `ScanRun` | a job from registration to artifacts, the GET routes, restarts | `MCScanRun` | `ScanRun_proofs` |
| `DemoClient` | the page and the answers it gets | `MCDemoClient` | `Demo_proofs` |
| `RegistryCheck` | what the registry check promises (abstract) | through `RegistryPool` | |
| `RegistryPool` | the worker pool; implements `RegistryCheck` | `MCRegistryPool` | `Scan_proofs` |
| `ProofRun` | proof generation, harness, reproduce | `MCProofRun` | `ProofRun_proofs` |
| `RouteAudits` | the rules on one route, the route inventory | through the next three | |
| `RouteGraph` | route extraction, audits, OpenAPI drift, against Express | `MCRouteGraph` | `Scan_proofs` |
| `NextRoutes` | the paths of Next.js route modules | through `ProjectSurface` | `Scan_proofs` |
| `ProjectSurface` | the routes and findings of a project, its dependency surface | `MCProjectSurface` | `Scan_proofs` |
| `TaintEngine` | the taint engine, against runs of the program | `MCTaintEngine` | `TaintEngine_proofs` |
| `CiGate` | `scan` with baselines, suppressions, threshold, exit code | `MCCiGate` | `CiGate_proofs` |
| `ArchCheck` | `secure-arch check` as a function of settings and code | through `SecureArch` | `Workspace_proofs` |
| `SecureArch` | `secure-arch install`, with the check | through `Workspace` | `Workspace_proofs` |
| `AiRules` | `export-ai-rules`, `secure-arch init`, `vibescan init` | through `Workspace` | `Workspace_proofs` |
| `FixPreview` | `fix-preview` | through `Workspace` | `Workspace_proofs` |
| `Workspace` | the last three composed: one project, its commands and its user | `MCWorkspace` | `Workspace_proofs` |

`Induction` holds what the proofs need of the numbers and no prover does by
itself. In all modules a step is what Node runs between two awaits, or one
synchronous piece of a command between two accesses to shared files. Definitions named
`Mut...` are altered forms of the definition that follows them: they are used
by no specification and show that each property notices a plausible mistake.

**DemoAdmission.** `counter` is `ipCounters`, `job` the part of `jobs` that the
concurrency check reads, `post` the progress of each request's handler.
`RefuseBusy`, `RefuseLimited` and `PassChecks` are the synchronous first half of
the handler (they read the clock `now`, which ticks on its own); `RejectBody`
and `Register` are what follows the await; `Settle` is the end of
`runScanJob`. `passed` and `saw` are history: when and in which window a
request passed, and which jobs it was counted against that still run.

**CloneCache.** `pc` is where a job is in `ensureClonedRepo` or `copyDir`, `git`
its child process, `disk` what a directory of the cache holds (whose clone, of
what, whole or not), `copy` what the job has copied. `Hit`/`Miss` are the two
ways through the lookup, `Remove`, `Spawn`, `CloseOk`, `CloseFailed` and
`Timeout` the steps of a clone, `Copy...` those of `fs.cp`, which may be
disturbed. `Git...` is git itself (external): it refuses a directory that is
not empty, and cleans up what it made unless it is killed.

**ScanRun.** One action per stretch of `runScanJob`; awaits in which a job
touches only its own work directory are one step. A file is written in two
(`Torn`, then whole). `Restart` forgets everything in memory and leaves the
disk. `Get` gives the answer of each artifact route, from memory or from disk.

**RegistryPool.** `holds[w]` is the position worker `w` claimed; storing an
answer and claiming the next position are one step, as in the code. Reading
`package.json` (with the workspaces' own names taken out) is abstracted to the
list `ToCheck`, in which a name may occur twice as it may in the code.

**ProofRun.** `Emit` writes the test of one finding; `ScanEnd` suppresses, sorts
and prints (the JSON is saved or not); `RunBegin`, `SkipRow`, `OpenRow`,
`Attempt`, `Conclude`, `RunEnd` are the harness's loop; `Edit` and `RemoveTests`
are the user. A test file is known by the finding it proves, so the properties
can tell when another finding's test is run.

**RouteGraph.** A state is an Express program: each step adds a call, `use` or
a verb, which the extraction reads (`baseFor`, `routes`, as in
`extractRouteGraph`) and Express executes (`stack`, the layers of each router;
external). `Served` is what Express answers to: routes reached from the app
through mounts, with the guards that run before them. `Audit` applies `Rules` of
`RouteAudits` (`runMiddlewareAudit`, `runWebhookAudit`), `Drift` is
`runOpenApiDriftAudit` with the document `spec`.
Paths are sequences of segments; lists of names and path patterns are sets.
`inOrder` and `readable` are history: whether each router was mounted once and
before it was used, and whether the extraction recognised each mount.

**TaintEngine.** `Write` adds a statement to the program and is the engine's
step for it (`tainted`, as `addTainted` fills it in the order of the source);
after `Run`, `Assign`, `Call`, `Skip` and `Jump` are the program's execution
(JavaScript, external), with data known by its sources. `Reported` is what the
engine's second pass says of a call: the wrapper resolved to its first sink,
the threshold, the excuse for parameterised SQL, the labels that merges ask
for. A function is resolved only if it is a sink known by name (`Known`) or the
type checker has its declaration (`Declared`, empty without TypeScript
analysis, which is off by default). Each argument has an `expr` and, if it is an
object literal, a `url`: of axios and of its wrappers `targetArg` is the `url` of
the call's own first argument, whatever the wrapper does with it. Of the data a
run passes on (`hits`), `Followed` tells what goes where the engine looks.
`since`, `hits`, `jumps` and `skipped` are history.

**DemoClient.** `interval`, `tries` and `req` are the timers and their polls,
each poll's answer known when it was given and acted on when it arrives
(`Answer`, then `PollDone` or `PollError`); `posts` the requests for a scan.
`button`, `shown`, `bar`, `seg`, `frame`, `box`, `link` and `listeners` are what
the page shows. `server` and `saved` are the part of the server the page can
tell: `Restart` forgets the jobs and leaves the reports, as in `ScanRun`.

**ProjectSurface.** A step writes one more statement of a project: an import in
one of its forms, a route, a Next.js export, a call a rule finds. `Routes`,
`Inventory` and `Findings` follow `scanProject`, `Surface` and the reviews
`analyzeThirdPartySurface`. A statement has the names it uses (`refs`), those on
its line (`names`) and, if it is a route, those in the text of its last inline
handler (`text`): a handler given by name leaves no text, and so no touchpoint.
`Bound`, `Used` and `ServedPath` say what JavaScript
and Next.js make of the same statements (external).

**Workspace.** The commands of `SecureArch`, `AiRules` and `FixPreview` are run
one at a time; each of their writes is a step, after which the command may be
killed, and the user edits settings, `.gitignore`, the configuration and the
sources at any time. `.gitignore` is a list of lines, into which the user puts
lines of their own or further markers anywhere (between the markers too), and
from which they take any line (`EditIgnores`). `unmarked` and `inside` are
history: whether they put a marker in or took one out, and which lines they put
between two markers. `LinesIn` is what a file has of some lines, in their order.
`ArchCheck` is what a check concludes from the documents:
validation, merging, each rule, evidence from the code. Documents are functions
from keys to what they say; a file a kill leaves empty is `Torn`.

**CiGate.** A step is a whole command, `WriteBaseline` or `Check`, or an edit by
the user. `at` is where each issue of the sources is; `Findings` is what
`runScan` returns of them for the inputs, the configuration and the registry's
answers of that command. `Entries`, `findingInBaseline` and `ExitCode` are
`baseline.ts` and the gate of `cli/index.ts`. Paths are sequences of names, so
that the comparison of the ends of their texts is one of sequences, with
`NameEnds` for names that end in one another. `written` remembers the command
that wrote the baseline, `last` the one just run.

## 3. Runs

| Run | Bounds | Shows |
|---|---|---|
| `demo_admission` | 6 requests, 2 addresses, limit 2, quota 2, window 1, clock to 3 | `ExcessOnlyFromRaces`: the limit is exceeded only by scans that raced through the body await. `WindowCountExact`, `SlidingRate`: the count is exact, and any stretch of a window's length lets at most twice the quota by |
| `clone_cache` | 3 jobs, 2 repositories of the same label, clock to 3 | `ReadyHasWholeClone`, `CacheNamesWholeClones`, `NoCloneOfCached` except where two jobs set out for one directory; `EveryJobEnds` |
| `scan_run` | 2 scans of one repository, every pair of scenarios, any restarts | `OriginalIsUntouched`, `HackIsBlocked`, `BoardIsHighest`, `ServedStays`, `EveryScanEnds` |
| `demo_client` | 2 comparisons, one of them also at a permalink, 2 tries, any restarts | `DisabledMeansBusy`, `FrameIsOfShown`, `ShownIsSaved`: what the page shows belongs together and exists, and the button is disabled only while something will enable it (or a request for a scan was lost); `ButtonReturns` |
| `registry_pool` | 5 declarations (one twice, one scoped), 3 workers | `AskedOnce`, `PoolIsFull`, the refinement `ImplementsCheck`, `CheckEnds` |
| `proof_run` | 2 states of the sources, 3 findings, 1 or 2 attempts | `OwnProof`, `VerdictIsUnanimous`, `TallyCountsEntries`, `HarnessEnds` |
| `route_graph` | all programs of at most 4 of 15 calls, an app and 2 routers, 2 documents | `RoutesAsServed`, `UnguardedIsReported`, `ReportedIsUnguarded`, `DriftAsServed`: for programs with mounts in order and in the forms recognised, extraction and audits agree with what is served; `UnguardedIsReported` for the others too, as far as own paths go |
| `taint_engine` | all programs of at most 4 of 16 statements, 2 variables, 2 sources, 1 jump; 3 known sinks, 2 wrappers with a declaration (one of axios) and 1 without | `FlowsAreReported` (flows that follow the text, or loops that carry nothing back, by the parts of a call the engine looks at), `ReportsHappen` (each variable assigned once) |
| `ci_gate` | 3 edits, any number of commands; an issue of code in 3 files, 2 missing packages, 2 configurations, 2 machines, 3 lists of inputs | `PassedWasThere`: what passes was found when the baseline was written, at that line, by that rule, in that file or one whose path ends like it; `KnownPasses`: what is still where it was does not fail the build, on either machine |
| `project_surface` | all projects of up to 4 of 17 statements in 3 files, in 2 places, with different thresholds | `CrossingsAreReported` (by names in the text of inline handlers), `FindingsAreTraced`, `NextAsServed` |
| `workspace` | 3 commands, 1 of them killed, 2 edits (in `.gitignore` a line or marker put anywhere or taken out); a global and 2 environments' files, 2 sources | `VerdictIsOfSettings`, `InstallIsWhole`, `KeepsUsersWork` (own lines are lost only between a BEGIN and the first END after it), `ExportIsOfOneConfig`, `ResultIsOfPatch` |
| `compare_shows_hack` | as `scan_run` | violated: the hacked half of a comparison is scanned from the sources read before the hack |

Met while modelling, and not in a run of their own:

- more than `MAX_CONCURRENT` scans run after requests raced through the body
  await (`ExcessOnlyFromRaces` says through nothing else); `--retries` that is
  not a number makes no attempt and reports a pass (`Attempts` in `ProofRun`);
- a router mounted behind a parser or guard in one `use` is extracted without
  its path (`routeGraph.ts:205`; `readable` in `RouteGraph`);
- a variable keeps its first label, so a merge of the request's body into it is
  not reported (`taintEngine.ts:378`);
- a wrapper of a sink is reported only if the type checker has its declaration,
  so none is by default (`taintEngine.ts:253`); one of axios never is when it is
  called with a plain value, and when it is called with an object that has a
  `url`, that is reported though the wrapper may not use it (`taintEngine.ts:409`;
  `Followed`, `Misread`);
- a handler given by name, or by a call, has no text, so the packages it uses are
  not reported with its route (`routeGraph.ts:231`, `analyzer.ts:481`), nor are
  names that begin or end in `$` (`analyzer.ts:88`);
- a line that a user puts between the markers of `.gitignore` is gone after the
  next install, and after they take the END marker out, one install adds a second
  block, and the next replaces all from the old BEGIN to the END of that one
  (`gitignore.ts:21`; `KeepsUsersWork` says that no line is lost otherwise);
- findings of the registry check are all at the first line of `package.json`, so
  a known one hides those added later (`baseline.ts:64`);
- the ids of findings hash absolute paths, so the difference that `fix-preview
  --finding-id` asks for is empty (`fixPreview.ts:114`; `FindingDiff`);
- `export-ai-rules --tool` does not limit which adapter files are written;
  `vibescan init` without a tool exits 2 after it has written its files;
- a permalink opened after a restart of the server polls a scan that is answered
  404 until its tries are spent, although its reports are on the disk;
- `app/route.ts` is taken to be served at `/route.ts`, and an app below another
  directory `app` at a path from there on (`nextRouteGraph.ts:139`; the guards of
  `NextAsServed`);
- a settings document with `environments` is validated as if it said nothing else
  (`schema.ts:60`), though what it says beside them is used (`Overlooked` in
  `SecureArch`);
- the dependency surface does not see packages bound by rest patterns, by members
  of a `require`, or through aliases (`analyzer.ts:304`).

Why the bounds are enough: the races need one actor more than the limit they
break (three requests for two slots, three jobs for a shared and a private
directory); the limiter needs two full adjacent windows; the pool needs a worker
that claims twice and an overtaking answer; the harness needs two attempts to
disagree and two findings of a rule to confuse; a route on a router mounted in
a router and a guard are four calls; a source, a copy, an overwrite and a sink
are four statements, and one jump makes a loop; an issue that is introduced,
moves and is joined by another is three edits around any number of commands; an
import, a sensitive route, a guard and a finding are four statements; a killed
install, a repeated one and a check are three commands. In `clone_cache` directories
are shared by jobs of the same millisecond; names that lose their time (`Long`)
are covered by the theorems, which hold for any `Long`. Each run's cfg says what its
instance is for. Deadlock is not checked where the system really stops: every
request answered, every job ended, the check made.

## 4. Fairness

- `CloneCache`: weak fairness of the server's steps of each job (the event loop
  runs what is due), the timer's among them. None of git or the network: a
  clone may hang, and the timer ends it.
- `ScanRun`: weak fairness of each job's steps. That they end rests on the
  scanner's termination and, for the clone, on `EveryJobEnds` of `CloneCache`.
- `RegistryPool`: weak fairness of each worker's step. The code sets no timeout;
  Node's fetch gives up on a server that sends no headers.
- `ProofRun`: weak fairness of the harness's own steps, none of `Attempt`:
  `spawnSync` has no timeout, so `HarnessEnds` is claimed only if no test hangs
  for ever.

- `DemoClient`: a browser settles every request for a scan and fires its timers
  (`PostSettled`, `TimerTick`); nothing else, no answer to a poll in particular.
- `DemoAdmission`, `RouteGraph`, `TaintEngine`, `CiGate`, `ProjectSurface`,
  `Workspace`: none, they have safety properties only.

Liveness is checked by TLC only; it is out of the prover's reach.

## 5. Proofs

The theorems are listed in `PROJECT.json`. They hold for every value of the
constants that satisfies the named assumptions of the module.

- `Demo_proofs`, of `DemoAdmission`: `TypeCorrect`; `RacesOnly`, from the invariant that
  each running scan that two requests share was seen by the later of them
  (`saw` shrinks only when a job ends), so a race-free set was, but for its last
  member, counted by the last check; `CountsExact`, from the invariant that ties
  each count to the requests that carry its window; `TwiceTheQuota`, since a
  stretch as long as a window meets at most two windows of an address.
- `Demo_proofs`, of `CloneCache`: the inductive `CloneInv` says that only jobs that missed
  run git, that a whole tree stays unless its directory is shared, that cache
  entries and copies come from whole trees. `Keeps` is the frame that all
  actions of jobs in other directories satisfy, so that each action is proved
  once.
- `Scan_proofs`, of `RegistryPool`: claimed positions are exactly those below the index,
  each by one worker; the refinement maps `results` to `status` and the findings
  to `report`, an `Answer` to `LookUp`, `Finish` to `Report`, all else to
  stutters.

- `TaintEngine_proofs`: `TaintInv` says that the labelled variables are targets
  of assignments the engine labelled, and that data in a variable came by a
  chain of assignments that the engine saw (`ValueLabelled`), as long as the run
  followed the text or nothing is carried back; so a flow into a sink, by the part
  of the call that `targetArg` is, finds that part labelled (`FlowsReported`). In
  programs that take only body and query from the request each label is one that
  merges ask for. `ReportsAreReal` adds `ReportInv` for
  straight runs of programs that assign each variable once: a label that was
  given arrives as data at each statement passed. The leftmost of a set of sinks
  is its least position, from the library's well-foundedness of the naturals.

- `Demo_proofs`, of `DemoClient`: the invariant ties the frame to the last listener of each
  button, and every scan that an answer, a listener or a prompt still names to a
  report on the disk, which restarts do not take away.
- `ScanRun_proofs`: `Phases` says what each step of `runScanJob` leaves behind:
  which results exist by then, of which sources, and that nothing else is there.
  `OthersSame` is the frame of a step of one job for all others. `FilesKept`
  says that a job's files are torn or its results, and all there once it is
  done, so that an answer from the disk is the answer from memory (`ServedStays`,
  an action property). A row of the
  board is the maximum of what is `Published`; only `Publish` adds to that.
- `ProofRun_proofs`: `FilesFresh` says that the files a scan has written so far
  are those of the findings at their positions, and that this passes to the rows
  of its JSON and to those the harness has read, until another scan begins;
  `Judged` carries it into the attempts and the entries. `Attempted`: unless what
  is asked for is no number, an attempt is made. The tally is a count of
  a set of positions, which each entry adds one to or leaves.
- `CiGate_proofs`: the baseline is what its command found (`BaselineIsWritten`)
  and the exit code follows from it as it still is (`ExitFollows`). The rest is
  about paths: what ends like an absolute path is the same file, and what is
  below a root never is one, because no name in the project is a machine's
  directory (`PathsAssumption`).
- `Scan_proofs`, of `RouteGraph`, for any calls, any depth of routers, any lists
  of names and any documents. `GraphInv` says that the extracted routes are the
  layers of routes, one for one, that in plain programs the base of a router is
  the base of the one that mounts it and the path of the mount, and that mounts
  descend (`CallsAssumption`). Then `RoutesAsServed` has two halves. What is
  served below a router has the router's base before its path: by induction on
  the number of mounts passed. What is extracted is served: a layer of a router
  is served below the one that mounts it, by induction on ranks, as many mounts
  down as there are routers at the most. The audits and the drift are functions
  of the routes, so what they promise of the routes extracted passes to those
  served.
- `Scan_proofs`, of `ProjectSurface`, for any files, statements, packages and
  places. All its properties are functions of the project, so the invariant is
  only that a file holds statements it may hold (`SurfaceTypeOK`). No two routes
  begin in one place, so the first of the routes that share a `ReviewKey` is on
  the line asked for, and there is a first because there is a least number. A
  package that a handler uses by a name of its text is touched because the file
  binds that name; of a finding the names are those of its line and of the text
  (`Shown`), which is what `Touched` puts together by place and by route. A rank
  above information is that of some finding. `StmtsAssumption` says only that a
  call a rule finds has the names it uses on its line.
  The path of a route module: whichever way its app directory is found, what is
  left below is the same (`AppIs`), and flattening its segments one by one is
  what Next.js serves (`SegmentsAre`), by induction along the directories. The
  assumptions are that an app is a directory `AppDir` (`PlacesAssumption`), which
  `SrcDir` is not.
- `Workspace_proofs`: `ArchInv` says which files an unbroken `install` has
  written so far and that marks, once there, stay; a verdict is of the settings
  because validation, merging and the rules read nothing but what they are merged
  from (`VerdictsAreOfSettings`). `LinesIn` is a recursion along the
  lines of a file; that those of two files together are those of the one and
  then those of the other is shown by induction. What an install replaces is one
  part of the file in the middle (`LostAreBetween`), and as long as no marker was
  touched that part has the block and lines of `inside` only: `Marked` says so of
  `.gitignore`, and passes over each line that is put in or taken out
  (`InsertedMarks`, `RemovedMarks`). `export-ai-rules` writes what it
  emitted from one configuration in the order it emitted it; the two copies of
  `fix-preview` differ in what the patch changed and nothing else. Interleaved
  with one another, with kills and with the user's edits, the commands keep their
  order of writes (`CommandsKeepOrder`).

No prover takes a predicate as a parameter, so induction is stated for sets of
numbers (`Inductive` in `Induction`, from the library's well-foundedness of the
naturals): what is to be shown is the set of the numbers it holds of. A function
defined by recursion exists because `Recursive` builds it.

One encoding of the installed tlapm asks for care: it tells the SMT solver that a
function on `1..N` is a sequence of length N *and the other way round*, from which
what is said of `Len` of a function on `0..n` can be contradictory. No proof rests on
that: all modules were also proved with the second half taken out of the solver's
input, and leaves that need a length state why it is one.

Only model-checked: liveness.

## 6. Not modelled

- static pages, formats, reports, rule tables, proof templates: no state, and
  no property beyond their text;
- parsers and the TypeScript compiler: third-party;
- the scanner inside the demo server is known by the number of findings it
  reports, the hack by the one finding it adds;
- of programs: expressions and patterns the taint engine does not look into,
  paths of routes that are no literals; the request fields handlers read; what
  the audits search in a handler's text is a set of what it contains;
- what is in the models and of which no property claims anything, because the
  code does not keep it right: clones in one directory (`Shared`), a hack that
  the caps leave out (`fits`), tests that a later scan overwrites (`fresh`), torn
  artifacts of a scan that was cut off, wrong paths of routers that are mounted
  late or in forms not read, and the cases of section 3 that are met while
  modelling; each such hazard has a note in `PROJECT.json`;
- YAML, globs and the text of generated files;
- SARIF import and comparison: one pass over reports of other tools, which
  nothing else reads; benchmarks: scripts outside the program;
- the number of open file operations, memory and disk (nothing is ever removed
  from `jobs`, `ipCounters` or the work directories).

## 7. Plan

Done, in this order: `DemoAdmission`, `CloneCache`, `ScanRun`, `RegistryCheck`
with `RegistryPool`, `ProofRun`, `CiGate`, `RouteGraph` with the audits,
`TaintEngine`; then `DemoClient`, `Workspace` with its parts, `ProjectSurface`
with `NextRoutes`, and the proofs of `DemoClient`, `ScanRun`, `ProofRun` and
`CiGate`; then those of `Workspace`, `RouteGraph` and `ProjectSurface`.

Left, in order of what they would add:

1. the JSON, SARIF and HTML reports as functions of the findings, for what they
   must agree on;
2. the subcommands of `vibescan` that only print.
