-------------------------------- MODULE CiGate --------------------------------
(***************************************************************************)
(* `vibescan scan` as a gate of builds (cli/index.ts, baseline.ts,         *)
(* suppress.ts, scanner.ts): a scan writes a baseline of what it finds,    *)
(* later scans of the edited project, on this machine or another, fail on  *)
(* blocking findings that are not in it.                                   *)
(*                                                                         *)
(* An issue is a defect that a rule finds wherever it is; the registry     *)
(* check finds those of dependencies, all at the first line of the         *)
(* package.json of the root.  Paths are sequences of names, and a file's   *)
(* begins with the directory the project is checked out in.                *)
(***************************************************************************)
EXTENDS Integers, FiniteSets, Sequences

CONSTANTS
    Issues, RuleOf, SeverityOf,
    Dependencies,   \* issues the registry check finds
    Names,          \* of files and directories in the project
    Files,          \* paths in the project
    PackageJson,    \* name of the file
    NameEnds,       \* <<a, b>> where the name a ends with the name b
    MaxLine,
    Machines,       \* directories it is checked out in
    Inputs,         \* what commands scan: sequences of directories
    Configs,        \* [threshold, registry, suppressions]
    None,
    MaxEdits

Lines == 1..MaxLine
Spots == [file : Files, line : Lines]
Nowhere == [file |-> << >>, line |-> 0]
Severities == {"info", "warning", "error", "critical"}
SEVERITY_ORDER == [s \in Severities |->
    CASE s = "info" -> 0 [] s = "warning" -> 1 [] s = "error" -> 2 [] s = "critical" -> 3]

ASSUME IssuesAssumption ==
    SeverityOf \in [Issues -> Severities] /\ Dependencies \subseteq Issues
ASSUME BoundsAssumption == MaxLine \in Nat /\ MaxEdits \in Nat
\* What is scanned are directories, and no path in the project goes by the
\* name of the directory it is checked out in.
ASSUME PathsAssumption ==
    /\ Files \subseteq Seq(Names) \ {<< >>} /\ NameEnds \subseteq Names \X Names
    /\ \A ins \in Inputs : ins \in Seq(Seq(Names) \ Files) \ {<< >>}
    /\ Machines \cap Names = {}

VARIABLES
    at,         \* where each issue of the project is
    config,     \* vibescan.config.json
    baseline,   \* the baseline's file, in the project's directory
    last,       \* the command just run, if nothing was edited since
    edits,
    written     \* history: the command that wrote the baseline

vars == <<at, config, baseline, last, edits, written>>

Missing == [state |-> "missing"]
Garbled == [state |-> "garbled"]
Nothing == [kind |-> "none"]

Init ==
    /\ at = [i \in Issues |-> Nowhere] /\ config \in Configs
    /\ baseline = Missing /\ last = Nothing /\ edits = 0 /\ written = Nothing

-----------------------------------------------------------------------------
(* The project is edited *)

Edited ==
    /\ edits < MaxEdits /\ edits' = edits + 1 /\ last' = Nothing
    /\ UNCHANGED <<baseline, written>>

InPackageJson(s) == s.file[Len(s.file)] = PackageJson
Introduce(i, s) ==
    /\ Edited /\ at[i] = Nowhere
    /\ InPackageJson(s) <=> i \in Dependencies
    /\ i \in Dependencies => s.line = 1
    /\ at' = [at EXCEPT ![i] = s] /\ UNCHANGED config

Fix(i) ==
    /\ Edited /\ at[i] # Nowhere
    /\ at' = [at EXCEPT ![i] = Nowhere] /\ UNCHANGED config

\* A line is added at the top of f.
InsertLine(f) ==
    LET moved == {i \in Issues \ Dependencies : at[i].file = f}
    IN /\ Edited /\ moved # {} /\ \A i \in moved : at[i].line < MaxLine
       /\ at' = [i \in Issues |-> IF i \in moved THEN [at[i] EXCEPT !.line = @ + 1] ELSE at[i]]
       /\ UNCHANGED config

Configure(c) == Edited /\ c # config /\ config' = c /\ UNCHANGED at

-----------------------------------------------------------------------------
(* scanProjectAsync, then applySuppressions *)

StartsWith(p, q) == Len(q) <= Len(p) /\ SubSeq(p, 1, Len(q)) = q

\* inferredRoot, from the first input
Root(ins) == ins[1]

\* p.endsWith(q), on the texts of paths
TextEnds(p, q) ==
    LET d == Len(p) - Len(q)
    IN /\ d >= 0 /\ q # << >>
       /\ \A k \in 2..Len(q) : p[d + k] = q[k]
       /\ p[d + 1] = q[1] \/ <<p[d + 1], q[1]>> \in NameEnds

Abs(m, p) == <<m>> \o p

\* An issue is seen in a file that is scanned, or by the registry check, if
\* the registry answers.
Seen(i, ins, c, answered) ==
    /\ at[i] # Nowhere
    /\ IF i \in Dependencies
       THEN c.registry /\ at[i].file = Append(Root(ins), PackageJson) /\ i \in answered
       ELSE \E k \in DOMAIN ins : StartsWith(at[i].file, ins[k])

MeetsThreshold(i, c) == SEVERITY_ORDER[SeverityOf[i]] >= SEVERITY_ORDER[c.threshold]

\* A rule that names neither a rule nor a file suppresses nothing.
matchesSuppression(i, m, r) ==
    /\ r.ruleId # None \/ r.file # None
    /\ r.ruleId \in {None, RuleOf[i]}
    /\ r.line \in {None, at[i].line}
    /\ r.file = None \/ TextEnds(Abs(m, at[i].file), r.file)

Findings(m, ins, c, answered) ==
    {i \in Issues : /\ Seen(i, ins, c, answered) /\ MeetsThreshold(i, c)
                    /\ \A r \in c.suppressions : ~matchesSuppression(i, m, r)}

-----------------------------------------------------------------------------
(* Baselines *)

\* paths as they are on the machine
MutNormalized(m, root, p) == Abs(m, p)
\* relative to the root, or absolute outside of it
Normalized(m, root, p) ==
    IF StartsWith(p, root) /\ p # root THEN SubSeq(p, Len(root) + 1, Len(p)) ELSE Abs(m, p)

Entries(m, ins, found) ==
    {[ruleId |-> RuleOf[i], file |-> Normalized(m, Root(ins), at[i].file), line |-> at[i].line] :
        i \in found}

pathMatches(e, f) == e = f \/ TextEnds(f, e) \/ TextEnds(e, f)

\* whatever the line
MutInBaseline(i, m, entries) ==
    \E e \in entries : e.ruleId = RuleOf[i] /\ pathMatches(e.file, Abs(m, at[i].file))
findingInBaseline(i, m, entries) ==
    \E e \in entries :
        e.ruleId = RuleOf[i] /\ e.line = at[i].line /\ pathMatches(e.file, Abs(m, at[i].file))

\* --write-baseline: the scan ends with it, and passes.
WriteBaseline(m, ins, answered) ==
    LET found == Findings(m, ins, config, answered)
    IN /\ baseline' = [state |-> "entries", entries |-> Entries(m, ins, found)]
       /\ last' = [kind |-> "write", exit |-> 0]
       /\ written' = [kind |-> "write", at |-> at, machine |-> m, ins |-> ins,
                      config |-> config, found |-> found]
       /\ UNCHANGED <<at, config, edits>>

\* It is killed while it writes, or the file is merged badly.
Garble ==
    /\ baseline \notin {Missing, Garbled} /\ baseline' = Garbled /\ last' = Nothing
    /\ UNCHANGED <<at, config, edits, written>>

Blocking(i) == SeverityOf[i] \in {"critical", "error"}

\* --baseline is resolved in the directory the command is given in, the one
\* of the configuration in the first input.
ReadFrom(via, ins) == IF via = "config" /\ Root(ins) # << >> THEN Missing ELSE baseline

ExitCode(found, m, via, read) ==
    CASE via = "no" -> IF \E i \in found : Blocking(i) THEN 1 ELSE 0
      [] read \in {Missing, Garbled} -> 1
      [] OTHER -> IF \E i \in found : Blocking(i) /\ ~findingInBaseline(i, m, read.entries)
                  THEN 1 ELSE 0

\* A scan of a build: against no baseline, or that of --baseline or the
\* configuration.
Check(m, ins, via, answered) ==
    LET found == Findings(m, ins, config, answered)
    IN /\ last' = [kind |-> "check", exit |-> ExitCode(found, m, via, ReadFrom(via, ins)),
                   machine |-> m, ins |-> ins, via |-> via, found |-> found]
       /\ UNCHANGED <<at, config, baseline, edits, written>>

Next ==
    \/ \E i \in Issues, s \in Spots : Introduce(i, s)
    \/ \E i \in Issues : Fix(i)
    \/ \E f \in Files : InsertLine(f)
    \/ \E c \in Configs : Configure(c)
    \/ Garble
    \/ \E m \in Machines, ins \in Inputs, answered \in SUBSET Dependencies :
          \/ WriteBaseline(m, ins, answered)
          \/ \E via \in {"no", "cli", "config"} : Check(m, ins, via, answered)

Spec == Init /\ [][Next]_vars

-----------------------------------------------------------------------------
TypeOK ==
    /\ at \in [Issues -> Spots \cup {Nowhere}] /\ config \in Configs
    /\ baseline \in {Missing, Garbled} \/ baseline.state = "entries"
    /\ last.kind \in {"none", "write", "check"}
    /\ last.kind # "none" => last.exit \in {0, 1}
    /\ edits \in 0..MaxEdits
    /\ written.kind \in {"none", "write"} /\ (written = Nothing <=> baseline = Missing)

Gated == last.kind = "check" /\ last.via # "no"

(***************************************************************************)
(* A build that passes against a baseline has nothing that blocks but at   *)
(* spots of what was found when the baseline was written, by the same      *)
(* rule: the same file, or one whose path ends like that file's below the  *)
(* root, as the comparison of path ends (baseline.ts:49) cannot tell these *)
(* apart.                                                                  *)
(***************************************************************************)
SameFile(i, j) ==
    LET old == written.at[j].file
    IN \/ at[i].file = old
       \/ /\ StartsWith(old, Root(written.ins))
          /\ TextEnds(at[i].file, SubSeq(old, Len(Root(written.ins)) + 1, Len(old)))
PassedWasThere ==
    Gated /\ last.exit = 0 => \A i \in last.found : Blocking(i) =>
        \E j \in written.found :
            RuleOf[j] = RuleOf[i] /\ written.at[j].line = at[i].line /\ SameFile(i, j)

(***************************************************************************)
(* "enforce only new findings" (vibescan/README.md:135), as far as it      *)
(* goes: where every issue that was found is still at its spot, and nothing*)
(* more is found, the build passes, on any machine; also if directories    *)
(* above or below are scanned.                                             *)
(***************************************************************************)
KnownPasses ==
    /\ Gated /\ baseline \notin {Missing, Garbled} /\ ReadFrom(last.via, last.ins) # Missing
    /\ \A i \in last.found : /\ i \in written.found /\ at[i] = written.at[i]
                             /\ \/ StartsWith(at[i].file, Root(written.ins))
                                \/ last.machine = written.machine
    => last.exit = 0

=============================================================================
