----------------------------- MODULE FixPreview -----------------------------
(***************************************************************************)
(* `vibescan fix-preview` (cli/fixPreview.ts, cli/vibescan.ts): a project  *)
(* is copied twice, a patch is applied to the second copy, and both are    *)
(* scanned and proved.  The project may be edited meanwhile, the patch     *)
(* applied in part, and any step fail.  Trees are functions from files to  *)
(* versions; the patch takes some files from one version to another.       *)
(***************************************************************************)
EXTENDS Integers, FiniteSets, Functions

CONSTANTS
    Sources, Versions,
    Original,       \* the version of all of them at first
    Weak,           \* versions the scanner reports something of
    Patch,          \* file -> [from, to]
    NoTree, NoPreview

ASSUME PatchAssumption ==
    /\ DOMAIN Patch \subseteq Sources
    /\ \A f \in DOMAIN Patch : Patch[f].from # Patch[f].to

VARIABLES
    source,     \* the project
    before,     \* the copies: trees (the first one grows), or NoTree
    after,
    preview,    \* the running preview: [at, finding, log], or NoPreview
    shown,      \* its result: [before, after, diff] when it has printed it
    patched     \* history: what the copies were when they had been patched

previewVars == <<source, before, after, preview, shown, patched>>

PreviewInit ==
    /\ source = [f \in Sources |-> Original]
    /\ before = NoTree /\ after = NoTree /\ preview = NoPreview /\ shown = NoPreview
    /\ patched = NoPreview

EditSource ==
    /\ \E f \in Sources, v \in Versions : v # source[f] /\ source' = [source EXCEPT ![f] = v]
    /\ UNCHANGED <<before, after, preview, shown, patched>>

-----------------------------------------------------------------------------
(* A finding is known by the tree and the file it is in: its id is a hash  *)
(* of the absolute path.                                                   *)

Ids(name, tree) == {<<name, f>> : f \in {g \in Sources : tree[g] \in Weak}}

\* Begun without a patch file, or with one of --from and --finding-id only,
\* it ends at once; those copies of others that are still there stay there.
BeginPreview(finding) ==
    /\ preview = NoPreview
    /\ preview' = [at |-> "copy", finding |-> finding, log |-> {}]
    /\ before' = [f \in {} |-> NoTree] /\ after' = NoTree
    /\ shown' = NoPreview /\ patched' = NoPreview
    /\ UNCHANGED source

At(step) == preview # NoPreview /\ preview.at = step
Goto(step) == preview' = [preview EXCEPT !.at = step]

CopyFile(f) ==
    /\ At("copy") /\ f \in Sources \ DOMAIN before
    /\ before' = [g \in DOMAIN before \cup {f} |-> IF g = f THEN source[f] ELSE before[g]]
    /\ UNCHANGED <<source, after, preview, shown, patched>>

\* from the project
MutCopyAgain ==
    /\ At("copy") /\ DOMAIN before = Sources
    /\ after' = source
    /\ Goto("patch")
    /\ UNCHANGED <<source, before, shown, patched>>
CopyAgain ==
    /\ At("copy") /\ DOMAIN before = Sources
    /\ after' = before
    /\ Goto("patch")
    /\ UNCHANGED <<source, before, shown, patched>>

-----------------------------------------------------------------------------
Matches(f, tree) == tree[f] = Patch[f].from
Patched(tree, files) == [f \in Sources |-> IF f \in files THEN Patch[f].to ELSE tree[f]]
Applies(tree) == \A f \in DOMAIN Patch : Matches(f, tree)

\* The patch program applies what it can.  It may not be there at all.
PatchCli ==
    /\ At("patch")
    /\ \/ Applies(after) /\ after' = Patched(after, DOMAIN Patch) /\ Goto("scan")
       \/ ~Applies(after)
          /\ after' = Patched(after, {f \in DOMAIN Patch : Matches(f, after)}) /\ Goto("git")
       \/ UNCHANGED after /\ Goto("git")
    /\ patched' = [before |-> before, after |-> after']
    /\ UNCHANGED <<source, before, shown>>

\* git applies all of it or nothing; then both copies go.
GitApply ==
    /\ At("git")
    /\ \/ /\ Applies(after)
          /\ after' = Patched(after, DOMAIN Patch) /\ Goto("scan")
          /\ UNCHANGED before
       \/ /\ ~Applies(after)
          /\ before' = NoTree /\ after' = NoTree /\ preview' = NoPreview
    /\ patched' = [before |-> before, after |-> after']
    /\ UNCHANGED <<source, shown>>

\* both are scanned, then both are proved: an entry for each finding
ScanAndProve ==
    /\ At("scan")
    /\ preview' = [preview EXCEPT !.at = "show", !.log = Ids("before", before) \cup Ids("after", after)]
    /\ UNCHANGED <<source, before, after, shown, patched>>

\* what --finding-id asks for, in the logs of the copies
FindingDiff == [lookedUp |-> preview.finding, entries |-> {e \in preview.log : e = preview.finding}]

\* The result is written, then both copies are removed.
Show ==
    /\ At("show")
    /\ shown' = [before |-> Cardinality(Ids("before", before)), after |-> Cardinality(Ids("after", after)),
                 diff |-> FindingDiff]
    /\ before' = NoTree /\ after' = NoTree /\ preview' = NoPreview
    /\ UNCHANGED <<source, patched>>

\* An exception of a copy, a scan, a proof run or a write, or a kill.
PreviewFails ==
    /\ preview # NoPreview
    /\ preview' = NoPreview
    /\ UNCHANGED <<source, before, after, shown, patched>>

(***************************************************************************)
(* A result compares a tree with that tree after the whole patch, although *)
(* the project is edited while it is copied, `patch` may have applied a    *)
(* part of it before `git apply` is tried, and either program may fail.    *)
(***************************************************************************)
ResultIsOfPatch ==
    shown # NoPreview =>
        LET tree == patched.before
        IN /\ Applies(tree)
           /\ shown.before = Cardinality(Ids("before", tree))
           /\ shown.after = Cardinality(Ids("after", Patched(tree, DOMAIN Patch)))
=============================================================================
