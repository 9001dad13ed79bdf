----------------------------- MODULE CloneCache -----------------------------
(***************************************************************************)
(* ensureClonedRepo, gitClone and copyDir of demo/server.mjs: the cache of *)
(* repository clones that concurrent scan jobs share.                      *)
(*                                                                         *)
(* Every await is a step boundary, and the file system, the git processes  *)
(* and the timers run on their own.  A directory of the cache is named by  *)
(* the repository's label and Date.now(): jobs share a name when they miss *)
(* the cache in the same millisecond, when two labels are the same after   *)
(* safeFileName, or when the label is so long that slice(0, 120) drops the *)
(* time.                                                                   *)
(***************************************************************************)
EXTENDS Integers, FiniteSets

CONSTANTS
    Jobs,      \* the scan jobs
    Repos,     \* repository URLs
    RepoOf,    \* the repository each job scans
    Labels,    \* safeFileName(owner/repo)
    LabelOf,   \* the label of each repository
    Long,      \* labels of 120 characters and more
    MaxClock   \* bound of the clock, for TLC

ASSUME RepoAssumption == RepoOf \in [Jobs -> Repos] /\ LabelOf \in [Repos -> Labels]
ASSUME ClockAssumption == MaxClock \in Nat \ {0}

VARIABLES
    clock,   \* Date.now(), from 1
    pc,      \* where each job's ensureClonedRepo or copyDir is
    dir,     \* the cache directory each job works on
    git,     \* the git process of each job
    disk,    \* what each cache directory holds
    cache,   \* cloneCache: repository -> directory
    copy,    \* what each job has in its own repoDir
    missed   \* history: the jobs that did not find their repository cached

cacheVars == <<clock, pc, dir, git, disk, cache, copy, missed>>

\* A name without its time has time 0.
DirName(r, t) == <<LabelOf[r], IF LabelOf[r] \in Long THEN 0 ELSE t>>
Dirs == Labels \X (0..MaxClock)
NoDir == <<"none", -1>>

\* A tree on disk: whose clone it is, of which repository, and if it is whole.
Nothing == [by |-> "nobody", of |-> "nothing", whole |-> FALSE]
Tree(j, w) == [by |-> j, of |-> RepoOf[j], whole |-> w]
Trees == {Tree(j, w) : j \in Jobs, w \in BOOLEAN}
PartOf(t) == [by |-> t.by, of |-> t.of, whole |-> FALSE]

CacheInit ==
    /\ clock = 1
    /\ pc = [j \in Jobs |-> "start"]
    /\ dir = [j \in Jobs |-> NoDir]
    /\ git = [j \in Jobs |-> "none"]
    /\ disk = [d \in Dirs |-> Nothing]
    /\ cache = [r \in Repos |-> NoDir]
    /\ copy = [j \in Jobs |-> Nothing]
    /\ missed = {}

ClockTick ==
    /\ clock < MaxClock
    /\ clock' = clock + 1
    /\ UNCHANGED <<pc, dir, git, disk, cache, copy, missed>>

-----------------------------------------------------------------------------
(* ensureClonedRepo *)

\* looked up under another key than it was put
MutCachedNever(r) == FALSE
\* cloneCache.get and existsSync
Cached(r) == cache[r] # NoDir /\ disk[cache[r]] # Nothing

Hit(j) ==
    /\ pc[j] = "start"
    /\ Cached(RepoOf[j])
    /\ dir' = [dir EXCEPT ![j] = cache[RepoOf[j]]]
    /\ pc' = [pc EXCEPT ![j] = "cp"]
    /\ UNCHANGED <<clock, git, disk, cache, copy, missed>>

Miss(j) ==
    /\ pc[j] = "start"
    /\ ~Cached(RepoOf[j])
    /\ dir' = [dir EXCEPT ![j] = DirName(RepoOf[j], clock)]
    /\ pc' = [pc EXCEPT ![j] = "rm"]
    /\ missed' = missed \cup {j}
    /\ UNCHANGED <<clock, git, disk, cache, copy>>

\* fs.rm has removed the directory; its continuation spawns git.
Remove(j) ==
    /\ pc[j] = "rm"
    /\ disk' = [disk EXCEPT ![dir[j]] = Nothing]
    /\ pc' = [pc EXCEPT ![j] = "spawn"]
    /\ UNCHANGED <<clock, dir, git, cache, copy, missed>>

\* cloneCache.set moved before the await of gitClone
MutSpawnCachesEarly(j) ==
    /\ pc[j] = "spawn"
    /\ pc' = [pc EXCEPT ![j] = "git"]
    /\ git' = [git EXCEPT ![j] = "starting"]
    /\ cache' = [cache EXCEPT ![RepoOf[j]] = dir[j]]
    /\ UNCHANGED <<clock, dir, disk, copy, missed>>

\* spawn and setTimeout
Spawn(j) ==
    /\ pc[j] = "spawn"
    /\ pc' = [pc EXCEPT ![j] = "git"]
    /\ git' = [git EXCEPT ![j] = "starting"]
    /\ UNCHANGED <<clock, dir, disk, cache, copy, missed>>

\* The close event: cloneCache.set on exit code 0, a rejection otherwise.
CloseOk(j) ==
    /\ pc[j] = "git" /\ git[j] = "exit0"
    /\ cache' = [cache EXCEPT ![RepoOf[j]] = dir[j]]
    /\ pc' = [pc EXCEPT ![j] = "cp"]
    /\ UNCHANGED <<clock, dir, git, disk, copy, missed>>

CloseFailed(j) ==
    /\ pc[j] = "git" /\ git[j] = "exit1"
    /\ pc' = [pc EXCEPT ![j] = "failed"]
    /\ UNCHANGED <<clock, dir, git, disk, cache, copy, missed>>

MutTimeoutNoTimer(j) == FALSE

(***************************************************************************)
(* The timer fires before the close event is handled: the process is       *)
(* signalled, and the promise is rejected whatever became of the clone.    *)
(***************************************************************************)
Timeout(j) ==
    /\ pc[j] = "git"
    /\ pc' = [pc EXCEPT ![j] = "failed"]
    /\ git' = [git EXCEPT ![j] = IF @ \in {"starting", "writing"} THEN "killed" ELSE @]
    /\ UNCHANGED <<clock, dir, disk, cache, copy, missed>>

-----------------------------------------------------------------------------
(* copyDir *)

\* fs.cp opens the cached directory, which may be gone again.
CopyBegin(j) ==
    /\ pc[j] = "cp"
    /\ IF disk[dir[j]] = Nothing
       THEN /\ pc' = [pc EXCEPT ![j] = "failed"]
            /\ UNCHANGED copy
       ELSE /\ pc' = [pc EXCEPT ![j] = "copying"]
            /\ copy' = [copy EXCEPT ![j] = disk[dir[j]]]
    /\ UNCHANGED <<clock, dir, git, disk, cache, missed>>

CopyEnd(j) ==
    /\ pc[j] = "copying"
    /\ disk[dir[j]] = copy[j]
    /\ pc' = [pc EXCEPT ![j] = "ready"]
    /\ UNCHANGED <<clock, dir, git, disk, cache, copy, missed>>

\* The directory changed meanwhile: an error, or a copy of a part.
CopyDisturbed(j) ==
    /\ pc[j] = "copying"
    /\ disk[dir[j]] # copy[j]
    /\ \/ /\ pc' = [pc EXCEPT ![j] = "failed"]
          /\ UNCHANGED copy
       \/ /\ pc' = [pc EXCEPT ![j] = "ready"]
          /\ copy' = [copy EXCEPT ![j] = PartOf(@)]
    /\ UNCHANGED <<clock, dir, git, disk, cache, missed>>

-----------------------------------------------------------------------------
(* git clone, which refuses a directory that is not empty and removes what *)
(* it has made when it fails                                               *)

GitBegin(j) ==
    /\ git[j] = "starting"
    /\ disk[dir[j]] = Nothing
    /\ git' = [git EXCEPT ![j] = "writing"]
    /\ disk' = [disk EXCEPT ![dir[j]] = Tree(j, FALSE)]
    /\ UNCHANGED <<clock, pc, dir, cache, copy, missed>>

\* The directory is taken, or there is no git to run (the error event).
GitRefuse(j) ==
    /\ git[j] = "starting"
    /\ git' = [git EXCEPT ![j] = "exit1"]
    /\ UNCHANGED <<clock, pc, dir, disk, cache, copy, missed>>

GitFinish(j) ==
    /\ git[j] = "writing"
    /\ disk[dir[j]] = Tree(j, FALSE)
    /\ git' = [git EXCEPT ![j] = "exit0"]
    /\ disk' = [disk EXCEPT ![dir[j]] = Tree(j, TRUE)]
    /\ UNCHANGED <<clock, pc, dir, cache, copy, missed>>

\* The network, another job's rm or the timer ends it; where the signal
\* cannot be caught the part it wrote stays.
GitFail(j) ==
    /\ git[j] \in {"writing", "killed"}
    /\ git' = [git EXCEPT ![j] = "exit1"]
    /\ \/ disk' = [disk EXCEPT ![dir[j]] = Nothing]
       \/ /\ git[j] = "killed" \/ disk[dir[j]] # Tree(j, FALSE)
          /\ UNCHANGED disk
    /\ UNCHANGED <<clock, pc, dir, cache, copy, missed>>

Git(j) == GitBegin(j) \/ GitRefuse(j) \/ GitFinish(j) \/ GitFail(j)

-----------------------------------------------------------------------------
CacheServer(j) ==
    \/ Hit(j) \/ Miss(j) \/ Remove(j) \/ Spawn(j)
    \/ CloseOk(j) \/ CloseFailed(j) \/ Timeout(j)
    \/ CopyBegin(j) \/ CopyEnd(j) \/ CopyDisturbed(j)

CacheNext == ClockTick \/ \E j \in Jobs : CacheServer(j) \/ Git(j)

CacheSpec == CacheInit /\ [][CacheNext]_cacheVars

(***************************************************************************)
(* Node runs every callback that is due and file operations end.  Nothing  *)
(* is assumed of git or the network: that a clone ends is up to the timer. *)
(***************************************************************************)
FairCacheSpec == CacheSpec /\ \A j \in Jobs : WF_cacheVars(CacheServer(j))

-----------------------------------------------------------------------------
CacheTypeOK ==
    /\ clock \in 1..MaxClock
    /\ pc \in [Jobs -> {"start", "rm", "spawn", "git", "cp", "copying", "ready", "failed"}]
    /\ dir \in [Jobs -> Dirs \cup {NoDir}]
    /\ \A j \in Jobs : dir[j] = NoDir <=> pc[j] = "start"
    /\ git \in [Jobs -> {"none", "starting", "writing", "killed", "exit0", "exit1"}]
    /\ disk \in [Dirs -> Trees \cup {Nothing}]
    /\ cache \in [Repos -> Dirs \cup {NoDir}]
    /\ copy \in [Jobs -> Trees \cup {Nothing}]
    /\ missed \subseteq {j \in Jobs : pc[j] # "start"}

(***************************************************************************)
(* Two jobs have set out to clone into the same directory.                 *)
(***************************************************************************)
Shared(d) == \E j, k \in missed : j # k /\ dir[j] = d /\ dir[k] = d

(***************************************************************************)
(* What a scan works on: a job that gets past its copy (server.mjs:338)    *)
(* has a complete clone of its own repository, whatever other jobs and     *)
(* their timeouts do meanwhile, unless its directory's name was shared.    *)
(***************************************************************************)
ReadyHasWholeClone ==
    \A j \in Jobs : pc[j] = "ready" /\ ~Shared(dir[j]) =>
        copy[j].of = RepoOf[j] /\ copy[j].whole

(***************************************************************************)
(* cloneCache names complete clones of the right repository, also after    *)
(* the entry is overwritten by a second clone and after clones that timed  *)
(* out late (server.mjs:160).                                              *)
(***************************************************************************)
CacheNamesWholeClones ==
    \A r \in Repos : cache[r] # NoDir /\ ~Shared(cache[r]) =>
        disk[cache[r]].of = r /\ disk[cache[r]].whole

(***************************************************************************)
(* Once a repository is in the cache no later job clones it again, unless  *)
(* two jobs shared a directory: nothing else takes a cached clone away.    *)
(***************************************************************************)
NoCloneOfCached ==
    [][\A j \in Jobs : pc[j] = "start" /\ pc'[j] = "rm" =>
            cache[RepoOf[j]] = NoDir \/ Shared(cache[RepoOf[j]])]_cacheVars

(***************************************************************************)
(* A git that hangs cannot hold a job: the timer ends every clone.         *)
(***************************************************************************)
EveryJobEnds == \A j \in Jobs : <>(pc[j] \in {"ready", "failed"})

=============================================================================
