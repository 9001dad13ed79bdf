\* Three jobs; both repositories have the same label, so any two jobs that
\* miss the cache at the same time share a directory.
SPECIFICATION FairCacheSpec
CONSTANTS
    j1 = j1
    j2 = j2
    j3 = j3
    r1 = r1
    r2 = r2
    l1 = l1
    Jobs = {j1, j2, j3}
    Repos = {r1, r2}
    RepoOf <- MCRepoOf
    Labels = {l1}
    LabelOf <- OneLabel
    Long = {}
    MaxClock = 3
INVARIANTS
    ReadyHasWholeClone
    CacheNamesWholeClones
PROPERTIES
    NoCloneOfCached
    EveryJobEnds
\* every job ends, then the system stops
CHECK_DEADLOCK FALSE
