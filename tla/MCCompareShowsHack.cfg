\* One comparison of a repository without findings is enough.
SPECIFICATION FairSpec
CONSTANTS
    s1 = s1
    s2 = s2
    r1 = r1
    Scans = {s1, s2}
    Repos = {r1}
    RepoOf <- MCRepoOf
    Findings <- MCFindings
    Blocking <- MCBlocking
    HasHtml = TRUE
INVARIANTS
    CompareShowsHack
CHECK_DEADLOCK FALSE
