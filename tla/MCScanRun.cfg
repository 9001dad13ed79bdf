\* Two scans meet in the leaderboard row of their repository; every pair of
\* scenarios, and a restart at any step.
SPECIFICATION FairSpec
CONSTANTS
    s1 = s1
    s2 = s2
    r1 = r1
    Scans = {s1, s2}
    Repos = {r1}
    RepoOf <- MCRepoOf
    Findings <- MCFindings
    Blocking <- MCBlocking
    HasHtml = TRUE
INVARIANTS
    OriginalIsUntouched
    HackIsBlocked
    BoardIsHighest
PROPERTIES
    ServedStays
    EveryScanEnds
\* every scan ends, then nothing is left to do
CHECK_DEADLOCK FALSE
