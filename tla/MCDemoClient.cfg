\* Two comparisons whose polls, prompts and listeners overlap.
SPECIFICATION FairClientSpec
CONSTANTS
    s1 = s1
    s2 = s2
    Scans = {s1, s2}
    Compares = {s1, s2}
    Permalinks = {s1}
    NoScan = NoScan
    MaxTries = 2
INVARIANTS
    DisabledMeansBusy
    FrameIsOfShown
    ShownIsSaved
PROPERTIES
    ButtonReturns
\* the visitor may stop
CHECK_DEADLOCK FALSE
