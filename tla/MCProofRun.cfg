\* Two states of the sources: the test of finding b is at another index, and
\* another test at the old one, after an edit.  One of two attempts may differ.
SPECIFICATION FairSpec
CONSTANTS
    a = a
    b = b
    c = c
    sql = sql
    misc = misc
    Findings = {a, b, c}
    Rules = {sql, misc}
    RuleOf <- MCRuleOf
    Supported = {b, c}
    Suppressed = {c}
    Projects <- MCProjects
    RetryArgs = {0, 3}
    NaN = NaN
    MaxRetries = 2
INVARIANTS
    OwnProof
    VerdictIsUnanimous
    TallyCountsEntries
PROPERTIES
    HarnessEnds
