\* An issue of code, in three files, the end of one's path another's whole path,
\* and two missing packages, through three edits.
SPECIFICATION Spec
CONSTANTS
    i1 = i1
    d1 = d1
    d2 = d2
    sql = sql
    slop = slop
    src = src
    a = a
    ba = ba
    dev = dev
    ci = ci
    Issues = {i1, d1, d2}
    RuleOf <- MCRuleOf
    SeverityOf <- MCSeverityOf
    Dependencies = {d1, d2}
    Names <- MCNames
    Files <- MCFiles
    PackageJson = PackageJson
    NameEnds <- MCNameEnds
    MaxLine = 2
    Machines = {dev, ci}
    Inputs <- MCInputs
    Configs <- MCConfigs
    None = None
    MaxEdits = 3
SYMMETRY Symmetry
INVARIANTS
    PassedWasThere
    KnownPasses
