\* Up to three commands, of which one is killed or fails, and two edits.
SPECIFICATION Spec
CONSTANTS
    Production = production
    Default = default
    Other = Other
    Envs = {production, default, Other}
    Global = global
    Absent = Absent
    Torn = Torn
    Junk = Junk
    None = None
    Template <- MCTemplate
    UserDocs <- MCUserDocs
    Begin = Begin
    End = End
    Gen = Gen
    Own = {own}
    Configs = {c1}
    Sample = Sample
    Missing = Missing
    Empty = Empty
    Idle = Idle
    Emits = {{"cursor", "policy"}}
    js = js
    py = py
    old = old
    new = new
    Sources = {js, py}
    Versions = {old, new}
    Original = old
    Weak = {old}
    Patch <- MCPatch
    NoTree = NoTree
    NoPreview = NoPreview
    Reported <- MCReported
    MaxEdits = 2
    MaxCrashes = 1
    MaxRuns = 3
INVARIANTS
    VerdictIsOfSettings
    InstallIsWhole
    ExportIsOfOneConfig
    ResultIsOfPatch
PROPERTIES
    KeepsUsersWork
CHECK_DEADLOCK FALSE
