\* All programs of up to four statements of MCStatements, and their runs.
SPECIFICATION Spec
CONSTANTS
    x = x
    y = y
    params = params
    body = body
    Vars = {x, y}
    Sources = {params, body}
    BodyOrQuery = {body}
    Callees = {"exec", "merge", "find", "axios", "get", "run"}
    Known = {"exec", "merge", "axios"}
    Declared = {"find", "get"}
    SinksIn <- MCSinksIn
    Muted = {"log"}
    Statements <- MCStatements
    MaxLen = 4
    MaxJumps = 1
    NoLabel = NoLabel
INVARIANTS
    FlowsAreReported
    ReportsHappen
CHECK_DEADLOCK FALSE
