\* All programs of up to four of the calls of MCCalls.
SPECIFICATION GraphSpec
CONSTANTS
    app = app
    api = api
    adm = adm
    auth = auth
    csrf = csrf
    x = x
    admin = admin
    login = login
    id = id
    key = key
    App = app
    Routers = {api, adm}
    Calls <- MCCalls
    MaxCalls = 4
    AuthNames = {auth}
    CsrfNames = {csrf}
    LimitNames = {}
    AdminSegs = {admin}
    SensitiveSegs = {login}
    HookSegs = {x}
    UploadSegs = {}
    ParamSegs = {id, key}
    Param = Param
    Specs <- MCSpecs
INVARIANTS
    RoutesAsServed
    UnguardedIsReported
    ReportedIsUnguarded
    DriftAsServed
CHECK_DEADLOCK FALSE
