\* All projects of up to four of the statements of MCStmts, in two places.
SPECIFICATION SurfaceSpec
CONSTANTS
    server = server
    page = page
    mono = mono
    client = client
    store = store
    axios = axios
    scoped = scoped
    db = db
    sub = sub
    own = own
    fs = fs
    dot = dot
    home = home
    packages = packages
    admin = admin
    login = login
    group = group
    id = id
    colonId = colonId
    hook = hook
    Files <- MCFiles
    Stmts <- MCStmts
    MaxLines = 4
    Roots <- MCRoots
    Place <- MCPlace
    AppDepth <- MCAppDepth
    PathNames <- MCPathNames
    Manifests <- MCManifests
    Thresholds = {"info", "error"}
    Scopes = {scoped}
    Builtins <- MCBuiltins
    LocalStarts = {dot}
    AppDir = AppDir
    SrcDir = SrcDir
    RouteFile = RouteFile
    Groups = {group}
    CatchAll = {}
    Star = Star
    Dynamic <- MCDynamic
    AuthNames = {}
    CsrfNames = {}
    LimitNames = {}
    AdminSegs = {admin}
    SensitiveSegs = {login}
    HookSegs = {hook}
    UploadSegs = {}
    ParamSegs = {colonId}
INVARIANTS
    CrossingsAreReported
    FindingsAreTraced
    NextAsServed
CHECK_DEADLOCK FALSE
