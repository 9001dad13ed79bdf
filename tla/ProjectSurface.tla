--------------------------- MODULE ProjectSurface ---------------------------
(***************************************************************************)
(* The scan of a whole project (scanProject in scanner.ts): its routes and *)
(* their inventory, the findings of the rules and of the audits, and what  *)
(* of all that touches third-party packages (depsurface/analyzer.ts).      *)
(*                                                                         *)
(* A step writes one more statement, each on a line of its own; so every   *)
(* state is a project, of which the operators say what a scan reports.     *)
(***************************************************************************)
EXTENDS NextRoutes, FiniteSetsExt

CONSTANTS
    Files,       \* the files, in the order in which they are scanned
    Stmts,       \* file -> statements its lines may hold
    MaxLines,    \* bound: statements of the project
    Roots,       \* directories the project may be in
    Place,       \* directories each file is in, below that
    AppDepth,    \* how many of those there are down to the app of Next.js
    PathNames,   \* file -> names that are words of its path
    Manifests,   \* what package.json says: [deps: kind -> names, workspaces]
    Thresholds,  \* severities a scan may be told to begin at
    Scopes, Builtins, LocalStarts   \* of module specifiers, sequences of parts

FileSet == Sequence(Files)
Directories == UNION {Sequence(dirs) : dirs \in Roots \cup {Place[f] : f \in FileSet}}
severityRank == [info |-> 0, warning |-> 1, error |-> 2, critical |-> 3]

ASSUME FilesAssumption ==
    /\ Files \in Seq(FileSet) /\ MaxLines \in Nat
    /\ \A i, j \in DOMAIN Files : Files[i] = Files[j] => i = j

\* An app of Next.js is a directory AppDir.
ASSUME PlacesAssumption ==
    /\ Roots \subseteq Seq(Directories)
    /\ \A f \in FileSet :
          /\ Place[f] \in Seq(Directories) /\ AppDepth[f] \in 0..Len(Place[f])
          /\ AppDepth[f] > 0 => Place[f][AppDepth[f]] = AppDir

\* refs: the names a statement uses; names: those on the line it begins on.
\* A route, or an export, has the text of its last handler that is given
\* inline, in which $ is no part of a word; of one given by name it has none.
ASSUME StmtsAssumption ==
    \A f \in FileSet : \A s \in Stmts[f] :
        s.kind = "call" => s.refs \subseteq s.names /\ s.severity \in DOMAIN severityRank

VARIABLES lines, root, manifest, threshold

surfaceVars == <<lines, root, manifest, threshold>>

Written == MapThenSumSet(LAMBDA f : Len(lines[f]), FileSet)

SurfaceInit ==
    /\ lines = [f \in FileSet |-> << >>]
    /\ root \in Roots /\ manifest \in Manifests /\ threshold \in Thresholds

\* A module binds a name once, and exports one once.
Binding == {"default", "namespace", "named", "require", "destructured"}
Declares(s) ==
    CASE s.kind = "import" /\ s.form \in Binding /\ ~s.inner -> {<<"binding", s.name>>}
      [] s.kind = "export" -> {<<"export", s.name>>}
      [] OTHER -> {}

Write(f, s) ==
    /\ Written < MaxLines
    /\ Declares(s) \cap UNION {Declares(lines[f][i]) : i \in DOMAIN lines[f]} = {}
    /\ lines' = [lines EXCEPT ![f] = Append(@, s)]
    /\ UNCHANGED <<root, manifest, threshold>>

SurfaceNext == \E f \in FileSet : \E s \in Stmts[f] : Write(f, s)

SurfaceSpec == SurfaceInit /\ [][SurfaceNext]_surfaceVars

Places(kind) == {p \in FileSet \X (1..MaxLines) :
                    p[2] \in DOMAIN lines[p[1]] /\ lines[p[1]][p[2]].kind = kind}
At(p) == lines[p[1]][p[2]]

-----------------------------------------------------------------------------
(* Routes: those of Express apps, and the exports of route modules *)

RouteOf(p, method, path) ==
    [file |-> p[1], line |-> p[2], method |-> method, path |-> path, fullPath |-> path,
     middlewares |-> At(p).middlewares, text |-> At(p).text]

\* Only what is declared where it is exported is seen.
ExpressRoutes == {RouteOf(p, At(p).method, At(p).path) : p \in Places("route")}
NextRoutesOf ==
    {RouteOf(p, At(p).name, nextAppRouteFileToUrlPath(root, root \o Place[p[1]])) :
        p \in {q \in Places("export") : /\ IsRouteModule(root, root \o Place[q[1]])
                                        /\ At(q).form = "declared" /\ At(q).name \in HTTP_EXPORT}}
Routes == ExpressRoutes \cup NextRoutesOf

RoutePlace(r) == <<r.file, r.line>>
Earlier(p, q) ==
    \/ \E i, j \in DOMAIN Files : i < j /\ Files[i] = p[1] /\ Files[j] = q[1]
    \/ p[1] = q[1] /\ p[2] < q[2]
First(rs) == CHOOSE r \in rs : \A o \in rs \ {r} : Earlier(RoutePlace(r), RoutePlace(o))

Inventory == {InventoryEntry(r) : r \in Routes}

-----------------------------------------------------------------------------
(* Findings *)

AtLeast(a, b) == severityRank[a] >= severityRank[b]

\* names: those in its text and its labels; touched: of the route it is about
Finding(rule, severity, p, names) ==
    [rule |-> rule, severity |-> severity, file |-> p[1], line |-> p[2], names |-> names,
     labelled |-> FALSE, onRoute |-> FALSE, method |-> "", fullPath |-> << >>]

RuleFindings ==
    {[Finding(At(p).rule, At(p).severity, p, At(p).names) EXCEPT !.labelled = At(p).labelled] :
        p \in Places("call")}

\* helmet is looked for in the file, wherever it is called
AppFindings ==
    {Finding("MW-004", "warning", p, {}) : p \in {q \in Places("setup") : At(q).name = "cors" /\ At(q).wildcard}}
    \cup {Finding("MW-003", "info", <<f, 1>>, {}) : f \in
            {r.file : r \in Routes} \ {p[1] : p \in {q \in Places("setup") : At(q).name = "helmet"}}}

RouteFinding(rule, severity, r) ==
    [Finding(rule, severity, RoutePlace(r), PathNames[r.file])
        EXCEPT !.onRoute = TRUE, !.method = r.method, !.fullPath = r.fullPath]

AuditFindings ==
    UNION {{RouteFinding(rule, "warning", r) :
              rule \in Rules(r.method, r.fullPath, r.path, r.middlewares, r.text)} : r \in Routes}

RoutePosture ==
    LET risky == {r \in Routes : IsObjectScoped(r.path) /\ ~Matches(r.middlewares, AuthNames)}
    IN IF risky = {} THEN {} ELSE {RouteFinding("API-POSTURE-001", "info", First(risky))}

Findings ==
    {f \in RuleFindings \cup AppFindings \cup AuditFindings \cup RoutePosture :
        AtLeast(f.severity, threshold)}

-----------------------------------------------------------------------------
(* The imports of a file *)

DependencyKinds == <<"dependency", "devDependency", "peerDependency", "optionalDependency">>

packageRoot(s) == IF s[1] \in Scopes /\ Len(s) >= 2 THEN SubSeq(s, 1, 2) ELSE <<s[1]>>
isLocalSpecifier(s) == s[1] \in LocalStarts
isExternalPackage(s) ==
    ~isLocalSpecifier(s) /\ s \notin Builtins /\ packageRoot(s) \notin manifest.workspaces
dependencyKindFor(s) ==
    LET in == {i \in DOMAIN DependencyKinds : packageRoot(s) \in manifest.deps[DependencyKinds[i]]}
    IN IF in = {} THEN "unknown" ELSE DependencyKinds[Min(in)]

\* A pattern of nothing but a rest is not seen at all; of a member of a
\* require, or one that is an argument, the package only.
Loading == Binding \cup {"side-effect", "re-export", "dynamic", "member"}

Loads == {p \in Places("import") : At(p).form \in Loading /\ isExternalPackage(At(p).spec)}
Imports == {[file |-> p[1], line |-> p[2], packageName |-> packageRoot(At(p).spec),
             dependencyKind |-> dependencyKindFor(At(p).spec)] : p \in Loads}

\* names of the file, and the packages they stand for; scopes do not count
bindingRefs(f) == {[name |-> At(p).name, packageName |-> packageRoot(At(p).spec)] :
                      p \in {q \in Loads : q[1] = f /\ At(q).form \in Binding}}
Packages(f, names) == {b.packageName : b \in {c \in bindingRefs(f) : c.name \in names}}

\* Handlers go on below the lines their routes begin on.
NamesAt(f, i) ==
    IF i \in DOMAIN lines[f] /\ lines[f][i].kind \in {"route", "export", "call"}
    THEN lines[f][i].names ELSE {}

-----------------------------------------------------------------------------
(* analyzeThirdPartySurface *)

Touching(r) == Packages(r.file, r.text.names)
RouteTouchpoints == UNION {{[packageName |-> k, route |-> r] : k \in Touching(r)} : r \in Routes}

\* the names of the routes it is about, whatever their lines
OnRoutes(f) == {r \in Routes : /\ f.onRoute /\ r.file = f.file
                               /\ r.fullPath = f.fullPath /\ r.method = f.method}
\* routes are not looked at
MutTouched(f) == Packages(f.file, f.names \cup NamesAt(f.file, f.line))
Touched(f) ==
    Packages(f.file, f.names \cup NamesAt(f.file, f.line) \cup UNION {r.text.names : r \in OnRoutes(f)})
FindingTouchpoints == UNION {{[packageName |-> k, finding |-> f] : k \in Touched(f)} : f \in Findings}

PackageNames == {e.packageName : e \in Imports} \cup {t.packageName : t \in RouteTouchpoints}
                    \cup {t.packageName : t \in FindingTouchpoints}

isSensitiveRoute(r) ==
    LET entry == CHOOSE e \in Inventory : e.file = r.file /\ e.fullPath = r.fullPath /\ e.line = r.line
    IN \/ entry.sensitivePath \/ entry.adminPath
       \/ entry.tags \cap {"admin", "auth-sensitive", "upload", "webhook"} # {}

Surface(k) ==
    LET routes == {t \in RouteTouchpoints : t.packageName = k}
        found == {t \in FindingTouchpoints : t.packageName = k}
    IN [edges |-> {e \in Imports : e.packageName = k},
        routeTouchpoints |-> routes, findingTouchpoints |-> found,
        riskLabels |->
            {l \in {"route_touchpoint", "sensitive_route", "security_finding", "tainted_flow"} :
                CASE l = "route_touchpoint" -> routes # {}
                  [] l = "sensitive_route" -> \E t \in routes : isSensitiveRoute(t.route)
                  [] l = "security_finding" -> found # {}
                  [] l = "tainted_flow" -> \E t \in found : t.finding.labelled},
        highestSeverity |-> Max({0} \cup {severityRank[t.finding.severity] : t \in found})]

\* one for all the routes of a file
MutReviewKey(t) == [packageName |-> t.packageName, file |-> t.route.file]
ReviewKey(t) == [packageName |-> t.packageName, file |-> t.route.file,
                 fullPath |-> t.route.fullPath, line |-> t.route.line]

\* the first of each key
RouteReviews ==
    {t \in RouteTouchpoints :
        /\ isSensitiveRoute(t.route)
        /\ \A o \in RouteTouchpoints \ {t} : isSensitiveRoute(o.route) /\ ReviewKey(o) = ReviewKey(t)
              => Earlier(RoutePlace(t.route), RoutePlace(o.route))}
FlowReviews ==
    {[packageName |-> t.packageName, file |-> t.finding.file, rule |-> t.finding.rule,
      line |-> t.finding.line] : t \in {u \in FindingTouchpoints : u.finding.labelled}}

-----------------------------------------------------------------------------
(* The project as its modules are loaded, and served *)

\* The package a name of the file stands for; an import of some inner scope
\* binds it for others.
Bound(f, name) == {packageRoot(At(p).spec) : p \in
    {q \in Loads : q[1] = f /\ At(q).form \in Binding /\ ~At(q).inner /\ At(q).name = name}}

\* the packages the statement at a place uses by some of the names
Used(p, names) ==
    IF p[2] \notin DOMAIN lines[p[1]] \/ At(p).kind \notin {"route", "export", "call"} THEN {}
    ELSE UNION {Bound(p[1], name) : name \in At(p).refs \cap names}

\* the names the statement at a place has on its line, or in a handler's text
Shown(p) == At(p).names \cup IF At(p).kind = "call" THEN {} ELSE At(p).text.names

\* the segment Next.js serves a directory as, and the path it serves what is
\* in directories below the app at
Segment(d) == IF d \in CatchAll THEN Star ELSE IF d \in DOMAIN Dynamic THEN Dynamic[d] ELSE d
ServedBelow(dirs) ==
    LET served[i \in 0..Len(dirs)] ==
            IF i = 0 THEN << >>
            ELSE IF dirs[i] \in Groups THEN served[i - 1] ELSE Append(served[i - 1], Segment(dirs[i]))
    IN served[Len(dirs)]
ServedPath(f) == ServedBelow(Beneath(Place[f], AppDepth[f]))

(***************************************************************************)
(* A package that a route uses, by a name its file binds that is a word of *)
(* the text of its last inline handler, is reported with that route,       *)
(* whatever files, routes, packages and scopes share names; and if the     *)
(* route is a sensitive one the package has a review at its line, although *)
(* reviews are made once for each key (analyzer.ts:478-505, 608-623).      *)
(* Nothing is claimed of handlers given by name or by a call, which have   *)
(* no text (routeGraph.ts:231-243), of earlier handlers, or of names       *)
(* that begin or end in $ (analyzer.ts:88-91): there is no touchpoint.     *)
(***************************************************************************)
CrossingsAreReported ==
    \A r \in Routes : \A k \in Used(RoutePlace(r), r.text.names) :
        /\ k \in PackageNames
        /\ \E t \in Surface(k).routeTouchpoints : t.route = r
        /\ IsSensitivePath(r.fullPath) \/ IsAdminSensitivePath(r.fullPath)
                \/ IsWebhookLikePath(r.fullPath) =>
              /\ "sensitive_route" \in Surface(k).riskLabels
              /\ \E t \in RouteReviews : t.packageName = k /\ RoutePlace(t.route) = RoutePlace(r)

(***************************************************************************)
(* A finding of a rule where a file uses a package, or of an audit on a    *)
(* route that does, by a name on its line or in the text of its handler,   *)
(* is held against the package, which is not ranked below it, and has a    *)
(* review if the finding is a flow (analyzer.ts:508-554, 598-606, 624-     *)
(* 630); so are those on handlers given by name.  And a package is ranked  *)
(* above information only for a finding of a file that loads it.           *)
(***************************************************************************)
\* the packages used where a finding is, which is not about the whole application
Concerned(f) ==
    IF f.rule \in {"MW-003", "MW-004"} THEN {} ELSE Used(<<f.file, f.line>>, Shown(<<f.file, f.line>>))
FindingsAreTraced ==
    /\ \A f \in Findings : \A k \in Concerned(f) :
          /\ "security_finding" \in Surface(k).riskLabels
          /\ severityRank[f.severity] <= Surface(k).highestSeverity
          /\ f.labelled => /\ "tainted_flow" \in Surface(k).riskLabels
                           /\ \E v \in FlowReviews : /\ v.packageName = k /\ v.file = f.file
                                                     /\ v.rule = f.rule /\ v.line = f.line
    /\ \A k \in PackageNames : Surface(k).highestSeverity > 0 =>
          \E f \in Findings : /\ severityRank[f.severity] = Surface(k).highestSeverity
                              /\ \E e \in Imports : e.file = f.file /\ e.packageName = k

(***************************************************************************)
(* Wherever the project is, the route modules below its app directory, or  *)
(* below one that is the first of the whole path, are taken to be served   *)
(* where Next.js serves them (nextRouteGraph.ts:123-149).  A module in the *)
(* app directory itself is not: its name is taken for a segment.           *)
(***************************************************************************)
NextAsServed ==
    \A r \in NextRoutesOf :
        LET app == SubSeq(Place[r.file], 1, AppDepth[r.file])
        IN /\ app # << >> /\ Len(Place[r.file]) > Len(app)
           /\ app \in {<<AppDir>>, <<SrcDir, AppDir>>} \/ AppDir \notin Sequence(root \o Front(app))
           => r.fullPath = ServedPath(r.file)
=============================================================================
