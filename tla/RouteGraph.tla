----------------------------- MODULE RouteGraph -----------------------------
(***************************************************************************)
(* Routes, mounts and guards of an Express program, as extractRouteGraph   *)
(* (parser/routeGraph.ts) reads them and as Express serves them, and the   *)
(* audits made of the extracted routes (RouteAudits), and of a document    *)
(* with them (engine/openapiDrift.ts).                                     *)
(*                                                                         *)
(* A step is one more call of the program: it is read by the extraction,   *)
(* which goes through the calls in the order of the source, and executed   *)
(* by Express.  So every state is a whole program, and its two readings.   *)
(* Paths are sequences of segments, so that "" and "/" are << >>.          *)
(***************************************************************************)
EXTENDS RouteAudits

CONSTANTS
    App, Routers,     \* variables that hold express() and express.Router()
    Calls,            \* calls programs are made of: [on, op, args]
    MaxCalls,
    Param,            \* what stands for any of them in the key of an operation
    Specs             \* OpenAPI documents: [operations, security]

Instances == {App} \cup Routers
Methods == {"GET", "HEAD", "POST", "PUT", "PATCH", "DELETE"}

\* An argument is a string literal, an identifier, a function with its text,
\* or another expression.
IsRouter(a) == a.kind = "id" /\ a.name \in Instances

HandlerName(a) == IF a.kind = "id" THEN a.name ELSE "anonymous"

Arguments == UNION {{c.args[i] : i \in DOMAIN c.args} : c \in Calls}
Segments == UNION {{a.path[i] : i \in DOMAIN a.path} : a \in {b \in Arguments : b.kind = "lit"}}

ASSUME RoutersAssumption == IsFiniteSet(Routers)

\* Express never answers where a router is mounted below itself.
ASSUME CallsAssumption ==
    /\ Calls \subseteq [on : Instances, op : {"use"} \cup Methods, args : Seq(Arguments) \ {<< >>}]
    /\ \A a \in Arguments : a.kind = "lit" => a.path \in Seq(Segments)
    /\ \E rank \in [Instances -> 1..Cardinality(Instances)] : \A c \in Calls :
          \A i \in DOMAIN c.args : IsRouter(c.args[i]) => rank[c.on] < rank[c.args[i].name]

\* The lists match no function that has no name.
ASSUME NamesAssumption == "anonymous" \notin AuthNames \cup CsrfNames \cup LimitNames

ASSUME SpecsAssumption ==
    \A d \in Specs : d.operations \in Seq({d.operations[i] : i \in DOMAIN d.operations})

VARIABLES
    n,          \* calls of the program
    \* the extraction
    baseFor,    \* path each instance is taken to be mounted at
    routes,     \* routes, in the order of the source
    \* Express
    stack,      \* layers of each instance: routes, mounts and guards
    \* the documentation
    spec,
    \* history, read by no guard
    inOrder,    \* each router is mounted once, before anything is put on it
    readable    \* the extraction saw the mount of each call that makes one

graphVars == <<n, baseFor, routes, stack, spec, inOrder, readable>>

GraphInit ==
    /\ n = 0
    /\ baseFor = [r \in Instances |-> << >>] /\ routes = << >>
    /\ stack = [r \in Instances |-> << >>]
    /\ spec \in Specs
    /\ inOrder = TRUE /\ readable = TRUE

-----------------------------------------------------------------------------
(* The extraction *)

joinPaths(base, segment) == base \o segment

\* literalString(a) ?? ""
Literal(a) == IF a.kind = "lit" THEN a.path ELSE << >>

\* the segment of the last mount only
MutMountPath(on, args) == Literal(args[1])
MountPath(on, args) ==
    joinPaths(baseFor[on], IF Len(args) >= 2 /\ args[2].kind = "id" THEN Literal(args[1]) ELSE << >>)

\* What a `use` is seen to mount: its second argument if that is an
\* identifier, else its first.
Seen(args) ==
    LET a == IF Len(args) >= 2 /\ args[2].kind = "id" THEN args[2] ELSE args[1]
    IN IF IsRouter(a) THEN {a.name} ELSE {}

\* the handler among the names
MutMiddlewareNames(args) == [i \in 1..Len(args) |-> HandlerName(args[i])]
\* the first of them only
MutMiddlewareFirst(args) == [i \in 1..1 |-> HandlerName(args[i])]
MiddlewareNames(args) == [i \in 1..(Len(args) - 1) |-> HandlerName(args[i])]

\* the last function among the arguments
LastHandler(args) ==
    LET fns == {i \in DOMAIN args : args[i].kind = "fn"}
    IN IF fns = {} THEN NoText ELSE args[CHOOSE i \in fns : \A j \in fns : j <= i].text

-----------------------------------------------------------------------------
(* Express *)

UsePath(args) == Literal(args[1])
Handlers(args) == IF args[1].kind = "lit" THEN Tail(args) ELSE args
Layer(path, h) ==
    IF IsRouter(h) THEN [kind |-> "mount", path |-> path, router |-> h.name]
                   ELSE [kind |-> "guard", path |-> path, name |-> HandlerName(h)]
Layers(args) == [i \in DOMAIN Handlers(args) |-> Layer(UsePath(args), Handlers(args)[i])]

Mounts(args) == {a \in Instances : \E i \in DOMAIN args : args[i].kind = "id" /\ args[i].name = a}
Mounted == {r \in Instances : \E o \in Instances : \E i \in DOMAIN stack[o] :
                stack[o][i].kind = "mount" /\ stack[o][i].router = r}
TwiceIn(args) == \E i, j \in DOMAIN args : i # j /\ IsRouter(args[i]) /\ args[i] = args[j]

-----------------------------------------------------------------------------
InOrder(c) ==
    /\ c.on \in {App} \cup Mounted
    /\ Mounts(c.args) \cap ({App} \cup Mounted) = {} /\ ~TwiceIn(c.args)

Use(c) ==
    /\ n < MaxCalls /\ c.op = "use"
    /\ baseFor' = [r \in Instances |-> IF r \in Seen(c.args) THEN MountPath(c.on, c.args)
                                                             ELSE baseFor[r]]
    /\ stack' = [stack EXCEPT ![c.on] = @ \o Layers(c.args)]
    /\ inOrder' = (inOrder /\ InOrder(c))
    /\ readable' = (readable /\ Seen(c.args) = Mounts(c.args))
    /\ n' = n + 1
    /\ UNCHANGED <<routes, spec>>

IsVerb(op) == op \in Methods

\* A path that is no literal is not followed.
Route(c) ==
    /\ n < MaxCalls /\ IsVerb(c.op) /\ c.args[1].kind = "lit"
    /\ routes' = Append(routes,
          [method |-> c.op, path |-> c.args[1].path,
           fullPath |-> joinPaths(baseFor[c.on], c.args[1].path),
           middlewares |-> MiddlewareNames(c.args), text |-> LastHandler(c.args), call |-> n + 1])
    /\ stack' = [stack EXCEPT ![c.on] = Append(@,
          [kind |-> "route", path |-> c.args[1].path, method |-> c.op,
           names |-> {HandlerName(c.args[i]) : i \in 2..(Len(c.args) - 1)},
           text |-> LastHandler(c.args), call |-> n + 1])]
    /\ inOrder' = (inOrder /\ InOrder(c))
    /\ n' = n + 1
    /\ UNCHANGED <<baseFor, spec, readable>>

GraphNext == \E c \in Calls : Use(c) \/ Route(c)

GraphSpec == GraphInit /\ [][GraphNext]_graphVars

-----------------------------------------------------------------------------
(* What Express answers to: for each route and each way to it through      *)
(* mounts, its full path and the names of all that runs before and in it.  *)

StartsWith(p, q) == Len(q) <= Len(p) /\ SubSeq(p, 1, Len(q)) = q

\* guards of r that run before layer i for requests to path, as seen from r
GuardsBefore(r, i, path) ==
    {stack[r][j].name : j \in {k \in 1..(i - 1) : stack[r][k].kind = "guard"
                                                  /\ StartsWith(path, stack[r][k].path)}}

\* the routes of r itself
RoutesOn(r) ==
    {[method |-> stack[r][i].method, own |-> stack[r][i].path, path |-> stack[r][i].path,
      call |-> stack[r][i].call, text |-> stack[r][i].text,
      names |-> stack[r][i].names \cup GuardsBefore(r, i, stack[r][i].path)] :
        i \in {k \in DOMAIN stack[r] : stack[r][k].kind = "route"}}

\* what is below the router that layer i of r mounts, from r
Through(r, i, s) ==
    LET path == stack[r][i].path \o s.path
        names == s.names \cup GuardsBefore(r, i, path)
    IN [s EXCEPT !.path = path, !.names = names]

\* below r, through at most d mounts
Below[d \in 0..Cardinality(Routers)] == [r \in Instances |->
    RoutesOn(r) \cup
        IF d = 0 THEN {}
        ELSE UNION {{Through(r, i, s) : s \in Below[d - 1][stack[r][i].router]} :
                       i \in {k \in DOMAIN stack[r] : stack[r][k].kind = "mount"}}]

Served == Below[Cardinality(Routers)][App]

-----------------------------------------------------------------------------
(* runMiddlewareAudit *)

Audit == UNION {{[rule |-> rule, call |-> routes[i].call] :
                    rule \in Rules(routes[i].method, routes[i].fullPath, routes[i].path,
                                   Sequence(routes[i].middlewares), routes[i].text)} : i \in DOMAIN routes}

-----------------------------------------------------------------------------
(* runOpenApiDriftAudit *)

OpKey(method, path) == <<method, [i \in DOMAIN path |-> IF path[i] \in ParamSegs THEN Param ELSE path[i]]>>

\* the path the router gives it
MutRouteKey(i) == OpKey(routes[i].method, routes[i].path)
RouteKey(i) == OpKey(routes[i].method, routes[i].fullPath)
SpecKey(i) == OpKey(spec.operations[i].method, spec.operations[i].path)

\* the first of each key
CodeByKey == {i \in DOMAIN routes : \A j \in 1..(i - 1) : RouteKey(j) # RouteKey(i)}
SpecByKey == {i \in DOMAIN spec.operations : \A j \in 1..(i - 1) : SpecKey(j) # SpecKey(i)}

\* An operation's own security comes before that of the document.
RequiresAuth(op) == IF op.security = "absent" THEN spec.security = "schemes" ELSE op.security = "schemes"

Drift ==
    IF SpecByKey = {} THEN {}
    ELSE {[rule |-> "API-INV-001", key |-> RouteKey(i)] : i \in
              {k \in CodeByKey : \A o \in SpecByKey : SpecKey(o) # RouteKey(k)}}
         \cup {[rule |-> "API-AUTH-001", key |-> SpecKey(o)] : o \in
              {k \in SpecByKey : /\ RequiresAuth(spec.operations[k])
                                 /\ \E i \in CodeByKey :
                                       /\ RouteKey(i) = SpecKey(k)
                                       /\ ~Matches(Sequence(routes[i].middlewares), AuthNames)}}
         \cup {[rule |-> "API-INV-002", key |-> SpecKey(o)] : o \in
              {k \in SpecByKey : \A i \in CodeByKey : RouteKey(i) # SpecKey(k)}}

-----------------------------------------------------------------------------
Plain == inOrder /\ readable

(***************************************************************************)
(* The extracted routes are those Express serves, each at the path it is   *)
(* served at (fullPath, routeGraph.ts:228), in programs that mount each    *)
(* router once, before they put anything on it, by calls whose mounts the  *)
(* extraction sees: mounts compose along nested routers.                   *)
(***************************************************************************)
AsServed ==
    {<<routes[i].call, routes[i].method, routes[i].fullPath>> : i \in DOMAIN routes}
      = {<<s.call, s.method, s.path>> : s \in Served}
RoutesAsServed == Plain => AsServed

(***************************************************************************)
(* No served route goes unreported that nothing guards: in every program,  *)
(* whatever its order and its mounts, as far as the route's own path calls *)
(* for a guard, and in plain programs for its full path.                   *)
(***************************************************************************)
Due(s, path) == {[rule |-> rule, call |-> s.call] : rule \in Rules(s.method, path, s.own, s.names, s.text)}
UnguardedIsReported ==
    \A s \in Served :
        /\ Plain => Due(s, s.path) \subseteq Audit
        /\ \A d \in Due(s, s.own) :
              \/ d \in Audit
              \/ d.rule = "AUTH-003" /\ [d EXCEPT !.rule = "AUTH-004"] \in Audit

(***************************************************************************)
(* In plain programs whose guards are all given with the routes, nothing   *)
(* is reported but what is due for what is served.                         *)
(***************************************************************************)
NoGuards == \A r \in Instances : \A i \in DOMAIN stack[r] : stack[r][i].kind # "guard"
ReportedIsUnguarded ==
    Plain /\ NoGuards => \A d \in Audit : \E s \in Served : d \in Due(s, s.path)

(***************************************************************************)
(* In plain programs the drift audit compares the document with what is    *)
(* served: an operation is undocumented, or a ghost, exactly when it is in *)
(* one of the two only, whatever its parameters are called; and one that   *)
(* the document secures is reported if nothing that answers to it is       *)
(* guarded.                                                                *)
(***************************************************************************)
ServedKeys == {OpKey(s.method, s.path) : s \in Served}
SpecKeys == {SpecKey(o) : o \in DOMAIN spec.operations}
KeysOf(rule) == {d.key : d \in {x \in Drift : x.rule = rule}}
DriftAsServed ==
    Plain /\ SpecKeys # {} =>
        /\ KeysOf("API-INV-001") = ServedKeys \ SpecKeys
        /\ KeysOf("API-INV-002") = SpecKeys \ ServedKeys
        /\ \A o \in SpecByKey :
              /\ RequiresAuth(spec.operations[o]) /\ SpecKey(o) \in ServedKeys
              /\ \A s \in Served : OpKey(s.method, s.path) = SpecKey(o) => ~Matches(s.names, AuthNames)
              => SpecKey(o) \in KeysOf("API-AUTH-001")

=============================================================================
