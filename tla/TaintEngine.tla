----------------------------- MODULE TaintEngine -----------------------------
(***************************************************************************)
(* The taint engine (engine/taintEngine.ts) on a program, and the program  *)
(* running.  A program is first written statement by statement, which is   *)
(* the order in which the engine goes through its assignments; then it     *)
(* runs: a statement may be left out, as in a branch not taken, and        *)
(* control may go back, as in a loop or a function called again.           *)
(*                                                                         *)
(* An expression is the sequence of the sources and variables in the parts *)
(* of it that exprIsSourceOrTainted looks into (operands of +, templates,  *)
(* arguments, under await and type assertions), from left to right.  Of an *)
(* argument that is an object literal the value of its `url` property is   *)
(* kept, which is looked at in the calls of axios only.  Other parts it    *)
(* does not look into, and targets of patterns it does not (rest, array     *)
(* and nested patterns), are left out of programs: no property is about    *)
(* them.                                                                   *)
(***************************************************************************)
EXTENDS Integers, FiniteSets, Sequences

CONSTANTS
    Vars,
    Sources,      \* request inputs, by label
    BodyOrQuery,  \* labels of body and query
    Callees,      \* functions a program calls: sinks, and wrappers of sinks
    Known,        \* sinks that matchKnownSink knows by name
    Declared,     \* functions of which the type checker has the declaration:
                  \* none without TypeScript analysis, which is off by default
    SinksIn,      \* calls of sinks in each, in order: [kind, params], where
                  \* params are the parameters it gets; of a known sink, itself
    Muted,        \* kinds whose severity is below the threshold
    Statements,   \* what programs are made of
    MaxLen, MaxJumps,
    NoLabel

Labels == Sources \cup {NoLabel}
Kinds == {"sql", "command", "path", "xpath", "log", "ssrf", "axiosConfig", "proto"}
Exprs == Seq(Vars \cup Sources)
\* An assignment replaces a value or (+=) adds to it; a pattern has more
\* than one target.  An argument that is an object literal has a url part only;
\* one that is a literal may have placeholders.
Assigns == [op : {"assign"}, to : SUBSET Vars, adds : BOOLEAN, expr : Exprs]
Args == [expr : Exprs, url : Exprs, holes : BOOLEAN]
Calls == [op : {"call"}, callee : Callees, args : Seq(Args)]

ASSUME LabelsAssumption ==
    /\ Vars \cap Sources = {} /\ NoLabel \notin Vars \cup Sources
    /\ BodyOrQuery \subseteq Sources
ASSUME ProgramsAssumption ==
    /\ Statements \subseteq Assigns \cup Calls
    /\ SinksIn \in [Callees -> Seq([kind : Kinds, params : Seq(Nat \ {0})])]
    /\ MaxLen \in Nat /\ MaxJumps \in Nat

VARIABLES
    program,
    tainted,   \* label of each variable, NoLabel if it has none
    pc,        \* next statement, 0 while the program is written
    env,       \* sources the value of each variable is made of
    \* history
    since,     \* statement that tainted each variable
    hits,      \* data of sources passed to sinks: [at, sink, arg, url, from]
    jumps, skipped

vars == <<program, tainted, pc, env, since, hits, jumps, skipped>>

Init ==
    /\ program = << >> /\ tainted = [v \in Vars |-> NoLabel]
    /\ pc = 0 /\ env = [v \in Vars |-> {}]
    /\ since = [v \in Vars |-> 0] /\ hits = {} /\ jumps = 0 /\ skipped = FALSE

-----------------------------------------------------------------------------
(* exprIsSourceOrTainted: the label of the first part that has one *)

LabelOf(x) == IF x \in Sources THEN x ELSE tainted[x]
Labelled(e) == {i \in DOMAIN e : LabelOf(e[i]) # NoLabel}
Leftmost(s) == CHOOSE i \in s : \A j \in s : i <= j
\* the first part only
MutLabel(e) == IF e = << >> THEN NoLabel ELSE LabelOf(e[1])
Label(e) == IF Labelled(e) = {} THEN NoLabel ELSE LabelOf(e[Leftmost(Labelled(e))])

\* addTainted: a label once given stays
Taint(s, v) == IF tainted[v] = NoLabel THEN Label(s.expr) ELSE tainted[v]

Targets(s) == IF s.op = "assign" THEN s.to ELSE {}

\* One more statement; the engine goes through it if it is an assignment.
Write(s) ==
    /\ pc = 0 /\ Len(program) < MaxLen
    /\ program' = Append(program, s)
    /\ tainted' = [v \in Vars |-> IF v \in Targets(s) THEN Taint(s, v) ELSE tainted[v]]
    /\ since' = [v \in Vars |-> IF tainted'[v] # tainted[v] THEN Len(program) + 1 ELSE since[v]]
    /\ UNCHANGED <<pc, env, hits, jumps, skipped>>

Run == pc = 0 /\ pc' = 1 /\ UNCHANGED <<program, tainted, env, since, hits, jumps, skipped>>

-----------------------------------------------------------------------------
(* resolveWrapperSink, matchKnownSink: of the sinks in a function that is  *)
(* known or declared, the first that uses a parameter, and the first       *)
(* parameter it uses                                                       *)

Using(c) == {i \in DOMAIN SinksIn[c] : c \in Known \cup Declared /\ SinksIn[c][i].params # << >>}
Resolved(c) == SinksIn[c][Leftmost(Using(c))]

\* always the first argument
MutArgIndex(sink) == 1
ArgIndex(sink) == IF sink.kind = "axiosConfig" THEN 1 ELSE Head(sink.params)

\* Of axios, and of a wrapper of it, the url in the call's own first argument
\* is looked at (getAxiosUrlExpression); of other sinks the argument.
Part(arg, url) == IF url THEN arg.url ELSE arg.expr
targetArg(s) == LET sink == Resolved(s.callee)
                IN Part(s.args[ArgIndex(sink)], sink.kind = "axiosConfig")

looksParameterized(s) == Len(s.args) > 1 /\ s.args[1].holes

\* What is reported of statement s.
Reported(s) ==
    /\ s.op = "call" /\ Using(s.callee) # {}
    /\ LET sink == Resolved(s.callee)
       IN /\ sink.kind \notin Muted
          /\ ArgIndex(sink) <= Len(s.args)
          /\ ~(sink.kind = "sql" /\ looksParameterized(s))
          /\ Label(targetArg(s)) # NoLabel
          /\ sink.kind = "proto" => Label(targetArg(s)) \in BodyOrQuery

-----------------------------------------------------------------------------
(* The program running *)

Here == program[pc]
Running == pc \in 1..Len(program)
ValueOf(e) == {x \in Sources : \E i \in DOMAIN e : e[i] = x \/ (e[i] \in Vars /\ x \in env[e[i]])}

Assign ==
    /\ Running /\ Here.op = "assign"
    /\ env' = [v \in Vars |-> IF v \notin Here.to THEN env[v]
                              ELSE ValueOf(Here.expr) \cup IF Here.adds THEN env[v] ELSE {}]
    /\ pc' = pc + 1
    /\ UNCHANGED <<program, tainted, since, hits, jumps, skipped>>

\* Every sink of the function gets all the parameters it uses.
Gets(sink, arg) == \E i \in DOMAIN sink.params : sink.params[i] = arg
Passed(s) ==
    {h \in [at : {pc}, sink : DOMAIN SinksIn[s.callee], arg : DOMAIN s.args,
            url : BOOLEAN, from : Sources] :
        /\ Gets(SinksIn[s.callee][h.sink], h.arg)
        /\ h.from \in ValueOf(Part(s.args[h.arg], h.url))}

Call ==
    /\ Running /\ Here.op = "call"
    /\ hits' = hits \cup Passed(Here)
    /\ pc' = pc + 1
    /\ UNCHANGED <<program, tainted, env, since, jumps, skipped>>

Skip ==
    /\ Running /\ pc' = pc + 1 /\ skipped' = TRUE
    /\ UNCHANGED <<program, tainted, env, since, hits, jumps>>

Jump ==
    /\ pc > 1 /\ jumps < MaxJumps
    /\ pc' \in 1..(pc - 1) /\ jumps' = jumps + 1
    /\ UNCHANGED <<program, tainted, env, since, hits, skipped>>

Next ==
    \/ \E s \in Statements : Write(s)
    \/ Run \/ Assign \/ Call \/ Skip \/ Jump

Spec == Init /\ [][Next]_vars

-----------------------------------------------------------------------------
TypeOK ==
    /\ program \in Seq(Statements) /\ Len(program) <= MaxLen
    /\ tainted \in [Vars -> Labels]
    /\ pc \in 0..(Len(program) + 1)
    /\ env \in [Vars -> SUBSET Sources]
    /\ since \in [Vars -> 0..Len(program)]
    /\ hits \subseteq [at : 1..Len(program), sink : Nat \ {0}, arg : Nat \ {0},
                       url : BOOLEAN, from : Sources]
    /\ jumps \in 0..MaxJumps /\ skipped \in BOOLEAN

(***************************************************************************)
(* "tracks user input (sources) to dangerous sinks and reports unsanitized *)
(* flow" (taintEngine.ts:1), as far as it goes: whenever a run passes      *)
(* request data to a sink the engine sees, by the part of the call it      *)
(* looks at, the call is reported; whatever statements the run leaves out, *)
(* and where it goes back, as long as no loop carries data to an earlier   *)
(* assignment.  It does not see, and nothing is claimed of: wrappers of    *)
(* which no declaration is known, so all of them without TypeScript        *)
(* analysis (253-255); axios, and wrappers of it, called with anything but *)
(* an object literal that has the url (409-411); other sinks and           *)
(* parameters of a wrapper than the first; data in other object literals.  *)
(* A merge is reported for labels of body and query only (428-434), and    *)
(* the first label of a variable stays: merges are claimed of programs     *)
(* that take nothing but body and query from the request.                  *)
(***************************************************************************)
\* h goes where the engine looks, and is not below the threshold
Followed(h) ==
    LET s == program[h.at]
        sink == SinksIn[s.callee][h.sink]
    IN /\ Using(s.callee) # {} /\ h.sink = Leftmost(Using(s.callee))
       /\ h.arg = ArgIndex(sink) /\ h.url = (sink.kind = "axiosConfig")
       /\ sink.kind \notin Muted
       /\ ~(sink.kind = "sql" /\ looksParameterized(s))
PartsOf(e) == {e[i] : i \in DOMAIN e}
Parts(s) == IF s.op = "assign" THEN PartsOf(s.expr)
            ELSE UNION {PartsOf(s.args[a].expr) \cup PartsOf(s.args[a].url) : a \in DOMAIN s.args}
Uses(s) == Parts(s) \cap Vars
OnlyBodyOrQuery == \A i \in DOMAIN program : Parts(program[i]) \cap Sources \subseteq BodyOrQuery
Excused(h) == SinksIn[program[h.at].callee][h.sink].kind = "proto" /\ ~OnlyBodyOrQuery
\* no assignment uses what a later statement assigns
NothingCarried == \A i, j \in DOMAIN program :
    i < j /\ program[i].op = "assign" => Targets(program[j]) \cap Uses(program[i]) = {}
FlowsAreReported ==
    jumps = 0 \/ NothingCarried => \A h \in hits : Followed(h) /\ ~Excused(h) => Reported(program[h.at])

(***************************************************************************)
(* Nothing is reported that does not happen, in programs that assign each  *)
(* variable once, and before its uses: run from the first statement to the *)
(* last, they pass data of a source to a sink at each reported call.  Not  *)
(* so where a wrapper of axios uses another parameter than its first: the  *)
(* url in the first argument is reported all the same (409-410).           *)
(***************************************************************************)
Misread(s) == LET sink == Resolved(s.callee) IN sink.kind = "axiosConfig" /\ ~Gets(sink, 1)
AssignedOnce ==
    \A i, j \in DOMAIN program :
        /\ i < j => Targets(program[j]) \cap Targets(program[i]) = {}
        /\ i <= j => Targets(program[j]) \cap Uses(program[i]) = {}
ReportsHappen ==
    pc = Len(program) + 1 /\ jumps = 0 /\ ~skipped /\ AssignedOnce =>
        \A i \in DOMAIN program : Reported(program[i]) /\ ~Misread(program[i]) =>
            \E h \in hits : h.at = i /\ Followed(h)
                            /\ h.from = Label(Part(program[i].args[h.arg], h.url))

=============================================================================
