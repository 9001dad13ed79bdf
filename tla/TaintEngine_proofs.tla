-------------------------- MODULE TaintEngine_proofs --------------------------
(***************************************************************************)
(* Proofs about TaintEngine, for all programs of any statements: the flows *)
(* of a run that follows the text, or whose loops carry nothing back, are  *)
(* reported.                                                               *)
(***************************************************************************)
EXTENDS TaintEngine, TLAPS, WellFoundedInduction

\* The statement that tainted a variable is an assignment to it.
TaintedSince ==
    \A v \in Vars : tainted[v] # NoLabel =>
        since[v] \in DOMAIN program /\ v \in Targets(program[since[v]])

\* e has a source, or a variable that was tainted by one of the first i statements.
LabelledBy(e, i) ==
    \E k \in DOMAIN e :
        e[k] \in Sources \/ (e[k] \in Vars /\ tainted[e[k]] # NoLabel /\ since[e[k]] <= i)

\* An assignment of such an expression taints its targets.
AssignmentsTaint ==
    \A i \in DOMAIN program :
        program[i].op = "assign" /\ LabelledBy(program[i].expr, i) =>
            \A v \in program[i].to : tainted[v] # NoLabel /\ since[v] <= i

\* Nothing runs before the program is written.
NotYetRun == pc = 0 => hits = {} /\ (\A v \in Vars : env[v] = {}) /\ jumps = 0 /\ ~skipped

\* A variable that holds data of a source has a label.
ValuesLabelled ==
    \A v \in Vars : env[v] # {} =>
        /\ jumps = 0 => tainted[v] # NoLabel /\ since[v] < pc
        /\ NothingCarried => tainted[v] # NoLabel

HitsArePassed ==
    \A h \in hits :
        LET s == program[h.at]
        IN /\ s.op = "call"
           /\ h.sink \in DOMAIN SinksIn[s.callee] /\ h.arg \in DOMAIN s.args
           /\ SinksIn[s.callee][h.sink].params # << >>

HitsLabelled ==
    jumps = 0 \/ NothingCarried =>
        \A h \in hits : Labelled(Part(program[h.at].args[h.arg], h.url)) # {}

\* A label is a source that the program has.
LabelsOccur ==
    OnlyBodyOrQuery => \A v \in Vars : tainted[v] \in BodyOrQuery \cup {NoLabel}

TaintInv ==
    /\ TypeOK /\ TaintedSince /\ AssignmentsTaint /\ NotYetRun /\ LabelsOccur
    /\ ValuesLabelled /\ HitsArePassed /\ HitsLabelled

-----------------------------------------------------------------------------
\* A set of numbers has a least one, which is its leftmost.
LEMMA LeftmostIsLeast ==
  ASSUME NEW S, S \subseteq Nat, S # {}
  PROVE  Leftmost(S) \in S /\ \A j \in S : Leftmost(S) <= j
  <1>. DEFINE Before == {ss \in Nat \X Nat : ss[1] < ss[2]}
  <1>1. IsWellFoundedOn(Before, Nat)
    BY NatLessThanWellFounded DEF OpToRel
  <1>. HIDE DEF Before
  <1>2. PICK i \in S : \A j \in S : ~(<<j, i>> \in Before)
    BY <1>1, WFMin
  <1>3. \A j \in S : ~(j < i)
    BY <1>2 DEF Before
  <1>4. \A j \in S : i <= j
    BY <1>3
  <1>. QED
    BY <1>4 DEF Leftmost

\* The shape of statements.
LEMMA StatementShape ==
  ASSUME NEW s \in Statements
  PROVE  /\ s.op \in {"assign", "call"}
         /\ s.op = "assign" => s.to \subseteq Vars /\ s.expr \in Exprs /\ s.adds \in BOOLEAN
         /\ s.op = "call" => /\ s.callee \in Callees
                             /\ s.args \in Seq(Args)
         /\ Targets(s) \subseteq Vars
  <1>1. CASE s \in Assigns
    BY <1>1 DEF Assigns, Targets
  <1>2. CASE s \in Calls
    BY <1>2 DEF Calls, Targets
  <1>. QED
    BY <1>1, <1>2, ProgramsAssumption

LEMMA SinkShape ==
  ASSUME NEW sinks \in Seq([kind : Kinds, params : Seq(Nat \ {0})]), NEW i \in DOMAIN sinks
  PROVE  sinks[i].params \in Seq(Nat \ {0})
  <1>. DEFINE Sink == [kind : Kinds, params : Seq(Nat \ {0})]
  <1>1. sinks[i] \in Sink
    <2>. HIDE DEF Sink
    <2>1. sinks \in Seq(Sink)
      BY DEF Sink
    <2>. QED
      BY <2>1
  <1>. QED
    BY <1>1

LEMMA ArgumentShape ==
  ASSUME NEW args \in Seq(Args), NEW k \in DOMAIN args
  PROVE  /\ k \in Nat \ {0} /\ k <= Len(args)
         /\ \A url \in BOOLEAN : Part(args[k], url) \in Exprs
  <1>1. k \in 1..Len(args) /\ Len(args) \in Nat
    OBVIOUS
  <1>2. args[k] \in Args
    BY <1>1
  <1>. QED
    BY <1>1, <1>2 DEF Args, Part

\* The label of an expression is one of a part of it, if any has one.
LEMMA LabelType ==
  ASSUME tainted \in [Vars -> Labels], NEW e \in Exprs
  PROVE  /\ Label(e) \in Labels
         /\ Label(e) # NoLabel <=> Labelled(e) # {}
         /\ Labelled(e) # {} => \E k \in Labelled(e) : Label(e) = LabelOf(e[k])
  <1>1. CASE Labelled(e) = {}
    BY <1>1 DEF Label, Labels
  <1>2. CASE Labelled(e) # {}
    <2>1. Labelled(e) \subseteq 1..Len(e) /\ Len(e) \in Nat
      BY DEF Labelled, Exprs
    <2>2. Leftmost(Labelled(e)) \in Labelled(e)
      BY <1>2, <2>1, LeftmostIsLeast
    <2>. DEFINE k == Leftmost(Labelled(e))
    <2>3. k \in DOMAIN e /\ LabelOf(e[k]) # NoLabel
      BY <2>2 DEF Labelled
    <2>4. e[k] \in Vars \cup Sources
      BY <2>3 DEF Exprs
    <2>5. LabelOf(e[k]) \in Labels
      BY <2>4 DEF LabelOf, Labels
    <2>6. Label(e) = LabelOf(e[k])
      BY <1>2 DEF Label
    <2>. QED
      BY <1>2, <2>2, <2>3, <2>5, <2>6
  <1>. QED
    BY <1>1, <1>2

-----------------------------------------------------------------------------
\* Before anything is written.
LEMMA InitInv == Init => TaintInv
  <1>. SUFFICES ASSUME Init PROVE TaintInv
    OBVIOUS
  <1>1. program \in Seq(Statements) /\ Len(program) = 0 /\ Len(program) <= MaxLen
    BY ProgramsAssumption DEF Init
  <1>2. tainted \in [Vars -> Labels] /\ env \in [Vars -> SUBSET Sources] /\ since \in [Vars -> 0..Len(program)]
    BY <1>1 DEF Init, Labels
  <1>3. pc \in 0..(Len(program) + 1) /\ hits = {} /\ jumps \in 0..MaxJumps
    BY <1>1, ProgramsAssumption DEF Init
  <1>5. skipped \in BOOLEAN
    BY DEF Init
  <1>4. TypeOK
    BY <1>1, <1>2, <1>3, <1>5 DEF TypeOK
  <1>. QED
    BY <1>4 DEF Init, TaintInv, TaintedSince, AssignmentsTaint, NotYetRun, ValuesLabelled,
                HitsArePassed, HitsLabelled, LabelsOccur

\* What labels an expression at any statement labels it.
LEMMA LabelledByIsLabelled ==
  ASSUME TypeOK, NEW e \in Exprs, NEW i
  PROVE  LabelledBy(e, i) => Labelled(e) # {}
  BY LabelsAssumption DEF LabelledBy, Labelled, LabelOf, TypeOK

\* An expression whose value holds data of a source is labelled, in a run
\* that follows the text by a statement before the one that runs.
LEMMA ValueLabelled ==
  ASSUME TaintInv, NEW e \in Exprs, ValueOf(e) # {}
  PROVE  /\ jumps = 0 => LabelledBy(e, pc - 1)
         /\ NothingCarried => Labelled(e) # {}
  <1>1. PICK x \in Sources, k \in DOMAIN e : e[k] = x \/ (e[k] \in Vars /\ x \in env[e[k]])
    BY DEF ValueOf
  <1>2. CASE e[k] = x
    BY <1>2, LabelsAssumption DEF LabelledBy, Labelled, LabelOf
  <1>3. CASE e[k] \in Vars /\ x \in env[e[k]]
    <2>1. /\ jumps = 0 => tainted[e[k]] # NoLabel /\ since[e[k]] < pc
          /\ NothingCarried => tainted[e[k]] # NoLabel
      BY <1>3 DEF TaintInv, ValuesLabelled
    <2>2. since[e[k]] \in Int /\ pc \in Int
      BY <1>3 DEF TaintInv, TypeOK
    <2>3. e[k] \notin Sources
      BY <1>3, LabelsAssumption
    <2>4. jumps = 0 => LabelledBy(e, pc - 1)
      BY <1>3, <2>1, <2>2 DEF LabelledBy
    <2>5. NothingCarried => Labelled(e) # {}
      BY <1>3, <2>1, <2>3 DEF Labelled, LabelOf
    <2>. QED
      BY <2>4, <2>5
  <1>. QED
    BY <1>1, <1>2, <1>3

\* Where the program has sources of body and query only, so have the labels.
LEMMA LabelOccurs ==
  ASSUME TaintInv, OnlyBodyOrQuery, NEW e \in Exprs,
         PartsOf(e) \cap Sources \subseteq BodyOrQuery, Label(e) # NoLabel
  PROVE  Label(e) \in BodyOrQuery
  <1>1. PICK k \in Labelled(e) : Label(e) = LabelOf(e[k])
    BY LabelType DEF TaintInv, TypeOK
  <1>2. k \in DOMAIN e /\ e[k] \in Vars \cup Sources
    BY <1>1 DEF Labelled, Exprs
  <1>3. CASE e[k] \in Sources
    BY <1>1, <1>2, <1>3 DEF LabelOf, PartsOf
  <1>4. CASE e[k] \notin Sources
    BY <1>1, <1>2, <1>4 DEF LabelOf, TaintInv, LabelsOccur
  <1>. QED
    BY <1>3, <1>4

-----------------------------------------------------------------------------
\* One more statement is written, and taints what it assigns.
LEMMA WriteInv == ASSUME TaintInv, NEW s \in Statements, Write(s) PROVE TaintInv'
  <1>. DEFINE m == Len(program) + 1
  <1>1. /\ program \in Seq(Statements) /\ Len(program) \in Nat /\ Len(program) < MaxLen
        /\ tainted \in [Vars -> Labels] /\ since \in [Vars -> 0..Len(program)]
    BY ProgramsAssumption DEF TaintInv, TypeOK, Write
  <1>2. /\ program' = Append(program, s) /\ program' \in Seq(Statements) /\ Len(program') = m
        /\ DOMAIN program' = 1..m /\ program'[m] = s
        /\ \A i \in DOMAIN program : i \in 1..(m - 1) /\ program'[i] = program[i]
        /\ \A i \in DOMAIN program' : i = m \/ i \in DOMAIN program
    BY <1>1 DEF Write
  <1>3. /\ s.op = "assign" => s.to \subseteq Vars /\ s.expr \in Exprs /\ Targets(s) = s.to
        /\ s.op # "assign" => Targets(s) = {}
        /\ Targets(s) \subseteq Vars
    BY StatementShape DEF Targets
  <1>4. /\ pc = 0 /\ pc' = 0 /\ hits = {} /\ hits' = {} /\ jumps = 0 /\ jumps' = 0 /\ env' = env
        /\ \A v \in Vars : env[v] = {}
    BY DEF TaintInv, NotYetRun, Write
  <1>4a. ~skipped' /\ skipped' \in BOOLEAN
    BY DEF TaintInv, TypeOK, NotYetRun, Write
  <1>5. \A v \in Vars : v \in Targets(s) => Taint(s, v) \in Labels
    BY <1>1, <1>3, LabelType DEF Taint, Targets
  <1>6. /\ tainted' \in [Vars -> Labels]
        /\ \A v \in Vars : tainted'[v] = IF v \in Targets(s) THEN Taint(s, v) ELSE tainted[v]
    BY <1>1, <1>5 DEF Write
  <1>7. /\ since' \in [Vars -> 0..m]
        /\ \A v \in Vars : since'[v] = IF tainted'[v] # tainted[v] THEN m ELSE since[v]
    BY <1>1 DEF Write
  <1>8. \A v \in Vars : \/ tainted'[v] = tainted[v] /\ since'[v] = since[v]
                        \/ /\ tainted[v] = NoLabel /\ tainted'[v] = Label(s.expr) /\ since'[v] = m
                           /\ s.op = "assign" /\ Label(s.expr) # NoLabel /\ v \in s.to
    BY <1>3, <1>6, <1>7 DEF Taint
  <1>9. \A v \in Vars : tainted[v] # NoLabel => tainted'[v] = tainted[v] /\ since'[v] = since[v]
    BY <1>8
  <1>10. TypeOK'
    <2>1. m <= MaxLen /\ pc' \in 0..(m + 1) /\ jumps' \in 0..MaxJumps
      BY <1>1, <1>4, ProgramsAssumption
    <2>2. env' \in [Vars -> SUBSET Sources]
      BY <1>4 DEF TaintInv, TypeOK
    <2>. HIDE DEF m
    <2>. QED
      BY <1>2, <1>4, <1>4a, <1>6, <1>7, <2>1, <2>2 DEF TypeOK
  <1>11. TaintedSince'
    <2>1. SUFFICES ASSUME NEW v \in Vars, tainted'[v] # NoLabel
                   PROVE  since'[v] \in DOMAIN program' /\ v \in Targets(program'[since'[v]])
      BY DEF TaintedSince, Targets
    <2>2. CASE tainted[v] # NoLabel
      <3>1. since[v] \in DOMAIN program /\ v \in Targets(program[since[v]])
        BY <2>2 DEF TaintInv, TaintedSince
      <3>. QED
        BY <3>1, <2>2, <1>9, <1>2
    <2>3. CASE tainted[v] = NoLabel
      BY <2>1, <2>3, <1>8, <1>2, <1>3
    <2>. QED
      BY <2>2, <2>3
  <1>12. AssignmentsTaint'
    <2>1. SUFFICES ASSUME NEW i \in DOMAIN program', program'[i].op = "assign",
                          LabelledBy(program[i].expr, i)', NEW v \in program'[i].to
                   PROVE  tainted'[v] # NoLabel /\ since'[v] <= i
      BY DEF AssignmentsTaint
    <2>2. PICK k \in DOMAIN program'[i].expr :
             \/ program'[i].expr[k] \in Sources
             \/ /\ program'[i].expr[k] \in Vars /\ tainted'[program'[i].expr[k]] # NoLabel
                /\ since'[program'[i].expr[k]] <= i
      BY <2>1 DEF LabelledBy
    <2>3. CASE i = m
      <3>1. k \in DOMAIN s.expr /\ s.op = "assign" /\ v \in s.to /\ v \in Vars /\ s.expr \in Exprs
        BY <2>1, <2>3, <1>2, <1>3
      <3>2. Label(s.expr) # NoLabel
        <4>1. CASE s.expr[k] \in Sources
          <5>1. k \in Labelled(s.expr)
            BY <3>1, <4>1, LabelsAssumption DEF Labelled, LabelOf
          <5>. QED
            BY <3>1, <5>1, <1>1, LabelType
        <4>2. CASE s.expr[k] \in Vars /\ tainted'[s.expr[k]] # NoLabel
          <5>1. CASE tainted[s.expr[k]] # NoLabel
            <6>1. k \in Labelled(s.expr)
              BY <3>1, <4>2, <5>1, LabelsAssumption DEF Labelled, LabelOf
            <6>. QED
              BY <3>1, <6>1, <1>1, LabelType
          <5>2. CASE tainted[s.expr[k]] = NoLabel
            BY <4>2, <5>2, <1>8
          <5>. QED
            BY <5>1, <5>2
        <4>. QED
          BY <4>1, <4>2, <2>2, <2>3, <1>2
      <3>3. tainted'[v] # NoLabel
        BY <3>1, <3>2, <1>3, <1>6 DEF Taint
      <3>4. since'[v] \in 0..m
        BY <3>1, <1>7
      <3>. QED
        BY <3>3, <3>4, <2>3
    <2>4. CASE i \in DOMAIN program
      <3>1. program'[i] = program[i] /\ i < m /\ i \in Nat
        BY <2>4, <1>1, <1>2
      <3>2. program[i] \in Statements
        BY <2>4, <1>1
      <3>3. program[i].to \subseteq Vars
        BY <3>1, <3>2, <2>1, StatementShape
      <3>4. LabelledBy(program[i].expr, i)
        BY <2>2, <3>1, <1>8, <1>1 DEF LabelledBy
      <3>5. tainted[v] # NoLabel /\ since[v] <= i
        BY <2>1, <2>4, <3>1, <3>4 DEF TaintInv, AssignmentsTaint
      <3>. QED
        BY <2>1, <3>1, <3>3, <3>5, <1>9
    <2>. QED
      BY <2>3, <2>4, <1>2
  <1>13. LabelsOccur'
    <2>. SUFFICES ASSUME OnlyBodyOrQuery', NEW v \in Vars
                  PROVE  tainted'[v] \in BodyOrQuery \cup {NoLabel}
      BY DEF LabelsOccur
    <2>1. OnlyBodyOrQuery /\ Parts(s) \cap Sources \subseteq BodyOrQuery
      BY <1>1, <1>2 DEF OnlyBodyOrQuery, Parts, PartsOf
    <2>2. CASE tainted'[v] = tainted[v]
      BY <2>1, <2>2 DEF TaintInv, LabelsOccur
    <2>3. CASE /\ tainted'[v] = Label(s.expr) /\ s.op = "assign" /\ Label(s.expr) # NoLabel
      <3>1. s.expr \in Exprs /\ PartsOf(s.expr) \cap Sources \subseteq BodyOrQuery
        BY <1>3, <2>1, <2>3 DEF Parts
      <3>. QED
        BY <2>1, <2>3, <3>1, LabelOccurs
    <2>. QED
      BY <1>8, <2>2, <2>3
  <1>. QED
    BY <1>4, <1>4a, <1>10, <1>11, <1>12, <1>13
       DEF TaintInv, NotYetRun, ValuesLabelled, HitsArePassed, HitsLabelled

-----------------------------------------------------------------------------
\* A running program is not written any more, and the engine's labels stay.
Written == /\ program' = program /\ tainted' = tainted /\ since' = since
           /\ pc' \in 1..(Len(program) + 1) /\ jumps' \in 0..MaxJumps /\ skipped' \in BOOLEAN

LEMMA HitsLabelledStay ==
  ASSUME Written, jumps' = 0 => jumps = 0,
         \A h \in hits' : jumps = 0 \/ NothingCarried =>
             Labelled(Part(program[h.at].args[h.arg], h.url)) # {}
  PROVE  HitsLabelled'
  <1>1. NothingCarried' => NothingCarried
    BY DEF Written, NothingCarried, Targets, Uses, Parts, PartsOf
  <1>2. ASSUME NEW h PROVE Labelled(Part(program[h.at].args[h.arg], h.url))'
                             = Labelled(Part(program[h.at].args[h.arg], h.url))
    BY DEF Written, Labelled, LabelOf, Part
  <1>3. (jumps = 0 \/ NothingCarried)' => jumps = 0 \/ NothingCarried
    BY <1>1
  <1>. QED
    BY <1>2, <1>3 DEF HitsLabelled

\* What is left to show of a step of the running program.
LEMMA RunningInv ==
  ASSUME TaintInv, Written,
         env' \in [Vars -> SUBSET Sources], ValuesLabelled',
         hits' \subseteq [at : 1..Len(program), sink : Nat \ {0}, arg : Nat \ {0}, url : BOOLEAN, from : Sources],
         HitsArePassed', HitsLabelled'
  PROVE  TaintInv'
  <1>1. Len(program) \in Nat
    BY DEF TaintInv, TypeOK
  <1>2. pc' # 0 /\ pc' \in 0..(Len(program) + 1)
    BY <1>1 DEF Written
  <1>3. TypeOK'
    BY <1>2 DEF TaintInv, TypeOK, Written
  <1>4. TaintedSince'
    BY DEF TaintInv, TaintedSince, Written, Targets
  <1>5. AssignmentsTaint'
    BY DEF TaintInv, AssignmentsTaint, LabelledBy, Written
  <1>6. NotYetRun'
    BY <1>2 DEF NotYetRun
  <1>7. LabelsOccur'
    BY DEF TaintInv, LabelsOccur, OnlyBodyOrQuery, Parts, PartsOf, Written
  <1>. QED
    BY <1>3, <1>4, <1>5, <1>6, <1>7 DEF TaintInv

LEMMA HitsStay ==
  ASSUME TaintInv, Written, hits' = hits, jumps' = 0 => jumps = 0
  PROVE  /\ hits' \subseteq [at : 1..Len(program), sink : Nat \ {0}, arg : Nat \ {0}, url : BOOLEAN, from : Sources]
         /\ HitsArePassed' /\ HitsLabelled'
  <1>1. HitsArePassed'
    BY DEF TaintInv, HitsArePassed, Written
  <1>2. HitsLabelled'
    BY HitsLabelledStay DEF TaintInv, HitsLabelled
  <1>. QED
    BY <1>1, <1>2 DEF TaintInv, TypeOK

\* Steps that only move the control, forwards or by a jump.
LEMMA MoveInv ==
  ASSUME TaintInv, Written, env' = env, hits' = hits,
         jumps' = 0 => jumps = 0 /\ pc' >= pc
  PROVE  TaintInv'
  <1>1. pc \in Int /\ pc' \in Int /\ since \in [Vars -> Int]
    BY DEF TaintInv, TypeOK, Written
  <1>2. ValuesLabelled'
    BY <1>1 DEF TaintInv, ValuesLabelled, Written, NothingCarried, Targets, Uses, Parts, PartsOf
  <1>3. env' \in [Vars -> SUBSET Sources]
    BY DEF TaintInv, TypeOK
  <1>. QED
    BY <1>2, <1>3, HitsStay, RunningInv

LEMMA RunInv == TaintInv /\ Run => TaintInv'
  <1>. SUFFICES ASSUME TaintInv, Run PROVE TaintInv'
    OBVIOUS
  <1>1. Len(program) \in Nat /\ jumps \in 0..MaxJumps
    BY DEF TaintInv, TypeOK
  <1>2. skipped' \in BOOLEAN
    BY DEF TaintInv, TypeOK, Run
  <1>. QED
    BY <1>1, <1>2, MoveInv DEF Run, Written

LEMMA SkipInv == TaintInv /\ Skip => TaintInv'
  <1>. SUFFICES ASSUME TaintInv, Skip PROVE TaintInv'
    OBVIOUS
  <1>1. Len(program) \in Nat /\ jumps \in 0..MaxJumps
    BY DEF TaintInv, TypeOK
  <1>2. skipped' \in BOOLEAN
    BY DEF Skip
  <1>. QED
    BY <1>1, <1>2, MoveInv DEF Skip, Written, Running

LEMMA JumpInv == TaintInv /\ Jump => TaintInv'
  <1>. SUFFICES ASSUME TaintInv, Jump PROVE TaintInv'
    OBVIOUS
  <1>1. Len(program) \in Nat /\ jumps \in 0..MaxJumps /\ MaxJumps \in Nat
        /\ pc \in 0..(Len(program) + 1)
    BY ProgramsAssumption DEF TaintInv, TypeOK
  <1>2. skipped' \in BOOLEAN
    BY DEF TaintInv, TypeOK, Jump
  <1>3. jumps' \in 1..MaxJumps /\ pc' \in 1..(Len(program) + 1)
    BY <1>1 DEF Jump
  <1>4. Written /\ jumps' # 0
    BY <1>2, <1>3 DEF Jump, Written
  <1>. QED
    BY <1>4, MoveInv DEF Jump

\* The targets of an assignment that runs get data only if they are labelled.
LEMMA AssignInv == TaintInv /\ Assign => TaintInv'
  <1>. SUFFICES ASSUME TaintInv, Assign PROVE TaintInv'
    OBVIOUS
  <1>1. /\ pc \in DOMAIN program /\ pc \in Nat /\ program[pc] \in Statements
        /\ program[pc].op = "assign" /\ Len(program) \in Nat
    BY DEF TaintInv, TypeOK, Assign, Running, Here
  <1>2. Here.expr \in Exprs /\ Here = program[pc] /\ Here.to \subseteq Vars
        /\ Targets(Here) = Here.to
    BY <1>1, StatementShape DEF Here, Targets
  <1>3. since \in [Vars -> Int] /\ jumps \in 0..MaxJumps /\ jumps' = jumps /\ pc' = pc + 1
    BY DEF TaintInv, TypeOK, Assign
  <1>4. skipped' \in BOOLEAN
    BY DEF TaintInv, TypeOK, Assign
  <1>5. Written
    <2>1. pc \in 1..Len(program) /\ Len(program) \in Nat
      BY <1>1, ProgramsAssumption DEF TaintInv, TypeOK
    <2>2. pc' \in 1..(Len(program) + 1)
      BY <1>3, <2>1
    <2>. QED
      BY <2>2, <1>3, <1>4 DEF Assign, Written
  <1>6. ValueOf(Here.expr) \subseteq Sources
    BY DEF ValueOf
  <1>7. env' \in [Vars -> SUBSET Sources]
    BY <1>6 DEF TaintInv, TypeOK, Assign
  <1>8. \A v \in Vars : env'[v] # {} =>
           \/ env[v] # {}
           \/ v \in Here.to /\ ValueOf(Here.expr) # {}
    BY DEF Assign
  <1>9. ASSUME ValueOf(Here.expr) # {}, jumps = 0 \/ NothingCarried
        PROVE  LabelledBy(Here.expr, pc)
    <2>1. CASE jumps = 0
      <3>1. LabelledBy(Here.expr, pc - 1)
        BY <1>2, <1>9, <2>1, ValueLabelled
      <3>2. PICK k \in DOMAIN Here.expr :
              \/ Here.expr[k] \in Sources
              \/ Here.expr[k] \in Vars /\ tainted[Here.expr[k]] # NoLabel
                 /\ since[Here.expr[k]] <= pc - 1
        BY <3>1 DEF LabelledBy
      <3>3. Here.expr[k] \in Vars => since[Here.expr[k]] \in Int
        BY <1>3
      <3>. QED
        BY <3>2, <3>3, <1>1 DEF LabelledBy
    <2>2. CASE NothingCarried
      <3>1. PICK k \in DOMAIN Here.expr : LabelOf(Here.expr[k]) # NoLabel
        BY <1>2, <1>9, <2>2, ValueLabelled DEF Labelled
      <3>2. Here.expr[k] \in Vars \cup Sources
        BY <1>2 DEF Exprs
      <3>3. CASE Here.expr[k] \in Sources
        BY <3>3 DEF LabelledBy
      <3>4. CASE Here.expr[k] \in Vars /\ Here.expr[k] \notin Sources
        <4>. DEFINE u == Here.expr[k]
        <4>1. tainted[u] # NoLabel
          BY <3>1, <3>4 DEF LabelOf
        <4>2. since[u] \in DOMAIN program /\ u \in Targets(program[since[u]])
          BY <3>4, <4>1 DEF TaintInv, TaintedSince
        <4>3. u \in Uses(program[pc])
          BY <1>1, <1>2, <3>4 DEF Uses, Parts, PartsOf
        <4>4. ~(pc < since[u])
          BY <4>2, <4>3, <1>1, <2>2 DEF NothingCarried
        <4>5. since[u] <= pc
          BY <4>4, <1>1, <1>3, <3>4
        <4>. QED
          BY <4>1, <4>5, <3>4 DEF LabelledBy
      <3>. QED
        BY <3>2, <3>3, <3>4
    <2>. QED
      BY <1>9, <2>1, <2>2
  <1>10. ASSUME NEW v \in Vars, env'[v] # {}
         PROVE  /\ jumps = 0 => tainted[v] # NoLabel /\ since[v] < pc + 1
                /\ NothingCarried => tainted[v] # NoLabel
    <2>1. CASE env[v] # {}
      BY <2>1, <1>3, <1>1 DEF TaintInv, ValuesLabelled
    <2>2. CASE v \in Here.to /\ ValueOf(Here.expr) # {}
      <3>1. jumps = 0 \/ NothingCarried => tainted[v] # NoLabel /\ since[v] <= pc
        BY <2>2, <1>1, <1>2, <1>9 DEF TaintInv, AssignmentsTaint
      <3>. QED
        BY <3>1, <1>1, <1>3
    <2>. QED
      BY <1>8, <1>10, <2>1, <2>2
  <1>11. ValuesLabelled'
    BY <1>3, <1>5, <1>10 DEF ValuesLabelled, Written, NothingCarried, Targets, Uses, Parts, PartsOf
  <1>. QED
    BY <1>3, <1>5, <1>7, <1>11, HitsStay, RunningInv DEF Assign

\* What a call passes to a sink is labelled if it is data of a source.
LEMMA CallInv == TaintInv /\ Call => TaintInv'
  <1>. SUFFICES ASSUME TaintInv, Call PROVE TaintInv'
    OBVIOUS
  <1>1. /\ pc \in DOMAIN program /\ pc \in Nat /\ program[pc] \in Statements
        /\ program[pc].op = "call" /\ Len(program) \in Nat /\ pc \in 1..Len(program)
        /\ Here = program[pc]
    BY DEF TaintInv, TypeOK, Call, Running, Here
  <1>2. Here.callee \in Callees /\ Here.args \in Seq(Args)
    BY <1>1, StatementShape
  <1>3. since \in [Vars -> Int] /\ jumps \in 0..MaxJumps /\ jumps' = jumps /\ pc' = pc + 1
    BY DEF TaintInv, TypeOK, Call
  <1>4. skipped' \in BOOLEAN
    BY DEF TaintInv, TypeOK, Call
  <1>5. Written
    BY <1>1, <1>3, <1>4 DEF Call, Written
  <1>6. env' = env /\ env' \in [Vars -> SUBSET Sources]
    BY DEF TaintInv, TypeOK, Call
  <1>7. ValuesLabelled'
    BY <1>1, <1>3, <1>5, <1>6
       DEF TaintInv, ValuesLabelled, Written, NothingCarried, Targets, Uses, Parts, PartsOf
  <1>8. SinksIn[Here.callee] \in Seq([kind : Kinds, params : Seq(Nat \ {0})])
    BY <1>2, ProgramsAssumption
  <1>9. ASSUME NEW h \in Passed(Here)
        PROVE  /\ h \in [at : 1..Len(program), sink : Nat \ {0}, arg : Nat \ {0}, url : BOOLEAN, from : Sources]
               /\ h.at = pc /\ h.sink \in DOMAIN SinksIn[Here.callee] /\ h.arg \in DOMAIN Here.args
               /\ SinksIn[Here.callee][h.sink].params # << >>
               /\ ValueOf(Part(Here.args[h.arg], h.url)) # {}
               /\ Part(Here.args[h.arg], h.url) \in Exprs
    <2>1. /\ h \in [at : {pc}, sink : DOMAIN SinksIn[Here.callee], arg : DOMAIN Here.args, url : BOOLEAN, from : Sources]
          /\ \E i \in DOMAIN SinksIn[Here.callee][h.sink].params :
                SinksIn[Here.callee][h.sink].params[i] = h.arg
          /\ h.from \in ValueOf(Part(Here.args[h.arg], h.url))
      BY DEF Passed, Gets
    <2>2. /\ h.at = pc /\ h.sink \in DOMAIN SinksIn[Here.callee] /\ h.arg \in DOMAIN Here.args
          /\ h.url \in BOOLEAN
      BY <2>1
    <2>3. DOMAIN SinksIn[Here.callee] \subseteq Nat \ {0} /\ DOMAIN Here.args \subseteq Nat \ {0}
      BY <1>2, <1>8
    <2>4. h \in [at : 1..Len(program), sink : Nat \ {0}, arg : Nat \ {0}, url : BOOLEAN, from : Sources]
      BY <2>1, <2>3, <1>1
    <2>5. SinksIn[Here.callee][h.sink].params # << >>
      BY <2>1
    <2>6. Part(Here.args[h.arg], h.url) \in Exprs
      BY <2>2, <1>2, ArgumentShape
    <2>. QED
      BY <2>1, <2>2, <2>4, <2>5, <2>6
  <1>10. hits' = hits \cup Passed(Here)
    BY DEF Call
  <1>11. hits' \subseteq [at : 1..Len(program), sink : Nat \ {0}, arg : Nat \ {0}, url : BOOLEAN, from : Sources]
    BY <1>9, <1>10 DEF TaintInv, TypeOK
  <1>12. HitsArePassed'
    BY <1>1, <1>5, <1>9, <1>10 DEF TaintInv, HitsArePassed, Written
  <1>13. ASSUME jumps = 0 \/ NothingCarried, NEW h \in hits'
         PROVE  Labelled(Part(program[h.at].args[h.arg], h.url)) # {}
    <2>1. CASE h \in hits
      BY <2>1, <1>13 DEF TaintInv, HitsLabelled
    <2>2. CASE h \in Passed(Here)
      <3>. DEFINE e == Part(Here.args[h.arg], h.url)
      <3>1. ValueOf(e) # {} /\ e \in Exprs /\ h.at = pc
        BY <2>2, <1>9
      <3>2. Labelled(e) # {}
        BY <3>1, <1>13, ValueLabelled, LabelledByIsLabelled DEF TaintInv
      <3>. QED
        BY <3>1, <3>2, <1>1
    <2>. QED
      BY <1>10, <1>13, <2>1, <2>2
  <1>14. HitsLabelled'
    BY <1>3, <1>5, <1>13, HitsLabelledStay
  <1>. QED
    BY <1>5, <1>6, <1>7, <1>11, <1>12, <1>14, RunningInv

-----------------------------------------------------------------------------
LEMMA StutterInv == TaintInv /\ UNCHANGED vars => TaintInv'
  <1>. SUFFICES ASSUME TaintInv, UNCHANGED vars PROVE TaintInv'
    OBVIOUS
  <1>1. TypeOK'
    BY DEF TaintInv, TypeOK, vars
  <1>2. TaintedSince' /\ AssignmentsTaint'
    BY DEF TaintInv, vars, TaintedSince, AssignmentsTaint, LabelledBy, Targets
  <1>3. NotYetRun'
    BY DEF TaintInv, vars, NotYetRun
  <1>4. ValuesLabelled'
    BY DEF TaintInv, vars, ValuesLabelled, NothingCarried, Targets, Uses, Parts, PartsOf
  <1>5. HitsArePassed'
    BY DEF TaintInv, vars, HitsArePassed
  <1>5a. HitsLabelled'
    <2>1. NothingCarried' => NothingCarried
      BY DEF vars, NothingCarried, Targets, Uses, Parts, PartsOf
    <2>2. ASSUME NEW e PROVE Labelled(e)' = Labelled(e)
      BY DEF vars, Labelled, LabelOf
    <2>. QED
      BY <2>1, <2>2 DEF TaintInv, HitsLabelled, vars, Part
  <1>6. LabelsOccur'
    BY DEF TaintInv, LabelsOccur, OnlyBodyOrQuery, Parts, PartsOf, vars
  <1>. QED
    BY <1>1, <1>2, <1>3, <1>4, <1>5, <1>5a, <1>6 DEF TaintInv

\* The inductive invariant holds of all programs, while they are written
\* and while they run.
THEOREM InvCorrect == Spec => []TaintInv
  <1>1. TaintInv /\ [Next]_vars => TaintInv'
    <2>. SUFFICES ASSUME TaintInv, [Next]_vars PROVE TaintInv'
      OBVIOUS
    <2>1. ASSUME NEW s \in Statements, Write(s) PROVE TaintInv'
      BY <2>1, WriteInv
    <2>. QED
      BY <2>1, RunInv, AssignInv, CallInv, SkipInv, JumpInv, StutterInv DEF Next
  <1>. QED
    BY <1>1, InitInv, PTL DEF Spec

\* The engine's labels are labels and a program's data is of its sources
\* (taintEngine.ts:294, :345).
THEOREM TypeCorrect == Spec => []TypeOK
  <1>1. TaintInv => TypeOK
    BY DEF TaintInv
  <1>. QED
    BY <1>1, InvCorrect, PTL

\* Data of a source that a run passes to a sink the engine sees, by the part
\* of the call it looks at, is reported (taintEngine.ts:400), in a run that
\* follows the text or in a program whose loops carry nothing back.  What it
\* does not see, wrappers without a declaration (253) and axios without the url
\* in an object literal (410) among it, is said at FlowsAreReported.
THEOREM FlowsReported == Spec => []FlowsAreReported
  <1>1. TaintInv => FlowsAreReported
    <2>. SUFFICES ASSUME TaintInv, jumps = 0 \/ NothingCarried,
                         NEW h \in hits, Followed(h), ~Excused(h)
                  PROVE  Reported(program[h.at])
      BY DEF FlowsAreReported
    <2>. DEFINE s == program[h.at]
    <2>1. /\ s.op = "call" /\ h.sink \in DOMAIN SinksIn[s.callee] /\ h.arg \in DOMAIN s.args
          /\ SinksIn[s.callee][h.sink].params # << >>
      BY DEF TaintInv, HitsArePassed
    <2>2. h.at \in DOMAIN program /\ s \in Statements
      BY DEF TaintInv, TypeOK
    <2>3. s.args \in Seq(Args)
      BY <2>1, <2>2, StatementShape
    <2>4. Using(s.callee) # {}
      BY DEF Followed
    <2>5. Resolved(s.callee) = SinksIn[s.callee][h.sink] /\ ArgIndex(Resolved(s.callee)) = h.arg
      BY DEF Followed, Resolved
    <2>6. /\ Resolved(s.callee).kind \notin Muted
          /\ Resolved(s.callee).kind = "proto" => OnlyBodyOrQuery
          /\ ~(Resolved(s.callee).kind = "sql" /\ looksParameterized(s))
          /\ h.url = (Resolved(s.callee).kind = "axiosConfig") /\ h.url \in BOOLEAN
      BY <2>5 DEF Followed, Excused
    <2>. DEFINE e == Part(s.args[h.arg], h.url)
    <2>7. h.arg <= Len(s.args) /\ e \in Exprs
      BY <2>1, <2>3, <2>6, ArgumentShape
    <2>8. Labelled(e) # {}
      BY DEF TaintInv, HitsLabelled
    <2>9. Label(e) # NoLabel
      BY <2>7, <2>8, LabelType DEF TaintInv, TypeOK
    <2>10. targetArg(s) = e
      BY <2>5, <2>6 DEF targetArg
    <2>11. OnlyBodyOrQuery => PartsOf(e) \cap Sources \subseteq BodyOrQuery
      BY <2>1, <2>2, <2>6 DEF OnlyBodyOrQuery, Parts, Part
    <2>12. Resolved(s.callee).kind = "proto" => Label(e) \in BodyOrQuery
      BY <2>6, <2>7, <2>9, <2>11, LabelOccurs
    <2>. HIDE DEF e
    <2>. QED
      BY <2>1, <2>4, <2>5, <2>6, <2>7, <2>9, <2>10, <2>12 DEF Reported
  <1>. QED
    BY <1>1, InvCorrect, PTL

-----------------------------------------------------------------------------
(* What is reported happens. *)

Straight == jumps = 0 /\ ~skipped /\ AssignedOnce

\* Later statements do not change the label of what an assignment assigns.
LabelsStay ==
    AssignedOnce => \A v \in Vars : tainted[v] # NoLabel =>
        tainted[v] = Label(program[since[v]].expr)

\* The source that gave a variable its label is in its value.
LabelsArrive ==
    Straight => \A v \in Vars : tainted[v] # NoLabel /\ since[v] < pc => tainted[v] \in env[v]

\* h is the flow that is reported of statement i.
FlowOf(h, i) == h.at = i /\ Followed(h) /\ h.from = Label(Part(program[i].args[h.arg], h.url))

ReportsArrive ==
    Straight => \A i \in DOMAIN program : i < pc /\ Reported(program[i]) /\ ~Misread(program[i]) =>
        \E h \in hits : FlowOf(h, i)

ReportInv == LabelsStay /\ LabelsArrive /\ ReportsArrive

LEMMA LabelKept ==
  ASSUME NEW e \in Exprs,
         \A k \in DOMAIN e : e[k] \in Vars => tainted'[e[k]] = tainted[e[k]]
  PROVE  Label(e)' = Label(e)
  <1>1. \A k \in DOMAIN e : LabelOf(e[k])' = LabelOf(e[k])
    BY DEF LabelOf, Exprs
  <1>2. Labelled(e)' = Labelled(e)
    BY <1>1 DEF Labelled
  <1>3. ASSUME Labelled(e) # {} PROVE Leftmost(Labelled(e)) \in DOMAIN e
    <2>1. Labelled(e) \subseteq Nat
      BY DEF Labelled, Exprs
    <2>. QED
      BY <1>3, <2>1, LeftmostIsLeast DEF Labelled
  <1>. QED
    BY <1>1, <1>2, <1>3 DEF Label

\* The parts of an expression at statement i that are variables are its uses.
LEMMA PartsAreUses ==
  /\ \A s \in Statements : s.op = "assign" =>
        \A k \in DOMAIN s.expr : s.expr[k] \in Vars => s.expr[k] \in Uses(s)
  /\ \A s \in Statements : s.op = "call" =>
        \A a \in DOMAIN s.args : \A url \in BOOLEAN : \A k \in DOMAIN Part(s.args[a], url) :
            Part(s.args[a], url)[k] \in Vars => Part(s.args[a], url)[k] \in Uses(s)
  <1>1. ASSUME NEW s \in Statements, s.op = "assign", NEW k \in DOMAIN s.expr, s.expr[k] \in Vars
        PROVE  s.expr[k] \in Uses(s)
    BY <1>1 DEF Uses, Parts, PartsOf
  <1>2. ASSUME NEW s \in Statements, s.op = "call", NEW a \in DOMAIN s.args, NEW url \in BOOLEAN,
               NEW k \in DOMAIN Part(s.args[a], url), Part(s.args[a], url)[k] \in Vars
        PROVE  Part(s.args[a], url)[k] \in Uses(s)
    <2>1. Part(s.args[a], url)[k] \in PartsOf(s.args[a].expr) \cup PartsOf(s.args[a].url)
      BY DEF PartsOf, Part
    <2>. QED
      BY <1>2, <2>1 DEF Uses, Parts
  <1>. QED
    BY <1>1, <1>2

\* The label of an expression used by the statement that runs is in its value.
LEMMA LabelInValue ==
  ASSUME TaintInv, LabelsArrive, Straight, pc \in DOMAIN program, NEW e \in Exprs,
         \A k \in DOMAIN e : e[k] \in Vars => e[k] \in Uses(program[pc]),
         Label(e) # NoLabel
  PROVE  Label(e) \in Sources /\ Label(e) \in ValueOf(e)
  <1>1. Label(e) \in Sources
    BY LabelType DEF TaintInv, TypeOK, Labels
  <1>2. PICK k \in DOMAIN e : Label(e) = LabelOf(e[k])
    BY LabelType DEF TaintInv, TypeOK, Labelled
  <1>3. CASE e[k] \in Sources
    BY <1>1, <1>2, <1>3 DEF LabelOf, ValueOf
  <1>4. CASE e[k] \in Vars /\ e[k] \notin Sources
    <2>. DEFINE u == e[k]
    <2>1. tainted[u] = Label(e)
      BY <1>2, <1>4 DEF LabelOf
    <2>2. since[u] \in DOMAIN program /\ u \in Targets(program[since[u]])
      BY <2>1, <1>4 DEF TaintInv, TaintedSince
    <2>3. ~(pc <= since[u])
      BY <2>2, <1>4 DEF Straight, AssignedOnce
    <2>4. since[u] < pc
      BY <2>3, <2>2 DEF TaintInv, TypeOK
    <2>5. tainted[u] \in env[u]
      BY <1>4, <2>1, <2>4 DEF LabelsArrive
    <2>. QED
      BY <1>1, <1>4, <2>1, <2>5 DEF ValueOf
  <1>. QED
    BY <1>2, <1>3, <1>4 DEF Exprs

LEMMA WriteReports ==
  ASSUME TaintInv, TaintInv', ReportInv, NEW s \in Statements, Write(s)
  PROVE  ReportInv'
  <1>. DEFINE m == Len(program) + 1
  <1>1. /\ program \in Seq(Statements) /\ Len(program) \in Nat
        /\ tainted \in [Vars -> Labels] /\ since \in [Vars -> Int]
    BY DEF TaintInv, TypeOK
  <1>2. /\ DOMAIN program' = 1..m /\ program'[m] = s
        /\ \A i \in DOMAIN program : i \in 1..(m - 1) /\ program'[i] = program[i]
    BY <1>1 DEF Write
  <1>3. pc' = 0
    BY DEF Write
  <1>4. LabelsStay'
    <2>. SUFFICES ASSUME AssignedOnce', NEW v \in Vars, tainted'[v] # NoLabel
                  PROVE  tainted'[v] = Label(program[since[v]].expr)'
      BY DEF LabelsStay
    <2>1. AssignedOnce
      BY <1>1, <1>2 DEF AssignedOnce
    <2>2. \A i \in DOMAIN program' : Targets(s) \cap Uses(program'[i]) = {}
      BY <1>1, <1>2 DEF AssignedOnce, Targets, Uses, Parts, PartsOf
    <2>3. \A u \in Vars : u \notin Targets(s) => tainted'[u] = tainted[u]
      BY <1>1 DEF Write
    <2>4. ASSUME NEW r \in Statements, r.op = "assign", \E i \in DOMAIN program' : program'[i] = r
          PROVE  Label(r.expr)' = Label(r.expr)
      <3>1. r.expr \in Exprs
        BY <2>4, StatementShape
      <3>2. \A k \in DOMAIN r.expr : r.expr[k] \in Vars => tainted'[r.expr[k]] = tainted[r.expr[k]]
        BY <2>2, <2>3, <2>4, PartsAreUses
      <3>. QED
        BY <3>1, <3>2, LabelKept
    <2>5. PICK r : r = program'[since'[v]]
      OBVIOUS
    <2>6. /\ since'[v] \in DOMAIN program' /\ v \in Targets(r) /\ r.op = "assign"
          /\ r \in Statements
      BY <2>5 DEF TaintInv, TaintedSince, TypeOK, Targets
    <2>7. Label(r.expr)' = Label(r.expr)
      BY <2>4, <2>5, <2>6
    <2>8. tainted'[v] = Label(r.expr)
      <3>1. CASE tainted[v] # NoLabel
        <4>1. tainted'[v] = tainted[v] /\ since'[v] = since[v]
          BY <1>1, <3>1 DEF Write, Taint
        <4>2. since[v] \in DOMAIN program
          BY <3>1 DEF TaintInv, TaintedSince
        <4>. QED
          BY <2>1, <2>5, <3>1, <4>1, <4>2, <1>2 DEF ReportInv, LabelsStay
      <3>2. CASE tainted[v] = NoLabel
        <4>1. tainted'[v] = Label(s.expr) /\ since'[v] = m
          BY <1>1, <3>2 DEF Write, Taint
        <4>. QED
          BY <4>1, <2>5, <1>2
      <3>. QED
        BY <3>1, <3>2
    <2>. QED
      BY <2>5, <2>7, <2>8
  <1>5. LabelsArrive' /\ ReportsArrive'
    <2>1. ASSUME TaintInv' PROVE \A i \in DOMAIN program' : ~(i < 0)
      BY <1>1, <1>2
    <2>2. \A v \in Vars : since'[v] \in Nat
      BY DEF TaintInv, TypeOK
    <2>3. \A v \in Vars : ~(since'[v] < 0)
      BY <2>2
    <2>. QED
      BY <2>1, <2>3, <1>3 DEF LabelsArrive, ReportsArrive
  <1>. QED
    BY <1>4, <1>5 DEF ReportInv

LEMMA AssignReports ==
  ASSUME TaintInv, ReportInv, Assign
  PROVE  ReportInv'
  <1>1. /\ pc \in DOMAIN program /\ Here = program[pc] /\ Here.op = "assign"
        /\ Here \in Statements /\ pc' = pc + 1 /\ Targets(Here) = Here.to
        /\ Here.expr \in Exprs
    <2>1. pc \in DOMAIN program /\ Here \in Statements
      BY DEF TaintInv, TypeOK, Assign, Running, Here
    <2>. QED
      BY <2>1, StatementShape DEF Assign, Here, Targets
  <1>2. /\ UNCHANGED <<program, tainted, since, hits, jumps, skipped>>
        /\ pc \in Int /\ since \in [Vars -> Int]
    BY DEF TaintInv, TypeOK, Assign
  <1>3. Straight' => Straight
    BY <1>2 DEF Straight, AssignedOnce, Targets, Uses, Parts, PartsOf
  <1>4. ASSUME NEW e PROVE Label(e)' = Label(e)
    BY <1>2 DEF Label, Labelled, LabelOf
  <1>5. LabelsStay'
    BY <1>2, <1>4 DEF ReportInv, LabelsStay, AssignedOnce, Targets, Uses, Parts, PartsOf
  <1>6. ASSUME Straight, NEW v \in Vars, tainted[v] # NoLabel, since[v] < pc + 1
        PROVE  tainted[v] \in env'[v]
    <2>1. since[v] \in DOMAIN program /\ v \in Targets(program[since[v]])
      BY <1>6 DEF TaintInv, TaintedSince
    <2>2. CASE since[v] = pc
      <3>1. v \in Here.to
        BY <2>1, <2>2, <1>1
      <3>2. tainted[v] = Label(Here.expr)
        BY <1>1, <1>6, <2>2 DEF ReportInv, LabelsStay, Straight
      <3>3. \A k \in DOMAIN Here.expr : Here.expr[k] \in Vars => Here.expr[k] \in Uses(program[pc])
        BY <1>1, PartsAreUses
      <3>4. tainted[v] \in ValueOf(Here.expr)
        BY <1>1, <1>6, <3>2, <3>3, LabelInValue DEF ReportInv
      <3>. QED
        BY <3>1, <3>4, <1>6 DEF Assign
    <2>3. CASE since[v] # pc
      <3>1. since[v] < pc
        BY <2>3, <1>2, <1>6
      <3>2. v \notin Here.to
        BY <2>1, <3>1, <1>1, <1>6 DEF Straight, AssignedOnce
      <3>3. tainted[v] \in env[v]
        BY <1>6, <3>1 DEF ReportInv, LabelsArrive
      <3>. QED
        BY <3>2, <3>3, <1>6 DEF Assign
    <2>. QED
      BY <2>2, <2>3
  <1>7. LabelsArrive'
    BY <1>1, <1>2, <1>3, <1>6 DEF LabelsArrive
  <1>8. ReportsArrive'
    <2>. SUFFICES ASSUME Straight', NEW i \in DOMAIN program', i < pc',
                         Reported(program[i])', ~Misread(program[i])'
                  PROVE  \E h \in hits' : FlowOf(h, i)'
      BY DEF ReportsArrive
    <2>1. Reported(program[i]) /\ ~Misread(program[i])
      BY <1>2, <1>4 DEF Reported, Misread, looksParameterized, Resolved, Using, ArgIndex, targetArg, Part, Gets
    <2>2. i # pc
      BY <2>1, <1>1 DEF Reported
    <2>3. i < pc /\ i \in DOMAIN program
      BY <2>2, <1>1, <1>2 DEF TaintInv, TypeOK
    <2>4. PICK h \in hits : FlowOf(h, i)
      BY <1>3, <2>1, <2>3 DEF ReportInv, ReportsArrive
    <2>5. FlowOf(h, i)'
      BY <2>4, <1>2, <1>4 DEF FlowOf, Followed, Using, ArgIndex, looksParameterized, Part
    <2>. QED
      BY <2>5, <1>2
  <1>. QED
    BY <1>5, <1>7, <1>8 DEF ReportInv

\* The call that is reported passes the source that gave its argument the label.
LEMMA CallReports ==
  ASSUME TaintInv, ReportInv, Call
  PROVE  ReportInv'
  <1>1. /\ pc \in DOMAIN program /\ Here = program[pc] /\ Here.op = "call"
        /\ Here \in Statements /\ pc' = pc + 1 /\ Targets(Here) = {}
        /\ Here.callee \in Callees /\ Here.args \in Seq(Args)
    <2>1. pc \in DOMAIN program /\ Here \in Statements
      BY DEF TaintInv, TypeOK, Call, Running, Here
    <2>. QED
      BY <2>1, StatementShape DEF Call, Here, Targets
  <1>2. /\ UNCHANGED <<program, tainted, env, since, jumps, skipped>>
        /\ pc \in Int /\ since \in [Vars -> Int]
        /\ hits' = hits \cup Passed(Here)
    BY DEF TaintInv, TypeOK, Call
  <1>3. Straight' => Straight
    BY <1>2 DEF Straight, AssignedOnce, Targets, Uses, Parts, PartsOf
  <1>4. ASSUME NEW e PROVE Label(e)' = Label(e)
    BY <1>2 DEF Label, Labelled, LabelOf
  <1>5. LabelsStay'
    BY <1>2, <1>4 DEF ReportInv, LabelsStay, AssignedOnce, Targets, Uses, Parts, PartsOf
  <1>6. LabelsArrive'
    <2>1. ASSUME NEW v \in Vars, tainted[v] # NoLabel, since[v] < pc + 1 PROVE since[v] < pc
      <3>1. since[v] # pc
        BY <2>1, <1>1 DEF TaintInv, TaintedSince
      <3>. QED
        BY <2>1, <3>1, <1>2
    <2>. QED
      BY <2>1, <1>1, <1>2, <1>3 DEF ReportInv, LabelsArrive
  <1>7. ASSUME Straight, Reported(Here), ~Misread(Here)
        PROVE  \E h \in Passed(Here) : FlowOf(h, pc)
    <2>. DEFINE f == Leftmost(Using(Here.callee))
                sink == Resolved(Here.callee)
                arg == ArgIndex(sink)
                url == (sink.kind = "axiosConfig")
                e == Part(Here.args[arg], url)
                h == [at |-> pc, sink |-> f, arg |-> arg, url |-> url, from |-> Label(e)]
    <2>1. /\ SinksIn[Here.callee] \in Seq([kind : Kinds, params : Seq(Nat \ {0})])
          /\ Using(Here.callee) # {} /\ Using(Here.callee) \subseteq DOMAIN SinksIn[Here.callee]
      BY <1>1, <1>7, ProgramsAssumption DEF Reported, Using
    <2>2. Using(Here.callee) \subseteq Nat
      BY <2>1
    <2>3. f \in Using(Here.callee) /\ f \in DOMAIN SinksIn[Here.callee]
      BY <2>1, <2>2, LeftmostIsLeast
    <2>4. sink = SinksIn[Here.callee][f] /\ sink.params # << >>
      BY <2>3 DEF Resolved, Using
    <2>5. SinksIn[Here.callee][f].params \in Seq(Nat \ {0})
      BY <2>1, <2>3, SinkShape
    <2>6. Gets(sink, arg) /\ arg \in Nat \ {0}
      <3>1. PICK q \in Seq(Nat \ {0}) : q = SinksIn[Here.callee][f].params
        BY <2>5
      <3>2. q # << >>
        BY <2>4, <3>1
      <3>3. 1 \in DOMAIN q /\ Head(q) = q[1] /\ q[1] \in Nat \ {0}
        BY <3>2
      <3>4. CASE url
        BY <3>4, <1>7 DEF ArgIndex, Misread
      <3>5. CASE ~url
        BY <3>1, <3>3, <3>5, <2>4 DEF ArgIndex, Gets
      <3>. QED
        BY <3>4, <3>5
    <2>7. /\ sink.kind \notin Muted /\ arg <= Len(Here.args)
          /\ ~(sink.kind = "sql" /\ looksParameterized(Here))
          /\ Label(e) # NoLabel /\ url \in BOOLEAN
      BY <1>7 DEF Reported, targetArg
    <2>8. arg \in DOMAIN Here.args
      BY <2>6, <2>7, <1>1
    <2>9. e \in Exprs
      BY <2>7, <2>8, <1>1, ArgumentShape
    <2>10. \A k \in DOMAIN e : e[k] \in Vars => e[k] \in Uses(program[pc])
      BY <2>7, <2>8, <1>1, PartsAreUses
    <2>11. Label(e) \in Sources /\ Label(e) \in ValueOf(e)
      BY <1>1, <1>7, <2>7, <2>9, <2>10, LabelInValue DEF ReportInv
    <2>. HIDE DEF f, arg, e, url
    <2>12. /\ h \in [at : {pc}, sink : DOMAIN SinksIn[Here.callee], arg : DOMAIN Here.args,
                       url : BOOLEAN, from : Sources]
           /\ h.at = pc /\ h.sink = f /\ h.arg = arg /\ h.url = url /\ h.from = Label(e)
      BY <2>3, <2>7, <2>8, <2>11
    <2>. HIDE DEF h, sink
    <2>13. h \in Passed(Here)
      BY <2>4, <2>6, <2>11, <2>12 DEF Passed, e
    <2>14. FlowOf(h, pc)
      BY <2>1, <2>4, <2>7, <2>12, <1>1 DEF FlowOf, Followed, f, arg, e, url
    <2>. QED
      BY <2>13, <2>14
  <1>8. ReportsArrive'
    <2>. SUFFICES ASSUME Straight', NEW i \in DOMAIN program', i < pc',
                         Reported(program[i])', ~Misread(program[i])'
                  PROVE  \E h \in hits' : FlowOf(h, i)'
      BY DEF ReportsArrive
    <2>0. i \in DOMAIN program /\ i \in Int
      BY <1>2 DEF TaintInv, TypeOK
    <2>1. Reported(program[i]) /\ ~Misread(program[i]) /\ i \in DOMAIN program /\ i \in Int
      BY <2>0, <1>2, <1>4 DEF Reported, Misread, looksParameterized, Resolved, Using, ArgIndex, targetArg, Part, Gets
    <2>2. PICK h \in hits' : FlowOf(h, i)
      <3>1. CASE i = pc
        BY <3>1, <2>1, <1>1, <1>2, <1>3, <1>7
      <3>2. CASE i # pc
        <4>1. i < pc
          BY <3>2, <2>1, <1>1, <1>2
        <4>. QED
          BY <4>1, <1>2, <1>3, <2>1 DEF ReportInv, ReportsArrive
      <3>. QED
        BY <3>1, <3>2
    <2>3. FlowOf(h, i)'
      BY <2>2, <1>2, <1>4 DEF FlowOf, Followed, Using, ArgIndex, looksParameterized, Part
    <2>. QED
      BY <2>3
  <1>. QED
    BY <1>5, <1>6, <1>8 DEF ReportInv

\* Where a run starts, nothing has to have arrived; where it leaves the text,
\* nothing has to arrive any more.
LEMMA ControlReports ==
  ASSUME TaintInv, ReportInv, Run \/ Skip \/ Jump
  PROVE  ReportInv'
  <1>1. UNCHANGED <<program, tainted, env, since, hits>>
    BY DEF Run, Skip, Jump
  <1>2. ASSUME NEW e PROVE Label(e)' = Label(e)
    BY <1>1 DEF Label, Labelled, LabelOf
  <1>3. LabelsStay'
    BY <1>1, <1>2 DEF ReportInv, LabelsStay, AssignedOnce, Targets, Uses, Parts, PartsOf
  <1>4. CASE Run
    <2>1. \A v \in Vars : tainted[v] # NoLabel => ~(since[v] < 1)
      BY DEF TaintInv, TypeOK, TaintedSince
    <2>2. \A i \in DOMAIN program : ~(i < 1)
      BY DEF TaintInv, TypeOK
    <2>3. LabelsArrive' /\ ReportsArrive'
      BY <2>1, <2>2, <1>4, <1>1 DEF Run, LabelsArrive, ReportsArrive
    <2>. QED
      BY <1>3, <2>3 DEF ReportInv
  <1>5. CASE Skip \/ Jump
    <2>1. ~Straight'
      BY <1>5 DEF TaintInv, TypeOK, Straight, Skip, Jump
    <2>2. LabelsArrive' /\ ReportsArrive'
      BY <2>1 DEF LabelsArrive, ReportsArrive
    <2>. QED
      BY <1>3, <2>2 DEF ReportInv
  <1>. QED
    BY <1>4, <1>5

LEMMA StutterReports ==
  ASSUME ReportInv, UNCHANGED vars
  PROVE  ReportInv'
  <1>1. ASSUME NEW e PROVE Label(e)' = Label(e)
    BY DEF Label, Labelled, LabelOf, vars
  <1>2. LabelsStay'
    BY <1>1 DEF ReportInv, LabelsStay, AssignedOnce, Targets, Uses, Parts, PartsOf, vars
  <1>3. LabelsArrive'
    BY DEF ReportInv, LabelsArrive, Straight, AssignedOnce, Targets, Uses, Parts, PartsOf, vars
  <1>4. ASSUME NEW i PROVE /\ Reported(program[i])' = Reported(program[i])
                           /\ Misread(program[i])' = Misread(program[i])
    BY <1>1 DEF Reported, Misread, looksParameterized, Resolved, Using, ArgIndex, targetArg, Part, Gets, vars
  <1>5. ASSUME NEW h, NEW i PROVE FlowOf(h, i)' = FlowOf(h, i)
    BY <1>1 DEF FlowOf, Followed, Using, ArgIndex, looksParameterized, Part, vars
  <1>6. Straight' = Straight
    BY DEF Straight, AssignedOnce, Targets, Uses, Parts, PartsOf, vars
  <1>7. ReportsArrive'
    BY <1>4, <1>5, <1>6 DEF ReportInv, ReportsArrive, vars
  <1>. QED
    BY <1>2, <1>3, <1>7 DEF ReportInv

\* In a program that assigns each variable once, and before its uses, what is
\* reported (taintEngine.ts:400-525) happens in the run that follows the text
\* to its end, but for the wrappers of axios that use another parameter.
THEOREM ReportsAreReal == Spec => []ReportsHappen
  <1>1. Init => ReportInv
    BY DEF Init, ReportInv, LabelsStay, LabelsArrive, ReportsArrive
  <1>2. TaintInv /\ TaintInv' /\ ReportInv /\ [Next]_vars => ReportInv'
    <2>. SUFFICES ASSUME TaintInv, TaintInv', ReportInv, [Next]_vars PROVE ReportInv'
      OBVIOUS
    <2>1. ASSUME NEW s \in Statements, Write(s) PROVE ReportInv'
      BY <2>1, WriteReports
    <2>. QED
      BY <2>1, AssignReports, CallReports, ControlReports, StutterReports DEF Next
  <1>3. TaintInv /\ ReportInv => ReportsHappen
    <2>. SUFFICES ASSUME TaintInv, ReportInv, pc = Len(program) + 1, Straight,
                         NEW i \in DOMAIN program, Reported(program[i]), ~Misread(program[i])
                  PROVE  \E h \in hits : FlowOf(h, i)
      BY DEF ReportsHappen, Straight, FlowOf
    <2>1. i < pc
      BY DEF TaintInv, TypeOK
    <2>. QED
      BY <2>1 DEF ReportInv, ReportsArrive
  <1>. QED
    BY <1>1, <1>2, <1>3, InvCorrect, PTL DEF Spec

=============================================================================
