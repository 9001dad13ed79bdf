----------------------------- MODULE Scan_proofs -----------------------------
(***************************************************************************)
(* Proofs about what a scan of a project goes through.  Of RegistryPool:   *)
(* the type invariant, that each declaration is asked for once, that the   *)
(* pool stays full, and that the pool implements RegistryCheck, for any    *)
(* dependencies and any concurrency.  Of RouteGraph, for any programs of   *)
(* any calls: the routes extracted are those Express serves, and the       *)
(* audits say of them what they should.  Of ProjectSurface, for any        *)
(* projects of any statements: what its routes and findings touch is held  *)
(* against the packages, and route modules are taken to be where they are  *)
(* served.                                                                 *)
(***************************************************************************)
EXTENDS RegistryPool, RouteGraph, ProjectSurface, Induction, SequenceTheorems, FiniteSetTheorems

-----------------------------------------------------------------------------
(* RegistryPool *)

(***************************************************************************)
(* What the claims have in common.  The positions below index are claimed, *)
(* each by one worker, and one that still waits for its answer is held by  *)
(* the worker that asked; a worker that claimed past the end keeps that    *)
(* claim, which bounds index.                                              *)
(***************************************************************************)
BeforeStart ==
    stage \in {"start", "skipped"} =>
        /\ results = [i \in Positions |-> "unset"]
        /\ sent = [i \in Positions |-> 0]

ClaimsDistinct ==
    /\ index >= PoolSize + 1
    /\ \A w \in Workers : holds[w] \in 1..(index - 1)
    /\ \A v, w \in Workers : v # w => holds[v] # holds[w]

PastTheEndKept ==
    \A k \in (N + 1)..(index - 1) : \E w \in Workers : holds[w] = k

SentIsClaimed ==
    \A i \in Positions : sent[i] = IF i < index THEN 1 ELSE 0

UnsetIsHeld ==
    /\ \A i \in Positions : i < index /\ results[i] = "unset" => \E w \in Workers : holds[w] = i
    /\ \A i \in Positions : i >= index => results[i] = "unset"
    /\ \A w \in Workers : stage = "asking" /\ Asking(w) => results[holds[w]] = "unset"

PoolInv ==
    /\ TypeOK
    /\ BeforeStart
    /\ stage \in {"asking", "done"} =>
        ClaimsDistinct /\ PastTheEndKept /\ SentIsClaimed /\ UnsetIsHeld
    /\ stage # "done" => found = << >>
    /\ stage = "done" => \A w \in Workers : ~Asking(w)

-----------------------------------------------------------------------------
LEMMA PoolSizeType ==
    /\ N \in Nat
    /\ PoolSize \in Nat \ {0} /\ PoolSize <= Concurrency
    /\ N > 0 => PoolSize <= N
    /\ N = 0 => PoolSize = 1
  BY ToCheckAssumption, ConcurrencyAssumption DEF N, PoolSize

\* The values a function takes on a finite set are no more than its members.
LEMMA ImageBound ==
  ASSUME NEW S, IsFiniteSet(S), NEW f
  PROVE  IsFiniteSet({f[x] : x \in S}) /\ Cardinality({f[x] : x \in S}) <= Cardinality(S)
  <1> DEFINE T == {f[x] : x \in S}
             g == [x \in S |-> f[x]]
  <1>1. g \in Surjection(S, T)
    BY DEF Surjection
  <1>. QED BY <1>1, FS_Surjection

(***************************************************************************)
(* A worker that still waits leaves room for one more claim.               *)
(***************************************************************************)
LEMMA RoomForAClaim ==
  ASSUME NEW w \in Workers, Asking(w), PastTheEndKept, ClaimsDistinct,
         index \in Nat, holds \in [Workers -> Nat]
  PROVE  index <= N + PoolSize
  <1> DEFINE K == (N + 1)..(index - 1)
             V == Workers \ {w}
             Held == {holds[v] : v \in V}
  <1>1. IsFiniteSet(V) /\ Cardinality(V) = PoolSize - 1
    <2>1. IsFiniteSet(Workers) /\ Cardinality(Workers) = PoolSize
      BY FS_Interval, PoolSizeType DEF Workers
    <2>. QED BY <2>1, FS_RemoveElement
  <1>2. IsFiniteSet(Held) /\ Cardinality(Held) <= Cardinality(V)
    BY <1>1, ImageBound
  <1>3. K \subseteq Held
    <2>. SUFFICES ASSUME NEW k \in K PROVE k \in Held
      OBVIOUS
    <2>1. PICK v \in Workers : holds[v] = k
      BY DEF PastTheEndKept
    <2>2. holds[w] <= N
      BY PoolSizeType DEF Asking, Positions
    <2>3. v # w
      BY <2>1, <2>2, PoolSizeType
    <2>. QED BY <2>1, <2>3
  <1>4. Cardinality(K) <= PoolSize - 1
    BY <1>1, <1>2, <1>3, FS_Subset, FS_CardinalityType, PoolSizeType
  <1>5. CASE index - 1 < N + 1
    BY <1>5, PoolSizeType
  <1>6. CASE index - 1 >= N + 1
    <2>1. Cardinality(K) = (index - 1) - (N + 1) + 1
      BY <1>6, FS_Interval, PoolSizeType
    <2>. QED BY <2>1, <1>4, PoolSizeType
  <1>. QED BY <1>5, <1>6, PoolSizeType

LEMMA InitPoolInv == Init => PoolInv
  BY PoolSizeType DEF Init, PoolInv, TypeOK, BeforeStart

LEMMA StartPoolInv == PoolInv /\ Start => PoolInv'
  <1>. SUFFICES ASSUME PoolInv, Start PROVE PoolInv'
    OBVIOUS
  <1>. USE PoolSizeType
  <1>0. PoolSize \in Nat \ {0} /\ N \in Nat
    OBVIOUS
  <1>1. TypeOK'
    BY DEF PoolInv, Start, TypeOK, Workers, Positions
  <1>2. ClaimsDistinct'
    BY DEF ClaimsDistinct, Start, Workers
  <1>3. PastTheEndKept'
    <2>. SUFFICES ASSUME NEW k \in (N + 1)..(index' - 1)
                  PROVE  \E w \in Workers : holds'[w] = k
      BY DEF PastTheEndKept
    <2>1. k \in Workers
      BY DEF Start, Workers
    <2>. QED BY <2>1 DEF Start
  <1>4. SentIsClaimed'
    BY DEF SentIsClaimed, Start, Positions
  <1>5. UnsetIsHeld'
    <2>1. \A i \in Positions : results'[i] = "unset"
      BY DEF PoolInv, BeforeStart, Start
    <2>2. \A i \in Positions : i < index' => i \in Workers
      BY DEF Start, Positions, Workers
    <2>3. \A i \in Positions : i < index' => \E w \in Workers : holds'[w] = i
      BY <2>2 DEF Start
    <2>. QED BY <2>1, <2>3 DEF UnsetIsHeld, Asking
  <1>. QED BY <1>1, <1>2, <1>3, <1>4, <1>5 DEF PoolInv, BeforeStart, Start

LEMMA AnswerPoolInv == \A w \in Workers : PoolInv /\ Answer(w) => PoolInv'
  <1>. SUFFICES ASSUME PoolInv, NEW w \in Workers, Answer(w) PROVE PoolInv'
    OBVIOUS
  <1>. USE PoolSizeType
  <1>a. PICK a \in Answers : results' = [results EXCEPT ![holds[w]] = a]
    BY DEF Answer
  <1>b. /\ TypeOK /\ ClaimsDistinct /\ PastTheEndKept /\ SentIsClaimed /\ UnsetIsHeld
        /\ stage = "asking" /\ stage' = "asking" /\ Asking(w)
        /\ found = << >> /\ found' = found
    BY DEF PoolInv, Answer
  <1>c. /\ holds' = [holds EXCEPT ![w] = index]
        /\ sent' = [i \in Positions |-> sent[i] + IF i = index THEN 1 ELSE 0]
        /\ index' = index + 1
        /\ holds[w] \in Positions /\ holds[w] < index
    BY <1>b DEF Answer, Claim, Asking, ClaimsDistinct, TypeOK
  <1>d. index \in Nat /\ holds \in [Workers -> Nat]
    BY <1>b DEF TypeOK
  <1>e. index <= N + PoolSize
    BY <1>b, <1>d, RoomForAClaim
  <1>f. index > 0 /\ results \in [Positions -> Answers \cup {"unset"}]
    BY <1>b DEF TypeOK
  <1>1. TypeOK'
    <2>1. index' \in 1..(N + PoolSize + 1) /\ holds' \in [Workers -> 0..(N + PoolSize)]
      BY <1>b, <1>c, <1>d, <1>e, <1>f DEF TypeOK
    <2>2. results' \in [Positions -> Answers \cup {"unset"}]
      BY <1>a, <1>f
    <2>3. sent' \in [Positions -> Nat]
      BY <1>b, <1>c DEF TypeOK
    <2>. QED BY <1>b, <2>1, <2>2, <2>3 DEF TypeOK
  <1>2. ClaimsDistinct'
    BY <1>b, <1>c, <1>d, <1>f DEF ClaimsDistinct
  <1>3. PastTheEndKept'
    <2>. SUFFICES ASSUME NEW k \in (N + 1)..index PROVE \E v \in Workers : holds'[v] = k
      BY <1>c, <1>d DEF PastTheEndKept
    <2>1. CASE k = index
      BY <2>1, <1>c, <1>d
    <2>2. CASE k # index
      <3>1. k \in (N + 1)..(index - 1)
        BY <2>2, <1>d
      <3>2. PICK v \in Workers : holds[v] = k
        BY <3>1, <1>b DEF PastTheEndKept
      <3>3. v # w
        BY <3>1, <3>2, <1>c DEF Positions
      <3>. QED BY <3>2, <3>3, <1>c, <1>d
    <2>. QED BY <2>1, <2>2
  <1>4. SentIsClaimed'
    BY <1>b, <1>c, <1>d DEF SentIsClaimed, Positions
  <1>5. UnsetIsHeld'
    <2>1. ASSUME NEW i \in Positions, i < index', results'[i] = "unset"
          PROVE  \E v \in Workers : holds'[v] = i
      <3>0. "unset" \notin Answers
        BY DEF Answers
      <3>1. i # holds[w] /\ results[i] = "unset"
        BY <2>1, <3>0, <1>a, <1>f, <1>c
      <3>2. CASE i = index
        BY <3>2, <1>c, <1>d
      <3>3. CASE i # index
        <4>1. i < index
          BY <3>3, <2>1, <1>c, <1>d DEF Positions
        <4>2. PICK v \in Workers : holds[v] = i
          BY <4>1, <3>1, <1>b DEF UnsetIsHeld
        <4>3. v # w
          BY <4>2, <3>1
        <4>. QED BY <4>2, <4>3, <1>c, <1>d
      <3>. QED BY <3>2, <3>3
    <2>2. ASSUME NEW i \in Positions, i >= index' PROVE results'[i] = "unset"
      <3>1. i >= index /\ i # holds[w]
        BY <2>2, <1>c, <1>d DEF Positions
      <3>. QED BY <3>1, <1>a, <1>b, <1>f DEF UnsetIsHeld
    <2>3. ASSUME NEW v \in Workers, holds'[v] \in Positions
          PROVE  results'[holds'[v]] = "unset"
      <3>1. CASE v = w
        <4>1. holds'[v] = index /\ index # holds[w]
          BY <3>1, <1>c, <1>d
        <4>2. results[index] = "unset"
          BY <4>1, <2>3, <1>b, <1>d DEF UnsetIsHeld
        <4>. QED BY <4>1, <4>2, <2>3, <1>a, <1>f
      <3>2. CASE v # w
        <4>1. holds'[v] = holds[v] /\ holds[v] # holds[w]
          BY <3>2, <1>b, <1>c, <1>d DEF ClaimsDistinct
        <4>2. results[holds[v]] = "unset"
          BY <4>1, <2>3, <1>b DEF UnsetIsHeld, Asking
        <4>. QED BY <4>1, <4>2, <2>3, <1>a, <1>f
      <3>. QED BY <3>1, <3>2
    <2>. QED BY <2>1, <2>2, <2>3 DEF UnsetIsHeld, Asking
  <1>. QED BY <1>1, <1>2, <1>3, <1>4, <1>5, <1>b DEF PoolInv, BeforeStart

LEMMA FinishPoolInv == PoolInv /\ Finish => PoolInv'
  <1>. SUFFICES ASSUME PoolInv, Finish PROVE PoolInv'
    OBVIOUS
  <1>1. TypeOK'
    BY DEF PoolInv, TypeOK, Finish
  <1>2. ClaimsDistinct' /\ PastTheEndKept' /\ SentIsClaimed'
    BY DEF PoolInv, Finish, ClaimsDistinct, PastTheEndKept, SentIsClaimed
  <1>3. UnsetIsHeld' /\ \A w \in Workers : ~Asking(w)'
    BY DEF PoolInv, Finish, UnsetIsHeld, Asking
  <1>. QED BY <1>1, <1>2, <1>3 DEF PoolInv, BeforeStart, Finish

LEMMA PoolInvAlways == Spec => []PoolInv
  <1>1. PoolInv /\ [Next]_vars => PoolInv'
    <2>. SUFFICES ASSUME PoolInv, [Next]_vars PROVE PoolInv'
      OBVIOUS
    <2>1. CASE Skip
      BY <2>1 DEF PoolInv, Skip, TypeOK, BeforeStart
    <2>2. CASE Start
      BY <2>2, StartPoolInv
    <2>3. CASE Finish
      BY <2>3, FinishPoolInv
    <2>4. CASE \E w \in Workers : Answer(w)
      BY <2>4, AnswerPoolInv
    <2>5. CASE UNCHANGED vars
      BY <2>5 DEF PoolInv, vars, TypeOK, BeforeStart, ClaimsDistinct, PastTheEndKept,
                  SentIsClaimed, UnsetIsHeld, Asking
    <2>. QED BY <2>1, <2>2, <2>3, <2>4, <2>5 DEF Next
  <1>. QED BY <1>1, InitPoolInv, PTL DEF Spec

(***************************************************************************)
(* The index overruns the names by at most the size of the pool.           *)
(***************************************************************************)
THEOREM TypeCorrect == Spec => []TypeOK
  <1>1. PoolInv => TypeOK
    BY DEF PoolInv
  <1>. QED BY <1>1, PoolInvAlways, PTL

\* When the workers are back every position is claimed and has its answer.
LEMMA BackMeansAnswered ==
  ASSUME PoolInv, stage \in {"asking", "done"}, \A w \in Workers : ~Asking(w)
  PROVE  \A i \in Positions : i < index /\ results[i] # "unset"
  <1>. USE PoolSizeType
  <1>1. 1 \in Workers
    BY DEF Workers
  <1>2. holds[1] \in 1..(index - 1) /\ holds[1] \notin Positions
    BY <1>1 DEF PoolInv, ClaimsDistinct, Asking
  <1>3. index \in Nat
    BY DEF PoolInv, TypeOK
  <1>4. index > N + 1
    BY <1>2, <1>3 DEF Positions
  <1>5. \A i \in Positions : i < index
    BY <1>3, <1>4 DEF Positions
  <1>. QED BY <1>5 DEF PoolInv, UnsetIsHeld, Asking

(***************************************************************************)
(* Every declaration is asked for exactly once before the report is made,  *)
(* whatever the order of the answers.                                      *)
(***************************************************************************)
THEOREM EachAskedOnce == Spec => []AskedOnce
  <1>1. PoolInv => AskedOnce
    <2>. SUFFICES ASSUME PoolInv PROVE AskedOnce
      OBVIOUS
    <2>1. \A i \in Positions : sent[i] <= 1
      BY DEF PoolInv, TypeOK, BeforeStart, SentIsClaimed
    <2>2. ASSUME stage = "done"
          PROVE  \A i \in Positions : sent[i] = 1 /\ results[i] # "unset"
      BY <2>2, BackMeansAnswered DEF PoolInv, SentIsClaimed
    <2>. QED BY <2>1, <2>2 DEF AskedOnce
  <1>. QED BY <1>1, PoolInvAlways, PTL

(***************************************************************************)
(* No worker stops while there is something left to ask for, and no more   *)
(* than Concurrency requests are open.                                     *)
(***************************************************************************)
THEOREM StaysFull == Spec => []PoolIsFull
  <1>1. PoolInv => PoolIsFull
    <2>. SUFFICES ASSUME PoolInv, stage = "asking" PROVE PoolIsFull
      BY DEF PoolIsFull
    <2>. USE PoolSizeType
    <2> DEFINE Open == {i \in Positions : sent[i] > 0 /\ results[i] = "unset"}
               Held == {holds[w] : w \in Workers}
    <2>0. index \in Nat /\ holds \in [Workers -> Nat]
      BY DEF PoolInv, TypeOK
    <2>1. ASSUME NEW i \in Positions, sent[i] = 0, NEW w \in Workers PROVE Asking(w)
      <3>1. i >= index
        BY <2>0, <2>1 DEF PoolInv, SentIsClaimed, Positions
      <3>. QED BY <3>1, <2>0 DEF PoolInv, ClaimsDistinct, Asking, Positions
    <2>2. IsFiniteSet(Workers) /\ Cardinality(Workers) = PoolSize
      BY FS_Interval DEF Workers
    <2>3. IsFiniteSet(Held) /\ Cardinality(Held) <= PoolSize
      BY <2>2, ImageBound
    <2>4. Open \subseteq Held
      BY <2>0 DEF PoolInv, SentIsClaimed, UnsetIsHeld, Positions
    <2>5. Cardinality(Open) <= Concurrency
      BY <2>3, <2>4, FS_Subset, FS_CardinalityType, ConcurrencyAssumption
    <2>. QED BY <2>1, <2>5 DEF PoolIsFull
  <1>. QED BY <1>1, PoolInvAlways, PTL

(***************************************************************************)
(* The pool implements RegistryCheck: an answer is a lookup of what was    *)
(* unknown, Finish is the report, and the other steps are not seen.        *)
(***************************************************************************)
THEOREM PoolImplementsCheck == Spec => ImplementsCheck
  <1>. USE DEF Check!Positions, Positions, N
  <1>1. Init => Check!Init
    BY DEF Init, Check!Init, Check!NoReport, NoReport
  <1>2. PoolInv /\ [Next]_vars => [Check!Next]_(Check!vars)
    <2>. SUFFICES ASSUME PoolInv, [Next]_vars PROVE [Check!Next]_(Check!vars)
      OBVIOUS
    <2>1. CASE Skip
      <3>1. Check!Skip
        BY <2>1 DEF Skip, Check!Skip, PoolInv, BeforeStart, Check!NoReport, NoReport
      <3>. QED BY <3>1 DEF Check!Next
    <2>2. CASE Start
      BY <2>2 DEF Start, Check!vars
    <2>3. CASE Finish
      <3>1. \A i \in Positions : results[i] # "unset"
        BY <2>3, BackMeansAnswered DEF Finish
      <3>2. Check!Report
        <4> DEFINE Hits == {k \in Positions :
                              results[k] = "missing" /\ SeverityOf(ToCheck[k]) \in Kept}
                   Reports == {MkFinding(ToCheck[i]) : i \in Hits}
        <4>1. found' = [i \in Hits |-> MkFinding(ToCheck[i])]
          BY <2>3 DEF Finish
        <4>2. {found'[i] : i \in DOMAIN found'} = Reports
          BY <4>1, Zenon
        <4>3. Check!Missing = {ToCheck[i] : i \in Hits}
          <5>1. {k \in Check!Positions :
                   [i \in Positions |-> IF results[i] = "unset" THEN "unknown" ELSE results[i]][k]
                      = "missing" /\ Check!SeverityOf(ToCheck[k]) \in Kept} = Hits
            BY <3>1 DEF Check!SeverityOf, SeverityOf
          <5>. QED BY <5>1, Zenon DEF Check!Missing
        <4>4. {[name |-> p, kind |-> Check!KindOf(p)] : p \in Check!Missing} = Reports
          <5>1. \A p : [name |-> p, kind |-> Check!KindOf(p)] = MkFinding(p)
            BY DEF Check!KindOf, FindingKind, MkFinding
          <5>2. {[name |-> p, kind |-> Check!KindOf(p)] : p \in Check!Missing}
                  = {MkFinding(p) : p \in Check!Missing}
            BY <5>1, Zenon
          <5>. HIDE DEF Hits
          <5>3. {MkFinding(p) : p \in {ToCheck[i] : i \in Hits}}
                  = {MkFinding(ToCheck[i]) : i \in Hits}
            OBVIOUS
          <5>. QED BY <5>2, <5>3, <4>3
        <4>. HIDE DEF Hits, Reports
        <4>5. stage = "asking" /\ stage' = "done" /\ UNCHANGED results
          BY <2>3 DEF Finish
        <4>6. (IF stage \in {"done", "skipped"} THEN {found[i] : i \in DOMAIN found} ELSE {NoReport})'
                = {[name |-> p, kind |-> Check!KindOf(p)] : p \in Check!Missing}
          BY <4>2, <4>4, <4>5
        <4>7. \A i \in Check!Positions :
                [k \in Positions |-> IF results[k] = "unset" THEN "unknown" ELSE results[k]][i]
                  # "unknown"
          <5>1. \A i \in Positions : results[i] # "unknown"
            BY DEF PoolInv, TypeOK, Answers
          <5>. QED BY <5>1, <3>1
        <4>. QED BY <4>5, <4>6, <4>7 DEF Check!Report, Check!NoReport, NoReport
      <3>. QED BY <3>2 DEF Check!Next
    <2>4. CASE \E w \in Workers : Answer(w)
      <3>1. PICK w \in Workers : Answer(w)
        BY <2>4
      <3>2. PICK k \in Positions : k = holds[w]
        BY <3>1 DEF Answer, Asking
      <3>3. results[k] = "unset"
        BY <3>1, <3>2 DEF Answer, Asking, PoolInv, UnsetIsHeld
      <3>4. Check!LookUp(k)
        <4> DEFINE St == [i \in Positions |-> IF results[i] = "unset" THEN "unknown" ELSE results[i]]
                   StN == [i \in Positions |-> IF results'[i] = "unset" THEN "unknown" ELSE results'[i]]
        <4>1. PICK a \in Answers : results' = [results EXCEPT ![k] = a]
          BY <3>1, <3>2 DEF Answer
        <4>2. results \in [Positions -> Answers \cup {"unset"}]
          BY DEF PoolInv, TypeOK
        <4>3. StN = [St EXCEPT ![k] = a]
          <5>1. a # "unset"
            BY DEF Answers
          <5>2. \A i \in Positions : results'[i] = IF i = k THEN a ELSE results[i]
            BY <4>1, <4>2
          <5>. QED BY <5>1, <5>2
        <4>4. St[k] = "unknown"
          BY <3>3
        <4>5. stage = "asking" /\ stage' = stage /\ found' = found
          BY <3>1 DEF Answer
        <4>. HIDE DEF St, StN
        <4>6. a \in Check!Outcomes
          BY DEF Answers, Check!Outcomes
        <4>. QED BY <4>3, <4>4, <4>5, <4>6 DEF Check!LookUp, St, StN
      <3>. QED BY <3>4 DEF Check!Next
    <2>5. CASE UNCHANGED vars
      BY <2>5 DEF vars, Check!vars
    <2>. QED BY <2>1, <2>2, <2>3, <2>4, <2>5 DEF Next
  <1>. QED BY <1>1, <1>2, PoolInvAlways, PTL DEF Spec, ImplementsCheck, Check!Spec

-----------------------------------------------------------------------------
(* RouteGraph *)

Paths == Seq(Segments)
Names == {"anonymous"} \cup {a.name : a \in {b \in Arguments : b.kind = "id"}}
Texts == {NoText} \cup {a.text : a \in Arguments}

RouteLayers == [kind : {"route"}, path : Paths, method : Methods, names : SUBSET Names,
                text : Texts, call : Nat]
MountLayers == [kind : {"mount"}, path : Paths, router : Instances]
GuardLayers == [kind : {"guard"}, path : Paths, name : Names]
AnyLayer == RouteLayers \cup MountLayers \cup GuardLayers
RouteNodes == [method : Methods, path : Paths, fullPath : Paths, middlewares : Seq(Names),
               text : Texts, call : Nat]

GraphTypeOK ==
    /\ n \in Nat
    /\ baseFor \in [Instances -> Paths]
    /\ routes \in Seq(RouteNodes)
    /\ stack \in [Instances -> Seq(AnyLayer)]
    /\ spec \in Specs
    /\ inOrder \in BOOLEAN /\ readable \in BOOLEAN

\* Route k of the extraction is layer i of r.
Extracted(k, r, i) ==
    /\ stack[r][i].kind = "route"
    /\ routes[k].call = stack[r][i].call /\ routes[k].method = stack[r][i].method
    /\ routes[k].path = stack[r][i].path /\ routes[k].text = stack[r][i].text
    /\ stack[r][i].names \subseteq Sequence(routes[k].middlewares)
    /\ Sequence(routes[k].middlewares) \subseteq stack[r][i].names \cup {"anonymous"}
    /\ \E base \in Paths : routes[k].fullPath = base \o stack[r][i].path
    /\ Plain => routes[k].fullPath = baseFor[r] \o stack[r][i].path

RoutesAreLayers ==
    /\ \A k \in DOMAIN routes : \E r \in Instances : \E i \in DOMAIN stack[r] : Extracted(k, r, i)
    /\ \A r \in Instances : \A i \in DOMAIN stack[r] :
          stack[r][i].kind = "route" => \E k \in DOMAIN routes : Extracted(k, r, i)

\* While every router is mounted once and first, bases compose along mounts.
BasesCompose ==
    /\ inOrder => \A r \in Instances \ ({App} \cup Mounted) : stack[r] = << >>
    /\ Plain => baseFor[App] = << >>
    /\ Plain => \A r \in Instances : \A i \in DOMAIN stack[r] :
          stack[r][i].kind = "mount" => baseFor[stack[r][i].router] = baseFor[r] \o stack[r][i].path

IsRank(rank) ==
    /\ rank \in [Instances -> 1..Cardinality(Instances)]
    /\ \A c \in Calls : \A i \in DOMAIN c.args :
          IsRouter(c.args[i]) => rank[c.on] < rank[c.args[i].name]

\* No router is below itself.
MountsDescend ==
    \A rank : IsRank(rank) =>
        \A r \in Instances : \A i \in DOMAIN stack[r] :
            stack[r][i].kind = "mount" => rank[r] < rank[stack[r][i].router]

GraphInv == GraphTypeOK /\ RoutesAreLayers /\ BasesCompose /\ MountsDescend

-----------------------------------------------------------------------------
(* Calls and what Express makes of them *)

LEMMA CallIs ==
  ASSUME NEW c \in Calls
  PROVE  /\ c.on \in Instances /\ c.op \in {"use"} \cup Methods
         /\ c.args \in Seq(Arguments) /\ Len(c.args) \in Nat \ {0}
         /\ DOMAIN c.args = 1..Len(c.args)
         /\ \A i \in DOMAIN c.args : c.args[i] \in Arguments
         /\ \A i \in DOMAIN c.args : Literal(c.args[i]) \in Paths
         /\ \A i \in DOMAIN c.args : HandlerName(c.args[i]) \in Names
  <1>1. c \in [on : Instances, op : {"use"} \cup Methods, args : Seq(Arguments) \ {<< >>}]
    BY CallsAssumption
  <1>2. c.on \in Instances /\ c.op \in {"use"} \cup Methods /\ c.args \in Seq(Arguments) /\ c.args # << >>
    BY <1>1
  <1>3. Len(c.args) \in Nat \ {0} /\ DOMAIN c.args = 1..Len(c.args)
    BY <1>2
  <1>4. \A i \in DOMAIN c.args : c.args[i] \in Arguments
    BY <1>2, <1>3
  <1>5. \A a \in Arguments : Literal(a) \in Paths /\ HandlerName(a) \in Names
    <2>1. << >> \in Paths
      BY DEF Paths
    <2>. QED
      BY <2>1, CallsAssumption DEF Literal, HandlerName, Paths, Names
  <1>. QED
    BY <1>2, <1>3, <1>4, <1>5

LEMMA LayersAre ==
  ASSUME NEW c \in Calls
  PROVE  /\ Layers(c.args) \in Seq(MountLayers \cup GuardLayers)
         /\ \A i \in DOMAIN Layers(c.args) : \E j \in DOMAIN c.args :
               Layers(c.args)[i] = Layer(UsePath(c.args), c.args[j])
         /\ \A j \in DOMAIN c.args : IsRouter(c.args[j]) =>
               \E i \in DOMAIN Layers(c.args) : Layers(c.args)[i] = Layer(UsePath(c.args), c.args[j])
  <1>. DEFINE args == c.args
              h == Handlers(args)
              L == Layers(args)
  <1>1. /\ args \in Seq(Arguments) /\ Len(args) \in Nat \ {0} /\ DOMAIN args = 1..Len(args)
        /\ \A i \in DOMAIN args : args[i] \in Arguments /\ HandlerName(args[i]) \in Names
        /\ UsePath(args) \in Paths
    BY CallIs DEF UsePath
  <1>. HIDE DEF args
  <1>2. /\ h \in Seq(Arguments)
        /\ \A i \in DOMAIN h : \E j \in DOMAIN args : h[i] = args[j]
        /\ \A j \in DOMAIN args : IsRouter(args[j]) => \E i \in DOMAIN h : h[i] = args[j]
    <2>1. CASE args[1].kind = "lit"
      <3>1. h = Tail(args)
        BY <2>1 DEF Handlers
      <3>2. /\ h \in Seq(Arguments) /\ Len(h) = Len(args) - 1
            /\ \A i \in 1..Len(h) : h[i] = args[i + 1]
        BY <1>1, <3>1, HeadTailProperties
      <3>3. ~IsRouter(args[1])
        BY <2>1 DEF IsRouter
      <3>4. \A i \in DOMAIN h : i + 1 \in DOMAIN args /\ h[i] = args[i + 1]
        BY <1>1, <3>2
      <3>5. ASSUME NEW j \in DOMAIN args, IsRouter(args[j])
            PROVE  \E i \in DOMAIN h : h[i] = args[j]
        <4>1. j - 1 \in 1..Len(h)
          BY <1>1, <3>2, <3>3, <3>5
        <4>2. h[j - 1] = args[j]
          BY <1>1, <3>2, <4>1
        <4>. QED
          BY <3>2, <4>1, <4>2
      <3>. QED
        BY <3>2, <3>4, <3>5
    <2>2. CASE args[1].kind # "lit"
      BY <1>1, <2>2 DEF Handlers
    <2>. QED
      BY <2>1, <2>2
  <1>3. L = [i \in DOMAIN h |-> Layer(UsePath(args), h[i])]
    BY DEF Layers
  <1>. HIDE DEF h, L
  <1>4. \A j \in DOMAIN args : Layer(UsePath(args), args[j]) \in MountLayers \cup GuardLayers
    <2>. TAKE j \in DOMAIN args
    <2>1. CASE IsRouter(args[j])
      BY <1>1, <2>1 DEF Layer, IsRouter, MountLayers
    <2>2. CASE ~IsRouter(args[j])
      BY <1>1, <2>2 DEF Layer, GuardLayers
    <2>. QED
      BY <2>1, <2>2
  <1>5. L \in Seq(MountLayers \cup GuardLayers)
    <2>1. Len(h) \in Nat /\ DOMAIN h = 1..Len(h)
      BY <1>2
    <2>2. \A i \in 1..Len(h) : L[i] \in MountLayers \cup GuardLayers
      BY <1>2, <1>3, <1>4, <2>1
    <2>3. L \in [1..Len(h) -> MountLayers \cup GuardLayers]
      BY <1>3, <2>1, <2>2
    <2>. QED
      BY <2>1, <2>3, SeqDef
  <1>6. DOMAIN L = DOMAIN h /\ \A i \in DOMAIN h : L[i] = Layer(UsePath(args), h[i])
    BY <1>3
  <1>7. \A i \in DOMAIN L : \E j \in DOMAIN args : L[i] = Layer(UsePath(args), args[j])
    BY <1>2, <1>6
  <1>8. \A j \in DOMAIN args : IsRouter(args[j]) => \E i \in DOMAIN L : L[i] = Layer(UsePath(args), args[j])
    BY <1>2, <1>6
  <1>. QED
    BY <1>5, <1>7, <1>8 DEF args, L

-----------------------------------------------------------------------------
(* A step adds to the layers of one instance *)

\* One program more: what was there stays, and the layers of one instance grow.
Grows(on, L) ==
    /\ stack' = [stack EXCEPT ![on] = @ \o L]
    /\ on \in Instances

LEMMA GrownStack ==
  ASSUME NEW on \in Instances, NEW L \in Seq(AnyLayer), GraphTypeOK, Grows(on, L)
  PROVE  /\ stack' \in [Instances -> Seq(AnyLayer)]
         /\ \A r \in Instances : \A i \in DOMAIN stack[r] : i \in DOMAIN stack'[r] /\ stack'[r][i] = stack[r][i]
         /\ \A r \in Instances : \A i \in DOMAIN stack'[r] :
               \/ i \in DOMAIN stack[r]
               \/ r = on /\ \E j \in DOMAIN L : stack'[r][i] = L[j]
         /\ \A j \in DOMAIN L : \E i \in DOMAIN stack'[on] : stack'[on][i] = L[j] /\ i \notin DOMAIN stack[on]
         /\ \A r \in Instances \ {on} : stack'[r] = stack[r]
  <1>. DEFINE s == stack[on]
              t == s \o L
  <1>1. s \in Seq(AnyLayer) /\ stack'[on] = t /\ \A r \in Instances \ {on} : stack'[r] = stack[r]
    BY DEF GraphTypeOK, Grows
  <1>2. t \in Seq(AnyLayer) /\ Len(t) = Len(s) + Len(L) /\ Len(s) \in Nat /\ Len(L) \in Nat
    <2>. HIDE DEF s
    <2>. QED
      BY <1>1
  <1>3. /\ \A i \in 1..Len(s) : t[i] = s[i]
        /\ \A i \in 1..Len(L) : t[Len(s) + i] = L[i]
    <2>. HIDE DEF s
    <2>. QED
      BY <1>1
  <1>4. DOMAIN s = 1..Len(s) /\ DOMAIN L = 1..Len(L) /\ DOMAIN t = 1..(Len(s) + Len(L))
    <2>. HIDE DEF s, t
    <2>. QED
      BY <1>1, <1>2
  <1>5. stack' \in [Instances -> Seq(AnyLayer)]
    <2>. HIDE DEF s, t
    <2>. QED
      BY <1>1, <1>2 DEF GraphTypeOK, Grows
  <1>6. \A i \in DOMAIN s : i \in DOMAIN t /\ t[i] = s[i]
    <2>. HIDE DEF s, t
    <2>. QED
      BY <1>2, <1>3, <1>4
  <1>7. \A i \in DOMAIN t : i \in DOMAIN s \/ \E j \in DOMAIN L : t[i] = L[j]
    <2>. HIDE DEF s, t
    <2>. TAKE i \in DOMAIN t
    <2>1. CASE i <= Len(s)
      BY <2>1, <1>2, <1>4
    <2>2. CASE i > Len(s)
      <3>1. i - Len(s) \in 1..Len(L) /\ Len(s) + (i - Len(s)) = i
        BY <2>2, <1>2, <1>4
      <3>2. t[i] = L[i - Len(s)]
        BY <1>3, <3>1
      <3>. QED
        BY <1>4, <3>1, <3>2
    <2>. QED
      BY <2>1, <2>2, <1>2, <1>4
  <1>8. \A j \in DOMAIN L : \E i \in DOMAIN t : t[i] = L[j] /\ i \notin DOMAIN s
    <2>. HIDE DEF s, t
    <2>. TAKE j \in DOMAIN L
    <2>1. Len(s) + j \in DOMAIN t /\ t[Len(s) + j] = L[j] /\ Len(s) + j \notin DOMAIN s
      BY <1>2, <1>3, <1>4
    <2>. QED
      BY <2>1
  <1>. HIDE DEF t
  <1>9. \A r \in Instances : r = on \/ stack'[r] = stack[r]
    BY <1>1
  <1>10. s = stack[on]
    BY DEF s
  <1>. HIDE DEF s
  <1>11. ASSUME NEW r \in Instances, NEW i \in DOMAIN stack[r]
         PROVE  i \in DOMAIN stack'[r] /\ stack'[r][i] = stack[r][i]
    BY <1>1, <1>6, <1>9, <1>10
  <1>12. ASSUME NEW r \in Instances, NEW i \in DOMAIN stack'[r]
         PROVE  i \in DOMAIN stack[r] \/ (r = on /\ \E j \in DOMAIN L : stack'[r][i] = L[j])
    BY <1>1, <1>7, <1>9, <1>10
  <1>13. \A j \in DOMAIN L : \E i \in DOMAIN stack'[on] : stack'[on][i] = L[j] /\ i \notin DOMAIN stack[on]
    BY <1>1, <1>8, <1>10
  <1>. QED
    BY <1>1, <1>5, <1>11, <1>12, <1>13

\* Instances that are mounted stay so.
LEMMA MountedGrows ==
  ASSUME NEW on \in Instances, NEW L \in Seq(AnyLayer), GraphTypeOK, Grows(on, L)
  PROVE  Mounted \subseteq Mounted'
  BY GrownStack DEF Mounted

LEMMA UseGrows ==
  ASSUME NEW c \in Calls, Use(c), GraphTypeOK
  PROVE  /\ Layers(c.args) \in Seq(AnyLayer) /\ Layers(c.args) \in Seq(MountLayers \cup GuardLayers)
         /\ c.on \in Instances /\ Grows(c.on, Layers(c.args))
  <1>1. Layers(c.args) \in Seq(MountLayers \cup GuardLayers)
    BY LayersAre
  <1>2. Layers(c.args) \in Seq(AnyLayer)
    BY <1>1 DEF AnyLayer
  <1>. QED
    BY <1>1, <1>2, CallIs DEF Use, Grows

\* The layer and the entry that a verb adds.
RouteLayer(c) ==
    [kind |-> "route", path |-> c.args[1].path, method |-> c.op,
     names |-> {HandlerName(c.args[i]) : i \in 2..(Len(c.args) - 1)},
     text |-> LastHandler(c.args), call |-> n + 1]
RouteNode(c) ==
    [method |-> c.op, path |-> c.args[1].path, fullPath |-> joinPaths(baseFor[c.on], c.args[1].path),
     middlewares |-> MiddlewareNames(c.args), text |-> LastHandler(c.args), call |-> n + 1]

LEMMA HandlerText ==
  ASSUME NEW c \in Calls
  PROVE  LastHandler(c.args) \in Texts
  <1>. DEFINE args == c.args
              fns == {i \in DOMAIN args : args[i].kind = "fn"}
  <1>1. /\ DOMAIN args = 1..Len(args) /\ Len(args) \in Nat
        /\ \A i \in DOMAIN args : args[i] \in Arguments
    BY CallIs
  <1>2. CASE fns = {}
    BY <1>2 DEF LastHandler, Texts
  <1>3. CASE fns # {}
    <2>. DEFINE Latest(i) == \A j \in fns : j <= i
                Gaps == {Len(args) - i : i \in fns}
    <2>0. \A i \in fns : i \in 1..Len(args)
      BY <1>1
    <2>1. Gaps \in SUBSET Nat /\ Gaps # {}
      <3>. HIDE DEF fns
      <3>1. \A i \in fns : Len(args) - i \in Nat
        BY <1>1, <2>0
      <3>. QED
        BY <1>3, <3>1
    <2>2. PICK g \in Gaps : \A k \in Gaps : g <= k
      BY <2>1, LeastNumber
    <2>3. PICK i \in fns : g = Len(args) - i
      BY <2>2
    <2>4. Latest(i)
      <3>. HIDE DEF fns
      <3>. SUFFICES ASSUME NEW j \in fns PROVE j <= i
        OBVIOUS
      <3>1. Len(args) - j \in Gaps
        OBVIOUS
      <3>2. Len(args) - i <= Len(args) - j
        BY <2>2, <2>3, <3>1
      <3>. QED
        BY <1>1, <2>0, <3>2
    <2>5. (CHOOSE k \in fns : Latest(k)) \in fns
      BY <2>4
    <2>6. LastHandler(args) = args[CHOOSE k \in fns : Latest(k)].text
      BY <1>3 DEF LastHandler
    <2>. HIDE DEF Latest
    <2>. QED
      BY <1>1, <2>5, <2>6 DEF Texts
  <1>. QED
    BY <1>2, <1>3

LEMMA RouteGrows ==
  ASSUME NEW c \in Calls, Route(c), GraphTypeOK
  PROVE  /\ c.on \in Instances /\ RouteLayer(c) \in RouteLayers /\ RouteNode(c) \in RouteNodes
         /\ <<RouteLayer(c)>> \in Seq(AnyLayer) /\ Grows(c.on, <<RouteLayer(c)>>)
         /\ routes' = Append(routes, RouteNode(c))
         /\ RouteLayer(c).names \subseteq Sequence(MiddlewareNames(c.args))
         /\ Sequence(MiddlewareNames(c.args)) \subseteq RouteLayer(c).names \cup {"anonymous"}
  <1>. DEFINE args == c.args
  <1>1. /\ DOMAIN args = 1..Len(args) /\ Len(args) \in Nat \ {0}
        /\ \A i \in DOMAIN args : args[i] \in Arguments /\ HandlerName(args[i]) \in Names
        /\ args[1].kind = "lit" /\ Literal(args[1]) \in Paths /\ c.on \in Instances
        /\ c.op \in Methods /\ n \in Nat /\ baseFor[c.on] \in Paths
    BY CallIs DEF Route, IsVerb, GraphTypeOK
  <1>2. args[1].path \in Paths /\ HandlerName(args[1]) = "anonymous"
    BY <1>1 DEF Literal, HandlerName
  <1>3. LastHandler(args) \in Texts
    BY HandlerText
  <1>4. RouteLayer(c) \in RouteLayers
    <2>1. {HandlerName(args[i]) : i \in 2..(Len(args) - 1)} \subseteq Names
      BY <1>1
    <2>. QED
      BY <1>1, <1>2, <1>3, <2>1 DEF RouteLayer, RouteLayers
  <1>5. MiddlewareNames(args) = [i \in 1..(Len(args) - 1) |-> HandlerName(args[i])]
    BY DEF MiddlewareNames
  <1>6. MiddlewareNames(args) \in Seq(Names)
    <2>1. Len(args) - 1 \in Nat
      BY <1>1
    <2>2. MiddlewareNames(args) \in [1..(Len(args) - 1) -> Names]
      BY <1>1, <1>5
    <2>. QED
      BY <2>1, <2>2, SeqDef
  <1>7. RouteNode(c) \in RouteNodes
    <2>1. joinPaths(baseFor[c.on], args[1].path) \in Paths
      BY <1>1, <1>2 DEF joinPaths, Paths
    <2>. QED
      BY <1>1, <1>2, <1>3, <1>6, <2>1 DEF RouteNode, RouteNodes
  <1>8. \A x : x \in Sequence(MiddlewareNames(args)) <=> \E i \in 1..(Len(args) - 1) : x = HandlerName(args[i])
    BY <1>5 DEF Sequence
  <1>9. \A x : x \in RouteLayer(c).names <=> \E i \in 2..(Len(args) - 1) : x = HandlerName(args[i])
    BY DEF RouteLayer
  <1>10. RouteLayer(c).names \subseteq Sequence(MiddlewareNames(args))
    <2>1. 2..(Len(args) - 1) \subseteq 1..(Len(args) - 1)
      BY <1>1
    <2>. QED
      BY <1>8, <1>9, <2>1
  <1>11. Sequence(MiddlewareNames(args)) \subseteq RouteLayer(c).names \cup {"anonymous"}
    <2>1. \A i \in 1..(Len(args) - 1) : i = 1 \/ i \in 2..(Len(args) - 1)
      BY <1>1
    <2>. QED
      BY <1>2, <1>8, <1>9, <2>1
  <1>12. <<RouteLayer(c)>> \in Seq(AnyLayer)
    BY <1>4 DEF AnyLayer
  <1>13. Grows(c.on, <<RouteLayer(c)>>) /\ routes' = Append(routes, RouteNode(c))
    <2>1. stack' = [stack EXCEPT ![c.on] = Append(@, RouteLayer(c))] /\ routes' = Append(routes, RouteNode(c))
      BY DEF Route, RouteLayer, RouteNode
    <2>2. stack[c.on] \in Seq(AnyLayer)
      BY <1>1 DEF GraphTypeOK
    <2>3. Append(stack[c.on], RouteLayer(c)) = stack[c.on] \o <<RouteLayer(c)>>
      BY <1>4, <2>2 DEF AnyLayer
    <2>. QED
      BY <1>1, <2>1, <2>3 DEF Grows
  <1>. QED
    BY <1>1, <1>4, <1>7, <1>10, <1>11, <1>12, <1>13

-----------------------------------------------------------------------------
(* The invariant *)

LEMMA GraphInitInv == GraphInit => GraphInv
  <1>. SUFFICES ASSUME GraphInit PROVE GraphInv
    OBVIOUS
  <1>1. \A r \in Instances : stack[r] = << >> /\ baseFor[r] = << >>
    BY DEF GraphInit
  <1>2. GraphTypeOK
    BY DEF GraphInit, GraphTypeOK, Paths
  <1>3. DOMAIN routes = {} /\ \A r \in Instances : DOMAIN stack[r] = {}
    BY <1>1 DEF GraphInit
  <1>4. RoutesAreLayers
    BY <1>3 DEF RoutesAreLayers
  <1>5. BasesCompose
    BY <1>1, <1>3 DEF BasesCompose, Instances
  <1>6. MountsDescend
    BY <1>3 DEF MountsDescend
  <1>. QED
    BY <1>2, <1>4, <1>5, <1>6 DEF GraphInv

LEMMA GraphTypeStep ==
  ASSUME GraphTypeOK, NEW c \in Calls, Use(c) \/ Route(c)
  PROVE  GraphTypeOK'
  <1>1. ASSUME Use(c) PROVE GraphTypeOK'
    <2>1. stack' \in [Instances -> Seq(AnyLayer)]
      BY <1>1, UseGrows, GrownStack
    <2>2. MountPath(c.on, c.args) \in Paths
      <3>1. baseFor[c.on] \in Paths /\ 1 \in DOMAIN c.args /\ Literal(c.args[1]) \in Paths /\ << >> \in Paths
        BY CallIs DEF GraphTypeOK, Paths
      <3>. QED
        BY <3>1 DEF MountPath, joinPaths, Paths
    <2>3. baseFor' \in [Instances -> Paths]
      BY <1>1, <2>2 DEF Use, GraphTypeOK
    <2>. QED
      BY <1>1, <2>1, <2>3 DEF Use, GraphTypeOK
  <1>2. ASSUME Route(c) PROVE GraphTypeOK'
    <2>1. stack' \in [Instances -> Seq(AnyLayer)]
      BY <1>2, RouteGrows, GrownStack
    <2>2. routes' \in Seq(RouteNodes)
      <3>. DEFINE node == RouteNode(c)
      <3>1. node \in RouteNodes /\ routes' = Append(routes, node)
        BY <1>2, RouteGrows
      <3>2. routes \in Seq(RouteNodes)
        BY DEF GraphTypeOK
      <3>. HIDE DEF node
      <3>. QED
        BY <3>1, <3>2
    <2>. QED
      BY <1>2, <2>1, <2>2 DEF Route, GraphTypeOK
  <1>. QED
    BY <1>1, <1>2

\* A call that keeps the program plain leaves the bases of what is mounted alone.
LEMMA BasesStay ==
  ASSUME GraphInv, NEW c \in Calls, Use(c) \/ Route(c), Plain'
  PROVE  /\ Plain /\ c.on \in {App} \cup Mounted
         /\ \A r \in {App} \cup Mounted : r \in Instances /\ baseFor'[r] = baseFor[r]
         /\ \A r \in Instances : r \in {App} \cup Mounted \/ stack[r] = << >>
         /\ Use(c) => Seen(c.args) = Mounts(c.args)
  <1>1. Plain /\ c.on \in {App} \cup Mounted /\ Mounts(c.args) \cap ({App} \cup Mounted) = {}
    BY DEF Use, Route, Plain, InOrder
  <1>2. Use(c) => Seen(c.args) = Mounts(c.args)
    BY DEF Use, Plain
  <1>3. \A r \in {App} \cup Mounted : r \in Instances
    BY DEF Mounted, Instances
  <1>4. ASSUME NEW r \in {App} \cup Mounted PROVE baseFor'[r] = baseFor[r]
    <2>1. CASE Use(c)
      BY <1>1, <1>2, <1>3, <2>1 DEF Use
    <2>2. CASE Route(c)
      BY <2>2 DEF Route
    <2>. QED
      BY <2>1, <2>2
  <1>5. \A r \in Instances : r \in {App} \cup Mounted \/ stack[r] = << >>
    BY <1>1 DEF GraphInv, BasesCompose, Plain
  <1>. QED
    BY <1>1, <1>2, <1>3, <1>4, <1>5

\* The router a new layer mounts has the base of that layer.
LEMMA NewBase ==
  ASSUME GraphInv, NEW c \in Calls, Use(c), Plain', NEW j \in DOMAIN c.args, IsRouter(c.args[j])
  PROVE  baseFor'[c.args[j].name] = baseFor'[c.on] \o UsePath(c.args)
  <1>. DEFINE args == c.args
              a == args[j]
  <1>1. a.kind = "id" /\ a.name \in Instances
    BY DEF IsRouter
  <1>2. a.name \in Seen(args)
    BY <1>1, BasesStay DEF Mounts
  <1>3. baseFor'[a.name] = MountPath(c.on, args)
    BY <1>1, <1>2 DEF Use
  <1>4. baseFor'[c.on] = baseFor[c.on]
    BY BasesStay
  <1>5. MountPath(c.on, args) = baseFor[c.on] \o UsePath(args)
    <2>1. CASE Len(args) >= 2 /\ args[2].kind = "id"
      BY <2>1 DEF MountPath, UsePath, joinPaths
    <2>2. CASE ~(Len(args) >= 2 /\ args[2].kind = "id")
      <3>1. Seen(args) = IF IsRouter(args[1]) THEN {args[1].name} ELSE {}
        BY <2>2 DEF Seen
      <3>2. args[1].kind = "id"
        BY <1>2, <3>1 DEF IsRouter
      <3>3. UsePath(args) = << >>
        BY <3>2 DEF UsePath, Literal
      <3>. QED
        BY <2>2, <3>3 DEF MountPath, joinPaths
    <2>. QED
      BY <2>1, <2>2
  <1>. QED
    BY <1>3, <1>4, <1>5

\* What Express adds to an instance on a call.
Added(c) == IF c.op = "use" THEN Layers(c.args) ELSE <<RouteLayer(c)>>

LEMMA CallGrows ==
  ASSUME GraphTypeOK, NEW c \in Calls, Use(c) \/ Route(c)
  PROVE  c.on \in Instances /\ Added(c) \in Seq(AnyLayer) /\ Grows(c.on, Added(c))
  <1>1. ASSUME Use(c) PROVE Added(c) = Layers(c.args)
    BY <1>1 DEF Use, Added
  <1>2. ASSUME Route(c) PROVE Added(c) = <<RouteLayer(c)>>
    <2>1. c.op # "use"
      BY <1>2 DEF Route, IsVerb, Methods
    <2>. QED
      BY <2>1 DEF Added
  <1>. QED
    BY <1>1, <1>2, UseGrows, RouteGrows

\* The layer a mount makes.
LEMMA AddedMounts ==
  ASSUME GraphTypeOK, NEW c \in Calls, Use(c) \/ Route(c),
         NEW j \in DOMAIN Added(c), Added(c)[j].kind = "mount"
  PROVE  /\ Use(c)
         /\ \E m \in DOMAIN c.args : /\ IsRouter(c.args[m])
                                     /\ Added(c)[j].path = UsePath(c.args)
                                     /\ Added(c)[j].router = c.args[m].name
  <1>1. Use(c)
    <2>1. ASSUME Route(c) PROVE FALSE
      <3>1. c.op # "use"
        BY <2>1 DEF Route, IsVerb, Methods
      <3>2. Added(c) = <<RouteLayer(c)>>
        BY <3>1 DEF Added
      <3>3. j = 1
        BY <3>2
      <3>. QED
        BY <3>2, <3>3 DEF RouteLayer
    <2>. QED
      BY <2>1
  <1>2. Added(c) = Layers(c.args)
    BY <1>1 DEF Use, Added
  <1>3. PICK m \in DOMAIN c.args : Added(c)[j] = Layer(UsePath(c.args), c.args[m])
    <2>1. j \in DOMAIN Layers(c.args)
      BY <1>2
    <2>2. \E m \in DOMAIN c.args : Layers(c.args)[j] = Layer(UsePath(c.args), c.args[m])
      BY <2>1, LayersAre
    <2>. QED
      BY <1>2, <2>2
  <1>4. IsRouter(c.args[m])
    BY <1>3 DEF Layer
  <1>. QED
    BY <1>1, <1>3, <1>4 DEF Layer

LEMMA BasesStep ==
  ASSUME GraphInv, NEW c \in Calls, Use(c) \/ Route(c)
  PROVE  BasesCompose'
  <1>. DEFINE L == Added(c)
  <1>0. GraphTypeOK /\ BasesCompose
    BY DEF GraphInv
  <1>1. c.on \in Instances /\ L \in Seq(AnyLayer) /\ Grows(c.on, L)
    BY <1>0, CallGrows
  <1>2. /\ Mounted \subseteq Mounted'
        /\ \A r \in Instances \ {c.on} : stack'[r] = stack[r]
        /\ \A r \in Instances : \A i \in DOMAIN stack[r] : stack'[r][i] = stack[r][i]
        /\ \A r \in Instances : \A i \in DOMAIN stack'[r] :
               i \in DOMAIN stack[r] \/ (r = c.on /\ \E j \in DOMAIN L : stack'[r][i] = L[j])
    <2>. DEFINE on == c.on
    <2>1. on \in Instances /\ L \in Seq(AnyLayer) /\ Grows(on, L)
      BY <1>1
    <2>. HIDE DEF L, on
    <2>2. Mounted \subseteq Mounted'
      BY <1>0, <2>1, MountedGrows
    <2>3. /\ \A r \in Instances \ {on} : stack'[r] = stack[r]
          /\ \A r \in Instances : \A i \in DOMAIN stack[r] : stack'[r][i] = stack[r][i]
          /\ \A r \in Instances : \A i \in DOMAIN stack'[r] :
               i \in DOMAIN stack[r] \/ (r = on /\ \E j \in DOMAIN L : stack'[r][i] = L[j])
      BY <1>0, <2>1, GrownStack
    <2>. QED
      BY <2>2, <2>3 DEF on
  <1>3. inOrder' => \A r \in Instances \ ({App} \cup Mounted') : stack'[r] = << >>
    <2>. SUFFICES ASSUME inOrder', NEW r \in Instances \ ({App} \cup Mounted') PROVE stack'[r] = << >>
      OBVIOUS
    <2>1. inOrder /\ c.on \in {App} \cup Mounted
      BY DEF Use, Route, InOrder
    <2>2. r \in Instances \ ({App} \cup Mounted) /\ r # c.on
      BY <1>2, <2>1
    <2>. QED
      BY <1>0, <1>2, <2>1, <2>2 DEF BasesCompose
  <1>4. Plain' => baseFor'[App] = << >>
    BY <1>0, BasesStay DEF BasesCompose
  <1>5. ASSUME Plain', NEW r \in Instances, NEW i \in DOMAIN stack'[r], stack'[r][i].kind = "mount"
        PROVE  baseFor'[stack'[r][i].router] = baseFor'[r] \o stack'[r][i].path
    <2>1. CASE i \in DOMAIN stack[r]
      <3>1. stack'[r][i] = stack[r][i]
        BY <1>2, <2>1
      <3>2. stack[r] # << >>
        BY <2>1
      <3>3. r \in {App} \cup Mounted /\ Plain
        BY <1>5, <3>2, BasesStay
      <3>4. stack[r][i] \in AnyLayer
        BY <1>0, <2>1 DEF GraphTypeOK
      <3>5. stack[r][i].router \in Instances
        BY <1>5, <3>1, <3>4 DEF AnyLayer, RouteLayers, MountLayers, GuardLayers
      <3>6. stack[r][i].router \in Mounted
        BY <1>5, <2>1, <3>1, <3>5 DEF Mounted
      <3>7. baseFor[stack[r][i].router] = baseFor[r] \o stack[r][i].path
        BY <1>0, <1>5, <2>1, <3>1, <3>3 DEF BasesCompose
      <3>8. baseFor'[stack[r][i].router] = baseFor[stack[r][i].router] /\ baseFor'[r] = baseFor[r]
        BY <1>5, <3>3, <3>6, BasesStay
      <3>. QED
        BY <3>1, <3>7, <3>8
    <2>2. CASE i \notin DOMAIN stack[r]
      <3>1. PICK j \in DOMAIN L : r = c.on /\ stack'[r][i] = L[j]
        BY <1>2, <2>2
      <3>2. Use(c) /\ \E m \in DOMAIN c.args : /\ IsRouter(c.args[m])
                                               /\ L[j].path = UsePath(c.args) /\ L[j].router = c.args[m].name
        BY <1>0, <1>5, <3>1, AddedMounts
      <3>. QED
        BY <1>5, <3>1, <3>2, NewBase
    <2>. QED
      BY <2>1, <2>2
  <1>. HIDE DEF L
  <1>. QED
    BY <1>3, <1>4, <1>5 DEF BasesCompose

LEMMA DescendStep ==
  ASSUME GraphInv, NEW c \in Calls, Use(c) \/ Route(c)
  PROVE  MountsDescend'
  <1>. DEFINE L == Added(c)
  <1>0. GraphTypeOK /\ MountsDescend
    BY DEF GraphInv
  <1>1. c.on \in Instances /\ L \in Seq(AnyLayer) /\ Grows(c.on, L)
    BY <1>0, CallGrows
  <1>2. /\ \A r \in Instances : \A i \in DOMAIN stack[r] : stack'[r][i] = stack[r][i]
        /\ \A r \in Instances : \A i \in DOMAIN stack'[r] :
               i \in DOMAIN stack[r] \/ (r = c.on /\ \E j \in DOMAIN L : stack'[r][i] = L[j])
    <2>. DEFINE on == c.on
    <2>1. on \in Instances /\ L \in Seq(AnyLayer) /\ Grows(on, L)
      BY <1>1
    <2>. HIDE DEF L, on
    <2>2. /\ \A r \in Instances : \A i \in DOMAIN stack[r] : stack'[r][i] = stack[r][i]
          /\ \A r \in Instances : \A i \in DOMAIN stack'[r] :
               i \in DOMAIN stack[r] \/ (r = on /\ \E j \in DOMAIN L : stack'[r][i] = L[j])
      BY <1>0, <2>1, GrownStack
    <2>. QED
      BY <2>2 DEF on
  <1>. SUFFICES ASSUME NEW rank, IsRank(rank),
                       NEW r \in Instances, NEW i \in DOMAIN stack'[r], stack'[r][i].kind = "mount"
                PROVE  rank[r] < rank[stack'[r][i].router]
    <2>1. \A rank : IsRank(rank)' <=> IsRank(rank)
      BY DEF IsRank
    <2>. QED
      BY <2>1 DEF MountsDescend
  <1>3. CASE i \in DOMAIN stack[r]
    BY <1>0, <1>2, <1>3 DEF MountsDescend
  <1>4. CASE i \notin DOMAIN stack[r]
    <2>1. PICK j \in DOMAIN L : r = c.on /\ stack'[r][i] = L[j]
      BY <1>2, <1>4
    <2>2. \E m \in DOMAIN c.args : IsRouter(c.args[m]) /\ L[j].router = c.args[m].name
      BY <1>0, <2>1, AddedMounts
    <2>. QED
      BY <2>1, <2>2 DEF IsRank
  <1>. QED
    BY <1>3, <1>4

LEMMA RoutesGrow ==
  ASSUME GraphTypeOK, NEW c \in Calls, Use(c) \/ Route(c), NEW k \in DOMAIN routes
  PROVE  k \in DOMAIN routes' /\ routes'[k] = routes[k]
  <1>1. CASE Use(c)
    BY <1>1 DEF Use
  <1>2. CASE Route(c)
    <2>. DEFINE node == RouteNode(c)
    <2>1. node \in RouteNodes /\ routes' = Append(routes, node)
      BY <1>2, RouteGrows
    <2>2. routes \in Seq(RouteNodes)
      BY DEF GraphTypeOK
    <2>. HIDE DEF node
    <2>. QED
      BY <2>1, <2>2
  <1>. QED
    BY <1>1, <1>2

LEMMA ExtractedStays ==
  ASSUME GraphInv, NEW c \in Calls, Use(c) \/ Route(c),
         NEW k \in DOMAIN routes, NEW r \in Instances, NEW i \in DOMAIN stack[r], Extracted(k, r, i)
  PROVE  i \in DOMAIN stack'[r] /\ Extracted(k, r, i)'
  <1>0. GraphTypeOK
    BY DEF GraphInv
  <1>1. i \in DOMAIN stack'[r] /\ stack'[r][i] = stack[r][i]
    BY <1>0, CallGrows, GrownStack
  <1>2. routes'[k] = routes[k]
    BY <1>0, RoutesGrow
  <1>3. Plain' => Plain /\ baseFor'[r] = baseFor[r]
    <2>1. stack[r] # << >>
      OBVIOUS
    <2>. QED
      BY <2>1, BasesStay
  <1>4. \A l, e : l = stack[r][i] /\ e = routes[k] =>
          /\ l.kind = "route" /\ e.call = l.call /\ e.method = l.method /\ e.path = l.path /\ e.text = l.text
          /\ l.names \subseteq Sequence(e.middlewares) /\ Sequence(e.middlewares) \subseteq l.names \cup {"anonymous"}
          /\ \E base \in Paths : e.fullPath = base \o l.path
          /\ Plain => e.fullPath = baseFor[r] \o l.path
    BY DEF Extracted
  <1>. QED
    BY <1>1, <1>2, <1>3, <1>4 DEF Extracted

LEMMA RoutesStep ==
  ASSUME GraphInv, NEW c \in Calls, Use(c) \/ Route(c)
  PROVE  RoutesAreLayers'
  <1>. DEFINE L == Added(c)
              on == c.on
  <1>0. GraphTypeOK /\ RoutesAreLayers
    BY DEF GraphInv
  <1>1. on \in Instances /\ L \in Seq(AnyLayer) /\ Grows(on, L)
    BY <1>0, CallGrows
  <1>2. /\ \A r \in Instances : \A i \in DOMAIN stack'[r] :
               i \in DOMAIN stack[r] \/ (r = on /\ \E j \in DOMAIN L : stack'[r][i] = L[j])
        /\ \A r \in Instances : \A i \in DOMAIN stack[r] : stack'[r][i] = stack[r][i]
        /\ \A j \in DOMAIN L : \E i \in DOMAIN stack'[on] : stack'[on][i] = L[j]
    <2>. HIDE DEF L, on
    <2>. QED
      BY <1>0, <1>1, GrownStack
  <1>3. ASSUME NEW k \in DOMAIN routes
        PROVE  \E r \in Instances : \E i \in DOMAIN stack'[r] : Extracted(k, r, i)'
    <2>0. PICK r \in Instances : \E i \in DOMAIN stack[r] : Extracted(k, r, i)
      BY <1>0 DEF RoutesAreLayers
    <2>1. PICK i \in DOMAIN stack[r] : Extracted(k, r, i)
      BY <2>0
    <2>. QED
      BY <2>1, ExtractedStays
  <1>4. ASSUME NEW r \in Instances, NEW i \in DOMAIN stack[r], stack'[r][i].kind = "route"
        PROVE  \E k \in DOMAIN routes' : Extracted(k, r, i)'
    <2>1. stack[r][i].kind = "route"
      BY <1>2, <1>4
    <2>2. PICK k \in DOMAIN routes : Extracted(k, r, i)
      BY <1>0, <2>1 DEF RoutesAreLayers
    <2>. QED
      BY <1>0, <2>2, ExtractedStays, RoutesGrow
  <1>5. CASE Use(c)
    <2>1. L = Layers(c.args) /\ routes' = routes
      BY <1>5 DEF Use, Added
    <2>2. \A j \in DOMAIN L : L[j].kind # "route"
      <3>1. L \in Seq(MountLayers \cup GuardLayers)
        BY <2>1, LayersAre
      <3>. HIDE DEF L
      <3>. QED
        BY <3>1 DEF MountLayers, GuardLayers
    <2>3. ASSUME NEW r \in Instances, NEW i \in DOMAIN stack'[r], stack'[r][i].kind = "route"
          PROVE  \E k \in DOMAIN routes' : Extracted(k, r, i)'
      <3>1. i \in DOMAIN stack[r]
        BY <1>2, <2>2, <2>3
      <3>. QED
        BY <1>4, <2>3, <3>1
    <2>. QED
      BY <1>3, <2>1, <2>3 DEF RoutesAreLayers
  <1>6. CASE Route(c)
    <2>. DEFINE node == RouteNode(c)
    <2>0. PICK new : new = Len(routes) + 1
      OBVIOUS
    <2>1. L = <<RouteLayer(c)>>
      <3>1. c.op # "use"
        BY <1>6 DEF Route, IsVerb, Methods
      <3>. QED
        BY <3>1 DEF Added
    <2>2. node \in RouteNodes /\ routes' = Append(routes, node) /\ RouteLayer(c) \in RouteLayers
      BY <1>0, <1>6, RouteGrows
    <2>3. /\ new \in DOMAIN routes' /\ routes'[new] = node
          /\ \A k \in DOMAIN routes' : k \in DOMAIN routes \/ k = new
      <3>1. routes \in Seq(RouteNodes)
        BY <1>0 DEF GraphTypeOK
      <3>. HIDE DEF node
      <3>. QED
        BY <2>0, <2>2, <3>1
    <2>4. ASSUME NEW i \in DOMAIN stack'[on], stack'[on][i] = RouteLayer(c)
          PROVE  Extracted(new, c.on, i)'
      <3>1. baseFor' = baseFor /\ baseFor[on] \in Paths
        BY <1>0, <1>1, <1>6 DEF Route, GraphTypeOK
      <3>2. /\ RouteLayer(c).names \subseteq Sequence(node.middlewares)
            /\ Sequence(node.middlewares) \subseteq RouteLayer(c).names \cup {"anonymous"}
        <4>1. node.middlewares = MiddlewareNames(c.args)
          BY DEF RouteNode
        <4>. QED
          BY <1>0, <1>6, <4>1, RouteGrows
      <3>3. /\ RouteLayer(c).kind = "route" /\ node.call = RouteLayer(c).call
            /\ node.method = RouteLayer(c).method
            /\ node.path = RouteLayer(c).path /\ node.text = RouteLayer(c).text
            /\ node.fullPath = baseFor[on] \o RouteLayer(c).path
        BY DEF RouteLayer, RouteNode, joinPaths
      <3>4. stack'[c.on][i] = RouteLayer(c) /\ routes'[new] = node
        BY <2>3, <2>4
      <3>. HIDE DEF node
      <3>5. \A l, e : l = RouteLayer(c) /\ e = node =>
              /\ l.kind = "route" /\ e.call = l.call /\ e.method = l.method /\ e.path = l.path /\ e.text = l.text
              /\ l.names \subseteq Sequence(e.middlewares) /\ Sequence(e.middlewares) \subseteq l.names \cup {"anonymous"}
              /\ e.fullPath = baseFor[c.on] \o l.path /\ \E base \in Paths : e.fullPath = base \o l.path
        BY <3>1, <3>2, <3>3
      <3>. DEFINE l == stack'[c.on][i]
                  e == routes'[new]
      <3>6. l = RouteLayer(c) /\ e = node
        BY ONLY <3>4
      <3>. HIDE DEF l, e
      <3>7. /\ l.kind = "route" /\ e.call = l.call /\ e.method = l.method /\ e.path = l.path /\ e.text = l.text
            /\ l.names \subseteq Sequence(e.middlewares) /\ Sequence(e.middlewares) \subseteq l.names \cup {"anonymous"}
            /\ e.fullPath = baseFor'[c.on] \o l.path /\ \E base \in Paths : e.fullPath = base \o l.path
        BY ONLY <3>1, <3>5, <3>6
      <3>. QED
        BY ONLY <3>7 DEF Extracted, l, e
    <2>5. ASSUME NEW r \in Instances, NEW i \in DOMAIN stack'[r], stack'[r][i].kind = "route"
          PROVE  \E k \in DOMAIN routes' : Extracted(k, r, i)'
      <3>1. CASE i \in DOMAIN stack[r]
        BY <1>4, <2>5, <3>1
      <3>2. CASE i \notin DOMAIN stack[r]
        <4>1. r = on /\ stack'[r][i] = RouteLayer(c)
          BY <1>2, <2>1, <3>2
        <4>. QED
          BY <2>3, <2>4, <4>1
      <3>. QED
        BY <3>1, <3>2
    <2>6. ASSUME NEW k \in DOMAIN routes'
          PROVE  \E r \in Instances : \E i \in DOMAIN stack'[r] : Extracted(k, r, i)'
      <3>1. CASE k \in DOMAIN routes
        BY <1>3, <3>1
      <3>2. CASE k = new
        <4>1. 1 \in DOMAIN L /\ L[1] = RouteLayer(c)
          BY <2>1
        <4>2. PICK i \in DOMAIN stack'[on] : stack'[on][i] = RouteLayer(c)
          BY <1>2, <4>1
        <4>. QED
          BY <1>1, <2>4, <3>2, <4>2
      <3>. QED
        BY <2>3, <3>1, <3>2
    <2>. QED
      BY <2>5, <2>6 DEF RoutesAreLayers
  <1>. QED
    BY <1>5, <1>6

LEMMA GraphInvStep == GraphInv /\ [GraphNext]_graphVars => GraphInv'
  <1>. SUFFICES ASSUME GraphInv, [GraphNext]_graphVars PROVE GraphInv'
    OBVIOUS
  <1>1. ASSUME NEW c \in Calls, Use(c) \/ Route(c) PROVE GraphInv'
    <2>1. GraphTypeOK'
      BY <1>1, GraphTypeStep DEF GraphInv
    <2>. QED
      BY <1>1, <2>1, RoutesStep, BasesStep, DescendStep DEF GraphInv
  <1>2. CASE UNCHANGED graphVars
    <2>. USE <1>2 DEF graphVars
    <2>1. GraphTypeOK'
      BY DEF GraphInv, GraphTypeOK
    <2>2. RoutesAreLayers'
      <3>1. \A k, r, i : Extracted(k, r, i)' <=> Extracted(k, r, i)
        BY DEF Extracted, Plain
      <3>. QED
        BY <3>1 DEF GraphInv, RoutesAreLayers
    <2>3. BasesCompose'
      BY DEF GraphInv, BasesCompose, Plain, Mounted
    <2>4. MountsDescend'
      BY DEF GraphInv, MountsDescend, IsRank
    <2>. QED
      BY <2>1, <2>2, <2>3, <2>4 DEF GraphInv
  <1>. QED
    BY <1>1, <1>2 DEF GraphNext

(***************************************************************************)
(* For any calls: the routes extracted are the layers of routes, bases     *)
(* compose along mounts in plain programs, and mounts descend.             *)
(***************************************************************************)
THEOREM GraphIsRead == GraphSpec => []GraphInv
  BY GraphInitInv, GraphInvStep, PTL DEF GraphSpec

-----------------------------------------------------------------------------
(* What is below a router *)

Ways == [method : Methods, own : Paths, path : Paths, call : Nat, text : Texts, names : SUBSET Names]
MountsOf(r) == {k \in DOMAIN stack[r] : stack[r][k].kind = "mount"}
RoutesOf(r) == {k \in DOMAIN stack[r] : stack[r][k].kind = "route"}

LEMMA LayerIs ==
  ASSUME GraphTypeOK, NEW r \in Instances
  PROVE  /\ \A i \in MountsOf(r) : stack[r][i].router \in Instances /\ stack[r][i].path \in Paths
         /\ \A i \in RoutesOf(r) : stack[r][i] \in RouteLayers
         /\ \A path : \A i \in DOMAIN stack[r] : GuardsBefore(r, i, path) \subseteq Names
  <1>1. \A i \in DOMAIN stack[r] : stack[r][i] \in AnyLayer /\ DOMAIN stack[r] = 1..Len(stack[r])
                                   /\ Len(stack[r]) \in Nat
    BY DEF GraphTypeOK
  <1>2. \A l \in AnyLayer : /\ l.kind = "mount" => l.router \in Instances /\ l.path \in Paths
                            /\ l.kind = "route" => l \in RouteLayers
                            /\ l.kind = "guard" => l.name \in Names
    BY DEF AnyLayer, RouteLayers, MountLayers, GuardLayers
  <1>3. ASSUME NEW i \in DOMAIN stack[r], NEW path PROVE GuardsBefore(r, i, path) \subseteq Names
    <2>. SUFFICES ASSUME NEW j \in 1..(i - 1), stack[r][j].kind = "guard" PROVE stack[r][j].name \in Names
      BY DEF GuardsBefore
    <2>1. j \in DOMAIN stack[r]
      BY <1>1
    <2>. QED
      BY <1>1, <1>2, <2>1
  <1>. QED
    BY <1>1, <1>2, <1>3 DEF MountsOf, RoutesOf

LEMMA RoutesOnAre ==
  ASSUME GraphTypeOK, NEW r \in Instances
  PROVE  RoutesOn(r) \subseteq Ways
  <1>. SUFFICES ASSUME NEW i \in RoutesOf(r)
                PROVE  [method |-> stack[r][i].method, own |-> stack[r][i].path, path |-> stack[r][i].path,
                        call |-> stack[r][i].call, text |-> stack[r][i].text,
                        names |-> stack[r][i].names \cup GuardsBefore(r, i, stack[r][i].path)] \in Ways
    BY DEF RoutesOn, RoutesOf
  <1>1. stack[r][i] \in RouteLayers
    BY LayerIs
  <1>2. GuardsBefore(r, i, stack[r][i].path) \subseteq Names
    BY LayerIs DEF RoutesOf
  <1>. DEFINE l == stack[r][i]
              g == GuardsBefore(r, i, stack[r][i].path)
  <1>3. l \in RouteLayers /\ g \subseteq Names
    BY <1>1, <1>2
  <1>. HIDE DEF l, g
  <1>4. [method |-> l.method, own |-> l.path, path |-> l.path, call |-> l.call, text |-> l.text,
         names |-> l.names \cup g] \in Ways
    BY <1>3 DEF RouteLayers, Ways
  <1>. QED
    BY <1>4 DEF l, g

LEMMA ThroughIs ==
  ASSUME GraphTypeOK, NEW r \in Instances, NEW i \in MountsOf(r), NEW s \in Ways
  PROVE  LET path == stack[r][i].path \o s.path
         IN  /\ Through(r, i, s) \in Ways
             /\ Through(r, i, s).path = path
             /\ Through(r, i, s).names = s.names \cup GuardsBefore(r, i, path)
             /\ Through(r, i, s).method = s.method /\ Through(r, i, s).own = s.own
             /\ Through(r, i, s).call = s.call /\ Through(r, i, s).text = s.text
  <1>. DEFINE path == stack[r][i].path \o s.path
              g == GuardsBefore(r, i, path)
  <1>1. g \subseteq Names
    BY LayerIs DEF MountsOf
  <1>2. path \in Paths
    <2>1. stack[r][i].path \in Paths /\ s.path \in Paths
      BY LayerIs DEF Ways
    <2>. QED
      BY <2>1 DEF Paths
  <1>3. Through(r, i, s) = [s EXCEPT !.path = path, !.names = s.names \cup g]
    BY DEF Through
  <1>. DEFINE e == [s EXCEPT !.path = path, !.names = s.names \cup g]
  <1>. HIDE DEF path, g
  <1>4. s.names \cup g \in SUBSET Names
    BY <1>1 DEF Ways
  <1>5. e \in Ways
    BY <1>2, <1>4 DEF Ways
  <1>6. /\ e.path = path /\ e.names = s.names \cup g /\ e.method = s.method
        /\ e.own = s.own /\ e.call = s.call /\ e.text = s.text
    BY <1>2, <1>4 DEF Ways
  <1>. HIDE DEF e
  <1>7. Through(r, i, s) = e
    BY <1>3 DEF e
  <1>8. /\ Through(r, i, s) \in Ways
        /\ Through(r, i, s).path = path
        /\ Through(r, i, s).names = s.names \cup g
        /\ Through(r, i, s).method = s.method /\ Through(r, i, s).own = s.own
        /\ Through(r, i, s).call = s.call /\ Through(r, i, s).text = s.text
    BY <1>5, <1>6, <1>7
  <1>. QED
    BY <1>8 DEF path, g

\* What the routers mounted in r have, given what each router has.
Mounting(v, r) == UNION {{Through(r, i, s) : s \in v[stack[r][i].router]} :
                            i \in {k \in DOMAIN stack[r] : stack[r][k].kind = "mount"}}

LEMMA MountingIs ==
  ASSUME GraphTypeOK, NEW v \in [Instances -> SUBSET Ways], NEW r \in Instances
  PROVE  /\ Mounting(v, r) \subseteq Ways
         /\ \A s : s \in Mounting(v, r) <=>
               \E i \in MountsOf(r) : \E u \in v[stack[r][i].router] : s = Through(r, i, u)
  <1>1. \A s : s \in Mounting(v, r) <=>
               \E i \in MountsOf(r) : \E u \in v[stack[r][i].router] : s = Through(r, i, u)
    BY DEF Mounting, MountsOf
  <1>2. ASSUME NEW i \in MountsOf(r), NEW u \in v[stack[r][i].router] PROVE Through(r, i, u) \in Ways
    <2>1. u \in Ways
      BY LayerIs
    <2>. QED
      BY <2>1, ThroughIs
  <1>. QED
    BY <1>1, <1>2

IsBelow(h) ==
    h = [d \in 0..Cardinality(Routers) |-> [r \in Instances |->
            RoutesOn(r) \cup
                IF d = 0 THEN {}
                ELSE UNION {{Through(r, i, s) : s \in h[d - 1][stack[r][i].router]} :
                               i \in {k \in DOMAIN stack[r] : stack[r][k].kind = "mount"}}]]

LEMMA BelowExists ==
  ASSUME GraphTypeOK
  PROVE  /\ Cardinality(Routers) \in Nat
         /\ Below \in [0..Cardinality(Routers) -> [Instances -> SUBSET Ways]]
         /\ \A r \in Instances : Below[0][r] = RoutesOn(r)
         /\ \A d \in 1..Cardinality(Routers), r \in Instances :
               Below[d][r] = RoutesOn(r) \cup Mounting(Below[d - 1], r)
  <1>. DEFINE K == Cardinality(Routers)
              V == [Instances -> SUBSET Ways]
              base == [r \in Instances |-> RoutesOn(r)]
              step == [v \in V |-> [r \in Instances |-> RoutesOn(r) \cup Mounting(v, r)]]
              next == [d \in 1..K |-> step]
  <1>1. K \in Nat
    BY RoutersAssumption, FS_CardinalityType
  <1>2. base \in V
    BY RoutesOnAre
  <1>3. step \in [V -> V]
    <2>1. ASSUME NEW v \in V PROVE [r \in Instances |-> RoutesOn(r) \cup Mounting(v, r)] \in V
      <3>1. \A r \in Instances : RoutesOn(r) \cup Mounting(v, r) \subseteq Ways
        BY RoutesOnAre, MountingIs
      <3>. QED
        BY <3>1
    <2>. HIDE DEF V
    <2>. QED
      BY <2>1
  <1>4. next \in [1..K -> [V -> V]] /\ \A d \in 1..K : next[d] = step
    <2>. HIDE DEF V, step, K
    <2>. QED
      BY <1>3
  <1>5. \A v \in V : step[v] = [r \in Instances |-> RoutesOn(r) \cup Mounting(v, r)]
    <2>. HIDE DEF V
    <2>. QED
      OBVIOUS
  <1>. HIDE DEF next, step
  <1>6. PICK h : Recursion(h, K, V, base, next)
    <2>. HIDE DEF K, V, base
    <2>. QED
      BY <1>1, <1>2, <1>4, Recursive
  <1>7. h \in [0..K -> V] /\ h[0] = base /\ \A d \in 1..K : h[d] = next[d][h[d - 1]]
    BY <1>6 DEF Recursion
  <1>8. \A d \in 1..K : h[d - 1] \in V /\ h[d] = [r \in Instances |-> RoutesOn(r) \cup Mounting(h[d - 1], r)]
    <2>. HIDE DEF V, base
    <2>. TAKE d \in 1..K
    <2>1. d - 1 \in 0..K
      BY <1>1
    <2>2. h[d - 1] \in V
      BY <1>7, <2>1
    <2>3. h[d] = step[h[d - 1]]
      BY <1>4, <1>7
    <2>. QED
      BY <1>5, <2>2, <2>3
  <1>9. IsBelow(h)
    <2>. DEFINE Level(d) == [r \in Instances |->
            RoutesOn(r) \cup
                IF d = 0 THEN {}
                ELSE UNION {{Through(r, i, s) : s \in h[d - 1][stack[r][i].router]} :
                               i \in {k \in DOMAIN stack[r] : stack[r][k].kind = "mount"}}]
                g == [d \in 0..K |-> Level(d)]
    <2>1. Level(0) = h[0]
      BY <1>7
    <2>2. ASSUME NEW d \in 1..K PROVE Level(d) = h[d]
      <3>1. d # 0
        BY <1>1
      <3>2. Level(d) = [r \in Instances |-> RoutesOn(r) \cup Mounting(h[d - 1], r)]
        BY <3>1 DEF Mounting
      <3>. QED
        BY <1>8, <3>2
    <2>. HIDE DEF Level, V
    <2>3. \A d \in 0..K : d = 0 \/ d \in 1..K
      BY <1>1
    <2>4. h = g
      BY <1>7, <2>1, <2>2, <2>3
    <2>. QED
      BY <2>4 DEF g, Level, IsBelow
  <1>10. IsBelow(Below)
    <2>1. Below = CHOOSE b : IsBelow(b)
      BY DEF Below, IsBelow
    <2>. QED
      BY <1>9, <2>1
  <1>11. /\ Below = [d \in 0..K |-> Below[d]]
         /\ \A d \in 0..K : Below[d] = [r \in Instances |->
                RoutesOn(r) \cup IF d = 0 THEN {} ELSE Mounting(Below[d - 1], r)]
    <2>. DEFINE Level(d) == [r \in Instances |->
            RoutesOn(r) \cup
                IF d = 0 THEN {}
                ELSE UNION {{Through(r, i, s) : s \in Below[d - 1][stack[r][i].router]} :
                               i \in {k \in DOMAIN stack[r] : stack[r][k].kind = "mount"}}]
    <2>1. Below = [d \in 0..K |-> Level(d)]
      BY <1>10 DEF IsBelow
    <2>2. \A d \in 0..K : Level(d) = [r \in Instances |->
                RoutesOn(r) \cup IF d = 0 THEN {} ELSE Mounting(Below[d - 1], r)]
      BY DEF Mounting
    <2>. HIDE DEF Level
    <2>. QED
      BY <2>1, <2>2
  <1>12. Below[0] = base
    <2>1. 0 \in 0..K
      BY <1>1
    <2>. QED
      BY <1>11, <2>1
  <1>13. \A d \in 1..K : Below[d] = [r \in Instances |-> RoutesOn(r) \cup Mounting(Below[d - 1], r)]
    <2>. TAKE d \in 1..K
    <2>1. d \in 0..K /\ d # 0
      BY <1>1
    <2>. QED
      BY <1>11, <2>1
  <1>. DEFINE S == {d \in Nat : d <= K => Below[d] \in V}
  <1>14. S = Nat
    <2>. HIDE DEF V, base
    <2>1. 0 \in S
      BY <1>2, <1>12
    <2>2. ASSUME NEW d \in S PROVE d + 1 \in S
      <3>. SUFFICES ASSUME d + 1 <= K PROVE Below[d + 1] \in V
        OBVIOUS
      <3>1. d + 1 \in 1..K /\ (d + 1) - 1 = d /\ Below[d] \in V
        BY <1>1
      <3>2. Below[d + 1] = [r \in Instances |-> RoutesOn(r) \cup Mounting(Below[(d + 1) - 1], r)]
        BY <1>13, <3>1
      <3>3. \A v \in V : [r \in Instances |-> RoutesOn(r) \cup Mounting(v, r)] \in V
        BY <1>3, <1>5
      <3>. QED
        BY <3>1, <3>2, <3>3
    <2>3. S \in SUBSET Nat
      OBVIOUS
    <2>. HIDE DEF S
    <2>. QED
      BY <2>1, <2>2, <2>3, Inductive
  <1>15. Below \in [0..K -> V]
    <2>. HIDE DEF V
    <2>1. \A d \in 0..K : Below[d] \in V
      BY <1>1, <1>14
    <2>. QED
      BY <1>11, <2>1
  <1>. QED
    BY <1>1, <1>12, <1>13, <1>15

\* The ways from a router to its own routes.
LEMMA RoutesOnIs ==
  ASSUME GraphTypeOK, NEW r \in Instances
  PROVE  /\ \A s \in RoutesOn(r) : \E i \in RoutesOf(r) :
               /\ s.method = stack[r][i].method /\ s.own = stack[r][i].path /\ s.path = stack[r][i].path
               /\ s.call = stack[r][i].call /\ s.text = stack[r][i].text
               /\ s.names = stack[r][i].names \cup GuardsBefore(r, i, stack[r][i].path)
         /\ \A i \in RoutesOf(r) : \E s \in RoutesOn(r) :
               /\ s.method = stack[r][i].method /\ s.own = stack[r][i].path /\ s.path = stack[r][i].path
               /\ s.call = stack[r][i].call /\ s.text = stack[r][i].text
               /\ s.names = stack[r][i].names \cup GuardsBefore(r, i, stack[r][i].path)
  <1>. DEFINE way(i) == [method |-> stack[r][i].method, own |-> stack[r][i].path, path |-> stack[r][i].path,
                         call |-> stack[r][i].call, text |-> stack[r][i].text,
                         names |-> stack[r][i].names \cup GuardsBefore(r, i, stack[r][i].path)]
  <1>1. \A i : /\ way(i).method = stack[r][i].method /\ way(i).own = stack[r][i].path
               /\ way(i).path = stack[r][i].path
               /\ way(i).call = stack[r][i].call /\ way(i).text = stack[r][i].text
               /\ way(i).names = stack[r][i].names \cup GuardsBefore(r, i, stack[r][i].path)
    OBVIOUS
  <1>2. RoutesOn(r) = {way(i) : i \in RoutesOf(r)}
    BY DEF RoutesOn, RoutesOf
  <1>. HIDE DEF way
  <1>. QED
    BY <1>1, <1>2

\* More mounts are more ways.
LEMMA BelowGrows ==
  ASSUME GraphTypeOK, NEW e \in 0..Cardinality(Routers), NEW d \in 0..e, NEW r \in Instances
  PROVE  Below[d][r] \subseteq Below[e][r]
  <1>. DEFINE K == Cardinality(Routers)
              S == {m \in Nat : m <= K => \A l \in 0..m : \A q \in Instances : Below[l][q] \subseteq Below[m][q]}
  <1>1. /\ K \in Nat /\ Below \in [0..K -> [Instances -> SUBSET Ways]]
        /\ \A q \in Instances : Below[0][q] = RoutesOn(q)
        /\ \A m \in 1..K, q \in Instances : Below[m][q] = RoutesOn(q) \cup Mounting(Below[m - 1], q)
    BY BelowExists
  <1>. HIDE DEF K
  <1>2. 0 \in S
    OBVIOUS
  <1>3. ASSUME NEW m \in S PROVE m + 1 \in S
    <2>. SUFFICES ASSUME m + 1 <= K, NEW l \in 0..(m + 1), NEW q \in Instances
                  PROVE  Below[l][q] \subseteq Below[m + 1][q]
      OBVIOUS
    <2>1. m \in Nat /\ m <= K /\ m + 1 \in 1..K /\ (m + 1) - 1 = m
          /\ \A j \in 0..m : \A p \in Instances : Below[j][p] \subseteq Below[m][p]
      BY <1>1
    <2>2. Below[m + 1][q] = RoutesOn(q) \cup Mounting(Below[m], q)
      BY <1>1, <2>1
    <2>3. Below[m][q] \subseteq Below[m + 1][q]
      <3>1. CASE m = 0
        BY <1>1, <2>2, <3>1
      <3>2. CASE m # 0
        <4>1. m \in 1..K /\ m - 1 \in 0..m /\ m - 1 \in 0..K /\ m \in 0..K
          BY <1>1, <2>1, <3>2
        <4>2. Below[m][q] = RoutesOn(q) \cup Mounting(Below[m - 1], q)
          BY <1>1, <4>1
        <4>3. \A p \in Instances : Below[m - 1][p] \subseteq Below[m][p]
          BY <2>1, <4>1
        <4>4. Below[m - 1] \in [Instances -> SUBSET Ways] /\ Below[m] \in [Instances -> SUBSET Ways]
          BY <1>1, <4>1
        <4>5. Mounting(Below[m - 1], q) \subseteq Mounting(Below[m], q)
          <5>. DEFINE a == Below[m - 1]
                      b == Below[m]
          <5>1. /\ a \in [Instances -> SUBSET Ways] /\ b \in [Instances -> SUBSET Ways]
                /\ \A p \in Instances : a[p] \subseteq b[p]
            BY <4>3, <4>4
          <5>. HIDE DEF a, b
          <5>2. \A i \in MountsOf(q) : stack[q][i].router \in Instances
            BY LayerIs
          <5>3. /\ \A s : s \in Mounting(a, q) <=>
                     \E i \in MountsOf(q) : \E u \in a[stack[q][i].router] : s = Through(q, i, u)
                /\ \A s : s \in Mounting(b, q) <=>
                     \E i \in MountsOf(q) : \E u \in b[stack[q][i].router] : s = Through(q, i, u)
            BY <5>1, MountingIs
          <5>4. Mounting(a, q) \subseteq Mounting(b, q)
            BY <5>1, <5>2, <5>3
          <5>. QED
            BY <5>4 DEF a, b
        <4>. QED
          BY <2>2, <4>2, <4>5
      <3>. QED
        BY <3>1, <3>2
    <2>4. CASE l = m + 1
      BY <2>4
    <2>5. CASE l \in 0..m
      BY <2>1, <2>3, <2>5
    <2>6. l = m + 1 \/ l \in 0..m
      BY <2>1
    <2>. QED
      BY <2>4, <2>5, <2>6
  <1>4. S = Nat
    <2>1. S \in SUBSET Nat
      OBVIOUS
    <2>. HIDE DEF S
    <2>. QED
      BY <1>2, <1>3, <2>1, Inductive
  <1>5. e \in S /\ e <= K /\ d \in 0..e
    BY <1>1, <1>4 DEF K
  <1>. QED
    BY <1>5

-----------------------------------------------------------------------------
(* What is served is extracted *)

\* Route k is what the way s from r leads to.
IsOf(k, s, r) ==
    /\ routes[k].call = s.call /\ routes[k].method = s.method
    /\ routes[k].path = s.own /\ routes[k].text = s.text
    /\ Sequence(routes[k].middlewares) \subseteq s.names \cup {"anonymous"}
    /\ \E base \in Paths : routes[k].fullPath = base \o s.own
    /\ Plain => routes[k].fullPath = baseFor[r] \o s.path

LEMMA OwnIsExtracted ==
  ASSUME GraphInv, NEW r \in Instances, NEW s \in RoutesOn(r)
  PROVE  \E k \in DOMAIN routes : IsOf(k, s, r)
  <1>0. GraphTypeOK /\ RoutesAreLayers
    BY DEF GraphInv
  <1>1. PICK i \in RoutesOf(r) :
               /\ s.method = stack[r][i].method /\ s.own = stack[r][i].path /\ s.path = stack[r][i].path
               /\ s.call = stack[r][i].call /\ s.text = stack[r][i].text
               /\ s.names = stack[r][i].names \cup GuardsBefore(r, i, stack[r][i].path)
    BY <1>0, RoutesOnIs
  <1>2. PICK k \in DOMAIN routes : Extracted(k, r, i)
    BY <1>0 DEF RoutesAreLayers, RoutesOf
  <1>3. IsOf(k, s, r)
    BY <1>1, <1>2 DEF Extracted, IsOf
  <1>. QED
    BY <1>3

LEMMA MountIsExtracted ==
  ASSUME GraphInv, NEW r \in Instances, NEW i \in MountsOf(r), NEW u \in Ways,
         NEW k \in DOMAIN routes, IsOf(k, u, stack[r][i].router)
  PROVE  IsOf(k, Through(r, i, u), r)
  <1>0. GraphTypeOK /\ BasesCompose
    BY DEF GraphInv
  <1>. DEFINE s == Through(r, i, u)
  <1>1. /\ s.path = stack[r][i].path \o u.path
        /\ s.names = u.names \cup GuardsBefore(r, i, stack[r][i].path \o u.path)
        /\ s.method = u.method /\ s.own = u.own /\ s.call = u.call /\ s.text = u.text
    BY <1>0, ThroughIs
  <1>. HIDE DEF s
  <1>2. ASSUME Plain PROVE routes[k].fullPath = baseFor[r] \o s.path
    <2>. DEFINE a == baseFor[r]
                b == stack[r][i].path
                c == u.path
    <2>1. a \in Paths /\ b \in Paths /\ c \in Paths
      BY <1>0, LayerIs DEF GraphTypeOK, Ways
    <2>2. baseFor[stack[r][i].router] = a \o b
      BY <1>0, <1>2 DEF BasesCompose, MountsOf
    <2>3. routes[k].fullPath = (a \o b) \o c
      BY <1>2, <2>2 DEF IsOf
    <2>. HIDE DEF a, b, c
    <2>4. (a \o b) \o c = a \o (b \o c)
      BY <2>1, ConcatAssociative DEF Paths
    <2>. QED
      BY <1>1, <2>3, <2>4 DEF a, b, c
  <1>3. IsOf(k, s, r)
    BY <1>1, <1>2 DEF IsOf
  <1>. QED
    BY <1>3 DEF s

LEMMA BelowIsExtracted ==
  ASSUME GraphInv, NEW d \in 0..Cardinality(Routers), NEW r \in Instances, NEW s \in Below[d][r]
  PROVE  \E k \in DOMAIN routes : IsOf(k, s, r)
  <1>0. GraphTypeOK
    BY DEF GraphInv
  <1>. DEFINE K == Cardinality(Routers)
              Known(u, q) == \E k \in DOMAIN routes : IsOf(k, u, q)
              S == {m \in Nat : m <= K => \A q \in Instances : \A u \in Below[m][q] : Known(u, q)}
  <1>1. /\ K \in Nat /\ Below \in [0..K -> [Instances -> SUBSET Ways]]
        /\ \A q \in Instances : Below[0][q] = RoutesOn(q)
        /\ \A m \in 1..K, q \in Instances : Below[m][q] = RoutesOn(q) \cup Mounting(Below[m - 1], q)
    BY <1>0, BelowExists
  <1>. HIDE DEF K
  <1>2. \A q \in Instances : \A u \in RoutesOn(q) : Known(u, q)
    BY OwnIsExtracted
  <1>3. 0 \in S
    <2>. HIDE DEF Known
    <2>. QED
      BY <1>1, <1>2
  <1>4. ASSUME NEW m \in S PROVE m + 1 \in S
    <2>. SUFFICES ASSUME m + 1 <= K, NEW q \in Instances, NEW u \in Below[m + 1][q]
                  PROVE  Known(u, q)
      <3>. HIDE DEF Known
      <3>. QED
        OBVIOUS
    <2>1. m \in Nat /\ m \in 0..K /\ m + 1 \in 1..K /\ (m + 1) - 1 = m
          /\ \A p \in Instances : \A v \in Below[m][p] : Known(v, p)
      <3>. HIDE DEF Known
      <3>. QED
        BY <1>1
    <2>2. Below[m + 1][q] = RoutesOn(q) \cup Mounting(Below[m], q)
      BY <1>1, <2>1
    <2>3. CASE u \in RoutesOn(q)
      BY <1>2, <2>3
    <2>4. CASE u \in Mounting(Below[m], q)
      <3>1. Below[m] \in [Instances -> SUBSET Ways]
        BY <1>1, <2>1
      <3>2. PICK i \in MountsOf(q) : \E v \in Below[m][stack[q][i].router] : u = Through(q, i, v)
        BY <1>0, <2>4, <3>1, MountingIs
      <3>3. PICK v \in Below[m][stack[q][i].router] : u = Through(q, i, v)
        BY <3>2
      <3>4. stack[q][i].router \in Instances
        BY <1>0, LayerIs
      <3>5. v \in Ways
        BY <3>1, <3>4
      <3>6. PICK k \in DOMAIN routes : IsOf(k, v, stack[q][i].router)
        BY <2>1, <3>4
      <3>7. IsOf(k, Through(q, i, v), q)
        BY <3>5, <3>6, MountIsExtracted
      <3>. QED
        BY <3>3, <3>7
    <2>. QED
      BY <2>2, <2>3, <2>4
  <1>5. S = Nat
    <2>1. S \in SUBSET Nat
      OBVIOUS
    <2>. HIDE DEF S
    <2>. QED
      BY <1>3, <1>4, <2>1, Inductive
  <1>6. d \in S /\ d <= K
    BY <1>1, <1>5 DEF K
  <1>7. Known(s, r)
    BY <1>6
  <1>. QED
    BY <1>7

\* Of everything that is served there is an extracted route.
LEMMA ServedIsExtracted ==
  ASSUME GraphInv, NEW s \in Served
  PROVE  /\ s \in Ways
         /\ \E k \in DOMAIN routes : IsOf(k, s, App) /\ (Plain => routes[k].fullPath = s.path)
  <1>. DEFINE K == Cardinality(Routers)
  <1>1. GraphTypeOK /\ App \in Instances
    BY DEF GraphInv, Instances
  <1>2. K \in Nat /\ Below \in [0..K -> [Instances -> SUBSET Ways]]
    BY <1>1, BelowExists
  <1>3. s \in Below[K][App] /\ K \in 0..K
    BY <1>2 DEF Served
  <1>4. s \in Ways
    <2>. HIDE DEF K
    <2>. QED
      BY <1>1, <1>2, <1>3
  <1>5. PICK k \in DOMAIN routes : IsOf(k, s, App)
    BY <1>1, <1>3, BelowIsExtracted
  <1>6. ASSUME Plain PROVE routes[k].fullPath = s.path
    <2>1. baseFor[App] = << >>
      BY <1>6 DEF GraphInv, BasesCompose
    <2>2. << >> \o s.path = s.path
      BY <1>4, ConcatEmptySeq DEF Ways, Paths
    <2>. QED
      BY <1>5, <1>6, <2>1, <2>2 DEF IsOf
  <1>. QED
    BY <1>4, <1>5, <1>6

-----------------------------------------------------------------------------
(* What is extracted is served *)

\* What is served continues the way u from r to the app.
Continues(s, u, r) ==
    /\ s.method = u.method /\ s.own = u.own /\ s.call = u.call /\ s.text = u.text
    /\ s.path = baseFor[r] \o u.path
    /\ u.names \subseteq s.names
    /\ NoGuards => s.names = u.names

\* Through at most that many mounts from an instance of a rank.
Room(rank, r, d) == d <= Cardinality(Instances) - rank[r]

LEMMA RoomBelow ==
  /\ Cardinality(Instances) \in Nat /\ Cardinality(Routers) \in Nat
  /\ Cardinality(Instances) <= Cardinality(Routers) + 1
  <1>1. IsFiniteSet(Routers)
    BY RoutersAssumption
  <1>2. /\ IsFiniteSet(Routers \cup {App})
        /\ \/ Cardinality(Routers \cup {App}) = Cardinality(Routers)
           \/ Cardinality(Routers \cup {App}) = Cardinality(Routers) + 1
    BY <1>1, FS_AddElement
  <1>3. Instances = Routers \cup {App}
    BY DEF Instances
  <1>4. Cardinality(Routers) \in Nat /\ Cardinality(Instances) \in Nat
    BY <1>1, <1>2, <1>3, FS_CardinalityType
  <1>. QED
    BY <1>2, <1>3, <1>4

\* One mount up.
LEMMA UpOneMount ==
  ASSUME GraphInv, Plain, NEW o \in Instances, NEW i \in MountsOf(o), NEW u \in Ways,
         NEW s, Continues(s, Through(o, i, u), o)
  PROVE  Continues(s, u, stack[o][i].router)
  <1>0. GraphTypeOK /\ BasesCompose
    BY DEF GraphInv
  <1>. DEFINE t == Through(o, i, u)
              p == stack[o][i].path \o u.path
  <1>1. /\ t.path = p /\ t.names = u.names \cup GuardsBefore(o, i, p)
        /\ t.method = u.method /\ t.own = u.own /\ t.call = u.call /\ t.text = u.text
    BY <1>0, ThroughIs
  <1>2. NoGuards => t.names = u.names
    <2>. SUFFICES ASSUME NoGuards PROVE GuardsBefore(o, i, p) = {}
      BY <1>1
    <2>1. \A j \in 1..(i - 1) : j \in DOMAIN stack[o]
      BY <1>0 DEF MountsOf, GraphTypeOK
    <2>. QED
      BY <2>1 DEF GuardsBefore, NoGuards
  <1>3. s.path = baseFor[stack[o][i].router] \o u.path
    <2>. DEFINE a == baseFor[o]
                b == stack[o][i].path
                c == u.path
    <2>1. a \in Paths /\ b \in Paths /\ c \in Paths
      BY <1>0, LayerIs DEF GraphTypeOK, Ways
    <2>2. baseFor[stack[o][i].router] = a \o b
      BY <1>0 DEF BasesCompose, MountsOf
    <2>3. s.path = a \o (b \o c)
      BY <1>1 DEF Continues
    <2>. HIDE DEF a, b, c
    <2>4. (a \o b) \o c = a \o (b \o c)
      BY <2>1, ConcatAssociative DEF Paths
    <2>. QED
      BY <2>2, <2>3, <2>4 DEF c
  <1>. HIDE DEF t, p
  <1>4. Continues(s, t, o)
    BY DEF t
  <1>. QED
    BY <1>1, <1>2, <1>3, <1>4 DEF Continues

LEMMA WaysContinue ==
  ASSUME GraphInv, Plain, NEW rank, IsRank(rank), NEW r \in {App} \cup Mounted,
         NEW d \in 0..Cardinality(Routers), Room(rank, r, d), NEW u \in Below[d][r]
  PROVE  \E s \in Served : Continues(s, u, r)
  <1>0. GraphTypeOK /\ BasesCompose /\ MountsDescend
    BY DEF GraphInv
  <1>. DEFINE K == Cardinality(Routers)
              C == Cardinality(Instances)
              Goes(v, q) == \E s \in Served : Continues(s, v, q)
              All(q) == \A e \in 0..K : Room(rank, q, e) => \A v \in Below[e][q] : Goes(v, q)
              S == {m \in Nat : \A q \in {App} \cup Mounted : rank[q] <= m => All(q)}
  <1>1. /\ K \in Nat /\ Below \in [0..K -> [Instances -> SUBSET Ways]]
        /\ \A m \in 1..K, q \in Instances : Below[m][q] = RoutesOn(q) \cup Mounting(Below[m - 1], q)
    BY <1>0, BelowExists
  <1>2. C \in Nat /\ C <= K + 1
    BY RoomBelow
  <1>3. \A q \in Instances : rank[q] \in 1..C
    BY DEF IsRank
  <1>4. \A q \in {App} \cup Mounted : q \in Instances
    BY DEF Mounted, Instances
  <1>. HIDE DEF K, C
  <1>5. All(App)
    <2>. SUFFICES ASSUME NEW e \in 0..K, NEW v \in Below[e][App] PROVE Goes(v, App)
      OBVIOUS
    <2>1. App \in Instances
      BY <1>4
    <2>2. K \in 0..K /\ e \in 0..K
      BY <1>1
    <2>3. v \in Below[K][App] /\ v \in Ways
      BY <1>0, <1>1, <2>1, <2>2, BelowGrows DEF K
    <2>4. v \in Served
      BY <2>3 DEF Served, K
    <2>5. v.path = baseFor[App] \o v.path
      <3>1. baseFor[App] = << >>
        BY <1>0 DEF BasesCompose
      <3>. QED
        BY <2>3, <3>1, ConcatEmptySeq DEF Ways, Paths
    <2>6. Continues(v, v, App)
      BY <2>5 DEF Continues
    <2>. QED
      BY <2>4, <2>6
  <1>. HIDE DEF All
  <1>6. 0 \in S
    <2>1. \A q \in {App} \cup Mounted : ~(rank[q] <= 0)
      BY <1>2, <1>3, <1>4
    <2>. QED
      BY <2>1
  <1>7. ASSUME NEW m \in S PROVE m + 1 \in S
    <2>0. m \in Nat /\ \A q \in {App} \cup Mounted : rank[q] <= m => All(q)
      OBVIOUS
    <2>. HIDE DEF S
    <2>1. ASSUME NEW q \in {App} \cup Mounted, rank[q] <= m + 1 PROVE All(q)
      <3>1. CASE q = App
        BY <1>5, <3>1
      <3>2. CASE q \in Mounted
        <4>1. PICK o \in Instances : \E i \in DOMAIN stack[o] :
                       stack[o][i].kind = "mount" /\ stack[o][i].router = q
          BY <3>2 DEF Mounted
        <4>2. PICK i \in MountsOf(o) : stack[o][i].router = q
          BY <4>1 DEF MountsOf
        <4>3. rank[o] < rank[q]
          BY <1>0, <4>2 DEF MountsDescend, MountsOf
        <4>4. rank[o] \in 1..C /\ rank[q] \in 1..C
          BY <1>3, <1>4
        <4>5. stack[o] # << >>
          BY <4>2 DEF MountsOf
        <4>6. o \in {App} \cup Mounted
          BY <1>0, <4>5 DEF BasesCompose, Plain
        <4>7. All(o)
          <5>1. rank[o] <= m
            BY <1>2, <2>0, <2>1, <4>3, <4>4
          <5>. QED
            BY <2>0, <4>6, <5>1
        <4>8. ASSUME NEW e \in 0..K, Room(rank, q, e), NEW v \in Below[e][q] PROVE Goes(v, q)
          <5>1. e <= C - rank[q]
            BY <4>8 DEF Room, C
          <5>2. e + 1 <= C - rank[o] /\ e + 1 \in 1..K /\ (e + 1) - 1 = e /\ e + 1 \in 0..K
            BY <1>1, <1>2, <4>3, <4>4, <5>1
          <5>3. Room(rank, o, e + 1)
            BY <5>2 DEF Room, C
          <5>4. Below[e + 1][o] = RoutesOn(o) \cup Mounting(Below[e], o)
            BY <1>1, <5>2
          <5>5. Below[e] \in [Instances -> SUBSET Ways]
            BY <1>1
          <5>6. v \in Ways
            BY <1>4, <5>5
          <5>7. Through(o, i, v) \in Mounting(Below[e], o)
            BY <1>0, <4>2, <5>5, MountingIs
          <5>8. Through(o, i, v) \in Below[e + 1][o]
            BY <5>4, <5>7
          <5>9. Goes(Through(o, i, v), o)
            BY <4>7, <5>2, <5>3, <5>8 DEF All
          <5>10. PICK s \in Served : Continues(s, Through(o, i, v), o)
            BY <5>9
          <5>11. Continues(s, v, q)
            BY <4>2, <5>6, <5>10, UpOneMount
          <5>. QED
            BY <5>11
        <4>. HIDE DEF Goes
        <4>. QED
          BY <4>8 DEF All
      <3>. QED
        BY <3>1, <3>2
    <2>. QED
      BY <2>0, <2>1 DEF S
  <1>8. S = Nat
    <2>1. S \in SUBSET Nat
      OBVIOUS
    <2>. HIDE DEF S
    <2>. QED
      BY <1>6, <1>7, <2>1, Inductive
  <1>9. All(r)
    <2>1. rank[r] \in Nat
      BY <1>2, <1>3, <1>4
    <2>2. rank[r] \in S /\ rank[r] <= rank[r]
      BY <1>8, <2>1
    <2>. QED
      BY <2>2
  <1>. HIDE DEF Goes
  <1>10. Goes(u, r)
    BY <1>9 DEF All, K
  <1>. QED
    BY <1>10 DEF Goes

\* Every extracted route of a plain program is served.
LEMMA ExtractedIsServed ==
  ASSUME GraphInv, Plain, NEW k \in DOMAIN routes
  PROVE  \E s \in Served :
            /\ s.call = routes[k].call /\ s.method = routes[k].method /\ s.own = routes[k].path
            /\ s.text = routes[k].text /\ s.path = routes[k].fullPath
            /\ Sequence(routes[k].middlewares) \subseteq s.names \cup {"anonymous"}
            /\ NoGuards => s.names \subseteq Sequence(routes[k].middlewares)
  <1>0. GraphTypeOK /\ BasesCompose /\ RoutesAreLayers
    BY DEF GraphInv
  <1>1. PICK rank : IsRank(rank)
    BY CallsAssumption DEF IsRank
  <1>2. PICK r \in Instances : \E i \in DOMAIN stack[r] : Extracted(k, r, i)
    BY <1>0 DEF RoutesAreLayers
  <1>3. PICK i \in DOMAIN stack[r] : Extracted(k, r, i)
    BY <1>2
  <1>4. i \in RoutesOf(r)
    BY <1>3 DEF RoutesOf, Extracted
  <1>5. PICK u \in RoutesOn(r) :
               /\ u.method = stack[r][i].method /\ u.own = stack[r][i].path /\ u.path = stack[r][i].path
               /\ u.call = stack[r][i].call /\ u.text = stack[r][i].text
               /\ u.names = stack[r][i].names \cup GuardsBefore(r, i, stack[r][i].path)
    BY <1>0, <1>4, RoutesOnIs
  <1>6. r \in {App} \cup Mounted
    <2>1. stack[r] # << >>
      OBVIOUS
    <2>. QED
      BY <1>0, <2>1 DEF BasesCompose, Plain
  <1>7. 0 \in 0..Cardinality(Routers) /\ Room(rank, r, 0) /\ u \in Below[0][r]
    <2>1. rank[r] \in 1..Cardinality(Instances)
      BY <1>1 DEF IsRank
    <2>2. Below[0][r] = RoutesOn(r)
      BY <1>0, BelowExists
    <2>. QED
      BY <2>1, <2>2, RoomBelow DEF Room
  <1>8. PICK s \in Served : Continues(s, u, r)
    BY <1>1, <1>6, <1>7, WaysContinue
  <1>9. NoGuards => GuardsBefore(r, i, stack[r][i].path) = {}
    <2>1. \A j \in 1..(i - 1) : j \in DOMAIN stack[r]
      BY <1>0 DEF GraphTypeOK
    <2>. QED
      BY <2>1 DEF GuardsBefore, NoGuards
  <1>10. /\ s.call = stack[r][i].call /\ s.method = stack[r][i].method /\ s.own = stack[r][i].path
         /\ s.text = stack[r][i].text /\ s.path = baseFor[r] \o stack[r][i].path
         /\ stack[r][i].names \subseteq s.names
         /\ NoGuards => s.names = stack[r][i].names
    BY ONLY <1>5, <1>8, <1>9 DEF Continues
  <1>11. s.path = routes[k].fullPath
    BY <1>3, <1>10 DEF Extracted
  <1>12. /\ s.call = routes[k].call /\ s.method = routes[k].method /\ s.own = routes[k].path
         /\ s.text = routes[k].text
         /\ Sequence(routes[k].middlewares) \subseteq s.names \cup {"anonymous"}
         /\ NoGuards => s.names \subseteq Sequence(routes[k].middlewares)
    BY ONLY <1>3, <1>10 DEF Extracted
  <1>. QED
    BY <1>8, <1>11, <1>12

-----------------------------------------------------------------------------
(* The audits *)

LEMMA MatchesLess ==
  ASSUME NEW names, NEW less, less \subseteq names \cup {"anonymous"}
  PROVE  /\ ~Matches(names, AuthNames) => ~Matches(less, AuthNames)
         /\ ~Matches(names, CsrfNames) => ~Matches(less, CsrfNames)
         /\ ~Matches(names, LimitNames) => ~Matches(less, LimitNames)
  BY NamesAssumption DEF Matches

\* Fewer names before a route are no fewer rules that speak of it.
LEMMA RulesOfLess ==
  ASSUME NEW m, NEW full, NEW own, NEW names, NEW less, NEW text,
         less \subseteq names \cup {"anonymous"}
  PROVE  Rules(m, full, own, names, text) \subseteq Rules(m, full, own, less, text)
  <1>. DEFINE Ids == {"AUTH-003", "AUTH-004", "AUTH-005", "MW-001", "MW-002", "WEBHOOK-001"}
  <1>1. /\ ~Matches(names, AuthNames) => ~Matches(less, AuthNames)
        /\ ~Matches(names, CsrfNames) => ~Matches(less, CsrfNames)
        /\ ~Matches(names, LimitNames) => ~Matches(less, LimitNames)
    BY MatchesLess
  <1>. SUFFICES ASSUME NEW rule \in Rules(m, full, own, names, text)
                PROVE  rule \in Rules(m, full, own, less, text)
    OBVIOUS
  <1>2. rule \in Ids
    BY DEF Rules
  <1>3. CASE rule = "AUTH-003"
    BY <1>1, <1>3 DEF Rules
  <1>4. CASE rule = "AUTH-004"
    BY <1>1, <1>4 DEF Rules
  <1>5. CASE rule = "AUTH-005"
    BY <1>1, <1>5 DEF Rules
  <1>6. CASE rule = "MW-001"
    BY <1>1, <1>6 DEF Rules
  <1>7. CASE rule = "MW-002"
    BY <1>1, <1>7 DEF Rules
  <1>8. CASE rule = "WEBHOOK-001"
    BY <1>1, <1>8 DEF Rules
  <1>. QED
    BY <1>2, <1>3, <1>4, <1>5, <1>6, <1>7, <1>8

\* What a route's own path calls for, its full path does, if not for more.
LEMMA RulesOfOwn ==
  ASSUME NEW m, NEW full, NEW own, NEW names, NEW text, Sequence(own) \subseteq Sequence(full)
  PROVE  \A rule \in Rules(m, own, own, names, text) :
            \/ rule \in Rules(m, full, own, names, text)
            \/ rule = "AUTH-003" /\ "AUTH-004" \in Rules(m, full, own, names, text)
  <1>. DEFINE Ids == {"AUTH-003", "AUTH-004", "AUTH-005", "MW-001", "MW-002", "WEBHOOK-001"}
  <1>1. /\ IsAdminSensitivePath(own) => IsAdminSensitivePath(full)
        /\ IsSensitivePath(own) => IsSensitivePath(full)
        /\ IsWebhookLikePath(own) => IsWebhookLikePath(full)
    BY DEF IsAdminSensitivePath, IsSensitivePath, IsWebhookLikePath
  <1>. TAKE rule \in Rules(m, own, own, names, text)
  <1>2. rule \in Ids
    BY DEF Rules
  <1>3. CASE rule = "AUTH-003"
    BY <1>1, <1>3 DEF Rules
  <1>4. CASE rule = "AUTH-004"
    BY <1>1, <1>4 DEF Rules
  <1>5. CASE rule = "AUTH-005"
    BY <1>1, <1>5 DEF Rules
  <1>6. CASE rule = "MW-001"
    BY <1>1, <1>6 DEF Rules
  <1>7. CASE rule = "MW-002"
    BY <1>1, <1>7 DEF Rules
  <1>8. CASE rule = "WEBHOOK-001"
    BY <1>1, <1>8 DEF Rules
  <1>. QED
    BY <1>2, <1>3, <1>4, <1>5, <1>6, <1>7, <1>8

LEMMA AuditIs ==
  \A rule, call : [rule |-> rule, call |-> call] \in Audit <=>
     \E k \in DOMAIN routes :
        /\ call = routes[k].call
        /\ rule \in Rules(routes[k].method, routes[k].fullPath, routes[k].path,
                          Sequence(routes[k].middlewares), routes[k].text)
  <1>. DEFINE of(k) == Rules(routes[k].method, routes[k].fullPath, routes[k].path,
                             Sequence(routes[k].middlewares), routes[k].text)
  <1>1. Audit = UNION {{[rule |-> rule, call |-> routes[i].call] : rule \in of(i)} : i \in DOMAIN routes}
    BY DEF Audit
  <1>. HIDE DEF of
  <1>2. ASSUME NEW rule, NEW call
        PROVE  [rule |-> rule, call |-> call] \in Audit <=>
                  \E k \in DOMAIN routes : call = routes[k].call /\ rule \in of(k)
    <2>. DEFINE d == [rule |-> rule, call |-> call]
    <2>1. d \in Audit <=> \E k \in DOMAIN routes : \E x \in of(k) : d = [rule |-> x, call |-> routes[k].call]
      <3>. HIDE DEF d
      <3>. QED
        BY <1>1
    <2>2. \A x, y : d = [rule |-> x, call |-> y] <=> rule = x /\ call = y
      <3>1. d.rule = rule /\ d.call = call
        OBVIOUS
      <3>2. \A x, y : [rule |-> x, call |-> y].rule = x /\ [rule |-> x, call |-> y].call = y
        OBVIOUS
      <3>. QED
        BY <3>1, <3>2
    <2>. HIDE DEF d
    <2>3. d \in Audit <=> \E k \in DOMAIN routes : call = routes[k].call /\ rule \in of(k)
      BY <2>1, <2>2
    <2>. QED
      BY <2>3 DEF d
  <1>. QED
    BY <1>2 DEF of

\* What is in a part of a path is in the path.
LEMMA EndsHold ==
  ASSUME NEW p \in Paths, NEW q \in Paths
  PROVE  Sequence(q) \subseteq Sequence(p \o q)
  <1>1. p \in Seq(Segments) /\ q \in Seq(Segments)
    BY DEF Paths
  <1>2. /\ Len(p) \in Nat /\ Len(q) \in Nat /\ DOMAIN q = 1..Len(q)
        /\ DOMAIN (p \o q) = 1..(Len(p) + Len(q))
        /\ \A i \in 1..Len(q) : (p \o q)[Len(p) + i] = q[i]
    BY <1>1
  <1>3. \A i \in 1..Len(q) : Len(p) + i \in DOMAIN (p \o q)
    BY <1>2
  <1>. QED
    BY <1>2, <1>3 DEF Sequence

-----------------------------------------------------------------------------
(* The properties *)

LEMMA AllAsServed == GraphInv => RoutesAsServed
  <1>. SUFFICES ASSUME GraphInv, Plain PROVE AsServed
    BY DEF RoutesAsServed
  <1>1. ASSUME NEW k \in DOMAIN routes
        PROVE  \E s \in Served : /\ s.call = routes[k].call /\ s.method = routes[k].method
                                 /\ s.path = routes[k].fullPath
    BY ExtractedIsServed
  <1>2. ASSUME NEW s \in Served
        PROVE  \E k \in DOMAIN routes : /\ s.call = routes[k].call /\ s.method = routes[k].method
                                        /\ s.path = routes[k].fullPath
    BY ServedIsExtracted DEF IsOf
  <1>. QED
    BY <1>1, <1>2 DEF AsServed

LEMMA DueIs ==
  ASSUME NEW s, NEW path, NEW d
  PROVE  d \in Due(s, path) <=> \E rule \in Rules(s.method, path, s.own, s.names, s.text) :
                                    d = [rule |-> rule, call |-> s.call]
  BY DEF Due

LEMMA AllUnguardedReported == GraphInv => UnguardedIsReported
  <1>. SUFFICES ASSUME GraphInv, NEW s \in Served
                PROVE  /\ Plain => Due(s, s.path) \subseteq Audit
                       /\ \A d \in Due(s, s.own) :
                             \/ d \in Audit
                             \/ d.rule = "AUTH-003" /\ [d EXCEPT !.rule = "AUTH-004"] \in Audit
    BY DEF UnguardedIsReported
  <1>1. PICK k \in DOMAIN routes : IsOf(k, s, App) /\ (Plain => routes[k].fullPath = s.path)
    BY ServedIsExtracted
  <1>. DEFINE mw == Sequence(routes[k].middlewares)
              full == routes[k].fullPath
  <1>2. /\ routes[k].call = s.call /\ routes[k].method = s.method
        /\ routes[k].path = s.own /\ routes[k].text = s.text /\ mw \subseteq s.names \cup {"anonymous"}
    BY <1>1 DEF IsOf
  <1>3. \A rule \in Rules(s.method, full, s.own, s.names, s.text) : [rule |-> rule, call |-> s.call] \in Audit
    <2>. TAKE rule \in Rules(s.method, full, s.own, s.names, s.text)
    <2>1. rule \in Rules(s.method, full, s.own, mw, s.text)
      <3>. HIDE DEF mw, full
      <3>. QED
        BY <1>2, RulesOfLess
    <2>. QED
      BY <1>2, <2>1, AuditIs
  <1>4. Plain => Due(s, s.path) \subseteq Audit
    BY <1>1, <1>3, DueIs
  <1>5. Sequence(s.own) \subseteq Sequence(full)
    <2>1. s.own \in Paths
      BY ServedIsExtracted DEF Ways
    <2>2. PICK base \in Paths : full = base \o s.own
      BY <1>1 DEF IsOf
    <2>. QED
      BY <2>1, <2>2, EndsHold
  <1>6. ASSUME NEW d \in Due(s, s.own)
        PROVE  \/ d \in Audit
               \/ d.rule = "AUTH-003" /\ [d EXCEPT !.rule = "AUTH-004"] \in Audit
    <2>1. PICK rule \in Rules(s.method, s.own, s.own, s.names, s.text) : d = [rule |-> rule, call |-> s.call]
      BY DueIs
    <2>2. \/ rule \in Rules(s.method, full, s.own, s.names, s.text)
          \/ rule = "AUTH-003" /\ "AUTH-004" \in Rules(s.method, full, s.own, s.names, s.text)
      <3>. HIDE DEF full
      <3>. QED
        BY <1>5, RulesOfOwn
    <2>3. CASE rule \in Rules(s.method, full, s.own, s.names, s.text)
      BY <1>3, <2>1, <2>3
    <2>4. CASE rule = "AUTH-003" /\ "AUTH-004" \in Rules(s.method, full, s.own, s.names, s.text)
      <3>1. d.rule = "AUTH-003" /\ [d EXCEPT !.rule = "AUTH-004"] = [rule |-> "AUTH-004", call |-> s.call]
        BY <2>1, <2>4
      <3>. QED
        BY <1>3, <2>4, <3>1
    <2>. QED
      BY <2>2, <2>3, <2>4
  <1>. QED
    BY <1>4, <1>6

LEMMA AllReportedUnguarded == GraphInv => ReportedIsUnguarded
  <1>. SUFFICES ASSUME GraphInv, Plain, NoGuards, NEW d \in Audit
                PROVE  \E s \in Served : d \in Due(s, s.path)
    BY DEF ReportedIsUnguarded
  <1>1. PICK k \in DOMAIN routes :
          \E rule \in Rules(routes[k].method, routes[k].fullPath, routes[k].path,
                            Sequence(routes[k].middlewares), routes[k].text) :
             d = [rule |-> rule, call |-> routes[k].call]
    BY DEF Audit
  <1>2. PICK s \in Served :
            /\ s.call = routes[k].call /\ s.method = routes[k].method /\ s.own = routes[k].path
            /\ s.text = routes[k].text /\ s.path = routes[k].fullPath
            /\ s.names \subseteq Sequence(routes[k].middlewares)
    BY ExtractedIsServed
  <1>3. Rules(s.method, s.path, s.own, Sequence(routes[k].middlewares), s.text)
          \subseteq Rules(s.method, s.path, s.own, s.names, s.text)
    <2>1. s.names \subseteq Sequence(routes[k].middlewares) \cup {"anonymous"}
      BY <1>2
    <2>. QED
      BY <2>1, RulesOfLess
  <1>4. d \in Due(s, s.path)
    BY <1>1, <1>2, <1>3, DueIs
  <1>. QED
    BY <1>4

\* Some route has each key, the first of them.
LEMMA FirstOfKey ==
  ASSUME GraphTypeOK, NEW k \in DOMAIN routes
  PROVE  \E i \in CodeByKey : RouteKey(i) = RouteKey(k)
  <1>. DEFINE Same == {i \in DOMAIN routes : RouteKey(i) = RouteKey(k)}
  <1>1. DOMAIN routes \subseteq Nat /\ \A i \in DOMAIN routes : \A j \in 1..(i - 1) : j \in DOMAIN routes /\ j < i
    BY DEF GraphTypeOK
  <1>2. PICK i \in Same : \A j \in Same : i <= j
    <2>1. Same \in SUBSET Nat /\ Same # {}
      BY <1>1
    <2>. HIDE DEF Same
    <2>. QED
      BY <2>1, LeastNumber
  <1>3. \A j \in 1..(i - 1) : RouteKey(j) # RouteKey(i)
    <2>. SUFFICES ASSUME NEW j \in 1..(i - 1), RouteKey(j) = RouteKey(i) PROVE FALSE
      OBVIOUS
    <2>1. j \in Same /\ j < i
      BY <1>1
    <2>2. i <= j
      BY <1>2, <2>1
    <2>. QED
      BY <1>1, <2>1, <2>2
  <1>. QED
    BY <1>3 DEF CodeByKey

LEMMA FirstOfOperation ==
  ASSUME GraphTypeOK, NEW o \in DOMAIN spec.operations
  PROVE  \E i \in SpecByKey : SpecKey(i) = SpecKey(o)
  <1>. DEFINE ops == spec.operations
              Same == {i \in DOMAIN ops : SpecKey(i) = SpecKey(o)}
  <1>1. DOMAIN ops \subseteq Nat /\ \A i \in DOMAIN ops : \A j \in 1..(i - 1) : j \in DOMAIN ops /\ j < i
    <2>1. ops \in Seq({ops[i] : i \in DOMAIN ops})
      BY SpecsAssumption DEF GraphTypeOK
    <2>. HIDE DEF ops
    <2>. QED
      BY <2>1
  <1>2. PICK i \in Same : \A j \in Same : i <= j
    <2>1. Same \in SUBSET Nat /\ Same # {}
      BY <1>1
    <2>. HIDE DEF Same
    <2>. QED
      BY <2>1, LeastNumber
  <1>3. \A j \in 1..(i - 1) : SpecKey(j) # SpecKey(i)
    <2>. SUFFICES ASSUME NEW j \in 1..(i - 1), SpecKey(j) = SpecKey(i) PROVE FALSE
      OBVIOUS
    <2>1. j \in Same /\ j < i
      BY <1>1
    <2>2. i <= j
      BY <1>2, <2>1
    <2>. QED
      BY <1>1, <2>1, <2>2
  <1>. QED
    BY <1>3 DEF SpecByKey

LEMMA AllDriftAsServed == GraphInv => DriftAsServed
  <1>. SUFFICES ASSUME GraphInv, Plain, SpecKeys # {}
                PROVE  /\ KeysOf("API-INV-001") = ServedKeys \ SpecKeys
                       /\ KeysOf("API-INV-002") = SpecKeys \ ServedKeys
                       /\ \A o \in SpecByKey :
                             /\ RequiresAuth(spec.operations[o]) /\ SpecKey(o) \in ServedKeys
                             /\ \A s \in Served : OpKey(s.method, s.path) = SpecKey(o) => ~Matches(s.names, AuthNames)
                             => SpecKey(o) \in KeysOf("API-AUTH-001")
    BY DEF DriftAsServed
  <1>0. GraphTypeOK
    BY DEF GraphInv
  <1>. DEFINE CodeKeys == {RouteKey(i) : i \in CodeByKey}
              FirstKeys == {SpecKey(o) : o \in SpecByKey}
  <1>1. CodeKeys = ServedKeys
    <2>1. ASSUME NEW i \in CodeByKey PROVE RouteKey(i) \in ServedKeys
      <3>1. i \in DOMAIN routes
        BY DEF CodeByKey
      <3>2. PICK s \in Served : s.method = routes[i].method /\ s.path = routes[i].fullPath
        BY <3>1, ExtractedIsServed
      <3>. QED
        BY <3>2 DEF RouteKey, ServedKeys
    <2>2. ASSUME NEW s \in Served PROVE OpKey(s.method, s.path) \in CodeKeys
      <3>1. PICK k \in DOMAIN routes : s.method = routes[k].method /\ s.path = routes[k].fullPath
        BY ServedIsExtracted DEF IsOf
      <3>2. OpKey(s.method, s.path) = RouteKey(k)
        BY <3>1 DEF RouteKey
      <3>. QED
        BY <1>0, <3>2, FirstOfKey
    <2>. HIDE DEF CodeKeys
    <2>3. ServedKeys \subseteq CodeKeys
      BY <2>2 DEF ServedKeys
    <2>. QED
      BY <2>1, <2>3 DEF CodeKeys
  <1>2. FirstKeys = SpecKeys
    <2>1. \A o \in SpecByKey : o \in DOMAIN spec.operations
      BY DEF SpecByKey
    <2>. QED
      BY <1>0, <2>1, FirstOfOperation DEF SpecKeys
  <1>3. SpecByKey # {}
    BY <1>2
  <1>. DEFINE Added1 == {[rule |-> "API-INV-001", key |-> RouteKey(i)] : i \in
                           {k \in CodeByKey : \A o \in SpecByKey : SpecKey(o) # RouteKey(k)}}
              Unguarded == {k \in SpecByKey : /\ RequiresAuth(spec.operations[k])
                                              /\ \E i \in CodeByKey :
                                                    /\ RouteKey(i) = SpecKey(k)
                                                    /\ ~Matches(Sequence(routes[i].middlewares), AuthNames)}
              Added2 == {[rule |-> "API-AUTH-001", key |-> SpecKey(o)] : o \in Unguarded}
              Added3 == {[rule |-> "API-INV-002", key |-> SpecKey(o)] : o \in
                           {k \in SpecByKey : \A i \in CodeByKey : RouteKey(i) # SpecKey(k)}}
  <1>4. Drift = Added1 \cup Added2 \cup Added3
    BY <1>3 DEF Drift
  <1>5. KeysOf("API-INV-001") = ServedKeys \ SpecKeys
    <2>1. \A d \in Drift : d.rule = "API-INV-001" <=> d \in Added1
      BY <1>4
    <2>2. KeysOf("API-INV-001") = {d.key : d \in Added1}
      <3>. HIDE DEF Added1
      <3>1. Added1 \subseteq Drift
        BY <1>4
      <3>. QED
        BY <2>1, <3>1 DEF KeysOf
    <2>3. \A key : key \in {d.key : d \in Added1} <=>
             \E i \in CodeByKey : key = RouteKey(i) /\ \A o \in SpecByKey : SpecKey(o) # RouteKey(i)
      <3>. DEFINE said(i) == [rule |-> "API-INV-001", key |-> RouteKey(i)]
                  only == {k \in CodeByKey : \A o \in SpecByKey : SpecKey(o) # RouteKey(k)}
      <3>1. \A i : said(i).key = RouteKey(i)
        OBVIOUS
      <3>2. Added1 = {said(i) : i \in only}
        OBVIOUS
      <3>. HIDE DEF said, Added1
      <3>. QED
        BY <3>1, <3>2
    <2>4. \A key : (\E i \in CodeByKey : key = RouteKey(i) /\ \A o \in SpecByKey : SpecKey(o) # RouteKey(i))
                   <=> key \in CodeKeys /\ key \notin FirstKeys
      OBVIOUS
    <2>. HIDE DEF Added1, CodeKeys, FirstKeys
    <2>. QED
      BY <1>1, <1>2, <2>2, <2>3, <2>4
  <1>6. KeysOf("API-INV-002") = SpecKeys \ ServedKeys
    <2>1. \A d \in Drift : d.rule = "API-INV-002" <=> d \in Added3
      BY <1>4
    <2>2. KeysOf("API-INV-002") = {d.key : d \in Added3}
      <3>. HIDE DEF Added3
      <3>1. Added3 \subseteq Drift
        BY <1>4
      <3>. QED
        BY <2>1, <3>1 DEF KeysOf
    <2>3. \A key : key \in {d.key : d \in Added3} <=>
             \E o \in SpecByKey : key = SpecKey(o) /\ \A i \in CodeByKey : RouteKey(i) # SpecKey(o)
      <3>. DEFINE said(o) == [rule |-> "API-INV-002", key |-> SpecKey(o)]
                  only == {k \in SpecByKey : \A i \in CodeByKey : RouteKey(i) # SpecKey(k)}
      <3>1. \A o : said(o).key = SpecKey(o)
        OBVIOUS
      <3>2. Added3 = {said(o) : o \in only}
        OBVIOUS
      <3>. HIDE DEF said, Added3
      <3>. QED
        BY <3>1, <3>2
    <2>4. \A key : (\E o \in SpecByKey : key = SpecKey(o) /\ \A i \in CodeByKey : RouteKey(i) # SpecKey(o))
                   <=> key \in FirstKeys /\ key \notin CodeKeys
      OBVIOUS
    <2>. HIDE DEF Added3, CodeKeys, FirstKeys
    <2>. QED
      BY <1>1, <1>2, <2>2, <2>3, <2>4
  <1>7. ASSUME NEW o \in SpecByKey, RequiresAuth(spec.operations[o]), SpecKey(o) \in ServedKeys,
               \A s \in Served : OpKey(s.method, s.path) = SpecKey(o) => ~Matches(s.names, AuthNames)
        PROVE  SpecKey(o) \in KeysOf("API-AUTH-001")
    <2>1. PICK i \in CodeByKey : RouteKey(i) = SpecKey(o)
      BY <1>1, <1>7
    <2>2. ~Matches(Sequence(routes[i].middlewares), AuthNames)
      <3>1. i \in DOMAIN routes
        BY DEF CodeByKey
      <3>2. PICK s \in Served : /\ s.method = routes[i].method /\ s.path = routes[i].fullPath
                               /\ Sequence(routes[i].middlewares) \subseteq s.names \cup {"anonymous"}
        BY <3>1, ExtractedIsServed
      <3>3. OpKey(s.method, s.path) = SpecKey(o)
        BY <2>1, <3>2 DEF RouteKey
      <3>. QED
        BY <1>7, <3>2, <3>3, MatchesLess
    <2>3. [rule |-> "API-AUTH-001", key |-> SpecKey(o)] \in Added2
      BY <1>7, <2>1, <2>2
    <2>. HIDE DEF Added1, Added2, Added3
    <2>4. [rule |-> "API-AUTH-001", key |-> SpecKey(o)] \in Drift
      BY <1>4, <2>3
    <2>. QED
      BY <2>4 DEF KeysOf
  <1>. QED
    BY <1>5, <1>6, <1>7

(***************************************************************************)
(* RoutesAsServed, for any calls and any nesting of routers: in programs   *)
(* that mount each router once, before anything is put on it, and in the   *)
(* forms extractRouteGraph reads, the routes it extracts are those Express *)
(* serves, each at its full path.                                          *)
(***************************************************************************)
THEOREM ExtractionIsServed == GraphSpec => []RoutesAsServed
  BY AllAsServed, GraphIsRead, PTL

(***************************************************************************)
(* UnguardedIsReported, for any lists of names and path patterns: no       *)
(* served route goes unreported that nothing guards.                       *)
(***************************************************************************)
THEOREM NoneUnreported == GraphSpec => []UnguardedIsReported
  BY AllUnguardedReported, GraphIsRead, PTL

(***************************************************************************)
(* ReportedIsUnguarded: without guards of their own on the way, nothing is *)
(* reported but what is due for what is served.                            *)
(***************************************************************************)
THEOREM NoneMisreported == GraphSpec => []ReportedIsUnguarded
  BY AllReportedUnguarded, GraphIsRead, PTL

(***************************************************************************)
(* DriftAsServed, for any documents: runOpenApiDriftAudit compares the     *)
(* document with what is served.                                           *)
(***************************************************************************)
THEOREM DriftIsOfServed == GraphSpec => []DriftAsServed
  BY AllDriftAsServed, GraphIsRead, PTL

-----------------------------------------------------------------------------
(* ProjectSurface *)

Statements == UNION {Stmts[f] : f \in FileSet}

SurfaceTypeOK ==
    /\ lines \in [FileSet -> Seq(Statements)]
    /\ \A f \in FileSet : lines[f] \in Seq(Stmts[f])
    /\ root \in Roots /\ manifest \in Manifests /\ threshold \in Thresholds

(***************************************************************************)
(* A project holds the statements its files may, in any number.            *)
(***************************************************************************)
THEOREM ProjectIsRead == SurfaceSpec => []SurfaceTypeOK
  <1>1. SurfaceInit => SurfaceTypeOK
    BY DEF SurfaceInit, SurfaceTypeOK
  <1>2. SurfaceTypeOK /\ [SurfaceNext]_surfaceVars => SurfaceTypeOK'
    <2>. SUFFICES ASSUME SurfaceTypeOK, [SurfaceNext]_surfaceVars PROVE SurfaceTypeOK'
      OBVIOUS
    <2>1. ASSUME NEW f \in FileSet, NEW s \in Stmts[f], Write(f, s)
          PROVE SurfaceTypeOK'
      <3>1. lines' = [lines EXCEPT ![f] = Append(lines[f], s)] /\ UNCHANGED <<root, manifest, threshold>>
        BY <2>1 DEF Write
      <3>2. s \in Statements
        BY DEF Statements
      <3>3. Append(lines[f], s) \in Seq(Stmts[f]) /\ Append(lines[f], s) \in Seq(Statements)
        BY <3>2 DEF SurfaceTypeOK
      <3>4. lines' \in [FileSet -> Seq(Statements)]
        BY <3>1, <3>3 DEF SurfaceTypeOK
      <3>5. \A g \in FileSet : lines'[g] \in Seq(Stmts[g])
        BY <3>1, <3>3 DEF SurfaceTypeOK
      <3>. QED
        BY <3>1, <3>4, <3>5 DEF SurfaceTypeOK
    <2>2. CASE UNCHANGED surfaceVars
      BY <2>2 DEF surfaceVars, SurfaceTypeOK
    <2>. QED
      BY <2>1, <2>2 DEF SurfaceNext
  <1>. QED
    BY <1>1, <1>2, PTL DEF SurfaceSpec

LEMMA PlaceIs ==
  ASSUME SurfaceTypeOK, NEW kind, NEW p \in Places(kind)
  PROVE  /\ p[1] \in FileSet /\ p[2] \in 1..MaxLines /\ p = <<p[1], p[2]>>
         /\ p[2] \in DOMAIN lines[p[1]] /\ At(p) \in Stmts[p[1]] /\ At(p).kind = kind
  <1>1. p \in FileSet \X (1..MaxLines) /\ p[2] \in DOMAIN lines[p[1]] /\ At(p).kind = kind
    BY DEF Places, At
  <1>2. p[1] \in FileSet /\ p[2] \in 1..MaxLines /\ p = <<p[1], p[2]>>
    BY <1>1
  <1>3. lines[p[1]] \in Seq(Stmts[p[1]])
    BY <1>2 DEF SurfaceTypeOK
  <1>4. lines[p[1]][p[2]] \in Stmts[p[1]]
    BY <1>1, <1>3
  <1>. QED
    BY <1>1, <1>2, <1>4 DEF At

\* A route is where its statement is, and has the text of that.
LEMMA RouteIs ==
  ASSUME SurfaceTypeOK, NEW r \in Routes
  PROVE  LET p == RoutePlace(r)
         IN /\ p \in Places("route") \cup Places("export")
            /\ r.file = p[1] /\ r.line = p[2] /\ r.text = At(p).text
            /\ p[2] \in DOMAIN lines[p[1]] /\ At(p).kind \in {"route", "export"}
            /\ r.fullPath = r.path
  <1>. DEFINE Ps == Places("route") \cup {q \in Places("export") : At(q).form = "declared"}
  <1>1. PICK p \in Ps : \E method, path : r = RouteOf(p, method, path)
    BY DEF Routes, ExpressRoutes, NextRoutesOf
  <1>2. /\ r.file = p[1] /\ r.line = p[2] /\ r.text = At(p).text /\ r.fullPath = r.path
    BY <1>1 DEF RouteOf
  <1>3. /\ p[1] \in FileSet /\ p = <<p[1], p[2]>> /\ At(p) \in Stmts[p[1]]
        /\ p[2] \in DOMAIN lines[p[1]] /\ At(p).kind \in {"route", "export"}
    BY <1>1, PlaceIs
  <1>4. RoutePlace(r) = p
    BY <1>2, <1>3 DEF RoutePlace
  <1>. QED
    BY <1>1, <1>2, <1>3, <1>4

\* No two routes are declared in one place.
LEMMA RoutesApart ==
  ASSUME SurfaceTypeOK, NEW r \in Routes, NEW o \in Routes, RoutePlace(r) = RoutePlace(o)
  PROVE  r = o
  <1>. DEFINE e(p) == RouteOf(p, At(p).method, At(p).path)
              x(p) == RouteOf(p, At(p).name, nextAppRouteFileToUrlPath(root, root \o Place[p[1]]))
  <1>1. ASSUME NEW s \in Routes
        PROVE  LET p == RoutePlace(s) IN (At(p).kind = "route" /\ s = e(p)) \/ (At(p).kind = "export" /\ s = x(p))
    <2>1. CASE s \in ExpressRoutes
      <3>1. PICK p \in Places("route") : s = e(p)
        BY <2>1 DEF ExpressRoutes
      <3>2. p = <<p[1], p[2]>> /\ At(p).kind = "route"
        BY PlaceIs
      <3>3. s.file = p[1] /\ s.line = p[2]
        BY <3>1 DEF RouteOf
      <3>4. RoutePlace(s) = p
        BY <3>2, <3>3 DEF RoutePlace
      <3>. QED
        BY <3>1, <3>2, <3>4
    <2>2. CASE s \in NextRoutesOf
      <3>1. PICK p \in Places("export") : s = x(p)
        BY <2>2 DEF NextRoutesOf
      <3>2. p = <<p[1], p[2]>> /\ At(p).kind = "export"
        BY PlaceIs
      <3>3. s.file = p[1] /\ s.line = p[2]
        BY <3>1 DEF RouteOf
      <3>4. RoutePlace(s) = p
        BY <3>2, <3>3 DEF RoutePlace
      <3>. QED
        BY <3>1, <3>2, <3>4
    <2>. QED
      BY <2>1, <2>2 DEF Routes
  <1>. HIDE DEF e, x
  <1>. QED
    BY <1>1

-----------------------------------------------------------------------------
(* Packages *)

\* Any name of the file stands, for bindingRefs, for all it is bound to.
LEMMA BoundIsSeen ==
  ASSUME NEW f, NEW names, NEW name \in names, NEW k \in Bound(f, name)
  PROVE  k \in Packages(f, names)
  <1>1. PICK p \in Loads : /\ p[1] = f /\ At(p).form \in Binding /\ At(p).name = name
                           /\ k = packageRoot(At(p).spec)
    BY DEF Bound
  <1>2. [name |-> name, packageName |-> k] \in bindingRefs(f)
    BY <1>1 DEF bindingRefs
  <1>. QED
    BY <1>2 DEF Packages

LEMMA PackageIsImported ==
  ASSUME NEW f, NEW names, NEW k \in Packages(f, names)
  PROVE  \E e \in Imports : e.file = f /\ e.packageName = k
  <1>1. PICK b \in bindingRefs(f) : k = b.packageName
    BY DEF Packages
  <1>2. PICK p \in Loads : p[1] = f /\ b = [name |-> At(p).name, packageName |-> packageRoot(At(p).spec)]
    BY <1>1 DEF bindingRefs
  <1>. DEFINE e == [file |-> p[1], line |-> p[2], packageName |-> packageRoot(At(p).spec),
                    dependencyKind |-> dependencyKindFor(At(p).spec)]
  <1>3. e \in Imports
    BY DEF Imports
  <1>4. e.file = f /\ e.packageName = k
    BY <1>1, <1>2
  <1>. QED
    BY <1>3, <1>4

LEMMA TouchpointsAre ==
  /\ \A r \in Routes : \A k \in Touching(r) : [packageName |-> k, route |-> r] \in RouteTouchpoints
  /\ \A t \in RouteTouchpoints : t.route \in Routes /\ t = [packageName |-> t.packageName, route |-> t.route]
  /\ \A f \in Findings : \A k \in Touched(f) : [packageName |-> k, finding |-> f] \in FindingTouchpoints
  /\ \A t \in FindingTouchpoints : t.finding \in Findings /\ t.packageName \in Touched(t.finding)
  BY DEF RouteTouchpoints, FindingTouchpoints

\* What a surface says, part by part.
LEMMA SurfaceIs ==
  ASSUME NEW k
  PROVE  LET crossed == {t \in RouteTouchpoints : t.packageName = k}
             hits == {t \in FindingTouchpoints : t.packageName = k}
         IN /\ Surface(k).routeTouchpoints = crossed
            /\ (\E t \in crossed : isSensitiveRoute(t.route)) => "sensitive_route" \in Surface(k).riskLabels
            /\ hits # {} => "security_finding" \in Surface(k).riskLabels
            /\ (\E t \in hits : t.finding.labelled) => "tainted_flow" \in Surface(k).riskLabels
            /\ Surface(k).highestSeverity = Max({0} \cup {severityRank[t.finding.severity] : t \in hits})
  <1>. DEFINE crossed == {t \in RouteTouchpoints : t.packageName = k}
              hits == {t \in FindingTouchpoints : t.packageName = k}
              sensitive == \E t \in crossed : isSensitiveRoute(t.route)
              tainted == \E t \in hits : t.finding.labelled
              labels == {l \in {"route_touchpoint", "sensitive_route", "security_finding", "tainted_flow"} :
                            CASE l = "route_touchpoint" -> crossed # {}
                              [] l = "sensitive_route" -> sensitive
                              [] l = "security_finding" -> hits # {}
                              [] l = "tainted_flow" -> tainted}
              top == Max({0} \cup {severityRank[t.finding.severity] : t \in hits})
  <1>1. Surface(k) = [edges |-> {e \in Imports : e.packageName = k}, routeTouchpoints |-> crossed,
                      findingTouchpoints |-> hits, riskLabels |-> labels, highestSeverity |-> top]
    BY DEF Surface
  <1>2. /\ sensitive => "sensitive_route" \in labels
        /\ hits # {} => "security_finding" \in labels
        /\ tainted => "tainted_flow" \in labels
    <2>. HIDE DEF crossed, hits, sensitive, tainted
    <2>. QED
      OBVIOUS
  <1>. HIDE DEF labels, top
  <1>3. Surface(k).routeTouchpoints = crossed /\ Surface(k).riskLabels = labels /\ Surface(k).highestSeverity = top
    BY <1>1
  <1>. QED
    BY <1>2, <1>3 DEF top

-----------------------------------------------------------------------------
(* Routes and packages *)

LEMMA SensitiveIs ==
  ASSUME NEW r \in Routes,
         IsSensitivePath(r.fullPath) \/ IsAdminSensitivePath(r.fullPath) \/ IsWebhookLikePath(r.fullPath)
  PROVE  isSensitiveRoute(r)
  <1>. DEFINE Of(e) == e.file = r.file /\ e.fullPath = r.fullPath /\ e.line = r.line
              entry == CHOOSE e \in Inventory : Of(e)
  <1>1. InventoryEntry(r) \in Inventory /\ Of(InventoryEntry(r))
    BY DEF Inventory, InventoryEntry
  <1>2. entry \in Inventory /\ entry.fullPath = r.fullPath
    BY <1>1
  <1>3. \A e \in Inventory : /\ e.sensitivePath <=> IsSensitivePath(e.fullPath)
                             /\ e.adminPath <=> IsAdminSensitivePath(e.fullPath)
                             /\ e.tags = riskTags(e.fullPath)
    BY DEF Inventory, InventoryEntry
  <1>4. IsWebhookLikePath(r.fullPath) => "webhook" \in riskTags(r.fullPath)
    BY DEF riskTags
  <1>5. isSensitiveRoute(r) <=> \/ entry.sensitivePath \/ entry.adminPath
                                \/ entry.tags \cap {"admin", "auth-sensitive", "upload", "webhook"} # {}
    BY DEF isSensitiveRoute
  <1>. HIDE DEF entry
  <1>. QED
    BY <1>2, <1>3, <1>4, <1>5

LEMMA CrossingsReported == SurfaceTypeOK => CrossingsAreReported
  <1>. SUFFICES ASSUME SurfaceTypeOK, NEW r \in Routes, NEW k \in Used(RoutePlace(r), r.text.names)
                PROVE  /\ k \in PackageNames
                       /\ \E t \in Surface(k).routeTouchpoints : t.route = r
                       /\ IsSensitivePath(r.fullPath) \/ IsAdminSensitivePath(r.fullPath)
                               \/ IsWebhookLikePath(r.fullPath) =>
                             /\ "sensitive_route" \in Surface(k).riskLabels
                             /\ \E t \in RouteReviews : t.packageName = k /\ RoutePlace(t.route) = RoutePlace(r)
    BY DEF CrossingsAreReported
  <1>. DEFINE p == RoutePlace(r)
              t == [packageName |-> k, route |-> r]
  <1>1. PICK name \in At(p).refs \cap r.text.names : k \in Bound(p[1], name)
    BY DEF Used
  <1>2. k \in Touching(r)
    BY <1>1, RouteIs, BoundIsSeen DEF Touching
  <1>3. t \in RouteTouchpoints /\ t.route = r /\ t.packageName = k
    BY <1>2, TouchpointsAre
  <1>4. t \in Surface(k).routeTouchpoints
    BY <1>3, SurfaceIs
  <1>5. k \in PackageNames
    BY <1>3 DEF PackageNames
  <1>6. ASSUME isSensitiveRoute(r)
        PROVE  "sensitive_route" \in Surface(k).riskLabels /\ t \in RouteReviews
    <2>1. "sensitive_route" \in Surface(k).riskLabels
      BY <1>3, <1>6, SurfaceIs
    <2>2. ASSUME NEW o \in RouteTouchpoints, ReviewKey(o) = ReviewKey(t)
          PROVE  o = t
      <3>1. o.packageName = k /\ o.route.file = r.file /\ o.route.line = r.line
        BY <2>2, <1>3 DEF ReviewKey
      <3>2. o.route \in Routes /\ o = [packageName |-> o.packageName, route |-> o.route]
        BY TouchpointsAre
      <3>3. o.route = r
        BY <3>1, <3>2, RoutesApart DEF RoutePlace
      <3>. QED
        BY <3>1, <3>2, <3>3
    <2>. HIDE DEF t
    <2>. QED
      BY <1>3, <1>6, <2>1, <2>2 DEF RouteReviews
  <1>. HIDE DEF t, p
  <1>. QED
    BY <1>3, <1>4, <1>5, <1>6, SensitiveIs

-----------------------------------------------------------------------------
(* Findings and packages *)

LEMMA FirstIs ==
  ASSUME SurfaceTypeOK, NEW rs \in SUBSET Routes, rs # {}
  PROVE  First(rs) \in rs
  <1>1. \A r \in rs : /\ r.file \in FileSet /\ r.line \in Nat /\ RoutePlace(r) = <<r.file, r.line>>
                      /\ \E i \in DOMAIN Files : Files[i] = r.file
    <2>. SUFFICES ASSUME NEW r \in rs
                  PROVE  r.file \in FileSet /\ r.line \in Nat /\ RoutePlace(r) = <<r.file, r.line>>
                         /\ \E i \in DOMAIN Files : Files[i] = r.file
      OBVIOUS
    <2>1. r.file \in FileSet /\ r.line \in 1..MaxLines
      BY RouteIs, PlaceIs
    <2>. QED
      BY <2>1, FilesAssumption DEF FileSet, Sequence, RoutePlace
  <1>. DEFINE I == {i \in DOMAIN Files : \E r \in rs : r.file = Files[i]}
  <1>2. I \in SUBSET Nat /\ I # {}
    BY <1>1, FilesAssumption
  <1>3. PICK i \in I : \A j \in I : i <= j
    BY <1>2, LeastNumber
  <1>. DEFINE L == {l \in Nat : \E r \in rs : r.file = Files[i] /\ r.line = l}
  <1>4. L \in SUBSET Nat /\ L # {}
    BY <1>1
  <1>5. PICK l \in L : \A k \in L : l <= k
    BY <1>4, LeastNumber
  <1>6. PICK r \in rs : r.file = Files[i] /\ r.line = l
    OBVIOUS
  <1>7. ASSUME NEW o \in rs \ {r}
        PROVE  Earlier(RoutePlace(r), RoutePlace(o))
    <2>1. PICK j \in DOMAIN Files : Files[j] = o.file
      BY <1>1
    <2>2. j \in I /\ i \in DOMAIN Files /\ i <= j /\ i \in Int /\ j \in Int
      BY <1>2, <1>3, <2>1
    <2>3. CASE i < j
      BY <1>1, <1>6, <2>1, <2>2, <2>3 DEF Earlier
    <2>4. CASE i = j
      <3>1. o.line \in L /\ l <= o.line /\ l \in Int /\ o.line \in Int
        BY <1>1, <1>5, <2>1, <2>4
      <3>2. o.line # l
        BY <1>1, <1>6, <2>1, <2>4, RoutesApart
      <3>3. l < o.line
        BY <3>1, <3>2
      <3>. QED
        BY <1>1, <1>6, <2>1, <2>4, <3>3 DEF Earlier
    <2>. QED
      BY <2>2, <2>3, <2>4
  <1>. QED
    BY <1>7 DEF First

\* A finding about a route touches what the route is seen to use.
LEMMA RouteFindingIs ==
  ASSUME SurfaceTypeOK, NEW r \in Routes, NEW rule, NEW severity
  PROVE  LET f == RouteFinding(rule, severity, r)
             p == <<f.file, f.line>>
         IN f.severity = severity /\ Used(p, Shown(p)) \subseteq Touched(f)
  <1>. DEFINE f == RouteFinding(rule, severity, r)
  <1>1. /\ f.severity = severity /\ f.file = r.file /\ f.line = r.line
        /\ f.onRoute = TRUE /\ f.fullPath = r.fullPath /\ f.method = r.method
    BY DEF RouteFinding, Finding, RoutePlace
  <1>. HIDE DEF f
  <1>2. r \in OnRoutes(f)
    BY <1>1 DEF OnRoutes
  <1>3. ASSUME NEW k \in Used(RoutePlace(r), Shown(RoutePlace(r))) PROVE k \in Touched(f)
    <2>. DEFINE p == RoutePlace(r)
    <2>1. PICK name \in At(p).refs \cap Shown(p) : k \in Bound(r.file, name)
      BY RouteIs DEF Used
    <2>2. /\ r.file = p[1] /\ r.line = p[2] /\ r.text = At(p).text
          /\ p[2] \in DOMAIN lines[p[1]] /\ At(p).kind \in {"route", "export"}
      BY RouteIs
    <2>3. name \in At(p).names \cup r.text.names
      BY <2>1, <2>2 DEF Shown
    <2>4. NamesAt(f.file, f.line) = At(p).names
      BY <1>1, <2>2 DEF NamesAt, At
    <2>5. r.text.names \subseteq UNION {o.text.names : o \in OnRoutes(f)}
      BY <1>2
    <2>. QED
      BY <1>1, <2>1, <2>3, <2>4, <2>5, BoundIsSeen DEF Touched
  <1>4. <<f.file, f.line>> = RoutePlace(r)
    BY <1>1 DEF RoutePlace
  <1>. QED
    BY <1>1, <1>3, <1>4 DEF f

LEMMA RuleFindingIs ==
  ASSUME SurfaceTypeOK, NEW f \in RuleFindings
  PROVE  LET p == <<f.file, f.line>>
         IN f.severity \in DOMAIN severityRank /\ Used(p, Shown(p)) \subseteq Touched(f)
  <1>1. PICK p \in Places("call") :
          f = [Finding(At(p).rule, At(p).severity, p, At(p).names) EXCEPT !.labelled = At(p).labelled]
    BY DEF RuleFindings
  <1>2. f.severity = At(p).severity /\ f.file = p[1] /\ f.line = p[2] /\ f.names = At(p).names
    BY <1>1 DEF Finding
  <1>3. p[1] \in FileSet /\ p = <<p[1], p[2]>> /\ At(p) \in Stmts[p[1]] /\ At(p).kind = "call"
    BY PlaceIs
  <1>4. At(p).refs \subseteq f.names /\ f.severity \in DOMAIN severityRank
    BY <1>2, <1>3, StmtsAssumption
  <1>5. ASSUME NEW k \in Used(p, Shown(p)) PROVE k \in Touched(f)
    <2>1. PICK name \in At(p).refs : k \in Bound(f.file, name)
      BY <1>2 DEF Used
    <2>. QED
      BY <1>4, <2>1, BoundIsSeen DEF Touched
  <1>. QED
    BY <1>2, <1>3, <1>4, <1>5

LEMMA FindingIs ==
  ASSUME SurfaceTypeOK, NEW f \in Findings
  PROVE  /\ f.severity \in DOMAIN severityRank
         /\ Concerned(f) \subseteq Touched(f)
  <1>1. f \in RuleFindings \cup AppFindings \cup AuditFindings \cup RoutePosture
    BY DEF Findings
  <1>2. DOMAIN severityRank = {"info", "warning", "error", "critical"}
    BY DEF severityRank
  <1>3. CASE f \in RuleFindings
    BY <1>3, RuleFindingIs DEF Concerned
  <1>4. CASE f \in AppFindings
    <2>1. \/ \E p : f = Finding("MW-004", "warning", p, {})
          \/ \E p : f = Finding("MW-003", "info", p, {})
      BY <1>4 DEF AppFindings
    <2>2. f.rule \in {"MW-003", "MW-004"} /\ f.severity \in {"info", "warning"}
      <3>1. \A rule, severity, p : /\ Finding(rule, severity, p, {}).rule = rule
                                   /\ Finding(rule, severity, p, {}).severity = severity
        BY DEF Finding
      <3>. QED
        BY <2>1, <3>1
    <2>. QED
      BY <1>2, <2>2 DEF Concerned
  <1>5. CASE f \in AuditFindings
    <2>1. PICK r \in Routes : \E rule : f = RouteFinding(rule, "warning", r)
      BY <1>5 DEF AuditFindings
    <2>. QED
      BY <1>2, <2>1, RouteFindingIs DEF Concerned
  <1>6. CASE f \in RoutePosture
    <2>. DEFINE risky == {r \in Routes : IsObjectScoped(r.path) /\ ~Matches(r.middlewares, AuthNames)}
    <2>1. risky # {} /\ f = RouteFinding("API-POSTURE-001", "info", First(risky))
      BY <1>6 DEF RoutePosture
    <2>2. First(risky) \in Routes
      BY <2>1, FirstIs
    <2>. HIDE DEF risky
    <2>. QED
      BY <1>2, <2>1, <2>2, RouteFindingIs DEF Concerned
  <1>. QED
    BY <1>1, <1>3, <1>4, <1>5, <1>6

LEMMA MaxIsGreatest ==
  ASSUME NEW S \in SUBSET (0..3), S # {}
  PROVE  Max(S) \in S /\ \A y \in S : y <= Max(S)
  <1>1. \E x \in S : \A y \in S : x >= y
    <2>1. CASE 3 \in S
      BY <2>1
    <2>2. CASE 3 \notin S /\ 2 \in S
      BY <2>2
    <2>3. CASE 3 \notin S /\ 2 \notin S /\ 1 \in S
      BY <2>3
    <2>4. CASE 3 \notin S /\ 2 \notin S /\ 1 \notin S
      <3>1. \A y \in S : y = 0
        BY <2>4
      <3>2. PICK x \in S : TRUE
        OBVIOUS
      <3>3. x = 0 /\ \A y \in S : x >= y
        BY <3>1
      <3>. QED
        BY <3>3
    <2>. QED
      BY <2>1, <2>2, <2>3, <2>4
  <1>2. Max(S) \in S /\ \A y \in S : Max(S) >= y
    BY <1>1 DEF Max
  <1>. QED
    BY <1>2

LEMMA RanksAre == \A s \in DOMAIN severityRank : severityRank[s] \in 0..3
  BY DEF severityRank

\* The severity of a package is that of the worst finding that touches it.
LEMMA HighestIs ==
  ASSUME SurfaceTypeOK, NEW k
  PROVE  LET hits == {t \in FindingTouchpoints : t.packageName = k}
             top == Surface(k).highestSeverity
         IN /\ \A t \in hits : severityRank[t.finding.severity] <= top
            /\ top > 0 => \E t \in hits : severityRank[t.finding.severity] = top
  <1>. DEFINE hits == {t \in FindingTouchpoints : t.packageName = k}
              ranks == {severityRank[t.finding.severity] : t \in hits}
  <1>1. ranks \subseteq 0..3
    BY RanksAre, FindingIs, TouchpointsAre
  <1>2. Surface(k).highestSeverity = Max({0} \cup ranks)
    BY SurfaceIs
  <1>3. \A t \in hits : severityRank[t.finding.severity] \in ranks
    OBVIOUS
  <1>4. \A y \in ranks : \E t \in hits : severityRank[t.finding.severity] = y
    OBVIOUS
  <1>. HIDE DEF ranks
  <1>5. {0} \cup ranks \in SUBSET (0..3) /\ {0} \cup ranks # {}
    BY <1>1
  <1>6. /\ Max({0} \cup ranks) \in {0} \cup ranks
        /\ \A y \in {0} \cup ranks : y <= Max({0} \cup ranks)
    BY <1>5, MaxIsGreatest
  <1>. DEFINE top == Max({0} \cup ranks)
  <1>7. \A t \in hits : severityRank[t.finding.severity] <= top
    BY <1>3, <1>6
  <1>8. top > 0 => \E t \in hits : severityRank[t.finding.severity] = top
    BY <1>4, <1>6
  <1>. HIDE DEF top
  <1>9. Surface(k).highestSeverity = top
    BY <1>2 DEF top
  <1>. QED
    BY <1>7, <1>8, <1>9

LEMMA FindingsTraced == SurfaceTypeOK => FindingsAreTraced
  <1>. SUFFICES ASSUME SurfaceTypeOK PROVE FindingsAreTraced
    OBVIOUS
  <1>1. ASSUME NEW f \in Findings, NEW k \in Concerned(f)
        PROVE  /\ "security_finding" \in Surface(k).riskLabels
               /\ severityRank[f.severity] <= Surface(k).highestSeverity
               /\ f.labelled => /\ "tainted_flow" \in Surface(k).riskLabels
                                /\ \E v \in FlowReviews : /\ v.packageName = k /\ v.file = f.file
                                                          /\ v.rule = f.rule /\ v.line = f.line
    <2>. DEFINE t == [packageName |-> k, finding |-> f]
                v == [packageName |-> k, file |-> f.file, rule |-> f.rule, line |-> f.line]
    <2>1. k \in Touched(f)
      BY <1>1, FindingIs
    <2>2. t \in FindingTouchpoints /\ t.packageName = k /\ t.finding = f
      BY <2>1, TouchpointsAre
    <2>3. f.labelled => v \in FlowReviews
      BY <2>2 DEF FlowReviews
    <2>4. v.packageName = k /\ v.file = f.file /\ v.rule = f.rule /\ v.line = f.line
      OBVIOUS
    <2>. HIDE DEF t, v
    <2>. QED
      BY <2>2, <2>3, <2>4, SurfaceIs, HighestIs
  <1>2. ASSUME NEW k \in PackageNames, Surface(k).highestSeverity > 0
        PROVE  \E f \in Findings : /\ severityRank[f.severity] = Surface(k).highestSeverity
                                   /\ \E e \in Imports : e.file = f.file /\ e.packageName = k
    <2>1. PICK t \in FindingTouchpoints :
            t.packageName = k /\ severityRank[t.finding.severity] = Surface(k).highestSeverity
      BY <1>2, HighestIs
    <2>2. t.finding \in Findings /\ k \in Touched(t.finding)
      BY <2>1, TouchpointsAre
    <2>3. \E e \in Imports : e.file = t.finding.file /\ e.packageName = k
      BY <2>2, PackageIsImported DEF Touched
    <2>. QED
      BY <2>1, <2>2, <2>3
  <1>. QED
    BY <1>1, <1>2 DEF FindingsAreTraced

-----------------------------------------------------------------------------
(* Paths of route modules *)

\* The prefixes of a flattened sequence, and those of a served path.
IsFlattened(g, m) == g = [i \in 1..Len(m) |-> IF i = 1 THEN m[i] ELSE g[i - 1] \o m[i]]
IsServed(g, dirs) ==
    g = [i \in 0..Len(dirs) |->
            IF i = 0 THEN << >>
            ELSE IF dirs[i] \in Groups THEN g[i - 1] ELSE Append(g[i - 1], Segment(dirs[i]))]

\* The concatenations of the first few of k sequences.
ArePrefixes(h, W, k, m) ==
    h \in [0..k -> Seq(W)] /\ h[0] = << >> /\ \A i \in 1..k : h[i] = h[i - 1] \o m[i]

LEMMA PrefixesOf ==
  ASSUME NEW W, NEW k \in Nat, NEW m \in [1..k -> Seq(W)]
  PROVE  \E h : ArePrefixes(h, W, k, m)
  <1>. DEFINE V == Seq(W)
              base == << >>
              next == [i \in 1..k |-> [v \in V |-> v \o m[i]]]
  <1>1. next \in [1..k -> [V -> V]] /\ base \in V
    <2>1. \A i \in 1..k, v \in V : v \o m[i] \in V
      OBVIOUS
    <2>2. base \in V
      OBVIOUS
    <2>. HIDE DEF V, base
    <2>. QED
      BY <2>1, <2>2
  <1>2. \A i \in 1..k, v \in V : next[i][v] = v \o m[i]
    <2>. HIDE DEF V
    <2>. QED
      OBVIOUS
  <1>. HIDE DEF next, base, V
  <1>3. PICK h : Recursion(h, k, V, base, next)
    BY <1>1, Recursive
  <1>4. h \in [0..k -> V] /\ h[0] = base /\ \A i \in 1..k : h[i] = next[i][h[i - 1]]
    BY <1>3 DEF Recursion
  <1>5. ASSUME NEW i \in 1..k
        PROVE  h[i] = h[i - 1] \o m[i]
    <2>1. i - 1 \in 0..k
      OBVIOUS
    <2>2. h[i - 1] \in V
      BY <1>4, <2>1
    <2>. QED
      BY <1>2, <1>4, <2>2
  <1>6. h \in [0..k -> Seq(W)] /\ h[0] = << >>
    BY <1>4 DEF V, base
  <1>. QED
    BY <1>5, <1>6 DEF ArePrefixes

LEMMA SegmentsAre ==
  ASSUME NEW dirs \in Seq(Directories)
  PROVE  segmentsToFullPath(dirs) = ServedBelow(dirs)
  <1>. DEFINE W == {Segment(d) : d \in Directories}
              k == Len(dirs)
              m == [i \in DOMAIN dirs |-> mapSegmentToUrl(dirs[i])]
  <1>1. k \in Nat /\ DOMAIN dirs = 1..k /\ \A i \in 1..k : dirs[i] \in Directories
    OBVIOUS
  <1>2. \A d \in Directories : /\ mapSegmentToUrl(d) = IF d \in Groups THEN << >> ELSE <<Segment(d)>>
                               /\ mapSegmentToUrl(d) \in Seq(W) /\ Segment(d) \in W
    <2>1. \A d \in Directories : Segment(d) \in W
      OBVIOUS
    <2>2. \A d \in Directories : mapSegmentToUrl(d) = IF d \in Groups THEN << >> ELSE <<Segment(d)>>
      BY DEF mapSegmentToUrl, Segment
    <2>3. << >> \in Seq(W) /\ \A w \in W : <<w>> \in Seq(W)
      <3>. HIDE DEF W
      <3>. QED
        OBVIOUS
    <2>. HIDE DEF W
    <2>. QED
      BY <2>1, <2>2, <2>3
  <1>3. m \in [1..k -> Seq(W)] /\ \A i \in 1..k : m[i] = IF dirs[i] \in Groups THEN << >> ELSE <<Segment(dirs[i])>>
    <2>. HIDE DEF W, k
    <2>. QED
      BY <1>1, <1>2
  <1>4. segmentsToFullPath(dirs) = FlattenSeq(m)
    BY DEF segmentsToFullPath
  <1>. HIDE DEF m, k
  <1>5. m \in Seq(Seq(W)) /\ Len(m) = k
    BY <1>1, <1>3
  <1>. HIDE DEF W
  <1>first. PICK h : ArePrefixes(h, W, k, m)
    <2>1. k \in Nat /\ m \in [1..k -> Seq(W)]
      BY <1>1, <1>3
    <2>. QED
      BY <2>1, PrefixesOf
  <1>6. h \in [0..k -> Seq(W)] /\ h[0] = << >> /\ \A i \in 1..k : h[i] = h[i - 1] \o m[i]
    BY <1>first DEF ArePrefixes
  <1>7. \A i \in 1..k : /\ h[i - 1] \in Seq(W)
                        /\ h[i] = IF dirs[i] \in Groups THEN h[i - 1] ELSE Append(h[i - 1], Segment(dirs[i]))
    <2>. TAKE i \in 1..k
    <2>0. i - 1 \in 0..k
      BY <1>1
    <2>. HIDE DEF W
    <2>1. h[i - 1] \in Seq(W) /\ h[i] = h[i - 1] \o m[i] /\ dirs[i] \in Directories
      BY <1>1, <1>6, <2>0
    <2>. USE DEF W
    <2>2. \A v \in Seq(W) : v \o << >> = v
      BY ConcatEmptySeq
    <2>3. \A v \in Seq(W), d \in Directories : v \o <<Segment(d)>> = Append(v, Segment(d))
      BY <1>2, AppendIsConcat
    <2>. HIDE DEF W
    <2>. QED
      BY <1>3, <2>1, <2>2, <2>3
  <1>. HIDE DEF W
  <1>8. /\ IsServed(h, dirs)
        /\ \A s : IsServed(s, dirs) => s[k] = h[k]
    <2>1. IsServed(h, dirs)
      <3>. DEFINE g == [i \in 0..k |-> IF i = 0 THEN << >> ELSE IF dirs[i] \in Groups THEN h[i - 1]
                                       ELSE Append(h[i - 1], Segment(dirs[i]))]
      <3>1. ASSUME NEW i \in 0..k PROVE h[i] = g[i]
        <4>1. CASE i = 0
          BY <1>6, <4>1
        <4>2. CASE i # 0
          <5>1. i \in 1..k
            BY <1>1, <4>2
          <5>. QED
            BY <1>7, <4>2, <5>1
        <4>. QED
          BY <4>1, <4>2
      <3>. HIDE DEF g
      <3>2. h = g
        <4>1. g = [i \in 0..k |-> g[i]] /\ h = [i \in 0..k |-> h[i]]
          BY <1>6 DEF g
        <4>. QED
          BY <3>1, <4>1
      <3>. QED
        BY <3>2 DEF IsServed, g, k
    <2>2. ASSUME NEW s, IsServed(s, dirs) PROVE s[k] = h[k]
      <3>. DEFINE S == {i \in Nat : i <= k => s[i] = h[i]}
      <3>1. 0 \in S
        BY <1>1, <1>6, <2>2 DEF IsServed, k
      <3>2. ASSUME NEW i \in S PROVE i + 1 \in S
        <4>. SUFFICES ASSUME i + 1 <= k PROVE s[i + 1] = h[i + 1]
          OBVIOUS
        <4>1. i + 1 \in 1..k /\ i + 1 \in 0..k /\ i + 1 # 0 /\ (i + 1) - 1 = i /\ s[i] = h[i]
          BY <1>1
        <4>2. s[i + 1] = IF dirs[i + 1] \in Groups THEN s[i] ELSE Append(s[i], Segment(dirs[i + 1]))
          BY <2>2, <4>1 DEF IsServed, k
        <4>3. h[i + 1] = IF dirs[i + 1] \in Groups THEN h[i] ELSE Append(h[i], Segment(dirs[i + 1]))
          BY <1>7, <4>1
        <4>. QED
          BY <4>1, <4>2, <4>3
      <3>3. S \in SUBSET Nat
        OBVIOUS
      <3>4. k \in S
        <4>. HIDE DEF S
        <4>. QED
          BY <1>1, <3>1, <3>2, <3>3, Inductive
      <3>. QED
        BY <1>1, <3>4
    <2>. QED
      BY <2>1, <2>2
  <1>9. ServedBelow(dirs) = h[k]
    <2>1. ServedBelow(dirs) = (CHOOSE s : IsServed(s, dirs))[k]
      BY DEF ServedBelow, IsServed, k
    <2>. QED
      BY <1>8, <2>1
  <1>10. CASE k = 0
    <2>1. m = << >>
      BY <1>5, <1>10, EmptySeq
    <2>2. FlattenSeq(m) = m
      BY <1>5, <1>10 DEF FlattenSeq
    <2>. QED
      BY <1>4, <1>6, <1>9, <1>10, <2>1, <2>2
  <1>11. CASE k # 0
    <2>. DEFINE g == [i \in 1..k |-> h[i]]
    <2>1. IsFlattened(g, m)
      <3>. DEFINE f == [i \in 1..k |-> IF i = 1 THEN m[i] ELSE g[i - 1] \o m[i]]
      <3>1. ASSUME NEW i \in 1..k PROVE g[i] = f[i]
        <4>1. CASE i = 1
          <5>0. 1 \in 1..k /\ 1 - 1 = 0
            BY <4>1
          <5>1. h[1] = << >> \o m[1] /\ m[1] \in Seq(W)
            BY <1>3, <1>6, <5>0
          <5>2. h[1] = m[1]
            BY <5>1, ConcatEmptySeq
          <5>. QED
            BY <4>1, <5>2
        <4>2. CASE i # 1
          <5>0. i - 1 \in 1..k
            BY <1>1, <4>2
          <5>1. h[i] = h[i - 1] \o m[i] /\ g[i - 1] = h[i - 1]
            BY <1>6, <5>0
          <5>. QED
            BY <4>2, <5>0, <5>1
        <4>. QED
          BY <4>1, <4>2
      <3>2. g = f
        BY <3>1
      <3>. QED
        BY <1>5, <3>2 DEF IsFlattened
    <2>. HIDE DEF g
    <2>2. ASSUME NEW f, IsFlattened(f, m) PROVE f[k] = h[k]
      <3>. DEFINE S == {i \in Nat : i + 1 <= k => f[i + 1] = h[i + 1]}
      <3>1. 0 \in S
        <4>0. 1 \in 1..k /\ 1 - 1 = 0
          BY <1>1, <1>11
        <4>1. 1 \in 1..k /\ h[1] = << >> \o m[1] /\ m[1] \in Seq(W)
          BY <1>3, <1>6, <4>0
        <4>2. h[1] = m[1]
          BY <4>1, ConcatEmptySeq
        <4>3. f[1] = m[1]
          BY <1>5, <2>2, <4>1 DEF IsFlattened
        <4>. QED
          BY <4>2, <4>3
      <3>2. ASSUME NEW i \in S PROVE i + 1 \in S
        <4>. DEFINE j == i + 1
        <4>0. j \in Nat
          OBVIOUS
        <4>. SUFFICES ASSUME j + 1 <= k PROVE f[j + 1] = h[j + 1]
          OBVIOUS
        <4>1. j + 1 \in 1..k /\ j + 1 # 1 /\ (j + 1) - 1 = j /\ f[j] = h[j]
          BY <1>1
        <4>. HIDE DEF j
        <4>2. f[j + 1] = f[j] \o m[j + 1]
          BY <1>5, <2>2, <4>1 DEF IsFlattened
        <4>3. h[j + 1] = h[j] \o m[j + 1]
          BY <1>6, <4>1
        <4>. QED
          BY <4>1, <4>2, <4>3
      <3>3. S \in SUBSET Nat
        OBVIOUS
      <3>4. k - 1 \in S
        <4>1. k - 1 \in Nat
          BY <1>1, <1>11
        <4>. HIDE DEF S
        <4>. QED
          BY <3>1, <3>2, <3>3, <4>1, Inductive
      <3>. QED
        BY <1>1, <1>11, <3>4
    <2>3. FlattenSeq(m) = (CHOOSE f : IsFlattened(f, m))[k]
      BY <1>5, <1>11 DEF FlattenSeq, IsFlattened
    <2>4. FlattenSeq(m) = h[k]
      BY <2>1, <2>2, <2>3
    <2>. QED
      BY <1>4, <1>9, <2>4
  <1>. QED
    BY <1>10, <1>11

\* What is left of a sequence without its first few.
LEMMA BeneathIs ==
  ASSUME NEW S, NEW P \in Seq(S), NEW d \in 0..Len(P)
  PROVE  /\ Beneath(P, d) \in Seq(S) /\ Len(Beneath(P, d)) = Len(P) - d
         /\ \A i \in 1..(Len(P) - d) : Beneath(P, d)[i] = P[d + i]
  <1>. DEFINE k == Len(P)
  <1>1. k \in Nat /\ d \in Int /\ d + 1 \in Int /\ k \in Int /\ d <= k /\ 0 <= d
    OBVIOUS
  <1>2. \A i \in (d + 1)..k : P[i] \in S
    OBVIOUS
  <1>3. Beneath(P, d) = SubSeq(P, d + 1, k)
    BY DEF Beneath
  <1>. HIDE DEF k
  <1>. DEFINE e == d + 1
              b == SubSeq(P, e, k)
  <1>4. /\ b \in Seq(S)
        /\ Len(b) = IF e <= k THEN k - e + 1 ELSE 0
        /\ \A i \in 1..(k - e + 1) : b[i] = P[e + i - 1]
    <2>1. e \in Int /\ \A i \in e..k : P[i] \in S
      BY <1>1, <1>2
    <2>. HIDE DEF e
    <2>. QED
      BY <1>1, <2>1, SubSeqProperties
  <1>5. Len(b) = k - d
    <2>. HIDE DEF b
    <2>. QED
      BY <1>1, <1>4
  <1>6. ASSUME NEW i \in 1..(k - d) PROVE b[i] = P[d + i]
    <2>1. i \in 1..(k - e + 1) /\ e + i - 1 = d + i
      BY <1>1
    <2>. HIDE DEF b, e
    <2>. QED
      BY <1>4, <2>1
  <1>7. Beneath(P, d) = b
    BY <1>3
  <1>. HIDE DEF b
  <1>. QED
    BY <1>4, <1>5, <1>6, <1>7 DEF k

\* Where a sequence goes on with another, this is what is left of the other.
LEMMA BeneathConcat ==
  ASSUME NEW S, NEW R \in Seq(S), NEW P \in Seq(S), NEW d \in 0..Len(P)
  PROVE  Beneath(R \o P, Len(R) + d) = Beneath(P, d)
  <1>. DEFINE k == Len(P)
              l == Len(R)
              Q == R \o P
              a == Beneath(Q, l + d)
              b == Beneath(P, d)
  <1>1. k \in Nat /\ l \in Nat /\ d \in 0..k
    OBVIOUS
  <1>2. /\ Q \in Seq(S) /\ Len(Q) = l + k
        /\ \A i \in 1..(l + k) : Q[i] = IF i <= l THEN R[i] ELSE P[i - l]
    BY ConcatProperties
  <1>. HIDE DEF Q, a, b
  <1>3. b \in Seq(S) /\ Len(b) = k - d /\ \A i \in 1..(k - d) : b[i] = P[d + i]
    BY BeneathIs DEF b
  <1>. HIDE DEF k, l
  <1>4. l + d \in 0..Len(Q)
    BY <1>1, <1>2
  <1>5. a \in Seq(S) /\ Len(a) = Len(Q) - (l + d) /\ \A i \in 1..(Len(Q) - (l + d)) : a[i] = Q[(l + d) + i]
    BY <1>2, <1>4, BeneathIs DEF a
  <1>6. Len(Q) - (l + d) = k - d
    BY <1>1, <1>2
  <1>7. ASSUME NEW i \in 1..(k - d) PROVE a[i] = b[i]
    <2>1. (l + d) + i \in 1..(l + k) /\ ~((l + d) + i <= l) /\ ((l + d) + i) - l = d + i
      BY <1>1
    <2>2. Q[(l + d) + i] = P[d + i]
      BY <1>2, <2>1
    <2>. QED
      BY <1>3, <1>5, <1>6, <2>2
  <1>8. a = b
    <2>1. Len(a) = Len(b) /\ \A i \in 1..Len(a) : a[i] = b[i]
      BY <1>3, <1>5, <1>6, <1>7
    <2>. QED
      BY <1>3, <1>5, <2>1, SeqEqual
  <1>. QED
    BY <1>8 DEF a, b, Q, l

\* One sequence begins another if they agree as far as the one goes.
Begins(s, t) == Len(s) <= Len(t) /\ \A i \in 1..Len(s) : s[i] = t[i]

LEMMA PrefixIs ==
  ASSUME NEW S, NEW s \in Seq(S), NEW t \in Seq(S)
  PROVE  IsPrefix(s, t) <=> Begins(s, t)
  <1>. DEFINE k == Len(s)
              u == SubSeq(t, 1, k)
  <1>0. k \in Nat /\ SubSeq(s, 1, k) = s
    BY SubSeqFull
  <1>1. ASSUME k <= Len(t)
        PROVE  u \in Seq(S) /\ Len(u) = k /\ \A i \in 1..k : u[i] = t[i]
    <2>1. 1 \in Int /\ k \in Int /\ \A i \in 1..k : t[i] \in S
      BY <1>0, <1>1
    <2>. HIDE DEF k
    <2>2. u \in Seq(S) /\ Len(u) = (IF 1 <= k THEN k - 1 + 1 ELSE 0) /\ \A i \in 1..(k - 1 + 1) : u[i] = t[1 + i - 1]
      BY <2>1, SubSeqProperties
    <2>. HIDE DEF u
    <2>3. k - 1 + 1 = k /\ \A i \in 1..k : 1 + i - 1 = i
      BY <1>0
    <2>. QED
      BY <1>0, <2>2, <2>3
  <1>. HIDE DEF u
  <1>2. ASSUME k <= Len(t) PROVE s = u <=> \A i \in 1..k : s[i] = t[i]
    <2>1. ASSUME \A i \in 1..k : s[i] = t[i] PROVE s = u
      <3>1. Len(s) = Len(u) /\ \A i \in 1..Len(s) : s[i] = u[i]
        BY <1>1, <1>2, <2>1
      <3>. QED
        BY <1>1, <1>2, <3>1, SeqEqual
    <2>. QED
      BY <1>1, <1>2, <2>1
  <1>. QED
    BY <1>0, <1>2 DEF IsPrefix, Begins, u

LEMMA PrefixOne ==
  ASSUME NEW S, NEW P \in Seq(S), NEW a
  PROVE  IsPrefix(<<a>>, P) <=> Len(P) >= 1 /\ P[1] = a
  <1>. DEFINE All == S \cup {a}
              one == <<a>>
  <1>1. one \in Seq(All) /\ Len(one) = 1 /\ one[1] = a /\ P \in Seq(All)
    OBVIOUS
  <1>2. IsPrefix(one, P) <=> Begins(one, P)
    <2>. HIDE DEF one, All
    <2>. QED
      BY <1>1, PrefixIs
  <1>3. Len(P) \in Nat
    OBVIOUS
  <1>. HIDE DEF one, All
  <1>4. IsPrefix(one, P) <=> Len(P) >= 1 /\ P[1] = a
    BY <1>1, <1>2, <1>3 DEF Begins
  <1>. QED
    BY <1>4 DEF one

LEMMA PrefixTwo ==
  ASSUME NEW S, NEW P \in Seq(S), NEW a, NEW b
  PROVE  IsPrefix(<<a, b>>, P) <=> Len(P) >= 2 /\ P[1] = a /\ P[2] = b
  <1>. DEFINE All == S \cup {a, b}
              one == <<a, b>>
  <1>1. one \in Seq(All) /\ Len(one) = 2 /\ one[1] = a /\ one[2] = b /\ P \in Seq(All)
    OBVIOUS
  <1>2. IsPrefix(one, P) <=> Begins(one, P)
    <2>. HIDE DEF one, All
    <2>. QED
      BY <1>1, PrefixIs
  <1>3. Len(P) \in Nat
    OBVIOUS
  <1>. HIDE DEF one, All
  <1>4. IsPrefix(one, P) <=> Len(P) >= 2 /\ P[1] = a /\ P[2] = b
    <2>1. 1..2 = {1, 2}
      OBVIOUS
    <2>. QED
      BY <1>1, <1>2, <1>3, <2>1 DEF Begins
  <1>. QED
    BY <1>4 DEF one

\* What is left below the app directory a module is taken to be in.
LEMMA AppIs ==
  ASSUME NEW R \in Seq(Directories), NEW P \in Seq(Directories), NEW D \in 1..Len(P),
         Len(P) > D, P[D] = AppDir,
         \/ D = 1
         \/ D = 2 /\ P[1] = SrcDir
         \/ \A i \in 1..(Len(R) + D - 1) : (R \o P)[i] # AppDir
  PROVE  nextAppRouteFileToUrlPath(R, R \o P) = segmentsToFullPath(Beneath(P, D))
  <1>. DEFINE k == Len(P)
              l == Len(R)
              Q == R \o P
              rest == Beneath(P, D)
  <1>1. k \in Nat /\ l \in Nat /\ D \in 1..k /\ k > D
    OBVIOUS
  <1>2. /\ Len(Q) = l + k /\ DOMAIN Q = 1..(l + k)
        /\ \A i \in 1..(l + k) : Q[i] = IF i <= l THEN R[i] ELSE P[i - l]
    <2>1. Q \in Seq(Directories)
      BY ConcatProperties
    <2>2. DOMAIN Q = 1..Len(Q)
      BY <2>1
    <2>. QED
      BY <2>2, ConcatProperties
  <1>3. /\ Beneath(P, 0) = P /\ Beneath(Q, l) = P
    <2>1. Beneath(P, 0) = P
      BY SubSeqFull DEF Beneath
    <2>2. Beneath(Q, l + 0) = Beneath(P, 0)
      BY BeneathConcat
    <2>. QED
      BY <1>1, <2>1, <2>2
  <1>4. Beneath(Q, l + D) = rest
    BY BeneathConcat
  <1>5. rest # << >>
    <2>1. Len(rest) = k - D
      BY BeneathIs
    <2>2. Len(rest) > 0
      <3>. HIDE DEF rest, k
      <3>. QED
        BY <1>1, <2>1
    <2>. QED
      BY <2>2
  <1>6. /\ IsPrefix(<<AppDir>>, P) <=> P[1] = AppDir
        /\ IsPrefix(<<SrcDir, AppDir>>, P) <=> k >= 2 /\ P[1] = SrcDir /\ P[2] = AppDir
    <2>1. k >= 1
      BY <1>1
    <2>. QED
      BY <2>1, PrefixOne, PrefixTwo
  <1>7. /\ l \in Nat /\ P[D] = AppDir
        /\ nextAppRouteFileToUrlPath(R, Q) =
             segmentsToFullPath(IF InProject(P) # << >> THEN InProject(P) ELSE Inferred(Q))
    BY <1>3 DEF nextAppRouteFileToUrlPath
  <1>8. (IF InProject(P) # << >> THEN InProject(P) ELSE Inferred(Q)) = rest
    <2>1. CASE D = 1
      <3>1. InProject(P) = rest
        <4>. HIDE DEF k, l, Q
        <4>1. P[1] = AppDir /\ k # 1
          BY <1>1, <1>7, <2>1
        <4>2. IsPrefix(<<AppDir>>, P)
          BY <1>6, <4>1
        <4>. QED
          BY <2>1, <4>1, <4>2 DEF InProject, k
      <3>. QED
        BY <1>5, <3>1
    <2>2. CASE D = 2 /\ P[1] = SrcDir
      <3>1. InProject(P) = rest
        <4>. HIDE DEF k, l, Q
        <4>1. P[2] = AppDir /\ k >= 2 /\ k # 2
          BY <1>1, <1>7, <2>2
        <4>2. ~IsPrefix(<<AppDir>>, P) /\ IsPrefix(<<SrcDir, AppDir>>, P)
          BY <1>6, <2>2, <4>1, AppAssumption
        <4>. QED
          BY <2>2, <4>1, <4>2 DEF InProject, k
      <3>. QED
        BY <1>5, <3>1
    <2>3. CASE D # 1 /\ ~(D = 2 /\ P[1] = SrcDir)
      <3>1. \A i \in 1..(l + D - 1) : Q[i] # AppDir
        BY <2>3
      <3>. HIDE DEF Q, rest, k, l
      <3>2. ASSUME NEW j \in 1..(D - 1) PROVE P[j] # AppDir
        <4>1. l + j \in 1..(l + D - 1) /\ l + j \in 1..(l + k) /\ ~(l + j <= l) /\ (l + j) - l = j
          BY <1>1
        <4>. QED
          BY <1>2, <3>1, <4>1
      <3>3. InProject(P) = << >>
        <4>1. 1 \in 1..(D - 1)
          BY <1>1, <2>3
        <4>2. ~IsPrefix(<<AppDir>>, P)
          BY <1>6, <3>2, <4>1
        <4>3. ~IsPrefix(<<SrcDir, AppDir>>, P)
          <5>1. CASE D = 2
            BY <1>6, <2>3, <5>1
          <5>2. CASE D # 2
            <6>1. 2 \in 1..(D - 1)
              BY <1>1, <2>3, <5>2
            <6>. QED
              BY <1>6, <3>2, <6>1
          <5>. QED
            BY <5>1, <5>2
        <4>. QED
          BY <4>2, <4>3 DEF InProject
      <3>4. Min({i \in DOMAIN Q : Q[i] = AppDir}) = l + D
        <4>. DEFINE S == {i \in DOMAIN Q : Q[i] = AppDir}
        <4>1. l + D \in S
          <5>1. l + D \in 1..(l + k) /\ ~(l + D <= l) /\ (l + D) - l = D
            BY <1>1
          <5>. QED
            BY <1>2, <1>7, <5>1
        <4>2. ASSUME NEW i \in S PROVE l + D <= i
          <5>1. i \in 1..(l + k) /\ Q[i] = AppDir
            BY <1>2
          <5>2. i \notin 1..(l + D - 1)
            BY <3>1, <5>1
          <5>. QED
            BY <1>1, <5>1, <5>2
        <4>3. \A i \in S : i \in Nat
          BY <1>1, <1>2
        <4>4. \A x \in S : (\A y \in S : x <= y) => x = l + D
          BY <1>1, <4>1, <4>2, <4>3
        <4>. HIDE DEF S
        <4>5. Min(S) = l + D
          BY <4>1, <4>2, <4>4 DEF Min
        <4>. QED
          BY <4>5 DEF S
      <3>5. Inferred(Q) = rest
        BY <1>4, <1>5, <3>4 DEF Inferred
      <3>. QED
        BY <3>3, <3>5
    <2>. QED
      BY <2>1, <2>2, <2>3
  <1>. QED
    BY <1>7, <1>8

LEMMA RouteFileServed ==
  ASSUME NEW R \in Roots, NEW f \in FileSet,
         LET app == SubSeq(Place[f], 1, AppDepth[f])
         IN /\ app # << >> /\ Len(Place[f]) > Len(app)
            /\ app \in {<<AppDir>>, <<SrcDir, AppDir>>} \/ AppDir \notin Sequence(R \o Front(app))
  PROVE  nextAppRouteFileToUrlPath(R, R \o Place[f]) = ServedPath(f)
  <1>. DEFINE P == Place[f]
              D == AppDepth[f]
              k == Len(P)
              l == Len(R)
              app == SubSeq(P, 1, D)
  <1>1. R \in Seq(Directories) /\ P \in Seq(Directories) /\ D \in 0..k /\ k \in Nat /\ l \in Nat
    BY PlacesAssumption
  <1>2. app \in Seq(Directories) /\ Len(app) = D /\ \A i \in 1..D : app[i] = P[i]
    <2>. HIDE DEF D
    <2>1. 1 \in Int /\ D \in Int /\ \A i \in 1..D : P[i] \in Directories
      BY <1>1
    <2>. HIDE DEF P, k, l
    <2>2. /\ app \in Seq(Directories) /\ Len(app) = (IF 1 <= D THEN D - 1 + 1 ELSE 0)
          /\ \A i \in 1..(D - 1 + 1) : app[i] = P[1 + i - 1]
      BY <2>1, SubSeqProperties
    <2>. HIDE DEF app
    <2>3. D \in Nat
      BY <1>1
    <2>4. Len(app) = D
      BY <2>2, <2>3
    <2>5. ASSUME NEW i \in 1..D PROVE app[i] = P[i]
      <3>1. i \in 1..(D - 1 + 1) /\ 1 + i - 1 = i
        BY <2>3
      <3>. QED
        BY <2>2, <3>1
    <2>. QED
      BY <2>2, <2>4, <2>5
  <1>3. app # << >> /\ k > Len(app)
    OBVIOUS
  <1>4. D \in 1..k /\ k > D /\ P[D] = AppDir
    <2>1. D # 0
      <3>. HIDE DEF app
      <3>. QED
        BY <1>2, <1>3, EmptySeq
    <2>. HIDE DEF D, k, app
    <2>2. D \in 1..k /\ k > D
      BY <1>1, <1>2, <1>3, <2>1
    <2>3. D > 0 => P[D] = AppDir
      BY PlacesAssumption DEF D
    <2>. QED
      BY <2>2, <2>3
  <1>5. \/ D = 1
        \/ D = 2 /\ P[1] = SrcDir
        \/ \A i \in 1..(l + D - 1) : (R \o P)[i] # AppDir
    <2>1. CASE app = <<AppDir>>
      <3>. HIDE DEF app
      <3>1. Len(app) = 1
        BY <2>1
      <3>. QED
        BY <1>2, <3>1
    <2>2. CASE app = <<SrcDir, AppDir>>
      <3>. HIDE DEF app, D, P
      <3>1. Len(app) = 2 /\ app[1] = SrcDir
        BY <2>2
      <3>. QED
        BY <1>2, <3>1
    <2>3. CASE AppDir \notin Sequence(R \o Front(app))
      <3>. DEFINE b == Front(app)
      <3>1. b \in Seq(Directories) /\ Len(b) = D - 1 /\ \A i \in 1..(D - 1) : b[i] = P[i]
        <4>. HIDE DEF P, D, k, l, app
        <4>. DEFINE e == D - 1
        <4>1. 1 \in Int /\ e \in Int /\ e \in Nat /\ 1..e \subseteq 1..D
          BY <1>1, <1>4
        <4>2. b = SubSeq(app, 1, e)
          BY <1>2 DEF Front
        <4>3. \A i \in 1..e : app[i] \in Directories
          BY <1>2, <4>1
        <4>. HIDE DEF e, b
        <4>4. /\ b \in Seq(Directories) /\ Len(b) = (IF 1 <= e THEN e - 1 + 1 ELSE 0)
              /\ \A i \in 1..(e - 1 + 1) : b[i] = app[1 + i - 1]
          BY <4>1, <4>2, <4>3, SubSeqProperties
        <4>5. e - 1 + 1 = e /\ \A i \in 1..e : 1 + i - 1 = i
          BY <4>1
        <4>6. b \in Seq(Directories) /\ Len(b) = e /\ \A i \in 1..e : b[i] = app[i]
          BY <4>1, <4>4, <4>5
        <4>. QED
          BY <1>2, <4>1, <4>6 DEF e
      <3>. DEFINE c == R \o b
      <3>. HIDE DEF b
      <3>2. /\ c \in Seq(Directories) /\ Len(c) = l + Len(b)
            /\ \A i \in 1..(l + Len(b)) : c[i] = IF i <= l THEN R[i] ELSE b[i - l]
        BY <1>1, <3>1, ConcatProperties
      <3>3. \A i \in 1..(l + k) : (R \o P)[i] = IF i <= l THEN R[i] ELSE P[i - l]
        BY <1>1, ConcatProperties
      <3>4. \A i \in 1..Len(c) : c[i] # AppDir
        <4>1. AppDir \notin Sequence(c)
          BY <2>3 DEF b
        <4>2. DOMAIN c = 1..Len(c)
          BY <3>2
        <4>. QED
          BY <4>1, <4>2 DEF Sequence
      <3>. HIDE DEF c, P, D, k, l, app
      <3>5. ASSUME NEW i \in 1..(l + D - 1) PROVE (R \o P)[i] = c[i] /\ i \in 1..Len(c)
        <4>0. l \in Nat /\ D \in Nat /\ k \in Nat /\ 1 <= D /\ D <= k
          BY <1>1, <1>4
        <4>1. i \in 1..(l + k) /\ i \in 1..(l + (D - 1)) /\ (~(i <= l) => i - l \in 1..(D - 1))
          BY <4>0
        <4>. QED
          BY <1>2, <3>1, <3>2, <3>3, <4>1
      <3>. QED
        BY <3>4, <3>5
    <2>. QED
      BY <2>1, <2>2, <2>3
  <1>6. nextAppRouteFileToUrlPath(R, R \o P) = segmentsToFullPath(Beneath(P, D))
    <2>. HIDE DEF P, D
    <2>. QED
      BY <1>1, <1>4, <1>5, AppIs
  <1>7. Beneath(P, D) \in Seq(Directories)
    <2>. HIDE DEF P, D
    <2>. QED
      BY <1>1, BeneathIs
  <1>8. segmentsToFullPath(Beneath(P, D)) = ServedBelow(Beneath(P, D))
    <2>. DEFINE b == Beneath(P, D)
    <2>. HIDE DEF b
    <2>. QED
      BY <1>7, SegmentsAre DEF b
  <1>. QED
    BY <1>6, <1>8 DEF ServedPath

LEMMA NextServed == SurfaceTypeOK => NextAsServed
  <1>. SUFFICES ASSUME SurfaceTypeOK, NEW r \in NextRoutesOf,
                       LET app == SubSeq(Place[r.file], 1, AppDepth[r.file])
                       IN /\ app # << >> /\ Len(Place[r.file]) > Len(app)
                          /\ app \in {<<AppDir>>, <<SrcDir, AppDir>>} \/ AppDir \notin Sequence(root \o Front(app))
                PROVE  r.fullPath = ServedPath(r.file)
    BY DEF NextAsServed
  <1>1. PICK p \in Places("export") :
          r = RouteOf(p, At(p).name, nextAppRouteFileToUrlPath(root, root \o Place[p[1]]))
    BY DEF NextRoutesOf
  <1>2. r.file = p[1] /\ r.fullPath = nextAppRouteFileToUrlPath(root, root \o Place[p[1]])
    BY <1>1 DEF RouteOf
  <1>3. p[1] \in FileSet /\ root \in Roots
    BY PlaceIs DEF SurfaceTypeOK
  <1>. QED
    BY <1>2, <1>3, RouteFileServed

-----------------------------------------------------------------------------
(* Of every project *)

(***************************************************************************)
(* A package that a route uses by a name in the text of its last inline    *)
(* handler (analyzer.ts:478-505) is reported with that route, and reviewed *)
(* with it if the route is a sensitive one; handlers given by name have no *)
(* text, and nothing is said of them.                                      *)
(***************************************************************************)
THEOREM UsedIsReported == SurfaceSpec => []CrossingsAreReported
  BY ProjectIsRead, CrossingsReported, PTL

(***************************************************************************)
(* A finding where a package is used, on the line or in the text of a      *)
(* handler (analyzer.ts:508-554), is held against it; and a package is     *)
(* ranked only for findings of files that load it.                         *)
(***************************************************************************)
THEOREM FindingsHeldAgainst == SurfaceSpec => []FindingsAreTraced
  BY ProjectIsRead, FindingsTraced, PTL

(***************************************************************************)
(* The route modules below the app directory of the project, or below the  *)
(* first one of the whole path, are taken to be where Next.js serves them. *)
(***************************************************************************)
THEOREM ModulesAsServed == SurfaceSpec => []NextAsServed
  BY ProjectIsRead, NextServed, PTL
=============================================================================
