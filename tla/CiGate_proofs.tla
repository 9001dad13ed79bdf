---------------------------- MODULE CiGate_proofs ----------------------------
(***************************************************************************)
(* Proofs about CiGate: what a baseline lets pass was found when it was    *)
(* written, and what was found and stays passes, for any projects, inputs  *)
(* and machines.                                                           *)
(***************************************************************************)
EXTENDS CiGate, TLAPS

-----------------------------------------------------------------------------
(***************************************************************************)
(* Paths                                                                   *)
(***************************************************************************)
LEMMA AbsPath ==
  ASSUME NEW m \in Machines, NEW p \in Seq(Names)
  PROVE  /\ Abs(m, p) \in Seq(Machines \cup Names) /\ Len(Abs(m, p)) = Len(p) + 1
         /\ Abs(m, p)[1] = m /\ \A k \in 2..(Len(p) + 1) : Abs(m, p)[k] = p[k - 1]
  <1>1. <<m>> \in Seq(Machines \cup Names) /\ p \in Seq(Machines \cup Names)
    OBVIOUS
  <1>. QED BY <1>1 DEF Abs

Below(p, root) == SubSeq(p, Len(root) + 1, Len(p))

LEMMA BelowPath ==
  ASSUME NEW p \in Seq(Names), NEW root \in Seq(Names), StartsWith(p, root), p # root
  PROVE  /\ Below(p, root) \in Seq(Names) /\ Len(Below(p, root)) = Len(p) - Len(root)
         /\ Len(p) > Len(root)
         /\ \A k \in 1..(Len(p) - Len(root)) : Below(p, root)[k] = p[Len(root) + k]
  <1>1. Len(p) > Len(root)
    <2>1. Len(root) <= Len(p) /\ SubSeq(p, 1, Len(root)) = root
      BY DEF StartsWith
    <2>2. Len(p) = Len(root) => SubSeq(p, 1, Len(root)) = p
      OBVIOUS
    <2>. QED BY <2>1, <2>2
  <1>. QED BY <1>1 DEF Below

LEMMA SamePaths ==
  ASSUME NEW p \in Seq(Names), NEW q \in Seq(Names), Len(p) = Len(q), \A k \in 1..Len(p) : p[k] = q[k]
  PROVE  p = q
  OBVIOUS

\* No name of a path in the project is, or ends like, that of a machine.
LEMMA Apart ==
  ASSUME NEW m \in Machines, NEW n \in Names
  PROVE  m # n /\ <<m, n>> \notin NameEnds /\ <<n, m>> \notin NameEnds
  BY PathsAssumption

\* Absolute paths of which one ends like the other are of the same file.
LEMMA AbsEnds ==
  ASSUME NEW m \in Machines, NEW n \in Machines, NEW p \in Seq(Names), NEW q \in Seq(Names),
         TextEnds(Abs(m, p), Abs(n, q))
  PROVE  p = q
  <1>. DEFINE d == Len(p) - Len(q)
  <1>1. /\ d \in Nat /\ \A k \in 2..(Len(q) + 1) : Abs(m, p)[d + k] = Abs(n, q)[k]
        /\ Abs(m, p)[d + 1] = n \/ <<Abs(m, p)[d + 1], n>> \in NameEnds
    <2>1. /\ Len(Abs(m, p)) = Len(p) + 1 /\ Len(Abs(n, q)) = Len(q) + 1 /\ Abs(n, q)[1] = n
          /\ Len(p) \in Nat /\ Len(q) \in Nat
      BY AbsPath
    <2>2. Len(Abs(m, p)) - Len(Abs(n, q)) = d /\ d \in Int
      BY <2>1
    <2>. QED BY <2>1, <2>2 DEF TextEnds
  <1>2. d = 0
    <2>. SUFFICES ASSUME d > 0 PROVE FALSE
      BY <1>1
    <2>1. d + 1 \in 2..(Len(p) + 1) /\ d \in 1..Len(p)
      OBVIOUS
    <2>2. Abs(m, p)[d + 1] = p[d] /\ p[d] \in Names
      BY <2>1, AbsPath
    <2>. QED BY <1>1, <2>2, Apart
  <1>3. \A k \in 1..Len(q) : p[k] = q[k]
    <2>. SUFFICES ASSUME NEW k \in 1..Len(q) PROVE p[k] = q[k]
      OBVIOUS
    <2>1. k + 1 \in 2..(Len(q) + 1) /\ k + 1 \in 2..(Len(p) + 1)
      BY <1>2
    <2>2. Abs(m, p)[k + 1] = Abs(n, q)[k + 1]
      BY <1>1, <1>2, <2>1
    <2>. QED BY <2>1, <2>2, AbsPath
  <1>. QED BY <1>2, <1>3, SamePaths

\* A path below the root ends none that is absolute but below its machine.
LEMMA EndsBelow ==
  ASSUME NEW m \in Machines, NEW p \in Seq(Names), NEW b \in Seq(Names), TextEnds(Abs(m, p), b)
  PROVE  TextEnds(p, b)
  <1>. DEFINE d == Len(p) + 1 - Len(b)
  <1>1. /\ d \in Nat /\ Len(b) > 0 /\ b # << >> /\ \A k \in 2..Len(b) : Abs(m, p)[d + k] = b[k]
        /\ Abs(m, p)[d + 1] = b[1] \/ <<Abs(m, p)[d + 1], b[1]>> \in NameEnds
    <2>1. Len(Abs(m, p)) = Len(p) + 1 /\ Len(p) \in Nat /\ Len(b) \in Nat
      BY AbsPath
    <2>2. Len(Abs(m, p)) - Len(b) = d /\ d \in Int
      BY <2>1
    <2>3. b # << >> /\ Len(Abs(m, p)) - Len(b) >= 0
      BY DEF TextEnds
    <2>4. Len(b) > 0
      BY <2>3
    <2>. QED BY <2>1, <2>2, <2>3, <2>4 DEF TextEnds
  <1>2. d > 0
    <2>. SUFFICES ASSUME d = 0 PROVE FALSE
      BY <1>1
    <2>1. Abs(m, p)[d + 1] = m /\ b[1] \in Names
      BY <1>1, AbsPath
    <2>. QED BY <1>1, <2>1, Apart
  <1>3. \A k \in 1..Len(b) : d + k \in 2..(Len(p) + 1) /\ Abs(m, p)[d + k] = p[(d - 1) + k]
    <2>. SUFFICES ASSUME NEW k \in 1..Len(b)
                  PROVE d + k \in 2..(Len(p) + 1) /\ Abs(m, p)[d + k] = p[(d - 1) + k]
      OBVIOUS
    <2>1. d + k \in 2..(Len(p) + 1) /\ (d + k) - 1 = (d - 1) + k
      BY <1>1, <1>2
    <2>2. Abs(m, p)[d + k] = p[(d + k) - 1]
      BY <2>1, AbsPath
    <2>. QED BY <2>1, <2>2
  <1>4. 1 \in 1..Len(b) /\ \A k \in 2..Len(b) : k \in 1..Len(b)
    BY <1>1
  <1>5. Len(p) - Len(b) = d - 1 /\ d - 1 >= 0
    BY <1>1, <1>2
  <1>. HIDE DEF d
  <1>6. \A k \in 2..Len(b) : p[(d - 1) + k] = b[k]
    BY <1>1, <1>3, <1>4
  <1>7. p[(d - 1) + 1] = b[1] \/ <<p[(d - 1) + 1], b[1]>> \in NameEnds
    <2>1. Abs(m, p)[d + 1] = p[(d - 1) + 1]
      BY <1>3, <1>4
    <2>2. Abs(m, p)[d + 1] = b[1] \/ <<Abs(m, p)[d + 1], b[1]>> \in NameEnds
      BY <1>1
    <2>. QED BY ONLY <2>1, <2>2
  <1>. QED BY <1>1, <1>5, <1>6, <1>7 DEF TextEnds

\* Nothing below a root ends like an absolute path.
LEMMA BelowEnds ==
  ASSUME NEW m \in Machines, NEW p \in Seq(Names), NEW b \in Seq(Names)
  PROVE  ~TextEnds(b, Abs(m, p)) /\ b # Abs(m, p)
  <1>1. b # Abs(m, p)
    <2>. SUFFICES ASSUME b = Abs(m, p) PROVE FALSE
      OBVIOUS
    <2>1. Len(b) = Len(p) + 1 /\ b[1] = m
      BY AbsPath
    <2>2. b[1] \in Names
      BY <2>1
    <2>. QED BY <2>1, <2>2, Apart
  <1>2. ~TextEnds(b, Abs(m, p))
    <2>. DEFINE d == Len(b) - (Len(p) + 1)
    <2>. SUFFICES ASSUME TextEnds(b, Abs(m, p)) PROVE FALSE
      OBVIOUS
    <2>1. d >= 0 /\ (b[d + 1] = m \/ <<b[d + 1], m>> \in NameEnds)
      BY AbsPath DEF TextEnds
    <2>2. d + 1 \in 1..Len(b)
      BY <2>1
    <2>3. b[d + 1] \in Names
      BY <2>2
    <2>. QED BY <2>1, <2>3, Apart
  <1>. QED BY <1>1, <1>2

LEMMA MatchIsSame ==
  ASSUME NEW m \in Machines, NEW n \in Machines, NEW p \in Seq(Names), NEW q \in Seq(Names),
         NEW root \in Seq(Names), pathMatches(Normalized(n, root, q), Abs(m, p))
  PROVE  p = q \/ (StartsWith(q, root) /\ TextEnds(p, Below(q, root)))
  <1>1. CASE StartsWith(q, root) /\ q # root
    <2>1. Normalized(n, root, q) = Below(q, root) /\ Below(q, root) \in Seq(Names)
      BY <1>1, BelowPath DEF Normalized, Below
    <2>2. TextEnds(Abs(m, p), Below(q, root))
      BY <2>1, BelowEnds DEF pathMatches
    <2>. QED BY <1>1, <2>1, <2>2, EndsBelow
  <1>2. CASE ~(StartsWith(q, root) /\ q # root)
    <2>1. Normalized(n, root, q) = Abs(n, q)
      BY <1>2 DEF Normalized
    <2>2. CASE Abs(n, q) = Abs(m, p)
      <3>1. Len(p) = Len(q) /\ \A k \in 1..Len(p) : k + 1 \in 2..(Len(p) + 1)
        BY <2>2, AbsPath
      <3>2. \A k \in 1..Len(p) : Abs(m, p)[k + 1] = p[k] /\ Abs(n, q)[k + 1] = q[k]
        <4>. SUFFICES ASSUME NEW k \in 1..Len(p)
                      PROVE Abs(m, p)[k + 1] = p[k] /\ Abs(n, q)[k + 1] = q[k]
          OBVIOUS
        <4>1. (k + 1) - 1 = k /\ k + 1 \in 2..(Len(p) + 1) /\ k + 1 \in 2..(Len(q) + 1)
          BY <3>1
        <4>2. Abs(m, p)[k + 1] = p[(k + 1) - 1] /\ Abs(n, q)[k + 1] = q[(k + 1) - 1]
          BY <4>1, AbsPath
        <4>. QED BY <4>1, <4>2
      <3>. QED BY <2>2, <3>1, <3>2, SamePaths
    <2>. QED BY <2>1, <2>2, AbsEnds DEF pathMatches
  <1>. QED BY <1>1, <1>2

LEMMA SameMatches ==
  ASSUME NEW m \in Machines, NEW n \in Machines, NEW p \in Seq(Names), NEW root \in Seq(Names),
         p # root, StartsWith(p, root) \/ m = n
  PROVE  pathMatches(Normalized(n, root, p), Abs(m, p))
  <1>1. CASE StartsWith(p, root)
    <2>. DEFINE b == Below(p, root)
                r == Len(root)
    <2>1. Normalized(n, root, p) = b
      BY <1>1 DEF Normalized, Below
    <2>2. b \in Seq(Names) /\ Len(b) = Len(p) - r /\ Len(p) > r
          /\ \A k \in 1..(Len(p) - r) : b[k] = p[r + k]
      BY <1>1, BelowPath
    <2>. HIDE DEF b
    <2>3. ASSUME NEW k \in 1..Len(b)
          PROVE Abs(m, p)[(r + 1) + k] = b[k]
      <3>1. (r + 1) + k \in 2..(Len(p) + 1) /\ ((r + 1) + k) - 1 = r + k /\ k \in 1..(Len(p) - r)
        BY <2>2
      <3>2. Abs(m, p)[(r + 1) + k] = p[((r + 1) + k) - 1]
        BY <3>1, AbsPath
      <3>. QED BY <2>2, <3>1, <3>2
    <2>4. Len(Abs(m, p)) - Len(b) = r + 1 /\ r + 1 >= 0 /\ b # << >> /\ 1 \in 1..Len(b)
          /\ \A k \in 2..Len(b) : k \in 1..Len(b)
      <3>1. Len(Abs(m, p)) = Len(p) + 1
        BY AbsPath
      <3>2. r \in Nat /\ Len(p) \in Nat /\ Len(b) > 0
        BY <2>2
      <3>. QED BY <2>2, <3>1, <3>2
    <2>5. TextEnds(Abs(m, p), b)
      BY <2>3, <2>4 DEF TextEnds
    <2>. QED BY <2>1, <2>5 DEF pathMatches
  <1>2. CASE ~StartsWith(p, root)
    BY <1>2 DEF Normalized, pathMatches
  <1>. QED BY <1>1, <1>2

-----------------------------------------------------------------------------
(***************************************************************************)
(* The baseline holds what its command found where it found it, and the    *)
(* exit code of a check follows from the project and the baseline as they  *)
(* still are.                                                              *)
(***************************************************************************)
LEMMA SpotPath ==
  ASSUME NEW s \in Spots
  PROVE  s.file \in Files /\ s.file \in Seq(Names) /\ s.file # << >> /\ s.line \in Lines /\ s # Nowhere
  BY PathsAssumption DEF Spots, Nowhere

LEMMA RootPath ==
  ASSUME NEW ins \in Inputs
  PROVE  Root(ins) \in Seq(Names) /\ Root(ins) \notin Files
  <1>1. ins \in Seq(Seq(Names) \ Files) /\ ins # << >>
    BY PathsAssumption
  <1>2. 1 \in 1..Len(ins)
    BY <1>1
  <1>. QED BY <1>1, <1>2 DEF Root

EntriesOf(w) ==
    {[ruleId |-> RuleOf[i], file |-> Normalized(w.machine, Root(w.ins), w.at[i].file), line |-> w.at[i].line] :
        i \in w.found}
WasFound(c, spots) ==
    c.machine \in Machines /\ c.ins \in Inputs /\ c.found \subseteq Issues /\ \A i \in c.found : spots[i] \in Spots

\* ExitCode as a function of where the issues are and of the baseline.
ExitOf(found, m, via, ins, spots, base) ==
    LET read == IF via = "config" /\ Root(ins) # << >> THEN Missing ELSE base
        known(i) == \E e \in read.entries :
                        /\ e.ruleId = RuleOf[i] /\ e.line = spots[i].line
                        /\ pathMatches(e.file, Abs(m, spots[i].file))
    IN CASE via = "no" -> IF \E i \in found : Blocking(i) THEN 1 ELSE 0
         [] read \in {Missing, Garbled} -> 1
         [] OTHER -> IF \E i \in found : Blocking(i) /\ ~known(i) THEN 1 ELSE 0

LEMMA ExitIs ==
  ASSUME NEW found, NEW m, NEW via, NEW ins
  PROVE  /\ ExitCode(found, m, via, ReadFrom(via, ins)) = ExitOf(found, m, via, ins, at, baseline)
         /\ ExitOf(found, m, via, ins, at, baseline) \in {0, 1}
  <1>1. ExitCode(found, m, via, ReadFrom(via, ins)) = ExitOf(found, m, via, ins, at, baseline)
    BY DEF ExitCode, ExitOf, ReadFrom, findingInBaseline
  <1>2. ExitOf(found, m, via, ins, at, baseline) \in {0, 1}
    BY DEF ExitOf
  <1>. QED BY <1>1, <1>2

BaselineIsWritten ==
    baseline \notin {Missing, Garbled} =>
        baseline.entries = EntriesOf(written) /\ WasFound(written, written.at)
ExitFollows ==
    last.kind = "check" =>
        /\ WasFound(last, at)
        /\ last.exit = ExitOf(last.found, last.machine, last.via, last.ins, at, baseline)

GateInv == TypeOK /\ BaselineIsWritten /\ ExitFollows

LEMMA FoundSpots ==
  ASSUME TypeOK, NEW m, NEW ins, NEW c, NEW answered
  PROVE  /\ Findings(m, ins, c, answered) \subseteq Issues
         /\ \A i \in Findings(m, ins, c, answered) : at[i] \in Spots
  BY DEF Findings, Seen, TypeOK

LEMMA GateInit == Init => GateInv
  BY BoundsAssumption DEF Init, GateInv, TypeOK, BaselineIsWritten, ExitFollows, Missing, Nothing

\* An edit leaves the baseline, and forgets the command run before it.
LEMMA EditStep ==
  ASSUME TypeOK, BaselineIsWritten, Edited, at' \in [Issues -> Spots \cup {Nowhere}], config' \in Configs
  PROVE  GateInv'
  <1>1. TypeOK'
    BY BoundsAssumption DEF Edited, TypeOK, Nothing
  <1>. QED BY <1>1 DEF GateInv, Edited, BaselineIsWritten, ExitFollows, Nothing

LEMMA GateStep ==
  ASSUME GateInv, [Next]_vars
  PROVE  GateInv'
  <1>. USE DEF GateInv
  <1>1. ASSUME NEW i \in Issues, NEW s \in Spots, Introduce(i, s)
        PROVE GateInv'
    BY <1>1, EditStep DEF Introduce, TypeOK
  <1>2. ASSUME NEW i \in Issues, Fix(i)
        PROVE GateInv'
    BY <1>2, EditStep DEF Fix, TypeOK
  <1>3. ASSUME NEW f \in Files, InsertLine(f)
        PROVE GateInv'
    <2>. DEFINE moved == {i \in Issues \ Dependencies : at[i].file = f}
    <2>1. ASSUME NEW i \in moved
          PROVE [at[i] EXCEPT !.line = @ + 1] \in Spots
      <3>1. at[i] \in Spots
        BY PathsAssumption DEF TypeOK, Nowhere
      <3>2. at[i].line < MaxLine
        BY <1>3 DEF InsertLine
      <3>3. at[i] = [file |-> at[i].file, line |-> at[i].line] /\ at[i].file \in Files /\ at[i].line \in 1..MaxLine
        BY <3>1 DEF Spots, Lines
      <3>4. [at[i] EXCEPT !.line = @ + 1] = [file |-> at[i].file, line |-> at[i].line + 1]
        BY <3>3
      <3>. QED BY <3>2, <3>3, <3>4, BoundsAssumption DEF Spots, Lines
    <2>2. at' = [i \in Issues |-> IF i \in moved THEN [at[i] EXCEPT !.line = @ + 1] ELSE at[i]]
          /\ Edited /\ config' = config
      BY <1>3 DEF InsertLine
    <2>. HIDE DEF moved
    <2>3. at' \in [Issues -> Spots \cup {Nowhere}]
      BY <2>1, <2>2 DEF TypeOK
    <2>. QED BY <2>2, <2>3, EditStep DEF TypeOK
  <1>4. ASSUME NEW c \in Configs, Configure(c)
        PROVE GateInv'
    BY <1>4, EditStep DEF Configure, TypeOK
  <1>5. CASE Garble
    BY <1>5 DEF Garble, TypeOK, BaselineIsWritten, ExitFollows, Nothing, Missing, Garbled
  <1>6. ASSUME NEW m \in Machines, NEW ins \in Inputs, NEW answered \in SUBSET Dependencies,
               WriteBaseline(m, ins, answered)
        PROVE GateInv'
    <2>. DEFINE found == Findings(m, ins, config, answered)
    <2>1. found \subseteq Issues /\ \A i \in found : at[i] \in Spots
      BY FoundSpots
    <2>2. /\ baseline' = [state |-> "entries", entries |-> Entries(m, ins, found)]
          /\ last' = [kind |-> "write", exit |-> 0]
          /\ written' = [kind |-> "write", at |-> at, machine |-> m, ins |-> ins,
                         config |-> config, found |-> found]
          /\ UNCHANGED <<at, config, edits>>
      BY <1>6 DEF WriteBaseline
    <2>. HIDE DEF found
    <2>3. TypeOK'
      BY <2>2 DEF TypeOK, Missing, Nothing
    <2>4. baseline'.entries = EntriesOf(written')
      BY <2>2 DEF Entries, EntriesOf
    <2>5. WasFound(written', written'.at)
      BY <2>1, <2>2 DEF WasFound
    <2>. QED BY <2>2, <2>3, <2>4, <2>5 DEF BaselineIsWritten, ExitFollows, EntriesOf, WasFound
  <1>7. ASSUME NEW m \in Machines, NEW ins \in Inputs, NEW answered \in SUBSET Dependencies,
               NEW via \in {"no", "cli", "config"}, Check(m, ins, via, answered)
        PROVE GateInv'
    <2>. DEFINE found == Findings(m, ins, config, answered)
                exit == ExitOf(found, m, via, ins, at, baseline)
    <2>1. found \subseteq Issues /\ \A i \in found : at[i] \in Spots
      BY FoundSpots
    <2>2. /\ last' = [kind |-> "check", exit |-> exit, machine |-> m, ins |-> ins, via |-> via, found |-> found]
          /\ UNCHANGED <<at, config, baseline, edits, written>>
      BY <1>7, ExitIs DEF Check
    <2>3. exit \in {0, 1}
      BY ExitIs
    <2>. HIDE DEF found, exit
    <2>5. TypeOK'
      BY <2>2, <2>3 DEF TypeOK
    <2>6. WasFound(last', at')
      BY <2>1, <2>2 DEF WasFound
    <2>7. ExitFollows'
      BY <2>2, <2>6 DEF ExitFollows, exit
    <2>. QED BY <2>2, <2>5, <2>7 DEF BaselineIsWritten, EntriesOf, WasFound
  <1>8. CASE UNCHANGED vars
    BY <1>8 DEF vars, TypeOK, BaselineIsWritten, ExitFollows, EntriesOf, WasFound
  <1>. QED BY <1>1, <1>2, <1>3, <1>4, <1>5, <1>6, <1>7, <1>8 DEF Next

-----------------------------------------------------------------------------
LEMMA InvPassed == GateInv => PassedWasThere
  <1>. SUFFICES ASSUME GateInv, Gated, last.exit = 0, NEW i \in last.found, Blocking(i)
                PROVE \E j \in written.found :
                          RuleOf[j] = RuleOf[i] /\ written.at[j].line = at[i].line /\ SameFile(i, j)
    BY DEF PassedWasThere
  <1>. DEFINE m == last.machine
  <1>1. /\ baseline \notin {Missing, Garbled}
        /\ findingInBaseline(i, m, baseline.entries) /\ m \in Machines /\ at[i] \in Spots
    BY DEF GateInv, ExitFollows, Gated, ExitOf, WasFound, findingInBaseline
  <1>. HIDE DEF m
  <1>2. baseline.entries = EntriesOf(written) /\ WasFound(written, written.at)
    BY <1>1 DEF GateInv, BaselineIsWritten
  <1>3. PICK j \in written.found :
           /\ RuleOf[j] = RuleOf[i] /\ written.at[j].line = at[i].line
           /\ pathMatches(Normalized(written.machine, Root(written.ins), written.at[j].file), Abs(m, at[i].file))
    BY <1>1, <1>2 DEF findingInBaseline, EntriesOf
  <1>4. /\ at[i].file \in Seq(Names) /\ written.at[j].file \in Seq(Names)
        /\ Root(written.ins) \in Seq(Names) /\ written.machine \in Machines
    BY <1>1, <1>2, SpotPath, RootPath DEF WasFound
  <1>5. SameFile(i, j)
    BY <1>1, <1>3, <1>4, MatchIsSame DEF SameFile, Below
  <1>. QED BY <1>3, <1>5

LEMMA InvKnown == GateInv => KnownPasses
  <1>. SUFFICES ASSUME GateInv, Gated, baseline \notin {Missing, Garbled}, ReadFrom(last.via, last.ins) # Missing,
                       \A i \in last.found : /\ i \in written.found /\ at[i] = written.at[i]
                                             /\ \/ StartsWith(at[i].file, Root(written.ins))
                                                \/ last.machine = written.machine
                PROVE last.exit = 0
    BY DEF KnownPasses
  <1>1. ReadFrom(last.via, last.ins) = baseline
    BY DEF ReadFrom
  <1>2. baseline.entries = EntriesOf(written) /\ WasFound(written, written.at) /\ WasFound(last, at)
    BY DEF GateInv, BaselineIsWritten, ExitFollows, Gated
  <1>3. ASSUME NEW i \in last.found
        PROVE findingInBaseline(i, last.machine, baseline.entries)
    <2>. DEFINE e == [ruleId |-> RuleOf[i], file |-> Normalized(written.machine, Root(written.ins), written.at[i].file),
                      line |-> written.at[i].line]
    <2>1. e \in baseline.entries
      BY <1>2 DEF EntriesOf
    <2>2. /\ at[i].file \in Seq(Names) /\ at[i].file \in Files /\ Root(written.ins) \in Seq(Names)
          /\ Root(written.ins) \notin Files /\ written.machine \in Machines /\ last.machine \in Machines
      BY <1>2, SpotPath, RootPath DEF WasFound
    <2>3. pathMatches(e.file, Abs(last.machine, at[i].file))
      BY <2>2, SameMatches
    <2>. QED BY <2>1, <2>3 DEF findingInBaseline
  <1>. QED BY <1>1, <1>3 DEF GateInv, ExitFollows, Gated, ExitOf, ReadFrom, findingInBaseline

\* What is proved of the gate is one inductive invariant: the baseline is what
\* its command found, and the exit code follows from it.
THEOREM Invariance == Spec => []GateInv
  BY GateInit, GateStep, PTL DEF Spec

\* Every variable keeps its type.
THEOREM TypeCorrect == Spec => []TypeOK
  BY Invariance, PTL DEF GateInv

\* A build that passes has nothing that blocks but what the baseline's command
\* found, as far as ends of paths tell (baseline.ts:49).
THEOREM PassedWasFound == Spec => []PassedWasThere
  BY Invariance, InvPassed, PTL

\* What was found and stays where it is passes, on any machine.
THEOREM KnownStaysPassing == Spec => []KnownPasses
  BY Invariance, InvKnown, PTL
=============================================================================
