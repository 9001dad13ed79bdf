--------------------------- MODULE Workspace_proofs ---------------------------
(***************************************************************************)
(* Proofs about Workspace, for any documents, configurations, sources and  *)
(* patches: what installs, checks, exports and previews promise, and that  *)
(* the commands keep what the user wrote.                                  *)
(***************************************************************************)
EXTENDS Workspace, Induction, SequenceTheorems, FiniteSetTheorems

-----------------------------------------------------------------------------
(* SecureArch *)

Documents == (UNION {UserDocs[f] : f \in SettingsFiles}) \cup {Template[f] : f \in DOMAIN Template}
Lines == Own \cup {Begin, Gen, End}

ArchTypeOK ==
    /\ dir \in BOOLEAN /\ installed \in BOOLEAN /\ unmarked \in BOOLEAN
    /\ settings \in [SettingsFiles -> Documents \cup {Absent, Torn}]
    /\ schema \in {"absent", "partial", "whole"}
    /\ ignores \in Seq(Lines) /\ inside \in SUBSET Lines
    /\ install # None =>
          install \in [todo : SUBSET DOMAIN Template, force : BOOLEAN, schema : BOOLEAN]

\* What a running install has done, and that nothing else is said meanwhile.
InstallSoFar ==
    /\ install # None =>
          /\ ~installed /\ verdict = None
          /\ \A f \in DOMAIN Template \ install.todo : settings[f] # Absent
          /\ install.schema => schema # "absent"
    /\ installed =>
          /\ \A f \in DOMAIN Template : settings[f] # Absent
          /\ schema # "absent"

\* One marker of each kind, with generated lines and some of S between them.
Inner(l, S) == l = Gen \/ l \in S
Marked(lines, S) ==
    \E b, e \in DOMAIN lines :
        /\ b < e /\ lines[b] = Begin /\ lines[e] = End
        /\ \A i \in (b + 1)..(e - 1) : Inner(lines[i], S)
        /\ \A i \in DOMAIN lines \ (b..e) : lines[i] \in Own
NoMarks(lines) == \A i \in DOMAIN lines : lines[i] \in Own

HasBlock(lines) ==
    \E b \in DOMAIN lines :
        /\ b + 2 <= Len(lines) /\ SubSeq(lines, b, b + 2) = Block
        /\ \A i \in DOMAIN lines \ (b..(b + 2)) : lines[i] \in Own

MarksKept ==
    ~unmarked =>
        /\ Marked(ignores, Own \cap inside) \/ NoMarks(ignores)
        /\ installed => HasBlock(ignores)

ArchInv == ArchTypeOK /\ InstallSoFar /\ MarksKept

-----------------------------------------------------------------------------
\* A set of numbers has a least one.
LEMMA MinIsLeast ==
  ASSUME NEW S \in SUBSET Nat, S # {}
  PROVE  Min(S) \in S /\ \A j \in S : Min(S) <= j
  BY LeastNumber DEF Min

\* p is what a search of s for x gives, and what that is.
Position(p, s, x) ==
    LET I == {i \in 1..Len(s) : s[i] = x} IN p = IF I # {} THEN Min(I) ELSE 0
IsFirst(p, s, x) ==
    /\ p = 0 => \A i \in 1..Len(s) : s[i] # x
    /\ p # 0 => p \in 1..Len(s) /\ s[p] = x /\ \A i \in 1..(p - 1) : s[i] # x

LEMMA FirstPosition ==
  ASSUME NEW S, NEW s \in Seq(S), NEW x,
         NEW p, Position(p, s, x)
  PROVE  IsFirst(p, s, x)
  <1>. DEFINE I == {i \in 1..Len(s) : s[i] = x}
  <1>1. p = IF I # {} THEN Min(I) ELSE 0
    BY DEF Position
  <1>2. CASE I = {}
    BY <1>1, <1>2 DEF IsFirst
  <1>3. CASE I # {}
    <2>1. I \in SUBSET Nat
      OBVIOUS
    <2>2. p \in I /\ \A j \in I : p <= j
      BY <1>1, <1>3, <2>1, MinIsLeast
    <2>3. p \in 1..Len(s) /\ s[p] = x
      BY <2>2
    <2>4. \A i \in 1..(p - 1) : s[i] # x
      BY <2>2, <2>3
    <2>. QED
      BY <2>3, <2>4 DEF IsFirst
  <1>. QED
    BY <1>2, <1>3

\* The parts of a concatenation.
LEMMA ConcatParts ==
  ASSUME NEW S, NEW p \in Seq(S), NEW m \in Seq(S), NEW q \in Seq(S)
  PROVE  /\ p \o m \o q \in Seq(S) /\ Len(p \o m \o q) = Len(p) + Len(m) + Len(q)
         /\ \A i \in 1..Len(p) : (p \o m \o q)[i] = p[i]
         /\ \A i \in 1..Len(m) : (p \o m \o q)[Len(p) + i] = m[i]
         /\ \A i \in 1..Len(q) : (p \o m \o q)[Len(p) + Len(m) + i] = q[i]
  OBVIOUS

Associate(s, t, u) == (s \o t) \o u = s \o (t \o u)
LEMMA PartsAssociate ==
  ASSUME NEW S, NEW s \in Seq(S), NEW t \in Seq(S), NEW u \in Seq(S)
  PROVE  Associate(s, t, u)
  BY ConcatAssociative DEF Associate

\* The same of lines.
LEMMA LinesConcat ==
  ASSUME NEW p \in Seq(Lines), NEW m \in Seq(Lines), NEW q \in Seq(Lines), NEW cat, cat = p \o m \o q
  PROVE  /\ cat \in Seq(Lines) /\ Len(cat) = Len(p) + Len(m) + Len(q)
         /\ \A i \in 1..Len(p) : cat[i] = p[i]
         /\ \A i \in 1..Len(m) : cat[Len(p) + i] = m[i]
         /\ \A i \in 1..Len(q) : cat[Len(p) + Len(m) + i] = q[i]
  BY ConcatParts

LEMMA BlockOfLines == Block \in Seq(Lines) /\ Len(Block) = 3
                      /\ Block[1] = Begin /\ Block[2] = Gen /\ Block[3] = End
  BY DEF Block, Lines

\* The block between other lines.
LEMMA BlockBetween ==
  ASSUME NEW p \in Seq(Lines), NEW q \in Seq(Lines), NEW put, put = p \o Block \o q
  PROVE  /\ put \in Seq(Lines) /\ Len(put) = Len(p) + 3 + Len(q)
         /\ SubSeq(put, Len(p) + 1, Len(p) + 3) = Block
         /\ \A i \in 1..Len(p) : put[i] = p[i]
         /\ \A i \in 1..Len(q) : put[Len(p) + 3 + i] = q[i]
         /\ NoMarks(p) /\ NoMarks(q) => HasBlock(put)
  <1>1. Block \in Seq(Lines) /\ Len(Block) = 3
        /\ Block[1] = Begin /\ Block[2] = Gen /\ Block[3] = End
    BY BlockOfLines
  <1>2. /\ put \in Seq(Lines) /\ Len(put) = Len(p) + Len(Block) + Len(q)
        /\ \A i \in 1..Len(p) : put[i] = p[i]
        /\ \A i \in 1..Len(Block) : put[Len(p) + i] = Block[i]
        /\ \A i \in 1..Len(q) : put[Len(p) + Len(Block) + i] = q[i]
    <2>1. Block \in Seq(Lines)
      BY <1>1
    <2>. QED
      BY ONLY <2>1, p \in Seq(Lines), q \in Seq(Lines), put = p \o Block \o q, ConcatParts
  <1>3. /\ put \in Seq(Lines) /\ Len(put) = Len(p) + 3 + Len(q)
        /\ \A i \in 1..3 : put[Len(p) + i] = Block[i]
    BY <1>1, <1>2
  <1>4. Len(p) \in Nat /\ Len(q) \in Nat
    BY LenProperties
  <1>5. \A i \in 1..Len(p) : put[i] = p[i]
    BY <1>2, <1>3, <1>4
  <1>6. \A i \in 1..Len(q) : put[Len(p) + 3 + i] = q[i]
    BY <1>2, <1>3, <1>4
  <1>7. SubSeq(put, Len(p) + 1, Len(p) + 3) = Block
    <2>. DEFINE sub == SubSeq(put, Len(p) + 1, Len(p) + 3)
    <2>1. sub \in Seq(Lines) /\ Len(sub) = 3 /\ \A i \in 1..3 : sub[i] = put[Len(p) + i]
      BY <1>2, <1>3, <1>4, SubSeqProperties
    <2>2. \A i \in 1..3 : sub[i] = Block[i]
      BY <2>1, <1>2, <1>3, <1>4
    <2>. HIDE DEF sub
    <2>3. sub = Block
      BY <2>1, <2>2, <1>1, SeqEqual
    <2>. QED
      BY <2>3 DEF sub
  <1>8. ASSUME NoMarks(p), NoMarks(q)
        PROVE  HasBlock(put)
    <2>1. \A i \in DOMAIN put \ ((Len(p) + 1)..(Len(p) + 3)) : put[i] \in Own
      <3>. SUFFICES ASSUME NEW i \in 1..Len(put), ~(i \in (Len(p) + 1)..(Len(p) + 3))
                    PROVE  put[i] \in Own
        BY <1>3
      <3>1. CASE i <= Len(p)
        BY <3>1, <1>4, <1>5, <1>8, LenProperties DEF NoMarks
      <3>2. CASE i > Len(p) + 3
        <4>1. i - Len(p) - 3 \in 1..Len(q) /\ i = Len(p) + 3 + (i - Len(p) - 3)
          BY <3>2, <1>2, <1>3, <1>4
        <4>2. q[i - Len(p) - 3] \in Own
          BY ONLY <4>1, <1>8, q \in Seq(Lines), LenProperties DEF NoMarks
        <4>. QED
          BY <4>1, <4>2, <1>6
      <3>. QED
        BY <3>1, <3>2, <1>3, <1>4
    <2>2. Len(p) + 1 \in DOMAIN put /\ Len(p) + 1 + 2 <= Len(put)
      BY <1>2, <1>3, <1>4
    <2>3. Len(p) + 3 = Len(p) + 1 + 2
      BY <1>4
    <2>. QED
      BY <2>1, <2>2, <2>3, <1>7 DEF HasBlock
  <1>. QED
    BY <1>2, <1>3, <1>4, <1>5, <1>6, <1>7, <1>8

\* The block takes the place of lines that are not the user's, or in S.
Replaced(lines, S) ==
    \E p, m, q \in Seq(Lines) :
        /\ lines = p \o m \o q /\ EnsureGitignorePatterns(lines) = p \o Block \o q
        /\ \A i \in 1..Len(m) : m[i] \notin Own \ S

\* The place in b..e of a position, and the one it has after lp others.
LEMMA PlaceBetween ==
  ASSUME NEW i \in Int, NEW b \in Int, NEW e \in Int, b <= i, i <= e,
         NEW lp, NEW lm, lp = b - 1, lm = e - b + 1
  PROVE  i - b + 1 \in 1..lm /\ lp + (i - b + 1) = i /\ b + (i - b + 1) - 1 = i
  <1>1. i - b + 1 \in Int /\ 1 <= i - b + 1 /\ i - b + 1 <= lm
    OBVIOUS
  <1>2. lp + (i - b + 1) = i
    OBVIOUS
  <1>3. b + (i - b + 1) - 1 = i
    OBVIOUS
  <1>. QED
    BY <1>1, <1>2, <1>3

\* The block goes where it was, or to the end.
LEMMA BlockIsPut ==
  ASSUME NEW lines \in Seq(Lines), NEW S \in SUBSET Own
  PROVE  /\ EnsureGitignorePatterns(lines) \in Seq(Lines)
         /\ Marked(lines, S) \/ NoMarks(lines) => HasBlock(EnsureGitignorePatterns(lines))
         /\ NoMarks(lines) => EnsureGitignorePatterns(lines) = lines \o Block
         /\ Marked(lines, S) => Replaced(lines, S)
  <1>. DEFINE b == SelectInSeq(lines, LAMBDA l : l = Begin)
              rest == SubSeq(lines, b, Len(lines))
              e == SelectInSeq(rest, LAMBDA l : l = End)
  <1>1. Position(b, lines, Begin)
    BY DEF SelectInSeq, Position
  <1>2. Position(e, rest, End)
    BY DEF SelectInSeq, Position
  <1>3. EnsureGitignorePatterns(lines) =
          IF Contains(lines, Begin) /\ Contains(lines, End)
          THEN IF e = 0 THEN lines ELSE SubSeq(lines, 1, b - 1) \o Block \o SubSeq(lines, b + e, Len(lines))
          ELSE lines \o Block
    BY DEF EnsureGitignorePatterns
  <1>. HIDE DEF b, e
  <1>4. /\ b = 0 => \A i \in 1..Len(lines) : lines[i] # Begin
        /\ b # 0 => b \in 1..Len(lines) /\ lines[b] = Begin /\ \A i \in 1..(b - 1) : lines[i] # Begin
    BY <1>1, FirstPosition DEF IsFirst
  <1>5. b # 0 => rest \in Seq(Lines) /\ Len(rest) = Len(lines) - b + 1
                 /\ \A i \in 1..Len(rest) : rest[i] = lines[b + i - 1]
    BY <1>4, SubSeqProperties
  <1>. HIDE DEF rest
  <1>6. b # 0 => /\ e = 0 => \A i \in 1..Len(rest) : rest[i] # End
                 /\ e # 0 => e \in 1..Len(rest) /\ rest[e] = End /\ \A i \in 1..(e - 1) : rest[i] # End
    BY <1>2, <1>5, FirstPosition DEF IsFirst
  <1>7. Contains(lines, Begin) => b # 0
    BY <1>4 DEF Contains
  <1>8. EnsureGitignorePatterns(lines) \in Seq(Lines)
    <2>1. CASE ~(Contains(lines, Begin) /\ Contains(lines, End))
      BY <2>1, <1>3, BlockOfLines
    <2>2. CASE Contains(lines, Begin) /\ Contains(lines, End) /\ e # 0
      <3>1. b \in 1..Len(lines) /\ e \in 1..Len(rest) /\ Len(rest) = Len(lines) - b + 1
        BY <2>2, <1>4, <1>5, <1>6, <1>7
      <3>2. SubSeq(lines, 1, b - 1) \in Seq(Lines) /\ SubSeq(lines, b + e, Len(lines)) \in Seq(Lines)
        BY <3>1, SubSeqProperties
      <3>. QED
        BY <2>2, <3>2, <1>3, BlockOfLines
    <2>. QED
      BY <2>1, <2>2, <1>3
  <1>9. ASSUME NoMarks(lines)
        PROVE  /\ HasBlock(EnsureGitignorePatterns(lines))
               /\ EnsureGitignorePatterns(lines) = lines \o Block
    <2>1. ~Contains(lines, Begin)
      BY <1>9, MarkersAssumption DEF NoMarks, Contains
    <2>2. EnsureGitignorePatterns(lines) = lines \o Block
      BY <2>1, <1>3
    <2>3. lines \o Block = lines \o Block \o << >>
      BY BlockOfLines, ConcatProperties, ConcatEmptySeq
    <2>4. NoMarks(<< >>) /\ << >> \in Seq(Lines)
      BY DEF NoMarks
    <2>. QED
      BY <1>9, <2>2, <2>3, <2>4, BlockBetween
  <1>10. ASSUME Marked(lines, S)
         PROVE  HasBlock(EnsureGitignorePatterns(lines)) /\ Replaced(lines, S)
    <2>1. PICK b0, e0 \in DOMAIN lines :
              /\ b0 < e0 /\ lines[b0] = Begin /\ lines[e0] = End
              /\ \A i \in (b0 + 1)..(e0 - 1) : Inner(lines[i], S)
              /\ \A i \in DOMAIN lines \ (b0..e0) : lines[i] \in Own
      BY <1>10 DEF Marked
    <2>2. Contains(lines, Begin) /\ Contains(lines, End)
      BY <2>1 DEF Contains
    <2>3. b = b0
      <3>1. b \in 1..Len(lines) /\ lines[b] = Begin /\ \A i \in 1..(b - 1) : lines[i] # Begin
        BY <1>4, <1>7, <2>2
      <3>2. b >= b0
        BY <3>1, <2>1, MarkersAssumption
      <3>. QED
        BY <3>1, <3>2, <2>1
    <2>4. rest \in Seq(Lines) /\ Len(rest) = Len(lines) - b0 + 1
          /\ \A i \in 1..Len(rest) : rest[i] = lines[b0 + i - 1]
      BY <1>5, <2>1, <2>3
    <2>5. e = e0 - b0 + 1
      <3>1. rest[e0 - b0 + 1] = End /\ e0 - b0 + 1 \in 1..Len(rest)
        BY <2>1, <2>4
      <3>2. e # 0
        BY <3>1, <1>6, <2>1, <2>3
      <3>3. e \in 1..Len(rest) /\ rest[e] = End /\ \A i \in 1..(e - 1) : rest[i] # End
        BY <3>2, <1>6, <2>1, <2>3
      <3>4. e <= e0 - b0 + 1
        BY <3>1, <3>3
      <3>5. lines[b0 + e - 1] = End /\ b0 + e - 1 \in DOMAIN lines
        BY <3>3, <2>4, <2>1
      <3>6. ~(b0 + e - 1 < e0)
        BY <3>3, <3>5, <2>1, MarkersAssumption DEF Inner
      <3>. QED
        BY <3>3, <3>4, <3>6, <2>1
    <2>. DEFINE p == SubSeq(lines, 1, b0 - 1)
                q == SubSeq(lines, e0 + 1, Len(lines))
    <2>6. EnsureGitignorePatterns(lines) = p \o Block \o q
      <3>1. b0 + e = e0 + 1 /\ e # 0
        <4>1. b0 \in Int /\ e0 \in Int /\ b0 < e0
          BY <2>1
        <4>. QED
          BY ONLY <4>1, <2>5
      <3>. QED
        BY <1>3, <2>2, <2>3, <3>1
    <2>7. p \in Seq(Lines) /\ NoMarks(p)
      <3>1. p \in Seq(Lines) /\ Len(p) = b0 - 1 /\ \A i \in 1..(b0 - 1) : p[i] = lines[i]
        BY <2>1, SubSeqProperties
      <3>. QED
        BY <3>1, <2>1 DEF NoMarks
    <2>8. q \in Seq(Lines) /\ NoMarks(q)
      <3>1. q \in Seq(Lines) /\ Len(q) = Len(lines) - e0
            /\ \A i \in 1..(Len(lines) - e0) : q[i] = lines[e0 + i]
        BY <2>1, SubSeqProperties
      <3>. HIDE DEF q
      <3>2. \A i \in 1..(Len(lines) - e0) : lines[e0 + i] \in Own
        <4>. TAKE i \in 1..(Len(lines) - e0)
        <4>1. e0 + i \in DOMAIN lines \ (b0..e0)
          BY <2>1
        <4>. QED
          BY <2>1, <4>1
      <3>3. DOMAIN q = 1..(Len(lines) - e0)
        BY ONLY <3>1, LenProperties
      <3>. QED
        BY ONLY <3>1, <3>2, <3>3 DEF NoMarks
    <2>. DEFINE m == SubSeq(lines, b0, e0)
    <2>9. m \in Seq(Lines) /\ Len(m) = e0 - b0 + 1 /\ \A i \in 1..(e0 - b0 + 1) : m[i] = lines[b0 + i - 1]
      <3>1. b0 \in Int /\ e0 \in Int /\ b0 <= e0 /\ \A i \in b0..e0 : lines[i] \in Lines
        BY <2>1
      <3>. QED
        BY <3>1, SubSeqProperties
    <2>10. lines = p \o m \o q
      <3>1. Len(p) = b0 - 1 /\ Len(q) = Len(lines) - e0
            /\ (\A i \in 1..(b0 - 1) : p[i] = lines[i])
        BY <2>1, SubSeqProperties
      <3>4. \A i \in 1..(Len(lines) - e0) : q[i] = lines[e0 + i]
        BY <2>1, SubSeqProperties
      <3>. DEFINE pmq == p \o m \o q
      <3>. HIDE DEF p, m, q
      <3>2. /\ pmq \in Seq(Lines) /\ Len(pmq) = Len(p) + Len(m) + Len(q)
            /\ \A i \in 1..Len(p) : pmq[i] = p[i]
            /\ \A i \in 1..Len(m) : pmq[Len(p) + i] = m[i]
            /\ \A i \in 1..Len(q) : pmq[Len(p) + Len(m) + i] = q[i]
        <4>1. p \in Seq(Lines) /\ m \in Seq(Lines) /\ q \in Seq(Lines)
          BY <2>7, <2>8, <2>9
        <4>. QED
          BY ONLY <4>1, ConcatParts DEF pmq
      <3>. HIDE DEF pmq
      <3>7. /\ b0 \in Int /\ e0 \in Int /\ Len(lines) \in Int /\ b0 < e0
            /\ Len(p) = b0 - 1 /\ Len(m) = e0 - b0 + 1 /\ Len(q) = Len(lines) - e0
        BY <2>1, <2>9, <3>1
      <3>5. Len(pmq) = Len(lines)
        <4>1. Len(pmq) = Len(p) + Len(m) + Len(q)
          BY <3>2
        <4>2. (b0 - 1) + (e0 - b0 + 1) + (Len(lines) - e0) = Len(lines)
          <5>. DEFINE n == Len(lines)
          <5>1. n \in Int /\ b0 \in Int /\ e0 \in Int
            BY <3>7
          <5>. HIDE DEF n
          <5>2. (b0 - 1) + (e0 - b0 + 1) + (n - e0) = n
            BY ONLY <5>1
          <5>. QED
            BY <5>2 DEF n
        <4>. QED
          BY <4>1, <4>2, <3>7
      <3>3. \A i \in 1..Len(lines) : pmq[i] = lines[i]
        <4>. TAKE i \in 1..Len(lines)
        <4>4. i \in Int /\ 1 <= i /\ i <= Len(lines)
          BY <3>7
        <4>1. CASE i < b0
          <5>1. i \in 1..(b0 - 1) /\ i \in 1..Len(p)
            BY <4>1, <4>4, <3>7
          <5>. QED
            BY <5>1, <3>1, <3>2
        <4>2. CASE b0 <= i /\ i <= e0
          <5>1. i - b0 + 1 \in 1..Len(m) /\ Len(p) + (i - b0 + 1) = i /\ b0 + (i - b0 + 1) - 1 = i
            <6>. DEFINE lp == Len(p)
                        lm == Len(m)
            <6>1. b0 \in Int /\ e0 \in Int /\ lp = b0 - 1 /\ lm = e0 - b0 + 1
              BY <3>7
            <6>. HIDE DEF lp, lm
            <6>2. i - b0 + 1 \in 1..lm /\ lp + (i - b0 + 1) = i /\ b0 + (i - b0 + 1) - 1 = i
              BY ONLY <4>2, <4>4, <6>1, PlaceBetween
            <6>. QED
              BY <6>2 DEF lp, lm
          <5>2. pmq[Len(p) + (i - b0 + 1)] = m[i - b0 + 1]
            BY <5>1, <3>2
          <5>3. m[i - b0 + 1] = lines[b0 + (i - b0 + 1) - 1]
            BY <5>1, <2>9, <3>7
          <5>. QED
            BY <5>1, <5>2, <5>3
        <4>3. CASE e0 < i
          <5>1. i - e0 \in 1..Len(q) /\ Len(p) + Len(m) + (i - e0) = i /\ e0 + (i - e0) = i
            <6>. DEFINE lp == Len(p)
                        lm == Len(m)
                        lq == Len(q)
                        ll == Len(lines)
            <6>1. /\ b0 \in Int /\ e0 \in Int /\ ll \in Int /\ i <= ll
                  /\ lp = b0 - 1 /\ lm = e0 - b0 + 1 /\ lq = ll - e0
              BY <3>7, <4>4
            <6>. HIDE DEF lp, lm, lq, ll
            <6>2. i - e0 \in 1..lq /\ lp + lm + (i - e0) = i /\ e0 + (i - e0) = i
              <7>1. lp + lm = e0
                BY <6>1
              <7>3. i \in Int /\ e0 \in Int /\ ll \in Int /\ e0 < i /\ i <= ll
                BY <4>3, <4>4, <6>1
              <7>4. e0 + (i - e0) = i
                BY <7>3
              <7>5. i - e0 \in Int
                BY <7>3
              <7>6. 1 <= i - e0
                BY <7>3
              <7>7. i - e0 <= ll - e0
                BY <7>3
              <7>2. e0 + (i - e0) = i /\ i - e0 \in 1..(ll - e0)
                BY <7>3, <7>4, <7>5, <7>6, <7>7
              <7>. QED
                BY <6>1, <7>1, <7>2
            <6>. QED
              BY <6>2 DEF lp, lm, lq
          <5>2. pmq[Len(p) + Len(m) + (i - e0)] = q[i - e0]
            BY <5>1, <3>2
          <5>3. q[i - e0] = lines[e0 + (i - e0)]
            BY <5>1, <3>4, <3>7
          <5>. QED
            BY <5>1, <5>2, <5>3
        <4>. QED
          BY <4>1, <4>2, <4>3, <2>1
      <3>6. pmq = lines
        BY <3>2, <3>3, <3>5, SeqEqual
      <3>. QED
        BY <3>6 DEF pmq
    <2>11. \A i \in 1..Len(m) : m[i] \notin Own \ S
      <3>. TAKE i \in 1..Len(m)
      <3>1. m[i] = lines[b0 + i - 1] /\ b0 + i - 1 \in b0..e0
        <4>. DEFINE n == Len(m)
        <4>1. b0 \in Int /\ e0 \in Int /\ n = e0 - b0 + 1 /\ i \in 1..n
          BY <2>1, <2>9
        <4>. HIDE DEF n
        <4>2. i \in 1..(e0 - b0 + 1) /\ b0 + i - 1 \in b0..e0
          BY ONLY <4>1
        <4>. QED
          BY <2>9, <4>2
      <3>2. ASSUME NEW j \in b0..e0 PROVE lines[j] \in {Begin, Gen, End} \cup S
        <4>1. b0 \in Int /\ e0 \in Int
          BY <2>1
        <4>2. j = b0 \/ j = e0 \/ j \in (b0 + 1)..(e0 - 1)
          BY ONLY <4>1
        <4>3. lines[b0] = Begin /\ lines[e0] = End /\ \A k \in (b0 + 1)..(e0 - 1) : Inner(lines[k], S)
          BY <2>1
        <4>. QED
          BY ONLY <4>2, <4>3 DEF Inner
      <3>. QED
        BY <3>1, <3>2, MarkersAssumption
    <2>. HIDE DEF p, m, q
    <2>12. Replaced(lines, S)
      BY <2>6, <2>7, <2>8, <2>9, <2>10, <2>11 DEF Replaced
    <2>. QED
      BY <2>6, <2>7, <2>8, <2>12, BlockBetween
  <1>. QED
    BY <1>8, <1>9, <1>10
-----------------------------------------------------------------------------
LEMMA DocumentsAreSettings == \A d \in Documents : IsSettings(d) /\ d # Absent
  <1>. SUFFICES ASSUME NEW d \in Documents
                PROVE  IsSettings(d) /\ d # Absent
    OBVIOUS
  <1>1. \/ d \in UNION {UserDocs[f] : f \in SettingsFiles}
        \/ d \in {Template[f] : f \in DOMAIN Template}
    BY DEF Documents
  <1>2. ASSUME d \in UNION {UserDocs[f] : f \in SettingsFiles}
        PROVE  IsSettings(d)
    <2>1. PICK docs \in {UserDocs[f] : f \in SettingsFiles} : d \in docs
      BY <1>2
    <2>2. PICK f \in SettingsFiles : docs = UserDocs[f]
      BY <2>1
    <2>. QED
      BY <2>1, <2>2, DocumentsAssumption
  <1>3. ASSUME d \in {Template[f] : f \in DOMAIN Template}
        PROVE  IsSettings(d)
    BY <1>3, DocumentsAssumption
  <1>. QED
    BY <1>1, <1>2, <1>3 DEF IsSettings, IsDoc

LEMMA ArchInitInv == ArchInit => ArchInv
  <1>. SUFFICES ASSUME ArchInit PROVE ArchInv
    OBVIOUS
  <1>. USE DEF ArchInit
  <1>1. ArchTypeOK
    <2>1. settings \in [SettingsFiles -> Documents \cup {Absent, Torn}]
      OBVIOUS
    <2>2. ignores \in Seq(Lines) /\ inside \in SUBSET Lines
      OBVIOUS
    <2>3. /\ dir \in BOOLEAN /\ installed \in BOOLEAN /\ unmarked \in BOOLEAN
          /\ schema \in {"absent", "partial", "whole"} /\ install = None
      OBVIOUS
    <2>. QED
      BY <2>1, <2>2, <2>3 DEF ArchTypeOK
  <1>2. InstallSoFar
    BY DEF InstallSoFar
  <1>3. MarksKept
    BY DEF MarksKept, NoMarks
  <1>. QED
    BY <1>1, <1>2, <1>3 DEF ArchInv

\* A line of the user's more, at any place.
LEMMA InsertedMarks ==
  ASSUME NEW lines \in Seq(Lines), NEW S \in SUBSET Own, NEW T \in SUBSET Own, S \subseteq T,
         Marked(lines, S) \/ NoMarks(lines),
         NEW own \in Own, NEW k \in 1..(Len(lines) + 1),
         (\E b \in 1..(k - 1), e \in k..Len(lines) : lines[b] = Begin /\ lines[e] = End) => own \in T
  PROVE  Marked(InsertAt(lines, k, own), T) \/ NoMarks(InsertAt(lines, k, own))
  <1>. DEFINE new == InsertAt(lines, k, own)
              n == Len(lines)
              p == SubSeq(lines, 1, k - 1)
              q == SubSeq(lines, k, n)
              m == <<own>>
  <1>1. n \in Nat /\ k \in 1..(n + 1) /\ DOMAIN lines = 1..n
    OBVIOUS
  <1>2. p \in Seq(Lines) /\ Len(p) = k - 1 /\ \A i \in 1..(k - 1) : p[i] = lines[i]
    BY <1>1, SubSeqProperties
  <1>3. q \in Seq(Lines) /\ Len(q) = n - k + 1 /\ \A i \in 1..(n - k + 1) : q[i] = lines[k + i - 1]
    BY <1>1, SubSeqProperties
  <1>4. m \in Seq(Lines) /\ Len(m) = 1 /\ m[1] = own
    BY DEF Lines
  <1>5. new = p \o m \o q
    BY DEF InsertAt
  <1>. HIDE DEF new, p, q, m
  <1>6. /\ new \in Seq(Lines) /\ Len(new) = Len(p) + Len(m) + Len(q)
        /\ \A i \in 1..Len(p) : new[i] = p[i]
        /\ \A i \in 1..Len(m) : new[Len(p) + i] = m[i]
        /\ \A i \in 1..Len(q) : new[Len(p) + Len(m) + i] = q[i]
    <2>. DEFINE cat == p \o m \o q
    <2>1. p \in Seq(Lines) /\ m \in Seq(Lines) /\ q \in Seq(Lines)
      BY <1>2, <1>3, <1>4
    <2>2. /\ cat \in Seq(Lines) /\ Len(cat) = Len(p) + Len(m) + Len(q)
          /\ \A i \in 1..Len(p) : cat[i] = p[i]
          /\ \A i \in 1..Len(m) : cat[Len(p) + i] = m[i]
          /\ \A i \in 1..Len(q) : cat[Len(p) + Len(m) + i] = q[i]
      BY <2>1, LinesConcat DEF cat
    <2>3. new = cat
      BY <1>5 DEF cat
    <2>. QED
      BY ONLY <2>2, <2>3
  <1>7. new \in Seq(Lines) /\ Len(new) = n + 1
    BY <1>1, <1>2, <1>3, <1>4, <1>6
  <1>8. \A i \in 1..(k - 1) : new[i] = lines[i]
    BY <1>2, <1>6
  <1>9. new[k] = own
    <2>1. 1 \in 1..Len(m) /\ Len(p) + 1 = k
      BY <1>1, <1>2, <1>4
    <2>. QED
      BY <2>1, <1>4, <1>6
  <1>10. \A i \in (k + 1)..(n + 1) : new[i] = lines[i - 1]
    <2>. SUFFICES ASSUME NEW i \in (k + 1)..(n + 1) PROVE new[i] = lines[i - 1]
      OBVIOUS
    <2>1. i - k \in 1..(n - k + 1) /\ k + (i - k) - 1 = i - 1 /\ (k - 1) + 1 + (i - k) = i
      BY <1>1
    <2>2. new[Len(p) + Len(m) + (i - k)] = q[i - k]
      BY <1>3, <1>6, <2>1
    <2>. QED
      BY <1>2, <1>3, <1>4, <2>1, <2>2
  <1>11. /\ DOMAIN lines = 1..n /\ DOMAIN new = 1..(n + 1) /\ n \in Nat /\ k \in 1..(n + 1)
         /\ \A b \in 1..(k - 1), e \in k..n : lines[b] = Begin /\ lines[e] = End => own \in T
    BY <1>1, <1>7
  <1>. HIDE DEF n
  <1>12. ASSUME NoMarks(lines) PROVE NoMarks(new)
    <2>. SUFFICES ASSUME NEW i \in 1..(n + 1) PROVE new[i] \in Own
      BY <1>11 DEF NoMarks
    <2>1. CASE i < k
      BY <2>1, <1>8, <1>11, <1>12 DEF NoMarks
    <2>2. CASE i > k
      <3>1. i \in (k + 1)..(n + 1) /\ i - 1 \in 1..n
        BY <2>2, <1>11
      <3>. QED
        BY <3>1, <1>10, <1>11, <1>12 DEF NoMarks
    <2>. QED
      BY <2>1, <2>2, <1>9, <1>11
  <1>13. ASSUME Marked(lines, S) PROVE Marked(new, T)
    <2>1. PICK b, e \in DOMAIN lines :
              /\ b < e /\ lines[b] = Begin /\ lines[e] = End
              /\ \A i \in (b + 1)..(e - 1) : Inner(lines[i], S)
              /\ \A i \in DOMAIN lines \ (b..e) : lines[i] \in Own
      BY <1>13 DEF Marked
    <2>2. \A i \in (b + 1)..(e - 1) : Inner(lines[i], T)
      BY <2>1 DEF Inner
    <2>3. b \in 1..n /\ e \in 1..n
      BY <1>11
    <2>4. CASE e < k
      <3>1. b \in DOMAIN new /\ e \in DOMAIN new /\ new[b] = Begin /\ new[e] = End
        BY <2>1, <2>3, <2>4, <1>8, <1>11
      <3>2. \A i \in (b + 1)..(e - 1) : Inner(new[i], T)
        BY <2>2, <2>3, <2>4, <1>8, <1>11
      <3>3. ASSUME NEW i \in 1..(n + 1), i \notin b..e PROVE new[i] \in Own
        <4>1. CASE i < k
          BY <4>1, <3>3, <2>1, <2>3, <2>4, <1>8, <1>11
        <4>2. CASE i > k
          <5>1. i \in (k + 1)..(n + 1) /\ i - 1 \in (1..n) \ (b..e)
            BY <4>2, <2>3, <2>4, <1>11
          <5>. QED
            BY <5>1, <2>1, <1>10, <1>11
        <4>. QED
          BY <4>1, <4>2, <1>9, <1>11
      <3>. QED
        BY <2>1, <3>1, <3>2, <3>3, <1>11 DEF Marked
    <2>5. CASE b < k /\ k <= e
      <3>1. b \in DOMAIN new /\ e + 1 \in DOMAIN new /\ new[b] = Begin /\ new[e + 1] = End /\ b < e + 1
        <4>1. b \in 1..(k - 1) /\ e + 1 \in (k + 1)..(n + 1) /\ (e + 1) - 1 = e /\ b < e + 1
              /\ b \in 1..(n + 1) /\ e + 1 \in 1..(n + 1)
          BY <2>1, <2>3, <2>5, <1>11
        <4>. QED
          BY <4>1, <2>1, <1>8, <1>10, <1>11
      <3>2. ASSUME NEW i \in (b + 1)..((e + 1) - 1) PROVE Inner(new[i], T)
        <4>1. CASE i < k
          <5>1. i \in 1..(k - 1) /\ i \in (b + 1)..(e - 1)
            BY <4>1, <2>3, <2>5, <1>11
          <5>. QED
            BY <5>1, <2>2, <1>8
        <4>2. CASE i > k
          <5>1. i \in (k + 1)..(n + 1) /\ i - 1 \in (b + 1)..(e - 1)
            BY <4>2, <2>3, <2>5, <1>11
          <5>. QED
            BY <5>1, <2>2, <1>10
        <4>3. CASE i = k
          <5>1. b \in 1..(k - 1) /\ e \in k..n
            BY <2>3, <2>5, <1>11
          <5>. QED
            BY <5>1, <4>3, <2>1, <1>9, <1>11 DEF Inner
        <4>. QED
          BY <4>1, <4>2, <4>3, <2>3, <1>11
      <3>3. ASSUME NEW i \in 1..(n + 1), i \notin b..(e + 1) PROVE new[i] \in Own
        <4>1. CASE i < b
          <5>1. i \in 1..(k - 1) /\ i \in (1..n) \ (b..e)
            BY <4>1, <2>3, <2>5, <1>11
          <5>. QED
            BY <5>1, <2>1, <1>8, <1>11
        <4>2. CASE i > e + 1
          <5>1. i \in (k + 1)..(n + 1) /\ i - 1 \in (1..n) \ (b..e)
            BY <4>2, <2>3, <2>5, <1>11
          <5>. QED
            BY <5>1, <2>1, <1>10, <1>11
        <4>. QED
          BY <4>1, <4>2, <3>3, <2>3, <1>11
      <3>. QED
        BY <3>1, <3>2, <3>3, <1>11 DEF Marked
    <2>6. CASE k <= b
      <3>1. /\ b + 1 \in DOMAIN new /\ e + 1 \in DOMAIN new /\ b + 1 < e + 1
            /\ new[b + 1] = Begin /\ new[e + 1] = End
        <4>1. b + 1 \in (k + 1)..(n + 1) /\ e + 1 \in (k + 1)..(n + 1) /\ b + 1 < e + 1
              /\ (b + 1) - 1 = b /\ (e + 1) - 1 = e /\ b + 1 \in 1..(n + 1) /\ e + 1 \in 1..(n + 1)
          <5>1. b \in Int /\ e \in Int /\ k \in Int /\ 1 <= k /\ k <= b /\ b < e /\ e <= n /\ n \in Int
            BY <2>1, <2>3, <2>6, <1>11
          <5>. QED
            BY ONLY <5>1
        <4>. QED
          BY <4>1, <2>1, <1>10, <1>11
      <3>2. ASSUME NEW i \in ((b + 1) + 1)..((e + 1) - 1) PROVE Inner(new[i], T)
        <4>1. i \in (k + 1)..(n + 1) /\ i - 1 \in (b + 1)..(e - 1)
          BY <2>3, <2>6, <1>11
        <4>. QED
          BY <4>1, <2>2, <1>10
      <3>3. ASSUME NEW i \in 1..(n + 1), i \notin (b + 1)..(e + 1) PROVE new[i] \in Own
        <4>1. CASE i < k
          <5>1. i \in 1..(k - 1) /\ i \in (1..n) \ (b..e)
            BY <4>1, <2>3, <2>6, <1>11
          <5>. QED
            BY <5>1, <2>1, <1>8, <1>11
        <4>2. CASE i > k
          <5>1. i \in (k + 1)..(n + 1) /\ i - 1 \in (1..n) \ (b..e)
            BY <4>2, <3>3, <2>3, <2>6, <1>11
          <5>. QED
            BY <5>1, <2>1, <1>10, <1>11
        <4>. QED
          BY <4>1, <4>2, <1>9, <1>11
      <3>. QED
        BY <3>1, <3>2, <3>3, <1>11 DEF Marked
    <2>. QED
      BY <2>3, <2>4, <2>5, <2>6, <1>11
  <1>. QED
    BY <1>12, <1>13 DEF new

\* A line less, other than a marker.
LEMMA RemovedMarks ==
  ASSUME NEW lines \in Seq(Lines), NEW S \in SUBSET Own, Marked(lines, S) \/ NoMarks(lines)
  PROVE  \A i \in DOMAIN lines : lines[i] \notin {Begin, End} =>
                Marked(RemoveAt(lines, i), S) \/ NoMarks(RemoveAt(lines, i))
  <1>2. ASSUME NEW k \in DOMAIN lines, lines[k] \notin {Begin, End}
        PROVE  Marked(RemoveAt(lines, k), S) \/ NoMarks(RemoveAt(lines, k))
    <2>. DEFINE new == RemoveAt(lines, k)
                n == Len(lines)
    <2>a. n \in Nat /\ k \in 1..n /\ DOMAIN lines = 1..n
      OBVIOUS
    <2>. DEFINE p == SubSeq(lines, 1, k - 1)
                q == SubSeq(lines, k + 1, n)
    <2>c. p \in Seq(Lines) /\ Len(p) = k - 1 /\ \A i \in 1..(k - 1) : p[i] = lines[i]
      BY <2>a, SubSeqProperties
    <2>f. q \in Seq(Lines) /\ Len(q) = n - k /\ \A i \in 1..(n - k) : q[i] = lines[k + i]
      BY <2>a, SubSeqProperties
    <2>d. new = p \o q
      BY DEF RemoveAt
    <2>. HIDE DEF new, p, q
    <2>e. /\ new \in Seq(Lines) /\ Len(new) = n - 1
          /\ \A i \in 1..(k - 1) : new[i] = p[i]
          /\ \A i \in k..(n - 1) : new[i] = q[i - k + 1]
      <3>1. Len(new) = Len(p) + Len(q) /\ new \in Seq(Lines)
            /\ \A i \in 1..Len(new) : new[i] = IF i <= Len(p) THEN p[i] ELSE q[i - Len(p)]
        <4>1. p \in Seq(Lines) /\ q \in Seq(Lines)
          BY ONLY <2>c, <2>f
        <4>. QED
          BY ONLY <4>1, <2>d, ConcatProperties
      <3>3. Len(new) = n - 1 /\ Len(p) = k - 1 /\ k \in Int /\ n \in Int /\ 1 <= k /\ k <= n
        <4>1. Len(new) = Len(p) + Len(q) /\ Len(p) = k - 1 /\ Len(q) = n - k /\ k \in 1..n /\ n \in Nat
          BY <2>a, <2>c, <2>f, <3>1
        <4>. QED
          BY ONLY <4>1
      <3>2. \A i \in k..(n - 1) : ~(i <= Len(p)) /\ i \in 1..Len(new) /\ i - k + 1 = i - Len(p)
        BY ONLY <3>3
      <3>4. \A i \in k..(n - 1) : new[i] = q[i - k + 1]
        BY <3>1, <3>2
      <3>5. \A i \in 1..(k - 1) : i <= Len(p) /\ i \in 1..Len(new)
        BY ONLY <3>3
      <3>. QED
        BY <3>1, <3>3, <3>4, <3>5
    <2>b. /\ new \in Seq(Lines) /\ Len(new) = n - 1
          /\ \A i \in 1..(k - 1) : new[i] = lines[i]
          /\ \A i \in k..(n - 1) : new[i] = lines[i + 1]
      <3>1. \A i \in k..(n - 1) : i - k + 1 \in 1..(n - k) /\ k + (i - k + 1) = i + 1
        BY ONLY <2>a
      <3>2. \A i \in k..(n - 1) : new[i] = lines[i + 1]
        <4>. TAKE i \in k..(n - 1)
        <4>1. new[i] = q[i - k + 1]
          BY ONLY <2>e, i \in k..(n - 1)
        <4>2. q[i - k + 1] = lines[k + (i - k + 1)]
          BY ONLY <2>f, <3>1, i \in k..(n - 1)
        <4>. QED
          BY ONLY <3>1, <4>1, <4>2, i \in k..(n - 1)
      <3>3. \A i \in 1..(k - 1) : new[i] = lines[i]
        BY ONLY <2>c, <2>e
      <3>. QED
        BY ONLY <2>e, <3>2, <3>3
    <2>1. /\ DOMAIN lines = 1..n /\ n \in Nat /\ k \in 1..n
          /\ DOMAIN new = 1..(n - 1)
          /\ \A i \in 1..(k - 1) : new[i] = lines[i]
          /\ \A i \in k..(n - 1) : new[i] = lines[i + 1]
      <3>1. DOMAIN new = 1..(n - 1)
        BY <2>b
      <3>. QED
        BY <2>a, <2>b, <3>1
    <2>. HIDE DEF n
    <2>2. NoMarks(lines) => NoMarks(new)
      BY <2>1 DEF NoMarks
    <2>3. CASE Marked(lines, S)
      <3>1. PICK b, e \in DOMAIN lines :
                /\ b < e /\ lines[b] = Begin /\ lines[e] = End
                /\ \A i \in (b + 1)..(e - 1) : Inner(lines[i], S)
                /\ \A i \in DOMAIN lines \ (b..e) : lines[i] \in Own
        BY <2>3 DEF Marked
      <3>2. k < b \/ (b < k /\ k < e) \/ e < k
        BY <3>1, <1>2, <2>1
      <3>3. CASE e < k
        <4>1. /\ b \in DOMAIN new /\ e \in DOMAIN new /\ new[b] = Begin /\ new[e] = End
          BY <2>1, <3>1, <3>3
        <4>2. \A i \in (b + 1)..(e - 1) : Inner(new[i], S)
          BY <2>1, <3>1, <3>3
        <4>3. \A i \in DOMAIN new \ (b..e) : new[i] \in Own
          <5>. SUFFICES ASSUME NEW i \in 1..(n - 1), i \notin b..e PROVE new[i] \in Own
            BY <2>1
          <5>1. CASE i < k
            BY <5>1, <2>1, <3>1
          <5>2. CASE i >= k
            BY <5>2, <3>3, <2>1, <3>1
          <5>. QED
            BY <5>1, <5>2, <2>1
        <4>. QED
          BY <3>1, <4>1, <4>2, <4>3 DEF Marked, new
      <3>4. CASE b < k /\ k < e
        <4>1. /\ b \in DOMAIN new /\ e - 1 \in DOMAIN new /\ new[b] = Begin /\ new[e - 1] = End /\ b < e - 1
          <5>1. b < e - 1 /\ b \in 1..(k - 1) /\ e - 1 \in k..(n - 1) /\ (e - 1) + 1 = e
            BY <2>1, <3>1, <3>4
          <5>. QED
            BY <2>1, <3>1, <5>1
        <4>2. \A i \in (b + 1)..((e - 1) - 1) : Inner(new[i], S)
          <5>. SUFFICES ASSUME NEW i \in (b + 1)..((e - 1) - 1) PROVE Inner(new[i], S)
            OBVIOUS
          <5>1. CASE i < k
            BY <5>1, <2>1, <3>1, <3>4
          <5>2. CASE i >= k
            <6>1. i \in k..(n - 1) /\ i + 1 \in (b + 1)..(e - 1)
              BY <5>2, <2>1, <3>1, <3>4
            <6>. QED
              BY <6>1, <2>1, <3>1
          <5>. QED
            BY <5>1, <5>2, <2>1, <3>1
        <4>3. \A i \in DOMAIN new \ (b..(e - 1)) : new[i] \in Own
          <5>. SUFFICES ASSUME NEW i \in 1..(n - 1), i \notin b..(e - 1) PROVE new[i] \in Own
            BY <2>1
          <5>1. CASE i < b
            BY <5>1, <2>1, <3>1, <3>4
          <5>2. CASE i > e - 1
            <6>1. i \in k..(n - 1) /\ i + 1 \in DOMAIN lines \ (b..e)
              BY <5>2, <2>1, <3>1, <3>4
            <6>. QED
              BY <6>1, <2>1, <3>1
          <5>. QED
            BY <5>1, <5>2, <2>1, <3>1
        <4>. QED
          BY <4>1, <4>2, <4>3 DEF Marked, new
      <3>5. CASE k < b
        <4>1. /\ b - 1 \in DOMAIN new /\ e - 1 \in DOMAIN new /\ new[b - 1] = Begin /\ new[e - 1] = End /\ b - 1 < e - 1
          <5>1. b - 1 < e - 1 /\ b - 1 \in k..(n - 1) /\ e - 1 \in k..(n - 1) /\ (e - 1) + 1 = e /\ (b - 1) + 1 = b
            BY <2>1, <3>1, <3>5
          <5>. QED
            BY <2>1, <3>1, <5>1
        <4>2. \A i \in ((b - 1) + 1)..((e - 1) - 1) : Inner(new[i], S)
          <5>. SUFFICES ASSUME NEW i \in ((b - 1) + 1)..((e - 1) - 1) PROVE Inner(new[i], S)
            OBVIOUS
          <5>1. i \in k..(n - 1) /\ i + 1 \in (b + 1)..(e - 1)
            BY <2>1, <3>1, <3>5
          <5>. QED
            BY <5>1, <2>1, <3>1
        <4>3. \A i \in DOMAIN new \ ((b - 1)..(e - 1)) : new[i] \in Own
          <5>. SUFFICES ASSUME NEW i \in 1..(n - 1), i \notin (b - 1)..(e - 1) PROVE new[i] \in Own
            BY <2>1
          <5>1. CASE i < k
            <6>1. i \in 1..(k - 1) /\ i \in DOMAIN lines \ (b..e)
              BY <5>1, <2>1, <3>1, <3>5
            <6>. QED
              BY <6>1, <2>1, <3>1
          <5>2. CASE i >= k
            <6>1. i \in k..(n - 1) /\ i + 1 \in DOMAIN lines \ (b..e)
              BY <5>2, <2>1, <3>1, <3>5
            <6>. QED
              BY <6>1, <2>1, <3>1
          <5>. QED
            BY <5>1, <5>2, <2>1
        <4>. QED
          BY <4>1, <4>2, <4>3 DEF Marked, new
      <3>. QED
        BY <3>2, <3>3, <3>4, <3>5
    <2>. QED
      BY <2>2, <2>3 DEF new
  <1>. QED
    BY <1>2

LEMMA BlockIsMarked ==
  ASSUME NEW lines \in Seq(Lines), HasBlock(lines)
  PROVE  Marked(lines, {})
  <1>1. PICK b \in DOMAIN lines :
            /\ b + 2 <= Len(lines) /\ SubSeq(lines, b, b + 2) = Block
            /\ \A i \in DOMAIN lines \ (b..(b + 2)) : lines[i] \in Own
    BY DEF HasBlock
  <1>2. b \in 1..Len(lines) /\ Len(lines) \in Nat /\ DOMAIN lines = 1..Len(lines)
    OBVIOUS
  <1>3. \A i \in 1..3 : Block[i] = lines[b + i - 1]
    <2>1. \A i \in b..(b + 2) : lines[i] \in Lines
      BY <1>1, <1>2
    <2>2. \A i \in 1..((b + 2) - b + 1) : SubSeq(lines, b, b + 2)[i] = lines[b + i - 1]
      BY <1>2, <2>1, SubSeqProperties
    <2>3. (b + 2) - b + 1 = 3
      BY <1>2
    <2>. QED
      BY <1>1, <2>2, <2>3
  <1>4. lines[b] = Begin /\ lines[b + 1] = Gen /\ lines[b + 2] = End
    <2>1. b + 1 - 1 = b /\ b + 2 - 1 = b + 1 /\ b + 3 - 1 = b + 2
      BY <1>2
    <2>2. Block[1] = lines[b + 1 - 1] /\ Block[2] = lines[b + 2 - 1] /\ Block[3] = lines[b + 3 - 1]
      BY <1>3
    <2>. QED
      BY <2>1, <2>2, BlockOfLines
  <1>5. \A i \in (b + 1)..((b + 2) - 1) : Inner(lines[i], {})
    <2>1. \A i \in (b + 1)..((b + 2) - 1) : i = b + 1
      BY <1>2
    <2>. QED
      BY <1>4, <2>1 DEF Inner
  <1>6. b + 2 \in DOMAIN lines /\ b < b + 2
    BY <1>1, <1>2
  <1>. QED
    BY <1>1, <1>4, <1>5, <1>6 DEF Marked

\* The steps of the user, of install and of check, and the others' steps.
ArchStep ==
    \/ \E f \in SettingsFiles : EditSettings(f)
    \/ EditIgnores
    \/ \E force \in BOOLEAN : BeginInstall(force)
    \/ \E f \in DOMAIN Template : CopyTemplate(f)
    \/ CopySchema \/ WriteIgnores \/ ArchCrash
    \/ \E mode \in Modes : RunCheck(Code, mode)
    \/ /\ verdict' = None
       /\ UNCHANGED <<dir, settings, schema, ignores, install, installed, unmarked, inside>>
    \/ UNCHANGED archVars

LEMMA EditedIgnores ==
  ASSUME EditIgnores, ArchTypeOK
  PROVE  /\ \/ \E line \in Own \cup {Begin, End}, i \in 1..(Len(ignores) + 1) :
                  /\ ignores' = InsertAt(ignores, i, line)
                  /\ unmarked' = (unmarked \/ line \in {Begin, End})
                  /\ inside' = IF \E b \in 1..(i - 1), e \in i..Len(ignores) :
                                     ignores[b] = Begin /\ ignores[e] = End
                               THEN inside \cup {line} ELSE inside
            \/ \E i \in DOMAIN ignores :
                  /\ ignores' = RemoveAt(ignores, i)
                  /\ unmarked' = (unmarked \/ ignores[i] \in {Begin, End})
                  /\ inside' = inside
         /\ installed' = FALSE
         /\ dir' = dir /\ settings' = settings /\ schema' = schema
         /\ install' = install /\ verdict' = verdict
  BY Zenon DEF EditIgnores

\* Removing a line leaves lines.
LEMMA RemovedLines ==
  ASSUME NEW lines \in Seq(Lines), NEW k \in DOMAIN lines
  PROVE  RemoveAt(lines, k) \in Seq(Lines)
  <1>1. SubSeq(lines, 1, k - 1) \in Seq(Lines) /\ SubSeq(lines, k + 1, Len(lines)) \in Seq(Lines)
    BY SubSeqProperties
  <1>. QED
    BY <1>1 DEF RemoveAt

\* Putting one in leaves lines.
LEMMA InsertedLines ==
  ASSUME NEW lines \in Seq(Lines), NEW k \in 1..(Len(lines) + 1), NEW line \in Lines
  PROVE  InsertAt(lines, k, line) \in Seq(Lines)
  <1>1. SubSeq(lines, 1, k - 1) \in Seq(Lines) /\ SubSeq(lines, k, Len(lines)) \in Seq(Lines)
    BY SubSeqProperties
  <1>. QED
    BY <1>1 DEF InsertAt

LEMMA ArchTypeStep ==
  ASSUME ArchTypeOK, ArchStep
  PROVE  ArchTypeOK'
  <1>. USE DEF ArchTypeOK
  <1>1. ASSUME NEW f \in SettingsFiles, EditSettings(f) PROVE ArchTypeOK'
    <2>1. PICK d \in UserDocs[f] : settings' = [settings EXCEPT ![f] = d]
      BY <1>1 DEF EditSettings
    <2>2. d \in Documents
      BY DEF Documents
    <2>. QED
      BY <1>1, <2>1, <2>2 DEF EditSettings
  <1>2. ASSUME EditIgnores PROVE ArchTypeOK'
    <2>1. ignores' \in Seq(Lines)
      <3>1. CASE \E line \in Own \cup {Begin, End}, i \in 1..(Len(ignores) + 1) :
                    ignores' = InsertAt(ignores, i, line)
        <4>1. PICK line \in Own \cup {Begin, End}, i \in 1..(Len(ignores) + 1) :
                    ignores' = InsertAt(ignores, i, line)
          BY <3>1
        <4>2. line \in Lines
          BY DEF Lines
        <4>. QED
          BY <4>1, <4>2, InsertedLines
      <3>2. CASE \E i \in DOMAIN ignores : ignores' = RemoveAt(ignores, i)
        BY <3>2, RemovedLines
      <3>. QED
        BY <1>2, <3>1, <3>2, EditedIgnores
    <2>2. unmarked' \in BOOLEAN /\ inside' \in SUBSET Lines
      BY <1>2, EditedIgnores DEF Lines
    <2>. QED
      BY <1>2, <2>1, <2>2, EditedIgnores
  <1>3. ASSUME NEW force \in BOOLEAN, BeginInstall(force) PROVE ArchTypeOK'
    BY <1>3 DEF BeginInstall
  <1>4. ASSUME NEW f \in DOMAIN Template, CopyTemplate(f) PROVE ArchTypeOK'
    <2>1. Template[f] \in Documents /\ f \in SettingsFiles
      BY DocumentsAssumption DEF Documents
    <2>2. settings' \in [SettingsFiles -> Documents \cup {Absent, Torn}]
      BY <1>4, <2>1 DEF CopyTemplate
    <2>3. install' \in [todo : SUBSET DOMAIN Template, force : BOOLEAN, schema : BOOLEAN]
      BY <1>4 DEF CopyTemplate
    <2>. QED
      BY <1>4, <2>2, <2>3 DEF CopyTemplate
  <1>5. ASSUME CopySchema PROVE ArchTypeOK'
    BY <1>5 DEF CopySchema
  <1>6. ASSUME WriteIgnores PROVE ArchTypeOK'
    BY <1>6, BlockIsPut DEF WriteIgnores
  <1>7. ASSUME ArchCrash PROVE ArchTypeOK'
    <2>1. settings' \in [SettingsFiles -> Documents \cup {Absent, Torn}]
      BY <1>7 DEF ArchCrash
    <2>2. schema' \in {"absent", "partial", "whole"}
      BY <1>7 DEF ArchCrash
    <2>3. ignores' \in Seq(Lines)
      <3>1. ignores' = ignores \/ ignores' = << >>
        BY <1>7 DEF ArchCrash
      <3>2. << >> \in Seq(Lines)
        OBVIOUS
      <3>. QED
        BY <3>1, <3>2
    <2>. QED
      BY <1>7, <2>1, <2>2, <2>3 DEF ArchCrash
  <1>8. ASSUME NEW mode \in Modes, RunCheck(Code, mode) PROVE ArchTypeOK'
    BY <1>8 DEF RunCheck
  <1>9. ASSUME UNCHANGED <<dir, settings, schema, ignores, install, installed, unmarked, inside>> PROVE ArchTypeOK'
    BY <1>9
  <1>. QED
    BY <1>1, <1>2, <1>3, <1>4, <1>5, <1>6, <1>7, <1>8, <1>9 DEF ArchStep, archVars

LEMMA InstallSoFarStep ==
  ASSUME ArchTypeOK, InstallSoFar, ArchStep
  PROVE  InstallSoFar'
  <1>. USE DEF InstallSoFar
  <1>1. ASSUME NEW f \in SettingsFiles, EditSettings(f) PROVE InstallSoFar'
    <2>1. PICK d \in UserDocs[f] : settings' = [settings EXCEPT ![f] = d]
      BY <1>1 DEF EditSettings
    <2>2. d # Absent
      <3>1. d \in Documents
        BY DEF Documents
      <3>. QED
        BY <3>1, DocumentsAreSettings
    <2>3. \A g \in DOMAIN Template : settings[g] # Absent => settings'[g] # Absent
      BY <2>1, <2>2, DocumentsAssumption DEF ArchTypeOK
    <2>. QED
      BY <1>1, <2>3 DEF EditSettings
  <1>2. ASSUME EditIgnores PROVE InstallSoFar'
    BY <1>2, EditedIgnores
  <1>3. ASSUME NEW force \in BOOLEAN, BeginInstall(force) PROVE InstallSoFar'
    BY <1>3 DEF BeginInstall
  <1>4. ASSUME NEW f \in DOMAIN Template, CopyTemplate(f) PROVE InstallSoFar'
    <2>1. Template[f] # Absent
      <3>1. Template[f] \in Documents
        BY DEF Documents
      <3>. QED
        BY <3>1, DocumentsAreSettings
    <2>2. \A g \in DOMAIN Template : g = f \/ settings[g] # Absent => settings'[g] # Absent
      BY <1>4, <2>1, DocumentsAssumption DEF CopyTemplate, ArchTypeOK
    <2>3. install'.todo = install.todo \ {f} /\ install'.schema = install.schema
      BY <1>4 DEF CopyTemplate, ArchTypeOK
    <2>4. \A g \in DOMAIN Template \ install'.todo : settings'[g] # Absent
      BY <1>4, <2>2, <2>3 DEF CopyTemplate
    <2>. QED
      BY <1>4, <2>2, <2>3, <2>4 DEF CopyTemplate
  <1>5. ASSUME CopySchema PROVE InstallSoFar'
    <2>1. install'.todo = install.todo /\ schema' # "absent"
      BY <1>5 DEF CopySchema, ArchTypeOK
    <2>. QED
      BY <1>5, <2>1 DEF CopySchema
  <1>6. ASSUME WriteIgnores PROVE InstallSoFar'
    BY <1>6 DEF WriteIgnores
  <1>7. ASSUME ArchCrash PROVE InstallSoFar'
    BY <1>7 DEF ArchCrash
  <1>8. ASSUME NEW mode \in Modes, RunCheck(Code, mode) PROVE InstallSoFar'
    BY <1>8 DEF RunCheck
  <1>9. ASSUME UNCHANGED <<dir, settings, schema, ignores, install, installed, unmarked, inside>>,
               verdict' = None \/ verdict' = verdict
        PROVE  InstallSoFar'
    BY <1>9
  <1>. QED
    BY <1>1, <1>2, <1>3, <1>4, <1>5, <1>6, <1>7, <1>8, <1>9 DEF ArchStep, archVars

LEMMA MarksKeptStep ==
  ASSUME ArchTypeOK, InstallSoFar, MarksKept, ArchStep
  PROVE  MarksKept'
  <1>1. ASSUME EditIgnores PROVE MarksKept'
    <2>1. ignores \in Seq(Lines)
      BY DEF ArchTypeOK
    <2>2. ~unmarked' => Marked(ignores', Own \cap inside') \/ NoMarks(ignores')
      <3>1. ASSUME NEW line \in Own \cup {Begin, End}, NEW i \in 1..(Len(ignores) + 1),
                   ignores' = InsertAt(ignores, i, line),
                   unmarked' = (unmarked \/ line \in {Begin, End}),
                   inside' = IF \E b \in 1..(i - 1), e \in i..Len(ignores) :
                                   ignores[b] = Begin /\ ignores[e] = End
                             THEN inside \cup {line} ELSE inside,
                   ~unmarked'
            PROVE  Marked(ignores', Own \cap inside') \/ NoMarks(ignores')
        <4>1. line \in Own /\ ~unmarked
          BY <3>1
        <4>2. Own \cap inside \subseteq Own \cap inside'
          BY <3>1
        <4>3. (\E b \in 1..(i - 1), e \in i..Len(ignores) : ignores[b] = Begin /\ ignores[e] = End)
                => line \in Own \cap inside'
          BY <3>1, <4>1
        <4>4. Marked(ignores, Own \cap inside) \/ NoMarks(ignores)
          BY <4>1 DEF MarksKept
        <4>. QED
          BY <2>1, <3>1, <4>1, <4>2, <4>3, <4>4, InsertedMarks
      <3>2. ASSUME NEW i \in DOMAIN ignores, ignores' = RemoveAt(ignores, i),
                   unmarked' = (unmarked \/ ignores[i] \in {Begin, End}), inside' = inside, ~unmarked'
            PROVE  Marked(ignores', Own \cap inside') \/ NoMarks(ignores')
        BY <3>2, <2>1, RemovedMarks DEF MarksKept
      <3>. QED
        BY <3>1, <3>2, <1>1, EditedIgnores
    <2>. QED
      BY <1>1, <2>2, EditedIgnores DEF MarksKept
  <1>2. ASSUME WriteIgnores PROVE MarksKept'
    <2>1. /\ ignores \in Seq(Lines) /\ ignores' = EnsureGitignorePatterns(ignores)
          /\ unmarked' = unmarked /\ inside' = inside
      BY <1>2 DEF WriteIgnores, ArchTypeOK
    <2>2. ~unmarked' => HasBlock(ignores')
      BY <2>1, BlockIsPut DEF MarksKept
    <2>3. ~unmarked' => Marked(ignores', Own \cap inside')
      <3>1. ~unmarked' => Marked(ignores', {})
        BY <2>1, <2>2, BlockIsPut, BlockIsMarked
      <3>. QED
        BY <3>1 DEF Marked, Inner
    <2>. QED
      BY <2>2, <2>3 DEF MarksKept
  <1>3. ASSUME ArchCrash PROVE MarksKept'
    <2>1. ignores' = ignores \/ ignores' = << >>
      BY <1>3 DEF ArchCrash
    <2>2. NoMarks(<< >>)
      BY DEF NoMarks
    <2>3. unmarked' = unmarked /\ inside' = inside /\ ~installed'
      BY <1>3 DEF ArchCrash, InstallSoFar
    <2>. QED
      BY <2>1, <2>2, <2>3 DEF MarksKept
  <1>4. ASSUME ignores' = ignores, unmarked' = unmarked, inside' = inside, installed' = installed \/ installed' = FALSE
        PROVE  MarksKept'
    BY <1>4 DEF MarksKept
  <1>5. ASSUME NEW f \in SettingsFiles, EditSettings(f) PROVE MarksKept'
    BY <1>4, <1>5 DEF EditSettings
  <1>6. ASSUME NEW force \in BOOLEAN, BeginInstall(force) PROVE MarksKept'
    BY <1>4, <1>6 DEF BeginInstall
  <1>7. ASSUME NEW f \in DOMAIN Template, CopyTemplate(f) PROVE MarksKept'
    BY <1>4, <1>7 DEF CopyTemplate
  <1>8. ASSUME CopySchema PROVE MarksKept'
    BY <1>4, <1>8 DEF CopySchema
  <1>9. ASSUME NEW mode \in Modes, RunCheck(Code, mode) PROVE MarksKept'
    BY <1>4, <1>9 DEF RunCheck
  <1>. QED
    BY <1>1, <1>2, <1>3, <1>4, <1>5, <1>6, <1>7, <1>8, <1>9 DEF ArchStep, archVars


-----------------------------------------------------------------------------
(* What a check concludes *)

Bad == {"critical", "error"}
AccessBad(f) ==
    \/ f["internet"] \/ f["publiclyReachable"] \/ f["embeddedInRepo"] \/ f["repoStorage"]
    \/ ~f["enabled"] \/ f["noneMechanism"] \/ f["authzNone"] \/ ~f["enforcedEverywhere"]
    \/ f["wildcardOrigin"] /\ f["allowCredentials"]
BoundaryBad(e, f) ==
    \/ f["publicBuckets"] \/ f["frontendReachesDatabase"] \/ f["publicReachesAdmin"]
    \/ e = Production /\ (~f["allowlistEnforced"] \/ f["overlyPermissiveIam"] \/ f["debugEnabledInProduction"])

LEMMA AccessRulesFail ==
  ASSUME NEW f \in [DOMAIN Defaults -> BOOLEAN]
  PROVE  (\E r \in AccessRules(f) : r[2] \in Bad) <=> AccessBad(f)
  <1>1. \A r : r \in AccessRules(f) /\ r[2] \in Bad <=>
            \/ r = <<"ARCH-001", "critical">> /\ (f.internet \/ f.publiclyReachable)
            \/ r = <<"ARCH-002", "critical">> /\ (f.embeddedInRepo \/ f.repoStorage)
            \/ r = <<"ARCH-003", "error">> /\ (~f.enabled \/ f.noneMechanism)
            \/ r = <<"ARCH-004", "error">> /\ (f.authzNone \/ ~f.enforcedEverywhere)
            \/ r = <<"ARCH-005", "critical">> /\ (f.wildcardOrigin /\ f.allowCredentials)
    <2>1. <<"ARCH-001", "critical">> \in AccessRules(f) <=> f.internet \/ f.publiclyReachable
      BY DEF AccessRules
    <2>2. <<"ARCH-002", "critical">> \in AccessRules(f) <=> f.embeddedInRepo \/ f.repoStorage
      BY DEF AccessRules
    <2>3. <<"ARCH-003", "error">> \in AccessRules(f) <=> ~f.enabled \/ f.noneMechanism
      BY DEF AccessRules
    <2>4. <<"ARCH-004", "error">> \in AccessRules(f) <=> f.authzNone \/ ~f.enforcedEverywhere
      BY DEF AccessRules
    <2>5. <<"ARCH-005", "critical">> \in AccessRules(f) <=> f.wildcardOrigin /\ f.allowCredentials
      BY DEF AccessRules
    <2>6. \A r \in AccessRules(f) :
              r \in {<<"ARCH-001", "critical">>, <<"ARCH-002", "critical">>, <<"ARCH-003", "error">>,
                     <<"ARCH-004", "error">>, <<"ARCH-005", "critical">>, <<"ARCH-006", "warning">>}
      BY DEF AccessRules
    <2>. QED
      BY <2>1, <2>2, <2>3, <2>4, <2>5, <2>6 DEF Bad
  <1>. QED
    BY <1>1 DEF AccessBad

LEMMA BoundaryRulesFail ==
  ASSUME NEW e, NEW f \in [DOMAIN Defaults -> BOOLEAN]
  PROVE  (\E r \in BoundaryRules(e, f) : r[2] \in Bad) <=> BoundaryBad(e, f)
  <1>1. \A r : r \in BoundaryRules(e, f) /\ r[2] \in Bad <=>
            \/ r = <<"ARCH-007", "error">> /\ f.publicBuckets
            \/ r = <<"ARCH-008", "critical">> /\ f.frontendReachesDatabase
            \/ r = <<"ARCH-009", "error">> /\ f.publicReachesAdmin
            \/ r = <<"ARCH-012", "error">> /\ e = Production /\ (~f.allowlistEnforced \/ f.overlyPermissiveIam)
            \/ r = <<"ARCH-013", "error">> /\ f.debugEnabledInProduction /\ e = Production
    <2>1. <<"ARCH-007", "error">> \in BoundaryRules(e, f) <=> f.publicBuckets
      BY DEF BoundaryRules
    <2>2. <<"ARCH-008", "critical">> \in BoundaryRules(e, f) <=> f.frontendReachesDatabase
      BY DEF BoundaryRules
    <2>3. <<"ARCH-009", "error">> \in BoundaryRules(e, f) <=> f.publicReachesAdmin
      BY DEF BoundaryRules
    <2>4. <<"ARCH-013", "error">> \in BoundaryRules(e, f) <=> f.debugEnabledInProduction /\ e = Production
      BY DEF BoundaryRules
    <2>5. <<"ARCH-012", "error">> \in BoundaryRules(e, f) <=>
              e = Production /\ (~f.allowlistEnforced \/ f.overlyPermissiveIam)
      BY DEF BoundaryRules
    <2>6. \A r \in BoundaryRules(e, f) : r[2] \in Bad =>
              r \in {<<"ARCH-007", "error">>, <<"ARCH-008", "critical">>, <<"ARCH-009", "error">>,
                     <<"ARCH-012", "error">>, <<"ARCH-013", "error">>}
      BY DEF BoundaryRules, Bad
    <2>. QED
      BY <2>1, <2>2, <2>3, <2>4, <2>5, <2>6 DEF Bad
  <1>. QED
    BY <1>1 DEF BoundaryBad

\* Keys that are taken not to hold where nothing is said, and those that are.
Off == {"internet", "publiclyReachable", "noneMechanism", "authzNone", "repoStorage", "embeddedInRepo",
        "allowCredentials", "wildcardOrigin", "publicBuckets", "debugEnabledInProduction",
        "frontendReachesDatabase", "publicReachesAdmin", "allowlistEnforced", "overlyPermissiveIam"}
On == {"enabled", "enforcedEverywhere"}

LEMMA DefaultsAre ==
  /\ Off \cup On \subseteq DOMAIN Defaults
  /\ \A k \in Off : Defaults[k] = FALSE
  /\ \A k \in On : Defaults[k] = TRUE
  /\ \A k \in DOMAIN Defaults : Defaults[k] \in BOOLEAN
  <1>1. Off \cup On \subseteq DOMAIN Defaults
    BY DEF Off, On, Defaults
  <1>2. \A k \in Off : Defaults[k] = FALSE
    BY DEF Off, Defaults
  <1>3. \A k \in On : Defaults[k] = TRUE
    BY DEF On, Defaults
  <1>4. \A k \in DOMAIN Defaults : Defaults[k] \in BOOLEAN
    <2>1. DOMAIN Defaults = Off \cup On \cup {"ingressPublic", "defaultDenyBetweenServices",
                                             "separateAccounts", "sharedDatabase"}
      BY DEF Off, On, Defaults
    <2>2. \A k \in {"ingressPublic", "defaultDenyBetweenServices", "separateAccounts", "sharedDatabase"} :
              Defaults[k] \in BOOLEAN
      <3>1. Defaults["ingressPublic"] = TRUE /\ Defaults["defaultDenyBetweenServices"] = FALSE
        BY DEF Defaults
      <3>2. Defaults["separateAccounts"] = FALSE /\ Defaults["sharedDatabase"] = FALSE
        BY DEF Defaults
      <3>. QED
        BY <3>1, <3>2
    <2>. QED
      BY <1>2, <1>3, <2>1, <2>2
  <1>. QED
    BY <1>1, <1>2, <1>3, <1>4

\* What a section says of the keys is what is taken to hold.
LEMMA FactsAre ==
  ASSUME NEW m
  PROVE  /\ envSectionToFacts(m) \in [DOMAIN Defaults -> BOOLEAN]
         /\ \A k \in Off : envSectionToFacts(m)[k] <=> k \in DOMAIN m /\ m[k] = TRUE
         /\ \A k \in On : ~envSectionToFacts(m)[k] <=> k \in DOMAIN m /\ m[k] = FALSE
  <1>. DEFINE f == envSectionToFacts(m)
  <1>1. /\ f = [k \in DOMAIN Defaults |-> f[k]]
        /\ \A k \in DOMAIN Defaults :
              f[k] = IF k \in DOMAIN m /\ m[k] \in BOOLEAN THEN m[k] ELSE Defaults[k]
    BY DEF envSectionToFacts, asBool
  <1>2. \A k \in DOMAIN Defaults : f[k] \in BOOLEAN
    BY <1>1, DefaultsAre
  <1>. HIDE DEF f
  <1>3. f \in [DOMAIN Defaults -> BOOLEAN]
    BY <1>1, <1>2
  <1>4. ASSUME NEW k \in Off
        PROVE  f[k] <=> k \in DOMAIN m /\ m[k] = TRUE
    <2>1. f[k] = IF k \in DOMAIN m /\ m[k] \in BOOLEAN THEN m[k] ELSE FALSE
      BY <1>1, DefaultsAre
    <2>. QED
      BY <2>1
  <1>5. ASSUME NEW k \in On
        PROVE  ~f[k] <=> k \in DOMAIN m /\ m[k] = FALSE
    <2>1. f[k] = IF k \in DOMAIN m /\ m[k] \in BOOLEAN THEN m[k] ELSE TRUE
      BY <1>1, DefaultsAre
    <2>. QED
      BY <2>1
  <1>. QED
    BY <1>3, <1>4, <1>5 DEF f

LEMMA OneAfterAnother ==
  ASSUME NEW l, NEW g
  PROVE  DOMAIN (<<l>> \o <<g>>) = 1..2 /\ (<<l>> \o <<g>>)[1] = l /\ (<<l>> \o <<g>>)[2] = g
  <1>. DEFINE S == {l, g}
              L == <<l>>
              G == <<g>>
  <1>1. L \in Seq(S) /\ G \in Seq(S) /\ Len(L) = 1 /\ Len(G) = 1 /\ L[1] = l /\ G[1] = g
    OBVIOUS
  <1>. HIDE DEF S, L, G
  <1>2. /\ L \o G \in Seq(S) /\ Len(L \o G) = 2
        /\ \A i \in 1..2 : (L \o G)[i] = IF i <= 1 THEN L[i] ELSE G[i - 1]
    <2>1. /\ L \o G \in Seq(S) /\ Len(L \o G) = Len(L) + Len(G)
          /\ \A i \in 1..Len(L) + Len(G) : (L \o G)[i] = IF i <= Len(L) THEN L[i] ELSE G[i - Len(L)]
      BY ONLY <1>1, ConcatProperties
    <2>. QED
      BY <1>1, <2>1
  <1>3. DOMAIN (L \o G) = 1..2 /\ (L \o G)[1] = L[1] /\ (L \o G)[2] = G[1]
    BY <1>2
  <1>. QED
    BY <1>1, <1>3 DEF L, G

\* What is said of an environment that is spoken of is what is merged for it.
LEMMA SaidIsMerged ==
  ASSUME NEW e \in Envs, Spoken(e), NEW k, NEW v,
         NEW m, m = mergeEnv(GlobalForEnv(settings, e), LocalSection(settings, e))
  PROVE  Says(e, k, v) <=> k \in DOMAIN m /\ m[k] = v
  <1>. DEFINE g == GlobalForEnv(settings, e)
              l == LocalSection(settings, e)
              envs == GlobalEnvs(settings)
  <1>1. /\ k \in DOMAIN m <=> k \in DOMAIN g \/ k \in DOMAIN l
        /\ k \in DOMAIN m => m[k] = IF k \in DOMAIN l THEN l[k] ELSE g[k]
    BY DEF mergeEnv
  <1>2. CASE IsDoc(settings[e]) /\ (e \in DOMAIN envs \/ Default \in DOMAIN envs)
    <2>1. Sayings(e) = <<l>> \o <<g>>
      BY <1>2 DEF Sayings, LocalSection, GlobalForEnv
    <2>. HIDE DEF l, g
    <2>2. DOMAIN Sayings(e) = 1..2 /\ Sayings(e)[1] = l /\ Sayings(e)[2] = g
      <3>1. DOMAIN (<<l>> \o <<g>>) = 1..2 /\ (<<l>> \o <<g>>)[1] = l /\ (<<l>> \o <<g>>)[2] = g
        BY ONLY OneAfterAnother, Zenon
      <3>. QED
        BY <2>1, <3>1, Zenon
    <2>3. Says(e, k, v) <=> \/ k \in DOMAIN l /\ l[k] = v
                            \/ k \notin DOMAIN l /\ k \in DOMAIN g /\ g[k] = v
      BY <2>2 DEF Says
    <2>. QED
      BY <1>1, <2>3
  <1>3. CASE IsDoc(settings[e]) /\ e \notin DOMAIN envs /\ Default \notin DOMAIN envs
    <2>1. Sayings(e) = <<l>> /\ g = NoSection
      BY <1>3 DEF Sayings, LocalSection, GlobalForEnv
    <2>2. DOMAIN g = {}
      BY <2>1 DEF NoSection
    <2>. HIDE DEF l, g
    <2>3. DOMAIN Sayings(e) = 1..1 /\ Sayings(e)[1] = l
      BY <2>1
    <2>4. Says(e, k, v) <=> k \in DOMAIN l /\ l[k] = v
      BY <2>3 DEF Says
    <2>. QED
      BY <1>1, <2>2, <2>4
  <1>4. CASE ~IsDoc(settings[e])
    <2>1. e \in DOMAIN envs
      BY <1>4 DEF Spoken
    <2>2. Sayings(e) = <<g>> /\ l = g
      BY <1>4, <2>1 DEF Sayings, LocalSection, GlobalForEnv
    <2>. HIDE DEF l, g
    <2>3. DOMAIN Sayings(e) = 1..1 /\ Sayings(e)[1] = g
      BY <2>2
    <2>4. Says(e, k, v) <=> k \in DOMAIN g /\ g[k] = v
      BY <2>3 DEF Says
    <2>. QED
      BY <1>1, <2>2, <2>4
  <1>. QED
    BY <1>2, <1>3, <1>4

\* An environment that is spoken of has a finding that fails the check just
\* if something unsafe is said of it.
LEMMA UnsafeIsFound ==
  ASSUME NEW e \in Envs, Spoken(e), NEW f, f = buildFacts(settings, e)
  PROVE  SaysUnsafe(e) <=> AccessBad(f) \/ BoundaryBad(e, f)
  <1>. DEFINE m == mergeEnv(GlobalForEnv(settings, e), LocalSection(settings, e))
  <1>1. \A k \in Off : f[k] <=> Says(e, k, TRUE)
    <2>1. \A k \in Off : f[k] <=> k \in DOMAIN m /\ m[k] = TRUE
      BY FactsAre DEF buildFacts
    <2>2. \A k : Says(e, k, TRUE) <=> k \in DOMAIN m /\ m[k] = TRUE
      BY SaidIsMerged
    <2>. QED
      BY <2>1, <2>2
  <1>2. \A k \in On : ~f[k] <=> Says(e, k, FALSE)
    <2>1. \A k \in On : ~f[k] <=> k \in DOMAIN m /\ m[k] = FALSE
      BY FactsAre DEF buildFacts
    <2>2. \A k : Says(e, k, FALSE) <=> k \in DOMAIN m /\ m[k] = FALSE
      BY SaidIsMerged
    <2>. QED
      BY <2>1, <2>2
  <1>. HIDE DEF m
  <1>3. (\E u \in Unsafe : Says(e, u[1], u[2])) <=>
            \/ Says(e, "internet", TRUE) \/ Says(e, "publiclyReachable", TRUE)
            \/ Says(e, "enabled", FALSE) \/ Says(e, "noneMechanism", TRUE)
            \/ Says(e, "authzNone", TRUE) \/ Says(e, "enforcedEverywhere", FALSE)
            \/ Says(e, "repoStorage", TRUE) \/ Says(e, "embeddedInRepo", TRUE)
            \/ Says(e, "publicBuckets", TRUE) \/ Says(e, "frontendReachesDatabase", TRUE)
            \/ Says(e, "publicReachesAdmin", TRUE)
    BY DEF Unsafe
  <1>4. (\E u \in UnsafeInProduction : Says(e, u[1], u[2])) <=>
            Says(e, "debugEnabledInProduction", TRUE) \/ Says(e, "overlyPermissiveIam", TRUE)
    BY DEF UnsafeInProduction
  <1>5. AccessBad(f) \/ BoundaryBad(e, f) <=>
            \/ Says(e, "internet", TRUE) \/ Says(e, "publiclyReachable", TRUE)
            \/ Says(e, "enabled", FALSE) \/ Says(e, "noneMechanism", TRUE)
            \/ Says(e, "authzNone", TRUE) \/ Says(e, "enforcedEverywhere", FALSE)
            \/ Says(e, "repoStorage", TRUE) \/ Says(e, "embeddedInRepo", TRUE)
            \/ Says(e, "publicBuckets", TRUE) \/ Says(e, "frontendReachesDatabase", TRUE)
            \/ Says(e, "publicReachesAdmin", TRUE)
            \/ Says(e, "wildcardOrigin", TRUE) /\ Says(e, "allowCredentials", TRUE)
            \/ e = Production /\ \/ ~Says(e, "allowlistEnforced", TRUE)
                                 \/ Says(e, "overlyPermissiveIam", TRUE)
                                 \/ Says(e, "debugEnabledInProduction", TRUE)
    BY <1>1, <1>2 DEF AccessBad, BoundaryBad, Off, On
  <1>. QED
    BY <1>3, <1>4, <1>5 DEF SaysUnsafe

LEMMA FoundInEnvironments ==
  (\E r \in runSettingsChecks(settings) : r[2] \in Bad) <=>
      \E e \in PerEnv(settings) : AccessBad(buildFacts(settings, e)) \/ BoundaryBad(e, buildFacts(settings, e))
  <1>1. ASSUME NEW e
        PROVE  (\E r \in AccessRules(buildFacts(settings, e)) \cup BoundaryRules(e, buildFacts(settings, e)) :
                    r[2] \in Bad)
               <=> AccessBad(buildFacts(settings, e)) \/ BoundaryBad(e, buildFacts(settings, e))
    <2>. DEFINE f == buildFacts(settings, e)
    <2>1. f \in [DOMAIN Defaults -> BOOLEAN]
      BY FactsAre DEF buildFacts
    <2>. HIDE DEF f
    <2>2. (\E r \in AccessRules(f) : r[2] \in Bad) <=> AccessBad(f)
      BY <2>1, AccessRulesFail
    <2>3. (\E r \in BoundaryRules(e, f) : r[2] \in Bad) <=> BoundaryBad(e, f)
      BY <2>1, BoundaryRulesFail
    <2>4. (\E r \in AccessRules(f) \cup BoundaryRules(e, f) : r[2] \in Bad) <=> AccessBad(f) \/ BoundaryBad(e, f)
      BY <2>2, <2>3
    <2>. QED
      BY <2>4 DEF f
  <1>. DEFINE Found(e) == AccessRules(buildFacts(settings, e)) \cup BoundaryRules(e, buildFacts(settings, e))
  <1>2. \A r : r \in runSettingsChecks(settings) <=> \E e \in PerEnv(settings) : r \in Found(e)
    <2>1. runSettingsChecks(settings) = UNION {Found(e) : e \in PerEnv(settings)}
      BY DEF runSettingsChecks
    <2>. HIDE DEF Found
    <2>. QED
      BY <2>1
  <1>3. \A e : (\E r \in Found(e) : r[2] \in Bad)
               <=> AccessBad(buildFacts(settings, e)) \/ BoundaryBad(e, buildFacts(settings, e))
    BY <1>1
  <1>. HIDE DEF Found
  <1>. QED
    BY <1>2, <1>3

\* The environments that are checked are those that are spoken of, or the
\* default, of which nothing is said.
LEMMA CheckedAreSpoken ==
  ASSUME ArchTypeOK
  PROVE  /\ \A e \in Envs : Spoken(e) => e \in PerEnv(settings)
         /\ \A e \in PerEnv(settings) :
                \/ e \in Envs /\ Spoken(e)
                \/ e = Default /\ buildFacts(settings, e) = envSectionToFacts(NoSection)
  <1>1. DOMAIN GlobalEnvs(settings) \subseteq Envs
    <2>1. CASE IsDoc(settings[Global])
      <3>1. settings[Global] \in Documents
        BY <2>1 DEF ArchTypeOK, IsDoc, SettingsFiles
      <3>2. IsSettings(settings[Global])
        BY <3>1, DocumentsAreSettings
      <3>. QED
        BY <2>1, <3>2 DEF IsSettings, GlobalEnvs
    <2>2. CASE ~IsDoc(settings[Global])
      BY <2>2 DEF GlobalEnvs, NoSection
    <2>. QED
      BY <2>1, <2>2
  <1>2. ASSUME NEW e \in Envs, Spoken(e)
        PROVE  e \in PerEnv(settings)
    <2>1. CASE IsDoc(settings[e])
      BY <2>1 DEF PerEnv
    <2>2. CASE ~IsDoc(settings[e])
      <3>1. e \in DOMAIN GlobalEnvs(settings) /\ {o \in Envs : IsDoc(settings[o])} = {}
        BY <1>2, <2>2 DEF Spoken
      <3>. QED
        BY <3>1 DEF PerEnv
    <2>. QED
      BY <2>1, <2>2
  <1>3. ASSUME NEW e \in PerEnv(settings)
        PROVE  \/ e \in Envs /\ Spoken(e)
               \/ e = Default /\ buildFacts(settings, e) = envSectionToFacts(NoSection)
    <2>. DEFINE own == {o \in Envs : IsDoc(settings[o])}
    <2>1. CASE own # {}
      BY <2>1 DEF PerEnv, Spoken
    <2>2. CASE own = {} /\ DOMAIN GlobalEnvs(settings) # {}
      <3>1. e \in DOMAIN GlobalEnvs(settings)
        BY <2>2 DEF PerEnv
      <3>. QED
        BY <3>1, <2>2, <1>1 DEF Spoken
    <2>3. CASE own = {} /\ DOMAIN GlobalEnvs(settings) = {}
      <3>1. e = Default /\ ~IsDoc(settings[e])
        BY <2>3, EnvsAssumption DEF PerEnv
      <3>2. LocalSection(settings, e) = NoSection
        BY <2>3, <3>1 DEF LocalSection
      <3>3. GlobalForEnv(settings, e) = NoSection
        BY <2>3, <3>1 DEF GlobalForEnv
      <3>4. mergeEnv(NoSection, NoSection) = NoSection
        BY DEF mergeEnv, NoSection
      <3>. QED
        BY <3>1, <3>2, <3>3, <3>4 DEF buildFacts
    <2>. QED
      BY <2>1, <2>2, <2>3
  <1>. QED
    BY <1>2, <1>3

\* Nothing that fails a check is found where nothing is said.
LEMMA NothingSaid ==
  LET f == envSectionToFacts(NoSection) IN ~AccessBad(f) /\ ~BoundaryBad(Default, f)
  <1>. DEFINE f == envSectionToFacts(NoSection)
  <1>1. DOMAIN NoSection = {}
    BY DEF NoSection
  <1>2. (\A k \in Off : ~f[k]) /\ (\A k \in On : f[k])
    BY <1>1, FactsAre
  <1>. HIDE DEF f
  <1>3. ~AccessBad(f)
    BY <1>2 DEF AccessBad, Off, On
  <1>4. ~BoundaryBad(Default, f)
    BY <1>2, EnvsAssumption DEF BoundaryBad, Off, On
  <1>. QED
    BY <1>3, <1>4 DEF f

LEMMA CheckEnds ==
  ASSUME NEW code, NEW mode
  PROVE  /\ Check(dir, settings, code, mode) \in {0, 1} =>
               dir /\ \A f \in SettingsFiles : ~IsInvalid(settings[f])
         /\ Check(dir, settings, code, mode) = 0 => ~\E r \in runSettingsChecks(settings) : r[2] \in Bad
         /\ Check(dir, settings, code, mode) = 1 /\ mode = "off" =>
               \E r \in runSettingsChecks(settings) : r[2] \in Bad
  <1>. DEFINE invalid == ~dir \/ \E f \in SettingsFiles : IsInvalid(settings[f])
              fails == shouldFail(runSettingsChecks(settings) \cup Evidence(code, mode))
  <1>1. fails <=> \E r \in runSettingsChecks(settings) \cup Evidence(code, mode) : r[2] \in Bad
    BY DEF shouldFail, Bad
  <1>2. mode = "off" => Evidence(code, mode) = {}
    BY DEF Evidence
  <1>3. Check(dir, settings, code, mode) = IF invalid THEN 2 ELSE IF fails THEN 1 ELSE 0
    BY DEF Check
  <1>. HIDE DEF fails
  <1>. QED
    BY <1>1, <1>2, <1>3

\* Where nothing is invalid, a value of the wrong type is said by none but
\* what validation overlooks.
LEMMA JunkIsOverlooked ==
  ASSUME \A f \in SettingsFiles : ~IsInvalid(settings[f]),
         NEW e \in Envs, NEW k \in Validated, Says(e, k, Junk)
  PROVE  Overlooked(e, k)
  <1>1. ASSUME NEW f \in SettingsFiles, IsDoc(settings[f]), NEW section \in Sections(settings[f]),
               k \in DOMAIN section
        PROVE  section[k] # Junk
    BY <1>1 DEF IsInvalid, SectionErrors, IsDoc
  <1>2. \A o \in DOMAIN GlobalEnvs(settings) :
            k \in DOMAIN GlobalEnvs(settings)[o] => GlobalEnvs(settings)[o][k] # Junk
    <2>1. CASE IsDoc(settings[Global])
      <3>1. Global \in SettingsFiles /\ GlobalEnvs(settings) = settings[Global].envs
        BY <2>1 DEF SettingsFiles, GlobalEnvs
      <3>2. \A o \in DOMAIN settings[Global].envs : settings[Global].envs[o] \in Sections(settings[Global])
        BY DEF Sections
      <3>. QED
        BY <1>1, <2>1, <3>1, <3>2
    <2>2. CASE ~IsDoc(settings[Global])
      BY <2>2 DEF GlobalEnvs, NoSection
    <2>. QED
      BY <2>1, <2>2
  <1>3. PICK i \in DOMAIN Sayings(e) : k \in DOMAIN Sayings(e)[i] /\ Sayings(e)[i][k] = Junk
    BY DEF Says
  <1>. DEFINE local == IF e \in DOMAIN settings[e].envs THEN settings[e].envs[e] ELSE settings[e].flat
              envs == GlobalEnvs(settings)
  <1>4. \/ IsDoc(settings[e]) /\ Sayings(e)[i] = local
        \/ e \in DOMAIN envs /\ Sayings(e)[i] = envs[e]
        \/ Default \in DOMAIN envs /\ Sayings(e)[i] = envs[Default]
    <2>. DEFINE L == IF IsDoc(settings[e]) THEN <<local>> ELSE << >>
                G == IF e \in DOMAIN envs THEN <<envs[e]>>
                     ELSE IF Default \in DOMAIN envs THEN <<envs[Default]>> ELSE << >>
                Of(s) == \/ IsDoc(settings[e]) /\ s = local
                         \/ e \in DOMAIN envs /\ s = envs[e]
                         \/ Default \in DOMAIN envs /\ s = envs[Default]
    <2>1. Sayings(e) = L \o G
      BY DEF Sayings
    <2>. DEFINE S == {s \in {local, envs[e], envs[Default]} : Of(s)}
    <2>2. L \in Seq(S)
      <3>1. IsDoc(settings[e]) => local \in S
        OBVIOUS
      <3>. HIDE DEF S, Of, local
      <3>. QED
        BY <3>1
    <2>3. G \in Seq(S)
      <3>1. /\ e \in DOMAIN envs => envs[e] \in S
            /\ Default \in DOMAIN envs => envs[Default] \in S
        OBVIOUS
      <3>. HIDE DEF S, Of, envs
      <3>. QED
        BY <3>1
    <2>4. \A j \in DOMAIN (L \o G) : Of((L \o G)[j])
      <3>2. L \o G \in Seq(S)
        BY <2>2, <2>3, ConcatProperties
      <3>3. \A s \in S : Of(s)
        OBVIOUS
      <3>. HIDE DEF S, Of, L, G
      <3>. QED
        BY <3>2, <3>3
    <2>. HIDE DEF L, G
    <2>. QED
      BY <1>3, <2>1, <2>4
  <1>5. IsDoc(settings[e]) /\ Sayings(e)[i] = local
    BY <1>2, <1>3, <1>4
  <1>6. e \in SettingsFiles
    BY DEF SettingsFiles
  <1>7. local \notin Sections(settings[e])
    BY <1>1, <1>3, <1>5, <1>6
  <1>8. DOMAIN settings[e].envs # {} /\ e \notin DOMAIN settings[e].envs
    BY <1>7 DEF Sections
  <1>. QED
    BY <1>3, <1>5, <1>8 DEF Overlooked

Verdict(exit, mode) ==
    /\ exit = 0 =>
          /\ dir /\ \A f \in SettingsFiles : settings[f] # Torn
          /\ \A e \in Envs : Spoken(e) =>
                /\ ~SaysUnsafe(e)
                /\ \A k \in Validated : Says(e, k, Junk) => Overlooked(e, k)
    /\ exit = 1 /\ mode = "off" => \E e \in Envs : Spoken(e) /\ SaysUnsafe(e)

\* What a check concludes of the settings as they are.
LEMMA CheckIsOfSettings ==
  ASSUME ArchTypeOK, NEW code, NEW mode
  PROVE  Verdict(Check(dir, settings, code, mode), mode)
  <1>. DEFINE exit == Check(dir, settings, code, mode)
  <1>1. \A e \in Envs : Spoken(e) =>
            (SaysUnsafe(e) <=> AccessBad(buildFacts(settings, e)) \/ BoundaryBad(e, buildFacts(settings, e)))
    BY UnsafeIsFound
  <1>2. ASSUME exit = 0
        PROVE  /\ dir /\ \A f \in SettingsFiles : settings[f] # Torn
               /\ \A e \in Envs : Spoken(e) =>
                      /\ ~SaysUnsafe(e)
                      /\ \A k \in Validated : Says(e, k, Junk) => Overlooked(e, k)
    <2>1. dir /\ \A f \in SettingsFiles : ~IsInvalid(settings[f])
      BY <1>2, CheckEnds
    <2>2. \A f \in SettingsFiles : settings[f] # Torn
      BY <2>1 DEF IsInvalid
    <2>3. \A e \in Envs : Spoken(e) => ~SaysUnsafe(e)
      BY <1>1, <1>2, CheckEnds, FoundInEnvironments, CheckedAreSpoken
    <2>4. \A e \in Envs, k \in Validated : Says(e, k, Junk) => Overlooked(e, k)
      BY <2>1, JunkIsOverlooked
    <2>. QED
      BY <2>1, <2>2, <2>3, <2>4
  <1>3. ASSUME exit = 1, mode = "off"
        PROVE  \E e \in Envs : Spoken(e) /\ SaysUnsafe(e)
    <2>1. PICK e \in PerEnv(settings) :
              AccessBad(buildFacts(settings, e)) \/ BoundaryBad(e, buildFacts(settings, e))
      BY <1>3, CheckEnds, FoundInEnvironments
    <2>2. e \in Envs /\ Spoken(e)
      BY <2>1, CheckedAreSpoken, NothingSaid
    <2>. QED
      BY <1>1, <2>1, <2>2
  <1>. HIDE DEF exit
  <1>4. Verdict(exit, mode)
    BY <1>2, <1>3 DEF Verdict
  <1>. QED
    BY <1>4 DEF exit

LEMMA VerdictStays ==
  ASSUME UNCHANGED <<dir, settings>>
  PROVE  \A exit, mode : Verdict(exit, mode) => Verdict(exit, mode)'
  <1>1. GlobalEnvs(settings)' = GlobalEnvs(settings)
    BY DEF GlobalEnvs, IsDoc
  <1>2. ASSUME NEW e PROVE Sayings(e)' = Sayings(e)
    BY <1>1 DEF Sayings, IsDoc
  <1>3. ASSUME NEW e, NEW k, NEW v PROVE Says(e, k, v)' <=> Says(e, k, v)
    BY <1>2 DEF Says
  <1>4. ASSUME NEW e PROVE Spoken(e)' <=> Spoken(e)
    BY <1>1 DEF Spoken, IsDoc
  <1>5. ASSUME NEW e PROVE SaysUnsafe(e)' <=> SaysUnsafe(e)
    BY <1>3 DEF SaysUnsafe
  <1>6. ASSUME NEW e, NEW k PROVE Overlooked(e, k)' <=> Overlooked(e, k)
    BY DEF Overlooked, IsDoc
  <1>. QED
    BY <1>3, <1>4, <1>5, <1>6 DEF Verdict

LEMMA VerdictStep ==
  ASSUME ArchTypeOK, InstallSoFar, VerdictIsOfSettings, ArchStep
  PROVE  VerdictIsOfSettings'
  <1>1. ASSUME NEW exit, NEW mode, Verdict(exit, mode)', verdict'.exit = exit, verdict'.mode = mode
        PROVE  VerdictIsOfSettings'
    BY <1>1 DEF VerdictIsOfSettings, Verdict
  <1>2. ASSUME NEW mode \in Modes, RunCheck(Code, mode) PROVE VerdictIsOfSettings'
    <2>1. PICK exit : exit = Check(dir, settings, Code, mode)
      OBVIOUS
    <2>2. UNCHANGED <<dir, settings>> /\ verdict'.exit = exit /\ verdict'.mode = mode
      BY <1>2, <2>1 DEF RunCheck
    <2>3. Verdict(exit, mode)
      BY <2>1, CheckIsOfSettings
    <2>4. Verdict(exit, mode)'
      BY <2>2, <2>3, VerdictStays
    <2>. QED
      BY <1>1, <2>2, <2>4
  <1>3. ASSUME verdict' = None PROVE VerdictIsOfSettings'
    BY <1>3 DEF VerdictIsOfSettings
  <1>4. ASSUME UNCHANGED <<dir, settings, verdict>>, verdict # None PROVE VerdictIsOfSettings'
    <2>1. PICK exit, mode : exit = verdict.exit /\ mode = verdict.mode
      OBVIOUS
    <2>2. Verdict(exit, mode)
      BY <1>4, <2>1 DEF VerdictIsOfSettings, Verdict
    <2>3. Verdict(exit, mode)'
      BY <1>4, <2>2, VerdictStays
    <2>4. verdict'.exit = exit /\ verdict'.mode = mode
      BY <1>4, <2>1
    <2>. QED
      BY <1>1, <2>3, <2>4
  <1>5. ASSUME NEW f \in SettingsFiles, EditSettings(f) PROVE VerdictIsOfSettings'
    BY <1>3, <1>5 DEF EditSettings
  <1>6. ASSUME EditIgnores PROVE VerdictIsOfSettings'
    BY <1>3, <1>4, <1>6, EditedIgnores
  <1>7. ASSUME NEW force \in BOOLEAN, BeginInstall(force) PROVE VerdictIsOfSettings'
    BY <1>3, <1>7 DEF BeginInstall
  \* While an install runs, the last check was of something else.
  <1>8. ASSUME install # None, verdict' = verdict PROVE VerdictIsOfSettings'
    BY <1>3, <1>8 DEF InstallSoFar
  <1>9. ASSUME NEW f \in DOMAIN Template, CopyTemplate(f) PROVE VerdictIsOfSettings'
    BY <1>8, <1>9 DEF CopyTemplate
  <1>10. ASSUME CopySchema \/ WriteIgnores \/ ArchCrash PROVE VerdictIsOfSettings'
    BY <1>8, <1>10 DEF CopySchema, WriteIgnores, ArchCrash
  <1>11. ASSUME UNCHANGED archVars PROVE VerdictIsOfSettings'
    BY <1>3, <1>4, <1>11 DEF archVars
  <1>. QED
    BY <1>2, <1>3, <1>5, <1>6, <1>7, <1>9, <1>10, <1>11 DEF ArchStep

-----------------------------------------------------------------------------
(* The lines that are in a set *)

AreIn(h, Some, s) ==
    h = [i \in 0..Len(s) |-> IF i = 0 THEN << >>
                             ELSE IF s[i] \in Some THEN Append(h[i - 1], s[i]) ELSE h[i - 1]]

\* h collects the lines of s that are in Some, one after another.
Collects(h, Some, s) ==
    /\ h \in [0..Len(s) -> Seq(Some)] /\ h[0] = << >>
    /\ \A i \in 1..Len(s) : h[i] = IF s[i] \in Some THEN Append(h[i - 1], s[i]) ELSE h[i - 1]
    /\ LinesIn(Some, s) = h[Len(s)]

LEMMA LinesInAre ==
  ASSUME NEW Some, NEW s \in Seq(Lines)
  PROVE  \E h : Collects(h, Some, s)
  <1>. DEFINE V == Seq(Some)
              next == [i \in 1..Len(s) |-> [v \in V |-> IF s[i] \in Some THEN Append(v, s[i]) ELSE v]]
  <1>1. Len(s) \in Nat /\ << >> \in V
    OBVIOUS
  <1>2. next \in [1..Len(s) -> [V -> V]]
    <2>1. \A v \in V, i \in 1..Len(s) : (IF s[i] \in Some THEN Append(v, s[i]) ELSE v) \in V
      OBVIOUS
    <2>. HIDE DEF V
    <2>. QED
      BY <2>1
  <1>3. \A v \in V, i \in 1..Len(s) : next[i][v] = IF s[i] \in Some THEN Append(v, s[i]) ELSE v
    OBVIOUS
  <1>. HIDE DEF next
  <1>4. PICK h \in [0..Len(s) -> V] : h[0] = << >> /\ \A i \in 1..Len(s) : h[i] = next[i][h[i - 1]]
    <2>. HIDE DEF V
    <2>. DEFINE n == Len(s)
                base == << >>
    <2>1. n \in Nat /\ base \in V /\ next \in [1..n -> [V -> V]]
      BY <1>1, <1>2
    <2>. HIDE DEF n, base
    <2>2. \E h : Recursion(h, n, V, base, next)
      BY <2>1, Recursive
    <2>. QED
      BY <2>2 DEF n, base, Recursion
  <1>. HIDE DEF V
  <1>5. \A i \in 1..Len(s) : h[i] = IF s[i] \in Some THEN Append(h[i - 1], s[i]) ELSE h[i - 1]
    <2>. TAKE i \in 1..Len(s)
    <2>1. h[i - 1] \in V
      BY <1>1, <1>4
    <2>. QED
      BY <2>1, <1>3, <1>4
  <1>6. AreIn(h, Some, s)
    <2>. DEFINE g == [i \in 0..Len(s) |-> IF i = 0 THEN << >>
                             ELSE IF s[i] \in Some THEN Append(h[i - 1], s[i]) ELSE h[i - 1]]
    <2>1. DOMAIN h = 0..Len(s) /\ h = [i \in 0..Len(s) |-> h[i]]
      BY <1>4
    <2>2. ASSUME NEW i \in 0..Len(s) PROVE h[i] = g[i]
      <3>1. CASE i = 0
        BY <1>1, <1>4, <3>1
      <3>2. CASE i # 0
        <4>1. i \in 1..Len(s)
          BY <1>1, <3>2
        <4>. QED
          BY <1>5, <3>2, <4>1
      <3>. QED
        BY <3>1, <3>2
    <2>3. h = g
      <3>. HIDE DEF g
      <3>1. g = [i \in 0..Len(s) |-> g[i]]
        BY DEF g
      <3>. QED
        BY <2>1, <2>2, <3>1
    <2>. QED
      BY <2>3 DEF AreIn
  <1>7. PICK o : AreIn(o, Some, s) /\ LinesIn(Some, s) = o[Len(s)]
    <2>1. LinesIn(Some, s) = (CHOOSE o : AreIn(o, Some, s))[Len(s)]
      BY DEF LinesIn, AreIn
    <2>. QED
      BY <1>6, <2>1
  <1>8. /\ o[0] = << >>
        /\ \A i \in 1..Len(s) : o[i] = IF s[i] \in Some THEN Append(o[i - 1], s[i]) ELSE o[i - 1]
    <2>. DEFINE value(i) == IF i = 0 THEN << >>
                            ELSE IF s[i] \in Some THEN Append(o[i - 1], s[i]) ELSE o[i - 1]
    <2>1. o = [i \in 0..Len(s) |-> value(i)]
      BY <1>7 DEF AreIn
    <2>. HIDE DEF value
    <2>2. \A i \in 0..Len(s) : o[i] = value(i)
      BY <2>1
    <2>3. 0 \in 0..Len(s) /\ \A i \in 1..Len(s) : i \in 0..Len(s) /\ i # 0
      BY <1>1
    <2>4. \A i \in 0..Len(s) : value(i) = IF i = 0 THEN << >>
                            ELSE IF s[i] \in Some THEN Append(o[i - 1], s[i]) ELSE o[i - 1]
      BY DEF value
    <2>. QED
      BY <2>2, <2>3, <2>4
  <1>. DEFINE Same == {i \in Nat : i <= Len(s) => o[i] = h[i]}
  <1>9. Same = Nat
    <2>1. 0 \in Same
      BY <1>4, <1>8
    <2>2. ASSUME NEW i \in Nat, i <= Len(s) => o[i] = h[i], i + 1 <= Len(s)
          PROVE  o[i + 1] = h[i + 1]
      <3>1. i + 1 \in 1..Len(s) /\ (i + 1) - 1 = i /\ o[i] = h[i]
        BY <1>1, <2>2
      <3>2. o[i + 1] = IF s[i + 1] \in Some THEN Append(o[i], s[i + 1]) ELSE o[i]
        BY <1>8, <3>1
      <3>3. h[i + 1] = IF s[i + 1] \in Some THEN Append(h[i], s[i + 1]) ELSE h[i]
        BY <1>5, <3>1
      <3>. QED
        BY <3>1, <3>2, <3>3
    <2>3. \A i \in Same : i + 1 \in Same
      BY <2>2
    <2>4. Same \in SUBSET Nat
      OBVIOUS
    <2>. HIDE DEF Same
    <2>. QED
      BY <2>1, <2>3, <2>4, Inductive
  <1>10. LinesIn(Some, s) = h[Len(s)]
    <2>1. Len(s) \in Same /\ Len(s) <= Len(s)
      BY <1>1, <1>9
    <2>2. o[Len(s)] = h[Len(s)]
      BY <2>1
    <2>. QED
      BY <2>2, <1>7
  <1>. QED
    BY <1>4, <1>5, <1>10 DEF Collects, V

\* The lines of one list after another.
LEMMA LinesInConcat ==
  ASSUME NEW Some, NEW s \in Seq(Lines), NEW t \in Seq(Lines)
  PROVE  /\ LinesIn(Some, s) \in Seq(Some) /\ LinesIn(Some, t) \in Seq(Some)
         /\ LinesIn(Some, s \o t) = LinesIn(Some, s) \o LinesIn(Some, t)
  <1>. DEFINE st == s \o t
  <1>1. /\ st \in Seq(Lines) /\ Len(st) = Len(s) + Len(t) /\ Len(s) \in Nat /\ Len(t) \in Nat
        /\ \A i \in 1..Len(s) : st[i] = s[i]
        /\ \A i \in 1..Len(t) : st[Len(s) + i] = t[i]
    OBVIOUS
  <1>. HIDE DEF st
  <1>2a. PICK f : Collects(f, Some, s)
    BY LinesInAre
  <1>2. /\ f \in [0..Len(s) -> Seq(Some)] /\ f[0] = << >>
        /\ \A i \in 1..Len(s) : f[i] = IF s[i] \in Some THEN Append(f[i - 1], s[i]) ELSE f[i - 1]
        /\ LinesIn(Some, s) = f[Len(s)]
    BY <1>2a DEF Collects
  <1>3a. PICK g : Collects(g, Some, t)
    BY LinesInAre
  <1>3. /\ g \in [0..Len(t) -> Seq(Some)] /\ g[0] = << >>
        /\ \A i \in 1..Len(t) : g[i] = IF t[i] \in Some THEN Append(g[i - 1], t[i]) ELSE g[i - 1]
        /\ LinesIn(Some, t) = g[Len(t)]
    BY <1>3a DEF Collects
  <1>4a. PICK h : Collects(h, Some, st)
    BY <1>1, LinesInAre
  <1>4. /\ h \in [0..Len(st) -> Seq(Some)] /\ h[0] = << >>
        /\ \A i \in 1..Len(st) : h[i] = IF st[i] \in Some THEN Append(h[i - 1], st[i]) ELSE h[i - 1]
        /\ LinesIn(Some, st) = h[Len(st)]
    BY <1>4a DEF Collects
  <1>5. f[Len(s)] \in Seq(Some) /\ g[Len(t)] \in Seq(Some)
    <2>1. Len(s) \in 0..Len(s) /\ Len(t) \in 0..Len(t)
      BY <1>1
    <2>. DEFINE V == Seq(Some)
    <2>2. f \in [0..Len(s) -> V] /\ g \in [0..Len(t) -> V]
      BY <1>2, <1>3
    <2>. HIDE DEF V
    <2>3. f[Len(s)] \in V /\ g[Len(t)] \in V
      BY <2>1, <2>2
    <2>. QED
      BY <2>3 DEF V
  <1>. DEFINE S == {i \in Nat : i <= Len(s) => h[i] = f[i]}
              Continued(j) == j <= Len(t) => h[Len(s) + j] = f[Len(s)] \o g[j]
              T == {j \in Nat : Continued(j)}
  <1>6. S = Nat
    <2>1. 0 \in S
      BY <1>2, <1>4
    <2>2. ASSUME NEW i \in Nat, i <= Len(s) => h[i] = f[i], i + 1 <= Len(s)
          PROVE  h[i + 1] = f[i + 1]
      <3>1. i + 1 \in 1..Len(s) /\ i + 1 \in 1..Len(st) /\ (i + 1) - 1 = i /\ h[i] = f[i]
        BY <1>1, <2>2
      <3>2. h[i + 1] = IF st[i + 1] \in Some THEN Append(h[i], st[i + 1]) ELSE h[i]
        BY <1>4, <3>1
      <3>3. f[i + 1] = IF s[i + 1] \in Some THEN Append(f[i], s[i + 1]) ELSE f[i]
        BY <1>2, <3>1
      <3>. QED
        BY <1>1, <3>1, <3>2, <3>3
    <2>3. \A i \in S : i + 1 \in S
      BY <2>2
    <2>4. S \in SUBSET Nat
      OBVIOUS
    <2>. HIDE DEF S
    <2>. QED
      BY <2>1, <2>3, <2>4, Inductive
  <1>7. h[Len(s)] = f[Len(s)]
    <2>1. Len(s) \in S
      BY <1>1, <1>6
    <2>. QED
      BY <1>1, <2>1
  <1>8. T = Nat
    <2>1. 0 \in T
      <3>1. f[Len(s)] \o << >> = f[Len(s)]
        BY <1>5, ConcatEmptySeq
      <3>2. h[Len(s) + 0] = f[Len(s)] \o g[0]
        <4>1. Len(s) + 0 = Len(s)
          BY <1>1
        <4>. QED
          BY <1>3, <1>7, <3>1, <4>1, Zenon
      <3>. QED
        BY <3>2
    <2>2. ASSUME NEW j \in Nat, j + 1 <= Len(t), h[Len(s) + j] = f[Len(s)] \o g[j]
          PROVE  h[Len(s) + (j + 1)] = f[Len(s)] \o g[j + 1]
      <3>. DEFINE a == f[Len(s)]
                  b == g[j]
                  x == t[j + 1]
      <3>1. /\ j + 1 \in 1..Len(t) /\ Len(s) + (j + 1) \in 1..Len(st)
            /\ (j + 1) - 1 = j /\ (Len(s) + (j + 1)) - 1 = Len(s) + j
        <4>1. Len(s) \in Nat /\ Len(t) \in Nat /\ Len(st) = Len(s) + Len(t)
          BY <1>1
        <4>. QED
          BY ONLY <4>1, <2>2, j \in Nat
      <3>2. h[Len(s) + j] = a \o b
        BY <2>2
      <3>3. h[Len(s) + (j + 1)] = IF x \in Some THEN Append(a \o b, x) ELSE a \o b
        <4>1. h[Len(s) + (j + 1)] = IF st[Len(s) + (j + 1)] \in Some
                                    THEN Append(h[Len(s) + j], st[Len(s) + (j + 1)]) ELSE h[Len(s) + j]
          BY <1>4, <3>1
        <4>2. st[Len(s) + (j + 1)] = x
          BY <1>1, <3>1
        <4>. QED
          BY <3>2, <4>1, <4>2, Zenon
      <3>4. g[j + 1] = IF x \in Some THEN Append(b, x) ELSE b
        BY <1>3, <3>1
      <3>5. a \in Seq(Some) /\ b \in Seq(Some)
        <4>1. j \in 0..Len(t)
          BY <1>1, <2>2
        <4>. DEFINE V == Seq(Some)
        <4>2. g \in [0..Len(t) -> V]
          BY <1>3
        <4>. HIDE DEF V
        <4>3. g[j] \in V
          BY <4>1, <4>2
        <4>. QED
          BY <1>5, <4>3 DEF V
      <3>. HIDE DEF a, b, x
      <3>6. x \in Some => Append(a \o b, x) = a \o Append(b, x)
        <4>1. CASE x \in Some
          <5>1. /\ Append(a \o b, x) = (a \o b) \o <<x>> /\ Append(b, x) = b \o <<x>>
                /\ <<x>> \in Seq(Some)
            BY <3>5, <4>1, AppendIsConcat, ConcatProperties
          <5>2. (a \o b) \o <<x>> = a \o (b \o <<x>>)
            <6>. DEFINE c == <<x>>
            <6>1. c \in Seq(Some)
              BY <5>1
            <6>. HIDE DEF c
            <6>2. (a \o b) \o c = a \o (b \o c)
              <7>1. Associate(a, b, c)
                BY ONLY <3>5, <6>1, PartsAssociate
              <7>. QED
                BY ONLY <7>1 DEF Associate
            <6>. QED
              BY <6>2 DEF c
          <5>. QED
            BY ONLY <5>1, <5>2
        <4>. QED
          BY <4>1
      <3>7. h[Len(s) + (j + 1)] = a \o g[j + 1]
        BY <3>3, <3>4, <3>6
      <3>. QED
        BY <3>7 DEF a
    <2>3. \A j \in T : j + 1 \in T
      <3>1. ASSUME NEW j \in Nat, Continued(j) PROVE Continued(j + 1)
        <4>1. j + 1 <= Len(t) => j <= Len(t)
          BY <1>1
        <4>. QED
          BY <2>2, <3>1, <4>1
      <3>. HIDE DEF Continued
      <3>. QED
        BY <3>1
    <2>4. T \in SUBSET Nat
      OBVIOUS
    <2>. HIDE DEF T
    <2>. QED
      BY <2>1, <2>3, <2>4, Inductive
  <1>9. h[Len(s) + Len(t)] = f[Len(s)] \o g[Len(t)]
    <2>1. Len(t) \in T
      BY <1>1, <1>8
    <2>2. Len(t) <= Len(t)
      BY <1>1
    <2>. QED
      BY <2>1, <2>2
  <1>. QED
    BY <1>1, <1>2, <1>3, <1>4, <1>5, <1>9 DEF st

LEMMA NoLinesIn ==
  ASSUME NEW Some, NEW s \in Seq(Lines), \A i \in 1..Len(s) : s[i] \notin Some
  PROVE  LinesIn(Some, s) = << >>
  <1>1a. PICK h : Collects(h, Some, s)
    BY LinesInAre
  <1>1. /\ h[0] = << >>
        /\ \A i \in 1..Len(s) : h[i] = IF s[i] \in Some THEN Append(h[i - 1], s[i]) ELSE h[i - 1]
        /\ LinesIn(Some, s) = h[Len(s)]
    BY <1>1a DEF Collects
  <1>. DEFINE S == {i \in Nat : i <= Len(s) => h[i] = << >>}
  <1>2. Len(s) \in Nat
    OBVIOUS
  <1>3. S = Nat
    <2>1. 0 \in S
      BY <1>1
    <2>2. ASSUME NEW i \in Nat, i <= Len(s) => h[i] = << >>, i + 1 <= Len(s)
          PROVE  h[i + 1] = << >>
      <3>1. i + 1 \in 1..Len(s) /\ (i + 1) - 1 = i /\ h[i] = << >>
        BY <1>2, <2>2
      <3>. QED
        BY <1>1, <3>1
    <2>3. \A i \in S : i + 1 \in S
      BY <2>2
    <2>4. S \in SUBSET Nat
      OBVIOUS
    <2>. HIDE DEF S
    <2>. QED
      BY <2>1, <2>3, <2>4, Inductive
  <1>4. Len(s) \in S
    BY <1>2, <1>3
  <1>. QED
    BY <1>1, <1>2, <1>4

\* The block has no lines of the user's.
LEMMA BlockHasNone ==
  ASSUME NEW Some \in SUBSET Own
  PROVE  Block \in Seq(Lines) /\ LinesIn(Some, Block) = << >>
  <1>1. \A i \in 1..Len(Block) : Block[i] \notin Some
    <2>1. \A i \in 1..3 : i = 1 \/ i = 2 \/ i = 3
      OBVIOUS
    <2>. QED
      BY <2>1, BlockOfLines, MarkersAssumption
  <1>. QED
    BY <1>1, BlockOfLines, NoLinesIn

\* What is in the middle adds none of the lines.
Around(Some, p, m, q) == LinesIn(Some, p \o m \o q) = LinesIn(Some, p) \o LinesIn(Some, q)
\* The lines that are left when the block is put between others.
LEMMA LinesAroundBlock ==
  ASSUME NEW Some \in SUBSET Own, NEW p \in Seq(Lines), NEW m \in Seq(Lines), NEW q \in Seq(Lines),
         LinesIn(Some, m) = << >>
  PROVE  Around(Some, p, m, q)
  <1>1. p \o m \in Seq(Lines)
    BY ConcatProperties
  <1>2. LinesIn(Some, p \o m) = LinesIn(Some, p) \o LinesIn(Some, m)
    BY LinesInConcat
  <1>3. LinesIn(Some, p) \o << >> = LinesIn(Some, p)
    BY LinesInConcat, ConcatEmptySeq
  <1>4. LinesIn(Some, (p \o m) \o q) = LinesIn(Some, p \o m) \o LinesIn(Some, q)
    BY <1>1, LinesInConcat
  <1>. QED
    BY <1>2, <1>3, <1>4 DEF Around

\* The block added at the end.
LEMMA BlockAtEnd ==
  ASSUME NEW Some \in SUBSET Own, NEW lines \in Seq(Lines)
  PROVE  LinesIn(Some, lines \o Block) = LinesIn(Some, lines)
  <1>1. Block \in Seq(Lines) /\ LinesIn(Some, Block) = << >>
    BY BlockHasNone
  <1>2. LinesIn(Some, lines \o Block) = LinesIn(Some, lines) \o << >>
    BY <1>1, LinesInConcat, Zenon
  <1>. QED
    BY <1>2, LinesInConcat, ConcatEmptySeq

\* Putting the block keeps the user's lines that are not between markers.
LEMMA LinesStay ==
  ASSUME NEW lines \in Seq(Lines), NEW S \in SUBSET Own, Marked(lines, S) \/ NoMarks(lines)
  PROVE  LinesIn(Own \ S, EnsureGitignorePatterns(lines)) = LinesIn(Own \ S, lines)
  <1>. DEFINE Some == Own \ S
  <1>1. Some \in SUBSET Own
    OBVIOUS
  <1>2. CASE NoMarks(lines)
    <2>1. EnsureGitignorePatterns(lines) = lines \o Block
      BY <1>2, BlockIsPut
    <2>. QED
      BY <1>1, <2>1, BlockAtEnd
  <1>3. CASE Marked(lines, S)
    <2>1. Replaced(lines, S)
      BY <1>3, BlockIsPut
    <2>2. PICK p, m, q \in Seq(Lines) :
              /\ lines = p \o m \o q /\ EnsureGitignorePatterns(lines) = p \o Block \o q
              /\ \A i \in 1..Len(m) : m[i] \notin Some
      BY <2>1 DEF Replaced
    <2>. HIDE DEF Some
    <2>3. LinesIn(Some, m) = << >>
      BY <2>2, NoLinesIn
    <2>4. LinesIn(Some, p \o m \o q) = LinesIn(Some, p) \o LinesIn(Some, q)
      <3>1. Around(Some, p, m, q)
        BY <1>1, <2>3, LinesAroundBlock
      <3>. QED
        BY <3>1 DEF Around
    <2>5. LinesIn(Some, p \o Block \o q) = LinesIn(Some, p) \o LinesIn(Some, q)
      <3>1. Block \in Seq(Lines) /\ LinesIn(Some, Block) = << >>
        BY <1>1, BlockHasNone
      <3>2. p \in Seq(Lines) /\ q \in Seq(Lines)
        BY <2>2
      <3>3. Around(Some, p, Block, q)
        BY ONLY <1>1, <3>1, <3>2, LinesAroundBlock
      <3>. QED
        BY <3>3 DEF Around
    <2>6. LinesIn(Some, EnsureGitignorePatterns(lines)) = LinesIn(Some, lines)
      BY <2>2, <2>4, <2>5
    <2>. QED
      BY <2>6 DEF Some
  <1>. QED
    BY <1>2, <1>3

\* Whatever markers there are, putting the block loses only what is between
\* one and the first end after it.
LEMMA LostAreBetween ==
  ASSUME NEW lines \in Seq(Lines)
  PROVE  LostBetweenMarks(lines, EnsureGitignorePatterns(lines))
  <1>. DEFINE b == SelectInSeq(lines, LAMBDA l : l = Begin)
              rest == SubSeq(lines, b, Len(lines))
              e == SelectInSeq(rest, LAMBDA l : l = End)
  <1>1. Position(b, lines, Begin)
    BY DEF SelectInSeq, Position
  <1>2. Position(e, rest, End)
    BY DEF SelectInSeq, Position
  <1>3. EnsureGitignorePatterns(lines) =
          IF Contains(lines, Begin) /\ Contains(lines, End)
          THEN IF e = 0 THEN lines ELSE SubSeq(lines, 1, b - 1) \o Block \o SubSeq(lines, b + e, Len(lines))
          ELSE lines \o Block
    BY DEF EnsureGitignorePatterns
  <1>. HIDE DEF b, e
  <1>4. /\ b = 0 => \A i \in 1..Len(lines) : lines[i] # Begin
        /\ b # 0 => b \in 1..Len(lines) /\ lines[b] = Begin /\ \A i \in 1..(b - 1) : lines[i] # Begin
    BY <1>1, FirstPosition DEF IsFirst
  <1>5. b # 0 => rest \in Seq(Lines) /\ Len(rest) = Len(lines) - b + 1
                 /\ \A i \in 1..Len(rest) : rest[i] = lines[b + i - 1]
    BY <1>4, SubSeqProperties
  <1>. HIDE DEF rest
  <1>6. b # 0 => /\ e = 0 => \A i \in 1..Len(rest) : rest[i] # End
                 /\ e # 0 => e \in 1..Len(rest) /\ rest[e] = End /\ \A i \in 1..(e - 1) : rest[i] # End
    BY <1>2, <1>5, FirstPosition DEF IsFirst
  <1>7. CASE ~(Contains(lines, Begin) /\ Contains(lines, End))
    <2>1. EnsureGitignorePatterns(lines) = lines \o Block
      BY <1>3, <1>7
    <2>2. LinesIn(Own, EnsureGitignorePatterns(lines)) = LinesIn(Own, lines)
      BY <2>1, BlockAtEnd
    <2>. QED
      BY <2>2 DEF LostBetweenMarks
  <1>8. CASE Contains(lines, Begin) /\ Contains(lines, End) /\ e = 0
    <2>1. EnsureGitignorePatterns(lines) = lines
      BY <1>3, <1>8
    <2>. QED
      BY <2>1 DEF LostBetweenMarks
  <1>9. CASE Contains(lines, Begin) /\ Contains(lines, End) /\ e # 0
    <2>. DEFINE e0 == b + e - 1
                p == SubSeq(lines, 1, b - 1)
                q == SubSeq(lines, e0 + 1, Len(lines))
    <2>1. b \in 1..Len(lines) /\ lines[b] = Begin
      BY <1>4, <1>9 DEF Contains
    <2>2. /\ Len(rest) = Len(lines) - b + 1 /\ \A i \in 1..Len(rest) : rest[i] = lines[b + i - 1]
          /\ e \in 1..Len(rest) /\ rest[e] = End /\ \A i \in 1..(e - 1) : rest[i] # End
      BY <1>5, <1>6, <1>9, <2>1
    <2>3. e0 \in 1..Len(lines) /\ b <= e0 /\ e0 + 1 = b + e
      BY <2>1, <2>2
    <2>4. lines[e0] = End
      BY <2>2
    <2>5. b < e0
      <3>1. b # e0
        BY <2>1, <2>4, MarkersAssumption
      <3>. QED
        BY <2>1, <2>3, <3>1
    <2>6. ASSUME NEW i \in b..(e0 - 1) PROVE lines[i] # End
      <3>1. i - b + 1 \in 1..(e - 1) /\ i - b + 1 \in 1..Len(rest) /\ b + (i - b + 1) - 1 = i
        BY <2>1, <2>2
      <3>. QED
        BY <2>2, <3>1
    <2>7. EnsureGitignorePatterns(lines) = p \o Block \o q
      BY <1>3, <1>9, <2>3
    <2>8. p \in Seq(Lines) /\ q \in Seq(Lines)
      BY <2>1, <2>3, SubSeqProperties
    <2>9. LinesIn(Own, EnsureGitignorePatterns(lines)) = LinesIn(Own, p) \o LinesIn(Own, q)
      <3>. HIDE DEF p, q
      <3>. QED
        <4>1. Own \in SUBSET Own
          OBVIOUS
        <4>2. Block \in Seq(Lines) /\ LinesIn(Own, Block) = << >>
          BY <4>1, BlockHasNone
        <4>3. LinesIn(Own, p \o Block \o q) = LinesIn(Own, p) \o LinesIn(Own, q)
          <5>1. Around(Own, p, Block, q)
            BY ONLY <4>1, <4>2, <2>8, LinesAroundBlock
          <5>. QED
            BY <5>1 DEF Around
        <4>. QED
          BY <2>7, <4>3
    <2>10. b \in DOMAIN lines /\ e0 \in DOMAIN lines
      BY <2>1, <2>3
    <2>. HIDE DEF e0
    <2>. QED
      BY <2>1, <2>4, <2>5, <2>6, <2>9, <2>10 DEF LostBetweenMarks
  <1>. QED
    BY <1>7, <1>8, <1>9

-----------------------------------------------------------------------------
(* AiRules *)

RuleFiles == Parts \cup {"static-scan"}
Bodies == {ExportBody(of) : of \in Contents} \cup {AdapterBody, Missing, Empty}

RuleTypeOK ==
    /\ config \in Contents /\ workflow \in {Sample, Missing, Empty}
    /\ rules \in [RuleFiles -> Bodies]
    /\ writing # Idle => writing \in Writings /\ writing.todo # << >>

\* A running export has written the files before those it has to write.
ExportSoFar ==
    writing # Idle =>
        /\ exported = Idle
        /\ writing.name = "export" =>
              LET files == Emitted(writing.emit, writing.of)
              IN \E n \in 0..Len(files) :
                    /\ Len(writing.todo) = Len(files) - n
                    /\ \A i \in 1..Len(writing.todo) : writing.todo[i] = files[n + i]
                    /\ \A i \in 1..n : rules[files[i]] = ExportBody(writing.of)

RuleInv == RuleTypeOK /\ ExportSoFar /\ ExportIsOfOneConfig

LEMMA EmittedFiles ==
  ASSUME NEW emit, NEW of
  PROVE  /\ Emitted(emit, of) \in Seq(RuleFiles)
         /\ emit \in Emits => Emitted(emit, of) # << >>
  <1>. DEFINE Asked(p) == IF p \in emit THEN <<p>> ELSE << >>
              scan == IF "cursor" \in emit THEN vibescanStaticScan(of) ELSE << >>
              files == Asked("cursor") \o Asked("amazonq") \o Asked("markdown") \o Asked("policy") \o scan
  <1>1. \A p \in Parts : /\ Asked(p) \in Seq(RuleFiles)
                         /\ Len(Asked(p)) = IF p \in emit THEN 1 ELSE 0
    <2>. TAKE p \in Parts
    <2>1. p \in RuleFiles
      BY DEF RuleFiles
    <2>2. CASE p \in emit
      BY <2>1, <2>2
    <2>3. CASE p \notin emit
      BY <2>3
    <2>. QED
      BY <2>2, <2>3
  <1>2. scan \in Seq(RuleFiles) /\ Len(scan) \in Nat
    <2>1. "static-scan" \in RuleFiles
      BY DEF RuleFiles
    <2>2. scan = << >> \/ scan = <<"static-scan">>
      BY DEF vibescanStaticScan
    <2>. HIDE DEF scan
    <2>3. CASE scan = << >>
      BY <2>3
    <2>4. CASE scan = <<"static-scan">>
      <3>1. <<"static-scan">> \in Seq(RuleFiles) /\ Len(<<"static-scan">>) = 1
        BY <2>1
      <3>. QED
        BY <2>4, <3>1
    <2>. QED
      BY <2>2, <2>3, <2>4
  <1>. DEFINE a == Asked("cursor")
              b == Asked("amazonq")
              c == Asked("markdown")
              d == Asked("policy")
  <1>3. /\ a \in Seq(RuleFiles) /\ b \in Seq(RuleFiles) /\ c \in Seq(RuleFiles) /\ d \in Seq(RuleFiles)
        /\ Len(a) = (IF "cursor" \in emit THEN 1 ELSE 0) /\ Len(b) = (IF "amazonq" \in emit THEN 1 ELSE 0)
        /\ Len(c) = (IF "markdown" \in emit THEN 1 ELSE 0) /\ Len(d) = (IF "policy" \in emit THEN 1 ELSE 0)
    BY <1>1 DEF Parts
  <1>4. Emitted(emit, of) = a \o b \o c \o d \o scan
    BY DEF Emitted
  <1>5. emit \in Emits => "cursor" \in emit \/ "amazonq" \in emit \/ "markdown" \in emit \/ "policy" \in emit
    BY EmitsAssumption DEF Parts
  <1>. HIDE DEF a, b, c, d, scan
  <1>6. a \o b \in Seq(RuleFiles) /\ Len(a \o b) = Len(a) + Len(b)
    BY <1>3, ConcatProperties
  <1>7. (a \o b) \o c \in Seq(RuleFiles) /\ Len((a \o b) \o c) = Len(a) + Len(b) + Len(c)
    <2>1. /\ (a \o b) \o c \in Seq(RuleFiles)
          /\ Len((a \o b) \o c) = Len(a \o b) + Len(c)
      BY <1>3, <1>6, ConcatProperties
    <2>. QED
      BY <1>6, <2>1
  <1>8. ((a \o b) \o c) \o d \in Seq(RuleFiles) /\ Len(((a \o b) \o c) \o d) = Len(a) + Len(b) + Len(c) + Len(d)
    <2>. DEFINE abc == (a \o b) \o c
    <2>1. abc \in Seq(RuleFiles) /\ Len(abc) = Len(a) + Len(b) + Len(c)
      BY <1>7
    <2>. HIDE DEF abc
    <2>2. abc \o d \in Seq(RuleFiles) /\ Len(abc \o d) = Len(abc) + Len(d)
      BY <1>3, <2>1, ConcatProperties
    <2>3. Len(abc \o d) = Len(a) + Len(b) + Len(c) + Len(d)
      BY <2>1, <2>2
    <2>. QED
      BY <2>2, <2>3 DEF abc
  <1>9. /\ (((a \o b) \o c) \o d) \o scan \in Seq(RuleFiles)
        /\ Len((((a \o b) \o c) \o d) \o scan) = Len(a) + Len(b) + Len(c) + Len(d) + Len(scan)
    BY <1>2, <1>8, ConcatProperties
  <1>10. emit \in Emits => Len(a \o b \o c \o d \o scan) # 0
    BY <1>2, <1>3, <1>5, <1>9
  <1>. QED
    BY <1>4, <1>9, <1>10, EmptySeq

LEMMA RuleInitInv == RuleInit => RuleInv
  <1>1. RuleInit => RuleTypeOK
    BY DEF RuleInit, RuleTypeOK, Contents, Bodies, RuleFiles
  <1>2. RuleInit => ExportSoFar /\ ExportIsOfOneConfig
    BY DEF RuleInit, ExportSoFar, ExportIsOfOneConfig
  <1>. QED
    BY <1>1, <1>2 DEF RuleInv

\* The steps of the commands that write rules, and of who edits the configuration.
RuleStep ==
    \/ \E emit \in Emits : BeginExport(emit)
    \/ \E tool \in Tools : BeginInit(tool)
    \/ \E tools \in {<< >>} \cup {<<t>> : t \in Tools} : BeginBootstrap(tools)
    \/ WriteRules \/ WriteConfig \/ WriteWorkflow \/ WriteFails \/ RuleCrash \/ EditConfig
    \/ UNCHANGED ruleVars

\* What is left to write.
LEMMA ThenIs ==
  ASSUME RuleTypeOK, writing # Idle, NEW next, next = Then
  PROVE  /\ writing.todo \in Seq(RuleFiles \cup {"config", "workflow"})
         /\ Written = writing.todo[1] /\ Len(writing.todo) \in Nat \ {0}
         /\ next = Idle <=> Len(writing.todo) = 1
         /\ next # Idle => /\ next \in Writings /\ next.todo # << >> /\ next.name = writing.name
                           /\ next.emit = writing.emit /\ next.of = writing.of
                           /\ Len(next.todo) = Len(writing.todo) - 1
                           /\ \A i \in 1..Len(next.todo) : next.todo[i] = writing.todo[i + 1]
  <1>. DEFINE All == Parts \cup {"static-scan", "config", "workflow"}
              todo == writing.todo
  <1>1. writing \in Writings /\ todo \in Seq(All) /\ todo # << >>
    BY DEF RuleTypeOK, Writings
  <1>2. Len(todo) \in Nat \ {0} /\ Written = todo[1]
    <2>. HIDE DEF All
    <2>. QED
      BY <1>1 DEF Written
  <1>3. Seq(All) = Seq(RuleFiles \cup {"config", "workflow"})
    <2>1. All = RuleFiles \cup {"config", "workflow"}
      BY DEF RuleFiles
    <2>. QED
      BY <2>1
  <1>4. CASE Len(todo) = 1
    BY <1>1, <1>2, <1>3, <1>4 DEF Then
  <1>5. CASE Len(todo) # 1
    <2>1. next = [writing EXCEPT !.todo = Tail(todo)]
      BY <1>5 DEF Then
    <2>2. /\ Tail(todo) \in Seq(All) /\ Len(Tail(todo)) = Len(todo) - 1
          /\ \A i \in 1..(Len(todo) - 1) : Tail(todo)[i] = todo[i + 1]
      <3>. HIDE DEF All, todo
      <3>. QED
        BY <1>1, <1>2
    <2>3. /\ next \in Writings /\ next.todo = Tail(todo) /\ next.name = writing.name
          /\ next.emit = writing.emit /\ next.of = writing.of
      <3>. HIDE DEF todo
      <3>. QED
        BY <1>1, <2>1, <2>2 DEF Writings
    <2>4. next.todo # << >>
      <3>1. Len(next.todo) # 0
        BY <1>2, <1>5, <2>2, <2>3
      <3>. QED
        BY <3>1
    <2>5. next # Idle
      BY <2>3, IdleAssumption
    <2>. QED
      BY <1>1, <1>2, <1>3, <1>5, <2>2, <2>3, <2>4, <2>5
  <1>. QED
    BY <1>4, <1>5

LEMMA RuleTypeStep ==
  ASSUME RuleTypeOK, RuleStep
  PROVE  RuleTypeOK'
  <1>1. ASSUME NEW emit \in Emits, BeginExport(emit) PROVE RuleTypeOK'
    <2>1. CASE UNCHANGED writing
      BY <1>1, <2>1 DEF BeginExport, RuleTypeOK
    <2>2. CASE writing' = [name |-> "export", todo |-> Emitted(emit, config), emit |-> emit, of |-> config]
      <3>1. Emitted(emit, config) # << >> /\ Emitted(emit, config) \in Seq(Parts \cup {"static-scan", "config", "workflow"})
        <4>1. RuleFiles \subseteq Parts \cup {"static-scan", "config", "workflow"}
          BY DEF RuleFiles
        <4>. QED
          BY <4>1, EmittedFiles
      <3>2. emit \in SUBSET Parts
        BY EmitsAssumption
      <3>. HIDE DEF Parts
      <3>. QED
        BY <1>1, <2>2, <3>1, <3>2 DEF BeginExport, RuleTypeOK, Writings
    <2>. QED
      BY <1>1, <2>1, <2>2 DEF BeginExport
  <1>. DEFINE Init0(todo) == [name |-> "init", todo |-> todo, emit |-> {}, of |-> Missing]
  <1>2. ASSUME NEW todo \in Seq(Parts \cup {"static-scan", "config", "workflow"}), todo # << >>,
               writing' = Init0(todo), UNCHANGED <<config, workflow, rules>>
        PROVE  RuleTypeOK'
    BY <1>2 DEF RuleTypeOK, Writings, Contents
  <1>3. ASSUME NEW tool \in Tools, BeginInit(tool) PROVE RuleTypeOK'
    <2>1. <<tool>> \in Seq(Parts \cup {"static-scan", "config", "workflow"}) /\ <<tool>> # << >>
      BY DEF Tools, Parts
    <2>. QED
      BY <1>2, <1>3, <2>1 DEF BeginInit
  <1>4. ASSUME NEW tools \in {<< >>} \cup {<<t>> : t \in Tools}, BeginBootstrap(tools) PROVE RuleTypeOK'
    <2>. DEFINE All == Parts \cup {"static-scan", "config", "workflow"}
                two == <<"config", "workflow">>
    <2>0. {"config", "workflow"} \cup Tools \subseteq All
      BY DEF Tools, Parts
    <2>1. tools \in Seq(All) /\ two \in Seq(All) /\ Len(two) = 2
      <3>. HIDE DEF All
      <3>1. CASE tools = << >>
        BY <2>0, <3>1
      <3>2. CASE \E t \in Tools : tools = <<t>>
        BY <2>0, <3>2
      <3>. QED
        BY <3>1, <3>2
    <2>. HIDE DEF All, two
    <2>2. two \o tools \in Seq(All) /\ Len(two \o tools) = Len(two) + Len(tools) /\ Len(tools) \in Nat
      BY <2>1, ConcatProperties, LenProperties
    <2>3. two \o tools # << >>
      <3>1. Len(two \o tools) # 0
        BY <2>1, <2>2
      <3>. QED
        BY <3>1, EmptySeq
    <2>. QED
      BY <1>2, <1>4, <2>2, <2>3 DEF BeginBootstrap, All, two
  <1>5. ASSUME WriteRules PROVE RuleTypeOK'
    <2>1. AdapterBody \in Bodies /\ ExportBody(writing.of) \in Bodies
      BY <1>5 DEF Bodies, WriteRules, RuleTypeOK, Writings
    <2>2. rules' \in [RuleFiles -> Bodies]
      BY <1>5, <2>1 DEF WriteRules, RuleTypeOK
    <2>. QED
      BY <1>5, <2>2, ThenIs DEF WriteRules, RuleTypeOK
  <1>6. ASSUME WriteConfig PROVE RuleTypeOK'
    BY <1>6, ThenIs DEF WriteConfig, RuleTypeOK, Contents
  <1>7. ASSUME WriteWorkflow PROVE RuleTypeOK'
    BY <1>7, ThenIs DEF WriteWorkflow, RuleTypeOK
  <1>8. ASSUME RuleCrash PROVE RuleTypeOK'
    <2>1. rules' \in [RuleFiles -> Bodies]
      BY <1>8 DEF RuleCrash, RuleTypeOK, Bodies
    <2>. QED
      BY <1>8, <2>1 DEF RuleCrash, RuleTypeOK, Contents
  <1>9. ASSUME WriteFails \/ EditConfig \/ UNCHANGED ruleVars PROVE RuleTypeOK'
    BY <1>9 DEF WriteFails, EditConfig, ruleVars, RuleTypeOK, Contents
  <1>. QED
    BY <1>1, <1>3, <1>4, <1>5, <1>6, <1>7, <1>8, <1>9 DEF RuleStep

LEMMA ExportStep ==
  ASSUME RuleTypeOK, ExportSoFar, ExportIsOfOneConfig, RuleStep
  PROVE  ExportSoFar' /\ ExportIsOfOneConfig'
  <1>1. ASSUME NEW emit \in Emits, BeginExport(emit) PROVE ExportSoFar' /\ ExportIsOfOneConfig'
    <2>1. CASE UNCHANGED <<writing, exported>>
      BY <1>1, <2>1 DEF BeginExport, ExportSoFar, ExportIsOfOneConfig
    <2>2. CASE /\ writing' = [name |-> "export", todo |-> Emitted(emit, config), emit |-> emit, of |-> config]
               /\ exported' = Idle
      <3>. DEFINE files == Emitted(emit, config)
      <3>1. files \in Seq(RuleFiles) /\ Len(files) \in Nat
        BY EmittedFiles, LenProperties
      <3>2. writing'.todo = files /\ files = Emitted(writing'.emit, writing'.of)
        BY <2>2
      <3>. HIDE DEF files
      <3>3. \E n \in 0..Len(files) :
                    /\ Len(writing'.todo) = Len(files) - n
                    /\ \A i \in 1..Len(writing'.todo) : writing'.todo[i] = files[n + i]
                    /\ \A i \in 1..n : rules'[files[i]] = ExportBody(writing'.of)
        <4>. WITNESS 0 \in 0..Len(files)
        <4>. QED
          BY <3>1, <3>2
      <3>4. ExportSoFar'
        BY <2>2, <3>2, <3>3 DEF ExportSoFar
      <3>. QED
        BY <2>2, <3>4 DEF ExportIsOfOneConfig
    <2>. QED
      BY <1>1, <2>1, <2>2 DEF BeginExport
  <1>2. ASSUME NEW tool \in Tools, BeginInit(tool) PROVE ExportSoFar' /\ ExportIsOfOneConfig'
    BY <1>2 DEF BeginInit, ExportSoFar, ExportIsOfOneConfig
  <1>3. ASSUME NEW tools, BeginBootstrap(tools) PROVE ExportSoFar' /\ ExportIsOfOneConfig'
    BY <1>3 DEF BeginBootstrap, ExportSoFar, ExportIsOfOneConfig
  <1>4. ASSUME WriteRules PROVE ExportSoFar' /\ ExportIsOfOneConfig'
    <2>1. writing # Idle /\ writing \in Writings /\ writing.todo # << >> /\ exported = Idle
      BY <1>4 DEF WriteRules, RuleTypeOK, ExportSoFar
    <2>2. CASE writing.name = "init"
      <3>1. exported' = Idle
        BY <1>4, <2>1, <2>2 DEF WriteRules
      <3>2. writing' # Idle => writing'.name = "init"
        BY <1>4, <2>1, <2>2, ThenIs DEF WriteRules
      <3>. QED
        BY <3>1, <3>2 DEF ExportSoFar, ExportIsOfOneConfig
    <2>3. CASE writing.name = "export"
      <3>. DEFINE files == Emitted(writing.emit, writing.of)
                  body == ExportBody(writing.of)
      <3>1. PICK n \in 0..Len(files) :
                    /\ Len(writing.todo) = Len(files) - n
                    /\ \A i \in 1..Len(writing.todo) : writing.todo[i] = files[n + i]
                    /\ \A i \in 1..n : rules[files[i]] = body
        BY <2>1, <2>3 DEF ExportSoFar
      <3>. HIDE DEF files, body
      <3>2. /\ Written = writing.todo[1] /\ Len(writing.todo) \in Nat \ {0}
            /\ n \in Int /\ Len(files) = n + Len(writing.todo)
        BY <2>1, <3>1, ThenIs, LenProperties
      <3>3. Written = files[n + 1]
        BY <3>1, <3>2
      <3>4. rules' = [rules EXCEPT ![Written] = body] /\ Written \in DOMAIN rules
        BY <1>4, <2>1, <2>3 DEF WriteRules, body
      <3>5. \A i \in 1..(n + 1) : rules'[files[i]] = body
        <4>. TAKE i \in 1..(n + 1)
        <4>1. CASE files[i] = Written
          BY <3>4, <4>1
        <4>2. CASE files[i] # Written
          <5>1. i \in 1..n
            BY <3>2, <3>3, <4>2
          <5>2. rules'[files[i]] = rules[files[i]]
            BY <3>4, <4>2
          <5>. QED
            BY <3>1, <5>1, <5>2
        <4>. QED
          BY <4>1, <4>2
      <3>6. CASE Len(writing.todo) = 1
        <4>1. writing' = Idle /\ exported' = [emit |-> writing.emit, of |-> writing.of]
          BY <1>4, <2>1, <2>3, <3>6, ThenIs DEF WriteRules
        <4>2. ExportSoFar'
          BY <4>1 DEF ExportSoFar
        <4>3. \A i \in DOMAIN files : rules'[files[i]] = body
          <5>2. DOMAIN files = 1..(n + 1)
            BY <3>2, <3>6
          <5>. QED
            BY <3>5, <5>2
        <4>4. ExportIsOfOneConfig'
          BY <4>1, <4>3 DEF ExportIsOfOneConfig, files, body
        <4>. QED
          BY <4>2, <4>4
      <3>7. CASE Len(writing.todo) # 1
        <4>1. /\ writing' # Idle /\ writing'.name = "export" /\ writing'.emit = writing.emit /\ writing'.of = writing.of
              /\ Len(writing'.todo) = Len(writing.todo) - 1
              /\ \A i \in 1..Len(writing'.todo) : writing'.todo[i] = writing.todo[i + 1]
          BY <1>4, <2>1, <2>3, <3>7, ThenIs DEF WriteRules
        <4>2. exported' = Idle
          BY <1>4, <2>1, <2>3, <3>7, ThenIs DEF WriteRules
        <4>3. \E k \in 0..Len(files) :
                    /\ Len(writing'.todo) = Len(files) - k
                    /\ \A i \in 1..Len(writing'.todo) : writing'.todo[i] = files[k + i]
                    /\ \A i \in 1..k : rules'[files[i]] = body
          <5>1. n + 1 \in 0..Len(files) /\ Len(writing'.todo) = Len(files) - (n + 1)
            <6>. DEFINE left == Len(writing.todo)
                        all == Len(files)
                        next == Len(writing'.todo)
            <6>1. n \in Nat /\ left \in Nat \ {0} /\ all = n + left /\ next = left - 1
              <7>1. n \in Nat
                <8>1. Len(files) \in Int
                  BY <3>2
                <8>. QED
                  BY <8>1
              <7>. QED
                BY <3>2, <4>1, <7>1
            <6>. HIDE DEF left, all, next
            <6>2. n + 1 \in 0..all /\ next = all - (n + 1)
              BY <6>1
            <6>. QED
              BY <6>2 DEF all, next
          <5>2. ASSUME NEW i \in 1..Len(writing'.todo) PROVE writing'.todo[i] = files[(n + 1) + i]
            <6>1. i + 1 \in 1..Len(writing.todo) /\ n + (i + 1) = (n + 1) + i
              BY <3>2, <4>1
            <6>2. writing.todo[i + 1] = files[n + (i + 1)]
              BY <3>1, <6>1
            <6>. QED
              BY <4>1, <6>1, <6>2
          <5>. QED
            BY <3>5, <5>1, <5>2
        <4>4. ExportSoFar'
          <5>1. Emitted(writing'.emit, writing'.of) = files /\ ExportBody(writing'.of) = body
            BY <4>1 DEF files, body
          <5>2. \E k \in 0..Len(Emitted(writing'.emit, writing'.of)) :
                    /\ Len(writing'.todo) = Len(Emitted(writing'.emit, writing'.of)) - k
                    /\ \A i \in 1..Len(writing'.todo) :
                          writing'.todo[i] = Emitted(writing'.emit, writing'.of)[k + i]
                    /\ \A i \in 1..k :
                          rules'[Emitted(writing'.emit, writing'.of)[i]] = ExportBody(writing'.of)
            BY ONLY <4>3, <5>1, Zenon
          <5>. QED
            BY ONLY <4>1, <4>2, <5>2 DEF ExportSoFar
        <4>. QED
          BY <4>2, <4>4 DEF ExportIsOfOneConfig
      <3>. QED
        BY <3>6, <3>7
    <2>. QED
      BY <2>1, <2>2, <2>3 DEF Writings
  \* The others write no rules: none of them is of an export that ends well.
  <1>5. ASSUME writing # Idle, UNCHANGED exported, writing' = Idle
        PROVE  ExportSoFar' /\ ExportIsOfOneConfig'
    BY <1>5 DEF ExportSoFar, ExportIsOfOneConfig
  <1>6. ASSUME WriteFails \/ RuleCrash PROVE ExportSoFar' /\ ExportIsOfOneConfig'
    BY <1>5, <1>6 DEF WriteFails, RuleCrash
  <1>7. ASSUME WriteConfig \/ WriteWorkflow PROVE ExportSoFar' /\ ExportIsOfOneConfig'
    <2>1. writing # Idle /\ writing.name = "init" /\ exported = Idle /\ exported' = exported
      <3>1. writing # Idle /\ Written \notin RuleFiles
        BY <1>7 DEF WriteConfig, WriteWorkflow, RuleFiles, Parts
      <3>2. writing.name = "export" => Written \in RuleFiles
        <4>. SUFFICES ASSUME writing.name = "export" PROVE Written \in RuleFiles
          OBVIOUS
        <4>. DEFINE files == Emitted(writing.emit, writing.of)
        <4>1. PICK n \in 0..Len(files) :
                    /\ Len(writing.todo) = Len(files) - n
                    /\ \A i \in 1..Len(writing.todo) : writing.todo[i] = files[n + i]
          BY <3>1 DEF ExportSoFar
        <4>2. /\ Written = writing.todo[1] /\ Len(writing.todo) \in Nat \ {0}
              /\ files \in Seq(RuleFiles) /\ Len(files) \in Nat
          BY <3>1, ThenIs, EmittedFiles, LenProperties
        <4>. HIDE DEF files
        <4>3. Written = files[n + 1] /\ n + 1 \in 1..Len(files)
          BY <4>1, <4>2
        <4>. QED
          BY <4>2, <4>3
      <3>. QED
        BY <1>7, <3>1, <3>2 DEF WriteConfig, WriteWorkflow, RuleTypeOK, Writings, ExportSoFar
    <2>2. writing' # Idle => writing'.name = "init"
      BY <1>7, <2>1, ThenIs DEF WriteConfig, WriteWorkflow
    <2>. QED
      BY <2>1, <2>2 DEF ExportSoFar, ExportIsOfOneConfig
  <1>8. ASSUME EditConfig \/ UNCHANGED ruleVars PROVE ExportSoFar' /\ ExportIsOfOneConfig'
    BY <1>8 DEF EditConfig, ruleVars, ExportSoFar, ExportIsOfOneConfig
  <1>. QED
    BY <1>1, <1>2, <1>3, <1>4, <1>6, <1>7, <1>8 DEF RuleStep

-----------------------------------------------------------------------------
(* FixPreview *)

\* The patch applies to the second copy all at once: as long as it has not,
\* a copy that it still applies to has not been touched.
PreviewSoFar ==
    /\ preview # NoPreview =>
          /\ preview \in [at : {"copy", "patch", "git", "scan", "show"}, finding : {"project"} \X Sources,
                          log : SUBSET ({"before", "after"} \X Sources)]
          /\ shown = NoPreview
          /\ preview.at # "copy" => DOMAIN before = Sources
          /\ preview.at = "patch" => after = before
          /\ preview.at = "git" => patched.before = before /\ (Applies(after) => after = before)
          /\ preview.at \in {"scan", "show"} =>
                Applies(before) /\ after = Patched(before, DOMAIN Patch) /\ patched.before = before

PreviewInv == PreviewSoFar /\ ResultIsOfPatch

LEMMA PreviewInitInv == PreviewInit => PreviewInv
  BY DEF PreviewInit, PreviewInv, PreviewSoFar, ResultIsOfPatch

\* What is patched in part is no longer what the patch applies to.
LEMMA PatchedInPart ==
  ASSUME NEW tree, ~Applies(tree)
  PROVE  ~Applies(Patched(tree, {f \in DOMAIN Patch : Matches(f, tree)}))
  <1>1. PICK f \in DOMAIN Patch : ~Matches(f, tree)
    BY DEF Applies
  <1>2. f \in Sources
    BY PatchAssumption
  <1>. DEFINE some == {g \in DOMAIN Patch : Matches(g, tree)}
  <1>3. f \notin some
    BY <1>1
  <1>. HIDE DEF some
  <1>4. Patched(tree, some)[f] = tree[f]
    BY <1>2, <1>3 DEF Patched
  <1>5. ~Applies(Patched(tree, some))
    BY <1>1, <1>4 DEF Applies, Matches
  <1>. QED
    BY <1>5 DEF some

\* The steps of a preview, and of who edits the sources.
PreviewStep ==
    \/ \E f \in Sources : BeginPreview(<<"project", f>>)
    \/ \E f \in Sources : CopyFile(f)
    \/ CopyAgain \/ PatchCli \/ GitApply \/ ScanAndProve \/ Show \/ PreviewFails \/ EditSource
    \/ UNCHANGED previewVars

LEMMA PreviewNext ==
  ASSUME PreviewSoFar, ResultIsOfPatch, PreviewStep
  PROVE  PreviewSoFar' /\ ResultIsOfPatch'
  <1>1. ASSUME NEW f \in Sources, BeginPreview(<<"project", f>>) PROVE PreviewSoFar' /\ ResultIsOfPatch'
    BY <1>1 DEF BeginPreview, PreviewSoFar, ResultIsOfPatch
  <1>2. ASSUME NEW f \in Sources, CopyFile(f) PROVE PreviewSoFar' /\ ResultIsOfPatch'
    BY <1>2 DEF CopyFile, At, PreviewSoFar, ResultIsOfPatch
  <1>3. ASSUME CopyAgain PROVE PreviewSoFar' /\ ResultIsOfPatch'
    BY <1>3 DEF CopyAgain, At, Goto, PreviewSoFar, ResultIsOfPatch
  <1>4. ASSUME PatchCli PROVE PreviewSoFar' /\ ResultIsOfPatch'
    <2>1. /\ preview # NoPreview /\ preview.at = "patch" /\ after = before /\ shown = NoPreview
          /\ DOMAIN before = Sources
          /\ preview \in [at : {"copy", "patch", "git", "scan", "show"}, finding : {"project"} \X Sources,
                          log : SUBSET ({"before", "after"} \X Sources)]
      BY <1>4 DEF PatchCli, At, PreviewSoFar
    <2>2. patched'.before = before /\ before' = before /\ shown' = shown
      BY <1>4 DEF PatchCli
    <2>3. CASE Applies(after) /\ after' = Patched(after, DOMAIN Patch) /\ Goto("scan")
      <3>1. Applies(before)' /\ after' = Patched(before, DOMAIN Patch)'
        BY <2>1, <2>2, <2>3 DEF Applies, Matches, Patched
      <3>. QED
        BY <2>1, <2>2, <2>3, <3>1 DEF PreviewSoFar, ResultIsOfPatch, Goto
    <2>4. CASE /\ ~Applies(after) /\ after' = Patched(after, {f \in DOMAIN Patch : Matches(f, after)})
               /\ Goto("git")
      <3>1. ~Applies(after')
        BY <2>4, PatchedInPart
      <3>. QED
        BY <2>1, <2>2, <2>4, <3>1 DEF PreviewSoFar, ResultIsOfPatch, Goto
    <2>5. CASE UNCHANGED after /\ Goto("git")
      BY <2>1, <2>2, <2>5 DEF PreviewSoFar, ResultIsOfPatch, Goto
    <2>. QED
      BY <1>4, <2>3, <2>4, <2>5 DEF PatchCli
  <1>5. ASSUME GitApply PROVE PreviewSoFar' /\ ResultIsOfPatch'
    <2>1. /\ preview # NoPreview /\ preview.at = "git" /\ shown = NoPreview /\ DOMAIN before = Sources
          /\ Applies(after) => after = before
          /\ preview \in [at : {"copy", "patch", "git", "scan", "show"}, finding : {"project"} \X Sources,
                          log : SUBSET ({"before", "after"} \X Sources)]
      BY <1>5 DEF GitApply, At, PreviewSoFar
    <2>2. patched'.before = before /\ shown' = shown
      BY <1>5 DEF GitApply
    <2>3. CASE Applies(after) /\ after' = Patched(after, DOMAIN Patch) /\ Goto("scan") /\ UNCHANGED before
      <3>1. Applies(before)' /\ after' = Patched(before, DOMAIN Patch)'
        BY <2>1, <2>2, <2>3 DEF Applies, Matches, Patched
      <3>. QED
        BY <2>1, <2>2, <2>3, <3>1 DEF PreviewSoFar, ResultIsOfPatch, Goto
    <2>4. CASE preview' = NoPreview
      BY <2>1, <2>2, <2>4 DEF PreviewSoFar, ResultIsOfPatch
    <2>. QED
      BY <1>5, <2>3, <2>4 DEF GitApply
  <1>6. ASSUME ScanAndProve PROVE PreviewSoFar' /\ ResultIsOfPatch'
    <2>1. Ids("before", before) \cup Ids("after", after) \subseteq {"before", "after"} \X Sources
      BY DEF Ids
    <2>2. /\ preview # NoPreview /\ preview.at = "scan" /\ shown = NoPreview /\ DOMAIN before = Sources
          /\ Applies(before) /\ after = Patched(before, DOMAIN Patch) /\ patched.before = before
          /\ preview \in [at : {"copy", "patch", "git", "scan", "show"}, finding : {"project"} \X Sources,
                          log : SUBSET ({"before", "after"} \X Sources)]
      BY <1>6 DEF ScanAndProve, At, PreviewSoFar
    <2>3. before' = before /\ after' = after /\ shown' = shown /\ patched' = patched
          /\ preview' = [preview EXCEPT !.at = "show", !.log = Ids("before", before) \cup Ids("after", after)]
      BY <1>6 DEF ScanAndProve
    <2>4. /\ preview' \in [at : {"copy", "patch", "git", "scan", "show"}, finding : {"project"} \X Sources,
                          log : SUBSET ({"before", "after"} \X Sources)]
          /\ preview'.at = "show"
      <3>. DEFINE ids == Ids("before", before) \cup Ids("after", after)
      <3>. HIDE DEF ids
      <3>. QED
        BY <2>1, <2>2, <2>3 DEF ids
    <2>5. Applies(before)' /\ after' = Patched(before, DOMAIN Patch)'
      BY <2>2, <2>3 DEF Applies, Matches, Patched
    <2>. QED
      BY <2>2, <2>3, <2>4, <2>5 DEF PreviewSoFar, ResultIsOfPatch
  <1>7. ASSUME Show PROVE PreviewSoFar' /\ ResultIsOfPatch'
    <2>1. Applies(before) /\ after = Patched(before, DOMAIN Patch) /\ patched.before = before
      BY <1>7 DEF Show, At, PreviewSoFar
    <2>2. /\ shown'.before = Cardinality(Ids("before", before)) /\ shown'.after = Cardinality(Ids("after", after))
          /\ patched' = patched /\ preview' = NoPreview
      BY <1>7 DEF Show
    <2>3. ResultIsOfPatch'
      BY <2>1, <2>2 DEF ResultIsOfPatch, Applies, Matches, Patched, Ids
    <2>. QED
      BY <2>2, <2>3 DEF PreviewSoFar
  <1>8. ASSUME PreviewFails PROVE PreviewSoFar' /\ ResultIsOfPatch'
    BY <1>8 DEF PreviewFails, PreviewSoFar, ResultIsOfPatch
  <1>9. ASSUME UNCHANGED <<before, after, preview, shown, patched>> PROVE PreviewSoFar' /\ ResultIsOfPatch'
    <2>1. PreviewSoFar'
      BY <1>9 DEF PreviewSoFar, Applies, Matches, Patched
    <2>2. ResultIsOfPatch'
      BY <1>9 DEF ResultIsOfPatch, Applies, Matches, Patched, Ids
    <2>. QED
      BY <2>1, <2>2
  <1>. QED
    BY <1>1, <1>2, <1>3, <1>4, <1>5, <1>6, <1>7, <1>8, <1>9 DEF PreviewStep, EditSource, previewVars

-----------------------------------------------------------------------------
(* All of them *)

WorkspaceInv == crashes \in Nat /\ ArchInv /\ VerdictIsOfSettings /\ RuleInv /\ PreviewInv

\* A step is a step of one of the three, and of the others none.
LEMMA StepsOfEach == [Next]_vars => ArchStep /\ RuleStep /\ PreviewStep
  <1>. SUFFICES ASSUME [Next]_vars PROVE ArchStep /\ RuleStep /\ PreviewStep
    OBVIOUS
  <1>. USE DEF ArchStep, RuleStep, PreviewStep
  <1>1. CASE Begins
    BY <1>1 DEF Begins
  <1>2. CASE Steps
    BY <1>2 DEF Steps
  <1>3. CASE Crashes
    BY <1>3 DEF Crashes
  <1>4. CASE Edits
    BY <1>4 DEF Edits
  <1>5. CASE UNCHANGED vars
    BY <1>5 DEF vars
  <1>. QED
    BY <1>1, <1>2, <1>3, <1>4, <1>5 DEF Next

LEMMA WorkspaceInvInductive == Init /\ [][Next]_vars => []WorkspaceInv
  <1>1. Init => WorkspaceInv
    <2>1. ArchInit => VerdictIsOfSettings
      BY DEF ArchInit, VerdictIsOfSettings
    <2>. QED
      BY <2>1, ArchInitInv, RuleInitInv, PreviewInitInv DEF Init, WorkspaceInv
  <1>2. WorkspaceInv /\ [Next]_vars => WorkspaceInv'
    <2>. SUFFICES ASSUME WorkspaceInv, [Next]_vars PROVE WorkspaceInv'
      OBVIOUS
    <2>1. ArchStep /\ RuleStep /\ PreviewStep
      BY StepsOfEach
    <2>2. ArchInv'
      BY <2>1, ArchTypeStep, InstallSoFarStep, MarksKeptStep DEF WorkspaceInv, ArchInv
    <2>3. VerdictIsOfSettings'
      BY <2>1, VerdictStep DEF WorkspaceInv, ArchInv
    <2>4. RuleInv'
      BY <2>1, RuleTypeStep, ExportStep DEF WorkspaceInv, RuleInv
    <2>5. PreviewInv'
      BY <2>1, PreviewNext DEF WorkspaceInv, PreviewInv
    <2>6. crashes' \in Nat
      BY DEF WorkspaceInv, Next, bounds, vars
    <2>. QED
      BY <2>2, <2>3, <2>4, <2>5, <2>6 DEF WorkspaceInv
  <1>. QED
    BY <1>1, <1>2, PTL

(***************************************************************************)
(* The state of all three is what their parts say (settings, .gitignore,   *)
(* the running commands, the stages of an install, an export, a preview).  *)
(***************************************************************************)
THEOREM CommandsKeepOrder == Spec => []WorkspaceInv
  BY WorkspaceInvInductive DEF Spec

(***************************************************************************)
(* InstallIsWhole, for any templates and whatever the user writes: an      *)
(* install that ended has left every template and one whole block.         *)
(***************************************************************************)
THEOREM InstallsAreWhole == Spec => []InstallIsWhole
  <1>1. WorkspaceInv => InstallIsWhole
    BY DEF WorkspaceInv, ArchInv, InstallSoFar, MarksKept, HasBlock, InstallIsWhole
  <1>. QED
    BY <1>1, CommandsKeepOrder, PTL

(***************************************************************************)
(* VerdictIsOfSettings, for any documents: a check that passed leaves no   *)
(* environment that is spoken of unsafe, and one of the settings alone     *)
(* that failed has found one (secure-arch-cli/src/checks).                 *)
(***************************************************************************)
THEOREM VerdictsAreOfSettings == Spec => []VerdictIsOfSettings
  <1>1. WorkspaceInv => VerdictIsOfSettings
    BY DEF WorkspaceInv
  <1>. QED
    BY <1>1, CommandsKeepOrder, PTL

(***************************************************************************)
(* ExportIsOfOneConfig, for any configurations and any requests: the files *)
(* of an export that ended well are of the configuration it read.          *)
(***************************************************************************)
THEOREM ExportsAreOfOneConfig == Spec => []ExportIsOfOneConfig
  <1>1. WorkspaceInv => ExportIsOfOneConfig
    BY DEF WorkspaceInv, RuleInv
  <1>. QED
    BY <1>1, CommandsKeepOrder, PTL

(***************************************************************************)
(* ResultIsOfPatch, for any project and any patch: what a preview shows is *)
(* of a tree and of that tree after the whole patch.                       *)
(***************************************************************************)
THEOREM ResultsAreOfPatch == Spec => []ResultIsOfPatch
  <1>1. WorkspaceInv => ResultIsOfPatch
    BY DEF WorkspaceInv, PreviewInv
  <1>. QED
    BY <1>1, CommandsKeepOrder, PTL

(***************************************************************************)
(* KeepsUsersWork: no command changes a settings file of the user's but an *)
(* install that is told to, none their configuration, and none takes a     *)
(* line of theirs out of .gitignore that is not between a BEGIN and the    *)
(* first END after it, unless it is killed in that write; whatever lines   *)
(* and markers they put in or take out, anywhere.  While the markers are   *)
(* as the installs left them, only lines that they put between them go.    *)
(***************************************************************************)
THEOREM UsersWorkIsKept == Spec => KeepsUsersWork
  <1>. DEFINE Kept ==
          /\ \A f \in SettingsFiles :
                settings[f] \in UserDocs[f] /\ settings'[f] # settings[f] => Running /\ install.force
          /\ config \in Configs => config' = config
          /\ ignores' # ignores /\ crashes' = crashes =>
                /\ LostBetweenMarks(ignores, ignores')
                /\ unmarked \/ LinesIn(Own \ inside, ignores') = LinesIn(Own \ inside, ignores)
  <1>1. ASSUME WorkspaceInv, [Next]_vars
        PROVE  Edits \/ Kept \/ UNCHANGED vars
    <2>. SUFFICES ASSUME Next, ~Edits PROVE Kept
      <3>. HIDE DEF Kept
      <3>. QED
        BY <1>1
    <2>1. \A f \in SettingsFiles : settings[f] \in UserDocs[f] => settings[f] # Absent
      <3>1. \A f \in SettingsFiles : settings[f] \in UserDocs[f] => settings[f] \in Documents
        BY DEF Documents
      <3>. QED
        BY <3>1, DocumentsAreSettings
    <2>2. \A f \in SettingsFiles :
              settings[f] \in UserDocs[f] /\ settings'[f] # settings[f] => Running /\ install.force
      <3>. SUFFICES ASSUME NEW f \in SettingsFiles, settings[f] # Absent, settings'[f] # settings[f]
                    PROVE  Running /\ install.force
        BY <2>1
      <3>1. settings \in [SettingsFiles -> Documents \cup {Absent, Torn}]
        BY <1>1 DEF WorkspaceInv, ArchInv, ArchTypeOK
      <3>2. settings' # settings
        OBVIOUS
      <3>3. (\E g \in DOMAIN Template : CopyTemplate(g)) \/ ArchCrash
        <4>2. CASE Begins
          BY <3>2, <4>2 DEF Begins, BeginInstall, RunCheck, archVars
        <4>3. CASE Steps
          BY <3>2, <4>3 DEF Steps, CopySchema, WriteIgnores, archVars
        <4>4. CASE Crashes
          BY <3>2, <4>4 DEF Crashes, archVars
        <4>. QED
          BY <4>2, <4>3, <4>4 DEF Next
      <3>4. ASSUME NEW g \in DOMAIN Template, CopyTemplate(g) PROVE Running /\ install.force
        BY <3>1, <3>4 DEF CopyTemplate, Running
      <3>5. ASSUME ArchCrash PROVE Running /\ install.force
        BY <3>1, <3>5 DEF ArchCrash, Running
      <3>. QED
        BY <3>3, <3>4, <3>5
    <2>3. config \in Configs => config' = config
      <3>. SUFFICES ASSUME config \in Configs PROVE config' = config
        OBVIOUS
      <3>1. config # Missing
        BY ConfigsAssumption
      <3>2. CASE Begins
        BY <3>2 DEF Begins, BeginExport, BeginInit, BeginBootstrap, ruleVars
      <3>3. CASE Steps
        BY <3>1, <3>3 DEF Steps, WriteRules, WriteConfig, WriteWorkflow, ruleVars
      <3>4. CASE Crashes
        BY <3>1, <3>4 DEF Crashes, WriteFails, RuleCrash, ruleVars
      <3>. QED
        BY <3>2, <3>3, <3>4 DEF Next
    <2>4. ignores' # ignores /\ crashes' = crashes =>
              /\ LostBetweenMarks(ignores, ignores')
              /\ unmarked \/ LinesIn(Own \ inside, ignores') = LinesIn(Own \ inside, ignores)
      <3>1. CASE Begins
        BY <3>1 DEF Begins, BeginInstall, RunCheck, archVars
      <3>2. CASE Steps
        <4>1. ignores' = ignores \/ ignores' = EnsureGitignorePatterns(ignores)
          BY <3>2 DEF Steps, CopyTemplate, CopySchema, WriteIgnores, archVars
        <4>. DEFINE S == Own \cap inside
        <4>2. ignores \in Seq(Lines) /\ (unmarked \/ Marked(ignores, S) \/ NoMarks(ignores))
          BY <1>1 DEF WorkspaceInv, ArchInv, ArchTypeOK, MarksKept
        <4>3. S \in SUBSET Own /\ Own \ S = Own \ inside
          OBVIOUS
        <4>. HIDE DEF S
        <4>4. LostBetweenMarks(ignores, EnsureGitignorePatterns(ignores))
          BY <4>2, LostAreBetween
        <4>5. unmarked \/ LinesIn(Own \ S, EnsureGitignorePatterns(ignores)) = LinesIn(Own \ S, ignores)
          BY <4>2, <4>3, LinesStay
        <4>. QED
          BY <4>1, <4>3, <4>4, <4>5
      <3>3. CASE crashes' = crashes + 1
        BY <1>1, <3>3 DEF WorkspaceInv
      <3>. QED
        BY <3>1, <3>2, <3>3 DEF Next
    <2>. QED
      BY <2>2, <2>3, <2>4
  <1>2. WorkspaceInv /\ [Next]_vars => [Edits \/ Kept]_vars
    BY <1>1
  <1>3. Spec => [][Edits \/ Kept]_vars
    BY <1>2, CommandsKeepOrder, PTL DEF Spec
  <1>. QED
    BY <1>3 DEF KeepsUsersWork
===============================================================================
