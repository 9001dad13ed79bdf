----------------------------- MODULE Demo_proofs -----------------------------
(***************************************************************************)
(* Proofs about the demo.  Of DemoAdmission, for every number of requests  *)
(* and addresses and every value of the limits: the type invariant, what   *)
(* the limits let by, and when they do not hold.  Of DemoClient, for any   *)
(* number of scans, polls and comparisons: the type invariant, that a      *)
(* disabled button is always waited for, that the frame shows the scan     *)
(* whose results are shown, and that nothing of an unsaved scan is ever on *)
(* the page.  Of CloneCache: whatever the jobs, the git processes and the  *)
(* timers do, a directory no two jobs share holds a whole clone from the   *)
(* moment its job's git succeeds, so that the cache names whole clones,    *)
(* copies are whole, and nothing cached is cloned again.                   *)
(***************************************************************************)
EXTENDS DemoAdmission, DemoClient, CloneCache, FiniteSetTheorems, WellFoundedInduction, TLAPS

-----------------------------------------------------------------------------
(* DemoAdmission *)

LEMMA CountedType ==
    ASSUME TypeOK, NEW i \in Ips
    PROVE  Counted(i) \in [start : 0..MaxTime, count : Nat]
<1>1. CASE WindowOver(i)
    BY <1>1 DEF Counted, TypeOK
<1>2. CASE ~WindowOver(i)
    BY <1>2 DEF Counted, TypeOK, WindowOver
<1> QED BY <1>1, <1>2

(***************************************************************************)
(* Type correctness of the admission handler.                              *)
(***************************************************************************)
THEOREM TypeCorrect == Spec => []TypeOK
<1>1. Init => TypeOK
    BY TimeAssumption DEF Init, TypeOK, Unseen, NotPassed, PostStates, JobStates
<1>2. TypeOK /\ [Next]_vars => TypeOK'
    <2> SUFFICES ASSUME TypeOK, [Next]_vars PROVE TypeOK'
        OBVIOUS
    <2>1. CASE Tick
        BY <2>1, TimeAssumption DEF Tick, TypeOK
    <2>2. ASSUME NEW r \in Requests, RefuseBusy(r) \/ RefuseLimited(r) \/ RejectBody(r)
          PROVE  TypeOK'
        BY <2>2 DEF RefuseBusy, RefuseLimited, RejectBody, TypeOK, PostStates
    <2>3. ASSUME NEW r \in Requests, PassChecks(r)
          PROVE  TypeOK'
        <3>1. ClientIp[r] \in Ips
            BY ClientIpAssumption
        <3>2. Counted(ClientIp[r]) \in [start : 0..MaxTime, count : Nat]
            BY <3>1, CountedType
        <3>3. counter' \in [Ips -> [start : 0..MaxTime, count : Nat] \cup {Unseen}]
            BY <2>3, <3>1, <3>2 DEF PassChecks, TypeOK
        <3>4. passed' \in [Requests -> [at : 0..MaxTime, win : 0..MaxTime] \cup {NotPassed}]
            BY <2>3, <3>2 DEF PassChecks, TypeOK
        <3>5. saw' \in [Requests -> SUBSET Requests]
            BY <2>3 DEF PassChecks, TypeOK, Active
        <3> QED BY <2>3, <3>3, <3>4, <3>5 DEF PassChecks, TypeOK, PostStates
    <2>4. ASSUME NEW r \in Requests, Register(r) \/ Settle(r)
          PROVE  TypeOK'
        BY <2>4 DEF Register, Settle, TypeOK, PostStates, JobStates
    <2>5. CASE UNCHANGED vars
        BY <2>5 DEF vars, TypeOK
    <2> QED BY <2>1, <2>2, <2>3, <2>4, <2>5 DEF Next
<1> QED BY <1>1, <1>2, PTL DEF Spec

-----------------------------------------------------------------------------
(***************************************************************************)
(* The inductive part of ExcessOnlyFromRaces.  "p was counted when r was   *)
(* checked" is transitive among running scans, and no scan was admitted    *)
(* after MaxConcurrent others that are still running.                      *)
(***************************************************************************)
RaceInv ==
    /\ \A r \in Requests : post[r] # "accepted" => job[r] = "none"
    /\ \A r \in Requests : saw[r] \subseteq Active \ {r}
    /\ \A r \in Requests :
        post[r] = "body" \/ r \in Active => Cardinality(saw[r]) < MaxConcurrent
    /\ \A p, q, r \in Requests : p \in saw[q] /\ q \in saw[r] => p \in saw[r]

LEMMA ActiveFinite ==
    ASSUME NEW S \in SUBSET Requests
    PROVE  IsFiniteSet(S) /\ Cardinality(S) \in Nat
BY RequestsAssumption, FS_Subset, FS_CardinalityType

LEMMA RaceInvStep == TypeOK /\ RaceInv /\ [Next]_vars => RaceInv'
<1> SUFFICES ASSUME TypeOK, RaceInv, [Next]_vars PROVE RaceInv'
    OBVIOUS
<1>1. CASE Tick
    BY <1>1 DEF Tick, RaceInv, Active
<1>2. ASSUME NEW r \in Requests, RefuseBusy(r) \/ RefuseLimited(r) \/ RejectBody(r)
      PROVE  RaceInv'
    BY <1>2 DEF RefuseBusy, RefuseLimited, RejectBody, RaceInv, Active, TypeOK
<1>3. ASSUME NEW r \in Requests, PassChecks(r)
      PROVE  RaceInv'
    <2>1. /\ post' = [post EXCEPT ![r] = "body"]
          /\ saw' = [saw EXCEPT ![r] = Active]
          /\ job' = job /\ Active' = Active
          /\ Cardinality(Active) < MaxConcurrent
          /\ job[r] = "none" /\ r \notin Active
        BY <1>3 DEF PassChecks, RaceInv, Active
    <2>2. \A q \in Requests : r \notin saw[q] /\ saw'[q] \subseteq Active \ {q}
        BY <2>1 DEF RaceInv, TypeOK
    <2>3. \A p, q, z \in Requests : p \in saw'[q] /\ q \in saw'[z] => p \in saw'[z]
        BY <2>1, <2>2 DEF RaceInv, TypeOK
    <2>4. \A q \in Requests :
            post'[q] = "body" \/ q \in Active => Cardinality(saw'[q]) < MaxConcurrent
        BY <2>1 DEF RaceInv, TypeOK
    <2>5. \A q \in Requests : post'[q] # "accepted" => job'[q] = "none"
        BY <2>1 DEF RaceInv, TypeOK
    <2> QED BY <2>1, <2>2, <2>3, <2>4, <2>5 DEF RaceInv
<1>4. ASSUME NEW r \in Requests, Register(r)
      PROVE  RaceInv'
    <2>1. Active' = Active \cup {r} /\ saw' = saw /\ post[r] = "body"
        BY <1>4 DEF Register, Active, TypeOK
    <2> QED BY <2>1, <1>4 DEF Register, RaceInv, TypeOK
<1>5. ASSUME NEW r \in Requests, Settle(r)
      PROVE  RaceInv'
    <2>1. /\ Active' = Active \ {r} /\ post' = post /\ r \in Active
          /\ job' = [job EXCEPT ![r] = "ended"]
          /\ saw' = [q \in Requests |-> IF q = r THEN {} ELSE saw[q] \ {r}]
        BY <1>5 DEF Settle, Active, TypeOK
    <2>2. \A q \in Requests : q # r => Cardinality(saw'[q]) <= Cardinality(saw[q])
        <3> SUFFICES ASSUME NEW q \in Requests, q # r
                     PROVE  Cardinality(saw[q] \ {r}) <= Cardinality(saw[q])
            BY <2>1
        <3> QED BY ActiveFinite, FS_Subset DEF TypeOK
    <2>3. \A q \in Requests : saw[q] \in SUBSET Requests /\ saw'[q] \in SUBSET Requests
        BY <2>1 DEF TypeOK
    <2>4. \A q \in Requests :
            post'[q] = "body" \/ q \in Active' => Cardinality(saw'[q]) < MaxConcurrent
        <3> SUFFICES ASSUME NEW q \in Requests, post[q] = "body" \/ q \in Active \ {r}
                     PROVE  Cardinality(saw'[q]) < MaxConcurrent
            BY <2>1
        <3>1. post[r] = "accepted"
            BY <2>1 DEF RaceInv, Active, TypeOK, JobStates
        <3>2. q # r
            BY <3>1
        <3>3. Cardinality(saw[q]) < MaxConcurrent
            BY DEF RaceInv
        <3> QED BY <3>2, <3>3, <2>2, <2>3, ActiveFinite, LimitsAssumption
    <2>5. \A q \in Requests : saw'[q] \subseteq Active' \ {q}
        BY <2>1 DEF RaceInv
    <2>6. \A p, q, z \in Requests : p \in saw'[q] /\ q \in saw'[z] => p \in saw'[z]
        BY <2>1 DEF RaceInv
    <2>7. \A q \in Requests : post'[q] # "accepted" => job'[q] = "none"
        BY <2>1 DEF RaceInv, Active, TypeOK
    <2> QED BY <2>4, <2>5, <2>6, <2>7 DEF RaceInv
<1>6. CASE UNCHANGED vars
    BY <1>6 DEF vars, RaceInv, Active
<1> QED BY <1>1, <1>2, <1>3, <1>4, <1>5, <1>6 DEF Next

(***************************************************************************)
(* Of running scans of which no two raced, one was checked last and has    *)
(* counted all the others: the one whose set of uncounted ones is minimal. *)
(***************************************************************************)
LEMMA RaceInvImplies == TypeOK /\ RaceInv => ExcessOnlyFromRaces
<1> SUFFICES ASSUME TypeOK, RaceInv,
                    NEW S \in SUBSET Active,
                    \A p, q \in S : p # q => ~Raced(p, q)
             PROVE  Cardinality(S) <= MaxConcurrent
    BY DEF ExcessOnlyFromRaces
<1>1. S \in SUBSET Requests /\ IsFiniteSet(S) /\ Cardinality(S) \in Nat
    BY ActiveFinite DEF Active
<1>2. CASE S = {}
    BY <1>2, FS_EmptySet, LimitsAssumption
<1>3. CASE S # {}
    <2> DEFINE Missed == {S \ saw[r] : r \in S}
    <2>1. Missed \subseteq FiniteSubsetsOf(S) /\ Missed # {}
        <3>1. FiniteSubsetsOf(S) = SUBSET S
            BY <1>1, FS_FiniteSubsetsOfFinite
        <3>2. Missed \subseteq SUBSET S
            OBVIOUS
        <3>3. PICK r \in S : TRUE
            BY <1>3
        <3>4. S \ saw[r] \in Missed
            OBVIOUS
        <3> QED BY <3>1, <3>2, <3>4
    <2>2. PICK M \in Missed : \A N \in Missed : ~(<<N, M>> \in StrictSubsetOrdering(S))
        <3> HIDE DEF Missed
        <3> QED BY <2>1, FS_StrictSubsetOrderingWellFounded, WFMin
    <2>3. PICK r \in S : M = S \ saw[r]
        OBVIOUS
    <2>4. \A q \in S : q # r => q \in saw[r]
        <3> SUFFICES ASSUME NEW q \in S, q # r, q \notin saw[r] PROVE FALSE
            OBVIOUS
        <3>1. r \in saw[q]
            BY DEF Raced
        <3>2. S \ saw[q] \subseteq S \ saw[r]
            BY <1>1, <3>1 DEF RaceInv
        <3>3. r \in S \ saw[r]
            BY <1>1 DEF RaceInv
        <3>4. <<S \ saw[q], S \ saw[r]>> \in StrictSubsetOrdering(S)
            BY <3>1, <3>2, <3>3 DEF StrictSubsetOrdering
        <3> QED BY <3>4, <2>2, <2>3
    <2>5. S \ {r} \subseteq saw[r]
        BY <2>4
    <2>6. Cardinality(saw[r]) < MaxConcurrent /\ saw[r] \in SUBSET Requests
        BY DEF RaceInv, TypeOK, Active
    <2>7. Cardinality(S \ {r}) <= Cardinality(saw[r])
        BY <2>5, <2>6, ActiveFinite, FS_Subset
    <2>8. Cardinality(S \ {r}) = Cardinality(S) - 1
        BY <1>1, FS_RemoveElement
    <2> QED BY <1>1, <2>6, <2>7, <2>8, ActiveFinite, LimitsAssumption
<1> QED BY <1>2, <1>3

(***************************************************************************)
(* MAX_CONCURRENT is exceeded only by requests that overlap in their body  *)
(* await.                                                                  *)
(***************************************************************************)
THEOREM RacesOnly == Spec => []ExcessOnlyFromRaces
<1>1. Init => RaceInv
    BY LimitsAssumption, FS_EmptySet DEF Init, RaceInv, Active
<1> QED BY <1>1, TypeCorrect, RaceInvStep, RaceInvImplies, PTL DEF Spec

-----------------------------------------------------------------------------
(***************************************************************************)
(* The inductive part of the rate limiter's properties: every request it   *)
(* let by lies inside its window, an address's windows do not overlap and  *)
(* the one in ipCounters is the latest, and its count is exact.            *)
(***************************************************************************)
Passed(r) == passed[r] # NotPassed

PassedInside ==
    \A r \in Requests :
        /\ post[r] = "idle" => ~Passed(r)
        /\ Passed(r) =>
            /\ passed[r].win <= passed[r].at
            /\ passed[r].at <= passed[r].win + Window
            /\ passed[r].at <= now
            /\ counter[ClientIp[r]] # Unseen
            /\ \/ passed[r].win = counter[ClientIp[r]].start
               \/ passed[r].win + Window < counter[ClientIp[r]].start

WindowsApart ==
    \A p, q \in Requests :
        /\ Passed(p) /\ Passed(q)
        /\ ClientIp[p] = ClientIp[q]
        /\ passed[p].win < passed[q].win
        => passed[p].win + Window < passed[q].win

RateInv ==
    /\ PassedInside
    /\ WindowsApart
    /\ \A i \in Ips : counter[i] # Unseen => counter[i].start <= now
    /\ WindowCountExact

LEMMA QuotaType == Quota \in Nat \ {0}
BY LimitsAssumption DEF Quota

LEMMA InWindowFinite ==
    ASSUME NEW i, NEW s
    PROVE  IsFiniteSet(InWindow(i, s)) /\ Cardinality(InWindow(i, s)) \in Nat
BY ActiveFinite DEF InWindow

LEMMA PassKeepsRateInv ==
    ASSUME TypeOK, RateInv, NEW r \in Requests, PassChecks(r)
    PROVE  RateInv'
<1> DEFINE i == ClientIp[r]
           c == Counted(i)
<1>1. /\ i \in Ips /\ now \in Nat
      /\ c.start \in Nat /\ c.count \in Nat /\ c # Unseen
      /\ c = [start |-> c.start, count |-> c.count]
    BY CountedType, ClientIpAssumption, TimeAssumption DEF TypeOK, Unseen
<1>2. /\ counter' = [counter EXCEPT ![i] = c]
      /\ passed' = [passed EXCEPT ![r] = [at |-> now, win |-> c.start]]
      /\ post' = [post EXCEPT ![r] = "body"]
      /\ now' = now
      /\ RateLimitOk(i)
      /\ passed[r] = NotPassed
    BY DEF PassChecks, RateInv, PassedInside, Passed
<1>3. \A q \in Requests : Passed(q) =>
        /\ passed[q].at \in Nat /\ passed[q].win \in Nat
        /\ counter[ClientIp[q]].start \in Nat
        /\ counter[ClientIp[q]].start <= now
    BY ClientIpAssumption, TimeAssumption DEF TypeOK, RateInv, PassedInside, Passed
<1>4. \A j, s : s \in Nat => InWindow(j, s) \subseteq {q \in Requests : Passed(q)}
    BY DEF InWindow, Passed, NotPassed
<1>5. \A j, s : s \in Nat => r \notin InWindow(j, s)
    BY <1>2, <1>4 DEF Passed
<1>6. /\ c.start <= now /\ now <= c.start + Window
      /\ \A q \in Requests : Passed(q) /\ ClientIp[q] = i =>
            passed[q].win = c.start \/ passed[q].win + Window < c.start
      /\ c.count = Cardinality(InWindow(i, c.start)) + 1
      /\ c.count <= Quota
    <2>1. CASE WindowOver(i)
        <3>1. c.start = now /\ c.count = 1
            BY <2>1 DEF Counted
        <3>2. \A q \in Requests : Passed(q) /\ ClientIp[q] = i => passed[q].win + Window < now
            BY <2>1, <1>1, <1>3, LimitsAssumption DEF WindowOver, RateInv, PassedInside
        <3>3. InWindow(i, now) = {}
            <4> SUFFICES ASSUME NEW q \in InWindow(i, now) PROVE FALSE
                OBVIOUS
            <4>1. q \in Requests /\ Passed(q) /\ ClientIp[q] = i /\ passed[q].win = now
                BY <1>1, <1>4 DEF InWindow
            <4> QED BY <4>1, <1>1, <3>2, LimitsAssumption
        <3> QED BY <1>1, <3>1, <3>2, <3>3, FS_EmptySet, QuotaType, LimitsAssumption
    <2>2. CASE ~WindowOver(i)
        <3>1. /\ counter[i] # Unseen /\ counter[i].start \in Nat /\ counter[i].count \in Nat
              /\ now <= counter[i].start + Window /\ counter[i].start <= now
              /\ counter[i].count < RateMax
            BY <1>1, <1>2, <2>2, LimitsAssumption DEF WindowOver, RateLimitOk, TypeOK, RateInv
        <3>2. c.start = counter[i].start /\ c.count = counter[i].count + 1
            BY <2>2 DEF Counted
        <3>3. counter[i].count = Cardinality(InWindow(i, counter[i].start))
            BY <1>1, <3>1 DEF RateInv, WindowCountExact
        <3>4. c.count <= Quota
            BY <3>1, <3>2, LimitsAssumption DEF Quota
        <3>5. \A q \in Requests : Passed(q) /\ ClientIp[q] = i =>
                passed[q].win = c.start \/ passed[q].win + Window < c.start
            BY <3>2 DEF RateInv, PassedInside
        <3> QED BY <3>1, <3>2, <3>3, <3>4, <3>5
    <2> QED BY <2>1, <2>2
<1>7. /\ passed'[r] = [at |-> now, win |-> c.start] /\ Passed(r)'
      /\ \A q \in Requests : q # r => passed'[q] = passed[q] /\ (Passed(q)' <=> Passed(q))
      /\ counter'[i] = c
      /\ \A j \in Ips : j # i => counter'[j] = counter[j]
    BY <1>1, <1>2 DEF TypeOK, Passed, NotPassed
<1> HIDE DEF c
<1>8. PassedInside'
    <2> SUFFICES ASSUME NEW q \in Requests
                 PROVE  /\ post'[q] = "idle" => ~Passed(q)'
                        /\ Passed(q)' =>
                            /\ passed'[q].win <= passed'[q].at
                            /\ passed'[q].at <= passed'[q].win + Window
                            /\ passed'[q].at <= now'
                            /\ counter'[ClientIp[q]] # Unseen
                            /\ \/ passed'[q].win = counter'[ClientIp[q]].start
                               \/ passed'[q].win + Window < counter'[ClientIp[q]].start
        BY DEF PassedInside
    <2>1. CASE q = r
        BY <2>1, <1>1, <1>2, <1>6, <1>7 DEF TypeOK
    <2>2. CASE q # r
        <3>1. post'[q] = "idle" => ~Passed(q)'
            BY <2>2, <1>2, <1>7 DEF RateInv, PassedInside, TypeOK
        <3>2. ASSUME Passed(q)
              PROVE  /\ passed[q].win <= passed[q].at
                     /\ passed[q].at <= passed[q].win + Window
                     /\ passed[q].at <= now
                     /\ counter[ClientIp[q]] # Unseen
                     /\ \/ passed[q].win = counter[ClientIp[q]].start
                        \/ passed[q].win + Window < counter[ClientIp[q]].start
            BY <3>2 DEF RateInv, PassedInside
        <3>3. CASE ClientIp[q] = i
            BY <2>2, <3>1, <3>2, <3>3, <1>1, <1>2, <1>6, <1>7
        <3>4. CASE ClientIp[q] # i
            BY <2>2, <3>1, <3>2, <3>4, <1>2, <1>7, ClientIpAssumption
        <3> QED BY <3>3, <3>4
    <2> QED BY <2>1, <2>2
<1>9. WindowsApart'
    <2> SUFFICES ASSUME NEW p \in Requests, NEW q \in Requests,
                        Passed(p)', Passed(q)', ClientIp[p] = ClientIp[q],
                        passed'[p].win < passed'[q].win
                 PROVE  passed'[p].win + Window < passed'[q].win
        BY DEF WindowsApart
    <2>1. CASE p # r /\ q # r
        BY <2>1, <1>7 DEF RateInv, WindowsApart
    <2>2. CASE p # r /\ q = r
        BY <2>2, <1>1, <1>3, <1>6, <1>7
    <2>3. CASE p = r /\ q # r
        BY <2>3, <1>1, <1>3, <1>6, <1>7, LimitsAssumption
    <2>4. CASE p = r /\ q = r
        BY <2>4, <1>1, <1>7
    <2> QED BY <2>1, <2>2, <2>3, <2>4
<1>10. \A j \in Ips : counter'[j] # Unseen => counter'[j].start <= now'
    BY <1>2, <1>6, <1>7 DEF RateInv
<1>11. \A j \in Ips, s \in Nat :
        InWindow(j, s)' = IF j = i /\ s = c.start THEN InWindow(j, s) \cup {r}
                                                  ELSE InWindow(j, s)
    BY <1>5, <1>7 DEF InWindow
<1>12. Cardinality(InWindow(i, c.start) \cup {r}) = Cardinality(InWindow(i, c.start)) + 1
    BY <1>1, <1>5, InWindowFinite, FS_AddElement
<1>13. WindowCountExact'
    <2> SUFFICES ASSUME NEW j \in Ips
                 PROVE  /\ counter'[j] # Unseen =>
                            counter'[j].count = Cardinality(InWindow(j, counter[j].start))'
                        /\ \A s \in 0..MaxTime : Cardinality(InWindow(j, s)') <= Quota
        BY DEF WindowCountExact, InWindow
    <2>1. \A s \in 0..MaxTime : Cardinality(InWindow(j, s)') <= Quota
        <3> SUFFICES ASSUME NEW s \in 0..MaxTime
                     PROVE  Cardinality(InWindow(j, s)') <= Quota
            OBVIOUS
        <3>1. CASE j = i /\ s = c.start
            <4>1. InWindow(j, s)' = InWindow(i, c.start) \cup {r}
                BY <3>1, <1>1, <1>11
            <4> QED BY <4>1, <1>6, <1>12
        <3>2. CASE ~(j = i /\ s = c.start)
            BY <3>2, <1>11, TimeAssumption DEF RateInv, WindowCountExact
        <3> QED BY <3>1, <3>2
    <2>2. CASE j = i
        BY <2>1, <2>2, <1>1, <1>6, <1>7, <1>11, <1>12
    <2>3. CASE j # i
        BY <2>1, <2>3, <1>7, <1>11 DEF RateInv, WindowCountExact, TypeOK
    <2> QED BY <2>2, <2>3
<1> QED BY <1>8, <1>9, <1>10, <1>13 DEF RateInv

\* The steps that leave the limiter alone.
LEMMA OthersKeepRateInv ==
    ASSUME TypeOK, RateInv, now' \in Nat, now <= now',
           UNCHANGED <<counter, passed>>,
           \A r \in Requests : post'[r] = "idle" => post[r] = "idle"
    PROVE  RateInv'
<1>1. \A i, s : InWindow(i, s)' = InWindow(i, s)
    BY DEF InWindow
<1>2. WindowCountExact'
    BY <1>1 DEF RateInv, WindowCountExact
<1>3. WindowsApart' /\ \A r \in Requests : Passed(r)' <=> Passed(r)
    BY DEF RateInv, WindowsApart, Passed
<1>4. \A i \in Ips : counter'[i] # Unseen => counter'[i].start <= now'
    BY DEF RateInv, TypeOK
<1>5. PassedInside'
    BY <1>3 DEF RateInv, PassedInside, TypeOK, Passed
<1> QED BY <1>2, <1>3, <1>4, <1>5 DEF RateInv

LEMMA RateInvStep == TypeOK /\ RateInv /\ [Next]_vars => RateInv'
<1> SUFFICES ASSUME TypeOK, RateInv, [Next]_vars PROVE RateInv'
    OBVIOUS
<1> now \in Nat
    BY TimeAssumption DEF TypeOK
<1>1. CASE Tick
    BY <1>1, OthersKeepRateInv DEF Tick
<1>2. ASSUME NEW r \in Requests, RefuseBusy(r) \/ RefuseLimited(r) \/ RejectBody(r)
      PROVE  RateInv'
    BY <1>2, OthersKeepRateInv DEF RefuseBusy, RefuseLimited, RejectBody, TypeOK
<1>3. ASSUME NEW r \in Requests, PassChecks(r)
      PROVE  RateInv'
    BY <1>3, PassKeepsRateInv
<1>4. ASSUME NEW r \in Requests, Register(r) \/ Settle(r)
      PROVE  RateInv'
    BY <1>4, OthersKeepRateInv DEF Register, Settle, TypeOK
<1>5. CASE UNCHANGED vars
    BY <1>5, OthersKeepRateInv DEF vars
<1> QED BY <1>1, <1>2, <1>3, <1>4, <1>5 DEF Next

LEMMA RateInvAlways == Spec => [](TypeOK /\ RateInv)
<1>1. Init => RateInv
    <2> SUFFICES ASSUME Init PROVE RateInv
        OBVIOUS
    <2>1. \A i, s : s \in Nat => InWindow(i, s) = {}
        BY DEF Init, InWindow, NotPassed
    <2>2. WindowCountExact
        BY <2>1, FS_EmptySet, QuotaType, TimeAssumption DEF WindowCountExact, Init
    <2> QED BY <2>2 DEF Init, RateInv, PassedInside, WindowsApart, Passed
<1> QED BY <1>1, TypeCorrect, RateInvStep, PTL DEF Spec

(***************************************************************************)
(* The limiter's count is exact: it misses no request that got by, and no  *)
(* window lets more than the quota by.                                     *)
(***************************************************************************)
THEOREM CountsExact == Spec => []WindowCountExact
<1>1. RateInv => WindowCountExact
    BY DEF RateInv
<1> QED BY <1>1, RateInvAlways, PTL

(***************************************************************************)
(* A stretch of one window's length meets at most two of the windows of an *)
(* address, so it sees at most twice the quota.                            *)
(***************************************************************************)
THEOREM TwiceTheQuota == Spec => []SlidingRate
<1>1. TypeOK /\ RateInv => SlidingRate
    <2> SUFFICES ASSUME TypeOK, RateInv, NEW i \in Ips, NEW t \in 0..MaxTime
                 PROVE  Cardinality(PassedBetween(i, t, t + Window)) <= 2 * Quota
        BY DEF SlidingRate
    <2> DEFINE X == PassedBetween(i, t, t + Window)
    <2>1. X \in SUBSET Requests /\ IsFiniteSet(X) /\ Cardinality(X) \in Nat
        BY ActiveFinite DEF PassedBetween
    <2>2. t \in Nat /\ Window \in Nat /\ t + Window \in Nat
        BY TimeAssumption, LimitsAssumption
    <2>3. \A r \in X : /\ Passed(r) /\ ClientIp[r] = i
                       /\ passed[r].at \in Nat /\ passed[r].win \in 0..MaxTime
                       /\ t <= passed[r].at /\ passed[r].at <= t + Window
                       /\ passed[r].win <= passed[r].at
                       /\ passed[r].at <= passed[r].win + Window
                       /\ r \in InWindow(i, passed[r].win)
        <3> SUFFICES ASSUME NEW r \in Requests, ClientIp[r] = i, passed[r].at \in t..(t + Window)
                     PROVE  /\ Passed(r)
                            /\ passed[r].at \in Nat /\ passed[r].win \in 0..MaxTime
                            /\ passed[r].win <= passed[r].at
                            /\ passed[r].at <= passed[r].win + Window
                            /\ r \in InWindow(i, passed[r].win)
            BY <2>2 DEF PassedBetween
        <3>1. Passed(r)
            BY <2>2 DEF Passed, NotPassed
        <3> QED BY <3>1, <2>2 DEF RateInv, PassedInside, TypeOK, Passed, InWindow
    <2>4. \A s \in 0..MaxTime : /\ IsFiniteSet(InWindow(i, s))
                                /\ Cardinality(InWindow(i, s)) \in Nat
                                /\ Cardinality(InWindow(i, s)) <= Quota
        BY InWindowFinite DEF RateInv, WindowCountExact
    <2> SUFFICES Cardinality(X) <= 2 * Quota
        OBVIOUS
    <2> HIDE DEF X
    <2>5. CASE X = {}
        BY <2>5, FS_EmptySet, QuotaType
    <2>6. ASSUME NEW p \in X, \A r \in X : passed[r].win = passed[p].win
          PROVE  Cardinality(X) <= 2 * Quota
        <3>1. X \subseteq InWindow(i, passed[p].win)
            BY <2>3, <2>6
        <3>2. Cardinality(X) <= Cardinality(InWindow(i, passed[p].win))
            BY <2>3, <2>4, <2>6, <3>1, FS_Subset
        <3> QED BY <2>1, <2>3, <2>4, <3>2, QuotaType
    <2>7. ASSUME NEW p \in X, NEW q \in X, passed[p].win < passed[q].win
          PROVE  Cardinality(X) <= 2 * Quota
        <3> DEFINE A == InWindow(i, passed[p].win)
                   B == InWindow(i, passed[q].win)
        <3>1. \A r, z \in X : passed[r].win < passed[z].win =>
                    passed[r].win + Window < passed[z].win
            BY <2>1, <2>3 DEF RateInv, WindowsApart
        <3>2. \A r \in X : passed[r].win = passed[p].win \/ passed[r].win = passed[q].win
            <4> SUFFICES ASSUME NEW r \in X,
                                passed[r].win # passed[p].win, passed[r].win # passed[q].win
                         PROVE  FALSE
                OBVIOUS
            <4> QED BY <2>2, <2>3, <2>7, <3>1
        <3>3. X \subseteq A \cup B
            BY <2>3, <3>2
        <3>4. IsFiniteSet(A) /\ IsFiniteSet(B) /\ IsFiniteSet(A \cup B)
            BY <2>3, <2>4, <2>7, FS_Union
        <3>5. Cardinality(A \cup B) = Cardinality(A) + Cardinality(B) - Cardinality(A \cap B)
            BY <3>4, FS_Union
        <3>6. Cardinality(A \cap B) \in Nat /\ Cardinality(A \cup B) \in Nat
            BY <3>4, FS_Intersection, FS_CardinalityType
        <3>7. Cardinality(X) <= Cardinality(A \cup B)
            BY <3>3, <3>4, FS_Subset
        <3>8. /\ Cardinality(A) \in Nat /\ Cardinality(A) <= Quota
              /\ Cardinality(B) \in Nat /\ Cardinality(B) <= Quota
            BY <2>3, <2>4, <2>7
        <3> HIDE DEF A, B
        <3> QED BY <2>1, <3>5, <3>6, <3>7, <3>8, QuotaType
    <2>8. CASE X # {}
        <3>1. PICK p \in X : TRUE
            BY <2>8
        <3>2. CASE \A r \in X : passed[r].win = passed[p].win
            BY <3>2, <2>6
        <3>3. CASE \E r \in X : passed[r].win # passed[p].win
            <4>1. PICK r \in X : passed[r].win # passed[p].win
                BY <3>3
            <4>2. passed[r].win < passed[p].win \/ passed[p].win < passed[r].win
                BY <4>1, <2>3, TimeAssumption
            <4> QED BY <4>2, <2>7
        <3> QED BY <3>2, <3>3
    <2> QED BY <2>5, <2>8
<1> QED BY <1>1, RateInvAlways, PTL

-----------------------------------------------------------------------------
(* DemoClient *)

(***************************************************************************)
(* The strengthening.  The listener added last is of the scan shown, which *)
(* is why the order they run in matters; and an answer "done" that is      *)
(* still on its way is of a saved scan, whatever the server forgot since.  *)
(***************************************************************************)
LastIsShown ==
    shown # NoScan /\ bar =>
        \A h \in Halves : listeners[h] # <<>> => listeners[h][Len(listeners[h])] = shown

DoneIsSaved ==
    \A s \in Scans : server[s] = "done" => s \in saved

AnsweredIsSaved ==
    \A s \in Scans, t \in 1..MaxTries : req[s][t] = "done" => s \in saved

ClientInv ==
    /\ ClientTypeOK /\ DisabledMeansBusy
    /\ FrameIsOfShown /\ LastIsShown
    /\ ShownIsSaved /\ DoneIsSaved /\ AnsweredIsSaved

LEMMA InitInv == ClientInit => ClientInv
  <1>. SUFFICES ASSUME ClientInit PROVE ClientInv
    OBVIOUS
  <1>. USE ClientConstants
  <1>1. ClientTypeOK
    <2>1. server \in [Scans -> ServerStates] /\ saved \subseteq Scans /\ interval \subseteq Scans
      BY DEF ClientInit, Known, ServerStates
    <2>2. /\ tries \in [Scans -> 0..MaxTries + 1]
          /\ req \in [Scans -> [1..MaxTries -> {"none", "sent", "done", "error"}]]
      BY DEF ClientInit
    <2>3. seg \in Halves /\ listeners \in [Halves -> Seq(Scans)]
      BY DEF ClientInit, Halves
    <2>. QED BY <2>1, <2>2, <2>3 DEF ClientInit, ClientTypeOK
  <1>2. DisabledMeansBusy /\ FrameIsOfShown /\ LastIsShown /\ ShownIsSaved
    BY DEF ClientInit, DisabledMeansBusy, FrameIsOfShown, LastIsShown, ShownIsSaved, NoReport
  <1>3. DoneIsSaved /\ AnsweredIsSaved
    BY DEF ClientInit, DoneIsSaved, AnsweredIsSaved, Known, ServerStates
  <1>. QED BY <1>1, <1>2, <1>3 DEF ClientInv

(***************************************************************************)
(* The server's steps, and the requests: nothing on the page changes but   *)
(* the button.                                                             *)
(***************************************************************************)
LEMMA ServerStep ==
  ASSUME ClientInv, Server PROVE ClientInv'
  <1>. USE ClientConstants DEF ClientInv
  <1>1. ASSUME NEW s \in Scans, Finish(s) PROVE ClientInv'
    <2>. USE <1>1 DEF Finish, page, net
    <2>1. ClientTypeOK'
      BY DEF ClientTypeOK, ServerStates
    <2>2. DisabledMeansBusy' /\ FrameIsOfShown' /\ LastIsShown'
      BY DEF DisabledMeansBusy, FrameIsOfShown, LastIsShown
    <2>3. ShownIsSaved' /\ DoneIsSaved' /\ AnsweredIsSaved'
      BY DEF ShownIsSaved, DoneIsSaved, AnsweredIsSaved, ClientTypeOK
    <2>. QED BY <2>1, <2>2, <2>3
  <1>2. CASE Restart
    <2>. USE <1>2 DEF Restart, page, net
    <2>1. ClientTypeOK'
      BY DEF ClientTypeOK, ServerStates
    <2>2. DisabledMeansBusy' /\ FrameIsOfShown' /\ LastIsShown'
      BY DEF DisabledMeansBusy, FrameIsOfShown, LastIsShown
    <2>3. ShownIsSaved' /\ DoneIsSaved' /\ AnsweredIsSaved'
      BY DEF ShownIsSaved, DoneIsSaved, AnsweredIsSaved
    <2>. QED BY <2>1, <2>2, <2>3
  <1>. QED BY <1>1, <1>2 DEF Server

LEMMA ClickStep ==
  ASSUME ClientInv, ClickScan PROVE ClientInv'
  <1>. USE ClientConstants DEF ClientInv, ClickScan
  <1>1. ClientTypeOK'
    <2>0. button' \in BOOLEAN
      OBVIOUS
    <2>1. posts' \in Nat
      <3>1. posts \in Nat /\ posts' = posts + 1
        BY DEF ClientTypeOK
      <3>. HIDE DEF ClickScan, ClientInv
      <3>. QED BY <3>1
    <2>2. {shown, box, link}' \subseteq Scans \cup {NoScan} /\ frame' = NoReport
      OBVIOUS
    <2>3. lost' \in BOOLEAN /\ bar' \in BOOLEAN
      BY DEF ClientTypeOK
    <2>4. /\ UNCHANGED <<server, saved, interval, tries, seg, listeners, req, prompts>>
          /\ {shown', box', link'} \subseteq Scans \cup {NoScan}
          /\ frame' \in Reports \cup {NoReport}
      BY <2>2
    <2>. QED BY <2>0, <2>1, <2>3, <2>4 DEF ClientTypeOK
  <1>2. DisabledMeansBusy' /\ FrameIsOfShown' /\ LastIsShown'
    BY DEF DisabledMeansBusy, FrameIsOfShown, LastIsShown, ClientTypeOK
  <1>3. ShownIsSaved' /\ DoneIsSaved' /\ AnsweredIsSaved'
    BY DEF ShownIsSaved, DoneIsSaved, AnsweredIsSaved, NoReport
  <1>. QED BY <1>1, <1>2, <1>3

LEMMA PostStep ==
  ASSUME ClientInv, PostSettled PROVE ClientInv'
  <1>. USE ClientConstants DEF ClientInv
  <1>1. ASSUME NEW s \in Scans, PostAccepted(s) PROVE ClientInv'
    <2>. USE <1>1 DEF PostAccepted, page
    <2>1. ClientTypeOK'
      BY DEF ClientTypeOK, ServerStates
    <2>2. DisabledMeansBusy' /\ FrameIsOfShown' /\ LastIsShown'
      BY DEF DisabledMeansBusy, FrameIsOfShown, LastIsShown
    <2>3. ShownIsSaved' /\ DoneIsSaved' /\ AnsweredIsSaved'
      BY DEF ShownIsSaved, DoneIsSaved, AnsweredIsSaved, ClientTypeOK
    <2>. QED BY <2>1, <2>2, <2>3
  <1>2. CASE PostRefused
    <2>. USE <1>2 DEF PostRefused
    <2>1. ClientTypeOK'
      BY DEF ClientTypeOK
    <2>2. DisabledMeansBusy' /\ FrameIsOfShown' /\ LastIsShown'
      BY DEF DisabledMeansBusy, FrameIsOfShown, LastIsShown
    <2>3. ShownIsSaved' /\ DoneIsSaved' /\ AnsweredIsSaved'
      BY DEF ShownIsSaved, DoneIsSaved, AnsweredIsSaved
    <2>. QED BY <2>1, <2>2, <2>3
  <1>3. CASE PostLost
    <2>. USE <1>3 DEF PostLost, page
    <2>1. ClientTypeOK'
      BY DEF ClientTypeOK
    <2>2. DisabledMeansBusy' /\ FrameIsOfShown' /\ LastIsShown'
      BY DEF DisabledMeansBusy, FrameIsOfShown, LastIsShown
    <2>3. ShownIsSaved' /\ DoneIsSaved' /\ AnsweredIsSaved'
      BY DEF ShownIsSaved, DoneIsSaved, AnsweredIsSaved
    <2>. QED BY <2>1, <2>2, <2>3
  <1>. QED BY <1>1, <1>2, <1>3 DEF PostSettled

(***************************************************************************)
(* A timer's ticks: only its limit matters to the button.                  *)
(***************************************************************************)
LEMMA TickStep ==
  ASSUME ClientInv, NEW s \in Scans, TimerTick(s) PROVE ClientInv'
  <1>. USE ClientConstants DEF ClientInv
  <1>1. CASE Poll(s)
    <2>. USE <1>1 DEF Poll, page
    <2>1. ClientTypeOK'
      BY DEF ClientTypeOK
    <2>2. DisabledMeansBusy' /\ FrameIsOfShown' /\ LastIsShown'
      BY DEF DisabledMeansBusy, FrameIsOfShown, LastIsShown
    <2>3. ShownIsSaved' /\ DoneIsSaved' /\ AnsweredIsSaved'
      BY DEF ShownIsSaved, DoneIsSaved, AnsweredIsSaved, ClientTypeOK
    <2>. QED BY <2>1, <2>2, <2>3
  <1>2. CASE GiveUp(s)
    <2>. USE <1>2 DEF GiveUp, net
    <2>1. ClientTypeOK'
      BY DEF ClientTypeOK
    <2>2. DisabledMeansBusy' /\ FrameIsOfShown' /\ LastIsShown'
      BY DEF DisabledMeansBusy, FrameIsOfShown, LastIsShown
    <2>3. ShownIsSaved' /\ DoneIsSaved' /\ AnsweredIsSaved'
      BY DEF ShownIsSaved, DoneIsSaved, AnsweredIsSaved
    <2>. QED BY <2>1, <2>2, <2>3
  <1>. QED BY <1>1, <1>2 DEF TimerTick

(***************************************************************************)
(* The answers to polls.                                                   *)
(***************************************************************************)
LEMMA QuietPollStep ==
  ASSUME ClientInv, NEW s \in Scans, NEW t \in 1..MaxTries,
         Answer(s, t) \/ Unanswered(s, t) \/ PollError(s, t)
  PROVE  ClientInv'
  <1>. USE ClientConstants DEF ClientInv
  <1>0. PICK a \in {"none", "done", "error"} :
           /\ req' = [req EXCEPT ![s][t] = a]
           /\ a = "done" => server[s] = "done"
    BY DEF Answer, Unanswered, PollError
  <1>. USE DEF Answer, Unanswered, PollError, page
  <1>1. ClientTypeOK'
    <2>1. req' \in [Scans -> [1..MaxTries -> {"none", "sent", "done", "error"}]]
      BY <1>0 DEF ClientTypeOK
    <2>2. /\ UNCHANGED <<server, saved, posts, lost, tries, bar, shown, box, link, seg, frame, listeners, prompts>>
          /\ interval' \in SUBSET interval /\ button' \in BOOLEAN
      BY DEF ClientTypeOK
    <2>. QED BY ONLY ClientTypeOK, <2>1, <2>2 DEF ClientTypeOK
  <1>2. DisabledMeansBusy' /\ FrameIsOfShown' /\ LastIsShown'
    BY DEF DisabledMeansBusy, FrameIsOfShown, LastIsShown
  <1>3. ShownIsSaved' /\ DoneIsSaved'
    BY DEF ShownIsSaved, DoneIsSaved
  <1>4. AnsweredIsSaved'
    <2>1. saved' = saved
      OBVIOUS
    <2>. QED BY <1>0, <2>1 DEF AnsweredIsSaved, DoneIsSaved, ClientTypeOK
  <1>. QED BY <1>1, <1>2, <1>3, <1>4

LEMMA PollDoneStep ==
  ASSUME ClientInv, NEW s \in Scans, NEW t \in 1..MaxTries, PollDone(s, t)
  PROVE  ClientInv'
  <1>. USE ClientConstants DEF ClientInv, PollDone, ShowResults
  <1>1. s \in saved
    BY DEF AnsweredIsSaved
  <1>2. ClientTypeOK'
    <2>1. req' \in [Scans -> [1..MaxTries -> {"none", "sent", "done", "error"}]]
      BY DEF ClientTypeOK
    <2>2. listeners' \in [Halves -> Seq(Scans)]
      BY DEF ClientTypeOK
    <2>3. frame' \in Reports /\ seg' \in Halves /\ bar' \in BOOLEAN /\ button' \in BOOLEAN
      BY DEF ClientTypeOK, Halves, Reports
    <2>4. /\ interval' \subseteq Scans /\ prompts' \subseteq Scans
          /\ {shown', box', link'} \subseteq Scans \cup {NoScan}
      BY DEF ClientTypeOK
    <2>5. UNCHANGED <<server, saved, tries, posts, lost>>
      OBVIOUS
    <2>. QED BY ONLY ClientTypeOK, <2>1, <2>2, <2>3, <2>4, <2>5 DEF ClientTypeOK
  <1>3. DisabledMeansBusy' /\ FrameIsOfShown'
    BY DEF DisabledMeansBusy, FrameIsOfShown
  <1>4. LastIsShown'
    <2>1. CASE s \notin Compares
      BY <2>1 DEF LastIsShown
    <2>2. CASE s \in Compares
      <3>1. ASSUME NEW h \in Halves
            PROVE  listeners'[h][Len(listeners'[h])] = s
        <4>1. listeners[h] \in Seq(Scans) /\ listeners'[h] = Append(listeners[h], s)
          BY <2>2 DEF ClientTypeOK
        <4>. QED BY <4>1
      <3>. QED BY <3>1 DEF LastIsShown
    <2>. QED BY <2>1, <2>2
  <1>5. ShownIsSaved'
    BY <1>1 DEF ShownIsSaved
  <1>6. DoneIsSaved' /\ AnsweredIsSaved'
    BY DEF DoneIsSaved, AnsweredIsSaved, ClientTypeOK
  <1>. QED BY <1>2, <1>3, <1>4, <1>5, <1>6

(***************************************************************************)
(* A click on a button of the comparison, and a prompt that arrives.       *)
(***************************************************************************)
LEMMA SetViewStep ==
  ASSUME ClientInv, NEW which \in Halves, SetView(which)
  PROVE  ClientInv'
  <1>. USE ClientConstants DEF ClientInv, SetView
  <1>. DEFINE ran == listeners[which]
  <1>1. ran \in Seq(Scans) /\ ran # <<>>
    BY DEF ClientTypeOK
  <1>2. ran[Len(ran)] = shown /\ shown \in Scans
    BY DEF LastIsShown, ClientTypeOK
  <1>3. ClientTypeOK'
    <2>1. {ran[i] : i \in DOMAIN ran} \subseteq Scans
      BY <1>1
    <2>2. frame' \in Reports
      BY <1>2 DEF Reports
    <2>. QED BY <2>1, <2>2 DEF ClientTypeOK
  <1>4. DisabledMeansBusy' /\ FrameIsOfShown'
    BY <1>2 DEF DisabledMeansBusy, FrameIsOfShown
  <1>5. LastIsShown'
    BY DEF LastIsShown, ClientTypeOK
  <1>6. ShownIsSaved'
    BY <1>2 DEF ShownIsSaved
  <1>7. DoneIsSaved' /\ AnsweredIsSaved'
    BY DEF DoneIsSaved, AnsweredIsSaved
  <1>. QED BY <1>3, <1>4, <1>5, <1>6, <1>7

LEMMA PromptStep ==
  ASSUME ClientInv, NEW s \in Scans, PromptArrives(s)
  PROVE  ClientInv'
  <1>. USE ClientConstants DEF ClientInv, PromptArrives
  <1>1. ClientTypeOK'
    BY DEF ClientTypeOK
  <1>2. DisabledMeansBusy' /\ FrameIsOfShown' /\ LastIsShown'
    BY DEF DisabledMeansBusy, FrameIsOfShown, LastIsShown
  <1>3. ShownIsSaved' /\ DoneIsSaved' /\ AnsweredIsSaved'
    BY DEF ShownIsSaved, DoneIsSaved, AnsweredIsSaved
  <1>. QED BY <1>1, <1>2, <1>3

LEMMA NextInv == ClientInv /\ [ClientNext]_clientVars => ClientInv'
  <1>. SUFFICES ASSUME ClientInv, [ClientNext]_clientVars PROVE ClientInv'
    OBVIOUS
  <1>1. CASE UNCHANGED clientVars
    BY <1>1 DEF clientVars, page, net, ClientInv, ClientTypeOK, DisabledMeansBusy, FrameIsOfShown,
       LastIsShown, ShownIsSaved, DoneIsSaved, AnsweredIsSaved
  <1>2. CASE Visitor
    BY <1>2, ClickStep, SetViewStep DEF Visitor
  <1>3. ASSUME NEW s \in Scans, NEW t \in 1..MaxTries, PollSettled(s, t)
        PROVE  ClientInv'
    BY <1>3, QuietPollStep, PollDoneStep DEF PollSettled
  <1>. QED BY <1>1, <1>2, <1>3, ServerStep, PostStep, TickStep, PromptStep DEF ClientNext

LEMMA AlwaysInv == ClientSpec => []ClientInv
  BY InitInv, NextInv, PTL DEF ClientSpec

-----------------------------------------------------------------------------
\* The page's variables keep their types.
THEOREM ClientTypeCorrect == ClientSpec => []ClientTypeOK
  <1>1. ClientInv => ClientTypeOK
    BY DEF ClientInv
  <1>. QED BY <1>1, AlwaysInv, PTL

\* A disabled scan button is always waited for by a request or a timer that
\* gives it back, unless a request for a scan was lost (app.js:156-232).
THEOREM NeverLockedOut == ClientSpec => []DisabledMeansBusy
  <1>1. ClientInv => DisabledMeansBusy
    BY DEF ClientInv
  <1>. QED BY <1>1, AlwaysInv, PTL

\* However many comparisons were shown before, the frame is of the scan whose
\* results are shown and of the highlighted half (app.js:249-287).
THEOREM FrameFollowsScan == ClientSpec => []FrameIsOfShown
  <1>1. ClientInv => FrameIsOfShown
    BY DEF ClientInv
  <1>. QED BY <1>1, AlwaysInv, PTL

\* Late answers, restarts and other scans' polls never bring a scan onto the
\* page whose reports are not on the disk (app.js:217-222, server.mjs:514-524).
THEOREM OnlySavedShown == ClientSpec => []ShownIsSaved
  <1>1. ClientInv => ShownIsSaved
    BY DEF ClientInv
  <1>. QED BY <1>1, AlwaysInv, PTL

-----------------------------------------------------------------------------
(* CloneCache *)


\* Only a job that missed the cache has a git process, and not before spawn.
GitOfMissed ==
    \A j \in Jobs :
        /\ pc[j] \in {"start", "rm", "spawn"} => git[j] = "none"
        /\ git[j] # "none" \/ pc[j] \in {"rm", "spawn"} => j \in missed

\* k has cloned repository r into directory d.
Cloned(k, r, d) == k \in missed /\ git[k] = "exit0" /\ dir[k] = d /\ RepoOf[k] = r

\* What git left in a directory of its own stays there.
WholeStays ==
    \A k \in missed : git[k] = "exit0" /\ ~Shared(dir[k]) => disk[dir[k]] = Tree(k, TRUE)

CacheNamesClones ==
    \A r \in Repos : cache[r] # NoDir => \E k \in missed : Cloned(k, r, cache[r])

CopiesFromClones ==
    \A j \in Jobs : pc[j] \in {"cp", "copying", "ready"} =>
        \E k \in missed : Cloned(k, RepoOf[j], dir[j])

CopyIsWhole ==
    \A j \in Jobs : pc[j] \in {"copying", "ready"} /\ ~Shared(dir[j]) =>
        \E k \in missed : Cloned(k, RepoOf[j], dir[j]) /\ copy[j] = Tree(k, TRUE)

CloneInv ==
    CacheTypeOK /\ GitOfMissed /\ WholeStays /\ CacheNamesClones /\ CopiesFromClones /\ CopyIsWhole

\* What no step takes back.
Keeps ==
    /\ missed \subseteq missed'
    /\ \A k \in missed : dir'[k] = dir[k]
    /\ \A k \in missed : git[k] = "exit0" => git'[k] = "exit0"
    /\ \A k \in missed : git[k] = "exit0" /\ ~Shared(dir[k]) => disk'[dir[k]] = disk[dir[k]]

-----------------------------------------------------------------------------
LEMMA TreeType ==
  /\ Nothing.whole = FALSE
  /\ \A j \in Jobs, w \in BOOLEAN : Tree(j, w) \in Trees /\ Tree(j, w).whole = w
  /\ \A j \in Jobs : Tree(j, TRUE).of = RepoOf[j]
  /\ \A t \in Trees \cup {Nothing} : PartOf(t) \in Trees \cup {Nothing}
  <1>1. \A j \in Jobs, w \in BOOLEAN : PartOf(Tree(j, w)) = Tree(j, FALSE)
    BY DEF Tree, PartOf
  <1>2. PartOf(Nothing) = Nothing
    BY DEF Nothing, PartOf
  <1>3. \A j \in Jobs, w \in BOOLEAN : Tree(j, w) \in Trees
    BY DEF Trees
  <1>4. \A t \in Trees : PartOf(t) \in Trees
    <2>. SUFFICES ASSUME NEW t \in Trees PROVE PartOf(t) \in Trees
      OBVIOUS
    <2>1. PICK j \in Jobs, w \in BOOLEAN : t = Tree(j, w)
      BY DEF Trees
    <2>. QED BY <1>1, <1>3, <2>1
  <1>. QED BY <1>2, <1>3, <1>4 DEF Nothing, Tree

LEMMA DirType ==
  /\ NoDir \notin Dirs
  /\ \A r \in Repos, t \in 0..MaxClock : DirName(r, t) \in Dirs
  BY RepoAssumption, ClockAssumption DEF NoDir, Dirs, DirName

LEMMA InitType == CacheInit => CacheTypeOK
  BY ClockAssumption DEF CacheInit, CacheTypeOK

LEMMA NextType == CacheTypeOK /\ [CacheNext]_cacheVars => CacheTypeOK'
  <1>. SUFFICES ASSUME CacheTypeOK, [CacheNext]_cacheVars PROVE CacheTypeOK'
    OBVIOUS
  <1>. USE TreeType, DirType, RepoAssumption, ClockAssumption
  <1>a. Nothing \in Trees \cup {Nothing} /\ \A j \in Jobs : pc[j] # "start" => dir[j] \in Dirs
    BY DEF CacheTypeOK
  <1>1. CASE ClockTick
    BY <1>1 DEF ClockTick, CacheTypeOK
  <1>2. ASSUME NEW j \in Jobs, Hit(j) PROVE CacheTypeOK'
    BY <1>2 DEF Hit, Cached, CacheTypeOK
  <1>3. ASSUME NEW j \in Jobs, Miss(j) PROVE CacheTypeOK'
    <2>1. clock \in 0..MaxClock /\ RepoOf[j] \in Repos
      BY DEF CacheTypeOK
    <2>2. DirName(RepoOf[j], clock) \in Dirs /\ DirName(RepoOf[j], clock) # NoDir
      BY <2>1
    <2>. HIDE DEF DirName
    <2>. QED BY <1>3, <2>2 DEF Miss, CacheTypeOK
  <1>4. ASSUME NEW j \in Jobs, Remove(j) PROVE CacheTypeOK'
    BY <1>4 DEF Remove, CacheTypeOK
  <1>5. ASSUME NEW j \in Jobs, Spawn(j) PROVE CacheTypeOK'
    BY <1>5 DEF Spawn, CacheTypeOK
  <1>6. ASSUME NEW j \in Jobs, CloseOk(j) PROVE CacheTypeOK'
    BY <1>6, <1>a DEF CloseOk, CacheTypeOK
  <1>7. ASSUME NEW j \in Jobs, CloseFailed(j) PROVE CacheTypeOK'
    BY <1>7 DEF CloseFailed, CacheTypeOK
  <1>8. ASSUME NEW j \in Jobs, Timeout(j) PROVE CacheTypeOK'
    BY <1>8 DEF Timeout, CacheTypeOK
  <1>9. ASSUME NEW j \in Jobs, CopyBegin(j) PROVE CacheTypeOK'
    <2>1. dir[j] \in Dirs /\ disk[dir[j]] \in Trees \cup {Nothing}
      BY <1>9, <1>a DEF CopyBegin, CacheTypeOK
    <2>. QED BY <1>9, <2>1 DEF CopyBegin, CacheTypeOK
  <1>10. ASSUME NEW j \in Jobs, CopyEnd(j) PROVE CacheTypeOK'
    BY <1>10 DEF CopyEnd, CacheTypeOK
  <1>11. ASSUME NEW j \in Jobs, CopyDisturbed(j) PROVE CacheTypeOK'
    <2>1. PartOf(copy[j]) \in Trees \cup {Nothing}
      BY DEF CacheTypeOK
    <2>. QED BY <1>11, <2>1 DEF CopyDisturbed, CacheTypeOK
  <1>12. ASSUME NEW j \in Jobs, Git(j) PROVE CacheTypeOK'
    <2>1. CASE GitBegin(j)
      BY <2>1 DEF GitBegin, CacheTypeOK
    <2>2. CASE GitRefuse(j)
      BY <2>2 DEF GitRefuse, CacheTypeOK
    <2>3. CASE GitFinish(j)
      BY <2>3 DEF GitFinish, CacheTypeOK
    <2>4. CASE GitFail(j)
      BY <2>4 DEF GitFail, CacheTypeOK
    <2>. QED BY <1>12, <2>1, <2>2, <2>3, <2>4 DEF Git
  <1>13. CASE UNCHANGED cacheVars
    BY <1>13 DEF cacheVars, CacheTypeOK
  <1>. QED BY <1>1, <1>2, <1>3, <1>4, <1>5, <1>6, <1>7, <1>8, <1>9, <1>10, <1>11, <1>12, <1>13
           DEF CacheNext, CacheServer

(***************************************************************************)
(* A directory is named after the repository and the clock at the miss,    *)
(* and every step keeps what it holds within the trees git can leave.      *)
(***************************************************************************)
THEOREM CacheTypeCorrect == CacheSpec => []CacheTypeOK
  BY InitType, NextType, PTL DEF CacheSpec

-----------------------------------------------------------------------------
\* A job's own directory, while no other job's git or rm is on it.
LEMMA StepKeeps == CacheTypeOK /\ GitOfMissed /\ [CacheNext]_cacheVars => Keeps
  <1>. SUFFICES ASSUME CacheTypeOK, GitOfMissed, [CacheNext]_cacheVars PROVE Keeps
    OBVIOUS
  <1>a. missed \subseteq Jobs /\ \A k \in missed : pc[k] # "start"
    BY DEF CacheTypeOK
  <1>b. \A j \in missed, k \in missed : ~Shared(dir[k]) /\ dir[j] = dir[k] => j = k
    BY DEF Shared
  <1>1. CASE ClockTick
    BY <1>1 DEF ClockTick, Keeps
  <1>2. ASSUME NEW j \in Jobs, Hit(j) \/ Miss(j) PROVE Keeps
    BY <1>2, <1>a DEF Hit, Miss, Keeps, CacheTypeOK
  <1>3. ASSUME NEW j \in Jobs, Remove(j) PROVE Keeps
    <2>1. j \in missed /\ git[j] = "none"
      BY <1>3 DEF Remove, GitOfMissed
    <2>. QED BY <1>3, <2>1, <1>b DEF Remove, Keeps, CacheTypeOK
  <1>4. ASSUME NEW j \in Jobs, Spawn(j) PROVE Keeps
    BY <1>4 DEF Spawn, Keeps, GitOfMissed, CacheTypeOK
  <1>5. ASSUME NEW j \in Jobs, CloseOk(j) \/ CloseFailed(j) PROVE Keeps
    BY <1>5 DEF CloseOk, CloseFailed, Keeps
  <1>6. ASSUME NEW j \in Jobs, Timeout(j) PROVE Keeps
    BY <1>6, <1>a DEF Timeout, Keeps, CacheTypeOK
  <1>7. ASSUME NEW j \in Jobs, CopyBegin(j) \/ CopyEnd(j) \/ CopyDisturbed(j) PROVE Keeps
    BY <1>7 DEF CopyBegin, CopyEnd, CopyDisturbed, Keeps
  <1>8. ASSUME NEW j \in Jobs, GitBegin(j) \/ GitRefuse(j) \/ GitFinish(j) \/ GitFail(j)
        PROVE  Keeps
    <2>1. j \in missed /\ git[j] # "exit0"
      BY <1>8 DEF GitBegin, GitRefuse, GitFinish, GitFail, GitOfMissed
    <2>2. /\ UNCHANGED <<missed, dir>>
          /\ \A k \in Jobs : k # j => git'[k] = git[k]
          /\ \A d \in Dirs : d # dir[j] => disk'[d] = disk[d]
      BY <1>8 DEF GitBegin, GitRefuse, GitFinish, GitFail, CacheTypeOK
    <2>3. \A k \in missed : dir[k] \in Dirs
      BY <1>a DEF CacheTypeOK
    <2>. QED BY <2>1, <2>2, <2>3, <1>a, <1>b DEF Keeps
  <1>9. CASE UNCHANGED cacheVars
    BY <1>9 DEF cacheVars, Keeps
  <1>. QED BY <1>1, <1>2, <1>3, <1>4, <1>5, <1>6, <1>7, <1>8, <1>9 DEF CacheNext, CacheServer, Git

LEMMA GitOfMissedStep == CacheTypeOK /\ GitOfMissed /\ [CacheNext]_cacheVars => GitOfMissed'
  <1>. SUFFICES ASSUME CacheTypeOK, GitOfMissed, [CacheNext]_cacheVars PROVE GitOfMissed'
    OBVIOUS
  <1>. USE DEF GitOfMissed, CacheTypeOK
  <1>1. CASE ClockTick
    BY <1>1 DEF ClockTick
  <1>2. ASSUME NEW j \in Jobs, Hit(j) \/ Miss(j) PROVE GitOfMissed'
    BY <1>2 DEF Hit, Miss
  <1>3. ASSUME NEW j \in Jobs, Remove(j) PROVE GitOfMissed'
    BY <1>3 DEF Remove
  <1>4. ASSUME NEW j \in Jobs, Spawn(j) PROVE GitOfMissed'
    BY <1>4 DEF Spawn
  <1>5. ASSUME NEW j \in Jobs, CloseOk(j) \/ CloseFailed(j) PROVE GitOfMissed'
    BY <1>5 DEF CloseOk, CloseFailed
  <1>6. ASSUME NEW j \in Jobs, Timeout(j) PROVE GitOfMissed'
    BY <1>6 DEF Timeout
  <1>7. ASSUME NEW j \in Jobs, CopyBegin(j) \/ CopyEnd(j) \/ CopyDisturbed(j)
        PROVE  GitOfMissed'
    BY <1>7 DEF CopyBegin, CopyEnd, CopyDisturbed
  <1>8. ASSUME NEW j \in Jobs, GitBegin(j) \/ GitRefuse(j) \/ GitFinish(j) \/ GitFail(j)
        PROVE  GitOfMissed'
    BY <1>8 DEF GitBegin, GitRefuse, GitFinish, GitFail
  <1>9. CASE UNCHANGED cacheVars
    BY <1>9 DEF cacheVars
  <1>. QED BY <1>1, <1>2, <1>3, <1>4, <1>5, <1>6, <1>7, <1>8, <1>9 DEF CacheNext, CacheServer, Git

\* Whose step it takes to change what the invariants are about.
LEMMA OwnSteps ==
  ASSUME CacheTypeOK, [CacheNext]_cacheVars, NEW k \in Jobs
  PROVE  /\ git[k] # "exit0" /\ git'[k] = "exit0" => GitFinish(k)
         /\ cache' # cache => \E j \in Jobs : CloseOk(j)
         /\ pc'[k] # pc[k] \/ dir'[k] # dir[k] \/ copy'[k] # copy[k] => CacheServer(k)
  <1> DEFINE P == /\ git[k] # "exit0" /\ git'[k] = "exit0" => GitFinish(k)
                  /\ cache' # cache => \E j \in Jobs : CloseOk(j)
                  /\ pc'[k] # pc[k] \/ dir'[k] # dir[k] \/ copy'[k] # copy[k] => CacheServer(k)
  <1>. USE DEF CacheTypeOK
  <1>1. ASSUME NEW j \in Jobs, CacheServer(j) PROVE P
    <2>1. git[k] # "exit0" => git'[k] # "exit0"
      BY <1>1 DEF CacheServer, Hit, Miss, Remove, Spawn, CloseOk, CloseFailed, Timeout,
                  CopyBegin, CopyEnd, CopyDisturbed
    <2>2. cache' # cache => CloseOk(j)
      BY <1>1 DEF CacheServer, Hit, Miss, Remove, Spawn, CloseFailed, Timeout,
                  CopyBegin, CopyEnd, CopyDisturbed
    <2>3. j # k => pc'[k] = pc[k] /\ dir'[k] = dir[k] /\ copy'[k] = copy[k]
      BY <1>1 DEF CacheServer, Hit, Miss, Remove, Spawn, CloseOk, CloseFailed, Timeout,
                  CopyBegin, CopyEnd, CopyDisturbed
    <2>. QED BY <1>1, <2>1, <2>2, <2>3
  <1>2. ASSUME NEW j \in Jobs, Git(j) PROVE P
    <2>1. UNCHANGED <<cache, pc, dir, copy>>
      BY <1>2 DEF Git, GitBegin, GitRefuse, GitFinish, GitFail
    <2>2. git[k] # "exit0" /\ git'[k] = "exit0" => j = k /\ GitFinish(j)
      BY <1>2 DEF Git, GitBegin, GitRefuse, GitFinish, GitFail
    <2>. QED BY <2>1, <2>2
  <1>3. ASSUME ClockTick \/ UNCHANGED cacheVars PROVE P
    BY <1>3 DEF ClockTick, cacheVars
  <1>. QED BY <1>1, <1>2, <1>3 DEF CacheNext

LEMMA WholeStaysStep == CloneInv /\ [CacheNext]_cacheVars => WholeStays'
  <1>. SUFFICES ASSUME CloneInv, [CacheNext]_cacheVars, NEW k \in missed', (git[k] = "exit0")',
                       ~Shared(dir[k])'
                PROVE  (disk[dir[k]] = Tree(k, TRUE))'
    BY DEF WholeStays
  <1>1. Keeps
    BY StepKeeps DEF CloneInv
  <1>2. CASE k \in missed /\ git[k] = "exit0"
    <2>1. dir'[k] = dir[k] /\ ~Shared(dir[k])
      BY <1>1, <1>2 DEF Keeps, Shared
    <2>. QED BY <1>1, <1>2, <2>1 DEF Keeps, CloneInv, WholeStays, Tree
  <1>3. CASE ~(k \in missed /\ git[k] = "exit0")
    <2>1. k \in Jobs
      BY NextType DEF CloneInv, CacheTypeOK
    <2>2. git[k] # "exit0"
      BY <1>3, <2>1 DEF CloneInv, GitOfMissed
    <2>3. GitFinish(k)
      BY <2>1, <2>2, OwnSteps DEF CloneInv
    <2>4. dir[k] \in Dirs
      BY <2>1, <2>3 DEF GitFinish, CloneInv, CacheTypeOK, GitOfMissed
    <2>. QED BY <2>3, <2>4 DEF GitFinish, Tree, CloneInv, CacheTypeOK
  <1>. QED BY <1>2, <1>3

LEMMA CacheNamesClonesStep == CloneInv /\ [CacheNext]_cacheVars => CacheNamesClones'
  <1>. SUFFICES ASSUME CloneInv, [CacheNext]_cacheVars, NEW r \in Repos, cache'[r] # NoDir
                PROVE  \E k \in missed' : Cloned(k, r, cache[r])'
    BY DEF CacheNamesClones
  <1>1. Keeps
    BY StepKeeps DEF CloneInv
  <1>2. CASE cache'[r] = cache[r]
    <2>1. PICK k \in missed : Cloned(k, r, cache[r])
      BY <1>2 DEF CloneInv, CacheNamesClones
    <2>. QED BY <1>1, <1>2, <2>1 DEF Keeps, Cloned
  <1>3. CASE cache'[r] # cache[r]
    <2>1. PICK j \in Jobs : CloseOk(j) /\ RepoOf[j] = r
      <3>1. Jobs # {} => \E j \in Jobs : CloseOk(j)
        BY <1>3, OwnSteps DEF CloneInv
      <3>2. Jobs # {}
        BY <1>3 DEF CacheNext, ClockTick, cacheVars
      <3>. QED BY <1>3, <3>1, <3>2 DEF CloseOk, CloneInv, CacheTypeOK
    <2>2. j \in missed /\ cache'[r] = dir[j] /\ git[j] = "exit0"
      BY <2>1 DEF CloseOk, CloneInv, CacheTypeOK, GitOfMissed
    <2>. QED BY <1>1, <2>1, <2>2 DEF Keeps, Cloned
  <1>. QED BY <1>2, <1>3

LEMMA CopiesFromClonesStep == CloneInv /\ [CacheNext]_cacheVars => CopiesFromClones'
  <1>. SUFFICES ASSUME CloneInv, [CacheNext]_cacheVars, NEW j \in Jobs,
                       pc'[j] \in {"cp", "copying", "ready"}
                PROVE  \E k \in missed' : Cloned(k, RepoOf[j], dir[j])'
    BY DEF CopiesFromClones
  <1>1. Keeps
    BY StepKeeps DEF CloneInv
  <1>2. CASE pc[j] \in {"cp", "copying", "ready"} /\ dir'[j] = dir[j]
    <2>1. PICK k \in missed : Cloned(k, RepoOf[j], dir[j])
      BY <1>2 DEF CloneInv, CopiesFromClones
    <2>. QED BY <1>1, <1>2, <2>1 DEF Keeps, Cloned
  <1>3. CASE Hit(j)
    <2>1. RepoOf[j] \in Repos /\ cache[RepoOf[j]] # NoDir /\ dir'[j] = cache[RepoOf[j]]
      BY <1>3, RepoAssumption DEF Hit, Cached, CloneInv, CacheTypeOK
    <2>2. PICK k \in missed : Cloned(k, RepoOf[j], cache[RepoOf[j]])
      BY <2>1 DEF CloneInv, CacheNamesClones
    <2>. QED BY <1>1, <2>1, <2>2 DEF Keeps, Cloned
  <1>4. CASE CloseOk(j)
    <2>1. j \in missed /\ git[j] = "exit0"
      BY <1>4 DEF CloseOk, CloneInv, GitOfMissed
    <2>. QED BY <1>1, <2>1 DEF Keeps, Cloned
  <1>5. CASE ~Hit(j) /\ ~CloseOk(j)
    <2>1. pc[j] \in {"cp", "copying", "ready"} /\ dir'[j] = dir[j]
      <3>1. CASE CacheServer(j)
        BY <1>5, <3>1 DEF CacheServer, Miss, Remove, Spawn, CloseFailed, Timeout,
                          CopyBegin, CopyEnd, CopyDisturbed, CloneInv, CacheTypeOK
      <3>2. CASE ~CacheServer(j)
        BY <3>2, OwnSteps DEF CloneInv
      <3>. QED BY <3>1, <3>2
    <2>. QED BY <1>2, <2>1
  <1>. QED BY <1>3, <1>4, <1>5

LEMMA CopyIsWholeStep == CloneInv /\ [CacheNext]_cacheVars => CopyIsWhole'
  <1>. SUFFICES ASSUME CloneInv, [CacheNext]_cacheVars, NEW j \in Jobs,
                       pc'[j] \in {"copying", "ready"}, ~Shared(dir[j])'
                PROVE  \E k \in missed' : (Cloned(k, RepoOf[j], dir[j]) /\ copy[j] = Tree(k, TRUE))'
    BY DEF CopyIsWhole
  <1>1. Keeps
    BY StepKeeps DEF CloneInv
  <1>2. dir'[j] = dir[j] => ~Shared(dir[j])
    BY <1>1 DEF Keeps, Shared
  <1>3. CASE CopyBegin(j)
    <2>1. PICK k \in missed : Cloned(k, RepoOf[j], dir[j])
      BY <1>3 DEF CopyBegin, CloneInv, CopiesFromClones
    <2>2. dir'[j] = dir[j] /\ copy'[j] = disk[dir[j]]
      BY <1>3 DEF CopyBegin, CloneInv, CacheTypeOK
    <2>3. disk[dir[j]] = Tree(k, TRUE)
      BY <1>2, <2>1, <2>2 DEF Cloned, CloneInv, WholeStays
    <2>. QED BY <1>1, <2>1, <2>2, <2>3 DEF Keeps, Cloned, Tree
  <1>4. CASE ~CopyBegin(j)
    <2>1. pc[j] \in {"copying", "ready"} /\ dir'[j] = dir[j]
      <3>1. CASE CacheServer(j)
        BY <1>4, <3>1 DEF CacheServer, Hit, Miss, Remove, Spawn, CloseOk, CloseFailed, Timeout,
                          CopyEnd, CopyDisturbed, CloneInv, CacheTypeOK
      <3>2. CASE ~CacheServer(j)
        BY <3>2, OwnSteps DEF CloneInv
      <3>. QED BY <3>1, <3>2
    <2>2. PICK k \in missed : Cloned(k, RepoOf[j], dir[j]) /\ copy[j] = Tree(k, TRUE)
      BY <1>2, <2>1 DEF CloneInv, CopyIsWhole
    <2>3. disk[dir[j]] = copy[j]
      BY <1>2, <2>1, <2>2 DEF Cloned, CloneInv, WholeStays
    <2>4. copy'[j] = copy[j]
      <3>1. CASE CacheServer(j)
        BY <1>4, <2>1, <2>3, <3>1 DEF CacheServer, Hit, Miss, Remove, Spawn, CloseOk, CloseFailed,
              Timeout, CopyEnd, CopyDisturbed, CloneInv, CacheTypeOK
      <3>2. CASE ~CacheServer(j)
        BY <3>2, OwnSteps DEF CloneInv
      <3>. QED BY <3>1, <3>2
    <2>. QED BY <1>1, <2>1, <2>2, <2>4 DEF Keeps, Cloned, Tree
  <1>. QED BY <1>3, <1>4

LEMMA CloneInvAlways == CacheSpec => []CloneInv
  <1>1. CacheInit => CloneInv
    BY InitType DEF CacheInit, CloneInv, GitOfMissed, WholeStays, CacheNamesClones,
                    CopiesFromClones, CopyIsWhole
  <1>2. CloneInv /\ [CacheNext]_cacheVars => CloneInv'
    BY NextType, GitOfMissedStep, WholeStaysStep, CacheNamesClonesStep, CopiesFromClonesStep,
       CopyIsWholeStep DEF CloneInv
  <1>. QED BY <1>1, <1>2, PTL DEF CacheSpec

-----------------------------------------------------------------------------
(***************************************************************************)
(* A scan works on a whole clone of its own repository.                    *)
(***************************************************************************)
THEOREM ScansWholeClones == CacheSpec => []ReadyHasWholeClone
  <1>1. CloneInv => ReadyHasWholeClone
    <2>. SUFFICES ASSUME CloneInv, NEW j \in Jobs, pc[j] = "ready", ~Shared(dir[j])
                  PROVE  copy[j].of = RepoOf[j] /\ copy[j].whole
      BY DEF ReadyHasWholeClone
    <2>1. PICK k \in missed : Cloned(k, RepoOf[j], dir[j]) /\ copy[j] = Tree(k, TRUE)
      BY DEF CloneInv, CopyIsWhole
    <2>. QED BY <2>1 DEF Cloned, Tree
  <1>. QED BY <1>1, CloneInvAlways, PTL

(***************************************************************************)
(* The cache only ever names whole clones of the repository they are for.  *)
(***************************************************************************)
THEOREM CacheIsWhole == CacheSpec => []CacheNamesWholeClones
  <1>1. CloneInv => CacheNamesWholeClones
    <2>. SUFFICES ASSUME CloneInv, NEW r \in Repos, cache[r] # NoDir, ~Shared(cache[r])
                  PROVE  disk[cache[r]].of = r /\ disk[cache[r]].whole
      BY DEF CacheNamesWholeClones
    <2>1. PICK k \in missed : Cloned(k, r, cache[r])
      BY DEF CloneInv, CacheNamesClones
    <2>2. disk[cache[r]] = Tree(k, TRUE)
      BY <2>1 DEF Cloned, CloneInv, WholeStays
    <2>. QED BY <2>1, <2>2 DEF Cloned, Tree
  <1>. QED BY <1>1, CloneInvAlways, PTL

(***************************************************************************)
(* A job that finds its repository in the map, in a directory of its own,  *)
(* does not clone it again.                                                *)
(***************************************************************************)
THEOREM NeverCloneCached == CacheSpec => NoCloneOfCached
  <1>1. CloneInv /\ [CacheNext]_cacheVars =>
          [\A j \in Jobs : pc[j] = "start" /\ pc'[j] = "rm" =>
              cache[RepoOf[j]] = NoDir \/ Shared(cache[RepoOf[j]])]_cacheVars
    <2>. SUFFICES ASSUME CloneInv, [CacheNext]_cacheVars,
                         NEW j \in Jobs, pc[j] = "start", pc'[j] = "rm",
                         cache[RepoOf[j]] # NoDir, ~Shared(cache[RepoOf[j]])
                  PROVE  FALSE
      OBVIOUS
    <2>1. RepoOf[j] \in Repos
      BY RepoAssumption
    <2>2. CacheServer(j)
      BY OwnSteps DEF CloneInv
    <2>3. ~Cached(RepoOf[j])
      BY <2>2 DEF CacheServer, Hit, Miss, Remove, Spawn, CloseOk, CloseFailed, Timeout, CopyBegin,
                  CopyEnd, CopyDisturbed, CloneInv, CacheTypeOK
    <2>4. PICK k \in missed : Cloned(k, RepoOf[j], cache[RepoOf[j]])
      BY <2>1 DEF CloneInv, CacheNamesClones
    <2>5. disk[cache[RepoOf[j]]] = Tree(k, TRUE)
      BY <2>4 DEF Cloned, CloneInv, WholeStays
    <2>. QED BY <2>3, <2>5 DEF Cached, Tree, Nothing
  <1>. QED BY <1>1, CloneInvAlways, PTL DEF CacheSpec, NoCloneOfCached
=============================================================================
