---------------------------- MODULE DemoAdmission ----------------------------
(***************************************************************************)
(* POST /api/scan of demo/server.mjs: the concurrency check, the per-IP    *)
(* rate limiter, the await of the request body, and the job that the       *)
(* handler registers and starts.                                           *)
(*                                                                         *)
(* Node runs the handler up to its first await without interruption, so    *)
(* the two checks are one step.  `await readJsonBody(req)` lets any other  *)
(* handler run before the job is put in the map: registration is a second  *)
(* step, and what the first one counted may no longer be so.               *)
(*                                                                         *)
(* A request stands for the scanId it is given (randomUUID is fresh).      *)
(***************************************************************************)
EXTENDS Integers, FiniteSets

CONSTANTS
    Requests,       \* the POST requests, each also the scanId it may get
    Ips,            \* client addresses
    ClientIp,       \* the address getClientIp reads off each request
    MaxConcurrent,  \* MAX_CONCURRENT
    RateMax,        \* RATE_LIMIT_MAX
    Window,         \* RATE_LIMIT_WINDOW_MS
    MaxTime         \* bound of the clock, for TLC

ASSUME RequestsAssumption == IsFiniteSet(Requests)
ASSUME ClientIpAssumption == ClientIp \in [Requests -> Ips]
ASSUME LimitsAssumption == MaxConcurrent \in Nat /\ RateMax \in Nat /\ Window \in Nat
ASSUME TimeAssumption == MaxTime \in Nat

VARIABLES
    now,      \* Date.now()
    counter,  \* ipCounters: the window an address is in and its count
    post,     \* how far each request's handler is, or the answer it gave
    job,      \* jobs: the state of each scan, "none" when it has no entry
    \* history, read by no guard:
    passed,   \* time and window of each request the limiter let by
    saw       \* those jobs the request was counted against that still run

vars == <<now, counter, post, job, passed, saw>>

\* Idle: not arrived.  Body: between the checks and the body.  Then answered
\* 429 (refused), 400 or 500 (rejected), 202 (accepted).
PostStates == {"idle", "body", "refused", "rejected", "accepted"}
\* A job that has "ended" is in state done or error.
JobStates == {"none", "running", "ended"}
Unseen == [start |-> -1, count |-> 0]     \* no entry in ipCounters
NotPassed == [at |-> -1, win |-> -1]

(***************************************************************************)
(* A job is created "queued" and set "running" by the synchronous prefix   *)
(* of runScanJob, inside the same handler step: "queued" is never seen.    *)
(***************************************************************************)
Active == {r \in Requests : job[r] = "running"}

Init ==
    /\ now = 0
    /\ counter = [i \in Ips |-> Unseen]
    /\ post = [r \in Requests |-> "idle"]
    /\ job = [r \in Requests |-> "none"]
    /\ passed = [r \in Requests |-> NotPassed]
    /\ saw = [r \in Requests |-> {}]

Tick ==
    /\ now < MaxTime
    /\ now' = now + 1
    /\ UNCHANGED <<counter, post, job, passed, saw>>

(***************************************************************************)
(* rateLimitOk: a window opens with the first request after the last one   *)
(* ran out, that request is let by without looking at RateMax.             *)
(***************************************************************************)
WindowOver(i) == counter[i] = Unseen \/ now - counter[i].start > Window
MutRateLimitOffByOne(i) == WindowOver(i) \/ counter[i].count <= RateMax
RateLimitOk(i) == WindowOver(i) \/ counter[i].count < RateMax
MutCountedNoIncrement(i) == IF WindowOver(i) THEN [start |-> now, count |-> 1] ELSE counter[i]
Counted(i) ==
    IF WindowOver(i) THEN [start |-> now, count |-> 1]
                     ELSE [start |-> counter[i].start, count |-> counter[i].count + 1]

RefuseBusy(r) ==
    /\ post[r] = "idle"
    /\ Cardinality(Active) >= MaxConcurrent
    /\ post' = [post EXCEPT ![r] = "refused"]
    /\ UNCHANGED <<now, counter, job, passed, saw>>

RefuseLimited(r) ==
    /\ post[r] = "idle"
    /\ Cardinality(Active) < MaxConcurrent
    /\ ~RateLimitOk(ClientIp[r])
    /\ post' = [post EXCEPT ![r] = "refused"]
    /\ UNCHANGED <<now, counter, job, passed, saw>>

MutPassChecksOffByOne(r) ==
    /\ post[r] = "idle"
    /\ Cardinality(Active) <= MaxConcurrent
    /\ RateLimitOk(ClientIp[r])
    /\ counter' = [counter EXCEPT ![ClientIp[r]] = Counted(ClientIp[r])]
    /\ post' = [post EXCEPT ![r] = "body"]
    /\ passed' = [passed EXCEPT ![r] = [at |-> now, win |-> Counted(ClientIp[r]).start]]
    /\ saw' = [saw EXCEPT ![r] = Active]
    /\ UNCHANGED <<now, job>>

\* Both checks pass; the handler now waits for the body.
PassChecks(r) ==
    /\ post[r] = "idle"
    /\ Cardinality(Active) < MaxConcurrent
    /\ RateLimitOk(ClientIp[r])
    /\ counter' = [counter EXCEPT ![ClientIp[r]] = Counted(ClientIp[r])]
    /\ post' = [post EXCEPT ![r] = "body"]
    /\ passed' = [passed EXCEPT ![r] = [at |-> now, win |-> Counted(ClientIp[r]).start]]
    /\ saw' = [saw EXCEPT ![r] = Active]
    /\ UNCHANGED <<now, job>>

\* The body is not JSON or the upload breaks off (500), or its URL is not a
\* GitHub repository (400).  The charge made by the limiter stays.
RejectBody(r) ==
    /\ post[r] = "body"
    /\ post' = [post EXCEPT ![r] = "rejected"]
    /\ UNCHANGED <<now, counter, job, passed, saw>>

\* jobs.set, runScanJob started, 202.
Register(r) ==
    /\ post[r] = "body"
    /\ post' = [post EXCEPT ![r] = "accepted"]
    /\ job' = [job EXCEPT ![r] = "running"]
    /\ UNCHANGED <<now, counter, passed, saw>>

\* runScanJob ends, in its last statement or in its catch block.
Settle(r) ==
    /\ job[r] = "running"
    /\ job' = [job EXCEPT ![r] = "ended"]
    /\ saw' = [q \in Requests |-> IF q = r THEN {} ELSE saw[q] \ {r}]
    /\ UNCHANGED <<now, counter, post, passed>>

Next ==
    \/ Tick
    \/ \E r \in Requests :
        \/ RefuseBusy(r)
        \/ RefuseLimited(r)
        \/ PassChecks(r)
        \/ RejectBody(r)
        \/ Register(r)
        \/ Settle(r)

Spec == Init /\ [][Next]_vars

-----------------------------------------------------------------------------
TypeOK ==
    /\ now \in 0..MaxTime
    /\ counter \in [Ips -> [start : 0..MaxTime, count : Nat] \cup {Unseen}]
    /\ post \in [Requests -> PostStates]
    /\ job \in [Requests -> JobStates]
    /\ passed \in [Requests -> [at : 0..MaxTime, win : 0..MaxTime] \cup {NotPassed}]
    /\ saw \in [Requests -> SUBSET Requests]

(***************************************************************************)
(* The requests p and q waited for their bodies at overlapping times:      *)
(* neither was registered when the other was checked.                      *)
(***************************************************************************)
Raced(p, q) == p \notin saw[q] /\ q \notin saw[p]

(***************************************************************************)
(* The limit is exceeded in no other way: running scans of which no two    *)
(* raced each other through the body await number at most MaxConcurrent.   *)
(***************************************************************************)
ExcessOnlyFromRaces ==
    \A S \in SUBSET Active :
        (\A p, q \in S : p # q => ~Raced(p, q)) => Cardinality(S) <= MaxConcurrent

\* What a window lets by: its first request passes even when RateMax is 0.
Quota == IF RateMax = 0 THEN 1 ELSE RateMax
InWindow(i, s) == {r \in Requests : ClientIp[r] = i /\ passed[r].win = s}
PassedBetween(i, t, u) == {r \in Requests : ClientIp[r] = i /\ passed[r].at \in t..u}

(***************************************************************************)
(* The count kept for an address is the number of requests it got past the *)
(* limiter in its current window, those answered 400 or 500 included, and  *)
(* no window ever let more than the quota by.                              *)
(***************************************************************************)
WindowCountExact ==
    \A i \in Ips :
        /\ counter[i] # Unseen => counter[i].count = Cardinality(InWindow(i, counter[i].start))
        /\ \A s \in 0..MaxTime : Cardinality(InWindow(i, s)) <= Quota

(***************************************************************************)
(* "Rate limit exceeded (10 per 60 minutes)" (server.mjs:606), for the     *)
(* fixed windows the code keeps: an address gets at most twice the quota   *)
(* past the limiter in any stretch of one window's length, wherever it     *)
(* starts.                                                                 *)
(***************************************************************************)
SlidingRate ==
    \A i \in Ips, t \in 0..MaxTime :
        Cardinality(PassedBetween(i, t, t + Window)) <= 2 * Quota

=============================================================================
