------------------------------ MODULE RateLimiter ------------------------------
(* auth.RateLimiter (internal/auth/ratelimit.go): failed attempts per client   *)
(* address in a sliding window, pruned lazily, and the requests of             *)
(* auth.Middleware that consult it before verifying a token and record a       *)
(* failure after it.  The limiter's mutex makes each of its operations one     *)
(* step; consulting and recording are two steps, so requests overlap.          *)
(*                                                                             *)
(* A failure's timestamp is modelled by its age, which Tick advances; an age   *)
(* past the window stays at Window + 1.  An address without an entry in the    *)
(* Go map has the empty sequence.                                              *)
EXTENDS Naturals, Sequences, FiniteSets

CONSTANTS
    IPs,           \* client addresses
    NoIP,          \* not an address: the client of an idle request
    Requests,      \* requests the HTTP server may have open at once
    MaxFailures,   \* max_failures of the tier
    Window         \* window_seconds of the tier, in ticks

ASSUME Assumptions ==
    /\ NoIP \notin IPs
    /\ IsFiniteSet(Requests) /\ Requests # {}
    /\ MaxFailures \in Nat
    /\ Window \in Nat

VARIABLES
    failures,   \* failures[ip]: ages of ip's recorded failures, in append order
    req         \* req[r]: how far request r has come, and its client address

vars == <<failures, req>>

Ages == 0 .. Window + 1

Idle == [pc |-> "idle", ip |-> NoIP]

\* Let through and not answered yet; answered with 429; recorded as a failure.
Steps == {"verifying", "refused", "failed"}

TypeOK ==
    /\ failures \in [IPs -> Seq(Ages)]
    /\ req \in [Requests -> {Idle} \cup [pc : Steps, ip : IPs]]

--------------------------------------------------------------------------------
\* times[start].Before(cutoff): strictly older than the window.
Stale(age) == age > Window

\* The number of timestamps the loop of prune steps over: the stale prefix.
StalePrefix(ages) ==
    Cardinality({i \in DOMAIN ages : \A j \in 1 .. i : Stale(ages[j])})

\* Mutants of Prune: an off-by-one in the loop, an entry never dropped entirely.
PruneOneTooMany(ages) ==
    SubSeq(ages, StalePrefix(ages) + 2, Len(ages))

PruneKeepsLast(ages) ==
    IF ages # <<>> /\ StalePrefix(ages) = Len(ages)
    THEN SubSeq(ages, Len(ages), Len(ages))
    ELSE SubSeq(ages, StalePrefix(ages) + 1, Len(ages))

Prune(ages) == SubSeq(ages, StalePrefix(ages) + 1, Len(ages))

Record(ages) == Prune(Append(ages, 0))

\* Mutant of OverLimit: > for >=.
OverLimitStrict(ages) == Len(ages) > MaxFailures

OverLimit(ages) == Len(ages) >= MaxFailures

--------------------------------------------------------------------------------
Init ==
    /\ failures = [ip \in IPs |-> <<>>]
    /\ req = [r \in Requests |-> Idle]

\* IsBlocked, and Middleware's branch on it.
Consult(r, ip) ==
    /\ req[r] = Idle
    /\ failures' = [failures EXCEPT ![ip] = Prune(@)]
    /\ req' = [req EXCEPT ![r] =
          [pc |-> IF OverLimit(failures'[ip]) THEN "refused" ELSE "verifying",
           ip |-> ip]]

\* Mutant of Fail: Record reads the clock before it has the mutex, so that another
\* request's later failure may be appended first.
FailTimedBeforeLock(r) ==
    /\ req[r].pc = "verifying"
    /\ \E age \in 0 .. 1 :
          failures' = [failures EXCEPT ![req[r].ip] = Prune(Append(@, age))]
    /\ req' = [req EXCEPT ![r].pc = "failed"]

\* recordFailure: no header, another scheme, or a token that is not recognised.
Fail(r) ==
    /\ req[r].pc = "verifying"
    /\ failures' = [failures EXCEPT ![req[r].ip] = Record(@)]
    /\ req' = [req EXCEPT ![r].pc = "failed"]

\* Mutant of Finish: a refused attempt is recorded too.
FinishRecordsRefusal(r) ==
    /\ req[r] # Idle
    /\ failures' = IF req[r].pc = "refused"
                   THEN [failures EXCEPT ![req[r].ip] = Record(@)]
                   ELSE failures
    /\ req' = [req EXCEPT ![r] = Idle]

\* The answer: 401 after a recorded failure; the others record nothing: the token is
\* accepted, its verification ends in an error (500), the request was refused (429).
Finish(r) ==
    /\ req[r] # Idle
    /\ req' = [req EXCEPT ![r] = Idle]
    /\ UNCHANGED failures

\* The five-minute ticker of Server.Start.
PruneAll ==
    /\ failures' = [ip \in IPs |-> Prune(failures[ip])]
    /\ UNCHANGED req

Older(age) == IF Stale(age) THEN age ELSE age + 1

Tick ==
    /\ failures' = [ip \in IPs |->
          [i \in DOMAIN failures[ip] |-> Older(failures[ip][i])]]
    /\ UNCHANGED req

Answer(r) == Fail(r) \/ Finish(r)

Next ==
    \/ \E r \in Requests : (\E ip \in IPs : Consult(r, ip)) \/ Answer(r)
    \/ PruneAll
    \/ Tick

Spec == Init /\ [][Next]_vars

\* Time passes, the ticker fires, and a verification ends: the static list is
\* scanned at once and an authenticator command is killed at its timeout.
FairSpec ==
    /\ Spec
    /\ WF_vars(Tick)
    /\ WF_vars(PruneAll)
    /\ \A r \in Requests : WF_vars(Answer(r))

--------------------------------------------------------------------------------
InFlight(ip) == {r \in Requests : req[r] = [pc |-> "verifying", ip |-> ip]}

\* Between IsBlocked and Record the mutex is free, so requests that were all let
\* through may all fail.  The failures stored for an address, with those still to
\* come, stay below MaxFailures plus the number of requests open at once.
OvershootBounded ==
    \A ip \in IPs :
        Len(failures[ip]) + Cardinality(InFlight(ip))
            < MaxFailures + Cardinality(Requests)

\* prune stops at the first timestamp that is not stale, which drops every stale
\* one only because the failures of an address lie in time order, whichever requests
\* record them, in whatever order those were let through: Record reads the clock
\* and appends under one hold of the mutex.
OldestFirst ==
    \A ip \in IPs : \A i, j \in DOMAIN failures[ip] :
        i <= j => failures[ip][j] <= failures[ip][i]

\* How many of these timestamps are at most age ticks old.
Within(ages, age) == Cardinality({i \in DOMAIN ages : ages[i] <= age})

Promise == INSTANCE SlidingWindow
    WITH recent <- [ip \in IPs |-> [age \in 0 .. Window |-> Within(failures[ip], age)]]

\* Lazy pruning is unobservable: every verdict of IsBlocked is the one of a
\* limiter that counts exactly the failures of the last Window ticks.
ImplementsSlidingWindow == Promise!Spec

Blocked(ip) == Within(failures[ip], Window) >= MaxFailures

\* A block ends although its client goes on sending requests: what Middleware
\* answers with 429 is not recorded, so knocking does not extend the block.
BlockEnds == \A ip \in IPs : Blocked(ip) ~> ~Blocked(ip)

\* When from some time on no request gets as far as verifying a token (there are no
\* requests, or all of them are refused), the ticker gives the memory back, including
\* the entries of addresses that never come again.
MemoryReclaimed ==
    <>[](\A r \in Requests : req[r].pc # "verifying")
        => <>[](\A ip \in IPs : failures[ip] = <<>>)
================================================================================
