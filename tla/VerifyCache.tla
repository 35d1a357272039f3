------------------------------ MODULE VerifyCache ------------------------------
(* auth.VerifyCache (internal/auth/cache.go) between the requests of one         *)
(* server and the external authenticator command: positive answers are kept for *)
(* TTL, the mutex guards the map alone, and the command runs outside it.         *)
(*                                                                               *)
(* An entry is modelled by the time it has left; 0 stands for an expired entry   *)
(* and for none, which Verify does not tell apart.                               *)
EXTENDS Naturals

CONSTANTS
    Tokens,     \* bearer tokens
    NoToken,    \* not a token: the token of an idle request
    Callers,   \* requests the HTTP server may have open at once
    NoCaller,  \* not a request: the mutex is free
    TTL,        \* authVerifyCacheTTL, in ticks
    MaxLag      \* bound on the ticks from the authenticator's decision to the
                \* moment its answer is stored or dropped

ASSUME CacheAssumptions ==
    /\ NoToken \notin Tokens
    /\ NoCaller \notin Callers
    /\ TTL \in Nat \ {0}
    /\ MaxLag \in Nat

VARIABLES
    left,      \* left[t]: ticks until the entry of t expires
    mu,        \* the request that holds the cache's mutex, or NoRequest
    call,      \* call[r]: where in Verify request r is, and with which token
    lag,       \* lag[r]: ticks since the decision that r carries was taken
    known,     \* the tokens the authenticator recognises now
    silence    \* silence[t]: ticks since t was last recognised, up to Horizon

cacheVars == <<left, mu, call, lag, known, silence>>

Horizon == TTL + MaxLag

NotCalling == [pc |-> "idle", token |-> NoToken]

\* lookup: about to lock the mutex; locked: holds it; calling: in the command;
\* storing, dropping: the command said yes, or no (or failed).
CacheSteps == {"lookup", "locked", "calling", "storing", "dropping", "accepted", "rejected"}

CacheTypeOK ==
    /\ left \in [Tokens -> 0 .. TTL]
    /\ mu \in Callers \cup {NoCaller}
    /\ call \in [Callers -> {NotCalling} \cup [pc : CacheSteps, token : Tokens]]
    /\ lag \in [Callers -> 0 .. MaxLag]
    /\ known \subseteq Tokens
    /\ silence \in [Tokens -> 0 .. Horizon]
    /\ \A r \in Callers : mu = r <=> call[r].pc = "locked"

CacheInit ==
    /\ left = [t \in Tokens |-> 0]
    /\ mu = NoCaller
    /\ call = [r \in Callers |-> NotCalling]
    /\ lag = [r \in Callers |-> 0]
    /\ known \in SUBSET Tokens
    /\ silence = [t \in Tokens |-> IF t \in known THEN 0 ELSE Horizon]

--------------------------------------------------------------------------------
At(r, pc) == call[r].pc = pc

Goto(r, pc) == call' = [call EXCEPT ![r].pc = pc]

\* Middleware calls Verify with the bearer token of a new request.
Verify(r, t) ==
    /\ call[r] = NotCalling
    /\ call' = [call EXCEPT ![r] = [pc |-> "lookup", token |-> t]]
    /\ UNCHANGED <<left, mu, lag, known, silence>>

Lock(r) ==
    /\ At(r, "lookup") /\ mu = NoCaller
    /\ mu' = r
    /\ Goto(r, "locked")
    /\ UNCHANGED <<left, lag, known, silence>>

\* Mutant of Hit: the expiry of the entry is not compared.
HitIgnoresExpiry(r) ==
    /\ At(r, "locked")
    /\ mu' = NoCaller
    /\ Goto(r, "accepted")
    /\ UNCHANGED <<left, lag, known, silence>>

Hit(r) ==
    /\ At(r, "locked") /\ left[call[r].token] > 0
    /\ mu' = NoCaller
    /\ Goto(r, "accepted")
    /\ UNCHANGED <<left, lag, known, silence>>

\* Mutant of Miss: the mutex is kept while the command runs.
MissKeepsLock(r) ==
    /\ At(r, "locked") /\ left[call[r].token] = 0
    /\ Goto(r, "calling")
    /\ UNCHANGED <<left, mu, lag, known, silence>>

Miss(r) ==
    /\ At(r, "locked") /\ left[call[r].token] = 0
    /\ mu' = NoCaller
    /\ Goto(r, "calling")
    /\ UNCHANGED <<left, lag, known, silence>>

\* Mutant of Decide: the answer's ok is not looked at before it is stored.
DecideUnchecked(r, pc) ==
    /\ At(r, "calling")
    /\ lag' = [lag EXCEPT ![r] = 0]
    /\ Goto(r, pc)
    /\ UNCHANGED <<left, mu, known, silence>>

\* The command decides on the tokens it knows at that moment; it may also fail
\* or time out.
Decide(r, pc) ==
    /\ At(r, "calling")
    /\ pc = "storing" => call[r].token \in known
    /\ lag' = [lag EXCEPT ![r] = 0]
    /\ Goto(r, pc)
    /\ UNCHANGED <<left, mu, known, silence>>

\* Lock, put the entry with a fresh expiry, unlock.
Store(r) ==
    /\ At(r, "storing") /\ mu = NoCaller
    /\ left' = [left EXCEPT ![call[r].token] = TTL]
    /\ Goto(r, "accepted")
    /\ UNCHANGED <<mu, lag, known, silence>>

\* A negative or failed answer is returned as it is; an entry stays in the map.
Drop(r) ==
    /\ At(r, "dropping")
    /\ Goto(r, "rejected")
    /\ UNCHANGED <<left, mu, lag, known, silence>>

Reply(r) ==
    /\ At(r, "accepted") \/ At(r, "rejected")
    /\ call' = [call EXCEPT ![r] = NotCalling]
    /\ lag' = [lag EXCEPT ![r] = 0]
    /\ UNCHANGED <<left, mu, known, silence>>

\* The authenticator's token store is changed behind the server's back.
Revoke(t) ==
    /\ t \in known
    /\ known' = known \ {t}
    /\ UNCHANGED <<left, mu, call, lag, silence>>

Grant(t) ==
    /\ t \notin known
    /\ known' = known \cup {t}
    /\ silence' = [silence EXCEPT ![t] = 0]
    /\ UNCHANGED <<left, mu, call, lag>>

Pending(r) == At(r, "storing") \/ At(r, "dropping")

CacheTick ==
    /\ \A r \in Callers : Pending(r) => lag[r] < MaxLag
    /\ left' = [t \in Tokens |-> IF left[t] = 0 THEN 0 ELSE left[t] - 1]
    /\ lag' = [r \in Callers |-> IF Pending(r) THEN lag[r] + 1 ELSE lag[r]]
    /\ silence' = [t \in Tokens |->
          IF t \in known \/ silence[t] = Horizon THEN silence[t] ELSE silence[t] + 1]
    /\ UNCHANGED <<mu, call, known>>

Step(r) == Lock(r) \/ Hit(r) \/ Miss(r) \/ Store(r) \/ Drop(r) \/ Reply(r)

CacheNext ==
    \/ \E r \in Callers :
          \/ \E t \in Tokens : Verify(r, t)
          \/ Decide(r, "storing") \/ Decide(r, "dropping")
          \/ Step(r)
    \/ \E t \in Tokens : Revoke(t) \/ Grant(t)
    \/ CacheTick

CacheSpec == CacheInit /\ [][CacheNext]_cacheVars

\* Goroutines are scheduled and a sync.Mutex is not lost for ever by a waiter
\* (strong fairness for Lock and Store).  Nothing is assumed of the command.
CacheFairSpec ==
    /\ CacheSpec
    /\ \A r \in Callers :
          /\ SF_cacheVars(Lock(r)) /\ SF_cacheVars(Store(r))
          /\ WF_cacheVars(Hit(r) \/ Miss(r) \/ Drop(r) \/ Reply(r))

--------------------------------------------------------------------------------
\* A token the cache would accept now was recognised by the authenticator less
\* than TTL + MaxLag ticks ago, and the sooner it was revoked the less time its
\* entry has left.  A store that races a revocation cannot outlive this bound.
EntryBounded == \A t \in Tokens : left[t] > 0 => silence[t] + left[t] <= Horizon

\* No request is accepted with a token that has been revoked for TTL + MaxLag
\* ticks or was never known, from the cache or from a late answer.
AcceptedWhileKnown ==
    [][\A r \in Callers :
          call[r].pc # "accepted" /\ call'[r].pc = "accepted"
              => silence[call[r].token] < Horizon]_cacheVars

\* A command that hangs for one token holds up no request of another: whoever
\* waits for the mutex gets it.
NobodyWaitsForTheCommand ==
    \A r \in Callers : At(r, "lookup") ~> ~At(r, "lookup")
================================================================================
