------------------------------- MODULE AuthProofs -------------------------------
(* Theorems about the two parts of internal/auth, for every instance: RateLimiter, *)
(* whose failures stay ordered and bounded, and VerifyCache, which accepts no      *)
(* revoked token beyond TTL + MaxLag.  They share no state.                        *)
EXTENDS RateLimiter, VerifyCache, FiniteSetTheorems, SequenceTheorems,
        WellFoundedInduction, TLAPS

--------------------------------------------------------------------------------
(* RateLimiter *)

\* A list of ages: its indices, and ages it may hold.
LEMMA AgesType ==
    ASSUME NEW ages \in Seq(Ages)
    PROVE  /\ Len(ages) \in Nat /\ DOMAIN ages = 1 .. Len(ages)
           /\ IsFiniteSet(1 .. Len(ages))
           /\ \A i \in 1 .. Len(ages) : ages[i] \in Nat
<1>1. Len(ages) \in Nat /\ DOMAIN ages = 1 .. Len(ages)
  BY LenProperties
<1>2. \A i \in 1 .. Len(ages) : ages[i] \in Ages
  BY ElementOfSeq
<1>3. Ages \subseteq Nat
  BY Assumptions DEF Assumptions, Ages
<1>4. \A n \in Nat : IsFiniteSet(1 .. n)
  BY FS_Interval
<1> QED
  BY <1>1, <1>2, <1>3, <1>4

\* The loop of prune stops within the slice.
LEMMA StalePrefixType ==
    ASSUME NEW ages \in Seq(Ages)
    PROVE  StalePrefix(ages) \in 0 .. Len(ages)
<1> DEFINE S == {i \in DOMAIN ages : \A j \in 1 .. i : Stale(ages[j])}
<1>1. Len(ages) \in Nat /\ DOMAIN ages = 1 .. Len(ages)
  BY LenProperties
<1>2. IsFiniteSet(1 .. Len(ages)) /\ Cardinality(1 .. Len(ages)) = Len(ages)
  BY <1>1, FS_Interval, SMTT(40)
<1>3. S \in SUBSET (1 .. Len(ages))
  BY <1>1
<1>4. IsFiniteSet(S) /\ Cardinality(S) <= Len(ages)
  BY <1>2, <1>3, FS_Subset
<1>5. Cardinality(S) \in Nat
  BY <1>4, FS_CardinalityType
<1> QED
  BY <1>1, <1>4, <1>5 DEF StalePrefix

\* prune returns a suffix of the slice.
LEMMA PruneSuffix ==
    ASSUME NEW ages \in Seq(Ages)
    PROVE  /\ Prune(ages) \in Seq(Ages)
           /\ Len(Prune(ages)) = Len(ages) - StalePrefix(ages)
           /\ Len(Prune(ages)) <= Len(ages)
           /\ \A i \in 1 .. Len(Prune(ages)) :
                 /\ i + StalePrefix(ages) \in 1 .. Len(ages)
                 /\ Prune(ages)[i] = ages[i + StalePrefix(ages)]
<1> DEFINE k == StalePrefix(ages)
           n == Len(ages)
<1>1. n \in Nat /\ k \in 0 .. n
  BY LenProperties, StalePrefixType
<1>2. \A i \in k + 1 .. n : ages[i] \in Ages
  BY <1>1, ElementOfSeq
<1> HIDE DEF k, n
<1>3. /\ SubSeq(ages, k + 1, n) \in Seq(Ages)
      /\ Len(SubSeq(ages, k + 1, n)) = IF k + 1 <= n THEN n - (k + 1) + 1 ELSE 0
      /\ \A i \in 1 .. n - (k + 1) + 1 : SubSeq(ages, k + 1, n)[i] = ages[k + 1 + i - 1]
  BY <1>1, <1>2, SubSeqProperties
<1>4. Prune(ages) = SubSeq(ages, k + 1, n)
  BY DEF Prune, k, n
<1>5. Len(Prune(ages)) = n - k
  BY <1>1, <1>3, <1>4
<1>6. \A i \in 1 .. n - k : Prune(ages)[i] = ages[i + k]
  <2> TAKE i \in 1 .. n - k
  <2>1. i \in 1 .. n - (k + 1) + 1 /\ k + 1 + i - 1 = i + k
    BY <1>1
  <2> QED
    BY <1>3, <1>4, <2>1
<1>7. \A i \in 1 .. n - k : i + k \in 1 .. n
  BY <1>1
<1>8. n - k <= n
  BY <1>1
<1>9. Prune(ages) \in Seq(Ages)
  BY <1>3, <1>4
<1>10. /\ \A i \in 1 .. Len(Prune(ages)) : i + k \in 1 .. n
       /\ \A i \in 1 .. Len(Prune(ages)) : Prune(ages)[i] = ages[i + k]
       /\ Len(Prune(ages)) <= n
  BY <1>5, <1>6, <1>7, <1>8, Zenon
<1> QED
  BY <1>5, <1>9, <1>10, Zenon DEF k, n

\* The types at the start.
LEMMA InitTypes == ASSUME Init PROVE TypeOK
  BY DEF Init, TypeOK, Idle, Steps

\* Every step keeps the types.
LEMMA NextTypes == ASSUME TypeOK, [Next]_vars PROVE TypeOK'
<1> USE DEF TypeOK, Idle, Steps
<1>1. ASSUME NEW r \in Requests, NEW ip \in IPs, Consult(r, ip) PROVE TypeOK'
  <2>1. Prune(failures[ip]) \in Seq(Ages)
    BY PruneSuffix
  <2> QED
    BY <1>1, <2>1 DEF Consult
<1>2. ASSUME NEW r \in Requests, Fail(r) PROVE TypeOK'
  <2>1. req[r].ip \in IPs
    BY <1>2 DEF Fail, Record
  <2>2. 0 \in Ages
    BY Assumptions DEF Assumptions, Ages
  <2>3. Append(failures[req[r].ip], 0) \in Seq(Ages)
    BY <2>1, <2>2, AppendProperties
  <2>4. Prune(Append(failures[req[r].ip], 0)) \in Seq(Ages)
    BY <2>3, PruneSuffix
  <2> QED
    BY <1>2, <2>1, <2>4, SMTT(40) DEF Fail, Record
<1>3. ASSUME NEW r \in Requests, Finish(r) PROVE TypeOK'
  BY <1>3 DEF Finish
<1>4. CASE PruneAll
  <2>1. \A ip \in IPs : Prune(failures[ip]) \in Seq(Ages)
    BY PruneSuffix
  <2> QED
    BY <1>4, <2>1 DEF PruneAll
<1>5. CASE Tick
  <2>1. ASSUME NEW ip \in IPs
        PROVE  [i \in DOMAIN failures[ip] |-> Older(failures[ip][i])] \in Seq(Ages)
    <3>1. DOMAIN failures[ip] = 1 .. Len(failures[ip]) /\ Len(failures[ip]) \in Nat
      BY LenProperties
    <3>2. \A i \in 1 .. Len(failures[ip]) : failures[ip][i] \in Ages
      BY ElementOfSeq
    <3>3. \A age \in Ages : Older(age) \in Ages
      BY Assumptions DEF Assumptions, Ages, Older, Stale
    <3> QED
      BY <3>1, <3>2, <3>3
  <2> QED
    BY <1>5, <2>1 DEF Tick
<1>6. CASE UNCHANGED vars
  BY <1>6 DEF vars
<1> QED
  BY <1>1, <1>2, <1>3, <1>4, <1>5, <1>6 DEF Next, Answer

\* Every operation of the limiter and every request keeps the types: a failure is
\* never older than one tick past the window.
THEOREM TypeCorrect == Spec => []TypeOK
<1>1. TypeOK /\ [Next]_vars => TypeOK'
  BY NextTypes
<1> QED
  BY InitTypes, <1>1, PTL DEF Spec

--------------------------------------------------------------------------------
(* The overshoot *)

\* The requests that verify are finitely many.
LEMMA InFlightType ==
    ASSUME NEW ip \in IPs
    PROVE  /\ IsFiniteSet(InFlight(ip))
           /\ Cardinality(InFlight(ip)) \in Nat
           /\ Cardinality(InFlight(ip)) <= Cardinality(Requests)
           /\ Cardinality(Requests) \in Nat \ {0}
<1>1. InFlight(ip) \in SUBSET Requests
  BY DEF InFlight
<1>2. IsFiniteSet(Requests) /\ Requests # {}
  BY Assumptions DEF Assumptions
<1>3. Cardinality(Requests) \in Nat /\ Cardinality(Requests) # 0
  BY <1>2, FS_CardinalityType, FS_EmptySet
<1>4. IsFiniteSet(InFlight(ip)) /\ Cardinality(InFlight(ip)) <= Cardinality(Requests)
  BY <1>1, <1>2, FS_Subset
<1>5. Cardinality(InFlight(ip)) \in Nat
  BY <1>4, FS_CardinalityType
<1> QED
  BY <1>3, <1>4, <1>5

\* With fewer requests in flight there cannot be more of them.
LEMMA FewerInFlight ==
    ASSUME NEW ip \in IPs, InFlight(ip)' \subseteq InFlight(ip)
    PROVE  /\ Cardinality(InFlight(ip)') \in Nat
           /\ Cardinality(InFlight(ip)') <= Cardinality(InFlight(ip))
<1>1. IsFiniteSet(InFlight(ip))
  BY InFlightType
<1>2. IsFiniteSet(InFlight(ip)') /\ Cardinality(InFlight(ip)') <= Cardinality(InFlight(ip))
  BY <1>1, FS_Subset
<1> QED
  BY <1>2, FS_CardinalityType

\* Every step keeps the overshoot: a request adds itself to those in flight only when
\* the stored failures are below the limit, and trades its place for one failure.
LEMMA NextOvershoot ==
    ASSUME TypeOK, OvershootBounded, [Next]_vars
    PROVE  OvershootBounded'
<1> SUFFICES ASSUME NEW ip \in IPs
             PROVE  Len(failures'[ip]) + Cardinality(InFlight(ip)')
                        < MaxFailures + Cardinality(Requests)
  BY DEF OvershootBounded
<1>1. /\ failures[ip] \in Seq(Ages) /\ Len(failures[ip]) \in Nat
      /\ failures'[ip] \in Seq(Ages) /\ Len(failures'[ip]) \in Nat
      /\ MaxFailures \in Nat
  <2>1. failures[ip] \in Seq(Ages) /\ failures'[ip] \in Seq(Ages)
    BY NextTypes DEF TypeOK
  <2> QED
    BY <2>1, LenProperties, Assumptions DEF Assumptions
<1>2. /\ Cardinality(InFlight(ip)) \in Nat
      /\ Cardinality(Requests) \in Nat \ {0}
      /\ Len(failures[ip]) + Cardinality(InFlight(ip)) < MaxFailures + Cardinality(Requests)
  BY InFlightType DEF OvershootBounded
<1>3. CASE /\ Len(failures'[ip]) <= Len(failures[ip])
           /\ InFlight(ip)' \subseteq InFlight(ip)
  BY <1>1, <1>2, <1>3, FewerInFlight
<1>4. ASSUME NEW r \in Requests, NEW other \in IPs, Consult(r, other)
      PROVE  Len(failures'[ip]) + Cardinality(InFlight(ip)')
                 < MaxFailures + Cardinality(Requests)
  <2>1. Len(failures'[ip]) <= Len(failures[ip])
    BY <1>1, <1>4, PruneSuffix DEF Consult, TypeOK
  <2>2. \A q \in Requests \ {r} : req'[q] = req[q]
    BY <1>4 DEF Consult, TypeOK
  <2>3. req'[r] = [pc |-> IF OverLimit(failures'[other]) THEN "refused" ELSE "verifying",
                   ip |-> other]
    BY <1>4 DEF Consult, TypeOK
  <2>4. CASE other = ip /\ ~OverLimit(failures'[ip])
    <3>1. Len(failures'[ip]) < MaxFailures
      BY <1>1, <2>4 DEF OverLimit
    <3>2. InFlight(ip)' \in SUBSET Requests
      BY DEF InFlight
    <3>3. IsFiniteSet(InFlight(ip)') /\ Cardinality(InFlight(ip)') <= Cardinality(Requests)
      BY <3>2, FS_Subset, Assumptions DEF Assumptions
    <3>4. Cardinality(InFlight(ip)') \in Nat
      BY <3>3, FS_CardinalityType
    <3> QED
      BY <1>1, <1>2, <3>1, <3>3, <3>4
  <2>5. CASE ~(other = ip /\ ~OverLimit(failures'[ip]))
    <3>1. req'[r] # [pc |-> "verifying", ip |-> ip]
      BY <2>3, <2>5
    <3>2. InFlight(ip)' \subseteq InFlight(ip)
      BY <2>2, <3>1 DEF InFlight
    <3> QED
      BY <1>3, <2>1, <3>2
  <2> QED
    BY <2>4, <2>5
<1>5. ASSUME NEW r \in Requests, Fail(r)
      PROVE  Len(failures'[ip]) + Cardinality(InFlight(ip)')
                 < MaxFailures + Cardinality(Requests)
  <2>1. /\ req[r] \in [pc : {"verifying"}, ip : IPs]
        /\ failures' = [failures EXCEPT ![req[r].ip] = Prune(Append(@, 0))]
        /\ req' = [req EXCEPT ![r].pc = "failed"]
    BY <1>5 DEF Fail, Record, TypeOK, Idle, Steps
  <2>2. InFlight(ip)' = InFlight(ip) \ {r}
    BY <2>1 DEF InFlight, TypeOK, Idle, Steps
  <2>3. CASE req[r].ip # ip
    BY <1>3, <2>1, <2>2, <2>3, <1>1 DEF TypeOK
  <2>4. CASE req[r].ip = ip
    <3>1. r \in InFlight(ip)
      BY <2>1, <2>4 DEF InFlight
    <3>2. Cardinality(InFlight(ip)') = Cardinality(InFlight(ip)) - 1
      BY <2>2, <3>1, InFlightType, FS_RemoveElement, ZenonT(60)
    <3>3. 0 \in Ages
      BY Assumptions DEF Assumptions, Ages
    <3>4. /\ Append(failures[ip], 0) \in Seq(Ages)
          /\ Len(Append(failures[ip], 0)) = Len(failures[ip]) + 1
      BY <1>1, <3>3, AppendProperties
    <3>5. Len(Prune(Append(failures[ip], 0))) <= Len(failures[ip]) + 1
      BY <3>4, PruneSuffix
    <3>6. failures'[ip] = Prune(Append(failures[ip], 0))
      BY <2>1, <2>4 DEF TypeOK
    <3> QED
      BY <1>1, <1>2, <3>2, <3>5, <3>6
  <2> QED
    BY <2>3, <2>4
<1>6. CASE PruneAll
  <2>1. Len(failures'[ip]) <= Len(failures[ip])
    BY <1>1, <1>6, PruneSuffix DEF PruneAll
  <2> QED
    BY <1>3, <1>6, <2>1 DEF PruneAll, InFlight
<1>7. CASE Tick
  <2>1. failures'[ip] = [i \in DOMAIN failures[ip] |-> Older(failures[ip][i])]
    BY <1>7 DEF Tick
  <2>2. Len(failures'[ip]) = Len(failures[ip])
    BY <1>1, <2>1, LenProperties
  <2> QED
    BY <1>1, <1>3, <1>7, <2>2 DEF Tick, InFlight
<1>8. ASSUME NEW r \in Requests, Finish(r)
      PROVE  InFlight(ip)' \subseteq InFlight(ip) /\ failures' = failures
  BY <1>8 DEF Finish, InFlight, TypeOK, Idle, Steps
<1>9. CASE UNCHANGED vars
  BY <1>1, <1>3, <1>9 DEF vars, InFlight
<1> QED
  BY <1>1, <1>3, <1>4, <1>5, <1>6, <1>7, <1>8, <1>9 DEF Next, Answer

\* However many requests of an address pass IsBlocked before the first of them records
\* its failure, the failures stored stay below max_failures plus the requests open.
THEOREM OvershootIsBounded == Spec => []OvershootBounded
<1>1. Init => OvershootBounded
  <2> SUFFICES ASSUME Init, NEW ip \in IPs
               PROVE  Len(failures[ip]) + Cardinality(InFlight(ip))
                          < MaxFailures + Cardinality(Requests)
    BY DEF OvershootBounded
  <2>1. InFlight(ip) = {}
    BY DEF Init, InFlight, Idle
  <2>2. Len(failures[ip]) = 0 /\ Cardinality(InFlight(ip)) = 0
    BY <2>1, FS_EmptySet DEF Init
  <2> QED
    BY <2>2, InFlightType, Assumptions DEF Assumptions
<1>2. TypeOK /\ OvershootBounded /\ [Next]_vars => OvershootBounded'
  BY NextOvershoot
<1> QED
  BY <1>1, <1>2, TypeCorrect, PTL DEF Spec

--------------------------------------------------------------------------------
(* What prune drops *)

Sorted(ages) == \A i, j \in 1 .. Len(ages) : i <= j => ages[j] <= ages[i]

\* The loop of prune stops at the first timestamp that is not stale.
LEMMA StalePrefixStops ==
    ASSUME NEW ages \in Seq(Ages)
    PROVE  /\ \A i \in 1 .. StalePrefix(ages) : Stale(ages[i])
           /\ StalePrefix(ages) < Len(ages) => ~Stale(ages[StalePrefix(ages) + 1])
<1> DEFINE n == Len(ages)
           S == {i \in 1 .. n : \A j \in 1 .. i : Stale(ages[j])}
           T == {i \in 1 .. n + 1 : i \notin S}
<1>1. n \in Nat /\ DOMAIN ages = 1 .. n
  BY LenProperties
<1>2. PICK m \in T : \A i \in T : ~(i < m)
  <2>1. n + 1 \in T /\ T \subseteq Nat
    BY <1>1
  <2> DEFINE R == OpToRel(<, Nat)
  <2>2. IsWellFoundedOn(R, Nat)
    BY NatLessThanWellFounded
  <2>3. \A i, m \in Nat : i < m => <<i, m>> \in R
    BY DEF OpToRel
  <2>4. T # {}
    BY <2>1
  <2> HIDE DEF R, T
  <2>5. \E m \in T : \A i \in T : ~(<<i, m>> \in R)
    BY <2>1, <2>2, <2>4, WFMin
  <2> QED
    BY <2>1, <2>3, <2>5
<1>3. S = 1 .. m - 1
  <2>1. m \in 1 .. n + 1
    OBVIOUS
  <2>2. ASSUME NEW i \in 1 .. m - 1 PROVE i \in S
    <3>1. i \in 1 .. n + 1 /\ i < m
      BY <1>1, <2>1
    <3> QED
      BY <1>2, <3>1
  <2>3. ASSUME NEW i \in S, ~(i < m) PROVE FALSE
    <3>1. i \in 1 .. n /\ m \in 1 .. n /\ m <= i
      BY <1>1, <2>1, <2>3
    <3>2. \A j \in 1 .. m : j \in 1 .. i
      BY <1>1, <3>1
    <3>3. m \in S
      BY <2>3, <3>1, <3>2
    <3> QED
      BY <3>3
  <2> QED
    BY <1>1, <2>1, <2>2, <2>3
<1>4. StalePrefix(ages) = m - 1
  <2>1. StalePrefix(ages) = Cardinality(S)
    BY <1>1 DEF StalePrefix
  <2>2. m \in 1 .. n + 1
    OBVIOUS
  <2> HIDE DEF S, T
  <2> QED
    BY <1>1, <1>3, <2>1, <2>2, FS_Interval
<1>5. m \in 1 .. n + 1 /\ m \notin S
  OBVIOUS
<1>6. \A i \in 1 .. m - 1 : Stale(ages[i])
  BY <1>1, <1>3, <1>5
<1>7. m <= n => ~Stale(ages[m])
  <2> SUFFICES ASSUME m <= n, Stale(ages[m]) PROVE FALSE
    OBVIOUS
  <2>1. \A j \in 1 .. m : Stale(ages[j])
    BY <1>1, <1>5, <1>6
  <2> QED
    BY <1>1, <1>5, <2>1
<1> HIDE DEF S, T, n
<1>8. m - 1 < n => m <= n
  BY <1>1, <1>5
<1>9. (m - 1) + 1 = m
  BY <1>1, <1>5
<1> QED
  BY <1>4, <1>6, <1>7, <1>8, <1>9 DEF n

\* On a slice in time order prune drops every timestamp that has left the window, and
\* no other.
LEMMA PruneExact ==
    ASSUME NEW ages \in Seq(Ages), Sorted(ages)
    PROVE  /\ \A i \in 1 .. StalePrefix(ages) : Stale(ages[i])
           /\ \A i \in 1 .. Len(Prune(ages)) : ~Stale(Prune(ages)[i])
           /\ Sorted(Prune(ages))
<1> DEFINE k == StalePrefix(ages)
           n == Len(ages)
           out == Prune(ages)
<1>1. /\ n \in Nat /\ k \in 0 .. n
      /\ Window \in Nat
      /\ \A i \in 1 .. n : ages[i] \in Ages
  BY LenProperties, ElementOfSeq, StalePrefixType, Assumptions DEF Assumptions
<1>2. /\ Len(out) = n - k
      /\ \A i \in 1 .. n - k : i + k \in 1 .. n /\ out[i] = ages[i + k]
  BY <1>1, PruneSuffix
<1>3. ASSUME NEW i \in 1 .. n - k PROVE ~Stale(out[i])
  <2>1. k < n /\ k + 1 \in 1 .. n /\ i + k \in 1 .. n /\ k + 1 <= i + k
    BY <1>1
  <2>2. ages[i + k] <= ages[k + 1]
    BY <2>1 DEF Sorted
  <2>3. ~Stale(ages[k + 1])
    BY <2>1, StalePrefixStops
  <2>4. ages[i + k] \in Nat /\ ages[k + 1] \in Nat
    BY <1>1, <2>1, SMTT(40) DEF Ages
  <2> QED
    BY <1>1, <1>2, <2>2, <2>3, <2>4 DEF Stale
<1>4. Sorted(out)
  <2> SUFFICES ASSUME NEW i \in 1 .. n - k, NEW j \in 1 .. n - k, i <= j
               PROVE  out[j] <= out[i]
    BY <1>2 DEF Sorted
  <2>1. i + k \in 1 .. n /\ j + k \in 1 .. n /\ i + k <= j + k
    BY <1>1
  <2>2. ages[j + k] <= ages[i + k]
    BY <2>1 DEF Sorted
  <2> QED
    BY <1>2, <2>2
<1> QED
  BY <1>2, <1>3, <1>4, StalePrefixStops

\* Recording a failure appends the youngest timestamp, time passes for all alike.
LEMMA NextOldestFirst ==
    ASSUME TypeOK, OldestFirst, [Next]_vars
    PROVE  OldestFirst'
<1> SUFFICES ASSUME NEW ip \in IPs PROVE Sorted(failures'[ip])
  <2>1. \A ip \in IPs : failures'[ip] \in Seq(Ages)
    BY NextTypes DEF TypeOK
  <2>2. \A ip \in IPs : DOMAIN failures'[ip] = 1 .. Len(failures'[ip])
    BY <2>1, LenProperties
  <2> QED
    BY <2>2 DEF OldestFirst, Sorted
<1>1. /\ failures[ip] \in Seq(Ages)
      /\ Len(failures[ip]) \in Nat
      /\ DOMAIN failures[ip] = 1 .. Len(failures[ip])
      /\ \A i \in 1 .. Len(failures[ip]) : failures[ip][i] \in Ages
  BY LenProperties, ElementOfSeq DEF TypeOK
<1>2. Sorted(failures[ip])
  BY <1>1 DEF OldestFirst, Sorted
<1>3. Sorted(Prune(failures[ip]))
  BY <1>1, <1>2, PruneExact
<1>4. ASSUME NEW r \in Requests, NEW other \in IPs, Consult(r, other)
      PROVE  Sorted(failures'[ip])
  BY <1>2, <1>3, <1>4 DEF Consult, TypeOK
<1>5. ASSUME NEW r \in Requests, Fail(r) PROVE Sorted(failures'[ip])
  <2> DEFINE longer == Append(failures[ip], 0)
  <2>1. 0 \in Ages /\ Ages \subseteq Nat
    BY Assumptions DEF Assumptions, Ages
  <2>2. /\ longer \in Seq(Ages)
        /\ Len(longer) = Len(failures[ip]) + 1
        /\ longer[Len(failures[ip]) + 1] = 0
        /\ \A i \in 1 .. Len(failures[ip]) : longer[i] = failures[ip][i]
    BY <1>1, <2>1, AppendProperties
  <2>3. Sorted(longer)
    <3> SUFFICES ASSUME NEW i \in 1 .. Len(failures[ip]) + 1,
                        NEW j \in 1 .. Len(failures[ip]) + 1, i <= j
                 PROVE  longer[j] <= longer[i]
      BY <2>2 DEF Sorted
    <3>1. longer[i] \in Nat
      BY <2>1, <2>2, ElementOfSeq
    <3>2. CASE j = Len(failures[ip]) + 1
      BY <2>2, <3>1, <3>2
    <3>3. CASE j # Len(failures[ip]) + 1
      <4>1. i \in 1 .. Len(failures[ip]) /\ j \in 1 .. Len(failures[ip])
        BY <1>1, <3>3
      <4> QED
        BY <1>2, <2>2, <4>1 DEF Sorted
    <3> QED
      BY <3>2, <3>3
  <2>4. Sorted(Prune(longer))
    BY <2>2, <2>3, PruneExact
  <2> QED
    BY <1>2, <1>5, <2>4 DEF Fail, Record, TypeOK
<1>6. CASE PruneAll
  BY <1>3, <1>6 DEF PruneAll
<1>7. CASE Tick
  <2>1. failures'[ip] = [i \in 1 .. Len(failures[ip]) |-> Older(failures[ip][i])]
    BY <1>1, <1>7 DEF Tick
  <2>2. Len(failures'[ip]) = Len(failures[ip])
    BY <1>1, <2>1
  <2>3. \A a, b \in Ages : a <= b => Older(a) <= Older(b)
    BY Assumptions DEF Assumptions, Ages, Older, Stale
  <2> QED
    BY <1>1, <1>2, <2>1, <2>2, <2>3 DEF Sorted
<1>8. CASE UNCHANGED failures
  BY <1>2, <1>8
<1> QED
  BY <1>4, <1>5, <1>6, <1>7, <1>8 DEF Next, Answer, Finish, vars

\* The failures of an address lie in time order, so that prune, which stops at the
\* first young one, keeps exactly those within the window.
THEOREM AlwaysOldestFirst == Spec => []OldestFirst
<1>1. Init => OldestFirst
  BY DEF Init, OldestFirst
<1>2. TypeOK /\ OldestFirst /\ [Next]_vars => OldestFirst'
  BY NextOldestFirst
<1> QED
  BY <1>1, <1>2, TypeCorrect, PTL DEF Spec

--------------------------------------------------------------------------------
(* The verdict *)

\* What prune leaves is as long as there are failures in the window.
LEMMA PruneCounts ==
    ASSUME NEW ages \in Seq(Ages), Sorted(ages)
    PROVE  Len(Prune(ages)) = Within(ages, Window)
<1> DEFINE k == StalePrefix(ages)
           n == Len(ages)
           S == {i \in DOMAIN ages : ages[i] <= Window}
<1>1. n \in Nat /\ k \in 0 .. n /\ DOMAIN ages = 1 .. n
  BY LenProperties, StalePrefixType
<1>2. \A i \in 1 .. k : Stale(ages[i])
  BY PruneExact
<1>3. ASSUME NEW i \in k + 1 .. n PROVE ~Stale(ages[i])
  <2>1. i - k \in 1 .. n - k /\ (i - k) + k = i
    BY <1>1
  <2>2. Len(Prune(ages)) = n - k
    BY PruneSuffix
  <2>3. ~Stale(Prune(ages)[i - k]) /\ Prune(ages)[i - k] = ages[(i - k) + k]
    BY <2>1, <2>2, PruneExact, PruneSuffix
  <2> QED
    BY <2>1, <2>3
<1>4. S = k + 1 .. n
  <2>1. \A i \in 1 .. n : ages[i] <= Window <=> ~Stale(ages[i])
    BY AgesType, Assumptions DEF Assumptions, Stale
  <2> QED
    BY <1>1, <1>2, <1>3, <2>1
<1>5. Cardinality(k + 1 .. n) = n - k
  <2> HIDE DEF k, n
  <2>1. k + 1 \in Int /\ n \in Int
    BY <1>1
  <2>2. Cardinality(k + 1 .. n) = IF k + 1 > n THEN 0 ELSE n - (k + 1) + 1
    BY <2>1, FS_Interval
  <2> QED
    BY <1>1, <2>2
<1>6. Len(Prune(ages)) = n - k
  BY PruneSuffix
<1> QED
  BY <1>4, <1>5, <1>6 DEF Within

\* What prune drops was outside the window: however long ago, no count of recent
\* failures changes.
LEMMA PruneKeepsCounts ==
    ASSUME NEW ages \in Seq(Ages), NEW age \in 0 .. Window
    PROVE  Within(Prune(ages), age) = Within(ages, age)
<1> DEFINE S == {i \in DOMAIN ages : ages[i] <= age}
           T == {i \in DOMAIN Prune(ages) : Prune(ages)[i] <= age}
<1>1. PICK k \in Nat : k = StalePrefix(ages) /\ k <= Len(ages)
  BY StalePrefixType, LenProperties
<1>2. PICK n \in Nat : n = Len(ages) /\ DOMAIN ages = 1 .. n
  BY AgesType
<1>3. /\ DOMAIN Prune(ages) = 1 .. n - k
      /\ \A i \in 1 .. n - k : Prune(ages)[i] = ages[i + k]
  BY <1>1, <1>2, PruneSuffix, LenProperties
<1>4. \A i \in S : i \in k + 1 .. n
  <2>1. \A i \in 1 .. n : ages[i] \in Nat
    BY <1>2, AgesType
  <2>2. \A i \in 1 .. k : Stale(ages[i])
    BY <1>1, StalePrefixStops
  <2> QED
    BY <1>1, <1>2, <2>1, <2>2, Assumptions DEF Assumptions, Stale
<1>5. IsFiniteSet(S) /\ IsFiniteSet(T)
  <2> n - k \in Int
    OBVIOUS
  <2>1. IsFiniteSet(1 .. n) /\ IsFiniteSet(1 .. n - k)
    BY FS_Interval
  <2>2. S \in SUBSET (1 .. n) /\ T \in SUBSET (1 .. n - k)
    BY <1>2, <1>3
  <2> QED
    BY <2>1, <2>2, FS_Subset
<1> DEFINE shift == [i \in T |-> i + k]
<1>6. shift \in Bijection(T, S)
  <2>1. T \subseteq 1 .. n - k /\ \A i \in T : i + k \in S
    BY <1>1, <1>2, <1>3
  <2>2. \A i, j \in T : i + k = j + k => i = j
    BY <2>1
  <2>3. ASSUME NEW i \in S PROVE \E j \in T : j + k = i
    <3>1. i - k \in 1 .. n - k /\ (i - k) + k = i
      BY <1>1, <1>2, <1>4
    <3>2. i - k \in T
      BY <1>3, <3>1
    <3> QED
      BY <3>1, <3>2
  <2> HIDE DEF S, T
  <2> QED
    BY <2>1, <2>2, <2>3 DEF Bijection, Injection, Surjection, IsInjective
<1> HIDE DEF shift, S, T
<1>7. Cardinality(T) = Cardinality(S)
  <2>1. ExistsBijection(T, S)
    BY <1>6 DEF ExistsBijection
  <2> QED
    BY <1>5, <2>1, FS_Bijection
<1> QED
  BY <1>7 DEF Within, S, T

\* A failure recorded now adds one to every count of recent failures.
LEMMA AppendCounts ==
    ASSUME NEW ages \in Seq(Ages), NEW age \in 0 .. Window
    PROVE  /\ Within(ages, age) \in Nat
           /\ Within(Append(ages, 0), age) = Within(ages, age) + 1
<1> DEFINE S == {i \in DOMAIN ages : ages[i] <= age}
           T == {i \in DOMAIN Append(ages, 0) : Append(ages, 0)[i] <= age}
<1>1. PICK n \in Nat : n = Len(ages) /\ DOMAIN ages = 1 .. n
  BY AgesType
<1>2. 0 \in Ages
  BY Assumptions DEF Assumptions, Ages
<1>3. /\ DOMAIN Append(ages, 0) = 1 .. n + 1
      /\ Append(ages, 0)[n + 1] = 0
      /\ \A i \in 1 .. n : Append(ages, 0)[i] = ages[i]
  BY <1>1, <1>2, AppendProperties, LenProperties
<1>4. IsFiniteSet(S) /\ n + 1 \notin S
  <2>1. IsFiniteSet(1 .. n)
    BY <1>1, FS_Interval
  <2> QED
    BY <1>1, <2>1, FS_Subset
<1>5. T = S \cup {n + 1}
  BY <1>1, <1>3
<1> HIDE DEF S, T
<1>6. Cardinality(T) = Cardinality(S) + 1 /\ Cardinality(S) \in Nat
  BY <1>4, <1>5, FS_AddElement, FS_CardinalityType
<1> QED
  BY <1>6 DEF Within, S, T

\* What was at most age - 1 ticks old is at most age ticks old after a tick.
LEMMA TickCounts ==
    ASSUME NEW ages \in Seq(Ages), NEW age \in 0 .. Window
    PROVE  Within([i \in DOMAIN ages |-> Older(ages[i])], age)
               = IF age = 0 THEN 0 ELSE Within(ages, age - 1)
<1>1. PICK n \in Nat : n = Len(ages) /\ DOMAIN ages = 1 .. n
  BY AgesType
<1>2. \A i \in 1 .. n : ages[i] \in Nat
  BY <1>1, AgesType
<1>3. Window \in Nat
  BY Assumptions DEF Assumptions
<1> DEFINE T == {i \in 1 .. n : Older(ages[i]) <= age}
<1>4. Within([i \in DOMAIN ages |-> Older(ages[i])], age) = Cardinality(T)
  BY <1>1 DEF Within
<1>5. T = {i \in 1 .. n : ages[i] <= age - 1}
  BY <1>2, <1>3 DEF Older, Stale
<1>6. CASE age = 0
  <2>1. T = {}
    BY <1>2, <1>5, <1>6
  <2> QED
    BY <1>4, <1>6, <2>1, FS_EmptySet
<1>7. CASE age # 0
  BY <1>1, <1>4, <1>5, <1>7 DEF Within
<1> QED
  BY <1>6, <1>7

\* Lazy pruning is unobservable: IsBlocked refuses a request exactly when the address
\* has max_failures failures within the window, whatever is stored beyond it.
THEOREM VerdictIsExact ==
    Spec => [][\A r \in Requests, ip \in IPs :
                  Consult(r, ip) =>
                      (req'[r].pc = "refused" <=> Within(failures[ip], Window) >= MaxFailures)]_vars
<1> DEFINE Exact ==
        \A r \in Requests, ip \in IPs :
            Consult(r, ip) =>
                (req'[r].pc = "refused" <=> Within(failures[ip], Window) >= MaxFailures)
<1>1. ASSUME TypeOK, OldestFirst PROVE Exact
  <2> SUFFICES ASSUME NEW r \in Requests, NEW ip \in IPs, Consult(r, ip)
               PROVE  req'[r].pc = "refused" <=> Within(failures[ip], Window) >= MaxFailures
    OBVIOUS
  <2>1. failures[ip] \in Seq(Ages) /\ failures'[ip] = Prune(failures[ip])
    BY <1>1 DEF TypeOK, Consult
  <2>2. Sorted(failures[ip])
    BY <1>1, <2>1, LenProperties DEF OldestFirst, Sorted
  <2>3. Len(failures'[ip]) = Within(failures[ip], Window)
    BY <2>1, <2>2, PruneCounts
  <2>4. req'[r].pc = IF OverLimit(failures'[ip]) THEN "refused" ELSE "verifying"
    BY <1>1 DEF TypeOK, Consult
  <2> QED
    BY <2>3, <2>4 DEF OverLimit
<1>2. TypeOK /\ OldestFirst => [Exact]_vars
  BY <1>1
<1> QED
  BY <1>2, TypeCorrect, AlwaysOldestFirst, PTL

--------------------------------------------------------------------------------
(* The refinement *)

\* What SlidingWindow sees of the limiter.
Recent == [ip \in IPs |-> [age \in 0 .. Window |-> Within(failures[ip], age)]]

\* A step that changes no count of recent failures is invisible in them.
LEMMA SameRecent ==
    ASSUME \A ip \in IPs : \A age \in 0 .. Window :
               Within(failures'[ip], age) = Within(failures[ip], age)
    PROVE  Recent' = Recent
  BY DEF Recent

\* Empty lists count nothing.
LEMMA InitPromise == ASSUME Init PROVE Promise!Init
<1>1. ASSUME NEW ip \in IPs, NEW age \in 0 .. Window PROVE Within(failures[ip], age) = 0
  <2>1. {i \in DOMAIN failures[ip] : failures[ip][i] <= age} = {}
    BY DEF Init
  <2> QED
    BY <2>1, FS_EmptySet DEF Within
<1> QED
  BY <1>1 DEF Init, Promise!Init, Idle, Promise!Idle

\* Every step is one of the exact window or invisible to it: IsBlocked decides by the
\* same count, Record adds one to it, the ticker does nothing.
LEMMA NextPromise ==
    ASSUME TypeOK, OldestFirst, [Next]_vars
    PROVE  [Promise!Next]_(Promise!vars)
<1>1. \A ip \in IPs : failures[ip] \in Seq(Ages) /\ Sorted(failures[ip])
  <2>1. \A ip \in IPs : failures[ip] \in Seq(Ages)
    BY DEF TypeOK
  <2> QED
    BY <2>1, AgesType DEF OldestFirst, Sorted
<1>2. ASSUME NEW r \in Requests, NEW ip \in IPs, Consult(r, ip)
      PROVE  Promise!Consult(r, ip)
  <2>1. /\ failures' = [failures EXCEPT ![ip] = Prune(@)]
        /\ failures'[ip] = Prune(failures[ip])
    BY <1>2 DEF Consult, TypeOK
  <2>2. Recent' = Recent
    BY <1>1, <2>1, PruneKeepsCounts, SameRecent DEF TypeOK
  <2>3. Len(Prune(failures[ip])) = Within(failures[ip], Window)
    BY <1>1, PruneCounts
  <2>4. Recent[ip][Window] = Within(failures[ip], Window)
    BY Assumptions DEF Assumptions, Recent
  <2>5. Within(failures[ip], Window) \in Nat /\ MaxFailures \in Nat
    BY <1>1, AppendCounts, Assumptions DEF Assumptions
  <2>6. OverLimit(failures'[ip]) <=> ~(Recent[ip][Window] < MaxFailures)
    BY <2>1, <2>3, <2>4, <2>5 DEF OverLimit
  <2> QED
    BY <1>2, <2>2, <2>6 DEF Consult, Promise!Consult, Recent, Idle, Promise!Idle
<1>3. ASSUME NEW r \in Requests, Fail(r) PROVE Promise!Fail(r)
  <2>1. PICK ip \in IPs : req[r].ip = ip
    BY <1>3 DEF Fail, TypeOK, Idle
  <2>2. failures' = [failures EXCEPT ![ip] = Prune(Append(@, 0))]
    BY <1>3, <2>1 DEF Fail, Record
  <2>3. Append(failures[ip], 0) \in Seq(Ages)
    BY <1>1, AppendProperties, Assumptions DEF Assumptions, Ages
  <2>4. ASSUME NEW age \in 0 .. Window
        PROVE  Within(failures'[ip], age) = Within(failures[ip], age) + 1
    BY <1>1, <2>2, <2>3, PruneKeepsCounts, AppendCounts DEF TypeOK
  <2>5. Recent' = [Recent EXCEPT ![ip] = [age \in 0 .. Window |-> @[age] + 1]]
    BY <2>2, <2>4 DEF Recent, TypeOK
  <2> QED
    BY <1>3, <2>1, <2>5 DEF Fail, Promise!Fail, Recent
<1>4. ASSUME NEW r \in Requests, Finish(r) PROVE Promise!Finish(r)
  BY <1>4 DEF Finish, Promise!Finish, Idle, Promise!Idle
<1>5. CASE PruneAll
  <2>1. \A ip \in IPs : failures'[ip] = Prune(failures[ip])
    BY <1>5 DEF PruneAll
  <2>2. Recent' = Recent
    BY <1>1, <2>1, PruneKeepsCounts, SameRecent
  <2> QED
    BY <1>5, <2>2 DEF PruneAll, Promise!vars, Recent
<1>6. CASE Tick
  <2>1. ASSUME NEW ip \in IPs, NEW age \in 0 .. Window
        PROVE  Within(failures'[ip], age)
                   = IF age = 0 THEN 0 ELSE Within(failures[ip], age - 1)
    BY <1>1, <1>6, TickCounts DEF Tick
  <2>2. Recent' = [ip \in IPs |-> [age \in 0 .. Window |->
                      IF age = 0 THEN 0 ELSE Recent[ip][age - 1]]]
    <3>1. PICK seen : seen = Recent
      OBVIOUS
    <3>2. ASSUME NEW ip \in IPs, NEW age \in 0 .. Window, age # 0
          PROVE  seen[ip][age - 1] = Within(failures[ip], age - 1)
      <4>1. age - 1 \in 0 .. Window
        BY <3>2, Assumptions DEF Assumptions
      <4> QED
        BY <3>1, <4>1 DEF Recent
    <3>3. ASSUME NEW ip \in IPs, NEW age \in 0 .. Window
          PROVE  Within(failures'[ip], age) = IF age = 0 THEN 0 ELSE seen[ip][age - 1]
      BY <2>1, <3>2
    <3>4. Recent' = [ip \in IPs |-> [age \in 0 .. Window |->
                        IF age = 0 THEN 0 ELSE seen[ip][age - 1]]]
      <4> DEFINE was(ip, age) == IF age = 0 THEN 0 ELSE seen[ip][age - 1]
      <4>1. \A ip \in IPs : \A age \in 0 .. Window : Within(failures'[ip], age) = was(ip, age)
        BY <3>3
      <4> HIDE DEF was
      <4>2. \A ip \in IPs : [age \in 0 .. Window |-> Within(failures'[ip], age)]
                                = [age \in 0 .. Window |-> was(ip, age)]
        BY <4>1
      <4>3. Recent' = [ip \in IPs |-> [age \in 0 .. Window |-> was(ip, age)]]
        BY <4>2 DEF Recent
      <4> QED
        BY <4>3 DEF was
    <3> QED
      BY <3>1, <3>4
  <2>3. Promise!Tick
    BY <1>6, <2>2, Zenon DEF Tick, Promise!Tick, Recent
  <2> QED
    BY <2>3, Zenon DEF Promise!Next
<1>7. CASE UNCHANGED vars
  BY <1>7 DEF vars, Promise!vars
<1> QED
  BY <1>2, <1>3, <1>4, <1>5, <1>6, <1>7 DEF Next, Answer, Promise!Next

\* The rate limiter implements the exact sliding window: storing timestamps beyond the
\* window, pruning late, in part and concurrently with requests, changes no verdict.
THEOREM WindowIsExact == Spec => ImplementsSlidingWindow
<1>1. TypeOK /\ OldestFirst /\ [Next]_vars => [Promise!Next]_(Promise!vars)
  BY NextPromise
<1> QED
  BY InitPromise, <1>1, TypeCorrect, AlwaysOldestFirst, PTL
     DEF Spec, ImplementsSlidingWindow, Promise!Spec

--------------------------------------------------------------------------------
(* VerifyCache *)

\* The mutex is held by exactly the request that stands in the locked section.
LEMMA CacheInitTypes == ASSUME CacheInit PROVE CacheTypeOK
  BY CacheAssumptions DEF CacheAssumptions, CacheInit, CacheTypeOK, Horizon, NotCalling

\* Every step keeps the types.
LEMMA CacheNextTypes == ASSUME CacheTypeOK, [CacheNext]_cacheVars PROVE CacheTypeOK'
<1> USE CacheAssumptions DEF CacheAssumptions, CacheTypeOK, Horizon, NotCalling, At, Goto, CacheSteps
<1>1. ASSUME NEW r \in Callers, NEW t \in Tokens, Verify(r, t) PROVE CacheTypeOK'
  BY <1>1 DEF Verify
<1>2. ASSUME NEW r \in Callers, NEW pc \in {"storing", "dropping"}, Decide(r, pc)
      PROVE  CacheTypeOK'
  BY <1>2 DEF Decide
<1>3. ASSUME NEW r \in Callers, Lock(r) PROVE CacheTypeOK'
  BY <1>3 DEF Lock
<1>4. ASSUME NEW r \in Callers, Hit(r) PROVE CacheTypeOK'
  BY <1>4 DEF Hit
<1>5. ASSUME NEW r \in Callers, Miss(r) PROVE CacheTypeOK'
  BY <1>5 DEF Miss
<1>6. ASSUME NEW r \in Callers, Store(r) PROVE CacheTypeOK'
  BY <1>6 DEF Store
<1>7. ASSUME NEW r \in Callers, Drop(r) PROVE CacheTypeOK'
  BY <1>7 DEF Drop
<1>8. ASSUME NEW r \in Callers, Reply(r) PROVE CacheTypeOK'
  BY <1>8 DEF Reply
<1>9. ASSUME NEW t \in Tokens, Revoke(t) PROVE CacheTypeOK'
  BY <1>9 DEF Revoke
<1>10. ASSUME NEW t \in Tokens, Grant(t) PROVE CacheTypeOK'
  BY <1>10 DEF Grant
<1>11. CASE CacheTick
  BY <1>11, SMTT(40) DEF CacheTick, Pending
<1>12. CASE UNCHANGED cacheVars
  BY <1>12 DEF cacheVars
<1> QED
  BY <1>1, <1>2, <1>3, <1>4, <1>5, <1>6, <1>7, <1>8, <1>9, <1>10, <1>11, <1>12
     DEF CacheNext, Step

\* Every step of the cache, its requests and the authenticator keeps the types.
THEOREM CacheTypeCorrect == CacheSpec => []CacheTypeOK
<1>1. CacheTypeOK /\ [CacheNext]_cacheVars => CacheTypeOK'
  BY CacheNextTypes
<1> QED
  BY CacheInitTypes, <1>1, PTL DEF CacheSpec

--------------------------------------------------------------------------------
\* What EntryBounded needs of the answers under way: a token that is known has not
\* been silent, and a positive answer is as old as its lag says.
CacheFresh ==
    /\ \A t \in known : silence[t] = 0
    /\ \A r \in Callers : At(r, "storing") => silence[call[r].token] <= lag[r]

CacheInv == CacheFresh /\ EntryBounded

\* The bound and what it needs hold at the start.
LEMMA CacheInitBounded == ASSUME CacheInit PROVE CacheInv
<1>1. \A t \in known : silence[t] = 0
  BY DEF CacheInit
<1>2. \A r \in Callers : ~At(r, "storing")
  BY DEF CacheInit, At, NotCalling
<1>3. EntryBounded
  BY DEF CacheInit, EntryBounded
<1> QED
  BY <1>1, <1>2, <1>3 DEF CacheInv, CacheFresh

\* Every step keeps the bound: a store starts a new TTL, but with an answer no older
\* than MaxLag.
LEMMA CacheNextBounded == ASSUME CacheTypeOK, CacheInv, [CacheNext]_cacheVars PROVE CacheInv'
<1> USE CacheAssumptions DEF CacheAssumptions, CacheTypeOK, Horizon, NotCalling, At, Goto, CacheSteps, CacheInv, CacheFresh,
        EntryBounded
<1>1. ASSUME NEW r \in Callers, NEW t \in Tokens, Verify(r, t) PROVE CacheInv'
  BY <1>1 DEF Verify
<1>2. ASSUME NEW r \in Callers, NEW pc \in {"storing", "dropping"}, Decide(r, pc)
      PROVE  CacheInv'
  BY <1>2 DEF Decide
<1>3. ASSUME NEW r \in Callers, Lock(r) \/ Hit(r) \/ Miss(r) \/ Drop(r) \/ Reply(r)
      PROVE  CacheInv'
  BY <1>3 DEF Lock, Hit, Miss, Drop, Reply
<1>4. ASSUME NEW r \in Callers, Store(r) PROVE CacheInv'
  BY <1>4 DEF Store
<1>5. ASSUME NEW t \in Tokens, Revoke(t) PROVE CacheInv'
  BY <1>5 DEF Revoke
<1>6. ASSUME NEW t \in Tokens, Grant(t) PROVE CacheInv'
  BY <1>6 DEF Grant
<1>7. CASE CacheTick
  <2>1. CacheFresh'
    BY <1>7 DEF CacheTick, Pending
  <2>2. EntryBounded'
    BY <1>7 DEF CacheTick
  <2> QED
    BY <2>1, <2>2
<1>8. CASE UNCHANGED cacheVars
  BY <1>8 DEF cacheVars
<1> QED
  BY <1>1, <1>2, <1>3, <1>4, <1>5, <1>6, <1>7, <1>8 DEF CacheNext, Step

\* The strengthened invariant, for the theorems below.
LEMMA CacheKept == CacheSpec => [](CacheTypeOK /\ CacheInv)
<1>1. CacheTypeOK /\ CacheInv /\ [CacheNext]_cacheVars => CacheInv'
  BY CacheNextBounded
<1> QED
  BY CacheInitBounded, CacheTypeCorrect, <1>1, PTL DEF CacheSpec

\* A cached token was recognised less than TTL + MaxLag ticks ago, even when its store
\* raced its revocation.
THEOREM EntriesAreBounded == CacheSpec => []EntryBounded
<1>1. CacheTypeOK /\ CacheInv => EntryBounded
  BY DEF CacheInv
<1> QED
  BY CacheKept, <1>1, PTL

\* No request is accepted, by the cache or by a late answer, with a token revoked
\* TTL + MaxLag ticks ago.
THEOREM AcceptedOnlyWhileKnown == CacheSpec => AcceptedWhileKnown
<1> DEFINE Timely ==
        \A r \in Callers :
            call[r].pc # "accepted" /\ call'[r].pc = "accepted"
                => silence[call[r].token] < Horizon
<1>1. ASSUME CacheTypeOK, CacheInv, [CacheNext]_cacheVars PROVE Timely
  <2> SUFFICES ASSUME NEW r \in Callers,
                      call[r].pc # "accepted", call'[r].pc = "accepted"
               PROVE  silence[call[r].token] < Horizon
    OBVIOUS
  <2>1. Hit(r) \/ Store(r)
    <3>1. ASSUME NEW q \in Callers, q # r,
                 \/ Step(q) \/ (\E t \in Tokens : Verify(q, t))
                 \/ Decide(q, "storing") \/ Decide(q, "dropping")
          PROVE  FALSE
      BY <1>1, <3>1 DEF Step, Lock, Hit, Miss, Store, Drop, Reply, Verify, Decide, Goto, CacheTypeOK
    <3>2. ~Lock(r) /\ ~Miss(r) /\ ~Drop(r) /\ ~Reply(r)
      BY <1>1 DEF Lock, Miss, Drop, Reply, Goto, CacheTypeOK, NotCalling
    <3>3. \A t \in Tokens : ~Verify(r, t)
      BY <1>1 DEF Verify, CacheTypeOK
    <3>4. ~Decide(r, "storing") /\ ~Decide(r, "dropping")
      BY <1>1 DEF Decide, Goto, CacheTypeOK, At, NotCalling, CacheSteps
    <3> QED
      BY <1>1, <3>1, <3>2, <3>3, <3>4 DEF CacheNext, Step, cacheVars, CacheTick, Revoke, Grant
  <2>2. call[r].token \in Tokens
    BY <1>1, <2>1 DEF Hit, Store, At, CacheTypeOK, NotCalling
  <2>3. CASE Hit(r)
    BY <1>1, <2>2, <2>3, CacheAssumptions DEF CacheAssumptions, Hit, CacheInv, EntryBounded, CacheTypeOK, Horizon
  <2>4. CASE Store(r)
    BY <1>1, <2>2, <2>4, CacheAssumptions DEF CacheAssumptions, Store, CacheInv, CacheFresh, CacheTypeOK, Horizon
  <2> QED
    BY <2>1, <2>3, <2>4
<1>2. CacheTypeOK /\ CacheInv /\ [CacheNext]_cacheVars => [Timely]_cacheVars
  BY <1>1
<1> QED
  BY CacheKept, <1>2, PTL DEF CacheSpec, AcceptedWhileKnown
================================================================================
