---------------------------- MODULE SchemaStoreProofs ----------------------------
(* Theorems about SchemaStore, for any connections, calls, TTL and bounds.           *)
EXTENDS SchemaStore, TLAPS

Waiting == {"invalidate", "lock", "query"}

CallRecord ==
    [pc : Fetching \cup {"idle", "invalidate", "lock", "get", "run", "done"},
     conn : Connections, refresh : BOOLEAN, asked : 0 .. MaxAlters, db : Nat,
     version : 0 .. MaxAlters, age : Nat]

\* What a call with refresh has to see is in no danger of being hidden by older data:
\* not by what is cached, nor by what another call is about to cache.
Fresh ==
    \A c \in Calls :
        /\ call[c].asked <= version[call[c].conn]
        /\ call[c].refresh /\ call[c].pc \in {"rows", "done"} =>
              call[c].asked <= call[c].version
        /\ call[c].refresh /\ call[c].pc = "lock" =>
              /\ cache[call[c].conn].left > 0 => call[c].asked <= cache[call[c].conn].version
              /\ \A d \in Calls :
                    call[d].pc = "rows" /\ call[d].conn = call[c].conn =>
                        call[c].asked <= call[d].version

\* An entry is at most as old as its fetch and what it has used of its life.
Aged ==
    /\ \A n \in Connections : cache[n].left > 0 => cache[n].age + cache[n].left <= TTL + MaxLag
    /\ \A c \in Calls :
          /\ call[c].pc \in Waiting => call[c].age = 0
          /\ call[c].pc = "rows" => call[c].age <= MaxLag
          /\ call[c].pc = "done" => call[c].age < TTL + MaxLag

\* What the pool refers to is numbered from one.
Pooled == ConnectionsNotLeaked /\ \A n \in Connections : <<n, 0>> \notin pool.open

IInv == TypeOK /\ Fresh /\ Aged /\ Pooled

--------------------------------------------------------------------------------
\* The record of a call after one of its fields is set.
LEMMA SetPc ==
  ASSUME NEW x \in CallRecord, NEW v \in Fetching \cup {"idle", "invalidate", "lock", "get", "run", "done"}
  PROVE  LET y == [x EXCEPT !.pc = v]
         IN  /\ y \in CallRecord /\ y.pc = v /\ y.conn = x.conn /\ y.refresh = x.refresh
             /\ y.asked = x.asked /\ y.version = x.version /\ y.age = x.age
  BY DEF CallRecord

LEMMA SetDb ==
  ASSUME NEW x \in CallRecord, NEW v \in Nat
  PROVE  LET y == [x EXCEPT !.db = v]
         IN  /\ y \in CallRecord /\ y.pc = x.pc /\ y.conn = x.conn /\ y.refresh = x.refresh
             /\ y.asked = x.asked /\ y.version = x.version /\ y.age = x.age
  BY DEF CallRecord

LEMMA SetVersion ==
  ASSUME NEW x \in CallRecord, NEW v \in 0 .. MaxAlters
  PROVE  LET y == [x EXCEPT !.version = v]
         IN  /\ y \in CallRecord /\ y.pc = x.pc /\ y.conn = x.conn /\ y.refresh = x.refresh
             /\ y.asked = x.asked /\ y.version = v /\ y.age = x.age
  BY DEF CallRecord

LEMMA SetAge ==
  ASSUME NEW x \in CallRecord, NEW v \in Nat
  PROVE  LET y == [x EXCEPT !.age = v]
         IN  /\ y \in CallRecord /\ y.pc = x.pc /\ y.conn = x.conn /\ y.refresh = x.refresh
             /\ y.asked = x.asked /\ y.version = x.version /\ y.age = v
  BY DEF CallRecord

LEMMA SetConn ==
  ASSUME NEW x \in CallRecord, NEW v \in Connections
  PROVE  LET y == [x EXCEPT !.conn = v]
         IN  /\ y \in CallRecord /\ y.pc = x.pc /\ y.conn = v /\ y.refresh = x.refresh
             /\ y.asked = x.asked /\ y.version = x.version /\ y.age = x.age
  BY DEF CallRecord

LEMMA SetRefresh ==
  ASSUME NEW x \in CallRecord, NEW v \in BOOLEAN
  PROVE  LET y == [x EXCEPT !.refresh = v]
         IN  /\ y \in CallRecord /\ y.pc = x.pc /\ y.conn = x.conn /\ y.refresh = v
             /\ y.asked = x.asked /\ y.version = x.version /\ y.age = x.age
  BY DEF CallRecord

LEMMA SetAsked ==
  ASSUME NEW x \in CallRecord, NEW v \in 0 .. MaxAlters
  PROVE  LET y == [x EXCEPT !.asked = v]
         IN  /\ y \in CallRecord /\ y.pc = x.pc /\ y.conn = x.conn /\ y.refresh = x.refresh
             /\ y.asked = v /\ y.version = x.version /\ y.age = x.age
  BY DEF CallRecord

\* The record of a call that is over.
LEMMA IdleRecord ==
  /\ Idle \in CallRecord /\ Idle.pc = "idle" /\ Idle.conn \in Connections
  /\ ~Idle.refresh /\ Idle.asked = 0 /\ Idle.version = 0 /\ Idle.age = 0
<1>1. (CHOOSE n \in Connections : TRUE) \in Connections
  BY Assumptions DEF Assumptions
<1>2. 0 \in 0 .. MaxAlters /\ 0 \in Nat
  BY Assumptions DEF Assumptions
<1> QED
  BY <1>1, <1>2 DEF Idle, CallRecord

\* A step of c touches no other call, and what c becomes is x.
Becomes(c, x) ==
    /\ call' \in [Calls -> CallRecord]
    /\ call'[c] = x
    /\ \A d \in Calls \ {c} : call'[d] = call[d]

Takes(c, x) == call' = [call EXCEPT ![c] = x]

LEMMA Taken ==
  ASSUME TypeOK, NEW c \in Calls, NEW x \in CallRecord, Takes(c, x)
  PROVE  Becomes(c, x)
  BY DEF TypeOK, CallRecord, Takes, Becomes

LEMMA Typed ==
  ASSUME TypeOK
  PROVE  /\ \A c \in Calls :
              /\ call[c] \in CallRecord /\ call[c].conn \in Connections
              /\ call[c].version \in 0 .. MaxAlters /\ call[c].age \in Nat
              /\ call[c].asked \in 0 .. MaxAlters /\ call[c].db \in Nat
         /\ \A n \in Connections :
              /\ cache[n].version \in 0 .. MaxAlters /\ cache[n].left \in 0 .. TTL
              /\ cache[n].age \in Nat /\ version[n] \in 0 .. MaxAlters
  BY DEF TypeOK, CallRecord

--------------------------------------------------------------------------------
\* A step of c that keeps what was asked for, and leaves it at pc with this answer.
Moves(c, pc, v, age) ==
    /\ call' \in [Calls -> CallRecord]
    /\ \A d \in Calls \ {c} : call'[d] = call[d]
    /\ call'[c].pc = pc /\ call'[c].conn = call[c].conn
    /\ call'[c].refresh = call[c].refresh /\ call'[c].asked = call[c].asked
    /\ call'[c].version = v /\ call'[c].age = age

LEMMA GotoMoves ==
  ASSUME TypeOK, NEW c \in Calls,
         NEW pc \in Fetching \cup {"idle", "invalidate", "lock", "get", "run", "done"}, Goto(c, pc)
  PROVE  Moves(c, pc, call[c].version, call[c].age)
<1> DEFINE x == [call[c] EXCEPT !.pc = pc]
<1>1. /\ x \in CallRecord /\ x.pc = pc /\ x.conn = call[c].conn /\ x.refresh = call[c].refresh
      /\ x.asked = call[c].asked /\ x.version = call[c].version /\ x.age = call[c].age
  BY Typed, SetPc
<1>2. Takes(c, x)
  BY DEF Goto, Takes
<1> HIDE DEF x
<1> QED
  BY <1>1, <1>2, Taken DEF Becomes, Moves

LEMMA AnswerMoves ==
  ASSUME TypeOK, NEW c \in Calls, NEW data, data.version \in 0 .. MaxAlters, data.age \in Nat,
         Answer(c, data)
  PROVE  Moves(c, "done", data.version, data.age)
<1> DEFINE w == [call[c] EXCEPT !.pc = "done"]
           v == [w EXCEPT !.version = data.version]
           y == [v EXCEPT !.age = data.age]
           x == [y EXCEPT !.db = 0]
<1>1. /\ w \in CallRecord /\ w.pc = "done" /\ w.conn = call[c].conn
      /\ w.refresh = call[c].refresh /\ w.asked = call[c].asked
  BY Typed, SetPc
<1>2. /\ v \in CallRecord /\ v.pc = "done" /\ v.conn = call[c].conn
      /\ v.refresh = call[c].refresh /\ v.asked = call[c].asked /\ v.version = data.version
  <2> HIDE DEF w
  <2> QED
    BY <1>1, SetVersion
<1>3. /\ y \in CallRecord /\ y.pc = "done" /\ y.conn = call[c].conn
      /\ y.refresh = call[c].refresh /\ y.asked = call[c].asked /\ y.version = data.version
      /\ y.age = data.age
  <2> HIDE DEF v
  <2> QED
    BY <1>2, SetAge
<1>4. /\ x \in CallRecord /\ x.pc = "done" /\ x.conn = call[c].conn
      /\ x.refresh = call[c].refresh /\ x.asked = call[c].asked /\ x.version = data.version
      /\ x.age = data.age
  <2> HIDE DEF y
  <2> QED
    BY <1>3, SetDb
<1>5. Takes(c, x)
  BY ZenonT(60) DEF Answer, Takes, TypeOK
<1> HIDE DEF x
<1> QED
  BY <1>4, <1>5, Taken DEF Becomes, Moves

\* A step to pc that takes a connection of the pool along.
LEMMA TakesDb ==
  ASSUME TypeOK, NEW c \in Calls, NEW db \in Nat,
         NEW pc \in Fetching \cup {"idle", "invalidate", "lock", "get", "run", "done"},
         call' = [call EXCEPT ![c].pc = pc, ![c].db = db]
  PROVE  Moves(c, pc, call[c].version, call[c].age)
<1> DEFINE y == [call[c] EXCEPT !.pc = pc]
           x == [y EXCEPT !.db = db]
<1>1. /\ y \in CallRecord /\ y.pc = pc /\ y.conn = call[c].conn /\ y.refresh = call[c].refresh
      /\ y.asked = call[c].asked /\ y.version = call[c].version /\ y.age = call[c].age
  BY Typed, SetPc
<1>2. /\ x \in CallRecord /\ x.pc = pc /\ x.conn = call[c].conn /\ x.refresh = call[c].refresh
      /\ x.asked = call[c].asked /\ x.version = call[c].version /\ x.age = call[c].age
  <2> HIDE DEF y
  <2> QED
    BY <1>1, SetDb
<1>3. Takes(c, x)
  BY DEF Takes, TypeOK
<1> HIDE DEF x
<1> QED
  BY <1>2, <1>3, Taken DEF Becomes, Moves

\* The end of a call.
LEMMA EndBecomes ==
  ASSUME TypeOK, NEW c \in Calls, End(c) PROVE Becomes(c, Idle)
  BY IdleRecord, Taken DEF End, Takes

PoolRecord == [conns : [Connections -> Nat], made : [Connections -> Nat],
               open : SUBSET (Connections \X Nat), closed : BOOLEAN]

\* Whether it is opened now or was before, the pool refers to the connection it gives.
LEMMA GetDbKeeps ==
  ASSUME TypeOK, Pooled, NEW n \in Connections, pool' = GetDb(n)
  PROVE  pool' \in PoolRecord /\ pool'.conns[n] \in Nat /\ Pooled'
<1>1. CASE pool.conns[n] # 0
  <2>1. pool' = pool
    BY <1>1 DEF GetDb
  <2> QED
    BY <2>1 DEF Pooled, ConnectionsNotLeaked, TypeOK, PoolRecord
<1>2. CASE pool.conns[n] = 0
  <2> DEFINE k == pool.made[n] + 1
             conns == [pool.conns EXCEPT ![n] = k]
             made == [pool.made EXCEPT ![n] = k]
             open == pool.open \cup {<<n, k>>}
  <2>1. pool' = [conns |-> conns, made |-> made, open |-> open, closed |-> pool.closed]
    BY <1>2 DEF GetDb, Opened, TypeOK
  <2>2. k \in Nat /\ k # 0
    BY DEF TypeOK
  <2>3. conns \in [Connections -> Nat] /\ made \in [Connections -> Nat] /\ conns[n] = k
    BY <2>2 DEF TypeOK
  <2>4. open \in SUBSET (Connections \X Nat) /\ pool.closed \in BOOLEAN
    BY <2>2 DEF TypeOK
  <2>5. \A m \in Connections : <<m, 0>> \notin open
    BY <2>2 DEF Pooled
  <2>6. open \subseteq {<<m, conns[m]>> : m \in Connections}
    <3>1. <<n, pool.conns[n]>> \notin pool.open
      BY <1>2 DEF Pooled
    <3>2. \A m \in Connections \ {n} : conns[m] = pool.conns[m]
      BY DEF TypeOK
    <3> QED
      BY <2>3, <3>1, <3>2 DEF Pooled, ConnectionsNotLeaked
  <2> HIDE DEF conns, made, open, k
  <2> QED
    BY <2>1, <2>2, <2>3, <2>4, <2>5, <2>6 DEF PoolRecord, Pooled, ConnectionsNotLeaked
<1> QED
  BY <1>1, <1>2

LEMMA CloseKeeps == ASSUME IInv, Close PROVE IInv'
<1> DEFINE conns == [n \in Connections |-> 0]
           open == pool.open \ {<<n, pool.conns[n]>> : n \in Connections}
<1>1. pool' = [conns |-> conns, made |-> pool.made, open |-> open, closed |-> TRUE]
  BY DEF Close, IInv, TypeOK
<1>2. open = {}
  BY DEF IInv, Pooled, ConnectionsNotLeaked
<1>3. conns \in [Connections -> Nat] /\ pool.made \in [Connections -> Nat]
  BY DEF IInv, TypeOK
<1> HIDE DEF conns, open
<1>4. pool' \in PoolRecord /\ pool'.open = {}
  BY <1>1, <1>2, <1>3 DEF PoolRecord
<1>5. UNCHANGED <<version, cache, mutex, call>>
  BY DEF Close
<1>6. Pooled'
  BY <1>4 DEF Pooled, ConnectionsNotLeaked
<1>7. TypeOK'
  BY <1>4, <1>5 DEF IInv, TypeOK, PoolRecord
<1>8. Fresh' /\ Aged'
  BY <1>5 DEF IInv, Fresh, Aged
<1> QED
  BY <1>6, <1>7, <1>8 DEF IInv

--------------------------------------------------------------------------------
\* A call arrives: what it asks to see is what the schema is now.
LEMMA ArriveKeeps ==
  ASSUME IInv, NEW c \in Calls, NEW n \in Connections,
         (\E refresh \in BOOLEAN : ArriveSchema(c, n, refresh)) \/ ArriveQuery(c, n)
  PROVE  IInv'
<1>1. ASSUME NEW x \in CallRecord, Takes(c, x), Over(c),
             x.pc \in {"invalidate", "lock", "get"}, x.conn = n, x.asked <= version[n],
             x.refresh => x.pc = "invalidate", x.age = 0,
             UNCHANGED <<version, cache, mutex, pool>>
      PROVE  IInv'
  <2>1. Becomes(c, x)
    BY <1>1, Taken DEF IInv
  <2>2. call[c].pc \notin Fetching /\ x.pc \notin Fetching
    BY <1>1 DEF Over, Fetching
  <2>3. TypeOK'
    <3>1. (\A m \in Connections, d \in Calls :
             mutex[m] = d <=> call[d].pc \in Fetching /\ call[d].conn = m)'
      BY <1>1, <2>1, <2>2, SMTT(40) DEF IInv, TypeOK, Becomes
    <3> QED
      BY <1>1, <2>1, <3>1 DEF IInv, TypeOK, Becomes, CallRecord
  <2>4. Fresh'
    <3>1. ASSUME NEW e \in Calls
          PROVE  (/\ call[e].asked <= version[call[e].conn]
                  /\ call[e].refresh /\ call[e].pc \in {"rows", "done"} =>
                        call[e].asked <= call[e].version
                  /\ call[e].refresh /\ call[e].pc = "lock" =>
                        /\ cache[call[e].conn].left > 0 =>
                              call[e].asked <= cache[call[e].conn].version
                        /\ \A d \in Calls :
                              call[d].pc = "rows" /\ call[d].conn = call[e].conn =>
                                  call[e].asked <= call[d].version)'
      BY <1>1, <2>1 DEF IInv, Fresh, Becomes
    <3> QED
      BY <3>1 DEF Fresh
  <2>5. Aged'
    BY <1>1, <2>1 DEF IInv, Aged, Waiting, Becomes
  <2> QED
    BY <1>1, <2>3, <2>4, <2>5 DEF IInv, Pooled, ConnectionsNotLeaked
<1>2. ASSUME NEW refresh \in BOOLEAN, ArriveSchema(c, n, refresh) PROVE IInv'
  <2> DEFINE pc == IF refresh THEN "invalidate" ELSE "lock"
             asked == IF refresh THEN version[n] ELSE 0
             w == [Idle EXCEPT !.pc = pc]
             v == [w EXCEPT !.conn = n]
             y == [v EXCEPT !.refresh = refresh]
             x == [y EXCEPT !.asked = asked]
  <2>1. /\ asked \in 0 .. MaxAlters /\ asked <= version[n]
        /\ pc \in {"invalidate", "lock"} /\ (refresh => pc = "invalidate")
    BY Assumptions DEF Assumptions, IInv, TypeOK
  <2>2. Takes(c, x) /\ Over(c) /\ UNCHANGED <<version, cache, mutex, pool>>
    BY <1>2 DEF ArriveSchema, Takes, Idle
  <2> HIDE DEF pc, asked
  <2>3. w \in CallRecord /\ w.pc = pc /\ w.age = 0
    BY <2>1, IdleRecord, SetPc
  <2>4. v \in CallRecord /\ v.pc = pc /\ v.conn = n /\ v.age = 0
    <3> HIDE DEF w
    <3> QED
      BY <2>3, SetConn
  <2>5. y \in CallRecord /\ y.pc = pc /\ y.conn = n /\ y.refresh = refresh /\ y.age = 0
    <3> HIDE DEF v
    <3> QED
      BY <2>4, SetRefresh
  <2>6. /\ x \in CallRecord /\ x.pc = pc /\ x.conn = n /\ x.refresh = refresh
        /\ x.asked = asked /\ x.age = 0
    <3> HIDE DEF y
    <3> QED
      BY <2>1, <2>5, SetAsked
  <2> HIDE DEF x
  <2> QED
    BY <1>1, <2>1, <2>2, <2>6
<1>3. ASSUME ArriveQuery(c, n) PROVE IInv'
  <2> DEFINE w == [Idle EXCEPT !.pc = "get"]
             x == [w EXCEPT !.conn = n]
  <2>1. Takes(c, x) /\ Over(c) /\ UNCHANGED <<version, cache, mutex, pool>>
    BY <1>3 DEF ArriveQuery, Takes, Idle
  <2>2. w \in CallRecord /\ w.pc = "get" /\ w.age = 0 /\ ~w.refresh /\ w.asked = 0
    BY IdleRecord, SetPc
  <2>3. /\ x \in CallRecord /\ x.pc = "get" /\ x.conn = n /\ ~x.refresh /\ x.asked = 0
        /\ x.age = 0
    <3> HIDE DEF w
    <3> QED
      BY <2>2, SetConn
  <2>4. 0 <= version[n]
    BY Typed DEF IInv
  <2> HIDE DEF x
  <2> QED
    BY <1>1, <2>1, <2>3, <2>4
<1> QED
  BY <1>2, <1>3

\* Invalidate has the mutex to itself: no fetch is under way whose data could come later.
LEMMA InvalidateKeeps == ASSUME IInv, NEW c \in Calls, Invalidate(c) PROVE IInv'
<1> DEFINE n == call[c].conn
<1>1. /\ n \in Connections /\ call[c].pc = "invalidate" /\ mutex[n] = NoCall
      /\ cache' = [cache EXCEPT ![n] = NoData] /\ Goto(c, "lock")
      /\ UNCHANGED <<version, mutex, pool>>
  BY Typed DEF IInv, Invalidate, At, Free, LockOf
<1>2. Moves(c, "lock", call[c].version, call[c].age)
  BY <1>1, GotoMoves DEF IInv
<1>3. \A d \in Calls : call[d].pc \in Fetching => call[d].conn # n
  BY <1>1, Assumptions DEF Assumptions, IInv, TypeOK
<1>4. NoData \in [version : 0 .. MaxAlters, left : 0 .. TTL, age : Nat] /\ NoData.left = 0
  BY Assumptions DEF Assumptions, NoData
<1> HIDE DEF n
<1>5. TypeOK'
  BY <1>1, <1>2, <1>4 DEF IInv, TypeOK, Moves, CallRecord, Fetching
<1>6. cache'[n].left = 0 /\ \A m \in Connections \ {n} : cache'[m] = cache[m]
  BY <1>1, <1>4 DEF IInv, TypeOK
<1>7. Fresh'
  BY <1>1, <1>2, <1>3, <1>6, Typed DEF IInv, Fresh, Moves, Fetching, n
<1>8. Aged'
  BY <1>1, <1>2, <1>6 DEF IInv, Aged, Waiting, Moves
<1> QED
  BY <1>1, <1>5, <1>7, <1>8 DEF IInv, Pooled, ConnectionsNotLeaked

\* An answer out of the cache.
LEMMA HitKeeps == ASSUME IInv, NEW c \in Calls, Hit(c) PROVE IInv'
<1> DEFINE n == call[c].conn
<1>1. /\ n \in Connections /\ call[c].pc = "lock" /\ cache[n].left # 0
      /\ Answer(c, cache[n]) /\ UNCHANGED <<version, cache, mutex, pool>>
  BY Typed DEF IInv, Hit, At, Stale
<1>2. Moves(c, "done", cache[n].version, cache[n].age)
  BY <1>1, Typed, AnswerMoves DEF IInv
<1>3. cache[n].left \in Nat /\ cache[n].age \in Nat /\ cache[n].left > 0
  BY <1>1, Typed, Assumptions DEF Assumptions, IInv
<1> HIDE DEF n
<1>4. TypeOK'
  BY <1>1, <1>2, SMTT(40) DEF IInv, TypeOK, Moves, CallRecord, Fetching
<1>5. Fresh'
  BY <1>1, <1>2, <1>3, Typed DEF IInv, Fresh, Moves, n
<1>6. Aged'
  BY <1>1, <1>2, <1>3, Assumptions DEF Assumptions, IInv, Aged, Waiting, Moves
<1> QED
  BY <1>1, <1>4, <1>5, <1>6 DEF IInv, Pooled, ConnectionsNotLeaked

\* A fetch begins.
LEMMA MissKeeps == ASSUME IInv, NEW c \in Calls, Miss(c) PROVE IInv'
<1> DEFINE n == call[c].conn
<1>1. /\ n \in Connections /\ call[c].pc = "lock" /\ mutex[n] = NoCall
      /\ mutex' = [mutex EXCEPT ![n] = c] /\ pool' = GetDb(n)
      /\ call' = [call EXCEPT ![c].pc = "query", ![c].db = pool'.conns[n]]
      /\ UNCHANGED <<version, cache>>
  BY Typed DEF IInv, Miss, At, Free, LockOf
<1>2. pool' \in PoolRecord /\ pool'.conns[n] \in Nat /\ Pooled'
  BY <1>1, GetDbKeeps DEF IInv
<1>3. Moves(c, "query", call[c].version, call[c].age)
  BY <1>1, <1>2, TakesDb DEF IInv, Fetching
<1> HIDE DEF n
<1>4. TypeOK'
  <2>1. (\A m \in Connections, d \in Calls :
           mutex[m] = d <=> call[d].pc \in Fetching /\ call[d].conn = m)'
    BY <1>1, <1>3, Assumptions DEF Assumptions, IInv, TypeOK, Moves, Fetching, n
  <2> QED
    BY <1>1, <1>2, <1>3, <2>1 DEF IInv, TypeOK, Moves, CallRecord, PoolRecord
<1>5. Fresh'
  BY <1>1, <1>3 DEF IInv, Fresh, Moves
<1>6. Aged'
  BY <1>1, <1>3 DEF IInv, Aged, Waiting, Moves
<1> QED
  BY <1>2, <1>4, <1>5, <1>6 DEF IInv

\* The query sees the schema of its moment, which no call has asked to see more than.
LEMMA QueryKeeps == ASSUME IInv, NEW c \in Calls, Query(c) PROVE IInv'
<1> DEFINE n == call[c].conn
           v == version[n]
           y == [call[c] EXCEPT !.pc = "rows"]
           x == [y EXCEPT !.version = v]
<1>1. /\ n \in Connections /\ call[c].pc = "query" /\ v \in 0 .. MaxAlters
      /\ Takes(c, x) /\ UNCHANGED <<version, cache, mutex, pool>>
  BY Typed, ZenonT(60) DEF IInv, Query, At, Takes, TypeOK
<1>2. /\ y \in CallRecord /\ y.pc = "rows" /\ y.conn = call[c].conn
      /\ y.refresh = call[c].refresh /\ y.asked = call[c].asked /\ y.age = call[c].age
  BY Typed, SetPc, ZenonT(60) DEF IInv, Fetching
<1>3. /\ x \in CallRecord /\ x.pc = "rows" /\ x.conn = call[c].conn
      /\ x.refresh = call[c].refresh /\ x.asked = call[c].asked /\ x.age = call[c].age
      /\ x.version = v
  <2> HIDE DEF y, v
  <2> QED
    BY <1>1, <1>2, SetVersion
<1> HIDE DEF x
<1>4. Moves(c, "rows", v, call[c].age)
  BY <1>1, <1>3, Taken DEF IInv, Becomes, Moves
<1>5. TypeOK'
  BY <1>1, <1>4 DEF IInv, TypeOK, Moves, CallRecord, Fetching
<1>6. Fresh'
  BY <1>1, <1>4, Typed DEF IInv, Fresh, Moves
<1>7. Aged'
  BY <1>1, <1>4, Assumptions DEF Assumptions, IInv, Aged, Waiting, Moves
<1> QED
  BY <1>1, <1>5, <1>6, <1>7 DEF IInv, Pooled, ConnectionsNotLeaked

\* What is stored has seen what every waiting call asked to see, and begins its life.
LEMMA FetchedKeeps == ASSUME IInv, NEW c \in Calls, Fetched(c) PROVE IInv'
<1> DEFINE n == call[c].conn
           data == [version |-> call[c].version, left |-> TTL, age |-> call[c].age]
<1>1. /\ n \in Connections /\ call[c].pc = "rows"
      /\ cache' = [cache EXCEPT ![n] = data] /\ Answer(c, data)
      /\ mutex' = [mutex EXCEPT ![n] = NoCall] /\ UNCHANGED <<version, pool>>
  BY Typed DEF IInv, Fetched, At, Unlock, LockOf, Life
<1>2. /\ data \in [version : 0 .. MaxAlters, left : 0 .. TTL, age : Nat] /\ data.left = TTL
      /\ data.version = call[c].version /\ data.age = call[c].age
  BY Typed, Assumptions DEF Assumptions, IInv
<1> HIDE DEF data
<1>3. Moves(c, "done", call[c].version, call[c].age)
  BY <1>1, <1>2, Typed, AnswerMoves DEF IInv
<1>4. cache'[n] = data /\ \A m \in Connections \ {n} : cache'[m] = cache[m]
  BY <1>1 DEF IInv, TypeOK
<1>5. mutex[n] = c /\ NoCall \notin Calls
  BY <1>1, Assumptions DEF Assumptions, IInv, TypeOK, Fetching
<1>6. call[c].age \in Nat /\ call[c].age <= MaxLag
  BY <1>1, Typed DEF IInv, Aged
<1>7. \A m \in Connections, d \in Calls :
         mutex'[m] = d <=> (m # n /\ mutex[m] = d)
  BY <1>1, <1>5 DEF IInv, TypeOK
<1> HIDE DEF n
<1>8. TypeOK'
  <2>1. (\A m \in Connections, d \in Calls :
           mutex[m] = d <=> call[d].pc \in Fetching /\ call[d].conn = m)'
    BY <1>1, <1>3, <1>5, <1>7 DEF IInv, TypeOK, Moves, Fetching
  <2> QED
    BY <1>1, <1>2, <1>3, <2>1 DEF IInv, TypeOK, Moves, CallRecord
<1>9. Fresh'
  BY <1>1, <1>2, <1>3, <1>4, Typed DEF IInv, Fresh, Moves, n
<1>10. Aged'
  BY <1>2, <1>3, <1>4, <1>6, Assumptions DEF Assumptions, IInv, Aged, Waiting, Moves
<1> QED
  BY <1>1, <1>8, <1>9, <1>10 DEF IInv, Pooled, ConnectionsNotLeaked

\* The end of a call is harmless to the other calls; the schema may change with it.
LEMMA GoneKeeps ==
  ASSUME IInv, NEW c \in Calls, End(c), UNCHANGED <<cache, pool>>,
         version' \in [Connections -> 0 .. MaxAlters],
         \A n \in Connections : version[n] <= version'[n],
         mutex' \in [Connections -> Calls \cup {NoCall}],
         \A n \in Connections, d \in Calls : mutex'[n] = d <=> (d # c /\ mutex[n] = d)
  PROVE  IInv'
<1>1. Becomes(c, Idle)
  BY EndBecomes DEF IInv
<1>2. TypeOK'
  <2>1. (\A m \in Connections, d \in Calls :
           mutex[m] = d <=> call[d].pc \in Fetching /\ call[d].conn = m)'
    BY <1>1, IdleRecord DEF IInv, TypeOK, Becomes, Fetching
  <2> QED
    BY <1>1, <2>1 DEF IInv, TypeOK, Becomes, CallRecord
<1>3. Fresh'
  <2>1. \A e \in Calls : call'[e].asked <= version'[call'[e].conn]
    BY <1>1, IdleRecord, Typed DEF IInv, TypeOK, Fresh, Becomes
  <2> QED
    BY <1>1, <2>1, IdleRecord DEF IInv, Fresh, Becomes
<1>4. Aged'
  BY <1>1, IdleRecord DEF IInv, Aged, Waiting, Becomes
<1> QED
  BY <1>2, <1>3, <1>4 DEF IInv, Pooled, ConnectionsNotLeaked

\* A fetch fails: the mutex is given back, the cache left as it was.
LEMMA FetchFailsKeeps == ASSUME IInv, NEW c \in Calls, FetchFails(c) PROVE IInv'
<1> DEFINE n == call[c].conn
<1>1. /\ n \in Connections /\ call[c].pc \in Fetching /\ End(c)
      /\ mutex' = [mutex EXCEPT ![n] = NoCall] /\ UNCHANGED <<version, cache, pool>>
  BY Typed DEF IInv, FetchFails, Unlock, LockOf
<1>2. mutex[n] = c /\ NoCall \notin Calls
  BY <1>1, Assumptions DEF Assumptions, IInv, TypeOK
<1>3. \A m \in Connections : mutex[m] = c => m = n
  BY <1>1 DEF IInv, TypeOK
<1> HIDE DEF n
<1>4. /\ mutex' \in [Connections -> Calls \cup {NoCall}]
      /\ \A m \in Connections, d \in Calls : mutex'[m] = d <=> (d # c /\ mutex[m] = d)
  BY <1>1, <1>2, <1>3 DEF IInv, TypeOK
<1>5. /\ version' \in [Connections -> 0 .. MaxAlters]
      /\ \A m \in Connections : version[m] <= version'[m]
  BY <1>1 DEF IInv, TypeOK
<1> QED
  BY <1>1, <1>4, <1>5, GoneKeeps

\* A statement has run, or failed; it may have changed the schema.
LEMMA RunKeeps == ASSUME IInv, NEW c \in Calls, Run(c) PROVE IInv'
<1> DEFINE n == call[c].conn
<1>1. /\ n \in Connections /\ call[c].pc = "run" /\ End(c)
      /\ version' = version \/
         (version[n] < MaxAlters /\ version' = [version EXCEPT ![n] = version[n] + 1])
      /\ UNCHANGED <<cache, mutex, pool>>
  BY Typed DEF IInv, Run, At, TypeOK
<1> HIDE DEF n
<1>2. /\ version' \in [Connections -> 0 .. MaxAlters]
      /\ \A m \in Connections : version[m] <= version'[m]
  <2>1. CASE version' = version
    BY <2>1, Typed DEF IInv, TypeOK
  <2>2. CASE version[n] < MaxAlters /\ version' = [version EXCEPT ![n] = version[n] + 1]
    <3>1. version[n] + 1 \in 0 .. MaxAlters
      BY <1>1, <2>2, Assumptions DEF Assumptions, IInv, TypeOK
    <3> QED
      BY <1>1, <2>2, <3>1 DEF IInv, TypeOK
  <2> QED
    BY <1>1, <2>1, <2>2
<1>3. /\ mutex' \in [Connections -> Calls \cup {NoCall}]
      /\ \A m \in Connections, d \in Calls : mutex'[m] = d <=> (d # c /\ mutex[m] = d)
  BY <1>1 DEF IInv, TypeOK, Fetching
<1> QED
  BY <1>1, <1>2, <1>3, GoneKeeps

\* A statement gets its connection.
LEMMA GetConnectionKeeps == ASSUME IInv, NEW c \in Calls, GetConnection(c) PROVE IInv'
<1> DEFINE n == call[c].conn
<1>1. /\ n \in Connections /\ call[c].pc = "get" /\ pool' = GetDb(n)
      /\ call' = [call EXCEPT ![c].pc = "run", ![c].db = pool'.conns[n]]
      /\ UNCHANGED <<version, cache, mutex>>
  BY Typed DEF IInv, GetConnection, At
<1>2. pool' \in PoolRecord /\ pool'.conns[n] \in Nat /\ Pooled'
  BY <1>1, GetDbKeeps DEF IInv
<1>3. Moves(c, "run", call[c].version, call[c].age)
  BY <1>1, <1>2, TakesDb DEF IInv
<1> HIDE DEF n
<1>4. TypeOK'
  <2>1. (\A m \in Connections, d \in Calls :
           mutex[m] = d <=> call[d].pc \in Fetching /\ call[d].conn = m)'
    BY <1>1, <1>3 DEF IInv, TypeOK, Moves, Fetching
  <2> QED
    BY <1>1, <1>2, <1>3, <2>1 DEF IInv, TypeOK, Moves, CallRecord, PoolRecord
<1>5. Fresh'
  BY <1>1, <1>3 DEF IInv, Fresh, Moves
<1>6. Aged'
  BY <1>1, <1>3 DEF IInv, Aged, Waiting, Moves
<1> QED
  BY <1>2, <1>4, <1>5, <1>6 DEF IInv

\* Time passes: lives get shorter as ages grow, and no fetch outlives MaxLag.
LEMMA TickKeeps == ASSUME IInv, Tick PROVE IInv'
<1>1. /\ UNCHANGED <<version, mutex, pool>>
      /\ \A c \in Calls : call[c].pc = "rows" => call[c].age < MaxLag
  BY DEF Tick, At
<1>2. ASSUME NEW n \in Connections
      PROVE  /\ cache'[n] \in [version : 0 .. MaxAlters, left : 0 .. TTL, age : Nat]
             /\ cache'[n].left > 0 =>
                  /\ cache[n].left = cache'[n].left + 1 /\ cache'[n].age = cache[n].age + 1
                  /\ cache'[n].version = cache[n].version
  <2>1. CASE cache[n].left <= 1
    <3>1. cache'[n] = NoData
      BY <2>1 DEF Tick
    <3> QED
      BY <3>1, Assumptions DEF Assumptions, NoData
  <2>2. CASE ~(cache[n].left <= 1)
    <3>1. /\ cache[n].left - 1 \in 0 .. TTL /\ cache[n].age + 1 \in Nat
          /\ cache[n].left = (cache[n].left - 1) + 1 /\ cache[n].version \in 0 .. MaxAlters
      BY <2>2, Typed, Assumptions DEF Assumptions, IInv
    <3>2. cache[n] = [version |-> cache[n].version, left |-> cache[n].left,
                      age |-> cache[n].age]
      BY DEF IInv, TypeOK
    <3>3. cache'[n] = [cache[n] EXCEPT !.left = @ - 1, !.age = @ + 1]
      BY <2>2 DEF Tick
    <3>4. cache'[n] = [version |-> cache[n].version, left |-> cache[n].left - 1,
                       age |-> cache[n].age + 1]
      BY <3>2, <3>3
    <3>5. /\ cache'[n].version = cache[n].version /\ cache'[n].left = cache[n].left - 1
          /\ cache'[n].age = cache[n].age + 1
      BY <3>4
    <3>6. cache'[n] \in [version : 0 .. MaxAlters, left : 0 .. TTL, age : Nat]
      BY <3>1, <3>4
    <3> QED
      BY <3>1, <3>5, <3>6
  <2> QED
    BY <2>1, <2>2
<1>3. ASSUME NEW c \in Calls
      PROVE  /\ call'[c] \in CallRecord
             /\ call'[c].pc = call[c].pc /\ call'[c].conn = call[c].conn
             /\ call'[c].refresh = call[c].refresh /\ call'[c].asked = call[c].asked
             /\ call'[c].version = call[c].version
             /\ call'[c].age = IF call[c].pc = "rows" THEN call[c].age + 1 ELSE call[c].age
  <2> DEFINE x == [call[c] EXCEPT !.age = call[c].age + 1]
  <2>1. call[c] \in CallRecord /\ call[c].age + 1 \in Nat
    BY Typed DEF IInv
  <2>2. call'[c] = IF call[c].pc = "rows" THEN x ELSE call[c]
    BY <2>1 DEF Tick, At, CallRecord
  <2>3. /\ x \in CallRecord /\ x.pc = call[c].pc /\ x.conn = call[c].conn
        /\ x.refresh = call[c].refresh /\ x.asked = call[c].asked
        /\ x.version = call[c].version /\ x.age = call[c].age + 1
    BY <2>1, SetAge
  <2> HIDE DEF x
  <2> QED
    BY <2>1, <2>2, <2>3
<1>4. TypeOK'
  <2>1. call' \in [Calls -> CallRecord]
    BY <1>3 DEF Tick
  <2>2. cache' \in [Connections -> [version : 0 .. MaxAlters, left : 0 .. TTL, age : Nat]]
    BY <1>2 DEF Tick
  <2> QED
    BY <1>1, <1>3, <2>1, <2>2 DEF IInv, TypeOK, CallRecord
<1>5. Fresh'
  BY <1>1, <1>2, <1>3, Typed DEF IInv, Fresh
<1>6. Aged'
  <2>1. \A n \in Connections : cache'[n].left > 0 => cache'[n].age + cache'[n].left <= TTL + MaxLag
    BY <1>2, Typed, Assumptions DEF Assumptions, IInv, Aged
  <2>2. ASSUME NEW c \in Calls
        PROVE  (/\ call[c].pc \in Waiting => call[c].age = 0
                /\ call[c].pc = "rows" => call[c].age <= MaxLag
                /\ call[c].pc = "done" => call[c].age < TTL + MaxLag)'
    BY <1>1, <1>3, Typed, Assumptions DEF Assumptions, IInv, Aged, Waiting
  <2> QED
    BY <2>1, <2>2 DEF Aged
<1> QED
  BY <1>1, <1>4, <1>5, <1>6 DEF IInv, Pooled, ConnectionsNotLeaked

--------------------------------------------------------------------------------
LEMMA InitInv == ASSUME Init PROVE IInv
<1>1. TypeOK
  <2>1. NoData \in [version : 0 .. MaxAlters, left : 0 .. TTL, age : Nat]
    BY Assumptions DEF Assumptions, NoData
  <2>2. call \in [Calls -> CallRecord] /\ \A c \in Calls : call[c].pc \notin Fetching
    BY IdleRecord DEF Init, Fetching
  <2>3. pool \in PoolRecord
    BY DEF Init, PoolRecord
  <2> QED
    BY <2>1, <2>2, <2>3, Assumptions DEF Assumptions, Init, TypeOK, CallRecord, PoolRecord
<1>2. Fresh /\ Aged
  BY IdleRecord, Assumptions DEF Assumptions, Init, Fresh, Aged, Waiting, NoData
<1>3. Pooled
  BY DEF Init, Pooled, ConnectionsNotLeaked
<1> QED
  BY <1>1, <1>2, <1>3 DEF IInv

LEMMA NextInv == ASSUME IInv, [Next]_vars PROVE IInv'
<1>1. ASSUME UNCHANGED vars PROVE IInv'
  BY <1>1 DEF vars, IInv, TypeOK, Fresh, Aged, Pooled, ConnectionsNotLeaked
<1> QED
  BY <1>1, ArriveKeeps, InvalidateKeeps, HitKeeps, MissKeeps, QueryKeeps, FetchedKeeps,
     FetchFailsKeeps, GetConnectionKeeps, RunKeeps, CloseKeeps, TickKeeps DEF Next

LEMMA Invariant == Spec => []IInv
<1> QED
  BY InitInv, NextInv, PTL DEF Spec

\* The state has its type; in particular, the mutex of a connection is held by a call
\* exactly while that call fetches the schema of this connection.
THEOREM TypeCorrect == Spec => []TypeOK
<1>1. IInv => TypeOK
  BY DEF IInv
<1> QED
  BY <1>1, Invariant, PTL

\* db_schema with refresh answers with a schema that has every change made before the
\* call, however other calls' fetches, expiries and failures lie around it.
THEOREM RefreshSeesAll == Spec => []RefreshIsFresh
<1>1. IInv => RefreshIsFresh
  <2> SUFFICES ASSUME IInv, NEW c \in Calls, call[c].pc = "done", call[c].refresh
               PROVE  call[c].version >= call[c].asked
    BY DEF RefreshIsFresh, At
  <2> QED
    BY Typed DEF IInv, Fresh
<1> QED
  BY <1>1, Invariant, PTL

\* No answer is older than the life of the cache and the fetch that filled it.
THEOREM AnswersNotTooOld == Spec => []AgeBounded
<1>1. IInv => AgeBounded
  BY DEF IInv, Aged, AgeBounded, At
<1> QED
  BY <1>1, Invariant, PTL

\* The pool knows every connection that is open, whatever races with Close.
THEOREM NothingLeaks == Spec => []ConnectionsNotLeaked
<1>1. IInv => ConnectionsNotLeaked
  BY DEF IInv, Pooled
<1> QED
  BY <1>1, Invariant, PTL
================================================================================
