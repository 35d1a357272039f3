---------------------------- MODULE RpcChannelProofs ----------------------------
(* Proofs about RpcChannel for any set of calls, any timeout, any number of pushes *)
(* per request.                                                                    *)
EXTENDS RpcChannel, SequenceTheorems, TLAPS

Pushed == {"pop", "ok", "failed", "unavailable"}

\* Only requests of calls that have pushed are under way.
QueuePushed == \A i \in 1 .. Len(queue) : call[queue[i]] \in Pushed

WorkerPushed == worker.pc # "idle" => call[worker.call] \in Pushed

WorkerRan == worker.pc = "running" => worker.call \in ran

ProcessRan == \A c \in Calls : At(c, "process") => c \in ran

\* A reply list holds answers to the one call that knows its name.
RepliesOwn == \A k \in Calls : \A i \in 1 .. Len(replies[k]) : replies[k][i] = k /\ k \in ran

\* A request expires no later than its caller stops waiting.
ExpiresInTime ==
    \A c \in Calls :
        /\ At(c, "pop") => life[c] <= wait[c]
        /\ At(c, "unavailable") => life[c] = 0

IInv ==
    /\ TypeOK
    /\ QueuePushed /\ WorkerPushed /\ WorkerRan /\ ProcessRan /\ RepliesOwn /\ ExpiresInTime
    /\ ClientNotLeaked

--------------------------------------------------------------------------------
\* What LPUSH of n copies of a request leaves in the request list.
LEMMA PushedElements ==
    ASSUME NEW q \in Seq(Calls), NEW c \in Calls, NEW n \in Nat
    PROVE  LET more == q \o [i \in 1 .. n |-> c]
           IN  /\ more \in Seq(Calls)
               /\ \A i \in 1 .. Len(more) : more[i] = c \/ \E j \in 1 .. Len(q) : more[i] = q[j]
<1> DEFINE copies == [i \in 1 .. n |-> c]
<1>1. copies \in Seq(Calls) /\ Len(copies) = n
  BY IsASeq, LenProperties
<1>2. /\ q \o copies \in Seq(Calls)
      /\ Len(q \o copies) = Len(q) + Len(copies)
      /\ \A i \in 1 .. Len(q) + Len(copies) :
            (q \o copies)[i] = IF i <= Len(q) THEN q[i] ELSE copies[i - Len(q)]
  BY <1>1, ConcatProperties
<1>3. ASSUME NEW i \in 1 .. Len(q \o copies)
      PROVE  (q \o copies)[i] = c \/ \E j \in 1 .. Len(q) : (q \o copies)[i] = q[j]
  <2>1. Len(q) \in Nat
    BY LenProperties
  <2>2. CASE i <= Len(q)
    <3>1. i \in 1 .. Len(q)
      BY <1>1, <1>2, <2>1, <2>2
    <3> QED
      BY <1>1, <1>2, <2>1, <2>2, <3>1
  <2>3. CASE ~(i <= Len(q))
    <3>1. i - Len(q) \in 1 .. n
      BY <1>1, <1>2, <2>1, <2>3
    <3> QED
      BY <1>1, <1>2, <2>1, <2>3, <3>1
  <2> QED
    BY <2>2, <2>3
<1> QED
  BY <1>2, <1>3

\* What BRPOP and BLPOP leave in a list.
LEMMA PoppedElements ==
    ASSUME NEW q \in Seq(Calls), q # <<>>
    PROVE  /\ 1 \in 1 .. Len(q)
           /\ Head(q) = q[1] /\ Head(q) \in Calls
           /\ Tail(q) \in Seq(Calls)
           /\ \A i \in 1 .. Len(Tail(q)) : \E j \in 1 .. Len(q) : Tail(q)[i] = q[j]
<1>1. Len(q) \in Nat \ {0}
  BY EmptySeq, LenProperties
<1>2. /\ Head(q) = q[1] /\ Head(q) \in Calls
      /\ Tail(q) \in Seq(Calls) /\ Len(Tail(q)) = Len(q) - 1
      /\ \A i \in 1 .. Len(Tail(q)) : Tail(q)[i] = q[i + 1]
  BY HeadTailProperties
<1>3. \A i \in 1 .. Len(Tail(q)) : i + 1 \in 1 .. Len(q)
  BY <1>1, <1>2
<1> QED
  BY <1>1, <1>2, <1>3

\* What the worker's LPUSH leaves in a reply list.
LEMMA RepliedElements ==
    ASSUME NEW q \in Seq(Calls), NEW c \in Calls
    PROVE  /\ <<c>> \o q \in Seq(Calls)
           /\ \A i \in 1 .. Len(<<c>> \o q) :
                 (<<c>> \o q)[i] = c \/ \E j \in 1 .. Len(q) : (<<c>> \o q)[i] = q[j]
<1>1. <<c>> \in Seq(Calls) /\ Len(<<c>>) = 1 /\ <<c>>[1] = c
  OBVIOUS
<1>2. /\ <<c>> \o q \in Seq(Calls)
      /\ Len(<<c>> \o q) = 1 + Len(q)
      /\ \A i \in 1 .. 1 + Len(q) : (<<c>> \o q)[i] = IF i <= 1 THEN <<c>>[i] ELSE q[i - 1]
  BY <1>1, ConcatProperties
<1>3. ASSUME NEW i \in 1 .. Len(<<c>> \o q)
      PROVE  (<<c>> \o q)[i] = c \/ \E j \in 1 .. Len(q) : (<<c>> \o q)[i] = q[j]
  <2>1. Len(q) \in Nat
    BY LenProperties
  <2>2. CASE i = 1
    BY <1>1, <1>2, <2>1, <2>2
  <2>3. CASE i # 1
    <3>1. i - 1 \in 1 .. Len(q) /\ i \in 1 .. 1 + Len(q) /\ ~(i <= 1)
      BY <1>2, <2>1, <2>3
    <3>2. (<<c>> \o q)[i] = q[i - 1]
      BY <1>2, <3>1
    <3> QED
      BY <3>1, <3>2
  <2> QED
    BY <2>2, <2>3
<1> QED
  BY <1>2, <1>3

--------------------------------------------------------------------------------
\* Init establishes the invariant.
LEMMA InitInv == Init => IInv
<1> SUFFICES ASSUME Init PROVE IInv
  OBVIOUS
<1>1. TypeOK
  <2>1. queue \in Seq(Calls) /\ replies \in [Calls -> Seq(Calls)]
    BY EmptySeq DEF Init
  <2>2. call \in [Calls -> Steps] /\ got \in [Calls -> Calls \cup {NoCall}]
    BY DEF Init, Steps
  <2>3. /\ life \in [Calls -> 0 .. Timeout] /\ wait \in [Calls -> 0 .. Timeout]
        /\ client \in [Calls -> Nat]
    BY Assumptions DEF Assumptions, Init
  <2>4. made \in Nat /\ rdb \in 0 .. made
    BY DEF Init
  <2>5. open \subseteq 1 .. made /\ closed \in BOOLEAN /\ ran \subseteq Calls
    BY DEF Init
  <2>6. worker \in [pc : {"idle"}] \cup [pc : {"popped", "running"}, call : Calls]
    BY DEF Init
  <2> QED
    BY <2>1, <2>2, <2>3, <2>4, <2>5, <2>6 DEF TypeOK
<1>2. QueuePushed /\ RepliesOwn
  BY EmptySeq DEF Init, QueuePushed, RepliesOwn
<1> QED
  BY <1>1, <1>2
  DEF Init, IInv, WorkerPushed, WorkerRan, ProcessRan, ExpiresInTime, ClientNotLeaked, At

\* The steps of a caller keep the types.
LEMMA CallerTypes ==
    ASSUME TypeOK, NEW c \in Calls, Dispatch(c) \/ Caller(c) \/ Break(c)
    PROVE  TypeOK'
<1> USE Assumptions DEF Assumptions, TypeOK, Steps, Ended, At, Goto, Clock, Connections, Redis
<1>1. ASSUME Dispatch(c) PROVE TypeOK'
  <2>1. call' \in [Calls -> Steps]
    BY <1>1 DEF Dispatch
  <2>2. UNCHANGED <<got, life, wait, client, rdb, made, open, closed, queue, replies, worker, ran>>
    BY <1>1 DEF Dispatch
  <2> QED
    BY <2>1, <2>2
<1>2. ASSUME Connect(c) PROVE TypeOK'
  <2>1. CASE NeedsClient
    <3>1. made' = made + 1 /\ rdb' = made' /\ open' = open \cup {made'}
      BY <1>2, <2>1 DEF Connect
    <3>2. made' \in Nat /\ rdb' \in 0 .. made'
      BY <3>1
    <3>3. open' \subseteq 1 .. made'
      BY <3>1
    <3>4. client' \in [Calls -> Nat]
      BY <1>2, <3>2 DEF Connect
    <3>5. call' \in [Calls -> Steps] /\ life' \in [Calls -> 0 .. Timeout]
      BY <1>2 DEF Connect, Lifetime
    <3> QED
      BY <1>2, <3>2, <3>3, <3>4, <3>5 DEF Connect
  <2>2. CASE ~NeedsClient
    <3>1. UNCHANGED <<made, rdb, open>>
      BY <1>2, <2>2 DEF Connect
    <3>2. client' \in [Calls -> Nat]
      BY <1>2, <3>1 DEF Connect
    <3>3. call' \in [Calls -> Steps] /\ life' \in [Calls -> 0 .. Timeout]
      BY <1>2 DEF Connect, Lifetime
    <3> QED
      BY <1>2, <3>1, <3>2, <3>3 DEF Connect
  <2> QED
    BY <2>1, <2>2
<1>3. ASSUME Spawn(c) PROVE TypeOK'
  BY <1>3 DEF Spawn
<1>4. ASSUME Collect(c) PROVE TypeOK'
  <2>1. got' \in [Calls -> Calls \cup {NoCall}]
    <3>1. got' = got \/ got' = [got EXCEPT ![c] = c]
      BY <1>4 DEF Collect
    <3> QED
      BY <3>1
  <2>2. call' \in [Calls -> Steps]
    BY <1>4 DEF Collect
  <2>3. UNCHANGED <<life, wait, client, rdb, made, open, closed, queue, replies, worker, ran>>
    BY <1>4 DEF Collect
  <2> QED
    BY <2>1, <2>2, <2>3
<1>5. ASSUME NEW n \in 0 .. MaxPushes, Push(c, n) PROVE TypeOK'
  <2>1. queue' \in Seq(Calls)
    <3>1. n \in Nat
      OBVIOUS
    <3> QED
      BY <1>5, <3>1, PushedElements DEF Push
  <2>2. call' \in [Calls -> Steps]
    BY <1>5 DEF Push
  <2>3. wait' \in [Calls -> 0 .. Timeout]
    <3>1. CASE wait' = [wait EXCEPT ![c] = Timeout]
      BY <3>1
    <3>2. CASE wait' = wait
      BY <3>2
    <3> QED
      BY <1>5, <3>1, <3>2 DEF Push
  <2>4. UNCHANGED <<got, life, client, rdb, made, open, closed, replies, worker, ran>>
    BY <1>5 DEF Push
  <2> QED
    BY <2>1, <2>2, <2>3, <2>4
<1>6. ASSUME Pop(c) PROVE TypeOK'
  <2>1. Head(replies[c]) \in Calls /\ Tail(replies[c]) \in Seq(Calls)
    BY <1>6, PoppedElements DEF Pop, ReplyKey
  <2>2. replies' \in [Calls -> Seq(Calls)]
    BY <1>6, <2>1 DEF Pop, ReplyKey
  <2>3. call' \in [Calls -> Steps]
    BY <1>6 DEF Pop
  <2>4. got' \in [Calls -> Calls \cup {NoCall}]
    <3>1. got' = got \/ got' = [got EXCEPT ![c] = Head(replies[c])]
      BY <1>6 DEF Pop, ReplyKey
    <3> QED
      BY <2>1, <3>1
  <2>5. UNCHANGED <<life, wait, client, rdb, made, open, closed, queue, worker, ran>>
    BY <1>6 DEF Pop
  <2> QED
    BY <2>2, <2>3, <2>4, <2>5
<1>7. ASSUME GiveUp(c) PROVE TypeOK'
  BY <1>7 DEF GiveUp
<1>8. ASSUME Break(c) PROVE TypeOK'
  BY <1>8 DEF Break
<1> QED
  BY <1>1, <1>2, <1>3, <1>4, <1>5, <1>6, <1>7, <1>8 DEF Caller

\* The steps of everyone else keep the types.
LEMMA OtherTypes ==
    ASSUME TypeOK, Close \/ Environment
    PROVE  TypeOK'
<1> USE Assumptions DEF Assumptions, TypeOK, Steps, Ended, Clock, Connections, Redis
<1>1. ASSUME Close PROVE TypeOK'
  <2>1. open' \subseteq 1 .. made' /\ rdb' \in 0 .. made' /\ closed' \in BOOLEAN
    BY <1>1 DEF Close
  <2> QED
    BY <1>1, <2>1 DEF Close
<1>2. ASSUME Take PROVE TypeOK'
  <2>1. Head(queue) \in Calls /\ Tail(queue) \in Seq(Calls)
    BY <1>2, PoppedElements DEF Take
  <2> QED
    BY <1>2, <2>1 DEF Take
<1>3. ASSUME Execute PROVE TypeOK'
  BY <1>3 DEF Execute
<1>4. ASSUME Reply PROVE TypeOK'
  <2>1. worker.call \in Calls
    BY <1>4 DEF Reply
  <2>2. <<worker.call>> \o replies[worker.call] \in Seq(Calls)
    BY <2>1, RepliedElements
  <2> QED
    BY <1>4, <2>1, <2>2 DEF Reply, ReplyKey
<1>5. ASSUME Discard PROVE TypeOK'
  BY <1>5 DEF Discard
<1>6. ASSUME NEW k \in Calls, ExpireReplies(k) PROVE TypeOK'
  BY <1>6, EmptySeq DEF ExpireReplies
<1>7. ASSUME Tick PROVE TypeOK'
  BY <1>7 DEF Tick, Less
<1> QED
  BY <1>1, <1>2, <1>3, <1>4, <1>5, <1>6, <1>7 DEF Environment

--------------------------------------------------------------------------------
\* A caller leaves its own place only: a call that has pushed stays one that has.
LEMMA PushedStays ==
    ASSUME TypeOK, NEW c \in Calls, Dispatch(c) \/ Caller(c) \/ Break(c)
    PROVE  /\ \A d \in Calls \ {c} : call'[d] = call[d]
           /\ call'[c] \in Steps
           /\ call[c] \in Pushed => call'[c] \in Pushed
<1> USE DEF TypeOK, Steps, Ended, Pushed, At, Goto
<1>1. ASSUME NEW pc \in Steps, Goto(c, pc), call[c] \in Pushed => pc \in Pushed
      PROVE  /\ \A d \in Calls \ {c} : call'[d] = call[d]
             /\ call'[c] \in Steps
             /\ call[c] \in Pushed => call'[c] \in Pushed
  BY <1>1
<1>2. \E pc \in Steps : Goto(c, pc) /\ (call[c] \in Pushed => pc \in Pushed)
  BY DEF Dispatch, Caller, Break, Connect, Spawn, Collect, Push, Pop, GiveUp
<1> QED
  BY <1>1, <1>2

\* The requests under way stay those of calls that have pushed, under a caller's steps.
LEMMA CallerQueue ==
    ASSUME IInv, NEW c \in Calls, Dispatch(c) \/ Caller(c) \/ Break(c)
    PROVE  QueuePushed' /\ WorkerPushed'
<1> USE DEF IInv
<1>1. \A d \in Calls : call[d] \in Pushed => call'[d] \in Pushed
  BY PushedStays
<1>2. worker' = worker
  BY DEF Dispatch, Caller, Break, Connect, Spawn, Collect, Push, Pop, GiveUp
<1>3. WorkerPushed'
  BY <1>1, <1>2 DEF WorkerPushed, TypeOK
<1>4. ASSUME UNCHANGED queue PROVE QueuePushed'
  <2>1. ASSUME NEW i \in 1 .. Len(queue) PROVE call'[queue[i]] \in Pushed
    <3>1. queue[i] \in Calls
      BY <2>1, ElementOfSeq DEF TypeOK
    <3> QED
      BY <1>1, <3>1 DEF QueuePushed
  <2> QED
    BY <1>4, <2>1 DEF QueuePushed
<1>5. ASSUME NEW n \in 0 .. MaxPushes, Push(c, n) PROVE QueuePushed'
  <2>1. n \in Nat /\ queue' = queue \o [i \in 1 .. n |-> c]
    BY <1>5 DEF Push
  <2>2. CASE n = 0
    <3>1. queue' = queue
      BY <2>1, <2>2, ConcatEmptySeq, EmptySeq, IsASeq DEF TypeOK
    <3> QED
      BY <1>4, <3>1
  <2>3. CASE n # 0
    <3>1. call'[c] \in Pushed
      BY <1>5 DEF Push, Goto, Pushed, TypeOK
    <3>2. ASSUME NEW i \in 1 .. Len(queue') PROVE call'[queue'[i]] \in Pushed
      <4>1. queue'[i] = c \/ \E j \in 1 .. Len(queue) : queue'[i] = queue[j]
        BY <2>1, <3>2, PushedElements, SMTT(40) DEF TypeOK
      <4>2. \A j \in 1 .. Len(queue) : queue[j] \in Calls /\ call[queue[j]] \in Pushed
        BY ElementOfSeq DEF TypeOK, QueuePushed
      <4> QED
        BY <1>1, <3>1, <4>1, <4>2
    <3> QED
      BY <3>2 DEF QueuePushed
  <2> QED
    BY <2>2, <2>3
<1>6. UNCHANGED queue \/ \E n \in 0 .. MaxPushes : Push(c, n)
  BY DEF Dispatch, Caller, Break, Connect, Spawn, Collect, Pop, GiveUp, Redis, Connections
<1> QED
  BY <1>3, <1>4, <1>5, <1>6

\* A step adds nothing but answers to k, and these only to the list of k.
OwnOnly(k) ==
    /\ \A d \in Calls \ {k} : replies'[d] = replies[d]
    /\ \A i \in 1 .. Len(replies'[k]) :
          \/ replies'[k][i] = k /\ k \in ran'
          \/ \E j \in 1 .. Len(replies[k]) : replies'[k][i] = replies[k][j]

\* A step that changes one reply list only needs to be looked at there.
LEMMA RepliesKept ==
    ASSUME RepliesOwn, ran \subseteq ran', NEW k \in Calls, OwnOnly(k)
    PROVE  RepliesOwn'
<1> USE DEF OwnOnly
<1>1. ASSUME NEW d \in Calls, NEW i \in 1 .. Len(replies'[d])
      PROVE  replies'[d][i] = d /\ d \in ran'
  <2>1. CASE d = k
    BY <1>1, <2>1 DEF RepliesOwn
  <2>2. CASE d # k
    <3>1. replies'[d] = replies[d]
      BY <1>1, <2>2
    <3>2. i \in 1 .. Len(replies[d])
      BY <1>1, <3>1
    <3>3. replies[d][i] = d /\ d \in ran
      BY <1>1, <3>2 DEF RepliesOwn
    <3> QED
      BY <3>1, <3>3
  <2> QED
    BY <2>1, <2>2
<1> QED
  BY <1>1 DEF RepliesOwn

\* What has been run stays run, and answers stay with their call, under a caller's steps.
LEMMA CallerRan ==
    ASSUME IInv, NEW c \in Calls, Dispatch(c) \/ Caller(c) \/ Break(c)
    PROVE  WorkerRan' /\ ProcessRan' /\ RepliesOwn'
<1> USE DEF IInv
<1>1. ran \subseteq ran' /\ worker' = worker
  BY DEF Dispatch, Caller, Break, Connect, Spawn, Collect, Push, Pop, GiveUp
<1>2. WorkerRan'
  BY <1>1 DEF WorkerRan
<1>3. ProcessRan'
  <2>1. \A d \in Calls \ {c} : call'[d] = call[d]
    BY PushedStays
  <2>2. call'[c] = "process" => c \in ran'
    BY DEF Dispatch, Caller, Break, Connect, Spawn, Collect, Push, Pop, GiveUp, Goto, TypeOK
  <2> QED
    BY <1>1, <2>1, <2>2 DEF ProcessRan, At
<1>4. ASSUME UNCHANGED replies PROVE RepliesOwn'
  BY <1>1, <1>4 DEF RepliesOwn
<1>5. ASSUME Pop(c) PROVE RepliesOwn'
  <2>1. \A i \in 1 .. Len(Tail(replies[c])) :
           \E j \in 1 .. Len(replies[c]) : Tail(replies[c])[i] = replies[c][j]
    BY <1>5, PoppedElements DEF Pop, ReplyKey, TypeOK
  <2>2. /\ \A k \in Calls \ {c} : replies'[k] = replies[k]
        /\ replies'[c] = Tail(replies[c])
    BY <1>5 DEF Pop, ReplyKey, TypeOK
  <2>3. OwnOnly(c)
    BY <2>1, <2>2 DEF OwnOnly
  <2> QED
    BY <1>1, <2>3, RepliesKept
<1>6. UNCHANGED replies \/ Pop(c)
  BY DEF Dispatch, Caller, Break, Connect, Spawn, Collect, Push, GiveUp, Redis
<1> QED
  BY <1>2, <1>3, <1>4, <1>5, <1>6

\* A caller that waits does so as long as its request lives.
LEMMA CallerExpires ==
    ASSUME IInv, NEW c \in Calls, Dispatch(c) \/ Caller(c) \/ Break(c)
    PROVE  ExpiresInTime'
<1> USE DEF IInv, TypeOK
<1>1. \A d \in Calls \ {c} : call'[d] = call[d]
  BY PushedStays
<1>2. \A d \in Calls \ {c} : life'[d] = life[d] /\ wait'[d] = wait[d]
  BY DEF Dispatch, Caller, Break, Connect, Spawn, Collect, Push, Pop, GiveUp, Clock
<1>3. /\ call'[c] = "pop" => life'[c] <= wait'[c]
      /\ call'[c] = "unavailable" => life'[c] = 0
  <2>1. ASSUME NEW n \in 0 .. MaxPushes, Push(c, n) PROVE <1>3
    <3>1. life'[c] \in 0 .. Timeout
      BY <2>1 DEF Push
    <3>2. CASE Goto(c, "pop") /\ wait' = [wait EXCEPT ![c] = Timeout]
      <4>1. wait'[c] = Timeout /\ call'[c] = "pop"
        BY <3>2 DEF Goto
      <4> QED
        BY <3>1, <4>1, Assumptions DEF Assumptions
    <3>3. CASE Goto(c, "failed")
      BY <3>3 DEF Goto
    <3> QED
      BY <2>1, <3>2, <3>3 DEF Push
  <2>2. ASSUME GiveUp(c) PROVE <1>3
    <3>1. call[c] = "pop" /\ wait[c] = 0 /\ UNCHANGED <<life, wait>>
      BY <2>2 DEF GiveUp, Patience, At, Clock
    <3>2. life[c] \in 0 .. Timeout /\ life[c] <= wait[c]
      BY <3>1 DEF ExpiresInTime, At
    <3>3. life'[c] = 0
      BY <3>1, <3>2, Assumptions DEF Assumptions
    <3>4. call'[c] = "unavailable"
      BY <2>2 DEF GiveUp, Goto
    <3> QED
      BY <3>3, <3>4
  <2>3. ASSUME Dispatch(c) \/ Connect(c) \/ Spawn(c) \/ Collect(c) \/ Pop(c) \/ Break(c)
        PROVE  <1>3
    BY <2>3 DEF Dispatch, Break, Connect, Spawn, Collect, Pop, Goto
  <2> QED
    BY <2>1, <2>2, <2>3 DEF Caller
<1> QED
  BY <1>1, <1>2, <1>3 DEF ExpiresInTime, At

\* At most the client that rdb names is open, whatever the steps of a caller.
LEMMA CallerClient ==
    ASSUME IInv, NEW c \in Calls, Dispatch(c) \/ Caller(c) \/ Break(c)
    PROVE  ClientNotLeaked'
<1>1. ASSUME Connect(c), NeedsClient PROVE ClientNotLeaked'
  <2>1. open = {}
    BY <1>1 DEF IInv, TypeOK, ClientNotLeaked, NeedsClient
  <2> QED
    BY <1>1, <2>1 DEF Connect, ClientNotLeaked
<1>2. ASSUME UNCHANGED <<open, rdb>> PROVE ClientNotLeaked'
  BY <1>2 DEF IInv, ClientNotLeaked
<1>3. UNCHANGED <<open, rdb>> \/ (Connect(c) /\ NeedsClient)
  BY DEF Dispatch, Caller, Break, Connect, Spawn, Collect, Push, Pop, GiveUp, Connections
<1> QED
  BY <1>1, <1>2, <1>3

\* Nor do shutdown, Redis, the worker and time break the invariant.
LEMMA OtherInv ==
    ASSUME IInv, Close \/ Environment
    PROVE  /\ QueuePushed' /\ WorkerPushed' /\ WorkerRan' /\ ProcessRan' /\ RepliesOwn'
           /\ ExpiresInTime' /\ ClientNotLeaked'
<1> USE DEF IInv, TypeOK
<1>1. call' = call /\ ran \subseteq ran'
  BY DEF Close, Environment, Take, Execute, Reply, Discard, ExpireReplies, Tick
<1>2. ProcessRan'
  BY <1>1 DEF ProcessRan, At
<1>3. QueuePushed'
  <2>1. CASE UNCHANGED queue
    BY <1>1, <2>1 DEF QueuePushed
  <2>2. CASE Take
    BY <1>1, <2>2, PoppedElements DEF Take, QueuePushed
  <2> QED
    BY <2>1, <2>2 DEF Close, Environment, Execute, Reply, Discard, ExpireReplies, Tick, Redis
<1>4. WorkerPushed' /\ WorkerRan'
  <2>1. CASE UNCHANGED worker
    BY <1>1, <2>1 DEF WorkerPushed, WorkerRan
  <2>2. CASE Take
    <3>1. worker' = [pc |-> "popped", call |-> queue[1]] /\ 1 \in 1 .. Len(queue)
      BY <2>2, PoppedElements DEF Take
    <3>2. worker'.pc = "popped" /\ worker'.call = queue[1]
      BY <3>1
    <3> QED
      BY <1>1, <3>1, <3>2 DEF QueuePushed, WorkerPushed, WorkerRan
  <2>3. CASE Execute
    <3>1. worker.pc = "popped" /\ worker.call \in Calls /\ worker.call \in ran'
      BY <2>3 DEF Execute
    <3>2. worker'.pc = "running" /\ worker'.call = worker.call
      BY <2>3, <3>1 DEF Execute
    <3> QED
      BY <1>1, <3>1, <3>2 DEF WorkerPushed, WorkerRan
  <2>4. CASE Reply \/ Discard
    <3>1. worker'.pc = "idle"
      BY <2>4 DEF Reply, Discard
    <3> QED
      BY <3>1 DEF WorkerPushed, WorkerRan
  <2> QED
    BY <2>1, <2>2, <2>3, <2>4 DEF Close, Environment, ExpireReplies, Tick
<1>5. RepliesOwn'
  <2>1. CASE UNCHANGED replies
    BY <1>1, <2>1 DEF RepliesOwn
  <2>2. CASE Reply
    <3>1. worker.call \in Calls /\ worker.call \in ran
      BY <2>2 DEF Reply, WorkerRan
    <3>2. /\ \A k \in Calls \ {worker.call} : replies'[k] = replies[k]
          /\ replies'[worker.call] = <<worker.call>> \o replies[worker.call]
      BY <2>2, <3>1 DEF Reply, ReplyKey
    <3>3. OwnOnly(worker.call)
      <4> DEFINE k == worker.call
      <4>1. k \in Calls /\ k \in ran'
        BY <1>1, <3>1
      <4>2. /\ \A d \in Calls \ {k} : replies'[d] = replies[d]
            /\ \A i \in 1 .. Len(replies'[k]) :
                  \/ replies'[k][i] = k
                  \/ \E j \in 1 .. Len(replies[k]) : replies'[k][i] = replies[k][j]
        <5>1. replies'[k] = <<k>> \o replies[k]
          BY <3>2
        <5>2. replies[k] \in Seq(Calls)
          BY <3>1
        <5>3. \A i \in 1 .. Len(<<k>> \o replies[k]) :
                 \/ (<<k>> \o replies[k])[i] = k
                 \/ \E j \in 1 .. Len(replies[k]) : (<<k>> \o replies[k])[i] = replies[k][j]
          BY <4>1, <5>2, RepliedElements
        <5> QED
          BY <3>2, <5>1, <5>3, ZenonT(60)
      <4> HIDE DEF k
      <4>3. OwnOnly(k)
        BY <4>1, <4>2 DEF OwnOnly
      <4> QED
        BY <4>3 DEF k
    <3> QED
      BY <1>1, <3>1, <3>3, RepliesKept
  <2>3. CASE \E k \in Calls : ExpireReplies(k)
    <3>1. PICK k \in Calls : ExpireReplies(k)
      BY <2>3
    <3>2. /\ \A d \in Calls \ {k} : replies'[d] = replies[d]
          /\ replies'[k] = <<>>
      BY <3>1 DEF ExpireReplies
    <3>3. Len(replies'[k]) = 0
      BY <3>2, EmptySeq
    <3>4. OwnOnly(k)
      BY <3>2, <3>3 DEF OwnOnly
    <3> QED
      BY <1>1, <3>4, RepliesKept
  <2> QED
    BY <2>1, <2>2, <2>3 DEF Close, Environment, Take, Execute, Discard, Tick, Redis
<1>6. ExpiresInTime'
  <2>1. CASE UNCHANGED <<life, wait>>
    BY <1>1, <2>1 DEF ExpiresInTime, At
  <2>2. CASE Tick
    <3>1. ASSUME NEW c \in Calls
          PROVE  /\ life'[c] = Less(life[c]) /\ wait'[c] = Less(wait[c])
                 /\ life[c] \in Nat /\ wait[c] \in Nat
      BY <2>2, Assumptions DEF Tick, Assumptions
    <3>2. \A m \in Nat, n \in Nat : m <= n => Less(m) <= Less(n)
      BY DEF Less
    <3>3. Less(0) = 0
      BY DEF Less
    <3> QED
      BY <1>1, <3>1, <3>2, <3>3 DEF ExpiresInTime, At
  <2> QED
    BY <2>1, <2>2 DEF Close, Environment, Take, Execute, Reply, Discard, ExpireReplies, Clock
<1>7. ClientNotLeaked'
  BY DEF ClientNotLeaked, Close, Environment, Take, Execute, Reply, Discard, ExpireReplies,
         Tick, Connections
<1> QED
  BY <1>2, <1>3, <1>4, <1>5, <1>6, <1>7

\* The invariant is inductive.
LEMMA NextInv == IInv /\ [Next]_vars => IInv'
<1> SUFFICES ASSUME IInv, [Next]_vars PROVE IInv'
  OBVIOUS
<1>1. ASSUME NEW c \in Calls, Dispatch(c) \/ Caller(c) \/ Break(c) PROVE IInv'
  <2>1. TypeOK'
    BY <1>1, CallerTypes DEF IInv
  <2> QED
    BY <1>1, <2>1, CallerQueue, CallerRan, CallerExpires, CallerClient DEF IInv
<1>2. ASSUME Close \/ Environment PROVE IInv'
  <2>1. TypeOK'
    BY <1>2, OtherTypes DEF IInv
  <2> QED
    BY <1>2, <2>1, OtherInv DEF IInv
<1>3. ASSUME UNCHANGED vars PROVE IInv'
  BY <1>3
  DEF vars, IInv, TypeOK, QueuePushed, WorkerPushed, WorkerRan, ProcessRan, RepliesOwn,
      ExpiresInTime, ClientNotLeaked, At
<1> QED
  BY <1>1, <1>2, <1>3 DEF Next

\* The invariant holds in every state.
LEMMA AlwaysInv == Spec => []IInv
  BY InitInv, NextInv, PTL DEF Spec

--------------------------------------------------------------------------------
\* The types of the dispatcher, the transports and the worker.
THEOREM TypeCorrect == Spec => []TypeOK
  BY AlwaysInv, PTL DEF IInv

\* At most one Redis client is open, the one that Close will close, however many calls
\* getOrCreateRPCClient and the shutdown race.
THEOREM ClientIsNotLeaked == Spec => []ClientNotLeaked
  BY AlwaysInv, PTL DEF IInv

\* The promise's states, while only call c moves.
LEMMA StateMoves ==
    ASSUME NEW c \in Calls, \A d \in Calls \ {c} : call'[d] = call[d]
    PROVE  [d \in Calls |-> CallState(d)]'
              = [[d \in Calls |-> CallState(d)] EXCEPT ![c] = CallState(c)']
<1>1. \A d \in Calls \ {c} : CallState(d)' = CallState(d)
  BY DEF CallState, At
<1> QED
  BY <1>1

\* A request under way is not a subprocess.
LEMMA RunningParts ==
    ASSUME IInv
    PROVE  /\ worker.pc = "running" => call[worker.call] # "process"
           /\ Running \subseteq ran
  BY DEF IInv, Running, WorkerPushed, WorkerRan, ProcessRan, Pushed, At

\* Every step of a caller is one of the promise, or none.
LEMMA CallerSimulates ==
    ASSUME IInv, NEW c \in Calls, Dispatch(c) \/ Caller(c) \/ Break(c)
    PROVE  [Promise!Next]_Promise!vars
<1> DEFINE State == [d \in Calls |-> CallState(d)]
<1>1. \A d \in Calls \ {c} : call'[d] = call[d]
  BY PushedStays DEF IInv
<1>2. State' = [State EXCEPT ![c] = CallState(c)']
  BY <1>1, StateMoves
<1>3. State[c] = CallState(c)
  OBVIOUS
<1>4. worker' = worker
  BY DEF Dispatch, Caller, Break, Connect, Spawn, Collect, Push, Pop, GiveUp
<1>5. call \in [Calls -> Steps]
  BY DEF IInv, TypeOK
<1> HIDE DEF State
\* What is left to show, with the processes other than c out of the way.
<1>6. /\ call[c] # "process" /\ call'[c] # "process" => Running' = Running
      /\ call[c] # "process" /\ call'[c] = "process" => Running' = Running \cup {c}
      /\ call[c] = "process" /\ call'[c] # "process" => Running' = Running \ {c}
  BY <1>1, <1>4, RunningParts DEF Running, At
<1>7. CASE Dispatch(c)
  <2>1. State[c] = "new" /\ CallState(c)' \in {"refused", "open"}
    BY <1>3, <1>5, <1>7 DEF Dispatch, Goto, At, CallState, Ended
  <2>2. UNCHANGED <<got, ran, Running>>
    BY <1>5, <1>6, <1>7 DEF Dispatch, Goto, At
  <2> QED
    BY <1>2, <2>1, <2>2 DEF Promise!Next, Promise!Begin, State
<1>8. CASE Connect(c)
  <2>1. State' = State
    BY <1>2, <1>3, <1>5, <1>8 DEF Connect, Goto, At, CallState, Ended, State
  <2>2. UNCHANGED <<got, ran, Running>>
    BY <1>5, <1>6, <1>8 DEF Connect, Goto, At
  <2> QED
    BY <2>1, <2>2 DEF Promise!vars, State
<1>9. CASE Spawn(c)
  <2>1. State[c] = "open" /\ got' = got
    BY <1>3, <1>9 DEF Spawn, At, CallState, Ended
  <2>2. CASE call'[c] = "failed"
    <3>1. State' = [State EXCEPT ![c] = "failed"]
      BY <1>2, <2>2 DEF CallState, Ended
    <3>2. ran' = ran /\ Running' = Running
      BY <1>5, <1>6, <1>9, <2>2 DEF Spawn, Goto, At
    <3> QED
      BY <2>1, <3>1, <3>2 DEF Promise!Next, Promise!Return, State
  <2>3. CASE call'[c] = "process"
    <3>1. State' = State
      BY <1>2, <1>3, <2>1, <2>3 DEF CallState, Ended, State
    <3>2. ran' = ran \cup {c} /\ Running' = Running \cup {c}
      BY <1>5, <1>6, <1>9, <2>3 DEF Spawn, Goto, At
    <3>3. c \notin Running
      BY <1>9 DEF Spawn, At, Running, IInv, WorkerPushed, Pushed
    <3> QED
      BY <2>1, <3>1, <3>2, <3>3 DEF Promise!Next, Promise!Run, State
  <2> QED
    BY <1>5, <1>9, <2>2, <2>3 DEF Spawn, Goto
<1>10. CASE Collect(c)
  <2>1. State[c] = "open" /\ c \in ran /\ ran' = ran
    BY <1>3, <1>10 DEF Collect, At, CallState, Ended, IInv, ProcessRan
  <2>2. Running' = Running \ {c}
    BY <1>5, <1>6, <1>10 DEF Collect, Goto, At
  <2>3. CASE call'[c] = "failed"
    <3>1. State' = [State EXCEPT ![c] = "failed"] /\ got' = got
      BY <1>2, <1>5, <1>10, <2>3 DEF Collect, Goto, CallState, Ended
    <3> QED
      BY <2>1, <2>2, <3>1 DEF Promise!Next, Promise!Return, State
  <2>4. CASE call'[c] = "ok"
    <3>1. State' = [State EXCEPT ![c] = "ok"] /\ got' = [got EXCEPT ![c] = c]
      BY <1>2, <1>5, <1>10, <2>4 DEF Collect, Goto, CallState, Ended
    <3> QED
      BY <2>1, <2>2, <3>1 DEF Promise!Next, Promise!Return, State
  <2> QED
    BY <1>5, <1>10, <2>3, <2>4 DEF Collect, Goto
<1>11. CASE \E n \in 0 .. MaxPushes : Push(c, n)
  <2>1. State[c] = "open" /\ UNCHANGED <<got, ran>>
    BY <1>3, <1>11 DEF Push, At, CallState, Ended
  <2>2. Running' = Running
    BY <1>5, <1>6, <1>11 DEF Push, Goto, At
  <2>3. CASE call'[c] = "pop"
    <3>1. State' = State
      BY <1>2, <2>1, <2>3 DEF CallState, Ended, State
    <3> QED
      BY <2>1, <2>2, <3>1 DEF Promise!vars, State
  <2>4. CASE call'[c] = "failed"
    <3>1. State' = [State EXCEPT ![c] = "failed"]
      BY <1>2, <2>4 DEF CallState, Ended
    <3> QED
      BY <2>1, <2>2, <3>1 DEF Promise!Next, Promise!Return, State
  <2> QED
    BY <1>5, <1>11, <2>3, <2>4 DEF Push, Goto
<1>12. CASE Pop(c)
  <2>1. State[c] = "open" /\ ran' = ran
    BY <1>3, <1>12 DEF Pop, At, CallState, Ended
  <2>2. Running' = Running
    BY <1>5, <1>6, <1>12 DEF Pop, Goto, At
  <2>3. Head(replies[c]) = c /\ c \in ran
    BY <1>12, PoppedElements DEF Pop, ReplyKey, IInv, TypeOK, RepliesOwn
  <2>4. CASE call'[c] = "failed"
    <3>1. State' = [State EXCEPT ![c] = "failed"] /\ got' = got
      BY <1>2, <1>5, <1>12, <2>4 DEF Pop, Goto, CallState, Ended
    <3> QED
      BY <2>1, <2>2, <3>1 DEF Promise!Next, Promise!Return, State
  <2>5. CASE call'[c] = "ok"
    <3>1. State' = [State EXCEPT ![c] = "ok"] /\ got' = [got EXCEPT ![c] = c]
      BY <1>2, <1>5, <1>12, <2>3, <2>5 DEF Pop, ReplyKey, Goto, CallState, Ended
    <3> QED
      BY <2>1, <2>2, <2>3, <3>1 DEF Promise!Next, Promise!Return, State
  <2> QED
    BY <1>5, <1>12, <2>4, <2>5 DEF Pop, Goto
<1>13. CASE GiveUp(c) \/ Break(c)
  <2>1. State[c] = "open" /\ UNCHANGED <<got, ran>>
    BY <1>3, <1>13 DEF GiveUp, Break, At, CallState, Ended
  <2>2. Running' = Running
    BY <1>5, <1>6, <1>13 DEF GiveUp, Break, Goto, At
  <2>3. PICK outcome \in {"failed", "unavailable"} : call'[c] = outcome
    BY <1>5, <1>13 DEF GiveUp, Break, Goto
  <2>4. State' = [State EXCEPT ![c] = outcome]
    BY <1>2, <2>3 DEF CallState, Ended
  <2> QED
    BY <2>1, <2>2, <2>4 DEF Promise!Next, Promise!Return, State
<1> QED
  BY <1>7, <1>8, <1>9, <1>10, <1>11, <1>12, <1>13 DEF Caller

\* Every other step is one of the promise, or none: the worker starts no call that has
\* ended with "service unavailable", and ends what it started.
LEMMA OtherSimulates ==
    ASSUME IInv, Close \/ Environment
    PROVE  [Promise!Next]_Promise!vars
<1> DEFINE State == [d \in Calls |-> CallState(d)]
<1>1. call' = call /\ got' = got
  BY DEF Close, Environment, Take, Execute, Reply, Discard, ExpireReplies, Tick
<1>2. State' = State
  BY <1>1 DEF CallState
<1> HIDE DEF State
<1>3. CASE Execute
  <2> DEFINE c == worker.call
  <2>1. c \in Calls /\ worker.pc = "popped" /\ life[c] > 0
    BY <1>3 DEF Execute, IInv, TypeOK
  <2>2. worker'.pc = "running" /\ worker'.call = c /\ ran' = ran \cup {c}
    BY <1>3, <2>1 DEF Execute, IInv, TypeOK
  <2>3. call[c] \in Pushed
    BY <2>1 DEF IInv, WorkerPushed
  <2>4. c \notin Running /\ Running' = Running \cup {c}
    BY <1>1, <2>1, <2>2, <2>3 DEF Running, At, Pushed
  <2> HIDE DEF c
  <2>5. call[c] # "unavailable"
    BY <2>1 DEF IInv, ExpiresInTime, At
  <2>6. State[c] \in {"open", "ok", "failed"}
    BY <2>1, <2>3, <2>5 DEF Pushed, CallState, Ended, State
  <2> QED
    BY <1>1, <1>2, <2>1, <2>2, <2>4, <2>6 DEF Promise!Next, Promise!Run, State
<1>4. CASE (Reply \/ Discard) /\ worker.pc = "running"
  <2> DEFINE c == worker.call
  <2>1. c \in Calls /\ c \in Running /\ ran' = ran
    BY <1>4 DEF Reply, Discard, IInv, TypeOK, Running
  <2>2. worker'.pc = "idle"
    BY <1>4 DEF Reply, Discard
  <2>3. Running' = Running \ {c}
    BY <1>1, <1>4, <2>2, RunningParts DEF Running, At
  <2> HIDE DEF c
  <2> QED
    BY <1>1, <1>2, <2>1, <2>3 DEF Promise!Next, Promise!End, State
<1>5. CASE Take \/ (Discard /\ worker.pc # "running")
  <2>1. worker.pc # "running" /\ worker'.pc # "running" /\ ran' = ran
    BY <1>5 DEF Take, Discard
  <2>2. Running' = Running
    BY <1>1, <2>1 DEF Running, At
  <2> QED
    BY <1>1, <1>2, <2>1, <2>2 DEF Promise!vars, State
<1>6. CASE Close \/ (\E k \in Calls : ExpireReplies(k)) \/ Tick
  <2>1. UNCHANGED <<worker, ran>>
    BY <1>6 DEF Close, ExpireReplies, Tick
  <2>2. Running' = Running
    BY <1>1, <2>1 DEF Running, At
  <2> QED
    BY <1>1, <1>2, <2>1, <2>2 DEF Promise!vars, State
<1>7. Reply => worker.pc = "running"
  BY DEF Reply
<1> QED
  BY <1>3, <1>4, <1>5, <1>6, <1>7 DEF Environment

\* Init starts a promise that nothing has been asked of.
LEMMA InitSimulates == Init => Promise!Init
<1> SUFFICES ASSUME Init PROVE Promise!Init
  OBVIOUS
<1>1. \A c \in Calls : CallState(c) = "new"
  BY DEF Init, CallState
<1>2. Running = {}
  BY DEF Init, Running, At
<1> QED
  BY <1>1, <1>2 DEF Init, Promise!Init

\* For every set of calls, timeout and number of repeated pushes: what the callers of
\* Dispatcher.Call see is what ToolCall promises, with requests duplicated, replies lost
\* and workers restarted at any moment.
THEOREM KeepsThePromise == Spec => ImplementsToolCall
<1>1. IInv /\ [Next]_vars => [Promise!Next]_Promise!vars
  <2> SUFFICES ASSUME IInv, [Next]_vars PROVE [Promise!Next]_Promise!vars
    OBVIOUS
  <2>1. ASSUME UNCHANGED vars PROVE UNCHANGED Promise!vars
    BY <2>1 DEF vars, Promise!vars, CallState, Running, At
  <2> QED
    BY <2>1, CallerSimulates, OtherSimulates DEF Next
<1> QED
  BY <1>1, InitSimulates, AlwaysInv, PTL DEF Spec, ImplementsToolCall, Promise!Spec
================================================================================
