------------------------------- MODULE RpcChannel -------------------------------
(* Extension tool calls: Dispatcher.Call (internal/extensions/dispatcher) and the  *)
(* two transports behind it, a subprocess (clitool.Call) and a request list in     *)
(* Redis that all extensions share (rpc.Call).                                     *)
(*                                                                                 *)
(* Redis, the go-redis client and the worker at the other end of the list are      *)
(* external, modelled by how rpc.Call uses them and the protocol it cites          *)
(* (docs/RPC.md): a push may be repeated by the client's retry or reported as      *)
(* failed although it arrived, the worker may crash at any step, a reply list      *)
(* expires.  Deadlines are the ticks left until them; a call is made once.         *)
EXTENDS Naturals, Sequences

CONSTANTS
    Calls,      \* tool calls
    NoCall,     \* not a call
    Timeout,    \* the extension's timeout, in ticks
    MaxPushes   \* how often one LPUSH may arrive: once, and the client's retries

ASSUME Assumptions ==
    /\ NoCall \notin Calls
    /\ Timeout \in Nat \ {0}
    /\ MaxPushes \in Nat \ {0}

VARIABLES
    call,      \* call[c]: where in Dispatcher.Call call c is, or how it has ended
    got,       \* got[c]: the call whose execution produced c's result, or NoCall
    life,      \* life[c]: ticks until expires_at of the envelope of c
    wait,      \* wait[c]: ticks until the BLPOP of c times out
    client,    \* client[c]: the Redis client that c uses; 0: none
    rdb,       \* rpcClient of the Dispatcher; 0: nil
    made,      \* the number of Redis clients made
    open,      \* those that are not closed
    closed,    \* whether shutdown has called Dispatcher.Close
    queue,     \* the list sb:rpc:req, its next request first
    replies,   \* replies[k]: the reply list k, as the calls whose execution it answers
    worker,    \* the worker: its step and the request it popped
    ran        \* the calls whose tool has been started

vars == <<call, got, life, wait, client, rdb, made, open, closed, queue, replies, worker,
          ran>>

Ended == {"refused", "ok", "failed", "unavailable"}

\* connect: about to take the client; push, pop: before LPUSH, in BLPOP; spawn, process:
\* before, in the subprocess.
Steps == {"new", "connect", "push", "pop", "spawn", "process"} \cup Ended

TypeOK ==
    /\ call \in [Calls -> Steps]
    /\ got \in [Calls -> Calls \cup {NoCall}]
    /\ life \in [Calls -> 0 .. Timeout]
    /\ wait \in [Calls -> 0 .. Timeout]
    /\ client \in [Calls -> Nat]
    /\ made \in Nat
    /\ rdb \in 0 .. made
    /\ open \subseteq 1 .. made
    /\ closed \in BOOLEAN
    /\ queue \in Seq(Calls)
    /\ replies \in [Calls -> Seq(Calls)]
    /\ worker \in [pc : {"idle"}] \cup [pc : {"popped", "running"}, call : Calls]
    /\ ran \subseteq Calls

Init ==
    /\ call = [c \in Calls |-> "new"]
    /\ got = [c \in Calls |-> NoCall]
    /\ life = [c \in Calls |-> 0]
    /\ wait = [c \in Calls |-> 0]
    /\ client = [c \in Calls |-> 0]
    /\ rdb = 0 /\ made = 0 /\ open = {} /\ closed = FALSE
    /\ queue = <<>>
    /\ replies = [c \in Calls |-> <<>>]
    /\ worker = [pc |-> "idle"]
    /\ ran = {}

At(c, pc) == call[c] = pc

Goto(c, pc) == call' = [call EXCEPT ![c] = pc]

Clock == <<life, wait>>

Connections == <<client, rdb, made, open, closed>>

Redis == <<queue, replies>>

--------------------------------------------------------------------------------
(* Dispatcher *)

\* The extension is looked up: it is unknown, or one of the two transports takes it.
Dispatch(c) ==
    /\ At(c, "new")
    /\ \E pc \in {"refused", "connect", "spawn"} : Goto(c, pc)
    /\ UNCHANGED <<got, Clock, Connections, Redis, worker, ran>>

\* Mutant of NeedsClient: rpcClient is not looked at before a client is made.
NeedsClientAlways == TRUE

\* getOrCreateRPCClient, under the dispatcher's mutex.
NeedsClient == rdb = 0

\* Mutant of Lifetime: the envelope outlives the BLPOP.
LifetimeLonger == Timeout + 1

\* expires_at, counted from the moment the envelope is made.
Lifetime == Timeout

\* ... and the envelope of rpc.Call, with expires_at.
Connect(c) ==
    /\ At(c, "connect")
    /\ IF NeedsClient
       THEN /\ made' = made + 1
            /\ rdb' = made'
            /\ open' = open \cup {made'}
       ELSE UNCHANGED <<made, rdb, open>>
    /\ client' = [client EXCEPT ![c] = rdb']
    /\ life' = [life EXCEPT ![c] = Lifetime]
    /\ Goto(c, "push")
    /\ UNCHANGED <<got, wait, closed, Redis, worker, ran>>

\* The signal goroutine of Server.Start, once.
Close ==
    /\ ~closed
    /\ closed' = TRUE
    /\ open' = open \ {rdb}
    /\ rdb' = 0
    /\ UNCHANGED <<call, got, Clock, client, made, Redis, worker, ran>>

--------------------------------------------------------------------------------
(* clitool.Call *)

\* The subprocess is started, or cannot be.
Spawn(c) ==
    /\ At(c, "spawn")
    /\ \/ /\ Goto(c, "failed")
          /\ UNCHANGED ran
       \/ /\ Goto(c, "process")
          /\ ran' = ran \cup {c}
    /\ UNCHANGED <<got, Clock, Connections, Redis, worker>>

\* It ends with a result or an error, or is killed at the timeout.
Collect(c) ==
    /\ At(c, "process")
    /\ \/ /\ Goto(c, "failed")
          /\ UNCHANGED got
       \/ /\ Goto(c, "ok")
          /\ got' = [got EXCEPT ![c] = c]
    /\ UNCHANGED <<Clock, Connections, Redis, worker, ran>>

--------------------------------------------------------------------------------
(* rpc.Call *)

\* Mutant of ReplyKey: one reply list for all calls.
ReplyKeyShared(c) == CHOOSE k \in Calls : TRUE

\* sb:rpc:reply:<uuid>, a list of the call's own.
ReplyKey(c) == c

\* Mutant of Patience: BLPOP with a timeout of 0, which waits for ever.
PatienceForever(c) == FALSE

\* BLPOP gives up.
Patience(c) == wait[c] = 0

\* LPUSH: n copies of the request arrive; nothing does through a closed client.
Push(c, n) ==
    /\ At(c, "push")
    /\ client[c] \notin open => n = 0
    /\ queue' = queue \o [i \in 1 .. n |-> c]
    /\ \/ /\ n > 0
          /\ Goto(c, "pop")
          /\ wait' = [wait EXCEPT ![c] = Timeout]
       \/ /\ Goto(c, "failed")
          /\ UNCHANGED wait
    /\ UNCHANGED <<got, life, Connections, replies, worker, ran>>

\* BLPOP returns a reply: a result, or an error of the tool or in the JSON.
Pop(c) ==
    /\ At(c, "pop") /\ client[c] \in open
    /\ replies[ReplyKey(c)] # <<>>
    /\ replies' = [replies EXCEPT ![ReplyKey(c)] = Tail(@)]
    /\ \/ /\ Goto(c, "failed")
          /\ UNCHANGED got
       \/ /\ Goto(c, "ok")
          /\ got' = [got EXCEPT ![c] = Head(replies[ReplyKey(c)])]
    /\ UNCHANGED <<Clock, Connections, queue, worker, ran>>

\* BLPOP returns goredis.Nil: "service unavailable".
GiveUp(c) ==
    /\ At(c, "pop") /\ Patience(c)
    /\ Goto(c, "unavailable")
    /\ UNCHANGED <<got, Clock, Connections, Redis, worker, ran>>

\* BLPOP returns another error: the connection, the client or the context has ended.
Break(c) ==
    /\ At(c, "pop")
    /\ Goto(c, "failed")
    /\ UNCHANGED <<got, Clock, Connections, Redis, worker, ran>>

--------------------------------------------------------------------------------
(* Redis and the worker *)

Take ==
    /\ worker.pc = "idle" /\ queue # <<>>
    /\ worker' = [pc |-> "popped", call |-> Head(queue)]
    /\ queue' = Tail(queue)
    /\ UNCHANGED <<call, got, Clock, Connections, replies, ran>>

Execute ==
    /\ worker.pc = "popped" /\ life[worker.call] > 0
    /\ worker' = [worker EXCEPT !.pc = "running"]
    /\ ran' = ran \cup {worker.call}
    /\ UNCHANGED <<call, got, Clock, Connections, Redis>>

Reply ==
    /\ worker.pc = "running"
    /\ replies' = [replies EXCEPT ![ReplyKey(worker.call)] = <<worker.call>> \o @]
    /\ worker' = [pc |-> "idle"]
    /\ UNCHANGED <<call, got, Clock, Connections, queue, ran>>

\* The request has expired, or the worker is restarted.
Discard ==
    /\ worker.pc # "idle"
    /\ worker' = [pc |-> "idle"]
    /\ UNCHANGED <<call, got, Clock, Connections, Redis, ran>>

ExpireReplies(k) ==
    /\ replies[k] # <<>>
    /\ replies' = [replies EXCEPT ![k] = <<>>]
    /\ UNCHANGED <<call, got, Clock, Connections, queue, worker, ran>>

Less(ticks) == IF ticks = 0 THEN 0 ELSE ticks - 1

Tick ==
    /\ life' = [c \in Calls |-> Less(life[c])]
    /\ wait' = [c \in Calls |-> Less(wait[c])]
    /\ UNCHANGED <<call, got, Connections, Redis, worker, ran>>

--------------------------------------------------------------------------------
Caller(c) ==
    \/ Connect(c)
    \/ Spawn(c) \/ Collect(c)
    \/ \E n \in 0 .. MaxPushes : Push(c, n)
    \/ Pop(c) \/ GiveUp(c)

Environment ==
    \/ Take \/ Execute \/ Reply \/ Discard
    \/ \E k \in Calls : ExpireReplies(k)
    \/ Tick

Next ==
    \/ \E c \in Calls : Dispatch(c) \/ Caller(c) \/ Break(c)
    \/ Close
    \/ Environment

Spec == Init /\ [][Next]_vars

\* Goroutines are scheduled, a subprocess is killed at its timeout, time passes.  The
\* worker need not do anything.
FairSpec == Spec /\ WF_vars(Tick) /\ \A c \in Calls : WF_vars(Caller(c))

--------------------------------------------------------------------------------
CallState(c) == IF call[c] \in {"new"} \cup Ended THEN call[c] ELSE "open"

Running ==
    {c \in Calls : At(c, "process")}
    \cup (IF worker.pc = "running" THEN {worker.call} ELSE {})

Promise == INSTANCE ToolCall
    WITH state <- [c \in Calls |-> CallState(c)], answer <- got, running <- Running

\* Whatever is repeated, lost, late or restarted: a result is the one of the caller's own
\* request, although all share a list, and after "service unavailable" the tool is not
\* started behind the caller's back, for expires_at is never later than the end of BLPOP.
ImplementsToolCall == Promise!Spec

\* Every open Redis client is the one that the next Close closes.
ClientNotLeaked == open \subseteq {rdb}

\* A call returns, with a worker that is slow, busy with others, or gone.
CallReturns == \A c \in Calls : ~At(c, "new") ~> call[c] \in Ended
================================================================================
