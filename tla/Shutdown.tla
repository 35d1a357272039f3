-------------------------------- MODULE Shutdown --------------------------------
(* The end of the process: Server.Start (internal/mcp/server.go), its signal       *)
(* goroutine, and serve (cmd/root.go), whose return ends main and with it every    *)
(* goroutine.  net/http is external: Shutdown closes the listeners, which makes    *)
(* ListenAndServe return at once, and then waits for the open requests.            *)
EXTENDS Naturals

CONSTANTS
    Requests,   \* requests open at once
    Grace       \* the timeout of shutCtx, in ticks

VARIABLES
    quit,      \* whether SIGTERM or SIGINT has arrived
    closer,    \* the signal goroutine: "waiting", "draining", "redis", "pool", "ended"
    waited,    \* ticks since it called httpSrv.Shutdown, up to Grace
    main,      \* the main goroutine: "listening", "returned", "exited"
    active,    \* requests being served
    cut,       \* requests that ended with the process, unanswered
    open       \* the shared connections: the dispatcher's Redis client, dbPool

vars == <<quit, closer, waited, main, active, cut, open>>

Init ==
    /\ quit = FALSE
    /\ closer = "waiting"
    /\ waited = 0
    /\ main = "listening"
    /\ active = {} /\ cut = {}
    /\ open = {"redis", "pool"}

Running == main # "exited"

--------------------------------------------------------------------------------
Arrive(r) ==
    /\ Running /\ closer = "waiting" /\ r \notin active
    /\ active' = active \cup {r}
    /\ UNCHANGED <<quit, closer, waited, main, cut, open>>

Finish(r) ==
    /\ Running /\ r \in active
    /\ active' = active \ {r}
    /\ UNCHANGED <<quit, closer, waited, main, cut, open>>

Signal ==
    /\ Running /\ ~quit
    /\ quit' = TRUE
    /\ UNCHANGED <<closer, waited, main, active, cut, open>>

\* httpSrv.Shutdown: the listeners are closed, the requests go on.
BeginShutdown ==
    /\ Running /\ quit /\ closer = "waiting"
    /\ closer' = "draining"
    /\ UNCHANGED <<quit, waited, main, active, cut, open>>

Tick ==
    /\ Running /\ closer = "draining" /\ waited < Grace
    /\ waited' = waited + 1
    /\ UNCHANGED <<quit, closer, main, active, cut, open>>

Drained ==
    /\ Running /\ closer = "draining"
    /\ active = {} \/ waited = Grace
    /\ closer' = "redis"
    /\ UNCHANGED <<quit, waited, main, active, cut, open>>

\* s.dispatcher.Close, then pool.Close.
CloseRedis ==
    /\ Running /\ closer = "redis"
    /\ open' = open \ {"redis"}
    /\ closer' = "pool"
    /\ UNCHANGED <<quit, waited, main, active, cut>>

ClosePool ==
    /\ Running /\ closer = "pool"
    /\ open' = open \ {"pool"}
    /\ closer' = "ended"
    /\ UNCHANGED <<quit, waited, main, active, cut>>

\* ListenAndServe returns ErrServerClosed as soon as Shutdown has closed the
\* listeners; Start turns it into nil without waiting for the signal goroutine.
ServeReturns ==
    /\ main = "listening" /\ closer # "waiting"
    /\ main' = "returned"
    /\ UNCHANGED <<quit, closer, waited, active, cut, open>>

\* serve returns srv.Start(), Execute and main return: the process is gone.
Exit ==
    /\ main = "returned"
    /\ main' = "exited"
    /\ cut' = active
    /\ active' = {}
    /\ UNCHANGED <<quit, closer, waited, open>>

Next ==
    \/ \E r \in Requests : Arrive(r) \/ Finish(r)
    \/ Signal \/ BeginShutdown \/ Tick \/ Drained \/ CloseRedis \/ ClosePool
    \/ ServeReturns \/ Exit

Spec == Init /\ [][Next]_vars

--------------------------------------------------------------------------------
\* Start drains the active requests, up to 10s, before shutting down
\* (server.go:834): no request is cut off earlier.
ShutdownDrains == cut # {} => waited = Grace
================================================================================
