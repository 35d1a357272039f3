----------------------------- MODULE SlidingWindow -----------------------------
(* What a rate limiter promises: a request is let through to token           *)
(* verification exactly when fewer than MaxFailures failures of its address   *)
(* lie within the last Window ticks.  Only counts are kept: no order in which  *)
(* failures are stored, nothing beyond the window, nothing to prune.          *)
EXTENDS Naturals

CONSTANTS IPs, NoIP, Requests, MaxFailures, Window

VARIABLES
    recent,   \* recent[ip][age]: the failures of ip at most age ticks old
    req       \* req[r]: how far request r has come, and its client address

vars == <<recent, req>>

Idle == [pc |-> "idle", ip |-> NoIP]

Init ==
    /\ recent = [ip \in IPs |-> [age \in 0 .. Window |-> 0]]
    /\ req = [r \in Requests |-> Idle]

Consult(r, ip) ==
    /\ req[r] = Idle
    /\ req' = [req EXCEPT ![r] =
          [pc |-> IF recent[ip][Window] < MaxFailures THEN "verifying" ELSE "refused",
           ip |-> ip]]
    /\ UNCHANGED recent

Fail(r) ==
    /\ req[r].pc = "verifying"
    /\ recent' = [recent EXCEPT ![req[r].ip] = [age \in 0 .. Window |-> @[age] + 1]]
    /\ req' = [req EXCEPT ![r].pc = "failed"]

Finish(r) ==
    /\ req[r] # Idle
    /\ req' = [req EXCEPT ![r] = Idle]
    /\ UNCHANGED recent

\* What was at most age - 1 ticks old is at most age ticks old now.
Tick ==
    /\ recent' = [ip \in IPs |-> [age \in 0 .. Window |->
          IF age = 0 THEN 0 ELSE recent[ip][age - 1]]]
    /\ UNCHANGED req

Next ==
    \/ \E r \in Requests : (\E ip \in IPs : Consult(r, ip)) \/ Fail(r) \/ Finish(r)
    \/ Tick

Spec == Init /\ [][Next]_vars
================================================================================
