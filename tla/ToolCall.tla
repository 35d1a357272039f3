-------------------------------- MODULE ToolCall --------------------------------
(* What the caller of an extension tool may rely on: a result is the result of     *)
(* its own call; a call that was refused does not run, and one that ended with      *)
(* "service unavailable" does not start any more; any other end leaves open whether *)
(* the tool runs later, or once more.                                               *)
EXTENDS Naturals

CONSTANTS Calls, NoCall

VARIABLES
    state,    \* state[c]: "new", "open", or how call c has ended
    answer,   \* answer[c]: the call whose execution c was answered with, or NoCall
    ran,      \* the calls whose tool has been started at least once
    running   \* the calls whose tool runs now

vars == <<state, answer, ran, running>>

Init ==
    /\ state = [c \in Calls |-> "new"]
    /\ answer = [c \in Calls |-> NoCall]
    /\ ran = {} /\ running = {}

\* The call is taken on, or refused: then the tool never runs.
Begin(c) ==
    /\ state[c] = "new"
    /\ \E s \in {"refused", "open"} : state' = [state EXCEPT ![c] = s]
    /\ UNCHANGED <<answer, ran, running>>

Run(c) ==
    /\ state[c] \in {"open", "ok", "failed"} /\ c \notin running
    /\ ran' = ran \cup {c}
    /\ running' = running \cup {c}
    /\ UNCHANGED <<state, answer>>

End(c) ==
    /\ c \in running
    /\ running' = running \ {c}
    /\ UNCHANGED <<state, answer, ran>>

\* A subprocess that ends is also the end of its call.
Return(c, outcome) ==
    /\ state[c] = "open"
    /\ outcome = "ok" => c \in ran
    /\ state' = [state EXCEPT ![c] = outcome]
    /\ answer' = IF outcome = "ok" THEN [answer EXCEPT ![c] = c] ELSE answer
    /\ running' \in {running, running \ {c}}
    /\ UNCHANGED ran

Next ==
    \E c \in Calls :
        \/ Begin(c) \/ Run(c) \/ End(c)
        \/ \E outcome \in {"ok", "failed", "unavailable"} : Return(c, outcome)

Spec == Init /\ [][Next]_vars
================================================================================
