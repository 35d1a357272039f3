-------------------------------- MODULE MCServer --------------------------------
(* Three configs: a token list, and two authenticator commands that vouch for     *)
(* different tokens.  MCTimeouts adds a second timeout to the first command.      *)
EXTENDS Server

CONSTANTS t1, t2, cmdA, cmdB

MCVouched == [c \in {cmdA, cmdB} |-> IF c = cmdA THEN {t1} ELSE {t2}]

Asking(cmd, seconds) ==
    [authenticator |-> [command |-> cmd, timeout |-> seconds], tokens |-> {}]

MCConfigs ==
    {[authenticator |-> None, tokens |-> {t1}], Asking(cmdA, 5), Asking(cmdB, 5)}

MCTimeouts == {Asking(cmdA, 5), Asking(cmdA, 10)}
================================================================================
