------------------------------ MODULE MCConfigFile ------------------------------
(* Two token names; at first the file has one token, two, the legacy one, an         *)
(* authenticator and no token, or stdio scopes and a token.                         *)
EXTENDS ConfigFile, TLC

CONSTANTS default, second

MCNames == {default, second}

Having(first, other, old, rest) ==
    [tokens |-> [n \in MCNames |-> IF n = default THEN first ELSE other],
     legacy |-> old, rest |-> rest]

MCTexts == {Having(1, 0, 0, "own"), Having(1, 2, 0, "own"), Having(0, 0, 1, "own"),
            Having(0, 0, 0, "authenticator"), Having(1, 0, 0, "stdio")}

MCSymmetry == Permutations(Programs)
================================================================================
