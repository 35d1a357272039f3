------------------------------ MODULE MCLogManager ------------------------------
(* Two files, one of which may be replaced by a link to the other, and settings    *)
(* that differ in both lists: the second blacklist takes the journal, which stays  *)
(* switched on.                                                                    *)
EXTENDS LogManager

CONSTANTS fileA, fileB

MCPaths == {fileA, fileB}

MCVolatile == {fileA}

MCAcls ==
    {[whitelist |-> {fileA}, blacklist |-> {}, journald |-> TRUE],
     [whitelist |-> {fileA, fileB}, blacklist |-> {fileA, Journal}, journald |-> TRUE]}
================================================================================
