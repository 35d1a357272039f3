-------------------------------- MODULE MCTools --------------------------------
(* Three macros: one reads the file that an extension names, then a second one       *)
(* under the same id; one reads the file of its parameter, behind a journalctl step  *)
(* that may fail, and its last step's type does not exist; a third one for names.    *)
(* Setups: everything at once, with the names of two macros and of an extension's    *)
(* tool alike; macros that take the names of other tools; and tools.disabled.        *)
EXTENDS Tools

CONSTANTS f1, f2, p, s, alice, botA, botB, chat1, chat2

Step(internal, id, kind, what) ==
    [internal |-> internal, id |-> id,
     arg |-> IF kind = "text" THEN [kind |-> kind, value |-> what]
                              ELSE [kind |-> kind, name |-> what]]

Located ==
    [params |-> {},
     steps |-> <<Step("extension", s, "text", Empty), Step("read_file", s, "field", s),
                 Step("read_file", p, "field", s)>>]

Asked ==
    [params |-> {p},
     steps |-> <<Step("journalctl", p, "text", Empty), Step("read_file", s, "name", p),
                 Step("unknown", p, "name", s)>>]

Short == [params |-> {}, steps |-> <<Step("unknown", s, "text", Empty)>>]

MCMacros == {Located, Asked, Short}

MCAnswers == {[error |-> FALSE, whole |-> Other, path |-> f1],
              [error |-> FALSE, whole |-> f2, path |-> Empty]}

MCArguments == {<<>>, p :> f1}

MCAcls == {[whitelist |-> w, blacklist |-> {}, journald |-> FALSE] : w \in {{f1}, {f1, f2}}}

\* alice's only bot; and, later, two bots of hers with another token and chat.
MCTelegrams ==
    {botA :> [token |-> 1, users |-> alice :> chat1],
     (botA :> [token |-> 2, users |-> alice :> chat2]) @@
     (botB :> [token |-> 3, users |-> alice :> chat1])}

Found(name, def) == [name |-> name, def |-> def]

Named(name) == Found(name, Short)

MCNames == {"read_log", "rag_query", "notify_send", "db_query", "ext_a", "macro", "other"}

MCSetups ==
    {[disabled |-> {}, extensions |-> <<"ext_a", "macro">>,
      macros |-> <<Found("macro", Located), Found("other", Asked), Named("macro")>>,
      rag |-> TRUE, db |-> TRUE],
     [disabled |-> {RagQuery},
      macros |-> <<Named(NotifySend), Named(DbQuery), Named(Builtin)>>,
      extensions |-> <<"ext_a", "ext_a">>, rag |-> TRUE, db |-> TRUE],
     [disabled |-> {Builtin, DbQuery}, macros |-> <<Named(RagQuery)>>,
      extensions |-> <<DbQuery, RagQuery>>, rag |-> FALSE, db |-> TRUE]}

MCSymmetry == Permutations(Requests)
================================================================================
