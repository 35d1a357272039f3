------------------------------- MODULE ConfigFile -------------------------------
(* config.yaml between the programs that read and write it: token add, remove and   *)
(* renew (cmd/token.go), the setup wizard (cmd/setup.go) and the start of the server *)
(* (cmd/root.go), which loads the file (internal/config/config.go) and appends       *)
(* comments to it (backfill.go).  Nothing locks it, and each program may be killed.  *)
(*                                                                                  *)
(* os.WriteFile truncates the file and then writes it from its start: what another  *)
(* program has put there in between shows behind a shorter text and garbles it.     *)
EXTENDS Naturals, FiniteSets

CONSTANTS
    Programs,    \* the running programs
    Names,       \* names of tokens
    DefaultName, \* the one that a legacy token migrates to
    Texts,       \* the configs that the file may hold at first
    Blank,       \* the value of a token that is empty when it is loaded: an empty string,
                 \* or a $VAR that os.ExpandEnv replaces by nothing
    Given,       \* token values that Texts have
    MaxValue     \* bound: token values; those of Texts and generated ones

\* Everything but the tokens: as config.Default has it, as the operator has set it, or
\* with an authenticator or stdio scopes, which need no tokens.
Rests == {"default", "own", "authenticator", "stdio"}

Keyless == {"authenticator", "stdio"}

\* 0 is no token; legacy is the old auth.token.  No two tokens have the same name: token
\* add refuses a second one, and a file edited by hand is taken to have none.
Config == [tokens : [Names -> 0 .. MaxValue \cup {Blank}], legacy : 0 .. MaxValue,
           rest : Rests]

ASSUME Assumptions ==
    /\ DefaultName \in Names
    /\ Texts \subseteq Config
    /\ MaxValue \in Nat /\ Given \in 0 .. MaxValue /\ Blank \notin Nat
    /\ \A text \in Texts :
          text.legacy <= Given /\ \A n \in Names : text.tokens[n] \in 0 .. Given

\* A file that has been truncated.
Empty == [tokens |-> [n \in Names |-> 0], legacy |-> 0, rest |-> "nothing"]

VARIABLES
    file,     \* its text, whether it has comments behind it, whether it is garbled
    prog,     \* prog[p]: what p does, the config it is going to write; for the
              \* properties, the text it has read and whether no other wrote since
    values    \* token values in use so far

vars == <<file, prog, values>>

Idle == [pc |-> "done", op |-> "none"]

Init ==
    /\ \E text \in Texts : file = [text |-> text, comments |-> FALSE, garbled |-> FALSE]
    /\ prog = [p \in Programs |-> Idle]
    /\ values = Given

--------------------------------------------------------------------------------
(* config.go *)

Default == [tokens |-> [n \in Names |-> 0], legacy |-> 0, rest |-> "default"]

\* loadConfigRaw: yaml.Unmarshal over config.Default(), which does not know auth.token.
Raw(text) == IF text = Empty THEN Default ELSE [text EXCEPT !.legacy = 0]

Keys(cfg) == {n \in Names : cfg.tokens[n] # 0}

\* auth.token becomes the first of auth.tokens.
Migrated(text) ==
    IF text # Empty /\ Keys(text) = {} /\ text.legacy # 0
    THEN [Raw(text) EXCEPT !.tokens[DefaultName] = text.legacy]
    ELSE Raw(text)

\* validate, of which the tokens matter here: with an authenticator it does not look at
\* them.
Validated(cfg) ==
    \/ cfg.rest = "authenticator"
    \/ /\ cfg.rest = "stdio" \/ Keys(cfg) # {}
       /\ \A n \in Names : cfg.tokens[n] # Blank

Loads(text) == Validated(Migrated(text))

\* At first the server can start.
ASSUME FirstLoads == \A text \in Texts : Loads(text)

--------------------------------------------------------------------------------
(* What a program reads, and makes of it.  A garbled file does not parse: the token   *)
(* commands and the server refuse it. *)

Work == [pc : {"truncate", "write", "backfill", "done"},
         op : {"add", "remove", "renew", "setup", "stdio"}, name : Names, cfg : Config,
         start : Texts \cup Config \cup {Empty}, alone : BOOLEAN]

Other == [pc : {"backfill", "done"}, op : {"none", "serve"}]

TypeOK ==
    /\ file \in [text : Config \cup {Empty}, comments : BOOLEAN, garbled : BOOLEAN]
    /\ prog \in [Programs -> Work \cup Other]
    /\ values \in 0 .. MaxValue
    /\ \A p \in Programs :
          prog[p].pc = "write" /\ prog[p].alone =>
              file = [text |-> Empty, comments |-> FALSE, garbled |-> FALSE]

Begin(p, op, name, cfg) ==
    /\ prog[p].pc = "done"
    /\ prog' = [prog EXCEPT ![p] = [pc |-> "truncate", op |-> op, name |-> name, cfg |-> cfg,
                                    start |-> IF file.garbled THEN Empty ELSE file.text,
                                    alone |-> ~file.garbled]]
    /\ UNCHANGED file

\* uuid.NewString.
Generate == values < MaxValue /\ values' = values + 1

Add(p, name) ==
    /\ ~file.garbled
    /\ Raw(file.text).tokens[name] = 0
    /\ Generate
    /\ Begin(p, "add", name, [Raw(file.text) EXCEPT !.tokens[name] = values'])

\* Mutant of Removable: the last one, too.
RemovableLast(cfg, name) == name \in Keys(cfg)

\* The last token cannot be removed.
Removable(cfg, name) == name \in Keys(cfg) /\ Keys(cfg) # {name}

Remove(p, name) ==
    /\ ~file.garbled
    /\ Removable(Raw(file.text), name)
    /\ Begin(p, "remove", name, [Raw(file.text) EXCEPT !.tokens[name] = 0])
    /\ UNCHANGED values

\* Mutant of Renewed: Find returns the address of a copy.
RenewedCopy(cfg, name, value) == cfg

Renewed(cfg, name, value) == [cfg EXCEPT !.tokens[name] = value]

Renew(p, name) ==
    /\ ~file.garbled
    /\ name \in Keys(Raw(file.text))
    /\ Generate
    /\ Begin(p, "renew", name, Renewed(Raw(file.text), name, values'))

\* What setup starts from: the file, or the defaults if that does not load.
Existing == IF ~file.garbled /\ Loads(file.text) THEN Migrated(file.text) ELSE Default

\* setupInitialToken: the first token, if there is none, generated or typed in, where the
\* prompt takes an empty line as well.  The other answers may change anything else.
Setup(p, name) ==
    LET cfg == Existing
        Start(rest, value) ==
            Begin(p, "setup", name, [cfg EXCEPT !.rest = rest, !.tokens[name] = value])
    IN  \E rest \in {cfg.rest} \cup (IF cfg.rest \in Keyless THEN {} ELSE {"own"}) :
            \/ /\ Keys(cfg) # {} /\ name = DefaultName
               /\ Start(rest, cfg.tokens[name]) /\ UNCHANGED values
            \/ /\ Keys(cfg) = {}
               /\ \/ Generate /\ Start(rest, values')
                  \/ Start(rest, Blank) /\ UNCHANGED values

\* runSetupStdio: a config of its own, of which name and whitelist are the old ones.
SetupStdio(p) ==
    /\ Begin(p, "stdio", DefaultName, [Default EXCEPT !.rest = "stdio"])
    /\ UNCHANGED values

\* The start of the server: Load, and if that succeeds, the comments.
Serve(p) ==
    /\ prog[p].pc = "done" /\ ~file.garbled /\ Loads(file.text)
    /\ prog' = [prog EXCEPT ![p] = [pc |-> "backfill", op |-> "serve"]]
    /\ UNCHANGED <<file, values>>

--------------------------------------------------------------------------------
(* saveConfig *)

\* A program that is done; what it did is remembered while no other program writes.
Ended(p) ==
    IF prog[p].op # "serve" /\ prog[p].alone
    THEN [prog[p] EXCEPT !.pc = "done", !.cfg = Default] ELSE Idle

\* Program p goes on to pc, having changed the file under the others.
Wrote(p, pc) ==
    prog' = [q \in Programs |->
                CASE q = p /\ pc = "done"  -> Ended(p)
                  [] q = p /\ pc # "done"  -> [prog[p] EXCEPT !.pc = pc]
                  [] q # p /\ prog[q].pc = "done" -> Idle
                  [] OTHER -> IF prog[q].op = "serve" THEN prog[q]
                              ELSE [prog[q] EXCEPT !.alone = FALSE, !.start = Empty]]

\* Mutant of Truncate: the file is opened as it is.
TruncateNot(p) ==
    /\ prog[p].pc = "truncate"
    /\ Wrote(p, "write")
    /\ UNCHANGED <<file, values>>

Truncate(p) ==
    /\ prog[p].pc = "truncate"
    /\ file' = [text |-> Empty, comments |-> FALSE, garbled |-> FALSE]
    /\ Wrote(p, "write")
    /\ UNCHANGED values

\* What is there already may be shorter, or not.
Write(p) ==
    /\ prog[p].pc = "write"
    /\ \E garbled \in IF file.text = Empty /\ ~file.comments THEN {FALSE} ELSE BOOLEAN :
          file' = [text |-> prog[p].cfg, comments |-> FALSE, garbled |-> garbled]
    /\ Wrote(p, IF prog[p].op = "stdio" THEN "done" ELSE "backfill")
    /\ UNCHANGED values

\* BackfillComments; when it has found nothing missing, or an error, it writes nothing.
Backfill(p) ==
    /\ prog[p].pc = "backfill"
    /\ \/ file' = [file EXCEPT !.comments = TRUE] /\ Wrote(p, "done")
       \/ prog' = [prog EXCEPT ![p] = Ended(p)] /\ UNCHANGED file
    /\ UNCHANGED values

\* An error while writing, or a kill.
Abort(p) ==
    /\ prog[p].pc \in {"truncate", "write", "backfill"}
    /\ prog' = [prog EXCEPT ![p] = Idle]
    /\ UNCHANGED <<file, values>>

Next ==
    \E p \in Programs :
        \/ \E name \in Names : Add(p, name) \/ Remove(p, name) \/ Renew(p, name)
        \/ \E name \in Names : Setup(p, name)
        \/ SetupStdio(p) \/ Serve(p) \/ Truncate(p) \/ Write(p) \/ Backfill(p) \/ Abort(p)

Spec == Init /\ [][Next]_vars

--------------------------------------------------------------------------------
\* However commands overlap or die, none writes a config that Load then refuses because
\* nobody could log in: the removals of the last two tokens do not add up.  The one
\* exception is the empty token that setup takes for an answer (see Setup).
WrittenLoads ==
    file.text = Empty \/ file.garbled \/ Loads(file.text)
    \/ \E n \in Names : file.text.tokens[n] = Blank

Finished(p, ops) == prog[p].pc = "done" /\ prog[p].op \in ops /\ prog[p].alone

\* A command that no other overlaps does what it says and nothing else: one token has
\* come, gone or changed, every other token in auth.tokens and every other setting is as
\* it was (auth.token, which these commands do not read, is lost).  Setup
\* for HTTP keeps all tokens of a config that loads, and turns a legacy one into the
\* default; setup for stdio drops them.
SoleCommandExact ==
    \A p \in Programs :
        /\ Finished(p, {"add", "remove", "renew"}) =>
              LET old == Raw(prog[p].start)
                  now == file.text
                  name == prog[p].name
              IN  /\ ~file.garbled
                  /\ now.rest = old.rest
                  /\ \A n \in Names \ {name} : now.tokens[n] = old.tokens[n]
                  /\ prog[p].op = "remove" <=> now.tokens[name] = 0
                  /\ now.tokens[name] # old.tokens[name]
        /\ Finished(p, {"setup"}) /\ Loads(prog[p].start) =>
              LET old == Migrated(prog[p].start)
              IN  \A n \in Keys(old) : file.text.tokens[n] = old.tokens[n]
================================================================================
