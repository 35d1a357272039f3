---------------------------- MODULE ConfigFileProofs ----------------------------
(* Theorems about ConfigFile, for any number of programs and names of tokens.       *)
EXTENDS ConfigFile, TLAPS

\* Somebody can log in: by a token, also the legacy one, or without any.
Keyed(cfg) == cfg.rest \in Keyless \/ Keys(cfg) # {} \/ cfg.legacy # 0

\* No value that is still to be generated.
Below(cfg, max) ==
    cfg.legacy \in 0 .. max /\ \A n \in Names : cfg.tokens[n] \in 0 .. max \cup {Blank}

\* What op on the token name makes of a file: now out of start.
Exact(op, name, start, now) ==
    /\ op \in {"add", "remove", "renew"} =>
          /\ now.rest = Raw(start).rest
          /\ \A n \in Names \ {name} : now.tokens[n] = Raw(start).tokens[n]
          /\ op = "remove" <=> now.tokens[name] = 0
          /\ now.tokens[name] # Raw(start).tokens[name]
    /\ op = "setup" /\ Loads(start) =>
          \A n \in Keys(Migrated(start)) : now.tokens[n] = Migrated(start).tokens[n]

Works(x) == x.op \notin {"none", "serve"}

\* The state of one program: what it is going to write lets somebody in; and as long as no
\* other writes, it does what its command says.
ProgInv(x, text, garbled, max) ==
    /\ x.pc = "backfill" => x.op # "none"
    /\ x.pc \in {"truncate", "write"} =>
          /\ x.cfg \in Config /\ Keyed(x.cfg) /\ Below(x.cfg, max)
          /\ x.alone => Exact(x.op, x.name, x.start, x.cfg)
    /\ Works(x) /\ x.pc \in {"backfill", "done"} /\ x.alone =>
          ~garbled /\ Exact(x.op, x.name, x.start, text)

FileInv == file.text \in Config => Keyed(file.text) /\ Below(file.text, values)

IInv ==
    /\ TypeOK /\ FileInv
    /\ \A p \in Programs : ProgInv(prog[p], file.text, file.garbled, values)

--------------------------------------------------------------------------------
\* A config after one token is set ...
LEMMA SetToken ==
  ASSUME NEW cfg \in Config, NEW name \in Names, NEW v \in 0 .. MaxValue \cup {Blank}
  PROVE  LET y == [cfg EXCEPT !.tokens[name] = v]
         IN  /\ y \in Config /\ y.rest = cfg.rest /\ y.legacy = cfg.legacy /\ y.tokens[name] = v
             /\ \A n \in Names \ {name} : y.tokens[n] = cfg.tokens[n]
<1> DEFINE t == [cfg.tokens EXCEPT ![name] = v]
<1>1. [cfg EXCEPT !.tokens[name] = v] = [tokens |-> t, legacy |-> cfg.legacy, rest |-> cfg.rest]
  BY DEF Config
<1>2. /\ t \in [Names -> 0 .. MaxValue \cup {Blank}] /\ t[name] = v
      /\ \A n \in Names \ {name} : t[n] = cfg.tokens[n]
  BY DEF Config
<1>3. cfg.legacy \in 0 .. MaxValue /\ cfg.rest \in Rests
  BY DEF Config
<1> HIDE DEF t
<1> QED
  BY <1>1, <1>2, <1>3 DEF Config

\* ... or the rest.
LEMMA SetRest ==
  ASSUME NEW cfg \in Config, NEW rest \in Rests
  PROVE  LET y == [cfg EXCEPT !.rest = rest]
         IN  y \in Config /\ y.rest = rest /\ y.legacy = cfg.legacy /\ y.tokens = cfg.tokens
  BY DEF Config

LEMMA EmptyIsNone == Empty \notin Config
<1>1. Empty.rest = "nothing"
  BY DEF Empty
<1>2. \A cfg \in Config : cfg.rest # "nothing"
  BY DEF Config, Rests
<1> QED
  BY <1>1, <1>2

LEMMA DefaultConfig ==
  /\ Default \in Config /\ Default.legacy = 0 /\ Default.rest = "default"
  /\ \A n \in Names : Default.tokens[n] = 0
<1>1. 0 \in 0 .. MaxValue
  BY Assumptions DEF Assumptions
<1> QED
  BY <1>1 DEF Default, Config, Rests

\* What the token commands see of a file.
LEMMA RawConfig ==
  ASSUME NEW text \in Config \cup {Empty}
  PROVE  /\ Raw(text) \in Config /\ Raw(text).legacy = 0
         /\ text = Empty => Raw(text) = Default
         /\ text # Empty => /\ text \in Config /\ Raw(text).tokens = text.tokens
                            /\ Raw(text).rest = text.rest
<1>1. CASE text = Empty
  BY <1>1, DefaultConfig DEF Raw
<1>2. CASE text # Empty
  <2>1. 0 \in 0 .. MaxValue
    BY Assumptions DEF Assumptions
  <2>2. Raw(text) = [tokens |-> text.tokens, legacy |-> 0, rest |-> text.rest]
    BY <1>2 DEF Raw, Config
  <2> QED
    BY <1>2, <2>1, <2>2 DEF Config
<1> QED
  BY <1>1, <1>2

\* What Load makes of it.
LEMMA MigratedConfig ==
  ASSUME NEW text \in Config \cup {Empty}
  PROVE  /\ Migrated(text) \in Config /\ Migrated(text).rest = Raw(text).rest
         /\ Migrated(text).legacy = 0
         /\ Keys(Raw(text)) # {} => Migrated(text).tokens = Raw(text).tokens
         /\ text \in Config /\ Keys(text) = {} /\ text.legacy # 0 =>
               Migrated(text).tokens[DefaultName] # 0
         /\ \A n \in Names :
               \/ Migrated(text).tokens[n] = Raw(text).tokens[n]
               \/ text \in Config /\ Migrated(text).tokens[n] = text.legacy
<1>1. DefaultName \in Names
  BY Assumptions DEF Assumptions
<1>2. Raw(text) \in Config /\ Raw(text).legacy = 0 /\ (text # Empty => text \in Config /\ Raw(text).tokens = text.tokens)
  BY RawConfig
<1>3. CASE text # Empty /\ Keys(text) = {} /\ text.legacy # 0
  <2>1. text \in Config /\ text.legacy \in 0 .. MaxValue
    BY <1>2, <1>3 DEF Config
  <2>2. Migrated(text) = [Raw(text) EXCEPT !.tokens[DefaultName] = text.legacy]
    BY <1>3 DEF Migrated
  <2>3. /\ Migrated(text) \in Config /\ Migrated(text).rest = Raw(text).rest
        /\ Migrated(text).legacy = 0
        /\ Migrated(text).tokens[DefaultName] = text.legacy
        /\ \A n \in Names \ {DefaultName} : Migrated(text).tokens[n] = Raw(text).tokens[n]
    BY <1>1, <1>2, <2>1, <2>2, SetToken
  <2>4. Keys(Raw(text)) = {}
    BY <1>2, <1>3 DEF Keys
  <2> QED
    BY <1>3, <2>1, <2>3, <2>4
<1>4. CASE ~(text # Empty /\ Keys(text) = {} /\ text.legacy # 0)
  <2>1. Migrated(text) = Raw(text)
    BY <1>4 DEF Migrated
  <2> QED
    BY <1>2, <1>4, <2>1, EmptyIsNone
<1> QED
  BY <1>3, <1>4

\* A config that somebody can log in with is one that Load takes, but for empty tokens.
LEMMA KeyedLoads ==
  ASSUME NEW cfg \in Config, Keyed(cfg)
  PROVE  Loads(cfg) \/ \E n \in Names : cfg.tokens[n] = Blank
<1> SUFFICES ASSUME \A n \in Names : cfg.tokens[n] # Blank PROVE Loads(cfg)
  OBVIOUS
<1>1. /\ Raw(cfg).tokens = cfg.tokens /\ Raw(cfg).rest = cfg.rest
      /\ Migrated(cfg) \in Config /\ Migrated(cfg).rest = cfg.rest
  BY RawConfig, MigratedConfig, EmptyIsNone
<1>2. cfg.legacy # Blank
  BY Assumptions DEF Assumptions, Config
<1>3. \A n \in Names : Migrated(cfg).tokens[n] # Blank
  BY <1>1, <1>2, MigratedConfig
<1>4. Keys(cfg) # {} \/ cfg.legacy # 0 => Keys(Migrated(cfg)) # {}
  <2>1. DefaultName \in Names
    BY Assumptions DEF Assumptions
  <2> QED
    BY <1>1, <2>1, MigratedConfig DEF Keys
<1> QED
  BY <1>1, <1>3, <1>4 DEF Keyed, Keyless, Loads, Validated

\* And only such ones.
LEMMA LoadsKeyed == ASSUME NEW cfg \in Config, Loads(cfg) PROVE Keyed(cfg)
<1>1. Migrated(cfg).rest = cfg.rest /\ Raw(cfg).tokens = cfg.tokens
  BY RawConfig, MigratedConfig, EmptyIsNone
<1>2. Keys(Migrated(cfg)) # {} => Keys(cfg) # {} \/ cfg.legacy # 0
  BY <1>1, MigratedConfig DEF Keys
<1> QED
  BY <1>1, <1>2 DEF Keyed, Keyless, Loads, Validated

--------------------------------------------------------------------------------
\* A supply of values that grows does no harm.
LEMMA Grows ==
  ASSUME TypeOK, NEW max \in 0 .. MaxValue, values <= max
  PROVE  /\ \A cfg : Below(cfg, values) => Below(cfg, max)
         /\ \A x, text, garbled :
               ProgInv(x, text, garbled, values) => ProgInv(x, text, garbled, max)
<1>1. \A k : k \in 0 .. values => k \in 0 .. max
  BY Assumptions DEF Assumptions, TypeOK
<1>2. \A cfg : Below(cfg, values) => Below(cfg, max)
  BY <1>1 DEF Below
<1> QED
  BY <1>2 DEF ProgInv

\* The record of a program, of which one part is set.
LEMMA SetPc ==
  ASSUME NEW x \in Work, NEW pc \in {"truncate", "write", "backfill", "done"}
  PROVE  LET y == [x EXCEPT !.pc = pc]
         IN  /\ y \in Work /\ y.pc = pc /\ y.op = x.op /\ y.name = x.name /\ y.cfg = x.cfg
             /\ y.start = x.start /\ (y.alone <=> x.alone)
  BY DEF Work

LEMMA SetDone ==
  ASSUME NEW x \in Work
  PROVE  LET y == [x EXCEPT !.pc = "done", !.cfg = Default]
         IN  /\ y \in Work /\ y.pc = "done" /\ y.op = x.op /\ y.name = x.name
             /\ y.start = x.start /\ (y.alone <=> x.alone)
  BY DefaultConfig DEF Work

LEMMA SetOvertaken ==
  ASSUME NEW x \in Work
  PROVE  LET y == [x EXCEPT !.alone = FALSE, !.start = Empty]
         IN  y \in Work /\ y.pc = x.pc /\ y.op = x.op /\ y.cfg = x.cfg /\ ~y.alone
  BY DEF Work

\* A program that writes is at work on a config; others are not.
LEMMA AtWork ==
  ASSUME NEW x \in Work \cup Other
  PROVE  /\ x.pc \in {"truncate", "write"} => x \in Work
         /\ Works(x) => x \in Work
         /\ x \in Work => Works(x)
  BY DEF Work, Other, Works

LEMMA IdleProg ==
  /\ Idle \in Work \cup Other /\ Idle.pc = "done" /\ Idle.op = "none"
  /\ \A text, garbled, max : ProgInv(Idle, text, garbled, max)
  BY DEF Idle, Other, ProgInv, Works

\* A command begins.
LEMMA BeginKeeps ==
  ASSUME IInv, NEW p \in Programs, NEW op \in {"add", "remove", "renew", "setup", "stdio"},
         NEW name \in Names, NEW cfg \in Config, Keyed(cfg), Below(cfg, values'),
         values' \in 0 .. MaxValue, values <= values',
         ~file.garbled => Exact(op, name, file.text, cfg), Begin(p, op, name, cfg)
  PROVE  IInv'
<1> DEFINE start == IF file.garbled THEN Empty ELSE file.text
           alone == ~file.garbled
           x == [pc |-> "truncate", op |-> op, name |-> name, cfg |-> cfg, start |-> start,
                 alone |-> alone]
<1>1. prog' = [prog EXCEPT ![p] = x] /\ file' = file
  BY DEF Begin
<1>2. start \in Texts \cup Config \cup {Empty} /\ alone \in BOOLEAN
  BY DEF IInv, TypeOK
<1>3. alone => Exact(op, name, start, cfg)
  OBVIOUS
<1> HIDE DEF start, alone
<1>4. /\ x \in Work /\ x.pc = "truncate" /\ x.op = op /\ x.name = name /\ x.cfg = cfg
      /\ x.start = start /\ (x.alone <=> alone)
  BY <1>2 DEF Work
<1> HIDE DEF x
<1>5. prog' \in [Programs -> Work \cup Other] /\ prog'[p] = x
  BY <1>1, <1>4 DEF IInv, TypeOK
<1>6. \A q \in Programs \ {p} : prog'[q] = prog[q]
  BY <1>1 DEF IInv, TypeOK
<1>7. TypeOK'
  BY <1>1, <1>4, <1>5, <1>6 DEF IInv, TypeOK
<1>8. FileInv'
  BY <1>1, Grows DEF IInv, FileInv
<1>9. ProgInv(x, file.text, file.garbled, values')
  BY <1>3, <1>4 DEF ProgInv
<1>10. \A q \in Programs : ProgInv(prog'[q], file.text, file.garbled, values')
  BY <1>5, <1>6, <1>9, Grows DEF IInv
<1> QED
  BY <1>1, <1>7, <1>8, <1>10 DEF IInv

\* After a write, the other programs' commands have been overtaken.
LEMMA Overtakes ==
  ASSUME IInv, NEW p \in Programs, NEW pc, Wrote(p, pc)
  PROVE  \A q \in Programs \ {p} :
            /\ prog'[q] \in Work \cup Other
            /\ ~(prog'[q].pc = "write" /\ prog'[q].alone)
            /\ \A text, garbled : ProgInv(prog'[q], text, garbled, values)
<1> SUFFICES ASSUME NEW q \in Programs \ {p}
             PROVE  /\ prog'[q] \in Work \cup Other
                    /\ ~(prog'[q].pc = "write" /\ prog'[q].alone)
                    /\ \A text, garbled : ProgInv(prog'[q], text, garbled, values)
  OBVIOUS
<1> DEFINE x == prog[q]
<1>0. x \in Work \cup Other /\ ProgInv(x, file.text, file.garbled, values)
  BY DEF IInv, TypeOK
<1>1. CASE x.pc = "done"
  <2>1. prog'[q] = Idle
    BY <1>1 DEF Wrote
  <2> QED
    BY <2>1, IdleProg
<1>2. CASE x.pc # "done" /\ x.op = "serve"
  <2>1. prog'[q] = x
    BY <1>2 DEF Wrote
  <2>2. x.pc = "backfill"
    BY <1>0, <1>2 DEF Work, Other
  <2> HIDE DEF x
  <2> QED
    BY <1>0, <1>2, <2>1, <2>2 DEF ProgInv, Works
<1>3. CASE x.pc # "done" /\ x.op # "serve"
  <2> DEFINE y == [x EXCEPT !.alone = FALSE, !.start = Empty]
  <2>1. prog'[q] = y
    BY <1>3 DEF Wrote
  <2>2. x \in Work
    BY <1>0, <1>3 DEF Work, Other, ProgInv
  <2>3. y \in Work /\ y.pc = x.pc /\ y.op = x.op /\ y.cfg = x.cfg /\ ~y.alone
    BY <2>2, SetOvertaken
  <2> HIDE DEF y, x
  <2> QED
    BY <1>0, <2>1, <2>3 DEF ProgInv
<1> QED
  BY <1>1, <1>2, <1>3

\* A program ends behind its last step.
LEMMA EndedInv ==
  ASSUME NEW p \in Programs, NEW text, NEW garbled, NEW max, prog[p] \in Work \cup Other,
         prog[p].op # "none", prog[p] \in Work /\ prog[p].alone =>
            ~garbled /\ Exact(prog[p].op, prog[p].name, prog[p].start, text)
  PROVE  Ended(p) \in Work \cup Other /\ Ended(p).pc = "done" /\ ProgInv(Ended(p), text, garbled, max)
<1>1. CASE prog[p].op # "serve" /\ prog[p].alone
  <2> DEFINE y == [prog[p] EXCEPT !.pc = "done", !.cfg = Default]
  <2>1. Ended(p) = y /\ prog[p] \in Work
    BY <1>1, AtWork DEF Ended, Works
  <2>2. /\ y \in Work /\ y.pc = "done" /\ y.op = prog[p].op /\ y.name = prog[p].name
        /\ y.start = prog[p].start
    BY <2>1, SetDone
  <2> HIDE DEF y
  <2> QED
    BY <1>1, <2>1, <2>2 DEF ProgInv
<1>2. CASE ~(prog[p].op # "serve" /\ prog[p].alone)
  BY <1>2, IdleProg DEF Ended
<1> QED
  BY <1>1, <1>2

--------------------------------------------------------------------------------
\* A write of p, of which the others learn nothing.
LEMMA WriteKeeps ==
  ASSUME IInv, NEW p \in Programs, NEW pc, Wrote(p, pc), values' = values,
         file' \in [text : Config \cup {Empty}, comments : BOOLEAN, garbled : BOOLEAN],
         FileInv', prog'[p] \in Work \cup Other,
         ProgInv(prog'[p], file'.text, file'.garbled, values),
         prog'[p].pc = "write" =>
            file' = [text |-> Empty, comments |-> FALSE, garbled |-> FALSE]
  PROVE  IInv'
<1>1. prog' \in [Programs -> Work \cup Other]
  BY Overtakes DEF Wrote
<1>2. \A q \in Programs : ProgInv(prog'[q], file'.text, file'.garbled, values')
  BY Overtakes
<1>3. TypeOK'
  BY <1>1, Overtakes DEF IInv, TypeOK
<1> QED
  BY <1>2, <1>3 DEF IInv

LEMMA TruncateKeeps == ASSUME IInv, NEW p \in Programs, Truncate(p) PROVE IInv'
<1> DEFINE y == [prog[p] EXCEPT !.pc = "write"]
<1>1. /\ prog[p].pc = "truncate" /\ Wrote(p, "write") /\ values' = values
      /\ file' = [text |-> Empty, comments |-> FALSE, garbled |-> FALSE]
  BY DEF Truncate
<1>2. prog'[p] = y
  BY <1>1 DEF Wrote
<1>3. prog[p] \in Work /\ ProgInv(prog[p], file.text, file.garbled, values)
  BY <1>1, AtWork DEF IInv, TypeOK
<1>4. /\ y \in Work /\ y.pc = "write" /\ y.op = prog[p].op /\ y.name = prog[p].name
      /\ y.cfg = prog[p].cfg /\ y.start = prog[p].start /\ (y.alone <=> prog[p].alone)
  BY <1>3, SetPc
<1> HIDE DEF y
<1>5. ProgInv(y, Empty, FALSE, values)
  BY <1>1, <1>3, <1>4 DEF ProgInv
<1>6. FileInv'
  BY <1>1, EmptyIsNone DEF FileInv
<1>7. /\ file' \in [text : Config \cup {Empty}, comments : BOOLEAN, garbled : BOOLEAN]
      /\ file'.text = Empty /\ file'.garbled = FALSE
  BY <1>1
<1> QED
  BY <1>1, <1>2, <1>4, <1>5, <1>6, <1>7, WriteKeeps

LEMMA WritesKeeps == ASSUME IInv, NEW p \in Programs, Write(p) PROVE IInv'
<1> DEFINE x == prog[p]
           pc == IF x.op = "stdio" THEN "done" ELSE "backfill"
<1>1. x.pc = "write" /\ Wrote(p, pc) /\ values' = values
  BY DEF Write
<1>2. PICK garbled \in IF file.text = Empty /\ ~file.comments THEN {FALSE} ELSE BOOLEAN :
          file' = [text |-> x.cfg, comments |-> FALSE, garbled |-> garbled]
  BY DEF Write
<1>3. x \in Work /\ ProgInv(x, file.text, file.garbled, values)
  BY <1>1, AtWork DEF IInv, TypeOK
<1>4. x.alone => garbled = FALSE
  <2>1. x.alone => file = [text |-> Empty, comments |-> FALSE, garbled |-> FALSE]
    BY <1>1 DEF IInv, TypeOK
  <2>2. x.alone => file.text = Empty /\ file.comments = FALSE
    BY <2>1
  <2> QED
    BY <1>2, <2>2
<1>5. garbled \in BOOLEAN
  BY <1>2
<1>6. /\ x.cfg \in Config /\ Keyed(x.cfg) /\ Below(x.cfg, values) /\ x.op # "none"
      /\ x.alone => Exact(x.op, x.name, x.start, x.cfg)
  BY <1>1, <1>3 DEF ProgInv, Work
<1>7. /\ file' \in [text : Config \cup {Empty}, comments : BOOLEAN, garbled : BOOLEAN]
      /\ file'.text = x.cfg /\ file'.garbled = garbled
  BY <1>2, <1>5, <1>6
<1>8. FileInv'
  BY <1>1, <1>6, <1>7 DEF FileInv
<1>9. CASE pc = "done"
  <2>1. prog'[p] = Ended(p)
    BY <1>1, <1>9 DEF Wrote
  <2>2. /\ Ended(p) \in Work \cup Other /\ Ended(p).pc = "done"
        /\ ProgInv(Ended(p), x.cfg, garbled, values)
    BY <1>3, <1>4, <1>6, EndedInv
  <2> QED
    BY <1>1, <1>7, <1>8, <2>1, <2>2, WriteKeeps
<1>10. CASE pc # "done"
  <2> DEFINE y == [x EXCEPT !.pc = "backfill"]
  <2>1. prog'[p] = y
    BY <1>1, <1>10 DEF Wrote
  <2>2. /\ y \in Work /\ y.pc = "backfill" /\ y.op = x.op /\ y.name = x.name
        /\ y.start = x.start /\ (y.alone <=> x.alone)
    BY <1>3, SetPc
  <2> HIDE DEF x, y
  <2>3. ProgInv(y, x.cfg, garbled, values)
    BY <1>4, <1>6, <2>2 DEF ProgInv
  <2> QED
    BY <1>1, <1>7, <1>8, <2>1, <2>2, <2>3, WriteKeeps
<1> QED
  BY <1>9, <1>10

LEMMA BackfillKeeps == ASSUME IInv, NEW p \in Programs, Backfill(p) PROVE IInv'
<1>1. prog[p].pc = "backfill" /\ values' = values
  BY DEF Backfill
<1>2. /\ prog[p] \in Work \cup Other
      /\ ProgInv(prog[p], file.text, file.garbled, values) /\ prog[p].op # "none"
  BY <1>1 DEF IInv, TypeOK, ProgInv
<1>3. /\ Ended(p) \in Work \cup Other /\ Ended(p).pc = "done"
      /\ ProgInv(Ended(p), file.text, file.garbled, values)
  BY <1>1, <1>2, AtWork, EndedInv DEF ProgInv
<1>4. CASE file' = [file EXCEPT !.comments = TRUE] /\ Wrote(p, "done")
  <2>1. prog'[p] = Ended(p)
    BY <1>4 DEF Wrote
  <2>2. /\ file' \in [text : Config \cup {Empty}, comments : BOOLEAN, garbled : BOOLEAN]
        /\ file'.text = file.text /\ file'.garbled = file.garbled
    BY <1>4 DEF IInv, TypeOK
  <2>3. FileInv'
    BY <1>1, <2>2 DEF IInv, FileInv
  <2> QED
    BY <1>1, <1>3, <1>4, <2>1, <2>2, <2>3, WriteKeeps
<1>5. CASE prog' = [prog EXCEPT ![p] = Ended(p)] /\ file' = file
  <2>1. /\ prog' \in [Programs -> Work \cup Other] /\ prog'[p] = Ended(p)
        /\ \A q \in Programs \ {p} : prog'[q] = prog[q]
    BY <1>3, <1>5 DEF IInv, TypeOK
  <2>2. TypeOK'
    BY <1>1, <1>3, <1>5, <2>1 DEF IInv, TypeOK
  <2>3. FileInv' /\ \A q \in Programs : ProgInv(prog'[q], file'.text, file'.garbled, values')
    BY <1>1, <1>3, <1>5, <2>1 DEF IInv, FileInv
  <2> QED
    BY <2>2, <2>3 DEF IInv
<1> QED
  BY <1>4, <1>5 DEF Backfill

\* A kill, and the start of the server, leave the file alone.
LEMMA QuietKeeps == ASSUME IInv, NEW p \in Programs, Abort(p) \/ Serve(p) PROVE IInv'
<1> DEFINE served == [pc |-> "backfill", op |-> "serve"]
<1>1. \E x \in {Idle, served} : prog' = [prog EXCEPT ![p] = x] /\ UNCHANGED <<file, values>>
  BY DEF Abort, Serve
<1>2. /\ served \in Work \cup Other /\ served.pc = "backfill"
      /\ ProgInv(served, file.text, file.garbled, values)
  BY DEF Other, ProgInv, Works
<1>3. PICK x \in {Idle, served} : prog' = [prog EXCEPT ![p] = x] /\ UNCHANGED <<file, values>>
  BY <1>1
<1>4. x \in Work \cup Other /\ x.pc # "write" /\ ProgInv(x, file.text, file.garbled, values)
  BY <1>2, <1>3, IdleProg
<1>5. /\ prog' \in [Programs -> Work \cup Other] /\ prog'[p] = x
      /\ \A q \in Programs \ {p} : prog'[q] = prog[q]
  BY <1>3, <1>4 DEF IInv, TypeOK
<1>6. TypeOK'
  BY <1>3, <1>4, <1>5 DEF IInv, TypeOK
<1>7. FileInv' /\ \A q \in Programs : ProgInv(prog'[q], file'.text, file'.garbled, values')
  BY <1>3, <1>4, <1>5 DEF IInv, FileInv
<1> QED
  BY <1>6, <1>7 DEF IInv

--------------------------------------------------------------------------------
(* What the commands are going to write. *)

\* The file as the token commands see it.
LEMMA RawInv ==
  ASSUME IInv
  PROVE  /\ file.text \in Config \cup {Empty} /\ Raw(file.text) \in Config
         /\ Raw(file.text).legacy = 0 /\ Below(Raw(file.text), values)
         /\ values \in Nat
<1>1. file.text \in Config \cup {Empty} /\ values \in Nat
  BY Assumptions DEF Assumptions, IInv, TypeOK
<1>2. 0 \in 0 .. values
  BY <1>1
<1> QED
  BY <1>1, <1>2, RawConfig, DefaultConfig DEF IInv, FileInv, Below

\* A generated value is no other token's.
LEMMA Generated ==
  ASSUME IInv, Generate
  PROVE  /\ values' \in 0 .. MaxValue /\ values <= values' /\ values' # 0 /\ values' # Blank
         /\ values' \notin 0 .. values \cup {Blank} /\ values' \in 0 .. values'
<1>1. values \in Nat /\ values' = values + 1 /\ values' \in 0 .. MaxValue
  BY Assumptions DEF Assumptions, IInv, TypeOK, Generate
<1>2. values' \in Nat /\ Blank \notin Nat
  BY <1>1, Assumptions DEF Assumptions
<1> QED
  BY <1>1, <1>2

LEMMA AddKeeps ==
  ASSUME IInv, NEW p \in Programs, NEW name \in Names, Add(p, name) PROVE IInv'
<1> DEFINE old == Raw(file.text)
           cfg == [old EXCEPT !.tokens[name] = values']
<1>1. ~file.garbled /\ old.tokens[name] = 0 /\ Generate /\ Begin(p, "add", name, cfg)
  BY DEF Add
<1>2. /\ values' \in 0 .. MaxValue /\ values <= values' /\ values' # 0
      /\ values' \in 0 .. values'
  BY <1>1, Generated
<1>3. /\ cfg \in Config /\ cfg.rest = old.rest /\ cfg.legacy = old.legacy
      /\ cfg.tokens[name] = values' /\ \A n \in Names \ {name} : cfg.tokens[n] = old.tokens[n]
  BY <1>2, RawInv, SetToken
<1>4. Below(old, values')
  BY <1>2, RawInv, Grows DEF IInv
<1> HIDE DEF cfg
<1>5. Keyed(cfg) /\ Below(cfg, values')
  BY <1>2, <1>3, <1>4 DEF Keyed, Keys, Below
<1>6. Exact("add", name, file.text, cfg)
  BY <1>1, <1>2, <1>3 DEF Exact
<1> QED
  BY <1>1, <1>2, <1>3, <1>5, <1>6, BeginKeeps

LEMMA RemoveKeeps ==
  ASSUME IInv, NEW p \in Programs, NEW name \in Names, Remove(p, name) PROVE IInv'
<1> DEFINE old == Raw(file.text)
           cfg == [old EXCEPT !.tokens[name] = 0]
<1>1. /\ ~file.garbled /\ name \in Keys(old) /\ Keys(old) # {name}
      /\ Begin(p, "remove", name, cfg) /\ values' = values
  BY DEF Remove, Removable
<1>2. values' \in 0 .. MaxValue /\ values <= values' /\ 0 \in 0 .. values /\ 0 \in 0 .. MaxValue
  BY <1>1, Assumptions DEF Assumptions, IInv, TypeOK
<1>3. /\ cfg \in Config /\ cfg.rest = old.rest /\ cfg.legacy = old.legacy
      /\ cfg.tokens[name] = 0 /\ \A n \in Names \ {name} : cfg.tokens[n] = old.tokens[n]
  BY <1>2, RawInv, SetToken
<1> HIDE DEF cfg
<1>4. Keyed(cfg) /\ Below(cfg, values')
  BY <1>1, <1>2, <1>3, RawInv DEF Keyed, Keys, Below
<1>5. Exact("remove", name, file.text, cfg)
  BY <1>1, <1>3 DEF Exact, Keys
<1> QED
  BY <1>1, <1>2, <1>3, <1>4, <1>5, BeginKeeps

LEMMA RenewKeeps ==
  ASSUME IInv, NEW p \in Programs, NEW name \in Names, Renew(p, name) PROVE IInv'
<1> DEFINE old == Raw(file.text)
           cfg == [old EXCEPT !.tokens[name] = values']
<1>1. ~file.garbled /\ name \in Keys(old) /\ Generate /\ Begin(p, "renew", name, cfg)
  BY DEF Renew, Renewed
<1>2. /\ values' \in 0 .. MaxValue /\ values <= values' /\ values' # 0
      /\ values' \in 0 .. values' /\ values' \notin 0 .. values \cup {Blank}
  BY <1>1, Generated
<1>3. /\ cfg \in Config /\ cfg.rest = old.rest /\ cfg.legacy = old.legacy
      /\ cfg.tokens[name] = values' /\ \A n \in Names \ {name} : cfg.tokens[n] = old.tokens[n]
  BY <1>2, RawInv, SetToken
<1>4. Below(old, values') /\ old.tokens[name] \in 0 .. values \cup {Blank}
  BY <1>2, RawInv, Grows DEF IInv, Below
<1> HIDE DEF cfg
<1>5. Keyed(cfg) /\ Below(cfg, values')
  BY <1>2, <1>3, <1>4 DEF Keyed, Keys, Below
<1>6. Exact("renew", name, file.text, cfg)
  BY <1>2, <1>3, <1>4 DEF Exact
<1> QED
  BY <1>1, <1>2, <1>3, <1>5, <1>6, BeginKeeps

\* What setup starts from.
LEMMA ExistingInv ==
  ASSUME IInv
  PROVE  /\ Existing \in Config /\ Below(Existing, values)
         /\ ~file.garbled /\ Loads(file.text) => Existing = Migrated(file.text)
<1>1. /\ file.text \in Config \cup {Empty} /\ Below(Raw(file.text), values)
      /\ 0 \in 0 .. values
  BY RawInv
<1>2. Migrated(file.text) \in Config /\ Below(Migrated(file.text), values)
  <2>1. file.text \in Config => file.text.legacy \in 0 .. values
    BY DEF IInv, FileInv, Below
  <2> QED
    BY <1>1, <2>1, MigratedConfig DEF Below
<1>3. Default \in Config /\ Below(Default, values)
  BY <1>1, DefaultConfig DEF Below
<1> QED
  BY <1>2, <1>3 DEF Existing

LEMMA SetupKeeps ==
  ASSUME IInv, NEW p \in Programs, NEW name \in Names, Setup(p, name) PROVE IInv'
<1> DEFINE old == Existing
<1>1. old \in Config /\ Below(old, values)
      /\ (~file.garbled /\ Loads(file.text) => old = Migrated(file.text))
  BY ExistingInv
<1>2. ASSUME NEW rest \in Rests, NEW value \in 0 .. MaxValue \cup {Blank},
             values' \in 0 .. MaxValue, values <= values', value \in 0 .. values' \cup {Blank},
             IF Keys(old) = {} THEN value # 0 ELSE value = old.tokens[name],
             Begin(p, "setup", name, [old EXCEPT !.rest = rest, !.tokens[name] = value])
      PROVE  IInv'
  <2> DEFINE y == [old EXCEPT !.rest = rest]
             cfg == [y EXCEPT !.tokens[name] = value]
  <2>1. Begin(p, "setup", name, cfg)
    BY <1>1, <1>2 DEF Config
  <2>2. y \in Config /\ y.legacy = old.legacy /\ y.tokens = old.tokens
    BY <1>1, SetRest
  <2>3. /\ cfg \in Config /\ cfg.legacy = old.legacy /\ cfg.tokens[name] = value
        /\ \A n \in Names \ {name} : cfg.tokens[n] = old.tokens[n]
    <3> HIDE DEF y, old
    <3> QED
      BY <1>2, <2>2, SetToken
  <2>4. Below(old, values')
    BY <1>1, <1>2, Grows DEF IInv
  <2> HIDE DEF cfg, old
  <2>5. Below(cfg, values')
    BY <1>2, <2>3, <2>4 DEF Below
  <2>6. Keys(cfg) # {} /\ \A n \in Keys(old) : cfg.tokens[n] = old.tokens[n]
    BY <1>2, <2>3 DEF Keys
  <2>7. Keyed(cfg)
    BY <2>6 DEF Keyed
  <2>8. ~file.garbled => Exact("setup", name, file.text, cfg)
    BY <1>1, <2>6 DEF Exact
  <2> QED
    BY <1>2, <2>1, <2>3, <2>5, <2>7, <2>8, BeginKeeps
<1>3. values \in 0 .. MaxValue /\ values <= values
  BY Assumptions DEF Assumptions, IInv, TypeOK
<1>4. \A n \in Names : /\ old.tokens[n] \in 0 .. MaxValue \cup {Blank}
                       /\ old.tokens[n] \in 0 .. values \cup {Blank}
  BY <1>1 DEF Config, Below
<1>5. Blank # 0
  BY Assumptions DEF Assumptions
<1>6. \A rest \in {old.rest} \cup (IF old.rest \in Keyless THEN {} ELSE {"own"}) : rest \in Rests
  BY <1>1 DEF Config, Rests
<1> HIDE DEF old
<1>7. PICK rest \in Rests :
         \/ /\ Keys(old) # {} /\ values' = values
            /\ Begin(p, "setup", name, [old EXCEPT !.rest = rest, !.tokens[name] = old.tokens[name]])
         \/ /\ Keys(old) = {} /\ Generate
            /\ Begin(p, "setup", name, [old EXCEPT !.rest = rest, !.tokens[name] = values'])
         \/ /\ Keys(old) = {} /\ values' = values
            /\ Begin(p, "setup", name, [old EXCEPT !.rest = rest, !.tokens[name] = Blank])
  BY <1>6 DEF Setup, old
<1>8. CASE /\ Keys(old) # {} /\ values' = values
           /\ Begin(p, "setup", name, [old EXCEPT !.rest = rest, !.tokens[name] = old.tokens[name]])
  BY <1>2, <1>3, <1>4, <1>8
<1>9. CASE /\ Keys(old) = {} /\ Generate
           /\ Begin(p, "setup", name, [old EXCEPT !.rest = rest, !.tokens[name] = values'])
  BY <1>2, <1>9, Generated
<1>10. CASE /\ Keys(old) = {} /\ values' = values
            /\ Begin(p, "setup", name, [old EXCEPT !.rest = rest, !.tokens[name] = Blank])
  BY <1>2, <1>3, <1>5, <1>10
<1> QED
  BY <1>7, <1>8, <1>9, <1>10

LEMMA StdioKeeps == ASSUME IInv, NEW p \in Programs, SetupStdio(p) PROVE IInv'
<1> DEFINE cfg == [Default EXCEPT !.rest = "stdio"]
<1>1. Begin(p, "stdio", DefaultName, cfg) /\ values' = values /\ DefaultName \in Names
  BY Assumptions DEF Assumptions, SetupStdio
<1>2. /\ cfg \in Config /\ cfg.rest = "stdio" /\ cfg.legacy = 0
      /\ \A n \in Names : cfg.tokens[n] = 0
  <2>1. "stdio" \in Rests
    BY DEF Rests
  <2>2. Default \in Config /\ Default.legacy = 0 /\ \A n \in Names : Default.tokens[n] = 0
    BY DefaultConfig
  <2>3. /\ cfg \in Config /\ cfg.rest = "stdio" /\ cfg.legacy = Default.legacy
        /\ cfg.tokens = Default.tokens
    BY <2>1, <2>2, SetRest
  <2> HIDE DEF cfg
  <2> QED
    BY <2>2, <2>3
<1>3. values' \in 0 .. MaxValue /\ values <= values' /\ 0 \in 0 .. values'
  BY <1>1, Assumptions DEF Assumptions, IInv, TypeOK
<1> HIDE DEF cfg
<1>4. Keyed(cfg) /\ Below(cfg, values') /\ Exact("stdio", DefaultName, file.text, cfg)
  BY <1>2, <1>3 DEF Keyed, Keyless, Below, Exact
<1> QED
  BY <1>1, <1>2, <1>3, <1>4, BeginKeeps

--------------------------------------------------------------------------------
LEMMA InitInv == ASSUME Init PROVE IInv
<1>1. PICK text \in Texts : file = [text |-> text, comments |-> FALSE, garbled |-> FALSE]
  BY DEF Init
<1>2. /\ text \in Config /\ Loads(text) /\ Given \in 0 .. MaxValue
      /\ text.legacy <= Given /\ \A n \in Names : text.tokens[n] \in 0 .. Given
  BY Assumptions, FirstLoads DEF Assumptions
<1>3. file.text = text /\ file \in [text : Config \cup {Empty}, comments : BOOLEAN, garbled : BOOLEAN]
  BY <1>1, <1>2
<1>4. prog \in [Programs -> Work \cup Other] /\ \A p \in Programs : prog[p] = Idle
  BY IdleProg DEF Init
<1>5. TypeOK
  BY <1>2, <1>3, <1>4, IdleProg DEF Init, TypeOK
<1>6. text.legacy \in 0 .. Given
  BY <1>2, Assumptions DEF Assumptions, Config
<1>7. FileInv
  BY <1>2, <1>3, <1>6, LoadsKeyed DEF Init, FileInv, Below
<1>8. \A p \in Programs : ProgInv(prog[p], file.text, file.garbled, values)
  BY <1>4, IdleProg
<1> QED
  BY <1>5, <1>7, <1>8 DEF IInv

LEMMA NextInv == ASSUME IInv, [Next]_vars PROVE IInv'
<1>1. ASSUME UNCHANGED vars PROVE IInv'
  BY <1>1 DEF vars, IInv, TypeOK, FileInv
<1> QED
  BY <1>1, AddKeeps, RemoveKeeps, RenewKeeps, SetupKeeps, StdioKeeps, TruncateKeeps, WritesKeeps,
     BackfillKeeps, QuietKeeps DEF Next

LEMMA Invariant == Spec => []IInv
<1> QED
  BY InitInv, NextInv, PTL DEF Spec

\* The state has its type; in particular, a program that no other has overtaken finds the
\* file empty when it writes.
THEOREM TypeCorrect == Spec => []TypeOK
<1>1. IInv => TypeOK
  BY DEF IInv
<1> QED
  BY <1>1, Invariant, PTL

\* Any number of overlapping and dying commands leave a file that somebody can log in with,
\* or an empty token, or nothing that could be read.
THEOREM NobodyLockedOut == Spec => []WrittenLoads
<1>1. IInv => WrittenLoads
  <2> SUFFICES ASSUME IInv, file.text # Empty
               PROVE  Loads(file.text) \/ \E n \in Names : file.text.tokens[n] = Blank
    BY DEF WrittenLoads
  <2>1. file.text \in Config /\ Keyed(file.text)
    BY DEF IInv, TypeOK, FileInv
  <2> QED
    BY <2>1, KeyedLoads
<1> QED
  BY <1>1, Invariant, PTL

\* A command that no other overlaps changes one token and nothing else, and setup keeps
\* every token of a config that loads.
THEOREM CommandsAreExact == Spec => []SoleCommandExact
<1>1. IInv => SoleCommandExact
  <2> SUFFICES ASSUME IInv, NEW p \in Programs, prog[p].pc = "done",
                      prog[p].op \in {"add", "remove", "renew", "setup"}, prog[p].alone
               PROVE  ~file.garbled /\ Exact(prog[p].op, prog[p].name, prog[p].start, file.text)
    BY DEF SoleCommandExact, Finished, Exact
  <2> QED
    BY DEF IInv, ProgInv, Works
<1> QED
  BY <1>1, Invariant, PTL
================================================================================
