---------------------------------- MODULE Tools ----------------------------------
(* The tool layer of the server: the registry that New fills once, in a fixed order,  *)
(* from the config, the macros directory and the extensions (registerTools,           *)
(* internal/mcp/server.go); calls of the tools in it; and Reload, which gives the log  *)
(* manager new lists and the notify tools a new service, but leaves the registry       *)
(* alone.  Macro and Notify have the steps of the two kinds of tools that are called    *)
(* here.                                                                               *)
EXTENDS Macro, Notify, FiniteSets, SequencesExt

CONSTANTS
    Setups,      \* what New may find: see IsSetup
    Names,       \* names of tools
    Builtin,     \* the seven tools registered first, under one name
    RagQuery, NotifySend, DbQuery,  \* the names of other tools of the server's own
    Arguments,   \* arguments of a macro call: functions from names to texts
    MaxReloads,  \* bound on the reloads
    MaxEdits     \* bound on the edits of telegram.yaml

\* A setup: tools.disabled, the macros and the extension tools in the order in which
\* they are found, and whether RAG and databases are configured.  A found macro has the
\* name of its tool and its definition.
IsSetup(s) ==
    /\ s.disabled \subseteq Names
    /\ s.macros \in Seq([name : Names, def : Macros])
    /\ s.extensions \in Seq(Names)
    /\ s.rag \in BOOLEAN /\ s.db \in BOOLEAN

ASSUME ToolsAssumptions ==
    /\ {Builtin, RagQuery, NotifySend, DbQuery} \subseteq Names
    /\ NotifySend \notin {Builtin, RagQuery, DbQuery}
    /\ \A s \in Setups : IsSetup(s)
    /\ \A arguments \in Arguments : \A name \in DOMAIN arguments : arguments[name] \in Text
    /\ MaxReloads \in Nat /\ MaxEdits \in Nat

VARIABLES
    setup,     \* what New found
    registry,  \* registerTools: its claims, the next of them, the tools by name, and the
               \* names trackTool has marked
    reload,    \* Reload: "idle", or holding mu with the lists or the service to set
    counts,    \* reloads and edits so far
    call,      \* call[r]: "idle" or the kind of tool that runs
    lists      \* lists[r]: history: the log lists there were since call r began

vars == <<accessVars, run, notifyVars, setup, registry, reload, counts, call, lists>>

--------------------------------------------------------------------------------
(* registerTools *)

\* One registration: the name, the handler, and whether a name that trackTool has seen
\* is left to the tool that has it.
Claim(name, handler, yields) == [name |-> name, handler |-> handler, yields |-> yields]

Own(name) == [kind |-> "own", name |-> name]

If(condition, claims) == IF condition THEN claims ELSE <<>>

MacroClaims(s) ==
    [i \in DOMAIN s.macros |->
        Claim(s.macros[i].name, [kind |-> "macro", def |-> s.macros[i].def], TRUE)]

\* Every extension's tools in turn; a list that cannot be had is left out.
ExtensionClaims(s) ==
    [i \in DOMAIN s.extensions |->
        Claim(s.extensions[i], [kind |-> "extension", tool |-> i], TRUE)]

\* notify_bots and the other db tools are registered like these.
NotifyClaims ==
    If(service # NoService, <<Claim(NotifySend, Own(NotifySend), FALSE)>>)

DbClaims(s) == If(s.db, <<Claim(DbQuery, Own(DbQuery), TRUE)>>)

\* rag_query and the notify tools take their names, whoever has them; db tools yield.
Claims(s) ==
       <<Claim(Builtin, Own(Builtin), FALSE)>>
    \o MacroClaims(s)
    \o ExtensionClaims(s)
    \o If(s.rag, <<Claim(RagQuery, Own(RagQuery), FALSE)>>)
    \o NotifyClaims
    \o DbClaims(s)

Unregistered(s) == [claims |-> Claims(s), next |-> 1, tools |-> <<>>, tracked |-> {}]

\* Start comes after New: nothing is called, and nothing reloaded, before.
Serving == registry.next > Len(registry.claims)

\* Mutant of Yields: trackTool's answer is ignored for all tools.
YieldsNever(c) == FALSE

Yields(c) == c.yields /\ c.name \in registry.tracked

\* toolEnabled, trackTool and AddTool, which replaces a tool of the same name.
Register ==
    /\ ~Serving
    /\ LET c == registry.claims[registry.next]
           more == [registry EXCEPT !.next = @ + 1]
       IN  registry' =
              IF c.name \in setup.disabled \/ Yields(c) THEN more
              ELSE [more EXCEPT !.tools = With(@, c.name, c.handler),
                                !.tracked = @ \cup {c.name}]
    /\ UNCHANGED <<accessVars, run, notifyVars, setup, reload, counts, call, lists>>

Init ==
    /\ setup \in Setups
    /\ AccessInit /\ NotifyInit
    /\ run = [r \in Requests |-> NoRun]
    /\ registry = Unregistered(setup)
    /\ reload = "idle"
    /\ counts = [reloads |-> 0, edits |-> 0]
    /\ call = [r \in Requests |-> "idle"]
    /\ lists = [r \in Requests |-> {}]

--------------------------------------------------------------------------------
(* Reload and its surroundings *)

MuFree == reload = "idle"

Edit(t) ==
    /\ counts.edits < MaxEdits
    /\ counts' = [counts EXCEPT !.edits = @ + 1]
    /\ EditTelegram(t)
    /\ UNCHANGED <<accessVars, run, setup, registry, reload, call, lists>>

\* A config that loads; mu is taken, cfg replaced.  The registry is not touched, whatever
\* tools.disabled, the macros directory and the extensions of the new config are.
ReloadConfig ==
    /\ Serving /\ MuFree /\ counts.reloads < MaxReloads
    /\ counts' = [counts EXCEPT !.reloads = @ + 1]
    /\ reload' = "lists"
    /\ UNCHANGED <<accessVars, run, notifyVars, setup, registry, call, lists>>

ReloadLists(a) ==
    /\ reload = "lists"
    /\ reload' = "service"
    /\ Update(a)
    /\ lists' = [r \in Requests |->
          IF call[r] = "idle" THEN {} ELSE lists[r] \cup {a}]
    /\ UNCHANGED <<run, notifyVars, setup, registry, counts, call>>

ReloadNotify ==
    /\ reload = "service"
    /\ reload' = "idle"
    /\ ReloadService
    /\ UNCHANGED <<accessVars, run, setup, registry, counts, call, lists>>

--------------------------------------------------------------------------------
(* Calls *)

Handler(name) == registry.tools[name]

Enter(r, kind) ==
    /\ Serving /\ call[r] = "idle"
    /\ call' = [call EXCEPT ![r] = kind]
    /\ lists' = [lists EXCEPT ![r] = {acl}]

Stay == UNCHANGED <<call, lists>>

Exit(r) ==
    /\ call' = [call EXCEPT ![r] = "idle"]
    /\ lists' = [lists EXCEPT ![r] = {}]

Unmoved == UNCHANGED <<setup, registry, reload, counts>>

CallMacro(r, name, arguments) ==
    /\ Enter(r, "macro")
    /\ \E def \in Macros :
          /\ Handler(name) = [kind |-> "macro", def |-> def]
          /\ StartRun(r, def, arguments)
    /\ UNCHANGED <<accessVars, notifyVars>> /\ Unmoved

CallNotifySend(r, user, bot) ==
    /\ NotifySend \in DOMAIN registry.tools
    /\ Handler(NotifySend).kind = "own"
    /\ Enter(r, "note") /\ BeginNote(r, user, bot)
    /\ UNCHANGED <<accessVars, run>> /\ Unmoved

MacroCallStep(r) ==
    /\ call[r] = "macro"
    /\ \/ MacroStep(r) /\ Stay
       \/ EndRun(r) /\ Exit(r) /\ UNCHANGED accessVars
    /\ UNCHANGED notifyVars /\ Unmoved

NoteStep(r) ==
    /\ call[r] = "note"
    /\ \/ MuFree /\ Pick(r) /\ Stay
       \/ Post(r) /\ Stay
       \/ EndNote(r) /\ Exit(r)
    /\ UNCHANGED <<accessVars, run>> /\ Unmoved

\* The calls that take several steps among which others' steps matter.  The other tools
\* of the server's own are in modules of their own; an extension's tool is ToolCall.
Call(r) ==
    \/ \E name \in DOMAIN registry.tools, arguments \in Arguments :
           CallMacro(r, name, arguments)
    \/ \E user \in Users, bot \in Bots \cup {NoBot} :
           CallNotifySend(r, user, bot)

CallStep(r) == MacroCallStep(r) \/ NoteStep(r)

Reload == ReloadConfig \/ (\E a \in Acls : ReloadLists(a)) \/ ReloadNotify

Next ==
    \/ \E r \in Requests : Call(r) \/ CallStep(r)
    \/ Register \/ Reload
    \/ \E t \in Telegrams \cup {Broken} : Edit(t)

Spec == Init /\ [][Next]_vars

--------------------------------------------------------------------------------
\* Registration: a name is served by exactly one handler, in the order of precedence
\* that registerTools' sequence amounts to, whatever macros and extensions are called;
\* disabled names are served by none; and notify_send is there exactly when there is a
\* service, whatever telegram.yaml and Reload did since (its handler relies on it).
RegistryExact ==
    LET macros == {setup.macros[i].name : i \in DOMAIN setup.macros}
        extensions == Range(setup.extensions)
        own == {Builtin} \cup {n \in {RagQuery} : setup.rag}
                         \cup {n \in {NotifySend} : service # NoService}
        db == {n \in {DbQuery} : setup.db}
        FirstMacro(name) ==
            CHOOSE i \in DOMAIN setup.macros :
                /\ setup.macros[i].name = name
                /\ \A j \in 1..(i - 1) : setup.macros[j].name # name
    IN  Serving =>
        /\ registry.tracked = (own \cup macros \cup extensions \cup db) \ setup.disabled
        /\ DOMAIN registry.tools = registry.tracked
        /\ \A name \in registry.tracked :
              CASE name \in own -> Handler(name) = Own(name)
                [] name \in macros \ own ->
                      Handler(name).kind = "macro"
                      /\ Handler(name).def = setup.macros[FirstMacro(name)].def
                [] name \in extensions \ (own \cup macros) ->
                      /\ Handler(name).kind = "extension"
                      /\ setup.extensions[Handler(name).tool] = name
                [] OTHER -> Handler(name) = Own(name)

\* Runner.Run: whatever other calls and reloads happen meanwhile, every step of a run
\* is given its arguments from this run's parameters and the latest earlier results of
\* this run, the answer maps each id to the outcome of the last executed step that has
\* it, and execution ends behind a failed extension, file or unknown step, and otherwise
\* short of the last step only behind a failure.  (For a failed journalctl: FailureStops.)
AnswerExact ==
    \A r \in {q \in Requests : run[q] # NoRun} :
        LET steps == run[r].def.steps
            out == run[r].outcome
            Named(id, n) == {j \in 1..n : steps[j].id = id}
            Result(n) ==
                [id \in {steps[j].id : j \in 1..n} |-> out[Max(Named(id, n))]]
        IN  /\ run[r].result = Result(Len(out))
            /\ \A i \in DOMAIN out :
                  /\ run[r].given[i] =
                        Interpolate(steps[i].arg, run[r].params, Result(i - 1))
                  /\ out[i].error /\ steps[i].internal # "journalctl" => i = Len(out)
            /\ Ended(r) => \/ Len(out) = Len(steps)
                           \/ out # <<>> /\ out[Len(out)].error

\* notify_send: a message is posted at most once, and what is posted, bot token and
\* chat, is what one telegram.yaml in force during the call says for this user and the
\* bot that was asked for, or the user's only bot of that file; "sent" is answered only
\* when it was posted.
SentAsConfigured ==
    \A r \in {q \in Requests : note[q] # Idle} :
        LET Says(s, b) ==
                /\ b \in BotsOf(s, note[r].user)
                /\ IF note[r].asked = NoBot THEN BotsOf(s, note[r].user) = {b}
                                            ELSE note[r].asked = b
        IN  /\ Len(note[r].posted) <= 1
            /\ note[r].pc = "sent" => note[r].posted # <<>>
            /\ \A i \in DOMAIN note[r].posted :
                  \E s \in inForce[r] \ {NoService} : \E b \in DOMAIN s :
                      /\ Says(s, b)
                      /\ note[r].posted[i] = [token |-> s[b].token,
                                              chat |-> s[b].users[note[r].user]]

\* Macros and the lists: whatever paths the parameters and the results of earlier steps
\* make of the templates, and whatever is reloaded meanwhile, the answer of a macro
\* contains only files that lists in force at some time of the call allow.
MacroReadsAllowed ==
    \A r \in {q \in Requests : run[q] # NoRun} :
        \A file \in run[r].files : \E a \in lists[r] : Allows(a, file)

--------------------------------------------------------------------------------
(* What the documents say, and the code does not do *)

\* docs/MACRO.md: if a step fails, execution stops, and all later steps are omitted.
FailureStops ==
    \A r \in {q \in Requests : run[q] # NoRun} :
        \A i \in DOMAIN run[r].outcome :
            run[r].outcome[i].error => i = Len(run[r].outcome)
================================================================================
