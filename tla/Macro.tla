---------------------------------- MODULE Macro ----------------------------------
(* Macros (internal/macro): a YAML file of steps that runs as one tool call.         *)
(* Runner.Run executes the steps in order over the log manager (FileAccess), the    *)
(* extension dispatcher and journalctl; each step's arguments may refer to the       *)
(* call's parameters and to the results of earlier steps.                            *)
(*                                                                                   *)
(* A step has one argument that matters: the path of a read_file step, the argument  *)
(* sent to an extension, the unit of a journalctl step.  Text that is not a path of  *)
(* the model is Other: a JSON document, a name, an error message.                    *)
EXTENDS FileAccess, Naturals, Sequences, TLC

CONSTANTS
    Ids,     \* identifiers: of steps and of parameters
    Empty,   \* the empty string
    Other,   \* text that no list matches
    Macros,  \* the macro definitions that LoadDir may find
    Answers, \* what an extension may answer to a step: a string or an object
    NoRun    \* not a run

Text == Paths \cup {Journal, Empty, Other}

\* A string of Args: literal text, {{ name }} or {{ name.path }}.
Templates ==
    [kind : {"text"}, value : Text] \cup [kind : {"name", "field"}, name : Ids]

StepDefs ==
    [internal : {"extension", "read_file", "journalctl", "unknown"}, id : Ids,
     arg : Templates]

\* The result of a step, as far as later steps and the caller see it: whether it is
\* an error, and the text of {{ id }} and of {{ id.path }}.
Outcomes == [error : BOOLEAN, whole : Text, path : Text]

\* What validate lets pass: steps, each with an id; nothing says that ids differ.
Valid(def) == def.steps # <<>>

ASSUME MacroAssumptions ==
    /\ Paths \cap {Journal, Empty, Other} = {}
    /\ Answers \subseteq {out \in Outcomes : ~out.error}
    /\ \A def \in Macros :
          /\ def.params \subseteq Ids /\ Valid(def)
          /\ def.steps \in Seq(StepDefs)

VARIABLES
    run  \* run[r]: the macro that call r runs, or NoRun

Failure == [error |-> TRUE, whole |-> Other, path |-> Empty]

--------------------------------------------------------------------------------
(* Templates (template.go) *)

Lookup(f, name) == IF name \in DOMAIN f THEN f[name] ELSE Empty

\* A parameter hides a step of its name.
Bound(params, result) ==
    [id \in DOMAIN params \cup DOMAIN result |->
        IF id \in DOMAIN params THEN params[id] ELSE result[id].whole]

Fields(result) == [id \in DOMAIN result |-> result[id].path]

\* What has no value becomes the empty string.
Interpolate(arg, params, result) ==
    CASE arg.kind = "text"  -> arg.value
      [] arg.kind = "name"  -> Lookup(Bound(params, result), arg.name)
      [] arg.kind = "field" -> Lookup(Fields(result), arg.name)

--------------------------------------------------------------------------------
(* Runner.Run (runner.go, steps.go) *)

\* Mutant of NewResult: the Runner, which all calls share, keeps the results.
NewResultShared(r) ==
    LET others == {q \in Requests \ {r} : run[q] # NoRun}
    IN  IF others = {} THEN <<>> ELSE run[CHOOSE q \in others : TRUE].result

NewResult(r) == <<>>

\* The handler passes on the declared parameters only, absent ones as empty strings.
\* History: given and outcome, the resolved arguments and outcomes of the steps, and
\* files, the files whose content is in the answer.
StartRun(r, def, arguments) ==
    /\ run[r] = NoRun
    /\ run' = [run EXCEPT ![r] =
          [def |-> def, params |-> [p \in def.params |-> Lookup(arguments, p)],
           next |-> 1, result |-> NewResult(r), given |-> <<>>, outcome |-> <<>>,
           files |-> {}]]

Running(r) == run[r] # NoRun /\ run[r].next <= Len(run[r].def.steps)

Ended(r) == run[r] # NoRun /\ ~Running(r)

Current(r) == run[r].def.steps[run[r].next]

Given(r) == Interpolate(Current(r).arg, run[r].params, run[r].result)

\* Mutant of After: the loop goes on behind a failed step.
AfterAny(r, out) == run[r].next + 1

\* The step behind the current one: none when it failed, except that a journalctl that
\* fails or runs into its timeout is an empty result with an error in it.
After(r, out) ==
    IF out.error /\ Current(r).internal # "journalctl"
    THEN Len(run[r].def.steps) + 1
    ELSE run[r].next + 1

\* A second step of an id replaces the result of the first.
With(result, id, out) ==
    [i \in DOMAIN result \cup {id} |-> IF i = id THEN out ELSE result[i]]

Record(r, out) ==
    run' = [run EXCEPT ![r] = [run[r] EXCEPT
        !.next = After(r, out),
        !.result = With(@, Current(r).id, out),
        !.given = Append(@, Given(r)),
        !.outcome = Append(@, out),
        !.files = @ \cup {e.path : e \in content[r]}]]

AtStep(r, internal) == Running(r) /\ Current(r).internal = internal

\* read_file, with the access checks of read_log.
BeginRead(r) ==
    /\ AtStep(r, "read_file") /\ Given(r) \in Paths
    /\ Begin(r)
    /\ UNCHANGED run

\* Mutant of ServeRead: the runner opens the path itself, behind the manager's back.
ServeReadUnchecked(r, file) ==
    /\ AtStep(r, "read_file") /\ access[r] = "in"
    /\ access' = [access EXCEPT ![r] = "served"]
    /\ content' = [content EXCEPT ![r] = {[path |-> file, readable |-> TRUE]}]
    /\ UNCHANGED <<acl, since, run>>

\* The content is that of the file the path leads to by the time it is opened.
ServeRead(r, file) ==
    /\ AtStep(r, "read_file")
    /\ Serve(r, {[path |-> file, readable |-> TRUE]})
    /\ UNCHANGED run

EndRead(r) ==
    /\ AtStep(r, "read_file")
    /\ Record(r, IF access[r] = "served"
                 THEN [error |-> FALSE, whole |-> Other, path |-> Given(r)]
                 ELSE Failure)
    /\ Leave(r)

\* No path, a path that no list matches, or journald://, which IsAllowed may pass but
\* ReadFile cannot open.
NoRead(r) ==
    /\ AtStep(r, "read_file") /\ Given(r) \notin Paths
    /\ Record(r, Failure)
    /\ UNCHANGED accessVars

\* execExtension, whose answer is ToolCall's promise: a timeout, an error of the tool
\* and a tool that does not exist are failures.
CallExtension(r) ==
    /\ AtStep(r, "extension")
    /\ \E out \in Answers \cup {Failure} : Record(r, out)
    /\ UNCHANGED accessVars

Journalctl(r) ==
    /\ AtStep(r, "journalctl")
    /\ \E error \in BOOLEAN :
          Record(r, [error |-> error, whole |-> Other, path |-> Empty])
    /\ UNCHANGED accessVars

\* A type that Run does not know is found out when the step's turn comes.
UnknownStep(r) ==
    /\ AtStep(r, "unknown")
    /\ Record(r, Failure)
    /\ UNCHANGED accessVars

\* Run returns, with an error or without; the handler answers with the result.
EndRun(r) ==
    /\ Ended(r)
    /\ run' = [run EXCEPT ![r] = NoRun]

MacroStep(r) ==
    \/ BeginRead(r) \/ (\E file \in Paths : ServeRead(r, file)) \/ EndRead(r)
    \/ NoRead(r) \/ CallExtension(r) \/ Journalctl(r) \/ UnknownStep(r)
================================================================================
