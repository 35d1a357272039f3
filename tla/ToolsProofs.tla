------------------------------ MODULE ToolsProofs ------------------------------
(* Macros, notes and the registry among concurrent calls and reloads.  A run's answer is *)
(* its own and it reads what the lists allow: a call is inside the log manager only at a *)
(* read_file step with a path (StepsRead), and the position in the steps fits the        *)
(* outcomes so far (RunInv).  A name has one handler: the one whose claim wins among     *)
(* those made so far (RegInv).  A note posts what one service of its time says: the      *)
(* service it copied is one of them, and there is always one (NotesInv).                 *)
EXTENDS Tools, SequenceTheorems, WellFoundedInduction, TLAPS

Constrained == MacroAssumptions /\ NotifyAssumptions /\ ToolsAssumptions

\* The latest outcome of each id among the first n steps.
Latest(steps, out, n) ==
    [id \in {steps[j].id : j \in 1..n} |-> out[Max({j \in 1..n : steps[j].id = id})]]

Final(steps, out, i) == out[i].error /\ steps[i].internal # "journalctl"

Shaped(x) ==
    x = [def |-> x.def, params |-> x.params, next |-> x.next, result |-> x.result,
         given |-> x.given, outcome |-> x.outcome, files |-> x.files]

\* A run: typed, exact so far, and either at the step behind its outcomes or done.
RunInv(x) ==
    LET steps == x.def.steps
        out == x.outcome
    IN  /\ Shaped(x)
        /\ x.def \in Macros
        /\ x.params \in [x.def.params -> Text]
        /\ x.next \in Nat
        /\ out \in Seq(Outcomes)
        /\ x.given \in Seq(Text)
        /\ Len(x.given) = Len(out)
        /\ Len(out) <= Len(steps)
        /\ x.result = Latest(steps, out, Len(out))
        /\ \A i \in 1..Len(out) :
              /\ x.given[i] = Interpolate(steps[i].arg, x.params, Latest(steps, out, i - 1))
              /\ Final(steps, out, i) => i = Len(out)
        /\ IF x.next <= Len(steps)
           THEN /\ x.next = Len(out) + 1
                /\ \A i \in 1..Len(out) : ~Final(steps, out, i)
           ELSE Len(out) = Len(steps) \/ (out # <<>> /\ Final(steps, out, Len(out)))

--------------------------------------------------------------------------------
(* The latest results *)

\* A bounded set of numbers has a largest one.
LEMMA LastExists ==
  ASSUME NEW n \in Nat, NEW S \in SUBSET (1..n), S # {}
  PROVE  \E m \in S : \A k \in S : m >= k
<1> DEFINE T == {n - k : k \in S}
<1>0. \A k \in S : k \in Nat /\ n - k \in Nat
  OBVIOUS
<1>1. T \subseteq Nat /\ T # {}
  BY <1>0
<1> DEFINE R == OpToRel(<, Nat)
<1>2. IsWellFoundedOn(R, Nat)
  BY NatLessThanWellFounded
<1>3. \A x, y \in Nat : y < x => <<y, x>> \in R
  BY DEF OpToRel
<1> HIDE DEF R, T
<1>4. PICK x \in T : \A y \in T : ~(<<y, x>> \in R)
  BY <1>1, <1>2, WFMin
<1>5. \A y \in T : x <= y
  <2> TAKE y \in T
  <2>1. x \in Nat /\ y \in Nat
    BY <1>1
  <2>2. ~(y < x)
    BY <1>3, <1>4, <2>1
  <2> QED
    BY <2>1, <2>2
<1>6. PICK m \in S : x = n - m
  BY <1>4 DEF T
<1>7. \A k \in S : n - m <= n - k
  BY <1>5, <1>6 DEF T
<1> QED
  BY <1>0, <1>7

LEMMA MaxIs ==
  ASSUME NEW S \in SUBSET Nat, NEW m \in S, \A k \in S : m >= k
  PROVE  Max(S) = m
<1>1. \A x \in S : (\A k \in S : x >= k) => x = m
  OBVIOUS
<1> QED
  BY <1>1 DEF Max

\* What Max finds among the first n steps with an id is one of them.
LEMMA MaxWithin ==
  ASSUME NEW n \in Nat, NEW S \in SUBSET (1..n), S # {}
  PROVE  Max(S) \in S
<1>1. PICK m \in S : \A k \in S : m >= k
  BY LastExists
<1> QED
  BY <1>1, MaxIs

LEMMA LatestTyped ==
  ASSUME NEW steps, NEW out \in Seq(Outcomes), NEW n \in 0..Len(out)
  PROVE  \A id \in DOMAIN Latest(steps, out, n) : Latest(steps, out, n)[id] \in Outcomes
<1> SUFFICES ASSUME NEW id \in {steps[j].id : j \in 1..n}
             PROVE  out[Max({j \in 1..n : steps[j].id = id})] \in Outcomes
  BY DEF Latest
<1> DEFINE S == {j \in 1..n : steps[j].id = id}
<1>1. S \in SUBSET (1..n) /\ S # {}
  OBVIOUS
<1> HIDE DEF S
<1>2. Max(S) \in 1..Len(out)
  <2>1. n \in Nat /\ 1..n \subseteq 1..Len(out)
    OBVIOUS
  <2>2. Max(S) \in S
    BY <1>1, <2>1, MaxWithin
  <2> QED
    BY <1>1, <2>1, <2>2
<1>3. out[Max(S)] \in Outcomes
  BY <1>2
<1> QED
  BY <1>3 DEF S

\* Earlier answers stay as they are.
LEMMA LatestStays ==
  ASSUME NEW steps, NEW out \in Seq(Outcomes), NEW o \in Outcomes, NEW n \in 0..Len(out)
  PROVE  Latest(steps, Append(out, o), n) = Latest(steps, out, n)
<1> SUFFICES ASSUME NEW id \in {steps[j].id : j \in 1..n}
             PROVE  Append(out, o)[Max({j \in 1..n : steps[j].id = id})]
                      = out[Max({j \in 1..n : steps[j].id = id})]
  BY DEF Latest
<1> DEFINE S == {j \in 1..n : steps[j].id = id}
<1>1. S \in SUBSET (1..n) /\ S # {}
  OBVIOUS
<1> HIDE DEF S
<1>2. Max(S) \in 1..Len(out)
  <2>1. n \in Nat /\ 1..n \subseteq 1..Len(out)
    OBVIOUS
  <2>2. Max(S) \in S
    BY <1>1, <2>1, MaxWithin
  <2> QED
    BY <1>1, <2>1, <2>2
<1>3. Append(out, o)[Max(S)] = out[Max(S)]
  BY <1>2, AppendProperties
<1> QED
  BY <1>3 DEF S

\* The answer of the next step replaces those of its id.
LEMMA LatestGrows ==
  ASSUME NEW steps, NEW out \in Seq(Outcomes), NEW o \in Outcomes
  PROVE  Latest(steps, Append(out, o), Len(out) + 1)
           = With(Latest(steps, out, Len(out)), steps[Len(out) + 1].id, o)
<1> DEFINE n == Len(out)
           new == steps[n + 1].id
           Before(id) == {j \in 1..n : steps[j].id = id}
           Upto(id) == {j \in 1..(n + 1) : steps[j].id = id}
           more == Append(out, o)
           O == Latest(steps, out, n)
           L == Latest(steps, more, n + 1)
           M == With(O, new, o)
<1>1. n \in Nat /\ 1..(n + 1) = (1..n) \cup {n + 1}
  OBVIOUS
<1>2. DOMAIN L = {steps[j].id : j \in 1..(n + 1)} /\ L = [id \in DOMAIN L |-> L[id]]
  BY DEF Latest
<1>3. DOMAIN O = {steps[j].id : j \in 1..n}
  BY DEF Latest
<1>4. more[n + 1] = o /\ \A i \in 1..n : more[i] = out[i]
  BY AppendProperties
<1>5. \A id \in DOMAIN L : L[id] = more[Max(Upto(id))]
  BY <1>2 DEF Latest
<1>6. \A id \in DOMAIN O : O[id] = out[Max(Before(id))]
  BY <1>3 DEF Latest
<1> HIDE DEF L, O, n, more
<1>7. /\ DOMAIN M = {new} \cup DOMAIN O /\ M = [id \in DOMAIN M |-> M[id]]
      /\ M[new] = o /\ \A id \in DOMAIN O : id # new => M[id] = O[id]
  BY DEF With
<1> HIDE DEF M
<1>8. DOMAIN L = DOMAIN M
  BY <1>1, <1>2, <1>3, <1>7
<1>9. L[new] = M[new]
  <2>1. Upto(new) \in SUBSET Nat /\ n + 1 \in Upto(new) /\ \A k \in Upto(new) : n + 1 >= k
    BY <1>1
  <2> HIDE DEF Upto
  <2>2. Max(Upto(new)) = n + 1
    BY <2>1, MaxIs
  <2> QED
    BY <2>2, <1>4, <1>5, <1>7, <1>8
<1>10. ASSUME NEW id \in DOMAIN L, id # new
       PROVE  L[id] = M[id]
  <2>1. id \in DOMAIN O
    BY <1>7, <1>8, <1>10
  <2>2. Upto(id) = Before(id)
    BY <1>1, <1>10
  <2>3. Before(id) # {} /\ Before(id) \in SUBSET (1..n)
    BY <1>3, <2>1
  <2> HIDE DEF Upto, Before
  <2>4. Max(Before(id)) \in 1..n
    BY <1>1, <2>3, MaxWithin
  <2> QED
    BY <1>4, <1>5, <1>6, <1>7, <1>10, <2>1, <2>2, <2>4
<1>11. L = M
  BY <1>2, <1>7, <1>8, <1>9, <1>10
<1> QED
  BY <1>11 DEF L, M, O, n, more

--------------------------------------------------------------------------------
(* One run *)

\* What templates make of typed parameters and results is text.
LEMMA InterpolateTyped ==
  ASSUME Constrained, NEW arg \in Templates, NEW params, NEW result,
         \A id \in DOMAIN params : params[id] \in Text,
         \A id \in DOMAIN result : result[id] \in Outcomes
  PROVE  Interpolate(arg, params, result) \in Text
<1>1. Empty \in Text
  BY DEF Text
<1>2. \A id \in DOMAIN result : result[id].whole \in Text /\ result[id].path \in Text
  BY DEF Outcomes
<1>3. \A name : Lookup(Bound(params, result), name) \in Text
  BY <1>1, <1>2 DEF Lookup, Bound
<1>4. \A name : Lookup(Fields(result), name) \in Text
  BY <1>1, <1>2 DEF Lookup, Fields
<1>5. arg.kind = "text" => arg.value \in Text
  BY DEF Templates
<1>6. arg.kind \in {"text", "name", "field"}
  BY DEF Templates
<1> QED
  BY <1>3, <1>4, <1>5, <1>6 DEF Interpolate

\* A run begins without outcomes, at its first step.
LEMMA RunBegins ==
  ASSUME Constrained, NEW def \in Macros, NEW arguments \in Arguments
  PROVE  RunInv([def |-> def,
                 params |-> [p \in def.params |-> Lookup(arguments, p)],
                 next |-> 1, result |-> <<>>, given |-> <<>>, outcome |-> <<>>,
                 files |-> {}])
<1> DEFINE x == [def |-> def, params |-> [p \in def.params |-> Lookup(arguments, p)],
                 next |-> 1, result |-> <<>>, given |-> <<>>, outcome |-> <<>>,
                 files |-> {}]
<1>1. def.steps \in Seq(StepDefs) /\ def.steps # <<>>
  BY DEF Constrained, MacroAssumptions, Valid
<1>2. Len(def.steps) \in Nat /\ Len(def.steps) >= 1
  BY <1>1, EmptySeq, LenProperties
<1>3. \A p : Lookup(arguments, p) \in Text
  BY DEF Constrained, ToolsAssumptions, Lookup, Text
<1>4. x.params \in [x.def.params -> Text]
  BY <1>3
<1>5. /\ Shaped(x) /\ x.def = def /\ x.next = 1
      /\ x.result = <<>> /\ x.given = <<>> /\ x.outcome = <<>>
  BY DEF Shaped
<1>6. Latest(def.steps, <<>>, 0) = <<>>
  BY DEF Latest
<1> HIDE DEF x
<1>7. /\ <<>> \in Seq(Outcomes) /\ <<>> \in Seq(Text) /\ Len(<<>>) = 0
  BY EmptySeq
<1>8. RunInv(x)
  BY <1>1, <1>2, <1>4, <1>5, <1>6, <1>7 DEF RunInv
<1> QED
  BY <1>8 DEF x

Steps(x) == x.def.steps

\* A run goes on with the outcome of its current step, or stops with it.
Later(x, given, o, files) ==
    [x EXCEPT !.next = IF o.error /\ Steps(x)[x.next].internal # "journalctl"
                       THEN Len(Steps(x)) + 1 ELSE x.next + 1,
              !.result = With(@, Steps(x)[x.next].id, o),
              !.given = Append(@, given),
              !.outcome = Append(@, o),
              !.files = files]

LEMMA LaterIs ==
  ASSUME NEW def, NEW params, NEW next, NEW result, NEW given, NEW outcome, NEW files,
         NEW next1, NEW result1, NEW given1, NEW outcome1, NEW files1, NEW x,
         x = [def |-> def, params |-> params, next |-> next, result |-> result,
              given |-> given, outcome |-> outcome, files |-> files]
  PROVE  [x EXCEPT !.next = next1, !.result = result1, !.given = given1,
                   !.outcome = outcome1, !.files = files1]
           = [def |-> def, params |-> params, next |-> next1, result |-> result1,
              given |-> given1, outcome |-> outcome1, files |-> files1]
<1> DEFINE x1 == [x EXCEPT !.next = next1]
           x2 == [x1 EXCEPT !.result = result1]
           x3 == [x2 EXCEPT !.given = given1]
           x4 == [x3 EXCEPT !.outcome = outcome1]
           x5 == [x4 EXCEPT !.files = files1]
<1>1. x1 = [def |-> def, params |-> params, next |-> next1, result |-> result,
           given |-> given, outcome |-> outcome, files |-> files]
  OBVIOUS
<1> HIDE DEF x1
<1>2. x2 = [def |-> def, params |-> params, next |-> next1, result |-> result1,
           given |-> given, outcome |-> outcome, files |-> files]
  BY <1>1
<1> HIDE DEF x2
<1>3. x3 = [def |-> def, params |-> params, next |-> next1, result |-> result1,
           given |-> given1, outcome |-> outcome, files |-> files]
  BY <1>2
<1> HIDE DEF x3
<1>4. x4 = [def |-> def, params |-> params, next |-> next1, result |-> result1,
           given |-> given1, outcome |-> outcome1, files |-> files]
  BY <1>3
<1> HIDE DEF x4
<1>5. x5 = [def |-> def, params |-> params, next |-> next1, result |-> result1,
           given |-> given1, outcome |-> outcome1, files |-> files1]
  BY <1>4
<1> HIDE DEF x5
<1> QED
  BY <1>5 DEF x1, x2, x3, x4, x5

LEMMA RunGoesOn ==
  ASSUME Constrained, NEW x, RunInv(x), x.next <= Len(Steps(x)), NEW o \in Outcomes, NEW files,
         NEW given, given = Interpolate(Steps(x)[x.next].arg, x.params, x.result)
  PROVE  RunInv(Later(x, given, o, files))
<1> DEFINE y == Later(x, given, o, files)
           steps == Steps(x)
           out == x.outcome
           n == Len(out)
           next == IF o.error /\ steps[x.next].internal # "journalctl"
                   THEN Len(steps) + 1 ELSE x.next + 1
<1>1. /\ y.def = x.def /\ y.params = x.params /\ y.next = next
      /\ y.result = With(x.result, steps[x.next].id, o)
      /\ y.given = Append(x.given, given) /\ y.outcome = Append(out, o)
      /\ Shaped(y) /\ y.files = files
  <2> HIDE DEF n, steps, out
  <2>1. Shaped(x)
    BY DEF RunInv
  <2>2. y = [x EXCEPT !.next = next, !.result = With(x.result, steps[x.next].id, o),
                      !.given = Append(x.given, given), !.outcome = Append(out, o),
                      !.files = files]
    BY DEF Later, steps, out
  <2> HIDE DEF y, next
  <2>3. y = [def |-> x.def, params |-> x.params, next |-> next,
             result |-> With(x.result, steps[x.next].id, o),
             given |-> Append(x.given, given), outcome |-> Append(out, o), files |-> files]
    BY <2>1, <2>2, LaterIs DEF Shaped
  <2> QED
    BY <2>3 DEF Shaped
<1>2. /\ x.def \in Macros /\ x.params \in [x.def.params -> Text] /\ x.next = n + 1
      /\ out \in Seq(Outcomes) /\ x.given \in Seq(Text) /\ Len(x.given) = n
      /\ x.result = Latest(steps, out, n)
  BY DEF RunInv, Steps
<1>3. /\ \A i \in 1..n :
            /\ x.given[i] = Interpolate(steps[i].arg, x.params, Latest(steps, out, i - 1))
            /\ ~Final(steps, out, i)
  BY DEF RunInv, Steps
<1>4. steps \in Seq(StepDefs) /\ Len(steps) \in Nat /\ n \in Nat /\ n + 1 <= Len(steps)
  BY <1>2, LenProperties DEF Constrained, MacroAssumptions, Steps
<1>5. steps[n + 1] \in StepDefs
  BY <1>4, ElementOfSeq
<1>6. given \in Text
  <2>1. steps[n + 1].arg \in Templates
    BY <1>5 DEF StepDefs
  <2>2. \A id \in DOMAIN x.result : x.result[id] \in Outcomes
    BY <1>2, <1>4, LatestTyped
  <2>3. \A id \in DOMAIN x.params : x.params[id] \in Text
    BY <1>2
  <2> QED
    BY <1>2, <2>1, <2>2, <2>3, InterpolateTyped
<1> HIDE DEF y, steps, out
<1>7. /\ y.outcome \in Seq(Outcomes) /\ Len(y.outcome) = n + 1 /\ y.outcome[n + 1] = o
      /\ y.outcome # <<>> /\ \A i \in 1..n : y.outcome[i] = out[i]
  BY <1>1, <1>2, AppendProperties
<1>8. /\ y.given \in Seq(Text) /\ Len(y.given) = n + 1 /\ y.given[n + 1] = given
      /\ \A i \in 1..n : y.given[i] = x.given[i]
  BY <1>1, <1>2, <1>6, AppendProperties
<1>9. y.result = Latest(steps, y.outcome, n + 1)
  BY <1>1, <1>2, LatestGrows
<1>10. \A m \in 0..n : Latest(steps, y.outcome, m) = Latest(steps, out, m)
  BY <1>1, <1>2, LatestStays
<1>11. \A i \in 1..n : ~Final(steps, y.outcome, i)
  BY <1>3, <1>7 DEF Final
<1>12. Final(steps, y.outcome, n + 1) <=> o.error /\ steps[x.next].internal # "journalctl"
  BY <1>2, <1>7 DEF Final
<1> HIDE DEF n
<1>13. ASSUME NEW i \in 1..(n + 1)
       PROVE  y.given[i] = Interpolate(steps[i].arg, x.params, Latest(steps, y.outcome, i - 1))
  <2>1. CASE i = n + 1
    BY <2>1, <1>2, <1>4, <1>8, <1>10 DEF n, steps, out
  <2>2. CASE i \in 1..n
    <3>1. i - 1 \in 0..n
      BY <2>2, <1>4
    <3> QED
      BY <2>2, <3>1, <1>3, <1>8, <1>10
  <2> QED
    BY <2>1, <2>2, <1>4
<1>14. \A i \in 1..(n + 1) : Final(steps, y.outcome, i) => i = n + 1
  BY <1>4, <1>11
<1>15. /\ next \in Nat
       /\ IF next <= Len(steps)
          THEN next = n + 2 /\ \A i \in 1..(n + 1) : ~Final(steps, y.outcome, i)
          ELSE n + 1 = Len(steps) \/ Final(steps, y.outcome, n + 1)
  <2>1. CASE Final(steps, y.outcome, n + 1)
    <3>1. next = Len(steps) + 1
      BY <2>1, <1>12
    <3> QED
      BY <2>1, <3>1, <1>4
  <2>2. CASE ~Final(steps, y.outcome, n + 1)
    <3>1. next = n + 2
      BY <2>2, <1>2, <1>4, <1>12 DEF n, out
    <3>2. \A i \in 1..(n + 1) : ~Final(steps, y.outcome, i)
      BY <2>2, <1>4, <1>11
    <3> QED
      BY <3>1, <3>2, <1>4
  <2> QED
    BY <2>1, <2>2
<1>16. y.def.steps = steps
  BY <1>1 DEF steps, Steps
<1> HIDE DEF next
<1>17. RunInv(y)
  BY <1>1, <1>2, <1>4, <1>7, <1>8, <1>9, <1>13, <1>14, <1>15, <1>16, SMTT(40) DEF RunInv
<1> QED
  BY <1>17 DEF y

--------------------------------------------------------------------------------
(* The invariant *)

TypeInv ==
    /\ acl \in Acls
    /\ access \in [Requests -> {"idle", "in", "listing", "served"}]
    /\ since \in [Requests -> SUBSET Acls]
    /\ content \in [Requests -> SUBSET Entries]
    /\ lists \in [Requests -> SUBSET Acls]
    /\ call \in [Requests -> {"idle", "macro", "note"}]
    /\ run = [r \in Requests |-> run[r]]

Exposed(as, file) == \E a \in as : Allows(a, file)

\* A run at a read_file step with a path.
Reading(x) ==
    /\ x # NoRun /\ x.next <= Len(Steps(x))
    /\ Steps(x)[x.next].internal = "read_file"
    /\ Interpolate(Steps(x)[x.next].arg, x.params, x.result) \in Paths

\* A call is inside the log manager only at such a step, and what it has seen there, like
\* what is in its answer, is what the lists of its own time allow.
StepsRead(r) ==
    /\ access[r] # "idle" => Reading(run[r])
    /\ access[r] = "idle" => since[r] = {} /\ content[r] = {}
    /\ run[r] # NoRun =>
          /\ call[r] = "macro"
          /\ acl \in lists[r] /\ since[r] \subseteq lists[r]
          /\ \A e \in content[r] : Exposed(lists[r], e.path)
          /\ \A file \in run[r].files : Exposed(lists[r], file)
          /\ RunInv(run[r])

IInv == TypeInv /\ \A r \in Requests : StepsRead(r)

LEMMA Initially == Constrained /\ Init => IInv
<1> SUFFICES ASSUME Init PROVE IInv
  OBVIOUS
<1>1. TypeInv
  BY DEF Init, AccessInit, TypeInv
<1>2. \A r \in Requests : StepsRead(r)
  BY DEF Init, AccessInit, StepsRead
<1> QED
  BY <1>1, <1>2 DEF IInv

--------------------------------------------------------------------------------
(* The steps of a macro call *)

LEMMA FailureTyped == Failure \in Outcomes
BY DEF Failure, Outcomes, Text

\* The step at which a run is, seen from the state and from the record.
LEMMA StepOf ==
  ASSUME NEW r \in Requests
  PROVE  /\ Running(r) <=> run[r] # NoRun /\ run[r].next <= Len(Steps(run[r]))
         /\ Current(r) = Steps(run[r])[run[r].next]
         /\ Given(r) = Interpolate(Steps(run[r])[run[r].next].arg, run[r].params, run[r].result)
BY DEF Running, Current, Given, Steps

LEMMA Recorded ==
  ASSUME Constrained, IInv, NEW r \in Requests, Running(r), NEW o \in Outcomes, Record(r, o)
  PROVE  /\ run' = [q \in Requests |-> run'[q]]
         /\ \A q \in Requests \ {r} : run'[q] = run[q]
         /\ RunInv(run'[r])
         /\ run'[r].files = run[r].files \cup {e.path : e \in content[r]}
<1> DEFINE x == run[r]
           files == x.files \cup {e.path : e \in content[r]}
           y == [x EXCEPT !.next = After(r, o),
                          !.result = With(@, Current(r).id, o),
                          !.given = Append(@, Given(r)),
                          !.outcome = Append(@, o),
                          !.files = @ \cup {e.path : e \in content[r]}]
<1>1. run' = [run EXCEPT ![r] = y]
  BY DEF Record
<1>2. RunInv(x) /\ x # NoRun /\ x.next <= Len(Steps(x))
  BY StepOf DEF IInv, StepsRead
<1>3. y = Later(x, Given(r), o, files)
  BY StepOf DEF Later, After, Steps
<1> HIDE DEF x, y, files
<1>4. RunInv(y)
  BY <1>2, <1>3, StepOf, RunGoesOn DEF x
<1>5. y.files = files
  BY <1>2, <1>3 DEF Later, RunInv, Shaped
<1>6. run = [q \in Requests |-> run[q]]
  BY DEF IInv, TypeInv
<1> QED
  BY <1>1, <1>4, <1>5, <1>6 DEF x, files

\* What recording a step leaves to show, when the log manager is not used by it.
LEMMA QuietStep ==
  ASSUME Constrained, IInv, NEW r \in Requests, Running(r), ~Reading(run[r]),
         NEW o \in Outcomes, Record(r, o), UNCHANGED <<accessVars, call, lists>>
  PROVE  IInv'
<1>1. access[r] = "idle" /\ content[r] = {}
  BY DEF IInv, StepsRead
<1>2. TypeInv'
  BY Recorded DEF IInv, TypeInv, accessVars
<1>3. ASSUME NEW q \in Requests PROVE StepsRead(q)'
  <2>1. CASE q = r
    <3>1. run[r] # NoRun
      BY DEF Running
    <3> QED
      BY <1>1, <2>1, <3>1, Recorded DEF IInv, StepsRead, accessVars
  <2>2. CASE q # r
    BY <2>2, Recorded DEF IInv, StepsRead, accessVars
  <2> QED
    BY <2>1, <2>2
<1> QED
  BY <1>2, <1>3 DEF IInv

LEMMA MacroSteps ==
  ASSUME Constrained, IInv, NEW r \in Requests, MacroStep(r), UNCHANGED <<call, lists>>
  PROVE  IInv'
<1> USE DEF AtStep
<1>1. CASE BeginRead(r)
  <2>1. Reading(run[r]) /\ run' = run
    BY <1>1, StepOf DEF BeginRead, Reading
  <2>2. access[r] = "idle" /\ since' = [since EXCEPT ![r] = {acl}]
        /\ access' = [access EXCEPT ![r] = "in"] /\ acl' = acl /\ content' = content
    BY <1>1 DEF BeginRead, Begin, Enters
  <2>3. TypeInv'
    BY <2>1, <2>2 DEF IInv, TypeInv
  <2>4. ASSUME NEW q \in Requests PROVE StepsRead(q)'
    <3>1. CASE q = r
      BY <2>1, <2>2, <3>1 DEF IInv, TypeInv, StepsRead, Reading
    <3>2. CASE q # r
      BY <2>1, <2>2, <3>2 DEF IInv, TypeInv, StepsRead
    <3> QED
      BY <3>1, <3>2
  <2> QED
    BY <2>3, <2>4 DEF IInv
<1>2. CASE \E file \in Paths : ServeRead(r, file)
  <2> DEFINE entry(file) == [path |-> file, readable |-> TRUE]
  <2>1. PICK file \in Paths : ServeRead(r, file)
    BY <1>2
  <2>2. /\ run' = run /\ access[r] = "in" /\ access' = [access EXCEPT ![r] = "served"]
        /\ content' = [content EXCEPT ![r] = {entry(file)}] /\ acl' = acl /\ since' = since
        /\ {entry(file)} \subseteq Permitted(r)
    BY <2>1 DEF ServeRead, Serve, Gets
  <2>3. Exposed(since[r], file) /\ entry(file) \in Entries
    BY <2>2 DEF Permitted, Exposed
  <2>4. TypeInv'
    BY <2>2, <2>3 DEF IInv, TypeInv
  <2>5. ASSUME NEW q \in Requests PROVE StepsRead(q)'
    <3>1. CASE q = r
      <4>1. content'[r] = {entry(file)} /\ access'[r] = "served"
        BY <2>2 DEF IInv, TypeInv
      <4>2. Reading(run[r]) /\ run[r] # NoRun
        BY <2>2 DEF IInv, StepsRead, Reading
      <4>3. Exposed(lists[r], file)
        BY <2>3, <4>2 DEF IInv, StepsRead, Exposed
      <4> QED
        BY <2>2, <3>1, <4>1, <4>2, <4>3 DEF IInv, StepsRead
    <3>2. CASE q # r
      BY <2>2, <3>2 DEF IInv, TypeInv, StepsRead
    <3> QED
      BY <3>1, <3>2
  <2> QED
    BY <2>4, <2>5 DEF IInv
<1>3. CASE EndRead(r)
  <2> DEFINE o == IF access[r] = "served"
                  THEN [error |-> FALSE, whole |-> Other, path |-> Given(r)] ELSE Failure
  <2>1. Running(r) /\ Record(r, o) /\ access[r] # "idle"
    BY <1>3 DEF EndRead, Leave
  <2>2. access' = [access EXCEPT ![r] = "idle"] /\ since' = [since EXCEPT ![r] = {}]
        /\ content' = [content EXCEPT ![r] = {}] /\ acl' = acl
    BY <1>3 DEF EndRead, Leave
  <2>3. Given(r) \in Paths
    BY <2>1, StepOf DEF IInv, StepsRead, Reading
  <2>4. o \in Outcomes
    BY <2>3, FailureTyped DEF Outcomes, Text
  <2> HIDE DEF o
  <2>5. TypeInv'
    BY <2>1, <2>2, <2>4, Recorded DEF IInv, TypeInv
  <2>6. ASSUME NEW q \in Requests PROVE StepsRead(q)'
    <3>1. CASE q = r
      <4>1. access'[r] = "idle" /\ since'[r] = {} /\ content'[r] = {}
        BY <2>2 DEF IInv, TypeInv
      <4>2. run[r] # NoRun
        BY <2>1 DEF Running
      <4>3. \A f \in run'[r].files : Exposed(lists[r], f)
        BY <2>1, <2>4, <4>2, Recorded DEF IInv, StepsRead
      <4> QED
        BY <2>1, <2>2, <2>4, <3>1, <4>1, <4>2, <4>3, Recorded DEF IInv, StepsRead
    <3>2. CASE q # r
      BY <2>1, <2>2, <2>4, <3>2, Recorded DEF IInv, TypeInv, StepsRead
    <3> QED
      BY <3>1, <3>2
  <2> QED
    BY <2>5, <2>6 DEF IInv
<1>4. CASE NoRead(r)
  <2>1. ~Reading(run[r])
    BY <1>4, StepOf DEF NoRead, Reading
  <2> QED
    BY <1>4, <2>1, FailureTyped, QuietStep DEF NoRead
<1>5. CASE CallExtension(r)
  <2>1. ~Reading(run[r])
    BY <1>5, StepOf DEF CallExtension, Reading
  <2>2. PICK o \in Answers \cup {Failure} : Record(r, o)
    BY <1>5 DEF CallExtension
  <2>3. o \in Outcomes
    BY FailureTyped DEF Constrained, MacroAssumptions
  <2> QED
    BY <1>5, <2>1, <2>2, <2>3, QuietStep DEF CallExtension
<1>6. CASE Journalctl(r)
  <2>1. ~Reading(run[r])
    BY <1>6, StepOf DEF Journalctl, Reading
  <2>2. PICK error \in BOOLEAN : Record(r, [error |-> error, whole |-> Other, path |-> Empty])
    BY <1>6 DEF Journalctl
  <2>3. [error |-> error, whole |-> Other, path |-> Empty] \in Outcomes
    BY DEF Outcomes, Text
  <2> QED
    BY <1>6, <2>1, <2>2, <2>3, QuietStep DEF Journalctl
<1>7. CASE UnknownStep(r)
  <2>1. ~Reading(run[r])
    BY <1>7, StepOf DEF UnknownStep, Reading
  <2> QED
    BY <1>7, <2>1, FailureTyped, QuietStep DEF UnknownStep
<1> QED
  BY <1>1, <1>2, <1>3, <1>4, <1>5, <1>6, <1>7 DEF MacroStep

--------------------------------------------------------------------------------
(* The invariant is inductive *)

\* A step that leaves alone what the invariant is about.
Apart == UNCHANGED <<accessVars, run, call, lists>>

LEMMA ApartKeeps == IInv /\ Apart => IInv'
BY DEF IInv, TypeInv, StepsRead, Apart, accessVars

LEMMA Inductive == Constrained /\ IInv /\ [Next]_vars => IInv'
<1> SUFFICES ASSUME Constrained, IInv, [Next]_vars PROVE IInv'
  OBVIOUS
<1>1. ASSUME NEW r \in Requests, NEW name, NEW arguments \in Arguments,
             CallMacro(r, name, arguments)
      PROVE  IInv'
  <2> DEFINE x(def) == [def |-> def, params |-> [p \in def.params |-> Lookup(arguments, p)],
                        next |-> 1, result |-> <<>>, given |-> <<>>, outcome |-> <<>>,
                        files |-> {}]
  <2>1. /\ call[r] = "idle" /\ call' = [call EXCEPT ![r] = "macro"]
        /\ lists' = [lists EXCEPT ![r] = {acl}] /\ run[r] = NoRun
        /\ acl' = acl /\ access' = access /\ since' = since /\ content' = content
    BY <1>1 DEF CallMacro, Enter, StartRun, accessVars
  <2>2. PICK def \in Macros : StartRun(r, def, arguments)
    BY <1>1 DEF CallMacro
  <2>3. run' = [run EXCEPT ![r] = x(def)]
    BY <2>2 DEF StartRun, NewResult
  <2>4. RunInv(x(def)) /\ x(def).files = {}
    BY RunBegins
  <2> HIDE DEF x
  <2>5. TypeInv'
    BY <2>1, <2>3 DEF IInv, TypeInv
  <2>6. ASSUME NEW q \in Requests PROVE StepsRead(q)'
    <3>1. CASE q = r
      <4>1. access[r] = "idle"
        BY <2>1 DEF IInv, StepsRead, Reading
      <4>2. run'[r] = x(def) /\ call'[r] = "macro" /\ lists'[r] = {acl}
        BY <2>1, <2>3 DEF IInv, TypeInv
      <4> QED
        BY <2>1, <2>4, <3>1, <4>1, <4>2 DEF IInv, StepsRead
    <3>2. CASE q # r
      BY <2>1, <2>3, <3>2 DEF IInv, TypeInv, StepsRead
    <3> QED
      BY <3>1, <3>2
  <2> QED
    BY <2>5, <2>6 DEF IInv
<1>2. ASSUME NEW r \in Requests, NEW user, NEW bot, CallNotifySend(r, user, bot)
      PROVE  IInv'
  <2>1. /\ call[r] = "idle" /\ call' = [call EXCEPT ![r] = "note"]
        /\ lists' = [lists EXCEPT ![r] = {acl}] /\ run' = run
        /\ acl' = acl /\ access' = access /\ since' = since /\ content' = content
    BY <1>2 DEF CallNotifySend, Enter, accessVars
  <2>2. TypeInv'
    BY <2>1 DEF IInv, TypeInv
  <2>3. ASSUME NEW q \in Requests PROVE StepsRead(q)'
    BY <2>1 DEF IInv, TypeInv, StepsRead
  <2> QED
    BY <2>2, <2>3 DEF IInv
<1>3. ASSUME NEW r \in Requests, MacroCallStep(r)
      PROVE  IInv'
  <2>1. CASE MacroStep(r) /\ Stay
    BY <2>1, MacroSteps DEF Stay
  <2>2. CASE EndRun(r) /\ Exit(r) /\ UNCHANGED accessVars
    <3>1. /\ run' = [run EXCEPT ![r] = NoRun] /\ run[r] # NoRun /\ ~Running(r)
          /\ call' = [call EXCEPT ![r] = "idle"] /\ lists' = [lists EXCEPT ![r] = {}]
          /\ acl' = acl /\ access' = access /\ since' = since /\ content' = content
      BY <2>2 DEF EndRun, Ended, Exit, accessVars
    <3>2. access[r] = "idle"
      BY <3>1, StepOf DEF IInv, StepsRead, Reading
    <3>3. TypeInv'
      BY <3>1 DEF IInv, TypeInv
    <3>4. ASSUME NEW q \in Requests PROVE StepsRead(q)'
      <4>1. CASE q = r
        BY <3>1, <3>2, <4>1 DEF IInv, TypeInv, StepsRead
      <4>2. CASE q # r
        BY <3>1, <4>2 DEF IInv, TypeInv, StepsRead
      <4> QED
        BY <4>1, <4>2
    <3> QED
      BY <3>3, <3>4 DEF IInv
  <2> QED
    BY <1>3, <2>1, <2>2 DEF MacroCallStep
<1>4. ASSUME NEW r \in Requests, NoteStep(r)
      PROVE  IInv'
  <2>1. CASE Stay
    BY <1>4, <2>1, ApartKeeps DEF NoteStep, Stay, Apart
  <2>2. CASE Exit(r)
    <3>1. /\ call[r] = "note" /\ run' = run
          /\ call' = [call EXCEPT ![r] = "idle"] /\ lists' = [lists EXCEPT ![r] = {}]
          /\ acl' = acl /\ access' = access /\ since' = since /\ content' = content
      BY <1>4, <2>2 DEF NoteStep, Exit, accessVars
    <3>2. TypeInv'
      BY <3>1 DEF IInv, TypeInv
    <3>3. ASSUME NEW q \in Requests PROVE StepsRead(q)'
      BY <3>1 DEF IInv, TypeInv, StepsRead
    <3> QED
      BY <3>2, <3>3 DEF IInv
  <2> QED
    BY <1>4, <2>1, <2>2 DEF NoteStep
<1>5. ASSUME NEW a \in Acls, ReloadLists(a)
      PROVE  IInv'
  <2>1. /\ acl' = a /\ access' = access /\ content' = content /\ run' = run /\ call' = call
        /\ since' = [r \in Requests |->
              IF access[r] = "idle" THEN {} ELSE since[r] \cup {a}]
        /\ lists' = [r \in Requests |->
              IF call[r] = "idle" THEN {} ELSE lists[r] \cup {a}]
    BY <1>5 DEF ReloadLists, Update
  <2>2. TypeInv'
    BY <2>1 DEF IInv, TypeInv
  <2>3. ASSUME NEW q \in Requests PROVE StepsRead(q)'
    <3>1. access[q] = "idle" => since'[q] = {}
      BY <2>1
    <3>2. ASSUME run[q] # NoRun
          PROVE  /\ lists'[q] = lists[q] \cup {a} /\ since'[q] \subseteq lists'[q]
                 /\ \A file : Exposed(lists[q], file) => Exposed(lists'[q], file)
      <4>1. call[q] = "macro"
        BY <3>2 DEF IInv, StepsRead
      <4> QED
        BY <2>1, <3>2, <4>1 DEF IInv, StepsRead, Exposed
    <3> QED
      BY <2>1, <3>1, <3>2 DEF IInv, StepsRead
  <2> QED
    BY <2>2, <2>3 DEF IInv
<1>6. CASE Register \/ ReloadConfig \/ ReloadNotify \/ (\E t \in Telegrams \cup {Broken} : Edit(t))
  BY <1>6, ApartKeeps DEF Register, ReloadConfig, ReloadNotify, Edit, Apart
<1>7. CASE UNCHANGED vars
  BY <1>7, ApartKeeps DEF vars, Apart
<1> QED
  BY <1>1, <1>2, <1>3, <1>4, <1>5, <1>6, <1>7 DEF Next, Call, CallStep, Reload

LEMMA Invariant == Spec => []IInv
<1>1. Constrained
  BY MacroAssumptions, NotifyAssumptions, ToolsAssumptions DEF Constrained
<1> QED
  BY <1>1, Initially, Inductive, PTL DEF Spec

--------------------------------------------------------------------------------
(* The registry: what the claims are, by position *)

Handlers ==
    {Own(name) : name \in Names} \cup [kind : {"macro"}, def : Macros]
        \cup [kind : {"extension"}, tool : Nat]

ClaimSet == [name : Names, handler : Handlers, yields : BOOLEAN]

MacroClaim(s, i) ==
    Claim(s.macros[i].name, [kind |-> "macro", def |-> s.macros[i].def], TRUE)

ExtensionClaim(s, i) ==
    Claim(s.extensions[i], [kind |-> "extension", tool |-> i], TRUE)

\* The optional tools of the server's own that come last.
Optional(condition, c) == IF condition THEN {c} ELSE {}

LastClaims(s, svc) ==
    Optional(s.rag, Claim(RagQuery, Own(RagQuery), FALSE))
        \cup Optional(svc # NoService, Claim(NotifySend, Own(NotifySend), FALSE))
        \cup Optional(s.db, Claim(DbQuery, Own(DbQuery), TRUE))

Elements(cs, n) == {cs[i] : i \in n..Len(cs)}

\* First the built-in tools, then the macros, the extensions' tools, and the last ones.
Arranged(cs, s, svc) ==
    LET m == Len(s.macros)
        e == Len(s.extensions)
    IN  /\ m \in Nat /\ e \in Nat /\ Len(cs) \in Nat /\ Len(cs) > m + e
        /\ cs[1] = Claim(Builtin, Own(Builtin), FALSE)
        /\ \A i \in 1..m : cs[i + 1] = MacroClaim(s, i)
        /\ \A i \in 1..e : cs[i + m + 1] = ExtensionClaim(s, i)
        /\ Elements(cs, m + e + 2) = LastClaims(s, svc)

LEMMA OptionalClaim ==
  ASSUME NEW condition \in BOOLEAN, NEW c \in ClaimSet
  PROVE  /\ If(condition, <<c>>) \in Seq(ClaimSet)
         /\ Elements(If(condition, <<c>>), 1) = Optional(condition, c)
<1>1. CASE condition
  BY <1>1 DEF If, Elements, Optional
<1>2. CASE ~condition
  BY <1>2 DEF If, Elements, Optional
<1> QED
  BY <1>1, <1>2

LEMMA Concatenated ==
  ASSUME NEW s \in Seq(ClaimSet), NEW t \in Seq(ClaimSet)
  PROVE  /\ s \o t \in Seq(ClaimSet) /\ Len(s \o t) = Len(s) + Len(t)
         /\ Len(s) \in Nat /\ Len(t) \in Nat
         /\ \A i \in 1..Len(s) : (s \o t)[i] = s[i]
         /\ \A i \in 1..Len(t) : (s \o t)[i + Len(s)] = t[i]
<1>1. /\ s \o t \in Seq(ClaimSet) /\ Len(s \o t) = Len(s) + Len(t)
      /\ \A i \in 1..Len(s) + Len(t) :
            (s \o t)[i] = IF i <= Len(s) THEN s[i] ELSE t[i - Len(s)]
  BY ConcatProperties
<1>2. Len(s) \in Nat /\ Len(t) \in Nat
  OBVIOUS
<1>3. \A i \in 1..Len(s) : (s \o t)[i] = s[i]
  BY <1>1, <1>2
<1>4. \A i \in 1..Len(t) : (s \o t)[i + Len(s)] = t[i]
  <2> TAKE i \in 1..Len(t)
  <2>1. i + Len(s) \in 1..Len(s) + Len(t) /\ ~(i + Len(s) <= Len(s)) /\ (i + Len(s)) - Len(s) = i
    BY <1>2
  <2> QED
    BY <1>1, <2>1
<1> QED
  BY <1>1, <1>2, <1>3, <1>4

\* What is appended joins the elements from position n on.
LEMMA TailGrows ==
  ASSUME NEW s \in Seq(ClaimSet), NEW t \in Seq(ClaimSet), NEW n \in 1..(Len(s) + 1)
  PROVE  Elements(s \o t, n) = Elements(s, n) \cup Elements(t, 1)
<1> DEFINE c == s \o t
<1>1. /\ Len(c) = Len(s) + Len(t) /\ Len(s) \in Nat /\ Len(t) \in Nat
      /\ \A i \in 1..Len(s) : c[i] = s[i]
      /\ \A i \in 1..Len(t) : c[i + Len(s)] = t[i]
  BY Concatenated
<1> HIDE DEF c
<1>2. ASSUME NEW i \in n..Len(c)
      PROVE  \/ i \in n..Len(s)
             \/ \E j \in 1..Len(t) : i = j + Len(s)
  <2>1. n \in Nat /\ i \in Nat
    BY <1>1
  <2>2. CASE i <= Len(s)
    BY <1>1, <2>1, <2>2
  <2>3. CASE ~(i <= Len(s))
    <3>1. i - Len(s) \in 1..Len(t) /\ i = (i - Len(s)) + Len(s)
      BY <1>1, <2>1, <2>3
    <3> QED
      BY <3>1
  <2> QED
    BY <2>2, <2>3
<1>3. n..Len(s) \subseteq n..Len(c) /\ n..Len(s) \subseteq 1..Len(s)
  BY <1>1
<1>4. \A j \in 1..Len(t) : j + Len(s) \in n..Len(c)
  BY <1>1
<1>5. Elements(c, n) \subseteq Elements(s, n) \cup Elements(t, 1)
  <2> SUFFICES ASSUME NEW i \in n..Len(c)
               PROVE  c[i] \in Elements(s, n) \cup Elements(t, 1)
    BY DEF Elements
  <2>1. CASE i \in n..Len(s)
    BY <1>1, <1>3, <2>1 DEF Elements
  <2>2. ASSUME NEW j \in 1..Len(t), i = j + Len(s)
        PROVE  c[i] \in Elements(t, 1)
    BY <1>1, <2>2 DEF Elements
  <2> QED
    BY <1>2, <2>1, <2>2
<1>6. Elements(s, n) \subseteq Elements(c, n)
  BY <1>1, <1>3 DEF Elements
<1>7. Elements(t, 1) \subseteq Elements(c, n)
  BY <1>1, <1>4 DEF Elements
<1> QED
  BY <1>5, <1>6, <1>7 DEF c

LEMMA ClaimsArranged ==
  ASSUME Constrained, setup \in Setups
  PROVE  Arranged(Claims(setup), setup, service)
<1> DEFINE s == setup
           m == Len(s.macros)
           e == Len(s.extensions)
           builtin == Claim(Builtin, Own(Builtin), FALSE)
           rag == Claim(RagQuery, Own(RagQuery), FALSE)
           send == Claim(NotifySend, Own(NotifySend), FALSE)
           db == Claim(DbQuery, Own(DbQuery), TRUE)
           M == MacroClaims(s)
           E == ExtensionClaims(s)
           R == If(s.rag, <<rag>>)
           N == If(service # NoService, <<send>>)
           D == If(s.db, <<db>>)
           c1 == <<builtin>> \o M
           c2 == c1 \o E
           c3 == c2 \o R
           c4 == c3 \o N
           c5 == c4 \o D
<1>1. /\ s.macros \in Seq([name : Names, def : Macros]) /\ s.extensions \in Seq(Names)
      /\ s.rag \in BOOLEAN /\ s.db \in BOOLEAN
  BY DEF Constrained, ToolsAssumptions, IsSetup
<1>2. m \in Nat /\ e \in Nat /\ DOMAIN s.macros = 1..m /\ DOMAIN s.extensions = 1..e
  BY <1>1, LenProperties
<1>3. builtin \in ClaimSet /\ rag \in ClaimSet /\ send \in ClaimSet /\ db \in ClaimSet
  BY DEF Constrained, ToolsAssumptions, ClaimSet, Handlers, Claim
<1>4. M \in Seq(ClaimSet) /\ Len(M) = m /\ \A i \in 1..m : M[i] = MacroClaim(s, i)
  <2>1. M = [i \in 1..m |-> MacroClaim(s, i)]
    BY <1>2 DEF MacroClaims, MacroClaim
  <2>2. \A i \in 1..m : s.macros[i] \in [name : Names, def : Macros]
    BY <1>1, <1>2, ElementOfSeq
  <2>3. \A i \in 1..m : MacroClaim(s, i) \in ClaimSet
    BY <2>2 DEF MacroClaim, Claim, ClaimSet, Handlers
  <2> QED
    BY <1>2, <2>1, <2>3, IsASeq, LenProperties
<1>5. E \in Seq(ClaimSet) /\ Len(E) = e /\ \A i \in 1..e : E[i] = ExtensionClaim(s, i)
  <2>1. E = [i \in 1..e |-> ExtensionClaim(s, i)]
    BY <1>2 DEF ExtensionClaims, ExtensionClaim
  <2>2. \A i \in 1..e : s.extensions[i] \in Names /\ i \in Nat
    BY <1>1, <1>2, ElementOfSeq
  <2>3. \A i \in 1..e : ExtensionClaim(s, i) \in ClaimSet
    BY <2>2 DEF ExtensionClaim, Claim, ClaimSet, Handlers
  <2> QED
    BY <1>2, <2>1, <2>3, IsASeq, LenProperties
<1>6. /\ R \in Seq(ClaimSet) /\ Elements(R, 1) = Optional(s.rag, rag)
      /\ N \in Seq(ClaimSet) /\ Elements(N, 1) = Optional(service # NoService, send)
      /\ D \in Seq(ClaimSet) /\ Elements(D, 1) = Optional(s.db, db)
  <2> HIDE DEF rag, send, db
  <2>1. (service # NoService) \in BOOLEAN
    OBVIOUS
  <2>2. R \in Seq(ClaimSet) /\ Elements(R, 1) = Optional(s.rag, rag)
    BY <1>1, <1>3, OptionalClaim
  <2>3. N \in Seq(ClaimSet) /\ Elements(N, 1) = Optional(service # NoService, send)
    BY <1>3, <2>1, OptionalClaim
  <2>4. D \in Seq(ClaimSet) /\ Elements(D, 1) = Optional(s.db, db)
    BY <1>1, <1>3, OptionalClaim
  <2> QED
    BY <2>2, <2>3, <2>4
<1>7. <<builtin>> \in Seq(ClaimSet) /\ Len(<<builtin>>) = 1 /\ <<builtin>>[1] = builtin
  <2> HIDE DEF builtin
  <2> QED
    BY <1>3
<1>8. Claims(s) = c5
  BY DEF Claims, NotifyClaims, DbClaims
<1>9. LastClaims(s, service) = Elements(R, 1) \cup Elements(N, 1) \cup Elements(D, 1)
  BY <1>6 DEF LastClaims
<1> HIDE DEF builtin, M, E, R, N, D, m, e
<1>10. /\ c1 \in Seq(ClaimSet) /\ Len(c1) = m + 1 /\ c1[1] = builtin
       /\ \A i \in 1..m : c1[i + 1] = MacroClaim(s, i)
  <2>1. /\ c1 \in Seq(ClaimSet) /\ Len(c1) = 1 + m
        /\ \A i \in 1..1 : c1[i] = <<builtin>>[i]
        /\ \A i \in 1..m : c1[i + 1] = M[i]
    BY <1>4, <1>7, Concatenated
  <2> QED
    BY <1>2, <1>4, <1>7, <2>1
<1> HIDE DEF c1
<1>11. /\ c2 \in Seq(ClaimSet) /\ Len(c2) = m + e + 1
       /\ \A i \in 1..(m + 1) : c2[i] = c1[i]
       /\ \A i \in 1..e : c2[i + (m + 1)] = ExtensionClaim(s, i)
  <2>0. c1 \in Seq(ClaimSet) /\ E \in Seq(ClaimSet) /\ Len(c1) = m + 1 /\ Len(E) = e
    BY <1>5, <1>10
  <2>1. /\ c2 \in Seq(ClaimSet) /\ Len(c2) = Len(c1) + Len(E)
        /\ \A i \in 1..Len(c1) : c2[i] = c1[i]
        /\ \A i \in 1..Len(E) : c2[i + Len(c1)] = E[i]
    BY <2>0, Concatenated
  <2> QED
    BY <1>2, <1>5, <2>0, <2>1
<1> HIDE DEF c2
<1> DEFINE k == m + e + 2
           From2(c) == /\ c \in Seq(ClaimSet) /\ Len(c) \in Nat /\ Len(c) >= k - 1
                       /\ \A i \in 1..(k - 1) : c[i] = c2[i]
<1>12. From2(c2) /\ Elements(c2, k) = {}
  <2>1. k..Len(c2) = {}
    BY <1>2, <1>11
  <2> QED
    BY <1>2, <1>11, <2>1 DEF Elements
<1>13. ASSUME NEW c, From2(c), NEW t \in Seq(ClaimSet)
       PROVE  From2(c \o t) /\ Elements(c \o t, k) = Elements(c, k) \cup Elements(t, 1)
  <2>1. k \in 1..(Len(c) + 1) /\ 1..(k - 1) \subseteq 1..Len(c)
    BY <1>2, <1>13
  <2>2. /\ c \o t \in Seq(ClaimSet) /\ Len(c \o t) = Len(c) + Len(t)
        /\ Len(c) \in Nat /\ Len(t) \in Nat /\ \A i \in 1..Len(c) : (c \o t)[i] = c[i]
    BY <1>13, Concatenated
  <2>3. Elements(c \o t, k) = Elements(c, k) \cup Elements(t, 1)
    BY <1>13, <2>1, TailGrows
  <2>4. Len(c \o t) \in Nat /\ Len(c \o t) >= k - 1
    BY <1>2, <1>13, <2>2
  <2>5. \A i \in 1..(k - 1) : (c \o t)[i] = c2[i]
    BY <1>13, <2>1, <2>2
  <2> QED
    BY <2>2, <2>3, <2>4, <2>5
<1> HIDE DEF From2
<1>14. /\ From2(c5)
       /\ Elements(c5, k) = ((({} \cup Elements(R, 1)) \cup Elements(N, 1)) \cup Elements(D, 1))
  <2>1. From2(c3) /\ Elements(c3, k) = {} \cup Elements(R, 1)
    BY <1>6, <1>12, <1>13
  <2> HIDE DEF c3
  <2>2. From2(c4) /\ Elements(c4, k) = Elements(c3, k) \cup Elements(N, 1)
    BY <1>6, <2>1, <1>13
  <2> HIDE DEF c4
  <2>3. From2(c5) /\ Elements(c5, k) = Elements(c4, k) \cup Elements(D, 1)
    BY <1>6, <2>2, <1>13
  <2> QED
    BY <2>1, <2>2, <2>3
<1> HIDE DEF c5
<1> USE DEF From2
<1>15. c5[1] = builtin /\ \A i \in 1..m : c5[i + 1] = MacroClaim(s, i)
  <2>1. 1 \in 1..(m + 1) /\ \A i \in 1..m : i + 1 \in 1..(m + 1)
    BY <1>2
  <2>2. 1..(m + 1) \subseteq 1..(k - 1)
    BY <1>2
  <2> QED
    BY <1>10, <1>11, <1>14, <2>1, <2>2, SMTT(40)
<1>16. \A i \in 1..e : c5[i + m + 1] = ExtensionClaim(s, i)
  <2>1. \A i \in 1..e : i + (m + 1) \in 1..(k - 1) /\ i + (m + 1) = i + m + 1
    BY <1>2
  <2> QED
    BY <1>11, <1>14, <2>1
<1>17. Len(c5) \in Nat /\ Len(c5) > m + e
  BY <1>2, <1>14
<1>18. Elements(c5, m + e + 2) = LastClaims(s, service)
  BY <1>9, <1>14
<1> QED
  BY <1>2, <1>8, <1>15, <1>16, <1>17, <1>18 DEF Arranged, builtin, m, e

--------------------------------------------------------------------------------
(* The registry while it is filled *)

\* Claim w has its name among the first k: if it yields, it is the first of the name,
\* and all of the name yield.
Wins(cs, k, w) ==
    /\ w \in 1..k
    /\ cs[w].yields => \A i \in 1..k : cs[i].name = cs[w].name => cs[i].yields /\ w <= i

Filled(reg, disabled, k) ==
    /\ reg.tracked = {reg.claims[i].name : i \in 1..k} \ disabled
    /\ DOMAIN reg.tools = reg.tracked
    /\ \A name \in reg.tracked : \E w \in 1..k :
          /\ reg.claims[w].name = name /\ reg.tools[name] = reg.claims[w].handler
          /\ Wins(reg.claims, k, w)

RegInv ==
    /\ setup \in Setups
    /\ Arranged(registry.claims, setup, service)
    /\ registry = [claims |-> registry.claims, next |-> registry.next,
                   tools |-> registry.tools, tracked |-> registry.tracked]
    /\ registry.next \in 1..(Len(registry.claims) + 1)
    /\ Filled(registry, setup.disabled, registry.next - 1)

LEMMA RegistryEmpty == Constrained /\ Init => RegInv
<1> SUFFICES ASSUME Constrained, Init PROVE RegInv
  OBVIOUS
<1>1. setup \in Setups /\ registry = Unregistered(setup)
  BY DEF Init
<1>2. Arranged(registry.claims, setup, service)
  BY <1>1, ClaimsArranged DEF Unregistered
<1>3. /\ registry = [claims |-> registry.claims, next |-> 1, tools |-> <<>>, tracked |-> {}]
      /\ registry.next = 1 /\ registry.tools = <<>> /\ registry.tracked = {}
  BY <1>1 DEF Unregistered
<1>4. Len(registry.claims) \in Nat
  BY <1>2 DEF Arranged
<1>5. Filled(registry, setup.disabled, 0)
  BY <1>3 DEF Filled
<1> QED
  BY <1>1, <1>2, <1>3, <1>4, <1>5 DEF RegInv

\* One registration.
LEMMA Registers ==
  ASSUME NEW reg, NEW disabled, NEW k \in Nat, Filled(reg, disabled, k), NEW c, NEW reg1,
         c = reg.claims[k + 1], c.yields \in BOOLEAN, reg1.claims = reg.claims,
         IF c.name \in disabled \/ (c.yields /\ c.name \in reg.tracked)
         THEN reg1.tools = reg.tools /\ reg1.tracked = reg.tracked
         ELSE /\ reg1.tools = With(reg.tools, c.name, c.handler)
              /\ reg1.tracked = reg.tracked \cup {c.name}
  PROVE  Filled(reg1, disabled, k + 1)
<1> DEFINE cs == reg.claims
<1>1. 1..(k + 1) = (1..k) \cup {k + 1} /\ k + 1 \in Nat /\ ~(k + 1 \in 1..k)
  OBVIOUS
<1>2. /\ reg.tracked = {cs[i].name : i \in 1..k} \ disabled
      /\ DOMAIN reg.tools = reg.tracked
      /\ \A name \in reg.tracked : \E w \in 1..k :
            /\ cs[w].name = name /\ reg.tools[name] = cs[w].handler /\ Wins(cs, k, w)
  BY DEF Filled
<1>3. reg1.tracked = {cs[i].name : i \in 1..(k + 1)} \ disabled
  <2>1. {cs[i].name : i \in 1..(k + 1)} = {cs[i].name : i \in 1..k} \cup {c.name}
    BY <1>1
  <2> HIDE DEF cs
  <2> QED
    BY <1>2, <2>1
<1> HIDE DEF cs
<1>4. DOMAIN reg1.tools = reg1.tracked
  BY <1>2 DEF With
<1>5. ASSUME NEW w \in 1..k, Wins(cs, k, w),
             cs[w].name # c.name \/ (c.yields /\ cs[w].name = c.name)
      PROVE  Wins(cs, k + 1, w)
  BY <1>1, <1>5 DEF Wins, cs
<1>6. ASSUME NEW name \in reg1.tracked
      PROVE  \E w \in 1..(k + 1) :
                cs[w].name = name /\ reg1.tools[name] = cs[w].handler /\ Wins(cs, k + 1, w)
  <2>1. CASE c.name \in disabled \/ (c.yields /\ c.name \in reg.tracked)
    <3>1. name \in reg.tracked /\ name \notin disabled /\ reg1.tools = reg.tools
      BY <1>2, <2>1
    <3>2. PICK w \in 1..k :
             cs[w].name = name /\ reg.tools[name] = cs[w].handler /\ Wins(cs, k, w)
      BY <1>2, <3>1
    <3>3. Wins(cs, k + 1, w)
      BY <1>5, <2>1, <3>1, <3>2
    <3> QED
      BY <1>1, <3>1, <3>2, <3>3
  <2>2. CASE ~(c.name \in disabled \/ (c.yields /\ c.name \in reg.tracked))
    <3>1. /\ DOMAIN reg1.tools = reg.tracked \cup {c.name}
          /\ reg1.tools[c.name] = c.handler
          /\ \A n \in reg.tracked : n # c.name => reg1.tools[n] = reg.tools[n]
      BY <1>2, <2>2 DEF With
    <3>2. CASE name = c.name
      <4>1. c.yields => \A i \in 1..k : cs[i].name # c.name
        BY <1>2, <2>2
      <4>2. Wins(cs, k + 1, k + 1)
        BY <1>1, <4>1 DEF Wins, cs
      <4> QED
        BY <1>1, <3>1, <3>2, <4>2 DEF cs
    <3>3. CASE name # c.name
      <4>1. name \in reg.tracked /\ reg1.tools[name] = reg.tools[name]
        BY <2>2, <3>1, <3>3
      <4>2. PICK w \in 1..k :
               cs[w].name = name /\ reg.tools[name] = cs[w].handler /\ Wins(cs, k, w)
        BY <1>2, <4>1
      <4>3. Wins(cs, k + 1, w)
        BY <1>5, <3>3, <4>2
      <4> QED
        BY <1>1, <4>1, <4>2, <4>3
    <3> QED
      BY <3>2, <3>3
  <2> QED
    BY <2>1, <2>2
<1> QED
  BY <1>3, <1>4, <1>6 DEF Filled, cs

\* What the claims are, one by one.
LEMMA ClaimIs ==
  ASSUME NEW cs, NEW s, NEW svc, Arranged(cs, s, svc), NEW w \in 1..Len(cs)
  PROVE  LET m == Len(s.macros)
             e == Len(s.extensions)
         IN  \/ w = 1 /\ cs[w] = Claim(Builtin, Own(Builtin), FALSE)
             \/ w - 1 \in 1..m /\ cs[w] = MacroClaim(s, w - 1)
             \/ w - (m + 1) \in 1..e /\ cs[w] = ExtensionClaim(s, w - (m + 1))
             \/ w > m + e + 1 /\ cs[w] \in LastClaims(s, svc)
<1> DEFINE m == Len(s.macros)
           e == Len(s.extensions)
<1>1. /\ m \in Nat /\ e \in Nat /\ Len(cs) \in Nat
      /\ cs[1] = Claim(Builtin, Own(Builtin), FALSE)
      /\ \A i \in 1..m : cs[i + 1] = MacroClaim(s, i)
      /\ \A i \in 1..e : cs[i + m + 1] = ExtensionClaim(s, i)
      /\ Elements(cs, m + e + 2) = LastClaims(s, svc)
  BY DEF Arranged
<1> HIDE DEF m, e
<1>2. CASE w = 1
  BY <1>1, <1>2
<1>3. CASE w - 1 \in 1..m
  <2>1. (w - 1) + 1 = w
    OBVIOUS
  <2> QED
    BY <1>1, <1>3, <2>1 DEF m
<1>4. CASE w - (m + 1) \in 1..e
  <2>1. (w - (m + 1)) + m + 1 = w
    BY <1>1
  <2> QED
    BY <1>1, <1>4, <2>1 DEF m, e
<1>5. CASE w > m + e + 1
  <2>1. w \in (m + e + 2)..Len(cs)
    BY <1>1, <1>5
  <2>2. cs[w] \in Elements(cs, m + e + 2)
    BY <2>1 DEF Elements
  <2> QED
    BY <1>1, <1>5, <2>2 DEF m, e
<1>6. w = 1 \/ w - 1 \in 1..m \/ w - (m + 1) \in 1..e \/ w > m + e + 1
  BY <1>1
<1> QED
  BY <1>2, <1>3, <1>4, <1>5, <1>6 DEF m, e

Owns(s, svc) ==
    {Builtin} \cup {n \in {RagQuery} : s.rag} \cup {n \in {NotifySend} : svc # NoService}

\* A claim, and the position it has among those of its kind.
ClaimKind(cs, s, svc, w) ==
    LET m == Len(s.macros)
        e == Len(s.extensions)
        c == cs[w]
    IN  \/ /\ ~c.yields /\ c.name \in Owns(s, svc) /\ c.handler = Own(c.name)
        \/ /\ c.yields /\ w - 1 \in 1..m /\ c.name = s.macros[w - 1].name
           /\ c.handler = [kind |-> "macro", def |-> s.macros[w - 1].def]
        \/ /\ c.yields /\ w - (m + 1) \in 1..e /\ c.name = s.extensions[w - (m + 1)]
           /\ c.handler = [kind |-> "extension", tool |-> w - (m + 1)]
        \/ /\ c.yields /\ w > m + e + 1 /\ s.db /\ c.name = DbQuery
           /\ c.handler = Own(DbQuery)

LEMMA OwnsAre ==
  ASSUME NEW s, NEW svc, NEW name
  PROVE  name \in Owns(s, svc) <=>
            name = Builtin \/ (s.rag /\ name = RagQuery) \/ (svc # NoService /\ name = NotifySend)
<1> DEFINE R == {n \in {RagQuery} : s.rag}
           N == {n \in {NotifySend} : svc # NoService}
<1>1. name \in R <=> s.rag /\ name = RagQuery
  OBVIOUS
<1>2. name \in N <=> svc # NoService /\ name = NotifySend
  OBVIOUS
<1> QED
  BY <1>1, <1>2 DEF Owns

LEMMA KindOfClaim ==
  ASSUME NEW cs, NEW s, NEW svc, s.rag \in BOOLEAN, s.db \in BOOLEAN,
         Arranged(cs, s, svc), NEW w \in 1..Len(cs)
  PROVE  ClaimKind(cs, s, svc, w) /\ cs[w].yields \in BOOLEAN
<1> DEFINE m == Len(s.macros)
           e == Len(s.extensions)
<1>1. \/ w = 1 /\ cs[w] = Claim(Builtin, Own(Builtin), FALSE)
      \/ w - 1 \in 1..m /\ cs[w] = MacroClaim(s, w - 1)
      \/ w - (m + 1) \in 1..e /\ cs[w] = ExtensionClaim(s, w - (m + 1))
      \/ w > m + e + 1 /\ cs[w] \in LastClaims(s, svc)
  BY ClaimIs
<1> HIDE DEF m, e
<1>0. cs[w].yields \in BOOLEAN
  <2>1. CASE cs[w] = Claim(Builtin, Own(Builtin), FALSE)
    BY <2>1 DEF Claim
  <2>2. CASE cs[w] = MacroClaim(s, w - 1)
    BY <2>2 DEF MacroClaim, Claim
  <2>3. CASE cs[w] = ExtensionClaim(s, w - (m + 1))
    BY <2>3 DEF ExtensionClaim, Claim
  <2>4. CASE cs[w] \in LastClaims(s, svc)
    <3>1. \/ cs[w] = Claim(RagQuery, Own(RagQuery), FALSE)
          \/ cs[w] = Claim(NotifySend, Own(NotifySend), FALSE)
          \/ cs[w] = Claim(DbQuery, Own(DbQuery), TRUE)
      BY <2>4 DEF LastClaims, Optional
    <3>2. CASE cs[w] = Claim(RagQuery, Own(RagQuery), FALSE)
      BY <3>2 DEF Claim
    <3>3. CASE cs[w] = Claim(NotifySend, Own(NotifySend), FALSE)
      BY <3>3 DEF Claim
    <3>4. CASE cs[w] = Claim(DbQuery, Own(DbQuery), TRUE)
      BY <3>4 DEF Claim
    <3> QED
      BY <3>1, <3>2, <3>3, <3>4
  <2> QED
    BY <1>1, <2>1, <2>2, <2>3, <2>4
<1>2. CASE w = 1 /\ cs[w] = Claim(Builtin, Own(Builtin), FALSE)
  <2>1. ~cs[w].yields /\ cs[w].name = Builtin /\ cs[w].handler = Own(Builtin)
    BY <1>2 DEF Claim
  <2>2. cs[w].name \in Owns(s, svc)
    BY <2>1 DEF Owns
  <2> QED
    BY <1>0, <2>1, <2>2 DEF ClaimKind
<1>3. CASE w - 1 \in 1..m /\ cs[w] = MacroClaim(s, w - 1)
  <2>1. /\ cs[w].yields /\ cs[w].name = s.macros[w - 1].name
        /\ cs[w].handler = [kind |-> "macro", def |-> s.macros[w - 1].def]
    BY <1>3 DEF MacroClaim, Claim
  <2> QED
    BY <1>0, <1>3, <2>1 DEF ClaimKind, m
<1>4. CASE w - (m + 1) \in 1..e /\ cs[w] = ExtensionClaim(s, w - (m + 1))
  <2>1. /\ cs[w].yields /\ cs[w].name = s.extensions[w - (m + 1)]
        /\ cs[w].handler = [kind |-> "extension", tool |-> w - (m + 1)]
    BY <1>4 DEF ExtensionClaim, Claim
  <2> QED
    BY <1>0, <1>4, <2>1 DEF ClaimKind, m, e
<1>5. CASE w > m + e + 1 /\ cs[w] \in LastClaims(s, svc)
  <2>1. \/ s.rag /\ cs[w] = Claim(RagQuery, Own(RagQuery), FALSE)
        \/ svc # NoService /\ cs[w] = Claim(NotifySend, Own(NotifySend), FALSE)
        \/ s.db /\ cs[w] = Claim(DbQuery, Own(DbQuery), TRUE)
    BY <1>5 DEF LastClaims, Optional
  <2>2. CASE s.rag /\ cs[w] = Claim(RagQuery, Own(RagQuery), FALSE)
    <3>1. ~cs[w].yields /\ cs[w].name = RagQuery /\ cs[w].handler = Own(RagQuery)
      BY <2>2 DEF Claim
    <3>2. cs[w].name \in Owns(s, svc)
      BY <2>2, <3>1 DEF Owns
    <3> QED
      BY <1>0, <3>1, <3>2 DEF ClaimKind
  <2>3. CASE svc # NoService /\ cs[w] = Claim(NotifySend, Own(NotifySend), FALSE)
    <3>1. ~cs[w].yields /\ cs[w].name = NotifySend /\ cs[w].handler = Own(NotifySend)
      BY <2>3 DEF Claim
    <3>2. cs[w].name \in Owns(s, svc)
      BY <2>3, <3>1 DEF Owns
    <3> QED
      BY <1>0, <3>1, <3>2 DEF ClaimKind
  <2>4. CASE s.db /\ cs[w] = Claim(DbQuery, Own(DbQuery), TRUE)
    <3>1. cs[w].yields /\ cs[w].name = DbQuery /\ cs[w].handler = Own(DbQuery)
      BY <2>4 DEF Claim
    <3> QED
      BY <1>0, <1>5, <2>4, <3>1 DEF ClaimKind, m, e
  <2> QED
    BY <2>1, <2>2, <2>3, <2>4
<1> QED
  BY <1>1, <1>2, <1>3, <1>4, <1>5

\* A reload neither makes a service nor takes one away.
LEMMA ServiceStays ==
  ASSUME Constrained, [Next]_vars
  PROVE  service = NoService <=> service' = NoService
<1>1. CASE ReloadNotify
  <2>1. service' = IF service = NoService THEN NoService ELSE Loaded(service)
    BY <1>1 DEF ReloadNotify, ReloadService
  <2> QED
    BY <2>1 DEF Loaded, Constrained, NotifyAssumptions
<1>2. CASE ~ReloadNotify
  <2>1. service' = service
    BY <1>2 DEF Next, Call, CallStep, Reload, vars, notifyVars, Register, ReloadConfig,
          ReloadLists, Edit, EditTelegram, CallMacro, CallNotifySend, BeginNote,
          MacroCallStep, NoteStep, Pick, Post, EndNote
  <2> QED
    BY <2>1
<1> QED
  BY <1>1, <1>2

LEMMA ArrangementStays ==
  ASSUME NEW cs, NEW s, NEW svc, NEW svc1, Arranged(cs, s, svc),
         svc = NoService <=> svc1 = NoService
  PROVE  Arranged(cs, s, svc1)
<1>1. LastClaims(s, svc) = LastClaims(s, svc1)
  BY DEF LastClaims, Optional
<1> QED
  BY <1>1 DEF Arranged

LEMMA RegistryKept == Constrained /\ RegInv /\ [Next]_vars => RegInv'
<1> SUFFICES ASSUME Constrained, RegInv, [Next]_vars PROVE RegInv'
  OBVIOUS
<1>1. setup' = setup
  BY DEF Next, Call, CallStep, Reload, vars, Register, ReloadConfig, ReloadLists,
         ReloadNotify, Edit, CallMacro, CallNotifySend, MacroCallStep, NoteStep, Unmoved
<1>4. Arranged(registry.claims, setup, service')
  BY ServiceStays, ArrangementStays DEF RegInv
<1>2. CASE registry' = registry
  BY <1>1, <1>2, <1>4 DEF RegInv
<1>3. CASE Register
  <2> DEFINE k == registry.next - 1
             c == registry.claims[registry.next]
             tools1 == IF c.name \in setup.disabled \/ Yields(c) THEN registry.tools
                       ELSE With(registry.tools, c.name, c.handler)
             tracked1 == IF c.name \in setup.disabled \/ Yields(c) THEN registry.tracked
                         ELSE registry.tracked \cup {c.name}
  <2>1. /\ registry.next \in 1..(Len(registry.claims) + 1) /\ Len(registry.claims) \in Nat
        /\ ~(registry.next > Len(registry.claims))
    BY <1>3 DEF Register, Serving, RegInv, Arranged
  <2>2. k \in Nat /\ k + 1 = registry.next /\ registry.next \in 1..Len(registry.claims)
    BY <2>1
  <2>3. registry' = [claims |-> registry.claims, next |-> registry.next + 1,
                     tools |-> tools1, tracked |-> tracked1]
    <3> DEFINE more == [registry EXCEPT !.next = @ + 1]
    <3>1. more = [claims |-> registry.claims, next |-> registry.next + 1,
                  tools |-> registry.tools, tracked |-> registry.tracked]
      BY DEF RegInv
    <3>2. registry' = IF c.name \in setup.disabled \/ Yields(c) THEN more
                      ELSE [more EXCEPT !.tools = With(@, c.name, c.handler),
                                        !.tracked = @ \cup {c.name}]
      BY <1>3 DEF Register
    <3> HIDE DEF more, c
    <3> QED
      BY <3>1, <3>2
  <2>4. c.yields \in BOOLEAN
    <3>1. setup.rag \in BOOLEAN /\ setup.db \in BOOLEAN
      BY DEF RegInv, Constrained, ToolsAssumptions, IsSetup
    <3> QED
      BY <2>2, <3>1, KindOfClaim DEF RegInv
  <2>5. Filled(registry', setup.disabled, k + 1)
    <3>1. Filled(registry, setup.disabled, k) /\ c = registry.claims[k + 1]
      BY <2>2 DEF RegInv
    <3>2. /\ registry'.claims = registry.claims
          /\ IF c.name \in setup.disabled \/ (c.yields /\ c.name \in registry.tracked)
             THEN registry'.tools = registry.tools /\ registry'.tracked = registry.tracked
             ELSE /\ registry'.tools = With(registry.tools, c.name, c.handler)
                  /\ registry'.tracked = registry.tracked \cup {c.name}
      BY <2>3 DEF Yields
    <3> HIDE DEF c, k
    <3> QED
      BY <2>2, <2>4, <3>1, <3>2, Registers
  <2>6. /\ registry'.claims = registry.claims /\ registry'.next = registry.next + 1
        /\ registry' = [claims |-> registry'.claims, next |-> registry'.next,
                        tools |-> registry'.tools, tracked |-> registry'.tracked]
    <3> HIDE DEF tools1, tracked1
    <3> QED
      BY <2>3
  <2>7. registry'.next - 1 = k + 1 /\ registry'.next \in 1..(Len(registry.claims) + 1)
    BY <2>1, <2>2, <2>6
  <2> HIDE DEF k, c
  <2> QED
    BY <1>1, <1>4, <2>5, <2>6, <2>7 DEF RegInv
<1> QED
  BY <1>2, <1>3 DEF Next, Call, CallStep, Reload, vars, ReloadConfig, ReloadLists,
         ReloadNotify, Edit, CallMacro, CallNotifySend, MacroCallStep, NoteStep, Unmoved

LEMMA RegistryInvariant == Spec => []RegInv
<1>1. Constrained
  BY MacroAssumptions, NotifyAssumptions, ToolsAssumptions DEF Constrained
<1> QED
  BY <1>1, RegistryEmpty, RegistryKept, PTL DEF Spec

--------------------------------------------------------------------------------
(* Who serves a name *)

\* Every name of the server's own, of a macro, of an extension's tool is claimed.
LEMMA NamesClaimed ==
  ASSUME NEW cs, NEW s, NEW svc, s.rag \in BOOLEAN, s.db \in BOOLEAN,
         Arranged(cs, s, svc),
         DOMAIN s.macros = 1..Len(s.macros), DOMAIN s.extensions = 1..Len(s.extensions)
  PROVE  /\ \A name \in Owns(s, svc) :
               \E i \in 1..Len(cs) : cs[i].name = name /\ ~cs[i].yields
         /\ \A j \in 1..Len(s.macros) :
               j + 1 \in 1..Len(cs) /\ cs[j + 1].name = s.macros[j].name
         /\ \A j \in 1..Len(s.extensions) :
               /\ j + Len(s.macros) + 1 \in 1..Len(cs)
               /\ cs[j + Len(s.macros) + 1].name = s.extensions[j]
         /\ s.db => \E i \in 1..Len(cs) : cs[i].name = DbQuery
<1> DEFINE m == Len(s.macros)
           e == Len(s.extensions)
<1>1. /\ m \in Nat /\ e \in Nat /\ Len(cs) \in Nat /\ Len(cs) > m + e
      /\ cs[1] = Claim(Builtin, Own(Builtin), FALSE)
      /\ \A i \in 1..m : cs[i + 1] = MacroClaim(s, i)
      /\ \A i \in 1..e : cs[i + m + 1] = ExtensionClaim(s, i)
      /\ Elements(cs, m + e + 2) = LastClaims(s, svc)
  BY DEF Arranged
<1> HIDE DEF m, e
<1>2. \A c \in LastClaims(s, svc) : \E i \in 1..Len(cs) : cs[i] = c
  <2>1. (m + e + 2)..Len(cs) \subseteq 1..Len(cs)
    BY <1>1
  <2> QED
    BY <1>1, <2>1 DEF Elements
<1>3. ASSUME NEW name, name \in Owns(s, svc)
      PROVE  \E i \in 1..Len(cs) : cs[i].name = name /\ ~cs[i].yields
  <2>1. name = Builtin \/ (s.rag /\ name = RagQuery) \/ (svc # NoService /\ name = NotifySend)
    BY <1>3, OwnsAre
  <2>2. CASE name = Builtin
    <3>1. 1 \in 1..Len(cs)
      BY <1>1
    <3> QED
      BY <1>1, <2>2, <3>1 DEF Claim
  <2>3. CASE s.rag /\ name = RagQuery
    <3>1. Claim(RagQuery, Own(RagQuery), FALSE) \in LastClaims(s, svc)
      BY <2>3 DEF LastClaims, Optional
    <3> QED
      BY <1>2, <2>3, <3>1 DEF Claim
  <2>4. CASE svc # NoService /\ name = NotifySend
    <3>1. Claim(NotifySend, Own(NotifySend), FALSE) \in LastClaims(s, svc)
      BY <2>4 DEF LastClaims, Optional
    <3> QED
      BY <1>2, <2>4, <3>1 DEF Claim
  <2> QED
    BY <2>1, <2>2, <2>3, <2>4
<1>4. ASSUME s.db PROVE \E i \in 1..Len(cs) : cs[i].name = DbQuery
  <2>1. Claim(DbQuery, Own(DbQuery), TRUE) \in LastClaims(s, svc)
    BY <1>4 DEF LastClaims, Optional
  <2> QED
    BY <1>2, <2>1 DEF Claim
<1>5. \A j \in 1..m : j + 1 \in 1..Len(cs) /\ cs[j + 1].name = s.macros[j].name
  <2> TAKE j \in 1..m
  <2>1. cs[j + 1] = MacroClaim(s, j) /\ j + 1 \in 1..Len(cs)
    BY <1>1, SMTT(40)
  <2> QED
    BY <2>1 DEF MacroClaim, Claim
<1>6. \A j \in 1..e : j + m + 1 \in 1..Len(cs) /\ cs[j + m + 1].name = s.extensions[j]
  <2> TAKE j \in 1..e
  <2>1. cs[j + m + 1] = ExtensionClaim(s, j) /\ j + m + 1 \in 1..Len(cs)
    BY <1>1
  <2> QED
    BY <2>1 DEF ExtensionClaim, Claim
<1> QED
  BY <1>3, <1>4, <1>5, <1>6 DEF m, e

MacroNames(s) == {s.macros[i].name : i \in DOMAIN s.macros}

\* The registry when all claims have been made.
LEMMA WhoServes ==
  ASSUME Constrained, RegInv, Serving, NEW name \in registry.tracked
  PROVE  LET cs == registry.claims
         IN  \E w \in 1..Len(cs) :
                /\ cs[w].name = name /\ Handler(name) = cs[w].handler
                /\ ClaimKind(cs, setup, service, w)
                /\ cs[w].yields => \A i \in 1..Len(cs) :
                       cs[i].name = name => cs[i].yields /\ w <= i
<1> DEFINE cs == registry.claims
<1>1. registry.next - 1 = Len(cs)
  BY DEF RegInv, Serving, Arranged
<1>2. PICK w \in 1..Len(cs) :
         /\ cs[w].name = name /\ registry.tools[name] = cs[w].handler /\ Wins(cs, Len(cs), w)
  BY <1>1 DEF RegInv, Filled
<1>3. setup.rag \in BOOLEAN /\ setup.db \in BOOLEAN
  BY DEF RegInv, Constrained, ToolsAssumptions, IsSetup
<1>4. ClaimKind(cs, setup, service, w)
  BY <1>3, KindOfClaim DEF RegInv
<1> HIDE DEF cs
<1> QED
  BY <1>2, <1>4 DEF Wins, Handler, cs

LEMMA ServingExactly == Constrained /\ RegInv => RegistryExact
<1> SUFFICES ASSUME Constrained, RegInv, Serving PROVE RegistryExact
  BY DEF RegistryExact
<1> DEFINE cs == registry.claims
           n == Len(cs)
           s == setup
           m == Len(s.macros)
           e == Len(s.extensions)
           own == Owns(s, service)
           macros == MacroNames(s)
           extensions == Range(s.extensions)
           db == {d \in {DbQuery} : s.db}
           First(name) == CHOOSE i \in DOMAIN s.macros :
                              /\ s.macros[i].name = name
                              /\ \A j \in 1..(i - 1) : s.macros[j].name # name
<1>1. /\ s.macros \in Seq([name : Names, def : Macros]) /\ s.extensions \in Seq(Names)
      /\ s.rag \in BOOLEAN /\ s.db \in BOOLEAN
  BY DEF RegInv, Constrained, ToolsAssumptions, IsSetup
<1>2. m \in Nat /\ e \in Nat /\ DOMAIN s.macros = 1..m /\ DOMAIN s.extensions = 1..e
  BY <1>1, LenProperties
<1>3. Arranged(cs, s, service) /\ registry.next - 1 = n /\ n \in Nat
  <2>1. Arranged(cs, s, service) /\ registry.next \in 1..(n + 1) /\ registry.next > n
    BY DEF RegInv, Serving
  <2>2. n \in Nat
    BY <2>1 DEF Arranged
  <2> HIDE DEF n, cs
  <2> QED
    BY <2>1, <2>2
<1>4. /\ registry.tracked = {cs[i].name : i \in 1..n} \ s.disabled
      /\ DOMAIN registry.tools = registry.tracked
  BY <1>3 DEF RegInv, Filled
<1>5. /\ \A name \in own : \E i \in 1..n : cs[i].name = name /\ ~cs[i].yields
      /\ \A j \in 1..m : j + 1 \in 1..n /\ cs[j + 1].name = s.macros[j].name
      /\ \A j \in 1..e : j + m + 1 \in 1..n /\ cs[j + m + 1].name = s.extensions[j]
      /\ s.db => \E i \in 1..n : cs[i].name = DbQuery
  <2> HIDE DEF cs, s
  <2> QED
    BY <1>1, <1>2, <1>3, NamesClaimed
<1>6. \A w \in 1..n : ClaimKind(cs, s, service, w)
  BY <1>1, <1>3, KindOfClaim
<1>7. \A name : name \in macros <=> \E i \in 1..m : s.macros[i].name = name
  BY <1>2 DEF MacroNames
<1>8. \A name : name \in extensions <=> \E i \in 1..e : s.extensions[i] = name
  BY <1>2 DEF Range
<1>9. \A name : name \in db <=> s.db /\ name = DbQuery
  OBVIOUS
<1> HIDE DEF macros, extensions, db, own
<1>10. {cs[i].name : i \in 1..n} = own \cup macros \cup extensions \cup db
  <2>1. ASSUME NEW w \in 1..n PROVE cs[w].name \in own \cup macros \cup extensions \cup db
    BY <1>6, <1>7, <1>8, <1>9 DEF ClaimKind, own
  <2>2. ASSUME NEW name \in own \cup macros \cup extensions \cup db
        PROVE  \E i \in 1..n : cs[i].name = name
    <3>1. CASE name \in own
      BY <1>5, <3>1
    <3>2. CASE name \in macros
      BY <1>5, <1>7, <3>2, SMTT(40)
    <3>3. CASE name \in extensions
      BY <1>5, <1>8, <3>3
    <3>4. CASE name \in db
      BY <1>5, <1>9, <3>4
    <3> QED
      BY <3>1, <3>2, <3>3, <3>4
  <2> HIDE DEF cs, n
  <2> QED
    BY <2>1, <2>2
<1>11. ASSUME NEW name \in registry.tracked
       PROVE  CASE name \in own -> Handler(name) = Own(name)
                [] name \in macros \ own ->
                      Handler(name).kind = "macro"
                      /\ Handler(name).def = s.macros[First(name)].def
                [] name \in extensions \ (own \cup macros) ->
                      /\ Handler(name).kind = "extension"
                      /\ s.extensions[Handler(name).tool] = name
                [] OTHER -> Handler(name) = Own(name)
  <2> DEFINE Winner(w) ==
                /\ cs[w].name = name /\ Handler(name) = cs[w].handler
                /\ ClaimKind(cs, s, service, w)
                /\ cs[w].yields => \A i \in 1..n : cs[i].name = name => cs[i].yields /\ w <= i
  <2>1. PICK w \in 1..n : Winner(w)
    BY WhoServes
  <2>0. \/ /\ ~cs[w].yields /\ name \in own /\ cs[w].handler = Own(name)
        \/ /\ cs[w].yields /\ w - 1 \in 1..m /\ name = s.macros[w - 1].name
           /\ cs[w].handler = [kind |-> "macro", def |-> s.macros[w - 1].def]
        \/ /\ cs[w].yields /\ w - (m + 1) \in 1..e /\ name = s.extensions[w - (m + 1)]
           /\ cs[w].handler = [kind |-> "extension", tool |-> w - (m + 1)]
        \/ /\ cs[w].yields /\ w > m + e + 1 /\ s.db /\ name = DbQuery
           /\ cs[w].handler = Own(DbQuery)
    BY <2>1 DEF ClaimKind, own
  <2> HIDE DEF cs, n, m, e, First
  <2>2. name \in own <=> ~cs[w].yields
    BY <1>5, <2>1, <2>0
  <2>3. CASE name \in own
    <3>1. Handler(name) = Own(name)
      BY <2>1, <2>2, <2>3, <2>0
    <3> QED
      BY <2>3, <3>1
  <2>4. CASE name \in macros /\ name \notin own
    <3>1. PICK j \in 1..m : s.macros[j].name = name
      BY <1>7, <2>4
    <3>2. w <= j + 1
      BY <1>5, <2>1, <2>2, <2>4, <3>1
    <3>3. /\ w - 1 \in 1..m /\ s.macros[w - 1].name = name
          /\ Handler(name) = [kind |-> "macro", def |-> s.macros[w - 1].def]
      BY <1>2, <2>1, <2>2, <2>4, <2>0, <3>2
    <3>4. \A i \in 1..m : s.macros[i].name = name => w <= i + 1
      BY <1>5, <2>1, <2>2, <2>4
    <3>5. First(name) = w - 1
      <4>1. \A j1 \in 1..((w - 1) - 1) : s.macros[j1].name # name
        BY <1>2, <3>3, <3>4
      <4>2. ASSUME NEW i \in 1..m, s.macros[i].name = name,
                   \A j1 \in 1..(i - 1) : s.macros[j1].name # name
            PROVE  i = w - 1
        <5>1. ~(w - 1 \in 1..(i - 1))
          BY <3>3, <4>2
        <5> QED
          BY <1>2, <3>3, <3>4, <4>2, <5>1
      <4> QED
        BY <1>2, <3>3, <4>1, <4>2 DEF First
    <3>6. Handler(name).kind = "macro" /\ Handler(name).def = s.macros[First(name)].def
      BY <3>3, <3>5
    <3> QED
      BY <2>4, <3>6
  <2>5. CASE name \in extensions /\ name \notin own /\ name \notin macros
    <3>1. PICK j \in 1..e : s.extensions[j] = name
      BY <1>8, <2>5
    <3>2. w <= j + m + 1
      BY <1>5, <2>1, <2>2, <2>5, <3>1
    <3>3. /\ w - (m + 1) \in 1..e /\ s.extensions[w - (m + 1)] = name
          /\ Handler(name) = [kind |-> "extension", tool |-> w - (m + 1)]
      BY <1>2, <1>7, <2>1, <2>2, <2>5, <2>0, <3>2
    <3>4. Handler(name).kind = "extension" /\ s.extensions[Handler(name).tool] = name
      BY <3>3
    <3> QED
      BY <2>5, <3>4
  <2>6. CASE name \notin own /\ name \notin macros /\ name \notin extensions
    <3>1. Handler(name) = Own(name)
      BY <1>7, <1>8, <2>1, <2>2, <2>6, <2>0
    <3> QED
      BY <2>6, <3>1
  <2> QED
    BY <2>3, <2>4, <2>5, <2>6
<1> HIDE DEF cs, n
<1> QED
  BY <1>4, <1>10, <1>11 DEF RegistryExact, own, macros, extensions, db, Owns, MacroNames

--------------------------------------------------------------------------------
(* Notes *)

\* What telegram.yaml s says of this call's user and the bot asked for.
Says(s, n, b) ==
    /\ b \in BotsOf(s, n.user)
    /\ IF n.asked = NoBot THEN BotsOf(s, n.user) = {b} ELSE n.asked = b

Told(s, n, b) == [token |-> s[b].token, chat |-> s[b].users[n.user]]

\* A note: its service is one of its time; at "post" it holds what that one says, and
\* what it has posted is what one of them says.
NoteInv(n, services) ==
    /\ n = [pc |-> n.pc, user |-> n.user, asked |-> n.asked, svc |-> n.svc,
            bot |-> n.bot, posted |-> n.posted]
    /\ n.pc \in {"pick", "post", "sent", "error"}
    /\ n.pc \in {"pick", "post"} => n.posted = <<>>
    /\ n.pc = "post" => n.svc \in services \ {NoService} /\ Says(n.svc, n, n.bot)
    /\ n.pc = "sent" => n.posted # <<>>
    /\ n.posted = <<>> \/ \E s \in services \ {NoService} : \E b : 
          Says(s, n, b) /\ n.posted = <<Told(s, n, b)>>

NotesInv ==
    /\ note = [r \in Requests |-> note[r]]
    /\ inForce = [r \in Requests |-> inForce[r]]
    /\ \A r \in Requests : note[r] # Idle =>
          /\ service # NoService /\ service \in inForce[r]
          /\ NoteInv(note[r], inForce[r])

LEMMA NoNotes == Init => NotesInv
BY DEF Init, NotifyInit, NotesInv

LEMMA MoreServices ==
  ASSUME NEW n, NEW services, NEW more, services \subseteq more, NoteInv(n, services)
  PROVE  NoteInv(n, more)
BY DEF NoteInv

\* notify_send is called only when there is a service.
LEMMA SendHasService ==
  ASSUME Constrained, RegInv, Serving, NotifySend \in DOMAIN registry.tools,
         Handler(NotifySend).kind = "own"
  PROVE  service # NoService
<1>1. NotifySend \in registry.tracked
  BY DEF RegInv, Filled
<1>2. PICK w \in 1..Len(registry.claims) :
         /\ registry.claims[w].name = NotifySend
         /\ Handler(NotifySend) = registry.claims[w].handler
         /\ ClaimKind(registry.claims, setup, service, w)
  BY <1>1, WhoServes
<1>3. NotifySend # Builtin /\ NotifySend # RagQuery /\ NotifySend # DbQuery
  BY DEF Constrained, ToolsAssumptions
<1>4. NotifySend \in Owns(setup, service)
  <2> DEFINE h == Handler(NotifySend)
  <2>1. h.kind = "own"
    OBVIOUS
  <2> HIDE DEF h
  <2>2. \/ NotifySend \in Owns(setup, service)
        \/ \E def : h = [kind |-> "macro", def |-> def]
        \/ \E tool : h = [kind |-> "extension", tool |-> tool]
        \/ NotifySend = DbQuery
    BY <1>2 DEF ClaimKind, h
  <2> QED
    BY <1>3, <2>1, <2>2
<1> QED
  BY <1>3, <1>4, OwnsAre

\* A note of one call changes, no other does.
LEMMA NoteChanges ==
  ASSUME NotesInv, NEW r \in Requests, NEW n, note' = [note EXCEPT ![r] = n],
         service' = service, inForce' = inForce, note[r] # Idle, NoteInv(n, inForce[r])
  PROVE  NotesInv'
<1>1. /\ note' = [q \in Requests |-> note'[q]] /\ note'[r] = n
      /\ \A q \in Requests \ {r} : note'[q] = note[q]
  BY DEF NotesInv
<1>2. ASSUME NEW q \in Requests, note'[q] # Idle
      PROVE  service # NoService /\ service \in inForce[q] /\ NoteInv(note'[q], inForce[q])
  <2>1. CASE q = r
    BY <1>1, <2>1 DEF NotesInv
  <2>2. CASE q # r
    BY <1>1, <1>2, <2>2 DEF NotesInv
  <2> QED
    BY <2>1, <2>2
<1> QED
  BY <1>1, <1>2 DEF NotesInv

LEMMA SetPc ==
  ASSUME NEW n, NEW pc, NEW user, NEW asked, NEW svc, NEW bot, NEW posted, NEW pc1,
         n = [pc |-> pc, user |-> user, asked |-> asked, svc |-> svc, bot |-> bot,
              posted |-> posted]
  PROVE  [n EXCEPT !.pc = pc1] = [pc |-> pc1, user |-> user, asked |-> asked, svc |-> svc,
                                  bot |-> bot, posted |-> posted]
OBVIOUS

LEMMA SetPosted ==
  ASSUME NEW n, NEW pc, NEW user, NEW asked, NEW svc, NEW bot, NEW posted, NEW posted1,
         n = [pc |-> pc, user |-> user, asked |-> asked, svc |-> svc, bot |-> bot,
              posted |-> posted]
  PROVE  [n EXCEPT !.posted = posted1]
            = [pc |-> pc, user |-> user, asked |-> asked, svc |-> svc, bot |-> bot,
               posted |-> posted1]
OBVIOUS

LEMMA SetSvc ==
  ASSUME NEW n, NEW pc, NEW user, NEW asked, NEW svc, NEW bot, NEW posted, NEW svc1,
         n = [pc |-> pc, user |-> user, asked |-> asked, svc |-> svc, bot |-> bot,
              posted |-> posted]
  PROVE  [n EXCEPT !.svc = svc1] = [pc |-> pc, user |-> user, asked |-> asked, svc |-> svc1,
                                    bot |-> bot, posted |-> posted]
OBVIOUS

LEMMA SetBot ==
  ASSUME NEW n, NEW pc, NEW user, NEW asked, NEW svc, NEW bot, NEW posted, NEW bot1,
         n = [pc |-> pc, user |-> user, asked |-> asked, svc |-> svc, bot |-> bot,
              posted |-> posted]
  PROVE  [n EXCEPT !.bot = bot1] = [pc |-> pc, user |-> user, asked |-> asked, svc |-> svc,
                                    bot |-> bot1, posted |-> posted]
OBVIOUS

LEMMA NoteSteps ==
  ASSUME NotesInv, NEW r \in Requests, Pick(r) \/ Post(r)
  PROVE  NotesInv'
<1> DEFINE x == note[r]
           y(pc) == [x EXCEPT !.pc = pc]
<1>1. note[r] # Idle /\ service' = service /\ inForce' = inForce
  BY DEF Pick, Post, NoteAt
<1>2. /\ NoteInv(x, inForce[r]) /\ service \in inForce[r] \ {NoService}
      /\ DOMAIN note = Requests
  BY <1>1 DEF NotesInv
<1>3. \A pc : y(pc) = [pc |-> pc, user |-> x.user, asked |-> x.asked, svc |-> x.svc,
                       bot |-> x.bot, posted |-> x.posted]
  BY <1>2, SetPc DEF NoteInv
<1> HIDE DEF x, y
<1>4. NoteInv(y("error"), inForce[r])
  BY <1>2, <1>3 DEF NoteInv, Says, Told
<1>5. CASE note' = [note EXCEPT ![r].pc = "error"]
  <2>1. note' = [note EXCEPT ![r] = y("error")]
    BY <1>5, <1>2 DEF x, y
  <2> QED
    BY <1>1, <1>4, <2>1, NoteChanges
<1>6. CASE Pick(r) /\ ~(note' = [note EXCEPT ![r].pc = "error"])
  <2>1. PICK b \in Chosen(r) :
           note' = [note EXCEPT ![r].svc = service, ![r].bot = b, ![r].pc = "post"]
    BY <1>6 DEF Pick
  <2>2. Says(service, x, b)
    BY <2>1 DEF Chosen, Says, x
  <2> DEFINE z0 == [x EXCEPT !.svc = service]
             z == [z0 EXCEPT !.bot = b]
             z1 == [z EXCEPT !.pc = "post"]
  <2>3. note' = [note EXCEPT ![r] = z1]
    BY <2>1, <1>2 DEF x
  <2>4. x.posted = <<>>
    BY <1>2, <1>6 DEF Pick, NoteAt, NoteInv, x
  <2>5. z = [pc |-> x.pc, user |-> x.user, asked |-> x.asked, svc |-> service,
             bot |-> b, posted |-> x.posted]
    <3>1. x = [pc |-> x.pc, user |-> x.user, asked |-> x.asked, svc |-> x.svc,
               bot |-> x.bot, posted |-> x.posted]
      BY <1>2 DEF NoteInv
    <3>2. z0 = [pc |-> x.pc, user |-> x.user, asked |-> x.asked, svc |-> service,
                bot |-> x.bot, posted |-> x.posted]
      BY <3>1, SetSvc
    <3> HIDE DEF z0
    <3> QED
      BY <3>2, SetBot
  <2> HIDE DEF z
  <2>6. z1 = [pc |-> "post", user |-> x.user, asked |-> x.asked, svc |-> service,
              bot |-> b, posted |-> x.posted]
    BY <2>5, SetPc
  <2> HIDE DEF z1
  <2>7. NoteInv(z1, inForce[r])
    BY <1>2, <2>2, <2>4, <2>6 DEF NoteInv, Says
  <2> QED
    BY <1>1, <2>3, <2>7, NoteChanges
<1>7. CASE Post(r) /\ ~(note' = [note EXCEPT ![r].pc = "error"])
  <2>1. PICK answer \in {"sent", "error"} :
           note' = [note EXCEPT ![r].pc = answer, ![r].posted = Append(@, Message(r))]
    BY <1>7 DEF Post
  <2>2. /\ x.posted = <<>> /\ x.svc \in inForce[r] \ {NoService}
        /\ Says(x.svc, x, x.bot)
    BY <1>2, <1>7 DEF Post, NoteAt, NoteInv, x
  <2>3. Message(r) = Told(x.svc, x, x.bot)
    BY DEF Message, Sender, Told, x
  <2>4. Append(x.posted, Message(r)) = <<Told(x.svc, x, x.bot)>>
    BY <2>2, <2>3
  <2> DEFINE z == y(answer)
             z1 == [z EXCEPT !.posted = <<Told(x.svc, x, x.bot)>>]
  <2>5. note' = [note EXCEPT ![r] = z1]
    <3>1. note' = [note EXCEPT ![r] = [x EXCEPT !.pc = answer,
                                                !.posted = Append(@, Message(r))]]
      BY <2>1, <1>2 DEF x
    <3>2. z.posted = x.posted
      BY <1>3
    <3>3. [x EXCEPT !.pc = answer, !.posted = Append(@, Message(r))]
            = [z EXCEPT !.posted = Append(x.posted, Message(r))]
      BY <3>2 DEF y
    <3> QED
      BY <2>4, <3>1, <3>3
  <2>6. z = [pc |-> answer, user |-> x.user, asked |-> x.asked, svc |-> x.svc,
             bot |-> x.bot, posted |-> x.posted]
    BY <1>3
  <2> HIDE DEF z
  <2>7. z1 = [pc |-> answer, user |-> x.user, asked |-> x.asked, svc |-> x.svc,
              bot |-> x.bot, posted |-> <<Told(x.svc, x, x.bot)>>]
    BY <2>6, SetPosted
  <2> HIDE DEF z1
  <2>8. /\ z1.pc = answer /\ z1.user = x.user /\ z1.asked = x.asked /\ z1.svc = x.svc
        /\ z1.bot = x.bot /\ z1.posted = <<Told(x.svc, x, x.bot)>>
        /\ z1.posted # <<>>
    BY <2>7
  <2>9. Says(x.svc, z1, x.bot) /\ Told(x.svc, x, x.bot) = Told(x.svc, z1, x.bot)
    BY <2>2, <2>8 DEF Says, Told
  <2>10. NoteInv(z1, inForce[r])
    BY <2>2, <2>7, <2>8, <2>9 DEF NoteInv
  <2> QED
    BY <1>1, <2>5, <2>10, NoteChanges
<1> QED
  BY <1>5, <1>6, <1>7

\* A call begins a note, when there is a service.
LEMMA NoteBegins ==
  ASSUME Constrained, RegInv, NotesInv, NEW r \in Requests, NEW user, NEW bot,
         CallNotifySend(r, user, bot)
  PROVE  NotesInv'
<1> DEFINE n == [pc |-> "pick", user |-> user, asked |-> bot, svc |-> NoService,
                 bot |-> NoBot, posted |-> <<>>]
<1>1. /\ note' = [note EXCEPT ![r] = n] /\ inForce' = [inForce EXCEPT ![r] = {service}]
      /\ service' = service
  BY DEF CallNotifySend, BeginNote
<1>2. service # NoService
  BY SendHasService DEF CallNotifySend, Enter
<1>3. NoteInv(n, {service})
  BY DEF NoteInv
<1> HIDE DEF n
<1>4. /\ note' = [q \in Requests |-> note'[q]] /\ inForce' = [q \in Requests |-> inForce'[q]]
      /\ note'[r] = n /\ inForce'[r] = {service}
      /\ \A q \in Requests \ {r} : note'[q] = note[q] /\ inForce'[q] = inForce[q]
  BY <1>1 DEF NotesInv
<1>5. ASSUME NEW q \in Requests, note'[q] # Idle
      PROVE  service \in inForce'[q] /\ NoteInv(note'[q], inForce'[q])
  <2>1. CASE q = r
    BY <1>3, <1>4, <2>1
  <2>2. CASE q # r
    BY <1>4, <1>5, <2>2 DEF NotesInv
  <2> QED
    BY <2>1, <2>2
<1> QED
  BY <1>1, <1>2, <1>4, <1>5 DEF NotesInv

LEMMA NotesKept == Constrained /\ RegInv /\ NotesInv /\ [Next]_vars => NotesInv'
<1> SUFFICES ASSUME Constrained, RegInv, NotesInv, [Next]_vars PROVE NotesInv'
  OBVIOUS
<1>1. CASE UNCHANGED <<service, note, inForce>>
  BY <1>1 DEF NotesInv
<1>2. ASSUME NEW r \in Requests, NEW user, NEW bot, CallNotifySend(r, user, bot)
      PROVE  NotesInv'
  BY <1>2, NoteBegins
<1>3. ASSUME NEW r \in Requests, NoteStep(r)
      PROVE  NotesInv'
  <2>1. CASE Pick(r) \/ Post(r)
    BY <2>1, NoteSteps
  <2>2. CASE EndNote(r)
    <3>1. /\ note' = [note EXCEPT ![r] = Idle] /\ inForce' = [inForce EXCEPT ![r] = {}]
          /\ service' = service
      BY <2>2 DEF EndNote
    <3>2. /\ note' = [q \in Requests |-> note'[q]]
          /\ inForce' = [q \in Requests |-> inForce'[q]] /\ note'[r] = Idle
          /\ \A q \in Requests \ {r} : note'[q] = note[q] /\ inForce'[q] = inForce[q]
      BY <3>1 DEF NotesInv
    <3>3. ASSUME NEW q \in Requests, note'[q] # Idle
          PROVE  /\ service # NoService /\ service \in inForce'[q]
                 /\ NoteInv(note'[q], inForce'[q])
      BY <3>2, <3>3 DEF NotesInv
    <3> QED
      BY <3>1, <3>2, <3>3 DEF NotesInv
  <2> QED
    BY <1>3, <2>1, <2>2 DEF NoteStep
<1>4. CASE ReloadNotify
  <2>1. /\ note' = note
        /\ inForce' = [r \in Requests |->
              IF note[r] = Idle THEN {} ELSE inForce[r] \cup {service'}]
    BY <1>4 DEF ReloadNotify, ReloadService
  <2>2. ASSUME NEW q \in Requests, note'[q] # Idle
        PROVE  service' # NoService /\ service' \in inForce'[q] /\ NoteInv(note'[q], inForce'[q])
    <3>1. inForce'[q] = inForce[q] \cup {service'} /\ note'[q] = note[q] /\ note[q] # Idle
      BY <2>1, <2>2
    <3>2. service # NoService /\ NoteInv(note[q], inForce[q])
      BY <3>1 DEF NotesInv
    <3>3. NoteInv(note'[q], inForce'[q])
      BY <3>1, <3>2, MoreServices
    <3> QED
      BY <3>1, <3>2, <3>3, ServiceStays
  <2>3. note' = [r \in Requests |-> note'[r]] /\ inForce' = [r \in Requests |-> inForce'[r]]
    BY <2>1 DEF NotesInv
  <2> QED
    BY <2>2, <2>3 DEF NotesInv
<1>5. CASE Register \/ ReloadConfig \/ (\E a \in Acls : ReloadLists(a))
           \/ (\E t \in Telegrams \cup {Broken} : Edit(t)) \/ UNCHANGED vars
           \/ \E r \in Requests : MacroCallStep(r)
                 \/ \E name \in DOMAIN registry.tools, arguments \in Arguments :
                       CallMacro(r, name, arguments)
  BY <1>1, <1>5 DEF Register, ReloadConfig, ReloadLists, Edit, EditTelegram, MacroCallStep,
       CallMacro, notifyVars, vars
<1> QED
  BY <1>2, <1>3, <1>4, <1>5 DEF Next, Call, CallStep, Reload

LEMMA NotesInvariant == Spec => []NotesInv
<1>1. Constrained
  BY MacroAssumptions, NotifyAssumptions, ToolsAssumptions DEF Constrained
<1> QED
  BY <1>1, NoNotes, NotesKept, RegistryInvariant, PTL DEF Spec

--------------------------------------------------------------------------------
(* Theorems *)

\* Whatever the parameters and the earlier results make of the templates, and whatever is
\* reloaded meanwhile, a macro's answer contains only files that lists in force during the
\* call allow.
THEOREM MacrosReadWhatIsAllowed == Spec => []MacroReadsAllowed
<1>1. IInv => MacroReadsAllowed
  BY DEF IInv, StepsRead, Exposed, MacroReadsAllowed
<1> QED
  BY <1>1, Invariant, PTL

\* Whatever other calls run, each step of a macro gets its arguments from the parameters
\* and the latest earlier results of its own run, the answer has the last outcome of each
\* id, and a failure that is not journalctl's is the end.
THEOREM MacrosAnswerExactly == Spec => []AnswerExact
<1>1. IInv => AnswerExact
  <2> SUFFICES ASSUME IInv, NEW r \in Requests, run[r] # NoRun
               PROVE  LET steps == run[r].def.steps
                          out == run[r].outcome
                      IN  /\ run[r].result = Latest(steps, out, Len(out))
                          /\ \A i \in DOMAIN out :
                                /\ run[r].given[i] = Interpolate(steps[i].arg, run[r].params,
                                                        Latest(steps, out, i - 1))
                                /\ Final(steps, out, i) => i = Len(out)
                          /\ Ended(r) => \/ Len(out) = Len(steps)
                                         \/ out # <<>> /\ Final(steps, out, Len(out))
    BY DEF AnswerExact, Latest, Final
  <2>1. RunInv(run[r])
    BY DEF IInv, StepsRead
  <2>2. DOMAIN run[r].outcome = 1..Len(run[r].outcome)
    BY <2>1, LenProperties DEF RunInv
  <2>3. Ended(r) => ~(run[r].next <= Len(run[r].def.steps))
    BY DEF Ended, Running
  <2> QED
    BY <2>1, <2>2, <2>3 DEF RunInv
<1> QED
  BY <1>1, Invariant, PTL

\* Whatever macros and extensions are called, a name is served by exactly one handler, in
\* the order of precedence of the registration; and notify_send is there exactly when there
\* is a service, whatever telegram.yaml and the reloads did since.
THEOREM NamesServedInOrder == Spec => []RegistryExact
<1>1. Constrained
  BY MacroAssumptions, NotifyAssumptions, ToolsAssumptions DEF Constrained
<1> QED
  BY <1>1, RegistryInvariant, ServingExactly, PTL

\* However reloads replace the service meanwhile, a call posts at most once, to the bot
\* and the chat that one configuration of its time says, and answers "sent" only then.
THEOREM NotesAsConfigured == Spec => []SentAsConfigured
<1>1. NotesInv => SentAsConfigured
  <2> SUFFICES ASSUME NotesInv, NEW r \in Requests, note[r] # Idle
               PROVE  /\ Len(note[r].posted) <= 1
                      /\ note[r].pc = "sent" => note[r].posted # <<>>
                      /\ \A i \in DOMAIN note[r].posted :
                            \E s \in inForce[r] \ {NoService} : \E b \in DOMAIN s :
                               Says(s, note[r], b) /\ note[r].posted[i] = Told(s, note[r], b)
    BY DEF SentAsConfigured, Says, Told
  <2>1. NoteInv(note[r], inForce[r])
    BY DEF NotesInv
  <2>2. CASE note[r].posted = <<>>
    BY <2>1, <2>2 DEF NoteInv
  <2>3. CASE note[r].posted # <<>>
    <3>1. PICK s \in inForce[r] \ {NoService} : \E b :
             Says(s, note[r], b) /\ note[r].posted = <<Told(s, note[r], b)>>
      BY <2>1, <2>3 DEF NoteInv
    <3>2. PICK b : Says(s, note[r], b) /\ note[r].posted = <<Told(s, note[r], b)>>
      BY <3>1
    <3>3. b \in DOMAIN s
      BY <3>2 DEF Says, BotsOf
    <3> QED
      BY <2>1, <3>2, <3>3
  <2> QED
    BY <2>2, <2>3
<1> QED
  BY <1>1, NotesInvariant, PTL
================================================================================
