--------------------------------- MODULE Readers ---------------------------------
(* The line readers behind read_log and search_log (internal/logs/logs.go): the    *)
(* ring buffer of ReadFile's tail mode, its head mode with an offset, the search    *)
(* with context of collectMatches, and their counterparts over journalctl.         *)
(*                                                                                 *)
(* A line is whether its timestamp lets it through and whether the pattern matches; *)
(* it is known by its number.  Lines come one by one and may end, or fail, at any   *)
(* point, as those of a file that other programs write do.                         *)
EXTENDS Naturals, Sequences, FiniteSets

CONSTANTS
    MaxLines,     \* bound: lines of the source
    MaxCount,     \* bound: the number of lines or results asked for
    MaxOffset,    \* bound: the offset asked for
    MaxContext    \* bound: the context lines asked for

ASSUME ReadAssumptions ==
    /\ MaxLines \in Nat
    /\ MaxCount \in Nat \ {0}
    /\ MaxOffset \in Nat
    /\ MaxContext \in Nat

\* A line is inside since and until also when parseLineTimestamp finds no time in it.
Line == [inside : BOOLEAN, hit : BOOLEAN]

\* What is asked for: n lines after offset, which is not negative, or n matches with
\* context.
Jobs ==
    [op : {"tail", "head"}, source : {"file", "journal"}, n : 1 .. MaxCount,
     offset : 0 .. MaxOffset, context : {0}]
    \cup
    [op : {"search"}, source : {"file", "journal"}, n : 1 .. MaxCount,
     offset : {0}, context : 0 .. MaxContext]

VARIABLES
    job,       \* the options of the call
    state,     \* "reading", "done", "error"
    log,       \* the lines the scanner has delivered
    eof,       \* whether these are all
    ring,      \* ring of ReadFile: line numbers at 0 .. n - 1
    pos,       \* ... and how many it has been given
    lines,     \* lines of head mode
    before,    \* beforeDeque of collectMatches
    results,   \* ... its matches
    pending,   \* ... its afterPending
    answer     \* what a read returns

readVars == <<job, state, log, eof, ring, pos, lines, before, results, pending, answer>>

ReadInit ==
    /\ job \in Jobs
    /\ state = "reading"
    /\ log = <<>> /\ eof = FALSE
    /\ ring = [i \in 0 .. job.n - 1 |-> 0]
    /\ pos = 0
    /\ lines = <<>>
    /\ before = <<>> /\ results = <<>> /\ pending = 0
    /\ answer = <<>>

Ring == <<ring, pos>>

Search == <<before, results, pending>>

Reading(op) == state = "reading" /\ job.op = op

\* What journalctl prints has passed its own --since and --until.
Deliver(line) ==
    /\ ~eof /\ Len(log) < MaxLines
    /\ job.source = "journal" => line.inside
    /\ log' = Append(log, line)
    /\ UNCHANGED eof

--------------------------------------------------------------------------------
(* ReadFile, ReadJournald *)

\* One line into the ring buffer of tail mode; journalctl -n has its own.
ScanTail(line) ==
    /\ Reading("tail") /\ Deliver(line)
    /\ IF line.inside
       THEN /\ ring' = [ring EXCEPT ![pos % job.n] = Len(log')]
            /\ pos' = pos + 1
       ELSE UNCHANGED Ring
    /\ UNCHANGED <<job, state, lines, Search, answer>>

Fetch == job.n + job.offset

\* Over the journal the code reads one line too many and leaves it: not shown here.
ScanHead(line) ==
    /\ Reading("head") /\ Len(lines) < Fetch /\ Deliver(line)
    /\ lines' = IF line.inside THEN Append(lines, Len(log')) ELSE lines
    /\ UNCHANGED <<job, state, Ring, Search, answer>>

\* Mutant of Unrolled: a full ring is read from its first place.
UnrolledInPlace ==
    [i \in 1 .. IF pos <= job.n THEN pos ELSE job.n |-> ring[i - 1]]

\* The two copies that put a full ring in order.
Unrolled ==
    LET start == pos % job.n
    IN  IF pos <= job.n
        THEN [i \in 1 .. pos |-> ring[i - 1]]
        ELSE [i \in 1 .. job.n |->
                 IF i <= job.n - start THEN ring[start + i - 1] ELSE ring[i - 1 - (job.n - start)]]

Drop(s, k) == SubSeq(s, k + 1, Len(s))

Last(s, k) == IF Len(s) > k THEN Drop(s, Len(s) - k) ELSE s

\* journalctl -n of the lines it has printed.
JournalTail == Last([i \in 1 .. Len(log) |-> i], Fetch)

First(s, k) == SubSeq(s, 1, IF Len(s) > k THEN k ELSE Len(s))

ReturnTail ==
    /\ Reading("tail") /\ eof
    /\ answer' = IF job.source = "file" THEN Unrolled ELSE Last(Drop(JournalTail, job.offset), job.n)
    /\ state' = "done"
    /\ UNCHANGED <<job, log, eof, Ring, lines, Search>>

ReturnHead ==
    /\ Reading("head") /\ (eof \/ Len(lines) >= Fetch)
    /\ answer' = First(Drop(lines, job.offset), job.n)
    /\ state' = "done"
    /\ UNCHANGED <<job, log, eof, Ring, lines, Search>>

--------------------------------------------------------------------------------
(* collectMatches *)

\* Advance the rolling before-context.
Slide(number) ==
    IF job.context = 0 THEN before
    ELSE Append(IF Len(before) >= job.context THEN Tail(before) ELSE before, number)

\* Mutant of Fed: the after-context ends where a match begins.
FedButMatches(line) ==
    IF pending > 0 /\ ~line.hit
    THEN [results EXCEPT ![Len(results)].after = Append(@, Len(log) + 1)]
    ELSE results

\* The after-context of the last match, with the new line.
Fed(line) ==
    IF pending > 0
    THEN [results EXCEPT ![Len(results)].after = Append(@, Len(log) + 1)]
    ELSE results

\* The loop is left once the last result's after-context is complete.
Enough == Len(results) >= job.n /\ pending = 0

\* A line outside the time window is before-context only.
ScanSearch(line) ==
    /\ Reading("search") /\ ~Enough /\ Deliver(line)
    /\ IF ~line.inside THEN UNCHANGED <<results, pending>>
       ELSE IF line.hit
       THEN /\ results' = Append(Fed(line),
                                 [line |-> Len(log'), before |-> before, after |-> <<>>])
            /\ pending' = job.context
       ELSE /\ results' = Fed(line)
            /\ pending' = IF pending > 0 THEN pending - 1 ELSE 0
    /\ before' = Slide(Len(log'))
    /\ UNCHANGED <<job, state, Ring, lines, answer>>

ReturnMatches ==
    /\ Reading("search") /\ (eof \/ Enough)
    /\ state' = "done"
    /\ UNCHANGED <<job, log, eof, Ring, lines, Search, answer>>

--------------------------------------------------------------------------------
\* The loop has been left with what it looked for.
Satisfied ==
    \/ job.op = "head" /\ Len(lines) >= Fetch
    \/ job.op = "search" /\ Enough

EndOfSource ==
    /\ state = "reading" /\ ~eof /\ ~Satisfied
    /\ eof' = TRUE
    /\ UNCHANGED <<job, state, log, Ring, lines, Search, answer>>

\* The scanner fails, or journalctl does.  The readers that stream from journalctl only look
\* at its start: a later error is an end of the source to them.
Fail ==
    /\ state = "reading" /\ ~eof /\ ~Satisfied
    /\ job.source = "file" \/ job.op = "tail" \/ log = <<>>
    /\ state' = "error"
    /\ UNCHANGED <<job, log, eof, Ring, lines, Search, answer>>

ScanLine(line) == ScanTail(line) \/ ScanHead(line) \/ ScanSearch(line)

Return == ReturnTail \/ ReturnHead \/ ReturnMatches

ReadNext == (\E line \in Line : ScanLine(line)) \/ EndOfSource \/ Return \/ Fail

ReadSpec == ReadInit /\ [][ReadNext]_readVars

--------------------------------------------------------------------------------
\* The lines that the time window lets through, by number, from one line to another.
Kept(from, to) == {i \in from .. to : log[i].inside}

AllKept == Kept(1, Len(log))

Hits == {i \in AllKept : log[i].hit}

\* The sequence holds the numbers of the set, in order.
Lists(s, numbers) ==
    /\ {s[i] : i \in DOMAIN s} = numbers
    /\ \A i, j \in DOMAIN s : i < j => s[i] < s[j]

Below(numbers, i) == {j \in numbers : j < i}

Above(numbers, i) == {j \in numbers : j > i}

\* The numbers with at least m and less than n smaller ones, and the k greatest.
Between(numbers, m, n) ==
    {i \in numbers : m <= Cardinality(Below(numbers, i)) /\ Cardinality(Below(numbers, i)) < n}

Greatest(numbers, k) == {i \in numbers : Cardinality(Above(numbers, i)) < k}

Done(op) == state = "done" /\ job.op = op

\* tail without an offset: the last n lines of the time window, in order, however often
\* the ring went round.  (For an offset: TailSkipsFromEnd.)
TailIsLast ==
    Done("tail") /\ job.offset = 0 => Lists(answer, Greatest(AllKept, job.n))

\* head: the page of n lines after offset, cut short only by the end of the source.
HeadIsPage ==
    Done("head") =>
        /\ Lists(answer, Between(AllKept, job.offset, Fetch))
        /\ ~eof => Len(answer) = job.n

\* read_log shows what was asked for: the end of the log, or a page of it.
ReadExact == TailIsLast /\ HeadIsPage

\* The line of the next match, or the last line read.
NextHit(i) == IF i < Len(results) THEN results[i + 1].line ELSE Len(log)

\* Among the lines read the matches in the time window are found, each once, in order and
\* under its number, and none is passed over before there are n; reading ends only with the
\* source or after n matches, and goes on after these only through the context of a match.
\* (For the matches in that context: ResultsLimited.)
MatchesExact ==
    LET found == [i \in 1 .. Len(results) |-> results[i].line]
        missed == {h \in Hits : \A i \in 1 .. Len(results) : found[i] # h}
    IN  job.op = "search" =>
            /\ Lists(found, Hits \ missed)
            /\ \A h \in missed :
                  job.n <= Len(results) /\ \A i \in 1 .. Len(results) : found[i] < h
            /\ Done("search") /\ ~eof => job.n <= Len(results)
            /\ \A i \in job.n .. Len(results) :
                  Cardinality(Kept(results[i].line + 1, NextHit(i))) <= job.context

\* A match comes with the lines right before it, and with those after it that the window
\* lets through, up to the next match: where two contexts meet no line gets lost.
ContextExact ==
    \A i \in 1 .. Len(results) :
        LET here == results[i].line
        IN  /\ Lists(results[i].before, {j \in 1 .. here - 1 : here <= j + job.context})
            /\ Lists(results[i].after, Between(Kept(here + 1, NextHit(i)), 0, job.context))

\* search_log finds what was asked for, each match in its context.
SearchExact == MatchesExact /\ ContextExact

--------------------------------------------------------------------------------
(* What the documents say, and the code does not do *)

\* tools/read_log.md: with tail, offset skips that many lines from the end.
TailSkipsFromEnd ==
    Done("tail") =>
        Lists(answer, Greatest(AllKept, Fetch) \ Greatest(AllKept, job.offset))

\* tools/search_log.md: max_results is the maximum number of matching lines to return.
ResultsLimited == Done("search") => Len(results) <= job.n
================================================================================
