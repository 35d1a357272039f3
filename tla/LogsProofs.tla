-------------------------------- MODULE LogsProofs --------------------------------
(* Theorems about the log access of internal/logs/logs.go.                         *)
(*                                                                                 *)
(* Of LogManager, for every file system, any settings and any number of tool       *)
(* calls: it implements FileAccess, and its cache belongs to the settings.         *)
(*                                                                                 *)
(* Of Readers, for every source and any counts, offset and context: read_log and   *)
(* search_log return just the lines that were asked for.                           *)
EXTENDS LogManager, Readers, FiniteSetTheorems, SequenceTheorems, TLAPS

--------------------------------------------------------------------------------
(* LogManager *)

\* The present settings show the readable ones among these entries.
OnlyListed(entries) == \A e \in entries : e.readable => Listed(acl, e.path)

\* A path is one that can be resolved, from the check on.
PathFits(pc, path) ==
    /\ pc = "check" => path \in Paths \cup {Journal}
    /\ pc \in {"clean", "copy", "open", "stat", "probe"} => path \in Paths

\* A call in progress knows the settings in force, what it has copied was in force since
\* it began, and a scan, which keeps Update out, has found what may be listed now.
IInv ==
    /\ TypeOK
    /\ CacheMatchesSettings
    /\ \A r \in Requests :
          /\ req[r].pc # "idle" => acl \in since[r]
          /\ req[r].copy \in since[r] \cup {NoAcl}
          /\ req[r].pc \in Scanning => OnlyListed(req[r].result)
          /\ PathFits(req[r].pc, req[r].path)

\* It holds when the server starts.
LEMMA InitInv == ASSUME Init PROVE IInv
<1>1. TypeOK
  BY Assumptions DEF Assumptions, Init, TypeOK, Idle, Scanning
<1> QED
  BY <1>1 DEF IInv, Init, CacheMatchesSettings, Idle, Scanning, PathFits

--------------------------------------------------------------------------------
\* What is left when a call in progress goes on to another step ...
LEMMA SetPc ==
  ASSUME NEW x \in Active, NEW v \in Steps
  PROVE  LET y == [x EXCEPT !.pc = v]
         IN  y \in Active /\ y.pc = v /\ y.path = x.path /\ y.copy = x.copy /\ y.todo = x.todo /\ y.result = x.result
  BY DEF Active

\* ... resolves its path ...
LEMMA SetPath ==
  ASSUME NEW x \in Active, NEW v \in Paths \cup {Journal, NoPath}
  PROVE  LET y == [x EXCEPT !.path = v]
         IN  y \in Active /\ y.path = v /\ y.pc = x.pc /\ y.copy = x.copy /\ y.todo = x.todo /\ y.result = x.result
  BY DEF Active

\* ... copies the settings ...
LEMMA SetCopy ==
  ASSUME NEW x \in Active, NEW v \in Acls \cup {NoAcl}
  PROVE  LET y == [x EXCEPT !.copy = v]
         IN  y \in Active /\ y.copy = v /\ y.pc = x.pc /\ y.path = x.path /\ y.todo = x.todo /\ y.result = x.result
  BY DEF Active

\* ... takes the next path of a pattern ...
LEMMA SetTodo ==
  ASSUME NEW x \in Active, NEW v \in SUBSET Paths
  PROVE  LET y == [x EXCEPT !.todo = v]
         IN  y \in Active /\ y.todo = v /\ y.pc = x.pc /\ y.path = x.path /\ y.copy = x.copy /\ y.result = x.result
  BY DEF Active

\* ... or adds to its result.
LEMMA SetResult ==
  ASSUME NEW x \in Active, NEW v \in SUBSET Entries
  PROVE  LET y == [x EXCEPT !.result = v]
         IN  y \in Active /\ y.result = v /\ y.pc = x.pc /\ y.path = x.path /\ y.copy = x.copy /\ y.todo = x.todo
  BY DEF Active

\* The fields of a call in progress.
LEMMA Fields ==
  ASSUME TypeOK, NEW r \in Requests, req[r].pc # "idle"
  PROVE  /\ req[r] \in Active
         /\ req[r].path \in Paths \cup {Journal, NoPath}
         /\ req[r].copy \in Acls \cup {NoAcl}
         /\ req[r].todo \in SUBSET Paths /\ req[r].result \in SUBSET Entries
<1>1. req[r] \in Active
  BY DEF TypeOK, Idle
<1> QED
  BY <1>1 DEF Active

\* The record of r after a step, as far as the invariant is concerned.
Becomes(r, pc, path, copy, result) ==
    /\ req' \in [Requests -> {Idle} \cup Active]
    /\ \A q \in Requests \ {r} : req'[q] = req[q]
    /\ req'[r].pc = pc /\ req'[r].path = path
    /\ req'[r].copy = copy /\ req'[r].result = result

Takes(r, x) == req' = [req EXCEPT ![r] = x]

\* A call that goes on.
LEMMA Taken ==
  ASSUME TypeOK, NEW r \in Requests, NEW x \in Active, Takes(r, x)
  PROVE  Becomes(r, x.pc, x.path, x.copy, x.result)
  BY DEF TypeOK, Takes, Becomes

\* A call that is served.
LEMMA ServedBecomes ==
  ASSUME TypeOK, NEW r \in Requests, NEW result \in SUBSET Entries, Serve(r, result)
  PROVE  Becomes(r, "served", NoPath, NoAcl, result) /\ since' = since
<1> DEFINE x == [Idle EXCEPT !.pc = "served", !.result = result]
<1>1. x \in Active /\ x.pc = "served" /\ x.path = NoPath /\ x.copy = NoAcl /\ x.result = result
  BY DEF Active, Idle, Steps
<1>2. Takes(r, x)
  BY DEF Serve, Takes
<1> HIDE DEF x
<1> QED
  BY <1>1, <1>2, Taken DEF Serve

\* A call that leaves.
LEMMA LeftBecomes ==
  ASSUME TypeOK, NEW r \in Requests, Leave(r)
  PROVE  Becomes(r, "idle", NoPath, NoAcl, {}) /\ since' = [since EXCEPT ![r] = {}]
  BY DEF TypeOK, Leave, Becomes, Idle

--------------------------------------------------------------------------------
\* A step of r that keeps the invariant.
Sound(r) ==
    /\ req' \in [Requests -> {Idle} \cup Active]
    /\ \A q \in Requests \ {r} : req'[q] = req[q] /\ since'[q] = since[q]
    /\ acl' = acl /\ target' = target
    /\ since' \in [Requests -> SUBSET Acls]
    /\ req'[r].pc # "idle" => acl \in since'[r]
    /\ req'[r].copy \in since'[r] \cup {NoAcl}
    /\ req'[r].pc \in Scanning => OnlyListed(req'[r].result)
    /\ PathFits(req'[r].pc, req'[r].path)
    /\ writer' \in Requests \cup {NoRequest}
    /\ \A q \in Requests :
          writer' = q <=> IF q = r THEN req'[r].pc \in Scanning ELSE writer = q
    /\ left' \in 0 .. TTL /\ cached' \subseteq Entries
    /\ left' > 0 => OnlyListed(cached')

\* It does keep it.
LEMMA SoundKeeps == ASSUME IInv, NEW r \in Requests, Sound(r) PROVE IInv'
<1>1. TypeOK'
  BY DEF IInv, TypeOK, Sound
<1>2. CacheMatchesSettings'
  BY DEF Sound, CacheMatchesSettings, OnlyListed, Listed, Allowed
<1>3. ASSUME NEW q \in Requests
      PROVE  (/\ req[q].pc # "idle" => acl \in since[q]
              /\ req[q].copy \in since[q] \cup {NoAcl}
              /\ req[q].pc \in Scanning => OnlyListed(req[q].result)
              /\ PathFits(req[q].pc, req[q].path))'
  BY DEF IInv, Sound, OnlyListed, Listed, Allowed, PathFits
<1> QED
  BY <1>1, <1>2, <1>3 DEF IInv

--------------------------------------------------------------------------------
(* What a step of a call is to its caller: nothing, an answer or the end. *)

Underway == Steps \ {"served"}

\* What settings a have to say of an entry depends on what is asked for.
Exposes(r, a, path) ==
    IF req[r].pc \in Listing THEN Listed(a, path) ELSE Allowed(a, path)

Permits(r, entries) ==
    \A e \in entries : e.readable => \E a \in since[r] : Exposes(r, a, e.path)

Quiet(r) ==
    /\ Sound(r) /\ since' = since
    /\ req[r].pc \in Underway /\ req'[r].pc \in Underway
    /\ req[r].pc \in Listing <=> req'[r].pc \in Listing

Answers(r) ==
    /\ Sound(r) /\ since' = since
    /\ req[r].pc \in Underway /\ req'[r].pc = "served"
    /\ Permits(r, req'[r].result)

Ends(r) ==
    /\ Sound(r) /\ since' = [since EXCEPT ![r] = {}]
    /\ req[r].pc # "idle" /\ req'[r].pc = "idle"

\* A call that goes on outside a scan keeps everything but its record.
LEMMA GoesOn ==
  ASSUME IInv, NEW r \in Requests, NEW x \in Active, Takes(r, x),
         req[r].pc \in Underway \ Scanning, x.pc \in Underway \ Scanning,
         req[r].pc \in Listing <=> x.pc \in Listing,
         x.copy \in since[r] \cup {NoAcl}, PathFits(x.pc, x.path),
         UNCHANGED <<acl, cached, left, writer, target, since>>
  PROVE  Quiet(r)
<1>1. Becomes(r, x.pc, x.path, x.copy, x.result)
  BY Taken DEF IInv
<1> QED
  BY <1>1 DEF IInv, TypeOK, CacheMatchesSettings, Becomes, Quiet, Sound, OnlyListed,
     Underway, Steps, Listing, Scanning

\* A call that is refused, or has got its answer, leaves nothing behind.
LEMMA GoesAway ==
  ASSUME IInv, NEW r \in Requests, Leave(r), req[r].pc \notin {"idle"} \cup Scanning,
         UNCHANGED <<acl, cached, left, writer, target>>
  PROVE  Ends(r)
<1>1. Becomes(r, "idle", NoPath, NoAcl, {}) /\ since' = [since EXCEPT ![r] = {}]
  BY LeftBecomes DEF IInv
<1> QED
  BY <1>1 DEF IInv, TypeOK, CacheMatchesSettings, Becomes, Ends, Sound, OnlyListed,
     Scanning, PathFits

\* A call that is served outside a scan.
LEMMA IsServed ==
  ASSUME IInv, NEW r \in Requests, NEW result \in SUBSET Entries, Serve(r, result),
         req[r].pc \in Underway \ Scanning, Permits(r, result),
         UNCHANGED <<acl, cached, left, writer, target>>
  PROVE  Answers(r)
<1>1. Becomes(r, "served", NoPath, NoAcl, result) /\ since' = since
  BY ServedBecomes DEF IInv
<1> QED
  BY <1>1 DEF IInv, TypeOK, CacheMatchesSettings, Becomes, Answers, Sound, OnlyListed,
     Underway, Steps, Listing, Scanning, PathFits

\* What the second check says of an opened file.
LEMMA ReopenedEntry ==
  ASSUME NEW a, NEW path, target[path] \in Paths
  PROVE  /\ Reopened(a, path) \in Entries
         /\ Reopened(a, path).readable => Allowed(a, Reopened(a, path).path)
<1> DEFINE b == Allowed(a, target[path])
<1>1. b = (target[path] \in a.whitelist \ a.blacklist)
  BY Assumptions DEF Assumptions, Allowed
<1>2. b \in BOOLEAN
  BY <1>1
<1>3. Reopened(a, path) = [path |-> target[path], readable |-> b]
  BY DEF Reopened
<1>4. Reopened(a, path).path = target[path] /\ Reopened(a, path).readable = b
  BY <1>3
<1>5. b => Allowed(a, target[path])
  OBVIOUS
<1> HIDE DEF b
<1>6. [path |-> target[path], readable |-> b] \in Entries
  BY <1>2 DEF Entries
<1> QED
  BY <1>3, <1>4, <1>5, <1>6

\* What may be read may be listed.
LEMMA AllowedIsListed == \A a, path : Allowed(a, path) => Listed(a, path)
  BY DEF Allowed, Listed

\* The check of a path and the ways to an open file: what is served was allowed by the
\* settings copied last, which were in force since the call began.
LEMMA PathSteps ==
  ASSUME IInv, NEW r \in Requests, Check(r) \/ Decide(r) \/ Clean(r) \/ Copy(r) \/ Open(r)
  PROVE  Quiet(r) \/ Answers(r) \/ Ends(r)
<1>1. CASE Check(r)
  <2> DEFINE x == [req[r] EXCEPT !.copy = acl]
  <2>1. req[r].pc = "check" /\ req[r] \in Active /\ PathFits("check", req[r].path)
    BY <1>1, Fields DEF Check, At, IInv
  <2>2. x \in Active /\ x.pc = "check" /\ x.path = req[r].path /\ x.copy = acl
    BY <2>1, SetCopy DEF IInv, TypeOK
  <2>3. Takes(r, x) /\ UNCHANGED <<acl, cached, left, writer, target, since>>
    BY <1>1 DEF Check, Takes
  <2> HIDE DEF x
  <2> QED
    BY <2>1, <2>2, <2>3, GoesOn DEF IInv, Underway, Steps, Listing, Scanning
<1>2. CASE Decide(r)
  <2>1. /\ req[r].pc = "check" /\ req[r] \in Active /\ req[r].copy \in since[r]
        /\ req[r].path \in Paths \cup {Journal}
    BY <1>2, Fields DEF Decide, At, IInv, PathFits
  <2>2. UNCHANGED <<acl, cached, left, writer, target>>
    BY <1>2 DEF Decide
  <2>3. CASE Leave(r)
    BY <2>1, <2>2, <2>3, GoesAway DEF Scanning
  <2>4. CASE Allowed(req[r].copy, Journal) /\ Serve(r, {JournaldInfo})
    <3>1. {JournaldInfo} \in SUBSET Entries
      BY DEF JournaldInfo, Entries
    <3>2. Permits(r, {JournaldInfo})
      BY <2>1, <2>4 DEF Permits, Exposes, JournaldInfo, Listing, Scanning
    <3> QED
      BY <2>1, <2>2, <2>4, <3>1, <3>2, IsServed DEF Underway, Steps, Listing, Scanning
  <2>5. ASSUME NEW pc \in {"copy", "clean"}, req[r].path # Journal,
               req' = [req EXCEPT ![r].pc = pc, ![r].copy = NoAcl], since' = since
        PROVE  Quiet(r)
    <3> DEFINE y == [req[r] EXCEPT !.pc = pc]
               x == [y EXCEPT !.copy = NoAcl]
    <3>1. y \in Active /\ y.pc = pc /\ y.path = req[r].path
      BY <2>1, SetPc DEF Steps, Listing, Scanning
    <3>2. x \in Active /\ x.pc = pc /\ x.path = req[r].path /\ x.copy = NoAcl
      BY <3>1, SetCopy
    <3>3. Takes(r, x)
      BY <2>5 DEF Takes, IInv, TypeOK
    <3> HIDE DEF x
    <3> QED
      BY <2>1, <2>2, <2>5, <3>2, <3>3, GoesOn DEF Underway, Steps, Listing, Scanning, PathFits
  <2> QED
    BY <1>2, <2>3, <2>4, <2>5 DEF Decide
<1>3. CASE Clean(r)
  <2> DEFINE pc == IF req[r].op = "info" THEN "open" ELSE "copy"
             y == [req[r] EXCEPT !.path = target[req[r].path]]
             x == [y EXCEPT !.pc = pc]
  <2>1. req[r].pc = "clean" /\ req[r] \in Active /\ target[req[r].path] \in Paths
    BY <1>3, Fields DEF Clean, At, IInv, TypeOK, PathFits
  <2>2. Takes(r, x) /\ UNCHANGED <<acl, cached, left, writer, target, since>>
    BY <1>3 DEF Clean, Takes, IInv, TypeOK
  <2>3. y \in Active /\ y.path \in Paths /\ y.copy = req[r].copy
    BY <2>1, SetPath
  <2>4. pc \in {"open", "copy"}
    OBVIOUS
  <2> HIDE DEF pc
  <2>5. x \in Active /\ x.pc = pc /\ x.path \in Paths /\ x.copy = req[r].copy
    <3> HIDE DEF y
    <3> QED
      BY <2>4, <2>3, SetPc DEF Steps
  <2> HIDE DEF x
  <2> QED
    BY <2>4, <2>1, <2>2, <2>5, GoesOn DEF IInv, Underway, Steps, Listing, Scanning, PathFits
<1>4. CASE Copy(r)
  <2> DEFINE pc == IF req[r].op = "info" THEN "clean" ELSE "open"
             y == [req[r] EXCEPT !.copy = acl]
             x == [y EXCEPT !.pc = pc]
  <2>1. req[r].pc = "copy" /\ req[r] \in Active /\ req[r].path \in Paths
    BY <1>4, Fields DEF Copy, At, IInv, PathFits
  <2>2. Takes(r, x) /\ UNCHANGED <<acl, cached, left, writer, target, since>>
    BY <1>4 DEF Copy, Takes, IInv, TypeOK
  <2>3. y \in Active /\ y.copy = acl /\ y.path = req[r].path
    BY <2>1, SetCopy DEF IInv, TypeOK
  <2>4. pc \in {"open", "clean"}
    OBVIOUS
  <2> HIDE DEF pc
  <2>5. x \in Active /\ x.pc = pc /\ x.copy = acl /\ x.path = req[r].path
    <3> HIDE DEF y
    <3> QED
      BY <2>4, <2>3, SetPc DEF Steps
  <2> HIDE DEF x
  <2> QED
    BY <2>4, <2>1, <2>2, <2>5, GoesOn DEF IInv, Underway, Steps, Listing, Scanning, PathFits
<1>5. CASE Open(r)
  <2> DEFINE f == Reopened(req[r].copy, req[r].path)
  <2>1. /\ req[r].pc = "open" /\ req[r].copy \in since[r] \cup {NoAcl}
        /\ target[req[r].path] \in Paths
    BY <1>5 DEF Open, At, IInv, TypeOK, PathFits
  <2>2. UNCHANGED <<acl, cached, left, writer, target>>
    BY <1>5 DEF Open
  <2>3. CASE Leave(r)
    BY <2>1, <2>2, <2>3, GoesAway DEF Scanning
  <2>4. CASE Serve(r, {f})
    <3>1. (f.readable => Allowed(req[r].copy, f.path)) /\ f \in Entries
      BY <2>1, ReopenedEntry
    <3>2. Permits(r, {f})
      BY <2>1, <3>1 DEF Permits, Exposes, Allowed, NoAcl, Listing, Scanning
    <3>3. {f} \in SUBSET Entries
      BY <3>1
    <3> QED
      BY <2>1, <2>2, <2>4, <3>2, <3>3, IsServed DEF Underway, Steps, Listing, Scanning
  <2>5. CASE Serve(r, {Unopened(req[r].path)})
    <3>1. {Unopened(req[r].path)} \in SUBSET Entries /\ ~Unopened(req[r].path).readable
      BY <2>1 DEF Unopened, Entries, IInv, PathFits
    <3>2. Permits(r, {Unopened(req[r].path)})
      BY <3>1 DEF Permits, Exposes
    <3> QED
      BY <2>1, <2>2, <2>5, <3>1, <3>2, IsServed DEF Underway, Steps, Listing, Scanning
  <2> QED
    BY <1>5, <2>3, <2>4, <2>5 DEF Open
<1> QED
  BY <1>1, <1>2, <1>3, <1>4, <1>5

\* A call that goes on in its scan.
LEMMA ScansOn ==
  ASSUME IInv, NEW r \in Requests, NEW x \in Active, Takes(r, x),
         req[r].pc \in Scanning, x.pc \in Scanning, x.copy = req[r].copy,
         PathFits(x.pc, x.path), OnlyListed(x.result),
         UNCHANGED <<acl, cached, left, writer, target, since>>
  PROVE  Quiet(r)
<1>1. Becomes(r, x.pc, x.path, x.copy, x.result)
  BY Taken DEF IInv
<1> QED
  BY <1>1 DEF IInv, TypeOK, CacheMatchesSettings, Becomes, Quiet, Sound, OnlyListed,
     Underway, Steps, Listing, Scanning

\* The steps of the scan: Update cannot come between them, so what they find is allowed
\* by the settings in force.
LEMMA ScanSteps ==
  ASSUME IInv, NEW r \in Requests,
         (\E p \in Paths : Scan(r, p)) \/ Stat(r) \/ Probe(r)
  PROVE  Quiet(r)
<1>1. /\ req[r].pc \in Scanning /\ req[r] \in Active /\ OnlyListed(req[r].result)
      /\ req[r].copy \in since[r] \cup {NoAcl}
  BY Fields DEF Scan, Stat, Probe, At, IInv, Scanning
<1>2. ASSUME NEW p \in Paths, Scan(r, p) PROVE Quiet(r)
  <2> DEFINE y == [req[r] EXCEPT !.todo = req[r].todo \ {p}]
             z == [y EXCEPT !.path = target[p]]
             x == [z EXCEPT !.pc = "stat"]
  <2>1. UNCHANGED <<acl, cached, left, writer, target, since>> /\ req[r].pc = "scan"
    BY <1>2 DEF Scan, At
  <2>2. /\ y \in Active /\ y.pc = "scan" /\ y.copy = req[r].copy
        /\ y.result = req[r].result
    BY <1>1, <2>1, Fields, SetTodo DEF IInv
  <2>3. z \in Active /\ z.path \in Paths /\ z.copy = req[r].copy /\ z.result = req[r].result
    <3> HIDE DEF y
    <3> QED
      BY <2>2, SetPath DEF IInv, TypeOK
  <2>4. /\ x \in Active /\ x.pc = "stat" /\ x.path \in Paths /\ x.copy = req[r].copy
        /\ x.result = req[r].result
    <3> HIDE DEF z
    <3> QED
      BY <2>3, SetPc, ZenonT(60) DEF Steps, Listing, Scanning
  <2>5. Takes(r, x) \/ Takes(r, y)
    BY <1>2 DEF Scan, Takes, IInv, TypeOK
  <2> HIDE DEF x, y
  <2> QED
    BY <1>1, <2>1, <2>2, <2>4, <2>5, ScansOn DEF Scanning, PathFits
<1>3. CASE Stat(r)
  <2> DEFINE y == [req[r] EXCEPT !.pc = "probe"]
             x == [y EXCEPT !.path = target[req[r].path]]
  <2>1. /\ UNCHANGED <<acl, cached, left, writer, target, since>> /\ req[r].pc = "stat"
        /\ Takes(r, x)
    BY <1>3 DEF Stat, At, Takes, IInv, TypeOK
  <2>2. y \in Active /\ y.pc = "probe" /\ y.copy = req[r].copy /\ y.result = req[r].result
    BY <1>1, SetPc DEF Steps, Listing, Scanning
  <2>3. target[req[r].path] \in Paths
    BY <2>1 DEF IInv, TypeOK, PathFits
  <2>4. /\ x \in Active /\ x.pc = "probe" /\ x.path \in Paths /\ x.copy = req[r].copy
        /\ x.result = req[r].result
    <3> HIDE DEF y
    <3> QED
      BY <2>2, <2>3, SetPath
  <2> HIDE DEF x
  <2> QED
    BY <1>1, <2>1, <2>4, ScansOn DEF Scanning, PathFits
<1>4. CASE Probe(r)
  <2> DEFINE f == Reopened(acl, req[r].path)
             y == [req[r] EXCEPT !.pc = "scan"]
             z == [y EXCEPT !.path = NoPath]
             x == [z EXCEPT !.result = req[r].result \cup {f}]
  <2>1. /\ UNCHANGED <<acl, cached, left, writer, target, since>> /\ req[r].pc = "probe"
        /\ Takes(r, x)
    BY <1>4 DEF Probe, At, Takes, IInv, TypeOK
  <2>2. y \in Active /\ y.pc = "scan" /\ y.copy = req[r].copy
    BY <1>1, SetPc DEF Steps, Listing, Scanning
  <2>3. z \in Active /\ z.pc = "scan" /\ z.copy = req[r].copy
    <3> HIDE DEF y
    <3> QED
      BY <2>2, SetPath
  <2>4. f \in Entries /\ (f.readable => Allowed(acl, f.path))
    <3>1. target[req[r].path] \in Paths
      BY <2>1 DEF IInv, TypeOK, PathFits
    <3> QED
      BY <3>1, ReopenedEntry
  <2>5. req[r].result \cup {f} \in SUBSET Entries
    BY <2>1, <2>4, Fields DEF IInv
  <2>6. OnlyListed(req[r].result \cup {f})
    BY <1>1, <2>4, AllowedIsListed DEF OnlyListed
  <2>7. /\ x \in Active /\ x.pc = "scan" /\ x.copy = req[r].copy
        /\ x.result = req[r].result \cup {f}
    <3> HIDE DEF z, f
    <3> QED
      BY <2>3, <2>5, SetResult
  <2>8. PathFits(x.pc, x.path) /\ OnlyListed(x.result)
    BY <2>6, <2>7 DEF PathFits
  <2> HIDE DEF x
  <2> QED
    BY <1>1, <2>1, <2>7, <2>8, ScansOn DEF Scanning
<1> QED
  BY <1>2, <1>3, <1>4

\* The cached listing, which belongs to the settings in force, and the two ends of a scan.
LEMMA ListSteps ==
  ASSUME IInv, NEW r \in Requests, Lookup(r) \/ Acquire(r) \/ EndScan(r)
  PROVE  Quiet(r) \/ Answers(r)
<1>1. ASSUME left > 0, Serve(r, cached), req[r].pc \in {"lookup", "slow"},
             UNCHANGED <<acl, cached, left, writer, target>>
      PROVE  Answers(r)
  <2>1. cached \in SUBSET Entries
    BY DEF IInv, TypeOK
  <2>2. Permits(r, cached)
    BY <1>1 DEF IInv, CacheMatchesSettings, Permits, Exposes, Listing
  <2> QED
    BY <1>1, <2>1, <2>2, IsServed DEF Underway, Steps, Listing, Scanning
<1>2. CASE Lookup(r)
  <2> DEFINE x == [req[r] EXCEPT !.pc = "slow"]
  <2>1. /\ UNCHANGED <<acl, cached, left, writer, target>> /\ req[r].pc = "lookup"
        /\ (left > 0 /\ Serve(r, cached)) \/ (Takes(r, x) /\ since' = since)
    BY <1>2 DEF Lookup, At, Takes
  <2>2. req[r] \in Active /\ req[r].copy \in since[r] \cup {NoAcl}
    BY <2>1, Fields DEF IInv
  <2>3. x \in Active /\ x.pc = "slow" /\ x.copy = req[r].copy
    BY <2>2, SetPc DEF Steps, Listing, Scanning
  <2> HIDE DEF x
  <2> QED
    BY <1>1, <2>1, <2>2, <2>3, GoesOn DEF Underway, Steps, Listing, Scanning, PathFits
<1>3. CASE Acquire(r)
  <2> DEFINE found == IF acl.journald THEN {JournaldInfo} ELSE {}
             y == [req[r] EXCEPT !.pc = "scan"]
             z == [y EXCEPT !.todo = acl.whitelist]
             x == [z EXCEPT !.result = found]
  <2>1. UNCHANGED <<acl, cached, left, target>> /\ req[r].pc = "slow" /\ writer = NoRequest
    BY <1>3 DEF Acquire, At, Unlocked
  <2>2. CASE left > 0 /\ Serve(r, cached) /\ UNCHANGED writer
    BY <1>1, <2>1, <2>2
  <2>3. CASE Takes(r, x) /\ writer' = r /\ since' = since
    <3>1. req[r] \in Active /\ req[r].copy \in since[r] \cup {NoAcl} /\ acl \in since[r]
      BY <2>1, Fields DEF IInv
    <3>2. y \in Active /\ y.pc = "scan" /\ y.copy = req[r].copy
      BY <3>1, SetPc DEF Steps, Listing, Scanning
    <3>3. acl.whitelist \in SUBSET Paths
      BY Assumptions DEF Assumptions, AclType, IInv, TypeOK
    <3>4. z \in Active /\ z.pc = "scan" /\ z.copy = req[r].copy
      <4> HIDE DEF y
      <4> QED
        BY <3>2, <3>3, SetTodo
    <3>5. found \in SUBSET Entries
      BY DEF JournaldInfo, Entries
    <3>6. x \in Active /\ x.pc = "scan" /\ x.copy = req[r].copy /\ x.result = found
      <4> HIDE DEF z, found
      <4> QED
        BY <3>4, <3>5, SetResult
    <3>7. OnlyListed(found)
      BY DEF OnlyListed, JournaldInfo, Listed
    <3>8. Becomes(r, "scan", x.path, x.copy, found)
      <4> HIDE DEF x, found
      <4> QED
        BY <2>3, <3>6, Taken DEF IInv
    <3> HIDE DEF x, found
    <3>9. \A q \in Requests : writer # q
      BY <2>1, Assumptions DEF Assumptions
    <3>10. PathFits("scan", x.path)
      BY DEF PathFits
    <3> QED
      BY <2>1, <2>3, <3>1, <3>6, <3>7, <3>8, <3>9, <3>10 DEF IInv, TypeOK, CacheMatchesSettings, Becomes,
         Quiet, Sound, OnlyListed, Underway, Steps, Listing, Scanning
  <2> QED
    BY <1>3, <2>2, <2>3 DEF Acquire, Takes, IInv, TypeOK
<1>4. CASE EndScan(r)
  <2>1. /\ UNCHANGED <<acl, target>> /\ req[r].pc = "scan" /\ Serve(r, req[r].result)
        /\ cached' = req[r].result /\ left' = TTL /\ writer' = NoRequest
    BY <1>4 DEF EndScan, At
  <2>2. /\ req[r].result \in SUBSET Entries /\ OnlyListed(req[r].result)
        /\ acl \in since[r] /\ writer = r
    BY <2>1, Fields DEF IInv, TypeOK, Scanning
  <2>3. Becomes(r, "served", NoPath, NoAcl, req[r].result) /\ since' = since
    BY <2>1, <2>2, ServedBecomes DEF IInv
  <2>4. Permits(r, req'[r].result)
    <3>1. \A e : Exposes(r, acl, e.path) = Listed(acl, e.path)
      BY <2>1 DEF Exposes, Listing, Scanning
    <3> QED
      BY <2>2, <2>3, <3>1 DEF Becomes, Permits, OnlyListed
  <2>5. TTL \in 0 .. TTL /\ NoRequest \notin Requests
    BY Assumptions DEF Assumptions
  <2> QED
    BY <2>1, <2>2, <2>3, <2>4, <2>5 DEF IInv, TypeOK, Becomes, Answers, Sound, Underway,
       Steps, Listing, Scanning, PathFits
<1> QED
  BY <1>2, <1>3, <1>4

\* Every step of a call is nothing to its caller, an answer or the end.
LEMMA StepCases ==
  ASSUME IInv, NEW r \in Requests, Step(r)
  PROVE  Quiet(r) \/ Answers(r) \/ Ends(r)
<1>1. ASSUME Reply(r) PROVE Ends(r)
  BY <1>1, GoesAway DEF Reply, At, Scanning
<1> QED
  BY <1>1, PathSteps, ScanSteps, ListSteps DEF Step

\* A call begins with the settings in force.
Begins(r) ==
    /\ Sound(r) /\ since' = [since EXCEPT ![r] = {acl}]
    /\ req[r].pc = "idle" /\ req'[r].pc \in Underway

\* That is what Arrive does.
LEMMA ArriveBegins ==
  ASSUME IInv, NEW r \in Requests, NEW op \in Ops,
         NEW path \in Paths \cup {Journal, NoPath}, Arrive(r, op, path)
  PROVE  Begins(r)
<1> DEFINE pc == IF op = "list" THEN "lookup" ELSE "check"
           w == [Idle EXCEPT !.pc = pc]
           v == [w EXCEPT !.op = op]
           x == [v EXCEPT !.path = path]
<1>1. /\ req[r] = Idle /\ since' = [since EXCEPT ![r] = {acl}]
      /\ UNCHANGED <<acl, cached, left, writer, target>>
      /\ op = "list" <=> path = NoPath
  BY DEF Arrive
<1>2. /\ w \in Active /\ w.pc = pc /\ w.copy = NoAcl /\ w.result = {}
      /\ pc \in {"lookup", "check"}
  BY DEF Idle, Active, Steps, Listing, Scanning
<1>3. v \in Active /\ v.pc = pc /\ v.copy = NoAcl /\ v.result = {}
  <2> HIDE DEF w, pc
  <2> QED
    BY <1>2 DEF Active
<1>4. x \in Active /\ x.pc = pc /\ x.copy = NoAcl /\ x.result = {} /\ x.path = path
  <2> HIDE DEF v, pc
  <2> QED
    BY <1>3, SetPath
<1>5. Takes(r, x)
  BY <1>1 DEF Arrive, Takes, Idle
<1>6. PathFits(pc, path)
  BY <1>1 DEF PathFits
<1> HIDE DEF x, pc
<1>7. Becomes(r, pc, path, NoAcl, {})
  BY <1>4, <1>5, Taken DEF IInv
<1>8. pc \in Underway \ Scanning
  BY <1>2 DEF Underway, Steps, Listing, Scanning
<1>9. /\ acl \in since'[r] /\ since' \in [Requests -> SUBSET Acls]
      /\ \A q \in Requests \ {r} : since'[q] = since[q]
  BY <1>1 DEF IInv, TypeOK
<1>10. req[r].pc \notin Scanning /\ req[r].pc = "idle"
  BY <1>1 DEF Idle, Scanning
<1> QED
  BY <1>1, <1>6, <1>7, <1>8, <1>9, <1>10 DEF IInv, TypeOK, CacheMatchesSettings, Becomes,
     Begins, Sound, OnlyListed

--------------------------------------------------------------------------------
\* Update waits for the scan to end, and resets the cache.
LEMMA UpdateKeeps == ASSUME IInv, NEW a \in Acls, Update(a) PROVE IInv'
<1>1. /\ writer = NoRequest /\ acl' = a /\ left' = 0
      /\ UNCHANGED <<cached, writer, target, req>>
      /\ \A q \in Requests : since'[q] = IF req[q] = Idle THEN {} ELSE since[q] \cup {a}
  BY DEF Update, Unlocked, InForce
<1>2. since' \in [Requests -> SUBSET Acls]
  BY DEF Update, InForce, IInv, TypeOK
<1>3. TypeOK'
  BY <1>1, <1>2, Assumptions DEF Assumptions, IInv, TypeOK
<1>4. CacheMatchesSettings'
  BY <1>1 DEF CacheMatchesSettings
<1>5. ASSUME NEW q \in Requests
      PROVE  (/\ req[q].pc # "idle" => acl \in since[q]
              /\ req[q].copy \in since[q] \cup {NoAcl}
              /\ req[q].pc \in Scanning => OnlyListed(req[q].result)
              /\ PathFits(req[q].pc, req[q].path))'
  <2>1. req[q].pc \notin Scanning
    BY <1>1, Assumptions DEF Assumptions, IInv, TypeOK
  <2>2. req'[q] = req[q] /\ PathFits(req[q].pc, req[q].path)
    BY <1>1 DEF IInv
  <2>3. CASE req[q] = Idle
    BY <1>1, <2>1, <2>2, <2>3 DEF Idle, PathFits
  <2>4. CASE req[q] # Idle
    BY <1>1, <2>1, <2>2, <2>4 DEF IInv, PathFits
  <2> QED
    BY <2>3, <2>4
<1> QED
  BY <1>3, <1>4, <1>5 DEF IInv

\* Other programs and the clock change nothing the invariant speaks of but the age of
\* the cache.
LEMMA WorldKeeps ==
  ASSUME IInv, (\E p \in Volatile, q \in Paths : Relink(p, q)) \/ Tick
  PROVE  IInv' /\ UNCHANGED <<acl, req, since>>
<1>1. CASE Tick
  <2>1. /\ left' \in 0 .. TTL /\ left > 0
        /\ UNCHANGED <<acl, cached, writer, target, req, since>>
    BY <1>1, Assumptions DEF Assumptions, Tick, IInv, TypeOK
  <2> QED
    BY <2>1 DEF IInv, TypeOK, CacheMatchesSettings, OnlyListed, Listed, Allowed, PathFits
<1>2. CASE \E p \in Volatile, q \in Paths : Relink(p, q)
  <2>1. PICK p \in Volatile, q \in Paths : Relink(p, q)
    BY <1>2
  <2>2. p \in Paths
    BY Assumptions DEF Assumptions
  <2>3. target' \in [Paths -> Paths] /\ UNCHANGED <<acl, cached, left, writer, req, since>>
    BY <2>1, <2>2 DEF Relink, IInv, TypeOK
  <2> QED
    BY <2>3 DEF IInv, TypeOK, CacheMatchesSettings, OnlyListed, Listed, Allowed, PathFits
<1> QED
  BY <1>1, <1>2

\* Every step keeps the invariant.
LEMMA NextInv == ASSUME IInv, [Next]_vars PROVE IInv'
<1>1. ASSUME NEW r \in Requests, NEW op \in Ops,
             NEW path \in Paths \cup {Journal, NoPath}, Arrive(r, op, path)
      PROVE  IInv'
  BY <1>1, ArriveBegins, SoundKeeps DEF Begins
<1>2. ASSUME NEW r \in Requests, Step(r) PROVE IInv'
  BY <1>2, StepCases, SoundKeeps DEF Quiet, Answers, Ends
<1>3. ASSUME UNCHANGED vars PROVE IInv'
  BY <1>3 DEF vars, IInv, TypeOK, CacheMatchesSettings, OnlyListed, Listed, Allowed, PathFits
<1> QED
  BY <1>1, <1>2, <1>3, UpdateKeeps, WorldKeeps DEF Next, Environment

\* It holds in every behaviour.
LEMMA Invariant == Spec => []IInv
<1> QED
  BY InitInv, NextInv, PTL DEF Spec

\* The state of the manager has its type; in particular, the write lock is held by a call
\* exactly while that call scans.
THEOREM TypeCorrect == Spec => []TypeOK
<1>1. IInv => TypeOK
  BY DEF IInv
<1> QED
  BY <1>1, Invariant, PTL

\* Whatever is replaced in the file system, whatever settings a reload brings and when,
\* the cached listing calls readable only what the settings in force would list.
THEOREM CacheBelongs == Spec => []CacheMatchesSettings
<1>1. IInv => CacheMatchesSettings
  BY DEF IInv
<1> QED
  BY <1>1, Invariant, PTL

--------------------------------------------------------------------------------
\* What the caller sees of a call at pc.
Seen(pc) ==
    IF pc \in {"idle", "served"} THEN pc ELSE IF pc \in Listing THEN "listing" ELSE "in"

\* A step of r shows in its own row only.
LEMMA SeenAfter ==
  ASSUME NEW r \in Requests, Sound(r)
  PROVE  /\ Access' = [Access EXCEPT ![r] = Seen(req'[r].pc)]
         /\ Content' = [Content EXCEPT ![r] =
               IF req'[r].pc = "served" THEN req'[r].result ELSE {}]
         /\ Access[r] = Seen(req[r].pc)
         /\ acl' = acl
  BY DEF Sound, Access, Content, Seen

\* The two modules speak of the same settings.
LEMMA SameSettings ==
  \A a, path : /\ Promise!Allows(a, path) <=> Allowed(a, path)
               /\ Promise!Lists(a, path) <=> Listed(a, path)
  BY DEF Promise!Allows, Promise!Lists, Allowed, Listed

\* A quiet step is a stutter.
LEMMA QuietStutters ==
  ASSUME NEW r \in Requests, Quiet(r) PROVE UNCHANGED Promise!accessVars
<1>1. /\ Seen(req'[r].pc) = Access[r] /\ req'[r].pc # "served" /\ Content[r] = {}
      /\ Sound(r) /\ since' = since
  BY SeenAfter DEF Quiet, Seen, Content, Underway, Steps, Listing, Scanning
<1>2. /\ Access' = [Access EXCEPT ![r] = Access[r]] /\ acl' = acl
      /\ Content' = [Content EXCEPT ![r] = Content[r]]
  BY <1>1, SeenAfter
<1>3. Access' = Access /\ Content' = Content
  BY <1>2 DEF Access, Content
<1> QED
  BY <1>1, <1>2, <1>3 DEF Promise!accessVars

\* An answer is one that the abstract manager could have given.
LEMMA AnswersServe ==
  ASSUME IInv, NEW r \in Requests, Answers(r)
  PROVE  Promise!Serve(r, Content'[r]) \/ Promise!ServeList(r, Content'[r])
<1> DEFINE found == req'[r].result
<1>1. /\ Sound(r) /\ since' = since /\ req'[r].pc = "served"
      /\ req[r].pc \in Underway /\ Permits(r, found)
  BY DEF Answers
<1>2. /\ Access' = [Access EXCEPT ![r] = "served"]
      /\ Content' = [Content EXCEPT ![r] = found] /\ acl' = acl
      /\ Access[r] = IF req[r].pc \in Listing THEN "listing" ELSE "in"
  BY <1>1, SeenAfter DEF Seen, Underway, Steps, Listing, Scanning
<1>3. Content'[r] = found
  BY <1>2 DEF Content
<1>4. found \subseteq Entries
  BY <1>1 DEF Sound, Active, Idle
<1>5. Promise!Gets(r, found)
  BY <1>1, <1>2 DEF Promise!Gets
<1> HIDE DEF found
<1>6. CASE req[r].pc \in Listing
  <2>1. found \subseteq Promise!Listable(r)
    BY <1>1, <1>4, <1>6, SameSettings
       DEF Permits, Exposes, Promise!Listable, Promise!Entries, Entries
  <2> QED
    BY <1>2, <1>3, <1>5, <1>6, <2>1 DEF Promise!ServeList
<1>7. CASE req[r].pc \notin Listing
  <2>1. found \subseteq Promise!Permitted(r)
    BY <1>1, <1>4, <1>7, SameSettings
       DEF Permits, Exposes, Promise!Permitted, Promise!Entries, Entries
  <2> QED
    BY <1>2, <1>3, <1>5, <1>7, <2>1 DEF Promise!Serve
<1> QED
  BY <1>6, <1>7

\* So are its end ...
LEMMA EndsLeave == ASSUME NEW r \in Requests, Ends(r) PROVE Promise!Leave(r)
<1>1. /\ Sound(r) /\ since' = [since EXCEPT ![r] = {}]
      /\ req[r].pc # "idle" /\ req'[r].pc = "idle"
  BY DEF Ends
<1>2. /\ Access' = [Access EXCEPT ![r] = "idle"] /\ Content' = [Content EXCEPT ![r] = {}]
      /\ acl' = acl /\ Access[r] # "idle"
  BY <1>1, SeenAfter DEF Seen
<1> QED
  BY <1>1, <1>2 DEF Promise!Leave

\* ... and its beginning.
LEMMA BeginsBegin ==
  ASSUME NEW r \in Requests, Begins(r) PROVE Promise!Begin(r) \/ Promise!BeginList(r)
<1>1. /\ Sound(r) /\ since' = [since EXCEPT ![r] = {acl}]
      /\ req[r].pc = "idle" /\ req'[r].pc \in Underway
  BY DEF Begins
<1>2. /\ Access' = [Access EXCEPT ![r] = Seen(req'[r].pc)]
      /\ Content' = [Content EXCEPT ![r] = {}] /\ acl' = acl
      /\ Access[r] = "idle" /\ Content[r] = {}
      /\ Seen(req'[r].pc) \in {"in", "listing"}
  BY <1>1, SeenAfter DEF Seen, Content, Underway, Steps, Listing, Scanning
<1>3. Content' = Content
  BY <1>2 DEF Content
<1> QED
  BY <1>1, <1>2, <1>3 DEF Promise!Begin, Promise!BeginList, Promise!Enters

\* Update is the abstract Update.
LEMMA UpdateUpdates == ASSUME IInv, NEW a \in Acls, Update(a) PROVE Promise!Update(a)
<1>1. acl' = a /\ req' = req /\ Access' = Access /\ Content' = Content
  BY DEF Update, Access, Content
<1>2. \A q \in Requests : Access[q] = "idle" <=> req[q] = Idle
  BY DEF Access, IInv, TypeOK, Idle, Active, Steps, Listing, Scanning
<1>3. since' = [q \in Requests |-> IF Access[q] = "idle" THEN {} ELSE since[q] \cup {a}]
  BY <1>2 DEF Update, InForce
<1> QED
  BY <1>1, <1>3 DEF Promise!Update

\* The manager keeps its promise for every file system, any settings and any number of
\* calls: what it serves or lists is what the settings of the call's own time allow.
THEOREM KeepsThePromise == Spec => ImplementsFileAccess
<1>1. Init => Promise!AccessInit
  BY DEF Init, Promise!AccessInit, Access, Content, Idle
<1>2. ASSUME IInv, [Next]_vars PROVE [Promise!AccessNext]_Promise!accessVars
  <2>1. ASSUME NEW r \in Requests, NEW op \in Ops,
               NEW path \in Paths \cup {Journal, NoPath}, Arrive(r, op, path)
        PROVE  Promise!AccessNext
    BY <1>2, <2>1, ArriveBegins, BeginsBegin DEF Promise!AccessNext
  <2>2. ASSUME NEW r \in Requests, Step(r)
        PROVE  Promise!AccessNext \/ UNCHANGED Promise!accessVars
    BY <1>2, <2>2, StepCases, QuietStutters, AnswersServe, EndsLeave DEF Promise!AccessNext
  <2>3. ASSUME NEW a \in Acls, Update(a) PROVE Promise!AccessNext
    BY <1>2, <2>3, UpdateUpdates DEF Promise!AccessNext
  <2>4. ASSUME UNCHANGED <<acl, req, since>> PROVE UNCHANGED Promise!accessVars
    BY <2>4 DEF Promise!accessVars, Access, Content
  <2> QED
    BY <1>2, <2>1, <2>2, <2>3, <2>4, WorldKeeps DEF Next, Environment, vars
<1> QED
  BY <1>1, <1>2, Invariant, PTL DEF Spec, ImplementsFileAccess, Promise!AccessSpec

--------------------------------------------------------------------------------
(* Readers: sequences that list sets *)

\* Places of a listing are places of its set: before the k-th number are k - 1.
LEMMA PlaceOfListed ==
    ASSUME NEW s \in Seq(Nat), NEW numbers, Lists(s, numbers), NEW k \in 1 .. Len(s)
    PROVE  /\ Cardinality(Below(numbers, s[k])) = k - 1
           /\ Cardinality(Above(numbers, s[k])) = Len(s) - k
<1> USE DEF Below, Above
<1> DEFINE below == Below(numbers, s[k])
           above == Above(numbers, s[k])
<1>1. /\ DOMAIN s = 1 .. Len(s) /\ Len(s) \in Nat
      /\ \A i \in 1 .. Len(s) : s[i] \in Nat
  OBVIOUS
<1>2. \A i, j \in 1 .. Len(s) : i < j => s[i] < s[j]
  BY <1>1 DEF Lists
<1>3. numbers = {s[i] : i \in 1 .. Len(s)}
  BY <1>1 DEF Lists
<1>4. Cardinality(below) = k - 1
  <2> DEFINE f == [i \in 1 .. k - 1 |-> s[i]]
  <2>1. f \in Bijection(1 .. k - 1, below)
    <3>1. \A i \in 1 .. k - 1 : s[i] \in below
      BY <1>1, <1>2, <1>3
    <3>2. \A i, j \in 1 .. k - 1 : s[i] = s[j] => i = j
      BY <1>1, <1>2
    <3>3. \A x \in below : \E i \in 1 .. k - 1 : s[i] = x
      <4>1. TAKE x \in below
      <4>2. PICK i \in 1 .. Len(s) : x = s[i]
        BY <1>3
      <4>3. i < k
        BY <1>1, <1>2, <4>1, <4>2
      <4> QED
        BY <4>2, <4>3
    <3> QED
      BY <3>1, <3>2, <3>3 DEF Bijection, Injection, Surjection, IsInjective
  <2>2. IsFiniteSet(1 .. k - 1) /\ Cardinality(1 .. k - 1) = k - 1
    BY FS_Interval
  <2>3. ExistsBijection(1 .. k - 1, below)
    BY <2>1 DEF ExistsBijection
  <2> QED
    BY <2>2, <2>3, FS_Bijection
<1>5. Cardinality(above) = Len(s) - k
  <2> DEFINE f == [i \in k + 1 .. Len(s) |-> s[i]]
  <2>1. f \in Bijection(k + 1 .. Len(s), above)
    <3>1. \A i \in k + 1 .. Len(s) : s[i] \in above
      BY <1>1, <1>2, <1>3
    <3>2. \A i, j \in k + 1 .. Len(s) : s[i] = s[j] => i = j
      BY <1>1, <1>2
    <3>3. \A x \in above : \E i \in k + 1 .. Len(s) : s[i] = x
      <4>1. TAKE x \in above
      <4>2. PICK i \in 1 .. Len(s) : x = s[i]
        BY <1>3
      <4>3. i > k
        BY <1>1, <1>2, <4>1, <4>2
      <4> QED
        BY <4>2, <4>3
    <3> QED
      BY <3>1, <3>2, <3>3 DEF Bijection, Injection, Surjection, IsInjective
  <2>2. IsFiniteSet(k + 1 .. Len(s)) /\ Cardinality(k + 1 .. Len(s)) = Len(s) - k
    BY FS_Interval
  <2>3. ExistsBijection(k + 1 .. Len(s), above)
    BY <2>1 DEF ExistsBijection
  <2> QED
    BY <2>2, <2>3, FS_Bijection
<1> QED
  BY <1>4, <1>5

\* As many numbers as the listing is long.
LEMMA CountOfListed ==
    ASSUME NEW s \in Seq(Nat), NEW numbers, Lists(s, numbers)
    PROVE  IsFiniteSet(numbers) /\ Cardinality(numbers) = Len(s)
<1>1. /\ DOMAIN s = 1 .. Len(s) /\ Len(s) \in Nat
      /\ \A i \in 1 .. Len(s) : s[i] \in Nat
  OBVIOUS
<1>2. s \in Bijection(1 .. Len(s), numbers)
  <2>1. \A i, j \in 1 .. Len(s) : s[i] = s[j] => i = j
    BY <1>1 DEF Lists
  <2>2. s \in [1 .. Len(s) -> numbers] /\ \A x \in numbers : \E i \in 1 .. Len(s) : s[i] = x
    BY <1>1 DEF Lists
  <2> QED
    BY <2>1, <2>2 DEF Bijection, Injection, Surjection, IsInjective
<1>3. IsFiniteSet(1 .. Len(s)) /\ Cardinality(1 .. Len(s)) = Len(s)
  BY <1>1, FS_Interval
<1>4. ExistsBijection(1 .. Len(s), numbers)
  BY <1>2 DEF ExistsBijection
<1> QED
  BY <1>3, <1>4, FS_Bijection

\* A stretch of a listing lists the numbers at those places.
LEMMA StretchListed ==
    ASSUME NEW s \in Seq(Nat), NEW numbers, Lists(s, numbers),
           NEW from \in Nat, NEW len \in Nat, from + len <= Len(s),
           NEW t, t = [i \in 1 .. len |-> s[from + i]]
    PROVE  /\ Lists(t, Between(numbers, from, from + len))
           /\ from + len = Len(s) => Lists(t, Greatest(numbers, len))
<1>1. /\ DOMAIN s = 1 .. Len(s) /\ Len(s) \in Nat
      /\ \A i \in 1 .. Len(s) : s[i] \in Nat
      /\ DOMAIN t = 1 .. len
      /\ \A i \in 1 .. len : t[i] = s[from + i] /\ from + i \in 1 .. Len(s)
  OBVIOUS
<1>2. \A i, j \in DOMAIN t : i < j => t[i] < t[j]
  <2>1. \A i, j \in 1 .. Len(s) : i < j => s[i] < s[j]
    BY <1>1 DEF Lists
  <2>2. ASSUME NEW i \in 1 .. len, NEW j \in 1 .. len, i < j PROVE t[i] < t[j]
    <3>1. from + i \in 1 .. Len(s) /\ from + j \in 1 .. Len(s) /\ from + i < from + j
      BY <1>1, <2>2
    <3> QED
      BY <1>1, <2>1, <3>1
  <2> QED
    BY <1>1, <2>2
<1>3. numbers = {s[i] : i \in 1 .. Len(s)}
  BY <1>1 DEF Lists
<1>4. {t[i] : i \in DOMAIN t} = Between(numbers, from, from + len)
  <2>1. ASSUME NEW i \in 1 .. len PROVE t[i] \in Between(numbers, from, from + len)
    <3>1. from + i \in 1 .. Len(s) /\ t[i] = s[from + i] /\ t[i] \in numbers
      BY <1>1, <1>3
    <3>2. Cardinality(Below(numbers, t[i])) = (from + i) - 1
      BY <3>1, PlaceOfListed
    <3> QED
      BY <3>1, <3>2 DEF Between
  <2>2. ASSUME NEW x \in Between(numbers, from, from + len)
        PROVE  \E i \in 1 .. len : x = t[i]
    <3>1. PICK k \in 1 .. Len(s) : x = s[k]
      BY <1>3 DEF Between
    <3>2. Cardinality(Below(numbers, x)) = k - 1
      BY <3>1, PlaceOfListed
    <3>3. from <= k - 1 /\ k - 1 < from + len
      BY <2>2, <3>2 DEF Between
    <3>4. k - from \in 1 .. len /\ t[k - from] = s[k]
      BY <1>1, <3>3
    <3> QED
      BY <3>1, <3>4
  <2> QED
    BY <1>1, <2>1, <2>2
<1>5. ASSUME from + len = Len(s) PROVE {t[i] : i \in DOMAIN t} = Greatest(numbers, len)
  <2>1. ASSUME NEW i \in 1 .. len PROVE t[i] \in Greatest(numbers, len)
    <3>1. Cardinality(Above(numbers, t[i])) = Len(s) - (from + i) /\ t[i] \in numbers
      BY <1>1, <1>3, <2>1, PlaceOfListed
    <3> QED
      BY <1>5, <3>1 DEF Greatest
  <2>2. ASSUME NEW x \in Greatest(numbers, len)
        PROVE  \E i \in 1 .. len : x = t[i]
    <3>1. PICK k \in 1 .. Len(s) : x = s[k]
      BY <1>3 DEF Greatest
    <3>2. Cardinality(Above(numbers, x)) = Len(s) - k
      BY <3>1, PlaceOfListed
    <3>3. Len(s) - k < len
      BY <2>2, <3>2 DEF Greatest
    <3>4. k - from \in 1 .. len /\ t[k - from] = s[k]
      BY <1>1, <1>5, <3>3
    <3> QED
      BY <3>1, <3>4
  <2> QED
    BY <1>1, <2>1, <2>2
<1> QED
  BY <1>2, <1>4, <1>5 DEF Lists

\* A number that is greater than all of the set goes to the end of its listing.
LEMMA ListedAppend ==
    ASSUME NEW s \in Seq(Nat), NEW numbers, Lists(s, numbers), NEW x \in Nat,
           \A j \in numbers : j < x
    PROVE  Append(s, x) \in Seq(Nat) /\ Lists(Append(s, x), numbers \cup {x})
<1> DEFINE t == Append(s, x)
<1>1. /\ t \in Seq(Nat) /\ Len(t) = Len(s) + 1 /\ DOMAIN t = 1 .. Len(s) + 1
      /\ DOMAIN s = 1 .. Len(s) /\ Len(s) \in Nat
      /\ \A i \in 1 .. Len(s) : t[i] = s[i]
      /\ t[Len(s) + 1] = x
  OBVIOUS
<1> HIDE DEF t
<1>2. \A i \in 1 .. Len(s) : s[i] \in numbers
  BY <1>1 DEF Lists
<1>3. \A i, j \in DOMAIN t : i < j => t[i] < t[j]
  <2>1. \A i, j \in 1 .. Len(s) : i < j => s[i] < s[j]
    BY <1>1 DEF Lists
  <2>2. ASSUME NEW i \in 1 .. Len(s) + 1, NEW j \in 1 .. Len(s) + 1, i < j
        PROVE  t[i] < t[j]
    <3>1. i \in 1 .. Len(s) /\ t[i] = s[i]
      BY <1>1, <2>2
    <3>2. CASE j \in 1 .. Len(s)
      BY <1>1, <2>1, <2>2, <3>1, <3>2
    <3>3. CASE j = Len(s) + 1
      BY <1>1, <1>2, <3>1, <3>3
    <3> QED
      BY <1>1, <3>2, <3>3
  <2> QED
    BY <1>1, <2>2
<1>4. {t[i] : i \in DOMAIN t} = numbers \cup {x}
  <2>1. ASSUME NEW i \in DOMAIN t PROVE t[i] \in numbers \cup {x}
    BY <1>1, <1>2
  <2>2. ASSUME NEW y \in numbers PROVE \E i \in DOMAIN t : t[i] = y
    <3>1. PICK i \in 1 .. Len(s) : s[i] = y
      BY <1>1 DEF Lists
    <3>2. i \in DOMAIN t /\ t[i] = s[i]
      BY <1>1
    <3> QED
      BY <3>1, <3>2
  <2> QED
    BY <1>1, <2>1, <2>2
<1> QED
  BY <1>1, <1>3, <1>4 DEF Lists, t

--------------------------------------------------------------------------------
(* The ring buffer *)

\* A remainder is what is left when a multiple is taken away.
LEMMA Remainder ==
    ASSUME NEW n \in Nat \ {0}, NEW q \in Int, NEW r \in 0 .. n - 1
    PROVE  (n * q + r) % n = r
  OBVIOUS

\* Every number is a multiple and a remainder.
LEMMA Divided ==
    ASSUME NEW n \in Nat \ {0}, NEW a \in Nat
    PROVE  /\ a \div n \in Nat /\ a % n \in 0 .. n - 1
           /\ a = n * (a \div n) + (a % n)
  OBVIOUS

\* Where a ring of n places that has been given m numbers starts, and the place of the i-th
\* of the last n numbers.
StartOf(m, n) == m % n

PlaceOf(i, m, n) == (m - n + i - 1) % n

\* The places of a ring that has gone round, from the oldest number on.
LEMMA RingPlace ==
    ASSUME NEW n \in Nat \ {0}, NEW m \in Nat, m > n, NEW i \in 1 .. n
    PROVE  /\ i <= n - StartOf(m, n) => PlaceOf(i, m, n) = StartOf(m, n) + i - 1
           /\ ~(i <= n - StartOf(m, n)) => PlaceOf(i, m, n) = i - 1 - (n - StartOf(m, n))
<1> USE DEF PlaceOf
<1> DEFINE start == m % n
           q == m \div n
<1>1. q \in Nat /\ start \in 0 .. n - 1 /\ m = n * q + start
  BY Divided
<1> HIDE DEF q, start
<1>2. ASSUME i <= n - start PROVE (m - n + i - 1) % n = start + i - 1
  <2>1. m - n + i - 1 = n * (q - 1) + (start + i - 1)
    BY <1>1
  <2>2. start + i - 1 \in 0 .. n - 1 /\ q - 1 \in Int
    BY <1>1, <1>2
  <2>3. (n * (q - 1) + (start + i - 1)) % n = start + i - 1
    BY <2>2, Remainder
  <2> QED
    BY <2>1, <2>3
<1>3. ASSUME ~(i <= n - start) PROVE (m - n + i - 1) % n = i - 1 - (n - start)
  <2>1. m - n + i - 1 = n * q + (i - 1 - (n - start))
    BY <1>1
  <2>2. i - 1 - (n - start) \in 0 .. n - 1 /\ q \in Int
    BY <1>1, <1>3
  <2>3. (n * q + (i - 1 - (n - start))) % n = i - 1 - (n - start)
    BY <2>2, Remainder
  <2> QED
    BY <2>1, <2>3
<1> QED
  BY <1>2, <1>3 DEF start, StartOf

\* Two numbers less than a round apart have places of their own.
LEMMA OtherPlace ==
    ASSUME NEW n \in Nat \ {0}, NEW a \in Nat, NEW b \in Nat, a < b, b < a + n
    PROVE  a % n # b % n
<1> DEFINE qa == a \div n
           qb == b \div n
<1>1. /\ qa \in Nat /\ qb \in Nat /\ a % n \in Nat /\ b % n \in Nat
      /\ a = n * qa + (a % n) /\ b = n * qb + (b % n)
  BY Divided
<1> HIDE DEF qa, qb
<1>2. SUFFICES ASSUME a % n = b % n PROVE FALSE
  OBVIOUS
<1>3. b - a = n * (qb - qa)
  BY <1>1, <1>2
<1>4. qb - qa \in Int /\ (qb - qa >= 1 \/ qb - qa <= 0)
  BY <1>1
<1> QED
  BY <1>3, <1>4

\* Before the first round is over the place is the number itself.
LEMMA FirstPlace ==
    ASSUME NEW n \in Nat \ {0}, NEW a \in Nat, a < n
    PROVE  a % n = a
<1>1. (n * 0 + a) % n = a
  BY Remainder
<1> QED
  BY <1>1

--------------------------------------------------------------------------------
(* Pages and ends of a listing *)

\* What Drop returns: what is left after the first k.
LEMMA DropType ==
    ASSUME NEW s \in Seq(Nat), NEW k \in Nat,
           NEW len, len = (IF Len(s) > k THEN Len(s) - k ELSE 0)
    PROVE  Drop(s, k) = [i \in 1 .. len |-> s[k + i]]
  BY DEF Drop

\* What First returns: the first k, or fewer if there are no more.
LEMMA FirstType ==
    ASSUME NEW s \in Seq(Nat), NEW k \in Nat,
           NEW len, len = (IF Len(s) > k THEN k ELSE Len(s))
    PROVE  First(s, k) = [i \in 1 .. len |-> s[i]]
  BY DEF First

\* What Last returns: the last k, or all if there are no more.
LEMMA LastType ==
    ASSUME NEW s \in Seq(Nat), NEW k \in Nat
    PROVE  /\ Len(s) > k => Last(s, k) = [i \in 1 .. k |-> s[(Len(s) - k) + i]]
           /\ Len(s) <= k => Last(s, k) = s
<1>1. ASSUME Len(s) > k PROVE Last(s, k) = [i \in 1 .. k |-> s[(Len(s) - k) + i]]
  <2>1. PICK m \in Nat : m = Len(s)
    BY LenProperties
  <2>2. Last(s, k) = SubSeq(s, (m - k) + 1, m)
    BY <1>1, <2>1 DEF Last, Drop
  <2>3. SubSeq(s, (m - k) + 1, m) = [i \in 1 .. k |-> s[(m - k) + i]]
    BY <1>1, <2>1
  <2> QED
    BY <2>1, <2>2, <2>3
<1>2. ASSUME Len(s) <= k PROVE Last(s, k) = s
  BY <1>2 DEF Last
<1> QED
  BY <1>1, <1>2

\* Bounds past the end of a listing are its end.
LEMMA PastTheEnd ==
    ASSUME NEW s \in Seq(Nat), NEW numbers, Lists(s, numbers), NEW m \in Nat,
           NEW k \in Nat, Len(s) <= k
    PROVE  /\ Between(numbers, m, k) = Between(numbers, m, Len(s))
           /\ Greatest(numbers, k) = Greatest(numbers, Len(s))
           /\ Len(s) <= m => Between(numbers, m, k) = {}
<1>1. ASSUME NEW x \in numbers
      PROVE  /\ Cardinality(Below(numbers, x)) < Len(s)
             /\ Cardinality(Above(numbers, x)) < Len(s)
             /\ Cardinality(Below(numbers, x)) \in Nat
             /\ Cardinality(Above(numbers, x)) \in Nat
  <2>1. PICK i \in 1 .. Len(s) : x = s[i]
    BY <1>1 DEF Lists
  <2>2. Cardinality(Below(numbers, x)) = i - 1 /\ Cardinality(Above(numbers, x)) = Len(s) - i
    BY <2>1, PlaceOfListed
  <2> QED
    BY <2>2
<1>2. Len(s) \in Nat
  OBVIOUS
<1> QED
  BY <1>1, <1>2 DEF Between, Greatest

\* Dropping the first numbers and taking the first of the rest gives the page between.
LEMMA PageListed ==
    ASSUME NEW s \in Seq(Nat), NEW numbers, Lists(s, numbers),
           NEW from \in Nat, NEW len \in Nat
    PROVE  LET t == First(Drop(s, from), len)
           IN  /\ Lists(t, Between(numbers, from, from + len))
               /\ from + len <= Len(s) => Len(t) = len
<1> DEFINE rest == IF Len(s) > from THEN Len(s) - from ELSE 0
           d == Drop(s, from)
           l == IF rest > len THEN len ELSE rest
           t == First(d, len)
<1>1. d = [i \in 1 .. rest |-> s[from + i]]
  BY DropType
<1>2. /\ Len(s) \in Nat /\ rest \in Nat /\ l \in Nat /\ l <= rest
      /\ \A i \in 1 .. rest : from + i \in 1 .. Len(s)
  OBVIOUS
<1>3. d \in Seq(Nat) /\ Len(d) = rest
  BY <1>1, <1>2
<1> HIDE DEF d
<1>4. t = [i \in 1 .. l |-> d[i]]
  <2>1. l = (IF Len(d) > len THEN len ELSE Len(d))
    BY <1>3
  <2> HIDE DEF l, rest
  <2>2. First(d, len) = [i \in 1 .. l |-> d[i]]
    BY <1>3, <2>1, FirstType
  <2> QED
    BY <2>2
<1> HIDE DEF t, l, rest
<1>5. t = [i \in 1 .. l |-> s[from + i]]
  BY <1>1, <1>2, <1>4
<1>6. Len(t) = l
  BY <1>2, <1>4
<1>7. from + len <= Len(s) => Len(t) = len
  BY <1>2, <1>6 DEF l, rest
<1>8. CASE from <= Len(s)
  <2>1. from + l <= Len(s)
    BY <1>2, <1>8 DEF l, rest
  <2>2. Lists(t, Between(numbers, from, from + l))
    BY <1>2, <1>5, <2>1, StretchListed
  <2>3. CASE l = len
    BY <1>7, <2>2, <2>3 DEF t, d
  <2>4. CASE l # len
    <3>1. from + l = Len(s) /\ Len(s) <= from + len /\ from + len \in Nat
      BY <1>2, <1>8, <2>4 DEF l, rest
    <3>2. Between(numbers, from, from + len) = Between(numbers, from, Len(s))
      BY <3>1, PastTheEnd
    <3> QED
      BY <1>7, <2>2, <3>1, <3>2 DEF t, d
  <2> QED
    BY <2>3, <2>4
<1>9. CASE Len(s) < from
  <2>1. l = 0 /\ DOMAIN t = {}
    BY <1>2, <1>5, <1>9 DEF l, rest
  <2>2. Len(s) <= from + len /\ Len(s) <= from /\ from + len \in Nat
    BY <1>2, <1>9
  <2>3. Between(numbers, from, from + len) = {}
    BY <2>2, PastTheEnd
  <2>4. Lists(t, {})
    BY <2>1 DEF Lists
  <2> QED
    BY <1>7, <2>3, <2>4 DEF t, d
<1> QED
  BY <1>2, <1>8, <1>9

\* The listed numbers at the end are the greatest, however the listing is cut.
LEMMA EndListed ==
    ASSUME NEW s \in Seq(Nat), NEW numbers, Lists(s, numbers), NEW k \in Nat,
           NEW from \in Nat, NEW len \in Nat, from + len = Len(s),
           len = k \/ (from = 0 /\ len <= k),
           NEW t, t = [i \in 1 .. len |-> s[from + i]]
    PROVE  Lists(t, Greatest(numbers, k))
<1>1. Lists(t, Greatest(numbers, len))
  <2>1. from + len <= Len(s)
    OBVIOUS
  <2> QED
    BY <2>1, StretchListed
<1>2. CASE len = k
  BY <1>1, <1>2
<1>3. CASE from = 0 /\ len <= k
  <2>1. len = Len(s) /\ Len(s) <= k
    BY <1>3
  <2>2. Greatest(numbers, k) = Greatest(numbers, Len(s))
    BY <2>1, PastTheEnd
  <2> QED
    BY <1>1, <2>1, <2>2
<1> QED
  BY <1>2, <1>3

--------------------------------------------------------------------------------
(* Types, and what a delivered line changes *)

Match == [line : Nat, before : Seq(Nat), after : Seq(Nat)]

\* The types of the job, of the log and of the loops' variables.
ReadTypeOK ==
    /\ job \in Jobs
    /\ state \in {"reading", "done", "error"}
    /\ log \in Seq(Line) /\ eof \in BOOLEAN
    /\ ring \in [0 .. job.n - 1 -> Nat] /\ pos \in Nat
    /\ lines \in Seq(Nat)
    /\ before \in Seq(Nat) /\ results \in Seq(Match) /\ pending \in Nat
    /\ pending > 0 => results # <<>>

\* What is asked for are numbers.
LEMMA JobType ==
    ASSUME job \in Jobs
    PROVE  /\ job.n \in Nat \ {0} /\ job.offset \in Nat /\ job.context \in Nat
           /\ Fetch \in Nat \ {0} /\ Fetch = job.offset + job.n
           /\ job.source \in {"file", "journal"} /\ job.op \in {"tail", "head", "search"}
  BY ReadAssumptions DEF ReadAssumptions, Jobs, Fetch

KeptOf(l, from, to) == {i \in from .. to : l[i].inside}

\* A new line joins those kept from an earlier one on, if it is inside, and is the last.
LEMMA KeptGrows ==
    ASSUME NEW l \in Seq(Line), NEW line \in Line, NEW from \in Nat \ {0}, from <= Len(l) + 1
    PROVE  LET k == Append(l, line)
           IN  /\ k \in Seq(Line) /\ Len(k) = Len(l) + 1 /\ k[Len(k)] = line
               /\ \A i \in 1 .. Len(l) : k[i] = l[i]
               /\ line.inside => KeptOf(k, from, Len(k)) = KeptOf(l, from, Len(l)) \cup {Len(k)}
               /\ ~line.inside => KeptOf(k, from, Len(k)) = KeptOf(l, from, Len(l))
               /\ \A i \in KeptOf(l, from, Len(l)) : i < Len(k)
               /\ \A to \in 0 .. Len(l) : KeptOf(k, from, to) = KeptOf(l, from, to)
<1> DEFINE k == Append(l, line)
<1>1. /\ k \in Seq(Line) /\ Len(k) = Len(l) + 1 /\ k[Len(k)] = line /\ Len(l) \in Nat
      /\ \A i \in 1 .. Len(l) : k[i] = l[i]
  OBVIOUS
<1> HIDE DEF k
<1>2. \A to \in 0 .. Len(l) : KeptOf(k, from, to) = KeptOf(l, from, to)
  BY <1>1 DEF KeptOf
<1>3. \A i : i \in from .. Len(k) <=> i \in from .. Len(l) \/ i = Len(k)
  BY <1>1
<1>4. \A i \in from .. Len(l) : k[i] = l[i] /\ i < Len(k)
  BY <1>1
<1>5. CASE line.inside
  BY <1>1, <1>2, <1>3, <1>4, <1>5 DEF KeptOf
<1>6. CASE ~line.inside
  BY <1>1, <1>2, <1>3, <1>4, <1>6 DEF KeptOf
<1> QED
  BY <1>5, <1>6 DEF k

\* What Fed does: the number of the new line goes to the last result, if that is waiting.
LEMMA FedLast ==
    ASSUME ReadTypeOK, NEW line
    PROVE  /\ Fed(line) \in Seq(Match) /\ Len(Fed(line)) = Len(results)
           /\ \A i \in 1 .. Len(results) :
                 /\ Fed(line)[i].line = results[i].line
                 /\ Fed(line)[i].before = results[i].before
                 /\ i < Len(results) \/ pending = 0 => Fed(line)[i] = results[i]
           /\ pending > 0 => /\ Len(results) > 0
                             /\ Fed(line)[Len(results)].after
                                    = Append(results[Len(results)].after, Len(log) + 1)
<1>1. /\ results \in Seq(Match) /\ Len(results) \in Nat /\ pending \in Nat /\ Len(log) + 1 \in Nat
      /\ pending > 0 => Len(results) > 0
  BY DEF ReadTypeOK
<1>2. CASE pending > 0
  <2> DEFINE k == Len(results)
             last == results[k]
             fed == [last EXCEPT !.after = Append(@, Len(log) + 1)]
             t == [results EXCEPT ![k] = fed]
  <2>1. k \in 1 .. Len(results) /\ last \in Match
    BY <1>1, <1>2
  <2>2. last.after \in Seq(Nat) /\ Append(last.after, Len(log) + 1) \in Seq(Nat)
    BY <1>1, <2>1 DEF Match
  <2>3. /\ fed \in Match /\ fed.line = last.line /\ fed.before = last.before
        /\ fed.after = Append(last.after, Len(log) + 1)
    <3> HIDE DEF last
    <3> QED
      BY <2>1, <2>2 DEF Match
  <2>4. Fed(line) = t
    BY <1>2 DEF Fed
  <2> HIDE DEF fed
  <2>5. /\ t \in Seq(Match) /\ Len(t) = Len(results) /\ t[k] = fed
        /\ \A i \in 1 .. Len(results) : i # k => t[i] = results[i]
    BY <1>1, <2>1, <2>3
  <2> HIDE DEF t
  <2> QED
    BY <1>1, <1>2, <2>1, <2>3, <2>4, <2>5
<1>3. CASE pending = 0
  BY <1>1, <1>3 DEF Fed
<1> QED
  BY <1>1, <1>2, <1>3

\* The types hold at the start.
LEMMA InitReadTypes == ASSUME ReadInit PROVE ReadTypeOK
<1>1. /\ job \in Jobs /\ state = "reading" /\ log = <<>> /\ eof = FALSE
      /\ pos = 0 /\ lines = <<>> /\ before = <<>> /\ results = <<>> /\ pending = 0
      /\ ring \in [0 .. job.n - 1 -> Nat]
  BY DEF ReadInit
<1>2. log \in Seq(Line) /\ lines \in Seq(Nat) /\ before \in Seq(Nat)
  BY <1>1
<1>3. results \in Seq(Match)
  BY <1>1
<1>4. pending \in Nat /\ pos \in Nat /\ ~(pending > 0)
  BY <1>1
<1>5. eof \in BOOLEAN
  BY <1>1, Zenon
<1>6. state \in {"reading", "done", "error"}
  BY <1>1
<1> QED
  BY <1>1, <1>2, <1>3, <1>4, <1>6, <1>5, Zenon DEF ReadTypeOK

\* Every step keeps the types.
LEMMA NextReadTypes == ASSUME ReadTypeOK, [ReadNext]_readVars PROVE ReadTypeOK'
<1>1. /\ job.n \in Nat \ {0} /\ job.offset \in Nat /\ job.context \in Nat
  BY JobType DEF ReadTypeOK
<1>2. ASSUME NEW line \in Line, Deliver(line)
      PROVE  log' \in Seq(Line) /\ Len(log') \in Nat /\ eof' = eof
  BY <1>2 DEF Deliver, ReadTypeOK
<1>3. ASSUME NEW line \in Line, ScanTail(line) PROVE ReadTypeOK'
  <2>1. pos % job.n \in 0 .. job.n - 1
    BY <1>1, Divided DEF ReadTypeOK
  <2>2. CASE line.inside
    <3>1. ring' = [ring EXCEPT ![pos % job.n] = Len(log')] /\ pos' = pos + 1
      BY <1>3, <2>2 DEF ScanTail
    <3>2. ring' \in [0 .. job.n - 1 -> Nat] /\ pos' \in Nat
      BY <1>2, <1>3, <2>1, <3>1 DEF ReadTypeOK
    <3> QED
      BY <1>2, <1>3, <3>2 DEF ScanTail, ReadTypeOK, Search
  <2>3. CASE ~line.inside
    BY <1>2, <1>3, <2>3 DEF ScanTail, ReadTypeOK, Search, Ring
  <2> QED
    BY <2>2, <2>3
<1>4. ASSUME NEW line \in Line, ScanHead(line) PROVE ReadTypeOK'
  BY <1>2, <1>4 DEF ScanHead, ReadTypeOK, Search, Ring
<1>5. ASSUME NEW line \in Line, ScanSearch(line) PROVE ReadTypeOK'
  <2>1. Slide(Len(log')) \in Seq(Nat)
    BY <1>1, <1>2, <1>5 DEF ScanSearch, Slide, ReadTypeOK
  <2>2. Fed(line) \in Seq(Match) /\ Len(Fed(line)) = Len(results)
    BY FedLast
  <2>3. ASSUME line.inside, line.hit
        PROVE  results' \in Seq(Match) /\ results' # <<>> /\ pending' \in Nat
    <3> DEFINE r == [line |-> Len(log'), before |-> before, after |-> <<>>]
    <3>1. r \in Match
      BY <1>2, <1>5 DEF Match, ReadTypeOK
    <3>2. results' = Append(Fed(line), r) /\ pending' = job.context
      BY <1>5, <2>3 DEF ScanSearch
    <3> HIDE DEF r
    <3> QED
      BY <1>1, <2>2, <3>1, <3>2
  <2>4. ASSUME line.inside, ~line.hit
        PROVE  /\ results' \in Seq(Match) /\ pending' \in Nat
               /\ pending' > 0 => results' # <<>>
    <3>1. results' = Fed(line) /\ pending' = (IF pending > 0 THEN pending - 1 ELSE 0)
      BY <1>5, <2>4 DEF ScanSearch
    <3>2. pending > 0 => Len(results) > 0
      BY FedLast
    <3> QED
      BY <2>2, <3>1, <3>2 DEF ReadTypeOK
  <2>5. ASSUME ~line.inside PROVE results' = results /\ pending' = pending
    BY <1>5, <2>5 DEF ScanSearch
  <2>6. /\ results' \in Seq(Match) /\ pending' \in Nat
        /\ pending' > 0 => results' # <<>>
    BY <2>3, <2>4, <2>5 DEF ReadTypeOK
  <2>7. /\ before' \in Seq(Nat)
        /\ UNCHANGED <<job, state, ring, pos, lines>>
    BY <1>5, <2>1 DEF ScanSearch, Ring
  <2> QED
    BY <1>2, <1>5, <2>6, <2>7 DEF ScanSearch, ReadTypeOK
<1>6. CASE ReturnTail \/ ReturnHead \/ ReturnMatches \/ EndOfSource \/ Fail
  BY <1>6 DEF ReturnTail, ReturnHead, ReturnMatches, EndOfSource, Fail, ReadTypeOK, Ring, Search
<1>7. CASE UNCHANGED readVars
  BY <1>7 DEF readVars, ReadTypeOK
<1> QED
  BY <1>3, <1>4, <1>5, <1>6, <1>7 DEF ReadNext, ScanLine, Return

\* A delivered line is the last of the log, and kept if it is inside.
LEMMA Delivered ==
    ASSUME ReadTypeOK, NEW line \in Line, Deliver(line)
    PROVE  /\ log' \in Seq(Line) /\ Len(log) \in Nat /\ Len(log') = Len(log) + 1
           /\ log' = Append(log, line) /\ log'[Len(log')] = line
           /\ \A i \in 1 .. Len(log) : log'[i] = log[i]
           /\ line.inside => AllKept' = AllKept \cup {Len(log')}
           /\ ~line.inside => AllKept' = AllKept
           /\ \A i \in AllKept : i < Len(log')
           /\ job.source = "journal" => line.inside
<1>1. /\ log \in Seq(Line) /\ Len(log) \in Nat /\ 1 \in Nat \ {0} /\ 1 <= Len(log) + 1
      /\ log' = Append(log, line) /\ (job.source = "journal" => line.inside)
  BY DEF ReadTypeOK, Deliver
<1>2. AllKept = KeptOf(log, 1, Len(log)) /\ AllKept' = KeptOf(log', 1, Len(log'))
  BY DEF AllKept, Kept, KeptOf
<1>3. /\ log' \in Seq(Line) /\ Len(log') = Len(log) + 1 /\ log'[Len(log')] = line
      /\ \A i \in 1 .. Len(log) : log'[i] = log[i]
      /\ line.inside => KeptOf(log', 1, Len(log')) = KeptOf(log, 1, Len(log)) \cup {Len(log')}
      /\ ~line.inside => KeptOf(log', 1, Len(log')) = KeptOf(log, 1, Len(log))
      /\ \A i \in KeptOf(log, 1, Len(log)) : i < Len(log')
  BY <1>1, KeptGrows
<1> QED
  BY <1>1, <1>2, <1>3

--------------------------------------------------------------------------------
(* read_log *)

\* Of the lines kept, in order, the ring has the last n, each at the place of its number.
InRing(s) ==
    /\ Lists(s, AllKept) /\ Len(s) = pos
    /\ \A k \in 1 .. pos : k + job.n > pos => ring[(k - 1) % job.n] = s[k]

\* What the loops have collected.
Collected ==
    /\ job.source = "journal" => \A i \in 1 .. Len(log) : log[i].inside
    /\ job.op = "tail" => \E s \in Seq(Nat) : InRing(s)
    /\ job.op = "head" => Lists(lines, AllKept)

ReadInv == ReadTypeOK /\ Collected /\ ReadExact

\* The empty sequence lists nothing.
LEMMA ListedEmpty == <<>> \in Seq(Nat) /\ Len(<<>>) = 0 /\ Lists(<<>>, {})
  BY DEF Lists

\* Nothing is collected before the first line.
LEMMA InitReadInv == ASSUME ReadInit PROVE ReadInv
<1>1. ReadTypeOK
  BY InitReadTypes
<1>2. log = <<>> /\ lines = <<>> /\ pos = 0 /\ state = "reading" /\ Len(log) = 0
  BY DEF ReadInit
<1>3. AllKept = {} /\ 1 .. Len(log) = {} /\ 1 .. pos = {}
  BY <1>2 DEF AllKept, Kept
<1>4. InRing(<<>>)
  BY <1>2, <1>3, ListedEmpty DEF InRing
<1>5. Collected
  BY <1>2, <1>3, <1>4, ListedEmpty DEF Collected
<1>6. ReadExact
  BY <1>2 DEF ReadExact, TailIsLast, HeadIsPage, Done
<1> QED
  BY <1>1, <1>5, <1>6 DEF ReadInv

\* A line goes into the ring over the one that is n lines older.
LEMMA TailCollects ==
    ASSUME ReadInv, NEW line \in Line, ScanTail(line)
    PROVE  Collected'
<1>1. /\ ReadTypeOK /\ Deliver(line) /\ job.op = "tail" /\ UNCHANGED job
      /\ job.n \in Nat \ {0} /\ pos \in Nat
  BY JobType DEF ReadInv, ReadTypeOK, ScanTail, Reading
<1>2. /\ Len(log) \in Nat /\ Len(log') = Len(log) + 1 /\ log'[Len(log')] = line
      /\ \A i \in 1 .. Len(log) : log'[i] = log[i]
      /\ line.inside => AllKept' = AllKept \cup {Len(log')}
      /\ ~line.inside => AllKept' = AllKept
      /\ \A i \in AllKept : i < Len(log')
      /\ job.source = "journal" => line.inside
  BY <1>1, Delivered
<1>3. PICK s \in Seq(Nat) : InRing(s)
  BY <1>1 DEF ReadInv, Collected
<1>4. \E t \in Seq(Nat) : InRing(t)'
  <2>1. CASE line.inside
    <3> DEFINE t == Append(s, Len(log'))
               p == pos % job.n
    <3>1. t \in Seq(Nat) /\ Lists(t, AllKept')
      BY <1>2, <1>3, <2>1, ListedAppend DEF InRing
    <3>2. /\ Len(s) = pos /\ Len(t) = pos + 1 /\ t[pos + 1] = Len(log')
          /\ \A k \in 1 .. pos : t[k] = s[k]
      BY <1>1, <1>2, <1>3 DEF InRing
    <3>3. ring' = [ring EXCEPT ![p] = Len(log')] /\ pos' = pos + 1
      BY <1>1, <2>1 DEF ScanTail
    <3>4. p \in 0 .. job.n - 1 /\ \A i \in 0 .. job.n - 1 : ring'[i] = IF i = p THEN Len(log') ELSE ring[i]
      <4>1. p \in 0 .. job.n - 1
        BY <1>1, Divided
      <4> HIDE DEF p
      <4> QED
        BY <1>1, <3>3, <4>1 DEF ReadTypeOK
    <3> HIDE DEF t, p
    <3>5. ASSUME NEW k \in 1 .. pos + 1, k + job.n > pos + 1
          PROVE  ring'[(k - 1) % job.n] = t[k]
      <4>1. CASE k = pos + 1
        BY <1>1, <3>2, <3>4, <4>1 DEF p
      <4>2. CASE k \in 1 .. pos
        <5>1. k - 1 \in Nat /\ k - 1 < pos /\ pos < (k - 1) + job.n /\ k + job.n > pos
          BY <1>1, <3>5, <4>2
        <5>2. (k - 1) % job.n # p
          BY <1>1, <5>1, OtherPlace DEF p
        <5>3. (k - 1) % job.n \in 0 .. job.n - 1
          BY <1>1, <5>1, Divided
        <5>4. ring[(k - 1) % job.n] = s[k]
          BY <1>3, <4>2, <5>1 DEF InRing
        <5> QED
          BY <3>2, <3>4, <4>2, <5>2, <5>3, <5>4
      <4> QED
        BY <1>1, <4>1, <4>2
    <3>6. PICK u \in Seq(Nat) : u = t
      BY <3>1
    <3>7. InRing(u)'
      BY <1>1, <3>1, <3>2, <3>3, <3>5, <3>6 DEF InRing
    <3> QED
      BY <3>7
  <2>2. CASE ~line.inside
    <3>1. UNCHANGED <<ring, pos>>
      BY <2>2 DEF ScanTail, Ring
    <3>2. InRing(s)'
      BY <1>1, <1>2, <1>3, <2>2, <3>1 DEF InRing
    <3> QED
      BY <3>2
  <2> QED
    BY <2>1, <2>2
<1>5. job.source = "journal" => \A i \in 1 .. Len(log') : log'[i].inside
  BY <1>2 DEF ReadInv, Collected
<1> QED
  BY <1>1, <1>4, <1>5 DEF Collected

\* Head mode keeps every line that is inside.
LEMMA HeadCollects ==
    ASSUME ReadInv, NEW line \in Line, ScanHead(line)
    PROVE  Collected'
<1>1. /\ ReadTypeOK /\ Deliver(line) /\ job.op = "head" /\ UNCHANGED job /\ lines \in Seq(Nat)
      /\ lines' = (IF line.inside THEN Append(lines, Len(log')) ELSE lines)
  BY DEF ReadInv, ReadTypeOK, ScanHead, Reading
<1>2. /\ Len(log) \in Nat /\ Len(log') = Len(log) + 1 /\ log'[Len(log')] = line
      /\ \A i \in 1 .. Len(log) : log'[i] = log[i]
      /\ line.inside => AllKept' = AllKept \cup {Len(log')}
      /\ ~line.inside => AllKept' = AllKept
      /\ \A i \in AllKept : i < Len(log')
      /\ job.source = "journal" => line.inside
  BY <1>1, Delivered
<1>3. Lists(lines, AllKept)
  BY <1>1 DEF ReadInv, Collected
<1>4. Len(log') \in Nat
  BY <1>2
<1>5. Lists(lines', AllKept')
  BY <1>1, <1>2, <1>3, <1>4, ListedAppend
<1>6. ASSUME job.source = "journal", NEW i \in 1 .. Len(log') PROVE log'[i].inside
  <2>1. i \in 1 .. Len(log) \/ i = Len(log')
    BY <1>2
  <2>2. i \in 1 .. Len(log) => log[i].inside
    BY <1>6 DEF ReadInv, Collected
  <2> QED
    BY <1>2, <1>6, <2>1, <2>2
<1>7. (Lists(lines, AllKept))'
  BY <1>5 DEF Lists
<1> QED
  BY <1>1, <1>6, <1>7 DEF Collected

\* A search keeps its lines inside, too.
LEMMA SearchCollects ==
    ASSUME ReadInv, NEW line \in Line, ScanSearch(line)
    PROVE  Collected'
<1>1. ReadTypeOK /\ Deliver(line) /\ job.op = "search" /\ UNCHANGED job
  BY DEF ReadInv, ScanSearch, Reading
<1>2. /\ Len(log) \in Nat /\ Len(log') = Len(log) + 1 /\ log'[Len(log')] = line
      /\ \A i \in 1 .. Len(log) : log'[i] = log[i]
      /\ job.source = "journal" => line.inside
  BY <1>1, Delivered
<1>3. job.source = "journal" => \A i \in 1 .. Len(log') : log'[i].inside
  BY <1>2 DEF ReadInv, Collected
<1> QED
  BY <1>1, <1>3 DEF Collected

\* The copies out of the ring put the last lines in order.
LEMMA UnrolledListed ==
    ASSUME ReadTypeOK, NEW s \in Seq(Nat), InRing(s)
    PROVE  Lists(Unrolled, Greatest(AllKept, job.n))
<1>1. /\ job.n \in Nat \ {0} /\ job.n \in Nat /\ pos \in Nat /\ Len(s) = pos /\ Lists(s, AllKept)
      /\ \A k \in 1 .. pos : k + job.n > pos => ring[(k - 1) % job.n] = s[k]
  BY JobType DEF ReadTypeOK, InRing
<1>2. CASE pos <= job.n
  <2>1. \A i \in 1 .. pos : ring[i - 1] = s[0 + i]
    <3>1. TAKE i \in 1 .. pos
    <3>2. i - 1 \in Nat /\ i - 1 < job.n /\ i + job.n > pos /\ 0 + i = i
      BY <1>1, <1>2, <3>1
    <3>3. (i - 1) % job.n = i - 1
      BY <1>1, <3>2, FirstPlace
    <3> QED
      BY <1>1, <3>1, <3>2, <3>3
  <2>2. Unrolled = [i \in 1 .. pos |-> ring[i - 1]]
    BY <1>2 DEF Unrolled
  <2>3. Unrolled = [i \in 1 .. pos |-> s[0 + i]]
    BY <2>1, <2>2
  <2>4. 0 + pos = Len(s)
    BY <1>1
  <2> QED
    BY <1>1, <1>2, <2>3, <2>4, EndListed
<1>3. CASE pos > job.n
  <2>1. PICK n \in Nat \ {0} : n = job.n
    BY <1>1
  <2>2. PICK from \in Nat : from = pos - n /\ from + n = Len(s)
    <3>1. pos - n \in Nat /\ (pos - n) + n = pos
      BY <1>1, <1>3, <2>1
    <3> QED
      BY <1>1, <3>1
  <2>3. PICK start : start = StartOf(pos, n)
    OBVIOUS
  <2>4. ASSUME NEW i \in 1 .. n
        PROVE  /\ i <= n - start => ring[start + i - 1] = s[from + i]
               /\ ~(i <= n - start) => ring[i - 1 - (n - start)] = s[from + i]
    <3>1. /\ i <= n - start => PlaceOf(i, pos, n) = start + i - 1
          /\ ~(i <= n - start) => PlaceOf(i, pos, n) = i - 1 - (n - start)
      <4>1. pos > n /\ pos \in Nat
        BY <1>1, <1>3, <2>1
      <4>2. /\ i <= n - StartOf(pos, n) => PlaceOf(i, pos, n) = StartOf(pos, n) + i - 1
            /\ ~(i <= n - StartOf(pos, n)) => PlaceOf(i, pos, n) = i - 1 - (n - StartOf(pos, n))
        BY <4>1, RingPlace
      <4> QED
        BY <2>3, <4>2
    <3>2. (from + i) - 1 = pos - n + i - 1
      BY <1>1, <2>1, <2>2
    <3>3. from + i \in 1 .. pos /\ (from + i) + n > pos
      BY <1>1, <2>2
    <3>4. ring[((from + i) - 1) % n] = s[from + i]
      BY <1>1, <2>1, <3>3
    <3> QED
      BY <3>1, <3>2, <3>4 DEF PlaceOf
  <2>5. Unrolled = [i \in 1 .. n |->
                       IF i <= n - start THEN ring[start + i - 1] ELSE ring[i - 1 - (n - start)]]
    <3>1. ~(pos <= job.n)
      BY <1>1, <1>3
    <3> QED
      BY <2>1, <2>3, <3>1 DEF Unrolled, StartOf
  <2>6. Unrolled = [i \in 1 .. n |-> s[from + i]]
    BY <2>4, <2>5
  <2>7. n \in Nat
    BY <2>1
  <2> QED
    BY <1>1, <2>1, <2>2, <2>6, <2>7, EndListed
<1> QED
  BY <1>1, <1>2, <1>3

\* The last lines without the first of them: all that is left if there were too few, and
\* the end of them if not.
LEMMA LastDropped ==
    ASSUME NEW s \in Seq(Nat), NEW numbers, Lists(s, numbers),
           NEW n \in Nat \ {0}, NEW offset \in Nat, NEW fetch, fetch = offset + n
    PROVE  LET tail == Last(Drop(Last(s, fetch), offset), n)
           IN  /\ Len(s) < fetch => Lists(tail, Between(numbers, offset, fetch))
               /\ Len(s) >= fetch => Lists(tail, Greatest(numbers, n))
<1>1. n \in Nat /\ fetch \in Nat /\ Len(s) \in Nat
  OBVIOUS
<1>2. ASSUME Len(s) < fetch
      PROVE  Lists(Last(Drop(s, offset), n), Between(numbers, offset, fetch))
  <2>1. Lists(First(Drop(s, offset), n), Between(numbers, offset, fetch))
    BY <1>1, PageListed
  <2>2. PICK k : k = (IF Len(s) > offset THEN Len(s) - offset ELSE 0)
    OBVIOUS
  <2>3. PICK rest : rest = Drop(s, offset)
    OBVIOUS
  <2>4. rest = [i \in 1 .. k |-> s[offset + i]]
    BY <2>2, <2>3, DropType
  <2>5. k \in Nat /\ k <= n /\ \A i \in 1 .. k : offset + i \in 1 .. Len(s)
    BY <1>1, <1>2, <2>2
  <2>6. rest \in Seq(Nat) /\ Len(rest) = k
    BY <2>4, <2>5
  <2>7. Last(rest, n) = rest
    BY <1>1, <2>5, <2>6, LastType
  <2>8. k = (IF Len(rest) > n THEN n ELSE Len(rest))
    BY <1>1, <2>5, <2>6
  <2>9. First(rest, n) = [i \in 1 .. k |-> rest[i]]
    BY <1>1, <2>6, <2>8, FirstType
  <2>10. First(rest, n) = rest
    BY <2>5, <2>6, <2>9
  <2> QED
    BY <2>1, <2>3, <2>7, <2>10
<1>3. ASSUME Len(s) < fetch PROVE Last(s, fetch) = s
  BY <1>1, <1>3, LastType
<1>4. ASSUME Len(s) >= fetch
      PROVE  Lists(Last(Drop(Last(s, fetch), offset), n), Greatest(numbers, n))
  <2>1. PICK from \in Nat : from + fetch = Len(s)
    <3>1. Len(s) - fetch \in Nat /\ (Len(s) - fetch) + fetch = Len(s)
      BY <1>1, <1>4
    <3> QED
      BY <3>1
  <2>2. PICK all : all = Last(s, fetch)
    OBVIOUS
  <2>3. all = [i \in 1 .. fetch |-> s[from + i]]
    <3>1. CASE Len(s) > fetch
      <4>1. Last(s, fetch) = [i \in 1 .. fetch |-> s[(Len(s) - fetch) + i]]
        BY <1>1, <3>1, LastType
      <4>2. Len(s) - fetch = from
        BY <1>1, <2>1
      <4> QED
        BY <2>2, <4>1, <4>2
    <3>2. CASE Len(s) = fetch
      <4>1. all = s
        BY <1>1, <2>2, <3>2, LastType
      <4>2. \A i \in 1 .. fetch : from + i = i
        BY <1>1, <2>1, <3>2
      <4> QED
        BY <1>1, <3>2, <4>1, <4>2
    <3> QED
      BY <1>1, <1>4, <3>1, <3>2
  <2>4. all \in Seq(Nat) /\ Len(all) = fetch
    BY <1>1, <2>1, <2>3
  <2>5. n = (IF Len(all) > offset THEN Len(all) - offset ELSE 0)
    BY <1>1, <2>4
  <2>6. PICK rest : rest = Drop(all, offset)
    OBVIOUS
  <2>7. rest = [i \in 1 .. n |-> all[offset + i]]
    BY <1>1, <2>4, <2>5, <2>6, DropType
  <2>8. PICK skip \in Nat : skip = from + offset
    BY <2>1
  <2>9. \A i \in 1 .. n : /\ offset + i \in 1 .. fetch /\ from + (offset + i) = skip + i
                          /\ skip + i \in 1 .. Len(s)
    BY <1>1, <2>1, <2>8
  <2>10. rest = [i \in 1 .. n |-> s[skip + i]]
    BY <2>3, <2>7, <2>9
  <2>11. rest \in Seq(Nat) /\ Len(rest) = n
    BY <1>1, <2>9, <2>10
  <2>12. Last(rest, n) = rest
    BY <1>1, <2>11, LastType
  <2>13. skip + n = Len(s)
    BY <1>1, <2>1, <2>8
  <2>14. Lists(rest, Greatest(numbers, n))
    BY <1>1, <2>10, <2>13, EndListed
  <2> QED
    BY <2>2, <2>6, <2>12, <2>14
<1> QED
  BY <1>2, <1>3, <1>4

\* What is left of the last lines of journalctl.
LEMMA JournalTailListed ==
    ASSUME ReadTypeOK, AllKept = 1 .. Len(log)
    PROVE  LET tail == Last(Drop(JournalTail, job.offset), job.n)
               short == Cardinality(AllKept) < Fetch
           IN  IF short THEN Lists(tail, Between(AllKept, job.offset, Fetch))
               ELSE Lists(tail, Greatest(AllKept, job.n))
<1>1. /\ Len(log) \in Nat /\ job.n \in Nat \ {0} /\ job.offset \in Nat
      /\ Fetch \in Nat /\ Fetch = job.offset + job.n
  BY JobType DEF ReadTypeOK
<1>2. PICK ids : ids = [i \in 1 .. Len(log) |-> i]
  OBVIOUS
<1>3. ids \in Seq(Nat) /\ Len(ids) = Len(log) /\ Lists(ids, AllKept)
  BY <1>1, <1>2 DEF Lists
<1>4. Cardinality(AllKept) = Len(log)
  BY <1>3, CountOfListed
<1>5. PICK tail : tail = Last(Drop(Last(ids, Fetch), job.offset), job.n)
  OBVIOUS
<1>6. /\ Len(ids) < Fetch => Lists(tail, Between(AllKept, job.offset, Fetch))
      /\ Len(ids) >= Fetch => Lists(tail, Greatest(AllKept, job.n))
  BY <1>1, <1>3, <1>5, LastDropped
<1>7. Last(Drop(JournalTail, job.offset), job.n) = tail
  BY <1>2, <1>5 DEF JournalTail
<1> QED
  BY <1>1, <1>3, <1>4, <1>6, <1>7

\* Nothing that an answer is compared with moves once it is there.
LEMMA StillCollected ==
    ASSUME ReadInv, UNCHANGED <<job, log, Ring, lines>>
    PROVE  Collected' /\ AllKept' = AllKept /\ Fetch' = Fetch
<1>1. AllKept' = AllKept /\ Fetch' = Fetch
  BY DEF AllKept, Kept, Fetch
<1>2. \A s : InRing(s)' = InRing(s)
  BY <1>1 DEF InRing, Ring
<1> QED
  BY <1>1, <1>2 DEF ReadInv, Collected

\* Without an offset no more lines are fetched than asked for.
LEMMA FetchOfNoOffset == ASSUME job \in Jobs, job.offset = 0 PROVE Fetch = job.n
<1>1. \A n, offset \in Nat : offset = 0 => n + offset = n
  OBVIOUS
<1>2. job.n \in Nat /\ job.offset \in Nat
  BY JobType
<1> QED
  BY <1>1, <1>2, Zenon DEF Fetch

\* The lines up to the m-th are m.
LEMMA IntervalCount == \A m \in Nat : Cardinality(1 .. m) = m
  BY FS_Interval

\* Of fewer lines than asked for, those from the first on are the last ones.
LEMMA ShortTail ==
    ASSUME NEW m \in Nat, NEW n \in Nat, m < n
    PROVE  Between(1 .. m, 0, n) = Greatest(1 .. m, n)
<1>1. IsFiniteSet(1 .. m) /\ Cardinality(1 .. m) = m
  BY FS_Interval
<1>2. ASSUME NEW S \in SUBSET (1 .. m)
      PROVE  Cardinality(S) \in Nat /\ 0 <= Cardinality(S) /\ Cardinality(S) < n
  <2>1. IsFiniteSet(S) /\ Cardinality(S) <= m
    BY <1>1, FS_Subset
  <2>2. Cardinality(S) \in Nat
    BY <2>1, FS_CardinalityType
  <2> QED
    BY <2>1, <2>2
<1>3. \A i \in 1 .. m :
          Below(1 .. m, i) \in SUBSET (1 .. m) /\ Above(1 .. m, i) \in SUBSET (1 .. m)
  BY DEF Below, Above
<1> QED
  BY <1>2, <1>3 DEF Between, Greatest

\* Every step keeps what is collected in order, and an answer is taken from that.
LEMMA NextReadInv == ASSUME ReadInv, [ReadNext]_readVars PROVE ReadInv'
<1>1. ReadTypeOK /\ ReadTypeOK'
  BY NextReadTypes DEF ReadInv
<1>2. ASSUME state' # "done" PROVE ReadExact'
  BY <1>2 DEF ReadExact, TailIsLast, HeadIsPage, Done
<1>3. ASSUME NEW line \in Line, ScanLine(line) PROVE ReadInv'
  <2>1. state' # "done"
    BY <1>3 DEF ScanLine, ScanTail, ScanHead, ScanSearch, Reading
  <2>2. Collected'
    BY <1>3, TailCollects, HeadCollects, SearchCollects DEF ScanLine
  <2> QED
    BY <1>1, <1>2, <2>1, <2>2 DEF ReadInv
<1>4. CASE EndOfSource \/ Fail
  <2>1. state' # "done" /\ UNCHANGED <<job, log, Ring, lines>>
    BY <1>4 DEF EndOfSource, Fail
  <2> QED
    BY <1>1, <1>2, <2>1, StillCollected DEF ReadInv
<1>5. CASE ReturnMatches
  <2>1. job'.op = "search" /\ UNCHANGED <<job, log, Ring, lines>>
    BY <1>5 DEF ReturnMatches, Reading
  <2>2. ReadExact'
    BY <2>1 DEF ReadExact, TailIsLast, HeadIsPage, Done
  <2> QED
    BY <1>1, <2>1, <2>2, StillCollected DEF ReadInv
<1>6. CASE ReturnTail
  <2>1. /\ job.op = "tail" /\ UNCHANGED <<job, log, Ring, lines>>
        /\ answer' = (IF job.source = "file" THEN Unrolled
                      ELSE Last(Drop(JournalTail, job.offset), job.n))
    BY <1>6 DEF ReturnTail, Reading
  <2>2. Collected' /\ AllKept' = AllKept /\ Fetch' = Fetch
    BY <2>1, StillCollected
  <2>3. ASSUME job.source = "file" PROVE Lists(answer', Greatest(AllKept, job.n))
    <3>1. PICK s \in Seq(Nat) : InRing(s)
      BY <2>1 DEF ReadInv, Collected
    <3> QED
      BY <1>1, <2>1, <2>3, <3>1, UnrolledListed
  <2>4. ASSUME job.source = "journal", job.offset = 0
        PROVE  Lists(answer', Greatest(AllKept, job.n))
    <3>1. AllKept = 1 .. Len(log)
      BY <2>4 DEF ReadInv, Collected, AllKept, Kept
    <3>2. answer' = Last(Drop(JournalTail, job.offset), job.n)
      BY <2>1, <2>4
    <3>3. IF Cardinality(AllKept) < Fetch
          THEN Lists(answer', Between(AllKept, job.offset, Fetch))
          ELSE Lists(answer', Greatest(AllKept, job.n))
      BY <1>1, <3>1, <3>2, JournalTailListed
    <3>4. PICK m \in Nat : m = Len(log)
      BY <1>1 DEF ReadTypeOK
    <3>5. PICK n \in Nat : n = job.n
      BY <1>1, JobType DEF ReadTypeOK
    <3>6. Fetch = n
      BY <1>1, <2>4, <3>5, FetchOfNoOffset DEF ReadTypeOK
    <3>7. m < n => Between(AllKept, job.offset, Fetch) = Greatest(AllKept, job.n)
      BY <2>4, <3>1, <3>4, <3>5, <3>6, ShortTail
    <3>8. Cardinality(AllKept) = m
      BY <3>1, <3>4, IntervalCount, Zenon
    <3> QED
      BY <3>3, <3>5, <3>6, <3>7, <3>8
  <2>5. job.source \in {"file", "journal"}
    BY <1>1, JobType DEF ReadTypeOK
  <2>6. TailIsLast'
    BY <2>1, <2>2, <2>3, <2>4, <2>5 DEF TailIsLast, Lists
  <2>7. HeadIsPage'
    BY <2>1 DEF HeadIsPage, Done
  <2> QED
    BY <1>1, <2>2, <2>6, <2>7 DEF ReadInv, ReadExact
<1>7. CASE ReturnHead
  <2>1. /\ job.op = "head" /\ UNCHANGED <<job, log, eof, Ring, lines>>
        /\ eof \/ Len(lines) >= Fetch
        /\ answer' = First(Drop(lines, job.offset), job.n)
    BY <1>7 DEF ReturnHead, Reading
  <2>2. Collected' /\ AllKept' = AllKept /\ Fetch' = Fetch
    BY <2>1, StillCollected
  <2>3. /\ lines \in Seq(Nat) /\ Lists(lines, AllKept)
        /\ job.n \in Nat /\ job.offset \in Nat /\ Fetch = job.offset + job.n
    BY <1>1, <2>1, JobType DEF ReadInv, Collected, ReadTypeOK
  <2>4. /\ Lists(answer', Between(AllKept, job.offset, Fetch))
        /\ Fetch <= Len(lines) => Len(answer') = job.n
    BY <2>1, <2>3, PageListed
  <2>5. eof' = eof /\ (~eof => Len(answer') = job.n)
    BY <2>1, <2>3, <2>4
  <2>6. HeadIsPage'
    BY <2>1, <2>2, <2>4, <2>5 DEF HeadIsPage, Lists
  <2>7. TailIsLast'
    BY <2>1 DEF TailIsLast, Done
  <2> QED
    BY <1>1, <2>2, <2>6, <2>7 DEF ReadInv, ReadExact
<1>8. CASE UNCHANGED readVars
  <2>1. UNCHANGED <<job, log, Ring, lines>> /\ UNCHANGED <<state, eof, answer>>
    BY <1>8 DEF readVars, Ring
  <2>2. Collected' /\ AllKept' = AllKept /\ Fetch' = Fetch
    BY <2>1, StillCollected
  <2>3. ReadExact'
    BY <2>1, <2>2 DEF ReadInv, ReadExact, TailIsLast, HeadIsPage, Done, Lists
  <2> QED
    BY <1>1, <2>2, <2>3 DEF ReadInv
<1> QED
  BY <1>3, <1>4, <1>5, <1>6, <1>7, <1>8 DEF ReadNext, Return

\* What read_log returns is the end of the lines that the time window lets through, or,
\* from the beginning, the page asked for, however often the ring went round and wherever
\* the source ended.
THEOREM ReadsExactly == ReadSpec => []ReadExact
<1>1. ReadInv => ReadExact
  BY DEF ReadInv
<1> QED
  BY <1>1, InitReadInv, NextReadInv, PTL DEF ReadSpec

--------------------------------------------------------------------------------
(* search_log *)

Preceding(here, c) == {j \in 1 .. here - 1 : here <= j + c}

\* after has the first c of the lines kept from here on, and p of them are still to come.
Trails(l, here, to, after, p, c) ==
    \E s \in Seq(Nat) :
        /\ Lists(s, KeptOf(l, here + 1, to))
        /\ after = First(s, c)
        /\ p = 0 => Len(s) >= c
        /\ p # 0 => Len(s) + p = c

\* A sequence as long as the page, or shorter, is the page.
LEMMA FirstWhole ==
    ASSUME NEW s \in Seq(Nat), NEW k \in Nat, Len(s) <= k
    PROVE  First(s, k) = s
  BY DEF First

\* A longer one has the page before its last number.
LEMMA FirstOfAppend ==
    ASSUME NEW s \in Seq(Nat), NEW x \in Nat, NEW k \in Nat, Len(s) >= k
    PROVE  First(Append(s, x), k) = First(s, k)
<1>1. PICK t : t = Append(s, x)
  OBVIOUS
<1>2. /\ t \in Seq(Nat) /\ Len(t) = Len(s) + 1 /\ Len(s) \in Nat
      /\ \A i \in 1 .. Len(s) : t[i] = s[i]
  BY <1>1
<1>3. k = (IF Len(t) > k THEN k ELSE Len(t)) /\ k = (IF Len(s) > k THEN k ELSE Len(s))
  BY <1>2
<1>4. First(t, k) = [i \in 1 .. k |-> t[i]]
  BY <1>2, <1>3, FirstType
<1>5. First(s, k) = [i \in 1 .. k |-> s[i]]
  BY <1>3, FirstType
<1>6. \A i \in 1 .. k : t[i] = s[i]
  BY <1>2
<1> QED
  BY <1>1, <1>4, <1>5, <1>6

\* What trails a match is the page of the lines kept after it.
LEMMA TrailsListed ==
    ASSUME NEW l \in Seq(Line), NEW here \in Nat, NEW to \in Nat, NEW after, NEW p \in Nat,
           NEW c \in Nat, Trails(l, here, to, after, p, c)
    PROVE  Lists(after, Between(KeptOf(l, here + 1, to), 0, c))
<1>1. PICK s \in Seq(Nat) : Lists(s, KeptOf(l, here + 1, to)) /\ after = First(s, c)
  BY DEF Trails
<1>2. Drop(s, 0) = s
  BY DEF Drop
<1>3. Lists(First(Drop(s, 0), c), Between(KeptOf(l, here + 1, to), 0, 0 + c)) /\ 0 + c = c
  BY <1>1, PageListed
<1> QED
  BY <1>1, <1>2, <1>3

\* Nothing trails a match that is the last line.
LEMMA TrailsFresh ==
    ASSUME NEW l \in Seq(Line), NEW c \in Nat, NEW s \in Seq(Nat), Len(s) = 0
    PROVE  /\ Trails(l, Len(l), Len(l), s, c, c)
           /\ Cardinality(KeptOf(l, Len(l) + 1, Len(l))) <= c
<1>1. KeptOf(l, Len(l) + 1, Len(l)) = {}
  <2>1. Len(l) \in Nat
    OBVIOUS
  <2>2. Len(l) + 1 .. Len(l) = {}
    BY <2>1
  <2> QED
    BY <2>2 DEF KeptOf
<1>2. First(s, c) = s
  <2>1. Len(s) <= c
    OBVIOUS
  <2> QED
    BY <2>1, FirstWhole
<1>3. Cardinality({}) <= c
  BY FS_EmptySet
<1>4. (c = 0 => Len(s) >= c) /\ (c # 0 => Len(s) + c = c)
  OBVIOUS
<1>5. Lists(s, KeptOf(l, Len(l) + 1, Len(l)))
  BY <1>1 DEF Lists
<1>6. Trails(l, Len(l), Len(l), s, c, c)
  BY <1>2, <1>4, <1>5 DEF Trails
<1> QED
  BY <1>1, <1>3, <1>6

\* The next line that is inside trails the last match, if that has not all it wants.
LEMMA TrailsGrow ==
    ASSUME NEW l \in Seq(Line), NEW line \in Line, line.inside, NEW here \in 1 .. Len(l),
           NEW after, NEW p \in Nat, NEW c \in Nat, Trails(l, here, Len(l), after, p, c)
    PROVE  LET k == Append(l, line)
           IN  /\ p > 0 => /\ Trails(k, here, Len(k), Append(after, Len(k)), p - 1, c)
                           /\ Cardinality(KeptOf(k, here + 1, Len(k))) <= c
               /\ p = 0 => Trails(k, here, Len(k), after, 0, c)
<1>1. PICK k : k = Append(l, line)
  OBVIOUS
<1>2. PICK s \in Seq(Nat) : /\ Lists(s, KeptOf(l, here + 1, Len(l)))
                            /\ after = First(s, c)
                            /\ p = 0 => Len(s) >= c
                            /\ p # 0 => Len(s) + p = c
  BY DEF Trails
<1>3. here + 1 \in Nat \ {0} /\ here + 1 <= Len(l) + 1
  OBVIOUS
<1>4. /\ Len(k) = Len(l) + 1 /\ Len(k) \in Nat
      /\ KeptOf(k, here + 1, Len(k)) = KeptOf(l, here + 1, Len(l)) \cup {Len(k)}
      /\ \A i \in KeptOf(l, here + 1, Len(l)) : i < Len(k)
  <2>1. PICK from \in Nat \ {0} : from = here + 1 /\ from <= Len(l) + 1
    BY <1>3
  <2>2. /\ Len(k) = Len(l) + 1
        /\ KeptOf(k, from, Len(k)) = KeptOf(l, from, Len(l)) \cup {Len(k)}
        /\ \A i \in KeptOf(l, from, Len(l)) : i < Len(k)
    BY <1>1, <2>1, KeptGrows
  <2> QED
    BY <2>1, <2>2
<1>5. PICK t : t = Append(s, Len(k))
  OBVIOUS
<1>6. t \in Seq(Nat) /\ Lists(t, KeptOf(k, here + 1, Len(k)))
  BY <1>2, <1>4, <1>5, ListedAppend
<1>7. Len(s) \in Nat /\ Len(t) = Len(s) + 1
  BY <1>4, <1>5
<1>8. ASSUME p > 0
      PROVE  /\ Trails(k, here, Len(k), Append(after, Len(k)), p - 1, c)
             /\ Cardinality(KeptOf(k, here + 1, Len(k))) <= c
  <2>1. Len(s) + p = c /\ Len(s) <= c /\ Len(t) <= c
    BY <1>2, <1>7, <1>8
  <2>2. after = s /\ First(t, c) = t
    BY <1>2, <1>6, <2>1, FirstWhole
  <2>3. Cardinality(KeptOf(k, here + 1, Len(k))) = Len(t)
    BY <1>6, CountOfListed
  <2>4. (p - 1 = 0 => Len(t) >= c) /\ (p - 1 # 0 => Len(t) + (p - 1) = c)
    BY <1>7, <1>8, <2>1
  <2>5. Append(after, Len(k)) = First(t, c)
    BY <1>5, <2>2
  <2> QED
    BY <1>6, <2>1, <2>3, <2>4, <2>5 DEF Trails
<1>9. ASSUME p = 0 PROVE Trails(k, here, Len(k), after, 0, c)
  <2>1. Len(s) >= c /\ Len(t) >= c
    BY <1>2, <1>7, <1>9
  <2>2. after = First(t, c)
    BY <1>2, <1>4, <1>5, <2>1, FirstOfAppend
  <2> QED
    BY <1>6, <2>1, <2>2 DEF Trails
<1> QED
  BY <1>1, <1>8, <1>9

\* The matches: each with what precedes and what trails it, up to the next one.
Matched(l, rs, n, c, p) ==
    /\ \A i \in 1 .. Len(rs) : rs[i].line \in 1 .. Len(l)
    /\ \A i \in 1 .. Len(rs) : Lists(rs[i].before, Preceding(rs[i].line, c))
    /\ \A i \in 1 .. Len(rs) - 1 :
          /\ \E q \in Nat : Trails(l, rs[i].line, rs[i + 1].line, rs[i].after, q, c)
          /\ i >= n => Cardinality(KeptOf(l, rs[i].line + 1, rs[i + 1].line)) <= c
    /\ Len(rs) > 0 => Trails(l, rs[Len(rs)].line, Len(l), rs[Len(rs)].after, p, c)
    /\ Len(rs) >= n => Cardinality(KeptOf(l, rs[Len(rs)].line + 1, Len(l))) <= c

\* What a further line does not reach.
LEMMA KeptStays ==
    ASSUME NEW l \in Seq(Line), NEW line \in Line, NEW here \in 1 .. Len(l)
    PROVE  LET k == Append(l, line)
           IN  /\ Len(k) = Len(l) + 1 /\ Len(l) \in Nat
               /\ \A to \in 1 .. Len(l) : KeptOf(k, here + 1, to) = KeptOf(l, here + 1, to)
               /\ ~line.inside => KeptOf(k, here + 1, Len(k)) = KeptOf(l, here + 1, Len(l))
<1>1. here + 1 \in Nat \ {0} /\ here + 1 <= Len(l) + 1 /\ Len(l) \in Nat
  OBVIOUS
<1>2. \A to \in 1 .. Len(l) : to \in 0 .. Len(l)
  OBVIOUS
<1> QED
  BY <1>1, <1>2, KeptGrows

\* Trails that end before a further line do not see it.
LEMMA TrailsStay ==
    ASSUME NEW l \in Seq(Line), NEW line \in Line, NEW k, k = Append(l, line),
           NEW here \in 1 .. Len(l)
    PROVE  /\ \A to \in 1 .. Len(l) :
                  /\ KeptOf(k, here + 1, to) = KeptOf(l, here + 1, to)
                  /\ \A after, p, c : Trails(l, here, to, after, p, c)
                                          => Trails(k, here, to, after, p, c)
           /\ ~line.inside =>
                  /\ KeptOf(k, here + 1, Len(k)) = KeptOf(l, here + 1, Len(l))
                  /\ \A after, p, c : Trails(l, here, Len(l), after, p, c)
                                          => Trails(k, here, Len(k), after, p, c)
<1>1. /\ \A to \in 1 .. Len(l) : KeptOf(k, here + 1, to) = KeptOf(l, here + 1, to)
      /\ ~line.inside => KeptOf(k, here + 1, Len(k)) = KeptOf(l, here + 1, Len(l))
  BY KeptStays
<1> QED
  BY <1>1 DEF Trails

\* The matches before the last one are as they will stay.
LEMMA EarlierStay ==
    ASSUME NEW l \in Seq(Line), NEW line \in Line, NEW k, k = Append(l, line),
           NEW rs \in Seq(Match), NEW n, NEW c, NEW p, Matched(l, rs, n, c, p),
           NEW i \in 1 .. Len(rs) - 1
    PROVE  /\ \E q \in Nat : Trails(k, rs[i].line, rs[i + 1].line, rs[i].after, q, c)
           /\ i >= n => Cardinality(KeptOf(k, rs[i].line + 1, rs[i + 1].line)) <= c
<1>1. i \in 1 .. Len(rs) /\ i + 1 \in 1 .. Len(rs)
  BY LenProperties
<1>2. PICK here \in 1 .. Len(l), to \in 1 .. Len(l) : here = rs[i].line /\ to = rs[i + 1].line
  BY <1>1 DEF Matched
<1>3. /\ KeptOf(k, here + 1, to) = KeptOf(l, here + 1, to)
      /\ \A after, q : Trails(l, here, to, after, q, c) => Trails(k, here, to, after, q, c)
  BY TrailsStay
<1>4. /\ \E q \in Nat : Trails(l, here, to, rs[i].after, q, c)
      /\ i >= n => Cardinality(KeptOf(l, here + 1, to)) <= c
  BY <1>2 DEF Matched
<1> QED
  BY <1>2, <1>3, <1>4

\* A line outside the time window changes nothing.
LEMMA MatchedOutside ==
    ASSUME NEW l \in Seq(Line), NEW line \in Line, ~line.inside, NEW k, k = Append(l, line),
           NEW rs \in Seq(Match), NEW n \in Nat \ {0}, NEW c \in Nat, NEW p \in Nat,
           Matched(l, rs, n, c, p)
    PROVE  Matched(k, rs, n, c, p)
<1>1. Len(l) \in Nat /\ Len(k) = Len(l) + 1 /\ Len(rs) \in Nat
  OBVIOUS
<1>2. /\ \A i \in 1 .. Len(rs) : rs[i].line \in 1 .. Len(l)
      /\ \A i \in 1 .. Len(rs) - 1 : i \in 1 .. Len(rs) /\ i + 1 \in 1 .. Len(rs)
      /\ Len(rs) > 0 => Len(rs) \in 1 .. Len(rs)
      /\ Len(rs) >= n => Len(rs) > 0
  BY <1>1 DEF Matched
<1>3. \A i \in 1 .. Len(rs) : rs[i].line \in 1 .. Len(k)
  BY <1>1, <1>2
<1>4. \A i \in 1 .. Len(rs) - 1 :
          /\ \E q \in Nat : Trails(k, rs[i].line, rs[i + 1].line, rs[i].after, q, c)
          /\ i >= n => Cardinality(KeptOf(k, rs[i].line + 1, rs[i + 1].line)) <= c
  BY EarlierStay
<1>5. ASSUME Len(rs) > 0
      PROVE  /\ Trails(k, rs[Len(rs)].line, Len(k), rs[Len(rs)].after, p, c)
             /\ KeptOf(k, rs[Len(rs)].line + 1, Len(k)) = KeptOf(l, rs[Len(rs)].line + 1, Len(l))
  <2>1. PICK here \in 1 .. Len(l) : here = rs[Len(rs)].line
    BY <1>2, <1>5
  <2>2. Trails(l, here, Len(l), rs[Len(rs)].after, p, c)
    BY <1>5, <2>1 DEF Matched
  <2>3. /\ KeptOf(k, here + 1, Len(k)) = KeptOf(l, here + 1, Len(l))
        /\ \A after, q : Trails(l, here, Len(l), after, q, c) => Trails(k, here, Len(k), after, q, c)
    BY TrailsStay
  <2> QED
    BY <2>1, <2>2, <2>3
<1> QED
  BY <1>2, <1>3, <1>4, <1>5 DEF Matched

\* The last result takes in a line that is inside, if it is waiting for one.
LEMMA MatchedFed ==
    ASSUME NEW l \in Seq(Line), NEW line \in Line, line.inside, NEW k, k = Append(l, line),
           NEW rs \in Seq(Match), NEW n \in Nat \ {0}, NEW c \in Nat, NEW p \in Nat,
           Matched(l, rs, n, c, p), Len(rs) >= n => p > 0, p > 0 => Len(rs) > 0,
           NEW fed \in Seq(Match), Len(fed) = Len(rs),
           \A i \in 1 .. Len(rs) :
              /\ fed[i].line = rs[i].line /\ fed[i].before = rs[i].before
              /\ i < Len(rs) \/ p = 0 => fed[i] = rs[i],
           p > 0 => fed[Len(rs)].after = Append(rs[Len(rs)].after, Len(l) + 1),
           NEW q \in Nat, p > 0 => q = p - 1, p = 0 => q = 0
    PROVE  Matched(k, fed, n, c, q)
<1>1. Len(l) \in Nat /\ Len(k) = Len(l) + 1 /\ Len(rs) \in Nat
  OBVIOUS
<1>2. /\ \A i \in 1 .. Len(rs) : rs[i].line \in 1 .. Len(l)
      /\ \A i \in 1 .. Len(rs) - 1 : i < Len(rs) /\ i \in 1 .. Len(rs) /\ i + 1 \in 1 .. Len(rs)
      /\ Len(rs) > 0 => Len(rs) \in 1 .. Len(rs)
      /\ Len(rs) >= n => Len(rs) > 0
  BY <1>1 DEF Matched
<1>3. /\ \A i \in 1 .. Len(fed) : fed[i].line \in 1 .. Len(k)
      /\ \A i \in 1 .. Len(fed) : Lists(fed[i].before, Preceding(fed[i].line, c))
  <2>1. ASSUME NEW i \in 1 .. Len(rs)
        PROVE  fed[i].line \in 1 .. Len(k) /\ Lists(fed[i].before, Preceding(fed[i].line, c))
    <3>1. rs[i].line \in 1 .. Len(l) /\ Lists(rs[i].before, Preceding(rs[i].line, c))
      BY DEF Matched
    <3>2. rs[i].line \in 1 .. Len(k)
      BY <1>1, <3>1
    <3> QED
      BY <3>1, <3>2
  <2> QED
    BY <2>1
<1>4. \A i \in 1 .. Len(fed) - 1 :
          /\ \E r \in Nat : Trails(k, fed[i].line, fed[i + 1].line, fed[i].after, r, c)
          /\ i >= n => Cardinality(KeptOf(k, fed[i].line + 1, fed[i + 1].line)) <= c
  <2>1. TAKE i \in 1 .. Len(fed) - 1
  <2>2. i \in 1 .. Len(rs) - 1 /\ fed[i] = rs[i] /\ fed[i + 1].line = rs[i + 1].line
    BY <1>2
  <2>3. /\ \E r \in Nat : Trails(k, rs[i].line, rs[i + 1].line, rs[i].after, r, c)
        /\ i >= n => Cardinality(KeptOf(k, rs[i].line + 1, rs[i + 1].line)) <= c
    BY <2>2, EarlierStay
  <2> QED
    BY <2>2, <2>3
<1>5. ASSUME Len(rs) > 0
      PROVE  /\ Trails(k, fed[Len(rs)].line, Len(k), fed[Len(rs)].after, q, c)
             /\ p > 0 => Cardinality(KeptOf(k, fed[Len(rs)].line + 1, Len(k))) <= c
  <2>1. PICK here \in 1 .. Len(l) : here = rs[Len(rs)].line /\ here = fed[Len(rs)].line
    BY <1>2, <1>5
  <2>2. PICK after : after = rs[Len(rs)].after
    OBVIOUS
  <2>3. Trails(l, here, Len(l), after, p, c)
    BY <1>5, <2>1, <2>2 DEF Matched
  <2>4. /\ p > 0 => /\ Trails(k, here, Len(k), Append(after, Len(k)), p - 1, c)
                    /\ Cardinality(KeptOf(k, here + 1, Len(k))) <= c
        /\ p = 0 => Trails(k, here, Len(k), after, 0, c)
    BY <2>3, TrailsGrow
  <2>5. CASE p > 0
    BY <1>1, <2>1, <2>2, <2>4, <2>5
  <2>6. CASE p = 0
    <3>1. fed[Len(rs)] = rs[Len(rs)]
      BY <1>2, <1>5, <2>6
    <3> QED
      BY <2>1, <2>2, <2>4, <2>6, <3>1
  <2> QED
    BY <2>5, <2>6
<1> QED
  BY <1>2, <1>3, <1>4, <1>5 DEF Matched

\* A further match comes with what precedes it, and ends what trails the one before.
LEMMA MatchedAppend ==
    ASSUME NEW k \in Seq(Line), Len(k) > 0, NEW rs \in Seq(Match), NEW n \in Nat \ {0},
           NEW c \in Nat, NEW p \in Nat, Matched(k, rs, n, c, p),
           NEW r \in Match, r.line = Len(k), Len(r.after) = 0,
           Lists(r.before, Preceding(Len(k), c))
    PROVE  Matched(k, Append(rs, r), n, c, c)
<1>1. PICK t \in Seq(Match) : t = Append(rs, r)
  <2>1. Append(rs, r) \in Seq(Match)
    BY AppendProperties
  <2> QED
    BY <2>1
<1>2. /\ Len(t) = Len(rs) + 1 /\ Len(rs) \in Nat /\ t[Len(t)] = r
      /\ \A i \in 1 .. Len(rs) : t[i] = rs[i]
      /\ Len(k) \in Nat
  BY <1>1
<1>3. /\ \A i \in 1 .. Len(t) : t[i].line \in 1 .. Len(k)
      /\ \A i \in 1 .. Len(t) : Lists(t[i].before, Preceding(t[i].line, c))
  <2>1. \A i \in 1 .. Len(t) : i \in 1 .. Len(rs) \/ i = Len(t)
    BY <1>2
  <2>2. r.line \in 1 .. Len(k)
    BY <1>2
  <2> QED
    BY <1>2, <2>1, <2>2 DEF Matched
<1>4. \A i \in 1 .. Len(t) - 1 :
          /\ \E q \in Nat : Trails(k, t[i].line, t[i + 1].line, t[i].after, q, c)
          /\ i >= n => Cardinality(KeptOf(k, t[i].line + 1, t[i + 1].line)) <= c
  <2>1. TAKE i \in 1 .. Len(t) - 1
  <2>2. CASE i \in 1 .. Len(rs) - 1
    <3>1. t[i] = rs[i] /\ t[i + 1] = rs[i + 1]
      <4>1. i \in 1 .. Len(rs) /\ i + 1 \in 1 .. Len(rs)
        BY <1>2, <2>2
      <4> QED
        BY <1>2, <4>1
    <3>2. /\ \E q \in Nat : Trails(k, rs[i].line, rs[i + 1].line, rs[i].after, q, c)
          /\ i >= n => Cardinality(KeptOf(k, rs[i].line + 1, rs[i + 1].line)) <= c
      BY <2>2 DEF Matched
    <3> QED
      BY <3>1, <3>2
  <2>3. CASE i = Len(rs) /\ Len(rs) > 0
    <3>1. t[i] = rs[Len(rs)] /\ t[i + 1] = r
      BY <1>2, <2>3
    <3> QED
      BY <2>3, <3>1 DEF Matched
  <2> QED
    BY <1>2, <2>1, <2>2, <2>3
<1>5. /\ Trails(k, r.line, Len(k), r.after, c, c)
      /\ Cardinality(KeptOf(k, r.line + 1, Len(k))) <= c
  <2>1. r.after \in Seq(Nat)
    BY DEF Match
  <2> QED
    BY <2>1, TrailsFresh
<1> QED
  BY <1>1, <1>2, <1>3, <1>4, <1>5 DEF Matched

\* The context before a line: the last c line numbers.
Rolling(b, l, c) ==
    /\ \A i \in 1 .. Len(b) : b[i] = (l - Len(b)) + i
    /\ Len(b) <= l /\ Len(b) <= c
    /\ Len(b) = l \/ Len(b) = c

\* The last c line numbers are those that precede the next line.
LEMMA RollingListed ==
    ASSUME NEW b \in Seq(Nat), NEW l \in Nat, NEW c \in Nat, Rolling(b, l, c)
    PROVE  Lists(b, Preceding(l + 1, c))
<1>1. PICK m \in Nat : m = Len(b)
  OBVIOUS
<1>2. DOMAIN b = 1 .. m /\ m <= l /\ m <= c /\ (m = l \/ m = c)
  BY <1>1 DEF Rolling
<1>3. \A i \in 1 .. m : b[i] = (l - m) + i
  BY <1>1 DEF Rolling
<1>4. \A i, j \in 1 .. m : i < j => b[i] < b[j]
  <2>1. TAKE i \in 1 .. m, j \in 1 .. m
  <2>2. b[i] = (l - m) + i /\ b[j] = (l - m) + j
    BY <1>3
  <2> QED
    BY <2>2
<1>5. ASSUME NEW i \in 1 .. m PROVE b[i] \in Preceding(l + 1, c)
  <2>1. b[i] = (l - m) + i
    BY <1>3
  <2>2. (l - m) + i \in 1 .. (l + 1) - 1 /\ l + 1 <= ((l - m) + i) + c
    BY <1>2
  <2> QED
    BY <2>1, <2>2 DEF Preceding
<1>6. ASSUME NEW j \in Preceding(l + 1, c) PROVE \E i \in 1 .. m : b[i] = j
  <2>1. j \in 1 .. l /\ l + 1 <= j + c
    BY DEF Preceding
  <2>2. PICK i \in 1 .. m : (l - m) + i = j
    <3>1. j - (l - m) \in 1 .. m /\ (l - m) + (j - (l - m)) = j
      BY <1>2, <2>1
    <3> QED
      BY <3>1
  <2> QED
    BY <1>3, <2>2
<1> QED
  BY <1>2, <1>4, <1>5, <1>6 DEF Lists

\* The oldest number makes room for the new one.
LEMMA RollingSlides ==
    ASSUME NEW b \in Seq(Nat), NEW l \in Nat, NEW c \in Nat \ {0}, Rolling(b, l, c)
    PROVE  /\ Len(b) >= c => Rolling(Append(Tail(b), l + 1), l + 1, c)
           /\ Len(b) < c => Rolling(Append(b, l + 1), l + 1, c)
<1>1. PICK m \in Nat : m = Len(b)
  OBVIOUS
<1>2. m <= l /\ m <= c /\ (m = l \/ m = c) /\ \A i \in 1 .. m : b[i] = (l - m) + i
  BY <1>1 DEF Rolling
<1>3. PICK x \in Nat : x = l + 1
  OBVIOUS
<1>4. ASSUME m >= c PROVE Rolling(Append(Tail(b), x), x, c)
  <2>1. m = c /\ c - 1 \in Nat
    BY <1>2, <1>4
  <2>2. /\ Tail(b) \in Seq(Nat) /\ Len(Tail(b)) = c - 1
        /\ \A i \in 1 .. c - 1 : Tail(b)[i] = b[i + 1]
    <3>1. b # <<>>
      BY <1>1, <2>1
    <3>2. /\ Tail(b) \in Seq(Nat) /\ Len(Tail(b)) = Len(b) - 1
          /\ \A i \in 1 .. Len(Tail(b)) : Tail(b)[i] = b[i + 1]
      BY <3>1, HeadTailProperties
    <3>3. Len(Tail(b)) = c - 1
      BY <1>1, <2>1, <3>2
    <3> QED
      BY <3>2, <3>3
  <2>3. PICK t \in Seq(Nat) : t = Tail(b)
    BY <2>2
  <2>4. PICK s \in Seq(Nat) : s = Append(t, x)
    BY AppendProperties
  <2>5. Len(s) = c /\ s[c] = x /\ \A i \in 1 .. c - 1 : s[i] = t[i]
    BY <2>1, <2>2, <2>3, <2>4
  <2>6. ASSUME NEW i \in 1 .. c PROVE s[i] = (x - c) + i
    <3>1. CASE i = c
      BY <1>3, <2>5, <3>1
    <3>2. CASE i \in 1 .. c - 1
      <4>1. s[i] = b[i + 1] /\ i + 1 \in 1 .. m
        BY <2>1, <2>2, <2>3, <2>5, <3>2
      <4>2. b[i + 1] = (l - m) + (i + 1)
        BY <1>2, <4>1
      <4> QED
        BY <1>3, <2>1, <4>1, <4>2
    <3> QED
      BY <3>1, <3>2
  <2>7. c <= x
    BY <1>2, <1>3, <2>1
  <2>8. Rolling(s, x, c)
    BY <2>5, <2>6, <2>7 DEF Rolling
  <2> QED
    BY <2>3, <2>4, <2>8
<1>5. ASSUME m < c PROVE Rolling(Append(b, x), x, c)
  <2>1. m = l /\ x <= c
    BY <1>2, <1>3, <1>5
  <2>2. PICK s \in Seq(Nat) : s = Append(b, x)
    BY AppendProperties
  <2>3. Len(s) = m + 1 /\ s[m + 1] = x /\ \A i \in 1 .. m : s[i] = b[i]
    BY <1>1, <2>2
  <2>4. Len(s) = x
    BY <1>3, <2>1, <2>3
  <2>5. ASSUME NEW i \in 1 .. x PROVE s[i] = (x - x) + i
    <3>1. CASE i = m + 1
      BY <1>3, <2>1, <2>3, <3>1
    <3>2. CASE i \in 1 .. m
      <4>1. b[i] = (l - m) + i
        BY <1>2, <3>2
      <4> QED
        BY <2>1, <2>3, <3>2, <4>1
    <3> QED
      BY <1>3, <2>1, <3>1, <3>2
  <2>6. Rolling(s, x, c)
    BY <2>1, <2>4, <2>5 DEF Rolling
  <2> QED
    BY <2>2, <2>6
<1> QED
  BY <1>1, <1>3, <1>4, <1>5

\* The lines of the matches.
LinesOf(rs) == [i \in 1 .. Len(rs) |-> rs[i].line]

\* The lines of the matches are a sequence of numbers, one of each.
LEMMA LinesType ==
    ASSUME NEW rs \in Seq(Match)
    PROVE  LinesOf(rs) \in Seq(Nat) /\ Len(LinesOf(rs)) = Len(rs)
<1>1. PICK m \in Nat : m = Len(rs)
  OBVIOUS
<1>2. \A i \in 1 .. m : rs[i].line \in Nat
  <2>1. TAKE i \in 1 .. m
  <2>2. rs[i] \in Match
    BY <1>1
  <2> QED
    BY <2>2 DEF Match
<1> QED
  BY <1>1, <1>2 DEF LinesOf

\* A further match adds its line.
LEMMA LinesAppend ==
    ASSUME NEW rs \in Seq(Match), NEW r \in Match
    PROVE  LinesOf(Append(rs, r)) = Append(LinesOf(rs), r.line)
<1>1. PICK m \in Nat : m = Len(rs)
  OBVIOUS
<1>2. PICK t : t = Append(rs, r)
  OBVIOUS
<1>3. Len(t) = m + 1 /\ t[m + 1] = r /\ \A i \in 1 .. m : t[i] = rs[i]
  BY <1>1, <1>2, AppendProperties
<1>4. LinesOf(t) = [i \in 1 .. m + 1 |-> t[i].line]
  BY <1>3 DEF LinesOf
<1>5. PICK s \in Seq(Nat) : s = LinesOf(rs) /\ Len(s) = m
  BY <1>1, LinesType
<1>6. \A i \in 1 .. m : s[i] = rs[i].line
  BY <1>1, <1>5 DEF LinesOf
<1>7. r.line \in Nat
  BY DEF Match
<1>8. PICK u \in Seq(Nat) : u = Append(s, r.line)
  BY <1>7, AppendProperties
<1>9. Len(u) = m + 1 /\ u[m + 1] = r.line /\ \A i \in 1 .. m : u[i] = s[i]
  BY <1>5, <1>7, <1>8
<1>10. u = [i \in 1 .. m + 1 |-> u[i]]
  BY <1>9
<1>11. \A i \in 1 .. m + 1 : u[i] = t[i].line
  <2>1. TAKE i \in 1 .. m + 1
  <2>2. i \in 1 .. m \/ i = m + 1
    BY <2>1
  <2> QED
    BY <1>3, <1>6, <1>9, <2>2
<1> QED
  BY <1>2, <1>4, <1>5, <1>8, <1>10, <1>11

\* What a search has found, and what it has at hand for the next match.
Found ==
    IF job.op = "search"
    THEN /\ Rolling(before, Len(log), job.context)
         /\ Lists(LinesOf(results), Hits)
         /\ Matched(log, results, job.n, job.context, pending)
         /\ state = "done" /\ ~eof => Enough
    ELSE Len(results) = 0

SearchInv == ReadTypeOK /\ Found

\* Nothing is found before the first line.
LEMMA InitSearchInv == ASSUME ReadInit PROVE SearchInv
<1>1. ReadTypeOK
  BY InitReadTypes
<1>2. Len(log) = 0 /\ state = "reading" /\ Len(before) = 0 /\ Len(results) = 0
  BY DEF ReadInit
<1>3. job.n \in Nat \ {0} /\ job.context \in Nat
  BY <1>1, JobType DEF ReadTypeOK
<1>4. Hits = {}
  BY <1>2 DEF Hits, AllKept, Kept
<1>5. Lists(LinesOf(results), Hits)
  BY <1>2, <1>4 DEF Lists, LinesOf
<1>6. Rolling(before, Len(log), job.context)
  BY <1>2, <1>3 DEF Rolling
<1>7. Matched(log, results, job.n, job.context, pending)
  BY <1>2, <1>3 DEF Matched
<1> QED
  BY <1>1, <1>2, <1>5, <1>6, <1>7 DEF SearchInv, Found

\* A line that is inside and matches is one more hit, and the last.
LEMMA HitsGrow ==
    ASSUME ReadTypeOK, NEW line \in Line, Deliver(line)
    PROVE  /\ line.inside /\ line.hit => Hits' = Hits \cup {Len(log')}
           /\ ~(line.inside /\ line.hit) => Hits' = Hits
           /\ \A i \in Hits : i < Len(log')
<1>1. /\ Len(log) \in Nat /\ Len(log') = Len(log) + 1 /\ log'[Len(log')] = line
      /\ \A i \in 1 .. Len(log) : log'[i] = log[i]
      /\ line.inside => AllKept' = AllKept \cup {Len(log')}
      /\ ~line.inside => AllKept' = AllKept
      /\ \A i \in AllKept : i < Len(log')
  BY Delivered
<1>2. \A i \in AllKept : log'[i] = log[i]
  BY <1>1 DEF AllKept, Kept
<1>3. CASE line.inside /\ line.hit
  BY <1>1, <1>2, <1>3 DEF Hits
<1>4. CASE line.inside /\ ~line.hit
  BY <1>1, <1>2, <1>4 DEF Hits
<1>5. CASE ~line.inside
  BY <1>1, <1>2, <1>5 DEF Hits
<1> QED
  BY <1>3, <1>4, <1>5

\* Every line read leaves the matches as they should be.
LEMMA SearchFinds ==
    ASSUME SearchInv, NEW line \in Line, ScanSearch(line)
    PROVE  Found'
<1> DEFINE n == job.n
           c == job.context
           fed == Fed(line)
<1>1. /\ ReadTypeOK /\ Deliver(line) /\ job.op = "search" /\ UNCHANGED <<job, state>>
      /\ state = "reading" /\ ~Enough
      /\ n \in Nat \ {0} /\ c \in Nat /\ pending \in Nat
      /\ log \in Seq(Line) /\ results \in Seq(Match) /\ before \in Seq(Nat)
  BY JobType DEF SearchInv, ReadTypeOK, ScanSearch, Reading
<1>2. /\ Rolling(before, Len(log), c) /\ Lists(LinesOf(results), Hits)
      /\ Matched(log, results, n, c, pending)
  BY <1>1 DEF SearchInv, Found
<1>3. /\ log' \in Seq(Line) /\ Len(log) \in Nat /\ Len(log') = Len(log) + 1
      /\ log' = Append(log, line)
  BY <1>1, Delivered
<1>4. /\ line.inside /\ line.hit => Hits' = Hits \cup {Len(log')}
      /\ ~(line.inside /\ line.hit) => Hits' = Hits
      /\ \A i \in Hits : i < Len(log')
  BY <1>1, HitsGrow
<1>5. /\ fed \in Seq(Match) /\ Len(fed) = Len(results)
      /\ \A i \in 1 .. Len(results) :
            /\ fed[i].line = results[i].line
            /\ fed[i].before = results[i].before
            /\ i < Len(results) \/ pending = 0 => fed[i] = results[i]
      /\ pending > 0 => /\ Len(results) > 0
                        /\ fed[Len(results)].after = Append(results[Len(results)].after, Len(log) + 1)
  BY <1>1, FedLast
<1>6. Len(results) >= n => pending > 0
  BY <1>1 DEF Enough
<1> HIDE DEF n, c, fed
<1>7. Rolling(before', Len(log'), c)
  <2>1. before' = IF c = 0 THEN before
                  ELSE Append(IF Len(before) >= c THEN Tail(before) ELSE before, Len(log) + 1)
    BY <1>3 DEF ScanSearch, Slide, c
  <2>2. CASE c = 0
    BY <1>1, <1>2, <1>3, <2>1, <2>2 DEF Rolling
  <2>3. CASE c # 0
    <3>1. /\ Len(before) >= c => Rolling(Append(Tail(before), Len(log) + 1), Len(log) + 1, c)
          /\ Len(before) < c => Rolling(Append(before, Len(log) + 1), Len(log) + 1, c)
      BY <1>1, <1>2, <1>3, <2>3, RollingSlides
    <3>2. CASE Len(before) >= c
      BY <1>3, <2>1, <2>3, <3>1, <3>2
    <3>3. CASE ~(Len(before) >= c)
      <4>1. Len(before) < c
        BY <1>1, <3>3
      <4> QED
        BY <1>3, <2>1, <2>3, <3>1, <3>3, <4>1
    <3> QED
      BY <3>2, <3>3
  <2> QED
    BY <2>2, <2>3
<1>8. PICK q \in Nat : (pending > 0 => q = pending - 1) /\ (pending = 0 => q = 0)
  <2>1. CASE pending > 0
    <3>1. pending - 1 \in Nat
      BY <1>1, <2>1
    <3> QED
      BY <2>1, <3>1
  <2>2. CASE pending = 0
    BY <2>2
  <2> QED
    BY <1>1, <2>1, <2>2
<1>9. ASSUME line.inside PROVE Matched(log', fed, n, c, q)
  <2>1. /\ n \in Nat \ {0} /\ c \in Nat /\ pending \in Nat
        /\ log \in Seq(Line) /\ results \in Seq(Match)
    BY <1>1
  <2>2. pending > 0 => /\ Len(results) > 0
                       /\ fed[Len(results)].after = Append(results[Len(results)].after, Len(log) + 1)
    BY <1>5
  <2>3. \A i \in 1 .. Len(results) :
            /\ fed[i].line = results[i].line /\ fed[i].before = results[i].before
            /\ i < Len(results) \/ pending = 0 => fed[i] = results[i]
    BY <1>5
  <2>4. fed \in Seq(Match) /\ Len(fed) = Len(results)
    BY <1>5
  <2>5. log' = Append(log, line) /\ Matched(log, results, n, c, pending)
    BY <1>2, <1>3
  <2> QED
    BY <1>6, <1>8, <1>9, <2>1, <2>2, <2>3, <2>4, <2>5, MatchedFed
<1>10. LinesOf(fed) = LinesOf(results)
  BY <1>5 DEF LinesOf
<1>11. CASE line.inside /\ line.hit
  <2>1. PICK r : r = [line |-> Len(log'), before |-> before, after |-> <<>>]
    OBVIOUS
  <2>2. r.line = Len(log') /\ r.before = before /\ Len(r.after) = 0 /\ r \in Match
    BY <1>1, <1>3, <2>1 DEF Match
  <2>3. results' = Append(fed, r) /\ pending' = c
    BY <1>11, <2>1 DEF ScanSearch, fed, c
  <2>4. Lists(r.before, Preceding(Len(log'), c))
    BY <1>1, <1>2, <1>3, <2>2, RollingListed
  <2>5. Matched(log', results', n, c, pending')
    <3>1. Len(log') > 0
      BY <1>3
    <3> QED
      BY <1>1, <1>3, <1>5, <1>8, <1>9, <1>11, <2>2, <2>3, <2>4, <3>1, MatchedAppend
  <2>6. LinesOf(results') = Append(LinesOf(fed), Len(log'))
    BY <1>5, <2>2, <2>3, LinesAppend
  <2>7. LinesOf(results) \in Seq(Nat)
    BY <1>1, LinesType
  <2>8. Lists(LinesOf(results'), Hits')
    BY <1>2, <1>3, <1>4, <1>10, <1>11, <2>6, <2>7, ListedAppend
  <2> QED
    BY <1>1, <1>7, <2>5, <2>8 DEF Found, n, c, Lists, LinesOf
<1>12. CASE line.inside /\ ~line.hit
  <2>1. results' = fed /\ pending' = q
    BY <1>1, <1>8, <1>12 DEF ScanSearch, fed
  <2>2. Lists(LinesOf(results'), Hits')
    BY <1>2, <1>4, <1>10, <1>12, <2>1
  <2>3. Matched(log', results', n, c, pending')
    BY <1>9, <1>12, <2>1
  <2> QED
    BY <1>1, <1>7, <2>2, <2>3 DEF Found, n, c, Lists, LinesOf
<1>13. CASE ~line.inside
  <2>1. UNCHANGED <<results, pending>>
    BY <1>13 DEF ScanSearch
  <2>2. Matched(log', results, n, c, pending)
    BY <1>1, <1>2, <1>3, <1>13, MatchedOutside
  <2>3. Hits' = Hits
    BY <1>4, <1>13
  <2> QED
    BY <1>1, <1>2, <1>7, <2>1, <2>2, <2>3 DEF Found, n, c, Lists, LinesOf
<1> QED
  BY <1>11, <1>12, <1>13

\* Every step of a call keeps the matches as they should be.
LEMMA NextSearchInv == ASSUME SearchInv, [ReadNext]_readVars PROVE SearchInv'
<1>1. ReadTypeOK /\ ReadTypeOK'
  BY NextReadTypes DEF SearchInv
<1>2. ASSUME NEW line \in Line, ScanTail(line) \/ ScanHead(line) PROVE Found'
  BY <1>2 DEF SearchInv, Found, ScanTail, ScanHead, Reading, Search
<1>3. ASSUME UNCHANGED <<job, log, before, results, pending>>,
             job.op = "search" /\ state' = "done" /\ ~eof' => Enough
      PROVE  Found'
  <2>1. Hits' = Hits /\ Enough' = Enough
    BY <1>3 DEF Hits, AllKept, Kept, Enough
  <2> QED
    BY <1>3, <2>1 DEF SearchInv, Found, Lists, LinesOf
<1>4. ASSUME ReturnTail \/ ReturnHead PROVE Found'
  BY <1>3, <1>4 DEF ReturnTail, ReturnHead, Reading, Search
<1>5. ASSUME ReturnMatches PROVE Found'
  BY <1>3, <1>5 DEF ReturnMatches, Search
<1>6. ASSUME EndOfSource \/ Fail PROVE Found'
  BY <1>3, <1>6 DEF EndOfSource, Fail, Search
<1>7. ASSUME UNCHANGED readVars PROVE Found'
  BY <1>3, <1>7 DEF readVars, SearchInv, Found
<1> QED
  BY <1>1, <1>2, <1>4, <1>5, <1>6, <1>7, SearchFinds
  DEF SearchInv, ReadNext, Return, ScanLine

\* That is what search_log promises.
LEMMA SearchInvExact == ASSUME SearchInv PROVE SearchExact
<1>1. /\ ReadTypeOK /\ log \in Seq(Line) /\ results \in Seq(Match) /\ pending \in Nat
      /\ Len(results) \in Nat /\ Len(log) \in Nat
      /\ job.n \in Nat \ {0} /\ job.context \in Nat
  BY JobType DEF SearchInv, ReadTypeOK
<1>2. ASSUME job.op = "search", NEW i \in 1 .. Len(results)
      PROVE  /\ results[i].line \in 1 .. Len(log)
             /\ Lists(results[i].before, Preceding(results[i].line, job.context))
             /\ \E p \in Nat : Trails(log, results[i].line, NextHit(i), results[i].after, p, job.context)
             /\ i >= job.n => Cardinality(KeptOf(log, results[i].line + 1, NextHit(i))) <= job.context
             /\ NextHit(i) \in Nat
  <2>1. Matched(log, results, job.n, job.context, pending)
    BY <1>2 DEF SearchInv, Found
  <2>2. CASE i < Len(results)
    <3>1. i \in 1 .. Len(results) - 1 /\ i + 1 \in 1 .. Len(results)
      BY <1>1, <2>2
    <3>2. NextHit(i) = results[i + 1].line
      BY <2>2 DEF NextHit
    <3> QED
      BY <2>1, <3>1, <3>2 DEF Matched
  <2>3. CASE i = Len(results)
    <3>1. NextHit(i) = Len(log) /\ Len(results) > 0
      BY <1>1, <2>3 DEF NextHit
    <3> QED
      BY <1>1, <2>1, <2>3, <3>1 DEF Matched
  <2> QED
    BY <1>1, <2>2, <2>3
<1>3. MatchesExact
  <2>1. SUFFICES ASSUME job.op = "search" PROVE MatchesExact
    BY DEF MatchesExact
  <2>2. Lists(LinesOf(results), Hits) /\ (state = "done" /\ ~eof => Enough)
    BY <2>1 DEF SearchInv, Found
  <2>3. PICK missed :
            missed = {h \in Hits : \A i \in 1 .. Len(results) : LinesOf(results)[i] # h}
    OBVIOUS
  <2>4. missed = {} /\ Hits \ missed = Hits
    BY <2>2, <2>3 DEF Lists, LinesOf
  <2>5. Done("search") /\ ~eof => job.n <= Len(results)
    BY <1>1, <2>2 DEF Done, Enough
  <2>6. \A i \in job.n .. Len(results) :
            Cardinality(Kept(results[i].line + 1, NextHit(i))) <= job.context
    <3>1. TAKE i \in job.n .. Len(results)
    <3>2. i \in 1 .. Len(results) /\ i >= job.n
      BY <1>1, <3>1
    <3> QED
      BY <1>2, <2>1, <3>2 DEF Kept, KeptOf
  <2> QED
    BY <2>2, <2>3, <2>4, <2>5, <2>6 DEF MatchesExact, LinesOf
<1>4. ContextExact
  <2>1. CASE job.op = "search"
    <3>1. ASSUME NEW i \in 1 .. Len(results)
          PROVE  LET here == results[i].line
                 IN  /\ Lists(results[i].before, {j \in 1 .. here - 1 : here <= j + job.context})
                     /\ Lists(results[i].after,
                              Between(Kept(here + 1, NextHit(i)), 0, job.context))
      <4>1. PICK here \in Nat : here = results[i].line
        BY <1>2, <2>1
      <4>2. PICK p \in Nat : Trails(log, here, NextHit(i), results[i].after, p, job.context)
        BY <1>2, <2>1, <4>1
      <4>3. NextHit(i) \in Nat
        BY <1>2, <2>1
      <4>4. Lists(results[i].after, Between(KeptOf(log, here + 1, NextHit(i)), 0, job.context))
        BY <1>1, <4>2, <4>3, TrailsListed
      <4>5. Lists(results[i].before, Preceding(here, job.context))
        BY <1>2, <2>1, <4>1
      <4> QED
        BY <4>1, <4>4, <4>5 DEF Kept, KeptOf, Preceding
    <3> QED
      BY <3>1 DEF ContextExact
  <2>2. CASE job.op # "search"
    <3>1. 1 .. Len(results) = {}
      BY <2>2 DEF SearchInv, Found
    <3> QED
      BY <3>1 DEF ContextExact
  <2> QED
    BY <2>1, <2>2
<1> QED
  BY <1>3, <1>4 DEF SearchExact

\* search_log finds the matches among the lines it reads, from the first on, once and in
\* order, stops only with the source or with as many as it was asked for, and shows each
\* with its context whole.
THEOREM SearchesExactly == ReadSpec => []SearchExact
<1>1. SearchInv => SearchExact
  BY SearchInvExact
<1> QED
  BY <1>1, InitSearchInv, NextSearchInv, PTL DEF ReadSpec
================================================================================
