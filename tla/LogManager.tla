------------------------------- MODULE LogManager -------------------------------
(* logs.Manager (internal/logs/logs.go) under concurrent tool calls: access checks *)
(* against whitelist and blacklist, opening a file whose path may change under     *)
(* the check, the cached listing, and Update by a config reload.                   *)
(*                                                                                 *)
(* A pattern list is the set of paths it matches.  The file system is a function   *)
(* from paths to what they resolve to, changed at any moment by other programs.    *)
(* What a short critical section does under the read lock is one step, enabled     *)
(* while no scan holds the write lock.                                             *)
EXTENDS Naturals, FiniteSets

CONSTANTS
    Paths,      \* paths of the file system, links included
    Volatile,   \* those that other programs replace while the server runs
    Journal,    \* the path journald://
    NoPath,     \* not a path
    Requests,   \* tool calls in progress at once
    NoRequest,  \* not a request: nobody holds the write lock
    Acls,       \* settings an Update may bring
    TTL         \* listCacheTTL, in ticks

AclType == [whitelist : SUBSET Paths, blacklist : SUBSET (Paths \cup {Journal}),
            journald : BOOLEAN]

ASSUME Assumptions ==
    /\ Volatile \subseteq Paths
    /\ Journal \notin Paths /\ NoPath \notin Paths \cup {Journal}
    /\ NoRequest \notin Requests
    /\ Acls \subseteq AclType /\ Acls # {}
    /\ TTL \in Nat \ {0}

VARIABLES
    acl,       \* whitelist, blacklist and journald of the Manager
    cached,    \* cachedFiles: entries [path, readable], path the file opened
    left,      \* ticks until cachedFiles expires; 0 once expired or reset
    writer,    \* the request that scans under the write lock, or NoRequest
    target,    \* target[p]: the path of the file that p resolves to
    req,       \* req[r]: the tool call r
    since      \* since[r]: the settings in force at any time since r began

vars == <<acl, cached, left, writer, target, req, since>>

Entries == [path : Paths \cup {Journal}, readable : BOOLEAN]

Ops == {"read", "info", "list"}

\* The steps of the scan, under the write lock.
Scanning == {"scan", "stat", "probe"}

Listing == {"lookup", "slow"} \cup Scanning

Steps == {"check", "clean", "copy", "open", "served"} \cup Listing

NoAcl == [whitelist |-> {}, blacklist |-> {}, journald |-> FALSE]

Idle == [pc |-> "idle", op |-> "none", path |-> NoPath, copy |-> NoAcl,
         todo |-> {}, result |-> {}]

Active == [pc : Steps, op : Ops \cup {"none"}, path : Paths \cup {Journal, NoPath},
           copy : Acls \cup {NoAcl}, todo : SUBSET Paths, result : SUBSET Entries]

TypeOK ==
    /\ acl \in Acls
    /\ cached \subseteq Entries
    /\ left \in 0 .. TTL
    /\ writer \in Requests \cup {NoRequest}
    /\ target \in [Paths -> Paths]
    /\ req \in [Requests -> {Idle} \cup Active]
    /\ since \in [Requests -> SUBSET Acls]
    /\ \A r \in Requests : writer = r <=> req[r].pc \in Scanning

--------------------------------------------------------------------------------
\* checkACL, and the two loops of IsAllowed: the blacklist wins.
Allowed(a, path) ==
    IF path = Journal
    THEN a.journald /\ path \notin a.blacklist
    ELSE path \in a.whitelist \ a.blacklist

\* What ListAccessible calls readable: it does not ask the blacklist about the journal.
Listed(a, path) == IF path = Journal THEN a.journald ELSE Allowed(a, path)

At(r, pc) == req[r].pc = pc

Unlocked == writer = NoRequest

Serve(r, result) ==
    /\ req' = [req EXCEPT ![r] = [Idle EXCEPT !.pc = "served", !.result = result]]
    /\ UNCHANGED since

Leave(r) ==
    /\ req' = [req EXCEPT ![r] = Idle]
    /\ since' = [since EXCEPT ![r] = {}]

JournaldInfo == [path |-> Journal, readable |-> TRUE]

Init ==
    /\ acl \in Acls
    /\ cached = {} /\ left = 0
    /\ writer = NoRequest
    /\ target = [p \in Paths |-> p]
    /\ req = [r \in Requests |-> Idle]
    /\ since = [r \in Requests |-> {}]

Arrive(r, op, path) ==
    /\ req[r] = Idle
    /\ op = "list" <=> path = NoPath
    /\ req' = [req EXCEPT ![r] = [Idle EXCEPT
          !.pc = IF op = "list" THEN "lookup" ELSE "check", !.op = op, !.path = path]]
    /\ since' = [since EXCEPT ![r] = {acl}]
    /\ UNCHANGED <<acl, cached, left, writer, target>>

\* IsAllowed copies the settings under the read lock...
Check(r) ==
    /\ At(r, "check") /\ req[r].copy = NoAcl /\ Unlocked
    /\ req' = [req EXCEPT ![r].copy = acl]
    /\ UNCHANGED <<acl, cached, left, writer, target, since>>

Real(path) == IF path = Journal THEN Journal ELSE target[path]

\* ... and matches the resolved path.  An allowed journald:// path is served
\* without another look at the settings; ReadFile and SearchFile resolve the path
\* and then copy the settings again, FileInfo copies them first.
Decide(r) ==
    /\ At(r, "check") /\ req[r].copy # NoAcl
    /\ LET path == req[r].path
       IN  \/ /\ ~Allowed(req[r].copy, Real(path))
              /\ Leave(r)
           \/ /\ Allowed(req[r].copy, path) /\ path = Journal
              /\ Serve(r, {JournaldInfo})
           \/ /\ Allowed(req[r].copy, Real(path)) /\ path # Journal
              /\ req' = [req EXCEPT
                    ![r].pc = IF req[r].op = "info" THEN "copy" ELSE "clean",
                    ![r].copy = NoAcl]
              /\ UNCHANGED since
    /\ UNCHANGED <<acl, cached, left, writer, target>>

Clean(r) ==
    /\ At(r, "clean")
    /\ req' = [req EXCEPT ![r].path = target[req[r].path],
                          ![r].pc = IF req[r].op = "info" THEN "open" ELSE "copy"]
    /\ UNCHANGED <<acl, cached, left, writer, target, since>>

\* snapshotACL
Copy(r) ==
    /\ At(r, "copy") /\ Unlocked
    /\ req' = [req EXCEPT ![r].copy = acl,
                          ![r].pc = IF req[r].op = "info" THEN "clean" ELSE "open"]
    /\ UNCHANGED <<acl, cached, left, writer, target, since>>

\* Mutant of Reopened: the second check looks at the path, not at the opened file.
ReopenedByName(a, path) ==
    [path |-> target[path], readable |-> Allowed(a, path)]

\* safeOpenFile: what the opened file really is, and whether a allows it.
Reopened(a, path) == [path |-> target[path], readable |-> Allowed(a, target[path])]

Unopened(path) == [path |-> path, readable |-> FALSE]

\* ReadFile fails when the file is not allowed, FileInfo answers readable=false, as it does
\* when the file cannot be opened; both fail when it is not there.
Open(r) ==
    /\ At(r, "open")
    /\ LET f == Reopened(req[r].copy, req[r].path)
       IN  \/ (f.readable \/ req[r].op = "info") /\ Serve(r, {f})
           \/ req[r].op = "info" /\ Serve(r, {Unopened(req[r].path)})
           \/ Leave(r)
    /\ UNCHANGED <<acl, cached, left, writer, target>>

--------------------------------------------------------------------------------
\* ListAccessible, fast path.
Lookup(r) ==
    /\ At(r, "lookup") /\ Unlocked
    /\ IF left > 0
       THEN Serve(r, cached)
       ELSE req' = [req EXCEPT ![r].pc = "slow"] /\ UNCHANGED since
    /\ UNCHANGED <<acl, cached, left, writer, target>>

\* The write lock, and the second look at the cache.
Acquire(r) ==
    /\ At(r, "slow") /\ Unlocked
    /\ \/ /\ left > 0
          /\ Serve(r, cached)
          /\ UNCHANGED writer
       \/ /\ left = 0
          /\ writer' = r
          /\ req' = [req EXCEPT ![r].pc = "scan", ![r].todo = acl.whitelist,
                ![r].result = IF acl.journald THEN {JournaldInfo} ELSE {}]
          /\ UNCHANGED since
    /\ UNCHANGED <<acl, cached, left, target>>

\* Mutant of Scan: the entry is checked with IsAllowed, which takes the read lock.
ScanRelocks(r, p) ==
    /\ At(r, "scan") /\ p \in req[r].todo /\ Unlocked
    /\ req' = [req EXCEPT ![r].todo = @ \ {p}]
    /\ UNCHANGED <<acl, cached, left, writer, target, since>>

\* One match of one pattern: resolved and checked against the live settings, or left out,
\* as a directory is and what has gone.
Scan(r, p) ==
    /\ At(r, "scan") /\ p \in req[r].todo
    /\ \/ /\ Allowed(acl, target[p])
          /\ req' = [req EXCEPT ![r].todo = @ \ {p}, ![r].path = target[p],
                                ![r].pc = "stat"]
       \/ req' = [req EXCEPT ![r].todo = @ \ {p}]
    /\ UNCHANGED <<acl, cached, left, writer, target, since>>

\* fileInfoWithACL on the path just checked: it resolves the path once more ...
Stat(r) ==
    /\ At(r, "stat")
    /\ req' = [req EXCEPT ![r].pc = "probe", ![r].path = target[req[r].path]]
    /\ UNCHANGED <<acl, cached, left, writer, target, since>>

\* ... and opens it.  (A row that says readable=false because the file has gone by now or
\* cannot be opened is as good as none, which Scan allows for.)
Probe(r) ==
    /\ At(r, "probe")
    /\ req' = [req EXCEPT ![r].pc = "scan", ![r].path = NoPath,
          ![r].result = @ \cup {Reopened(acl, req[r].path)}]
    /\ UNCHANGED <<acl, cached, left, writer, target, since>>

\* Mutant of EndScan: the write lock is not given back.
EndScanKeepsLock(r) ==
    /\ At(r, "scan") /\ req[r].todo = {}
    /\ cached' = req[r].result
    /\ left' = TTL
    /\ Serve(r, req[r].result)
    /\ UNCHANGED <<acl, target, writer>>

EndScan(r) ==
    /\ At(r, "scan") /\ req[r].todo = {}
    /\ cached' = req[r].result
    /\ left' = TTL
    /\ writer' = NoRequest
    /\ Serve(r, req[r].result)
    /\ UNCHANGED <<acl, target>>

Reply(r) ==
    /\ At(r, "served")
    /\ Leave(r)
    /\ UNCHANGED <<acl, cached, left, writer, target>>

--------------------------------------------------------------------------------
InForce(a) ==
    since' = [r \in Requests |-> IF req[r] = Idle THEN {} ELSE since[r] \cup {a}]

\* Mutant of Update: the cache is not reset.
UpdateKeepsCache(a) ==
    /\ Unlocked
    /\ acl' = a
    /\ InForce(a)
    /\ UNCHANGED <<cached, left, writer, target, req>>

Update(a) ==
    /\ Unlocked
    /\ acl' = a
    /\ left' = 0
    /\ InForce(a)
    /\ UNCHANGED <<cached, writer, target, req>>

\* Another program puts a symbolic link to q in the place of p (q may be p: a
\* regular file takes the place of a link).
Relink(p, q) ==
    /\ p # q => target[q] # p
    /\ target' = [x \in Paths |->
          IF x = p \/ target[x] = p THEN (IF p = q THEN p ELSE target[q]) ELSE target[x]]
    /\ UNCHANGED <<acl, cached, left, writer, req, since>>

Tick ==
    /\ left > 0
    /\ left' = left - 1
    /\ UNCHANGED <<acl, cached, writer, target, req, since>>

Step(r) ==
    \/ Check(r) \/ Decide(r) \/ Clean(r) \/ Copy(r) \/ Open(r)
    \/ Lookup(r) \/ Acquire(r) \/ (\E p \in Paths : Scan(r, p)) \/ Stat(r)
    \/ Probe(r) \/ EndScan(r)
    \/ Reply(r)

Environment ==
    \/ \E a \in Acls : Update(a)
    \/ \E p \in Volatile, q \in Paths : Relink(p, q)
    \/ Tick

Next ==
    \/ \E r \in Requests :
          \/ \E op \in Ops, path \in Paths \cup {Journal, NoPath} : Arrive(r, op, path)
          \/ Step(r)
    \/ Environment

Spec == Init /\ [][Next]_vars

\* Goroutines are scheduled, file operations return, and sync.RWMutex lets no
\* waiter starve (strong fairness, for a step waits only on that lock).
FairSpec == Spec /\ \A r \in Requests : SF_vars(Step(r))

--------------------------------------------------------------------------------
\* Where a call stands, and what it has been served, as its caller sees it.
Access == [r \in Requests |->
    IF req[r].pc \in {"idle", "served"} THEN req[r].pc
    ELSE IF req[r].pc \in Listing THEN "listing" ELSE "in"]

Content == [r \in Requests |-> IF req[r].pc = "served" THEN req[r].result ELSE {}]

Promise == INSTANCE FileAccess WITH access <- Access, content <- Content

\* Every file whose content a call hands out, and every file it lists as readable, is
\* one that the settings in force at some moment of that call allow: whatever links
\* were put in place of the path after IsAllowed said yes, and whichever settings the
\* cached listing was computed under.  The journal is only handed out when it is not
\* blacklisted, and listed when it is switched on.  Nothing else that the Manager does
\* can be seen.
ImplementsFileAccess == Promise!AccessSpec

\* The cache never answers under settings other than those it was filled under.
CacheMatchesSettings ==
    left > 0 => \A e \in cached : e.readable => Listed(acl, e.path)

\* Every tool call is answered: the scan that blocks all access checks does not
\* wait for any of them.
CallsAnswered == \A r \in Requests : req[r] # Idle ~> req[r] = Idle
================================================================================
