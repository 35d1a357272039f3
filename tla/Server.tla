--------------------------------- MODULE Server ---------------------------------
(* The core of logmcp serve: Server.Reload on SIGHUP (internal/mcp/server.go)       *)
(* against the requests of buildHandler, which authenticate through auth.Middleware *)
(* with the server's objects they copied, and then use the one logs.Manager that    *)
(* every config shares.                                                             *)
(*                                                                                  *)
(* Reload holds the server's mutex mu over several steps; the handlers' short       *)
(* read-locked sections are one step each, enabled while Reload does not hold it.   *)
(* The verify caches are objects: a request may go on using one that Reload has     *)
(* replaced.  What RateLimiter and VerifyCache show of one limiter and one cache is *)
(* abstracted here: a limiter may refuse, an entry may expire at any time.          *)
EXTENDS Naturals, Sequences

CONSTANTS
    Requests,    \* requests open at once
    NoRequest,   \* not a request: nobody scans the log files
    Tokens,      \* bearer tokens
    Commands,    \* authenticator commands
    Timeouts,    \* their timeout_seconds
    None,        \* a config without an authenticator
    Vouched,     \* Vouched[c]: the tokens command c recognises
    Configs,     \* configs the operator may write
    Broken,      \* a config file that config.Load rejects
    MaxEdits     \* bound on the edits of the config file

Authenticators == [command : Commands, timeout : Timeouts]

ASSUME Assumptions ==
    /\ NoRequest \notin Requests
    /\ None \notin Authenticators
    /\ None \notin Commands
    /\ Vouched \in [Commands -> SUBSET Tokens]
    /\ Configs \subseteq [authenticator : Authenticators \cup {None},
                          tokens : SUBSET Tokens]
    /\ Broken \notin Configs
    /\ MaxEdits \in Nat

VARIABLES
    disk,     \* the config file: its content and the number of its edits
    hups,     \* SIGHUPs: the edits made when the last was sent, and whether the
              \* signal channel (capacity 1) holds one
    reload,   \* the reload goroutine: its step and the locals it still needs
    srv,      \* the Server's fields under mu: cfg (and its edit number),
              \* tokenEntries, verifyCache (0: nil)
    caches,   \* every VerifyCache ever made: its authenticator, the tokens it holds
    aclVer,   \* the edit number of the config whose lists logMgr holds
    scanner,  \* the request that holds logMgr's write lock, or NoRequest
    req       \* req[r]: the request r

vars == <<disk, hups, reload, srv, caches, aclVer, scanner, req>>

Vers == 0 .. MaxEdits

VerifyCaches == [authenticator : Authenticators, tokens : SUBSET Tokens]

CommandOf(c) == IF c.authenticator = None THEN None ELSE c.authenticator.command

\* The reload goroutine: newCfg until it is installed, oldCmd until it is compared.
Reloads ==
         [pc : {"wait", "load", "notify"}]
    \cup [pc : {"lock"}, cfg : Configs, ver : Vers]
    \cup [pc : {"acl", "cache"}, oldCmd : Commands \cup {None}]

\* A request with the fields it copied under mu.
SnappedStates ==
    [pc : {"resolve", "command", "store", "context"}, token : Tokens,
     cfg : Configs, ver : Vers, entries : SUBSET Tokens, cache : Nat]

\* A request: on its way in with its token, authenticating, and once admitted under
\* edit ver.
ReqStates ==
    [pc : {"idle"}] \cup [pc : {"snapshot"}, token : Tokens]
    \cup SnappedStates \cup [pc : {"tool", "scan"}, ver : Vers]

At(r, pc) == req[r].pc = pc

Snapped(r) == req[r].pc \in {"resolve", "command", "store", "context"}

TypeOK ==
    /\ disk \in [content : Configs \cup {Broken}, ver : Vers]
    /\ hups \in [asked : Vers, pending : BOOLEAN]
    /\ reload \in Reloads
    /\ srv \in [cfg : Configs, ver : Vers, entries : SUBSET Tokens, cache : Nat]
    /\ caches \in Seq(VerifyCaches)
    /\ srv.cache <= Len(caches)
    /\ aclVer \in Vers
    /\ scanner \in Requests \cup {NoRequest}
    /\ req \in [Requests -> ReqStates]
    /\ \A r \in Requests : Snapped(r) => req[r].cache <= Len(caches)
    /\ \A r \in Requests : scanner = r <=> At(r, "scan")

--------------------------------------------------------------------------------
Goto(r, pc) == req' = [req EXCEPT ![r].pc = pc]

Idle == [pc |-> "idle"]

Answer(r) == req' = [req EXCEPT ![r] = Idle]

\* Reload holds mu from Lock to Unlock.
MuFree == reload.pc \notin {"acl", "cache", "notify"}

NewCache(a) == [authenticator |-> a, tokens |-> {}]

\* New: the first config, loaded before the SIGHUP channel exists.
Init ==
    \E c \in Configs :
        /\ disk = [content |-> c, ver |-> 0]
        /\ hups = [asked |-> 0, pending |-> FALSE]
        /\ reload = [pc |-> "wait"]
        /\ caches = IF c.authenticator = None
                    THEN <<>> ELSE <<NewCache(c.authenticator)>>
        /\ srv = [cfg |-> c, ver |-> 0, entries |-> c.tokens, cache |-> Len(caches)]
        /\ aclVer = 0
        /\ scanner = NoRequest
        /\ req = [r \in Requests |-> Idle]

--------------------------------------------------------------------------------
(* The operator *)

Edit(c) ==
    /\ disk.ver < MaxEdits
    /\ disk' = [content |-> c, ver |-> disk.ver + 1]
    /\ UNCHANGED <<hups, reload, srv, caches, aclVer, scanner, req>>

\* A signal that finds the channel full is dropped: one is pending already.  The channel
\* is there: before signal.Notify a SIGHUP would end the process.
Hup ==
    /\ hups' = [asked |-> disk.ver, pending |-> TRUE]
    /\ UNCHANGED <<disk, reload, srv, caches, aclVer, scanner, req>>

--------------------------------------------------------------------------------
(* The reload goroutine: for range ch { srv.Reload(path) } *)

TakeHup ==
    /\ reload.pc = "wait" /\ hups.pending
    /\ hups' = [hups EXCEPT !.pending = FALSE]
    /\ reload' = [pc |-> "load"]
    /\ UNCHANGED <<disk, srv, caches, aclVer, scanner, req>>

\* config.Load; on an error Reload returns and the old config stays.
Load ==
    /\ reload.pc = "load"
    /\ reload' = IF disk.content = Broken
                 THEN [pc |-> "wait"]
                 ELSE [pc |-> "lock", cfg |-> disk.content, ver |-> disk.ver]
    /\ UNCHANGED <<disk, hups, srv, caches, aclVer, scanner, req>>

\* mu.Lock, oldCmd, cfg, tokenEntries and fresh rate limiters.
Lock ==
    /\ reload.pc = "lock"
    /\ reload' = [pc |-> "acl", oldCmd |-> CommandOf(srv.cfg)]
    /\ srv' = [srv EXCEPT !.cfg = reload.cfg, !.ver = reload.ver,
                          !.entries = reload.cfg.tokens]
    /\ UNCHANGED <<disk, hups, caches, aclVer, scanner, req>>

\* Mutant of UpdateAcl: a running scan makes the update give up.
UpdateAclTry ==
    /\ reload.pc = "acl"
    /\ aclVer' = IF scanner = NoRequest THEN srv.ver ELSE aclVer
    /\ reload' = [reload EXCEPT !.pc = "cache"]
    /\ UNCHANGED <<disk, hups, srv, caches, scanner, req>>

\* logMgr.Update, under the Manager's own lock and inside mu.
UpdateAcl ==
    /\ reload.pc = "acl" /\ scanner = NoRequest
    /\ aclVer' = srv.ver
    /\ reload' = [reload EXCEPT !.pc = "cache"]
    /\ UNCHANGED <<disk, hups, srv, caches, scanner, req>>

\* Mutant of KeepCache: oldCmd is not compared with newCmd.
KeepAnyCache == srv.cache # 0

\* verifyCache survives a reload iff there is one and the command is the same.
KeepCache == srv.cache # 0 /\ reload.oldCmd = CommandOf(srv.cfg)

SwapCache ==
    /\ reload.pc = "cache"
    /\ reload' = [pc |-> "notify"]
    /\ \/ /\ srv.cfg.authenticator = None
          /\ srv' = [srv EXCEPT !.cache = 0]
          /\ UNCHANGED caches
       \/ /\ srv.cfg.authenticator # None /\ KeepCache
          /\ UNCHANGED <<srv, caches>>
       \/ /\ srv.cfg.authenticator # None /\ ~KeepCache
          /\ caches' = Append(caches, NewCache(srv.cfg.authenticator))
          /\ srv' = [srv EXCEPT !.cache = Len(caches) + 1]
    /\ UNCHANGED <<disk, hups, aclVer, scanner, req>>

\* Mutant of Unlock: the signals that came in meanwhile are drained.
UnlockDrains ==
    /\ reload.pc = "notify"
    /\ reload' = [pc |-> "wait"]
    /\ hups' = [hups EXCEPT !.pending = FALSE]
    /\ UNCHANGED <<disk, srv, caches, aclVer, scanner, req>>

\* telegram.yaml is read again, under mu, for the notify tools (whose service is not
\* part of this model); then mu.Unlock on the one path there is.
Unlock ==
    /\ reload.pc = "notify"
    /\ reload' = [pc |-> "wait"]
    /\ UNCHANGED <<disk, hups, srv, caches, aclVer, scanner, req>>

--------------------------------------------------------------------------------
(* A request *)

Arrive(r, t) ==
    /\ At(r, "idle")
    /\ req' = [req EXCEPT ![r] = [pc |-> "snapshot", token |-> t]]
    /\ UNCHANGED <<disk, hups, reload, srv, caches, aclVer, scanner>>

Copied(r) == [pc |-> "resolve", token |-> req[r].token, cfg |-> srv.cfg, ver |-> srv.ver,
              entries |-> srv.entries, cache |-> srv.cache]

\* Mutant of Snapshot: the fields are read without mu.
SnapshotUnlocked(r) ==
    /\ At(r, "snapshot")
    /\ req' = [req EXCEPT ![r] = Copied(r)]
    /\ UNCHANGED <<disk, hups, reload, srv, caches, aclVer, scanner>>

\* The read-locked section of protected.
Snapshot(r) ==
    /\ At(r, "snapshot") /\ MuFree
    /\ req' = [req EXCEPT ![r] = Copied(r)]
    /\ UNCHANGED <<disk, hups, reload, srv, caches, aclVer, scanner>>

\* auth.Middleware: a limiter (429) or the header (401) refuses the request, or
\* StaticResolver or the lookup of VerifyCache.Verify decides on its token.
Resolve(r) ==
    /\ At(r, "resolve")
    /\ \/ Answer(r)
       \/ /\ req[r].cfg.authenticator = None
          /\ req[r].token \in req[r].entries
          /\ Goto(r, "context")
       \/ /\ req[r].cfg.authenticator # None
          /\ IF req[r].token \in caches[req[r].cache].tokens
             THEN Goto(r, "context") ELSE Goto(r, "command")
    /\ UNCHANGED <<disk, hups, reload, srv, caches, aclVer, scanner>>

\* The command of the cache object the request holds rejects the token (401), fails
\* or times out (500), or recognises it.
Command(r) ==
    /\ At(r, "command")
    /\ \/ Answer(r)
       \/ /\ req[r].token \in Vouched[caches[req[r].cache].authenticator.command]
          /\ Goto(r, "store")
    /\ UNCHANGED <<disk, hups, reload, srv, caches, aclVer, scanner>>

Store(r) ==
    /\ At(r, "store")
    /\ caches' = [caches EXCEPT ![req[r].cache].tokens = @ \cup {req[r].token}]
    /\ Goto(r, "context")
    /\ UNCHANGED <<disk, hups, reload, srv, aclVer, scanner>>

\* httpContextFunc takes mu again for the proxy setting.
Context(r) ==
    /\ At(r, "context") /\ MuFree
    /\ req' = [req EXCEPT ![r] = [pc |-> "tool", ver |-> req[r].ver]]
    /\ UNCHANGED <<disk, hups, reload, srv, caches, aclVer, scanner>>

\* A tool that checks access with IsAllowed, under the Manager's read lock, and
\* answers.
Access(r) ==
    /\ At(r, "tool") /\ scanner = NoRequest
    /\ Answer(r)
    /\ UNCHANGED <<disk, hups, reload, srv, caches, aclVer, scanner>>

\* list_logs: the scan of ListAccessible, under the Manager's write lock.
StartScan(r) ==
    /\ At(r, "tool") /\ scanner = NoRequest
    /\ scanner' = r
    /\ Goto(r, "scan")
    /\ UNCHANGED <<disk, hups, reload, srv, caches, aclVer>>

\* Mutants of EndScan: the lock is not given back; the scan reads the server's
\* config, under mu.
EndScanKeepsLock(r) ==
    /\ At(r, "scan")
    /\ Answer(r)
    /\ UNCHANGED <<disk, hups, reload, srv, caches, aclVer, scanner>>

EndScanReadsConfig(r) ==
    /\ At(r, "scan") /\ MuFree
    /\ scanner' = NoRequest
    /\ Answer(r)
    /\ UNCHANGED <<disk, hups, reload, srv, caches, aclVer>>

EndScan(r) ==
    /\ At(r, "scan")
    /\ scanner' = NoRequest
    /\ Answer(r)
    /\ UNCHANGED <<disk, hups, reload, srv, caches, aclVer>>

\* An entry of some cache expires.
Expire(i, t) ==
    /\ t \in caches[i].tokens
    /\ caches' = [caches EXCEPT ![i].tokens = @ \ {t}]
    /\ UNCHANGED <<disk, hups, reload, srv, aclVer, scanner, req>>

--------------------------------------------------------------------------------
Reload == TakeHup \/ Load \/ Lock \/ UpdateAcl \/ SwapCache \/ Unlock

Handle(r) ==
    \/ Snapshot(r) \/ Resolve(r) \/ Command(r) \/ Store(r) \/ Context(r)
    \/ Access(r) \/ StartScan(r) \/ EndScan(r)

Next ==
    \/ Hup \/ \E c \in Configs \cup {Broken} : Edit(c)
    \/ Reload
    \/ \E r \in Requests : (\E t \in Tokens : Arrive(r, t)) \/ Handle(r)
    \/ \E i \in DOMAIN caches, t \in Tokens : Expire(i, t)

Spec == Init /\ [][Next]_vars

\* Goroutines are scheduled, the command is killed at its timeout, a scan ends, and
\* sync.RWMutex starves neither readers nor the writer.
FairSpec ==
    /\ Spec
    /\ SF_vars(Reload)
    /\ \A r \in Requests : SF_vars(Handle(r))

--------------------------------------------------------------------------------
\* verifyCache.Verify is called on a cache that exists and that asks the command of
\* the very config the request authenticates under, although Reload sets cfg and
\* verifyCache in different steps and compares commands it no longer holds.
SnapshotConsistent ==
    \A r \in Requests : Snapped(r) =>
        LET c == req[r].cfg
        IN  c.authenticator # None =>
                /\ req[r].cache # 0
                /\ caches[req[r].cache].authenticator.command = CommandOf(c)

\* A request is let in only with a token that its own config lists or that its
\* config's command vouches for - never one cached from a former command.
AdmittedByAuthority ==
    \A r \in Requests : At(r, "context") =>
        IF req[r].cfg.authenticator = None THEN req[r].token \in req[r].cfg.tokens
        ELSE req[r].token \in Vouched[CommandOf(req[r].cfg)]

\* The lists a tool call is checked against are never older than the config its
\* token was accepted under: of a reload that grants a token and narrows the
\* whitelist, the grant alone is never seen.
AclNotOlderThanAuth ==
    \A r \in Requests : req[r].pc \in {"tool", "scan"} => aclVer >= req[r].ver

\* When the operator has made a last edit that loads and sent a SIGHUP after it, the
\* server ends up running that edit, with reloads in progress and signals merged.
LastEditApplied ==
    <>[](hups.asked = disk.ver /\ disk.content # Broken)
        => <>[](srv.ver = disk.ver /\ aclVer = disk.ver)

\* Every request is answered: neither a reload nor a scan leaves a lock behind, and
\* the two locks are never waited for in a circle.
RequestsAnswered == \A r \in Requests : ~At(r, "idle") ~> At(r, "idle")

\* Reload applies the new config (server.go:1031): the authenticator that verifies
\* tokens after a reload is the one of the config, timeout_seconds included.
AuthenticatorApplied ==
    reload.pc = "wait" /\ srv.cfg.authenticator # None =>
        caches[srv.cache].authenticator = srv.cfg.authenticator
================================================================================
