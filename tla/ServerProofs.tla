------------------------------ MODULE ServerProofs ------------------------------
(* Theorems about Server: its types, and that neither the steps of a reload nor   *)
(* caches that outlive their config let a request in on the wrong authority.      *)
EXTENDS Server, SequenceTheorems, TLAPS

--------------------------------------------------------------------------------
(* The updates of caches and of a request *)

\* The caches with the tokens of cache i replaced.
WithTokens(cs, i, ts) == [cs EXCEPT ![i].tokens = ts]

\* Storing or expiring a token changes the tokens of one cache and nothing else.
LEMMA CacheUpdate ==
    ASSUME NEW cs \in Seq(VerifyCaches), NEW i, NEW ts \in SUBSET Tokens,
           NEW new, new = WithTokens(cs, i, ts)
    PROVE  /\ new \in Seq(VerifyCaches)
           /\ Len(new) = Len(cs)
           /\ \A j \in 1 .. Len(cs) :
                 /\ new[j].authenticator = cs[j].authenticator
                 /\ new[j].tokens = IF j = i THEN ts ELSE cs[j].tokens
<1> DEFINE c == [cs[i] EXCEPT !.tokens = ts]
<1>1. CASE i \in 1 .. Len(cs)
  <2>1. /\ c \in VerifyCaches
        /\ c.authenticator = cs[i].authenticator
        /\ c.tokens = ts
    <3>1. cs[i] \in VerifyCaches
      BY <1>1, ElementOfSeq
    <3> QED
      BY <3>1 DEF VerifyCaches
  <2>2. new = [cs EXCEPT ![i] = c]
    BY DEF WithTokens
  <2> HIDE DEF c
  <2>3. /\ new \in Seq(VerifyCaches)
        /\ Len(new) = Len(cs)
        /\ \A j \in 1 .. Len(cs) : new[j] = IF j = i THEN c ELSE cs[j]
    BY <1>1, <2>1, <2>2, ExceptSeq
  <2> QED
    BY <2>1, <2>3
<1>2. CASE i \notin 1 .. Len(cs)
  <2>1. DOMAIN cs = 1 .. Len(cs) /\ cs = [j \in DOMAIN cs |-> cs[j]]
    BY LenProperties
  <2>2. new = cs
    BY <1>2, <2>1 DEF WithTokens
  <2> QED
    BY <1>2, <2>2
<1> QED
  BY <1>1, <1>2

\* Store, as an update of one cache.
LEMMA StoreUpdates ==
    ASSUME TypeOK, NEW r \in Requests, Store(r)
    PROVE  /\ caches' \in Seq(VerifyCaches)
           /\ Len(caches') = Len(caches)
           /\ \A j \in 1 .. Len(caches) :
                 /\ caches'[j].authenticator = caches[j].authenticator
                 /\ caches'[j].tokens = IF j = req[r].cache
                                        THEN caches[j].tokens \cup {req[r].token}
                                        ELSE caches[j].tokens
<1> DEFINE i == req[r].cache
           ts == caches[i].tokens \cup {req[r].token}
<1>1. caches' = WithTokens(caches, i, ts)
  BY DEF Store, WithTokens
<1>2. caches \in Seq(VerifyCaches)
  BY DEF TypeOK
<1>3. CASE i \in 1 .. Len(caches)
  <2>1. req[r] \in SnappedStates
    BY DEF Store, At, TypeOK, ReqStates, SnappedStates
  <2>2. caches[i] \in VerifyCaches
    BY <1>2, <1>3, ElementOfSeq
  <2>3. ts \in SUBSET Tokens
    BY <2>1, <2>2 DEF VerifyCaches, SnappedStates
  <2>4. /\ i = req[r].cache
        /\ \A j \in 1 .. Len(caches) : j = i => ts = caches[j].tokens \cup {req[r].token}
    OBVIOUS
  <2> HIDE DEF i, ts
  <2>5. /\ caches' \in Seq(VerifyCaches)
        /\ Len(caches') = Len(caches)
        /\ \A j \in 1 .. Len(caches) :
              /\ caches'[j].authenticator = caches[j].authenticator
              /\ caches'[j].tokens = IF j = i THEN ts ELSE caches[j].tokens
    BY <1>1, <1>2, <2>3, CacheUpdate
  <2> QED
    BY <2>4, <2>5
<1>4. CASE i \notin 1 .. Len(caches)
  <2>1. DOMAIN caches = 1 .. Len(caches) /\ caches = [j \in DOMAIN caches |-> caches[j]]
    BY <1>2, LenProperties
  <2>2. caches' = caches
    BY <1>1, <1>4, <2>1 DEF WithTokens
  <2> QED
    BY <1>2, <1>4, <2>2
<1> QED
  BY <1>3, <1>4

\* Expire, as an update of one cache.
LEMMA ExpireUpdates ==
    ASSUME TypeOK, NEW i \in DOMAIN caches, NEW t \in Tokens, Expire(i, t)
    PROVE  /\ caches' \in Seq(VerifyCaches)
           /\ Len(caches') = Len(caches)
           /\ \A j \in 1 .. Len(caches) :
                 /\ caches'[j].authenticator = caches[j].authenticator
                 /\ caches'[j].tokens \subseteq caches[j].tokens
<1> DEFINE ts == caches[i].tokens \ {t}
<1>1. caches' = WithTokens(caches, i, ts)
  BY DEF Expire, WithTokens
<1>2. caches \in Seq(VerifyCaches) /\ DOMAIN caches = 1 .. Len(caches)
  BY LenProperties DEF TypeOK
<1>3. caches[i] \in VerifyCaches
  BY <1>2, ElementOfSeq
<1>4. ts \in SUBSET Tokens
  BY <1>3 DEF VerifyCaches
<1>5. \A j \in 1 .. Len(caches) : j = i => ts \subseteq caches[j].tokens
  OBVIOUS
<1> HIDE DEF ts
<1> QED
  BY <1>1, <1>2, <1>4, <1>5, CacheUpdate

\* A new cache leaves the others where they were.
LEMMA CacheAppend ==
    ASSUME NEW cs \in Seq(VerifyCaches), NEW c \in VerifyCaches,
           NEW new, new = Append(cs, c)
    PROVE  /\ new \in Seq(VerifyCaches)
           /\ Len(new) = Len(cs) + 1
           /\ Len(cs) \in Nat
           /\ new[Len(new)] = c
           /\ \A j \in 1 .. Len(cs) : new[j] = cs[j]
  BY AppendProperties, LenProperties

\* A request that authenticates moves on with the fields it copied.
LEMMA Moving ==
    ASSUME TypeOK, NEW r \in Requests, Snapped(r),
           NEW pc \in {"resolve", "command", "store", "context"}, Goto(r, pc)
    PROVE  /\ req' \in [Requests -> ReqStates]
           /\ req'[r].pc = pc
           /\ req'[r].token = req[r].token
           /\ req'[r].cfg = req[r].cfg
           /\ req'[r].ver = req[r].ver
           /\ req'[r].entries = req[r].entries
           /\ req'[r].cache = req[r].cache
           /\ \A q \in Requests \ {r} : req'[q] = req[q]
<1> DEFINE moved == [req[r] EXCEPT !.pc = pc]
<1>1. req[r] \in SnappedStates
  BY DEF TypeOK, Snapped, ReqStates, SnappedStates
<1>2. moved \in SnappedStates
  BY <1>1 DEF SnappedStates
<1>3. /\ moved.pc = pc
      /\ moved.token = req[r].token
      /\ moved.cfg = req[r].cfg
      /\ moved.ver = req[r].ver
      /\ moved.entries = req[r].entries
      /\ moved.cache = req[r].cache
  BY <1>1 DEF SnappedStates
<1>4. req' = [req EXCEPT ![r] = moved]
  BY DEF Goto
<1> HIDE DEF moved
<1> QED
  BY <1>2, <1>3, <1>4 DEF TypeOK, ReqStates

\* ... and so keeps the types, if the caches do.
LEMMA MovingTypes ==
    ASSUME TypeOK, NEW r \in Requests, Snapped(r),
           NEW pc \in {"resolve", "command", "store", "context"}, Goto(r, pc),
           caches' \in Seq(VerifyCaches), Len(caches') = Len(caches),
           UNCHANGED <<disk, hups, reload, srv, aclVer, scanner>>
    PROVE  TypeOK'
<1>1. ~At(r, "scan") /\ ~At(r, "scan")'
  BY Moving DEF At, Snapped
<1> QED
  BY <1>1, Moving DEF TypeOK, At, Snapped

--------------------------------------------------------------------------------
(* Types *)

\* The first config is installed whole, and no request is open.
LEMMA InitTypes == ASSUME Init PROVE TypeOK
<1> USE Assumptions DEF Assumptions
<1>1. PICK c \in Configs :
          /\ disk = [content |-> c, ver |-> 0]
          /\ hups = [asked |-> 0, pending |-> FALSE]
          /\ reload = [pc |-> "wait"]
          /\ caches = IF c.authenticator = None
                      THEN <<>> ELSE <<NewCache(c.authenticator)>>
          /\ srv = [cfg |-> c, ver |-> 0, entries |-> c.tokens, cache |-> Len(caches)]
          /\ aclVer = 0
          /\ scanner = NoRequest
          /\ req = [r \in Requests |-> Idle]
  BY DEF Init
<1>2. c.tokens \in SUBSET Tokens /\ c.authenticator \in Authenticators \cup {None}
  OBVIOUS
<1>3. caches \in Seq(VerifyCaches)
  <2>1. CASE c.authenticator = None
    BY <1>1, <2>1
  <2>2. CASE c.authenticator # None
    <3>1. NewCache(c.authenticator) \in VerifyCaches
      BY <1>2, <2>2 DEF NewCache, VerifyCaches
    <3> QED
      BY <1>1, <2>2, <3>1
  <2> QED
    BY <2>1, <2>2
<1>4. Len(caches) \in Nat
  BY <1>3, LenProperties
<1>5. \A r \in Requests : ~At(r, "scan") /\ ~Snapped(r)
  BY <1>1 DEF Idle, At, Snapped
<1>6. req \in [Requests -> ReqStates]
  BY <1>1 DEF ReqStates, Idle
<1>7. /\ disk \in [content : Configs \cup {Broken}, ver : Vers]
      /\ hups \in [asked : Vers, pending : BOOLEAN]
      /\ reload \in Reloads
      /\ aclVer \in Vers
  BY <1>1 DEF Vers, Reloads
<1>8. /\ srv \in [cfg : Configs, ver : Vers, entries : SUBSET Tokens, cache : Nat]
      /\ srv.cache <= Len(caches)
  BY <1>1, <1>2, <1>4 DEF Vers
<1> QED
  BY <1>1, <1>3, <1>5, <1>6, <1>7, <1>8 DEF TypeOK

\* Every step keeps the types.
LEMMA NextTypes == ASSUME TypeOK, [Next]_vars PROVE TypeOK'
<1> USE Assumptions DEF Assumptions, Vers, Reloads, ReqStates, TypeOK, At, Snapped
<1>1. CASE Hup
  BY <1>1 DEF Hup
<1>2. ASSUME NEW c \in Configs \cup {Broken}, Edit(c) PROVE TypeOK'
  BY <1>2 DEF Edit
<1>3. CASE TakeHup
  BY <1>3 DEF TakeHup
<1>4. CASE Load
  BY <1>4 DEF Load
<1>5. CASE Lock
  BY <1>5 DEF Lock, CommandOf, Authenticators
<1>6. CASE UpdateAcl
  BY <1>6 DEF UpdateAcl
<1>7. CASE SwapCache
  <2>1. CASE UNCHANGED caches /\ (UNCHANGED srv \/ srv' = [srv EXCEPT !.cache = 0])
    BY <1>7, <2>1, LenProperties, SMTT(40) DEF SwapCache
  <2>2. CASE /\ srv.cfg.authenticator # None
             /\ caches' = Append(caches, NewCache(srv.cfg.authenticator))
             /\ srv' = [srv EXCEPT !.cache = Len(caches) + 1]
    <3>1. NewCache(srv.cfg.authenticator) \in VerifyCaches
      BY <2>2 DEF NewCache, VerifyCaches
    <3>2. /\ caches' \in Seq(VerifyCaches)
          /\ Len(caches) \in Nat
          /\ Len(caches') = Len(caches) + 1
      BY <2>2, <3>1, CacheAppend
    <3>3. /\ srv' \in [cfg : Configs, ver : Vers, entries : SUBSET Tokens, cache : Nat]
          /\ srv'.cache = Len(caches')
      <4> DEFINE n == Len(caches) + 1
      <4>1. n \in Nat /\ srv' = [srv EXCEPT !.cache = n] /\ Len(caches') = n
        BY <2>2, <3>2
      <4>2. srv \in [cfg : Configs, ver : Vers, entries : SUBSET Tokens, cache : Nat]
        OBVIOUS
      <4> HIDE DEF n, TypeOK
      <4> QED
        BY <4>1, <4>2
    <3>4. UNCHANGED <<disk, hups, aclVer, scanner, req>> /\ reload' = [pc |-> "notify"]
      BY <1>7 DEF SwapCache
    <3>5. \A r \in Requests : Snapped(r)' => req'[r].cache <= Len(caches')
      <4> TAKE r \in Requests
      <4> HAVE Snapped(r)'
      <4>1. req[r] \in SnappedStates /\ req[r].cache <= Len(caches)
        BY <3>4 DEF SnappedStates
      <4>2. req[r].cache \in Nat
        BY <4>1 DEF SnappedStates
      <4> QED
        BY <3>2, <3>4, <4>1, <4>2
    <3>6. \A r \in Requests : scanner' = r <=> At(r, "scan")'
      BY <3>4
    <3>7. srv'.cache <= Len(caches')
      BY <3>2, <3>3
    <3> HIDE DEF Reloads, ReqStates
    <3>8. reload' \in Reloads
      BY <3>4 DEF Reloads
    <3> QED
      BY <3>2, <3>3, <3>4, <3>5, <3>6, <3>7, <3>8
  <2> QED
    BY <1>7, <2>1, <2>2 DEF SwapCache
<1>8. CASE Unlock
  BY <1>8 DEF Unlock
<1>9. ASSUME NEW r \in Requests, NEW t \in Tokens, Arrive(r, t) PROVE TypeOK'
  BY <1>9 DEF Arrive
<1>10. ASSUME NEW r \in Requests, Snapshot(r) PROVE TypeOK'
  BY <1>10 DEF Snapshot, Copied, SnappedStates
<1>11. ASSUME NEW r \in Requests, Resolve(r) PROVE TypeOK'
  <2>1. CASE Answer(r)
    BY <1>11, <2>1 DEF Resolve, Answer, Idle
  <2>2. CASE Goto(r, "context")
    BY <1>11, <2>2, MovingTypes DEF Resolve
  <2>3. CASE Goto(r, "command")
    BY <1>11, <2>3, MovingTypes DEF Resolve
  <2> QED
    BY <1>11, <2>1, <2>2, <2>3 DEF Resolve
<1>12. ASSUME NEW r \in Requests, Command(r) PROVE TypeOK'
  <2>1. CASE Answer(r)
    BY <1>12, <2>1 DEF Command, Answer, Idle
  <2>2. CASE Goto(r, "store")
    BY <1>12, <2>2, MovingTypes DEF Command
  <2> QED
    BY <1>12, <2>1, <2>2 DEF Command
<1>13. ASSUME NEW r \in Requests, Store(r) PROVE TypeOK'
  <2>1. caches' \in Seq(VerifyCaches) /\ Len(caches') = Len(caches)
    BY <1>13, StoreUpdates
  <2> QED
    BY <1>13, <2>1, MovingTypes DEF Store
<1>14. ASSUME NEW r \in Requests, Context(r) PROVE TypeOK'
  BY <1>14 DEF Context, SnappedStates
<1>15. ASSUME NEW r \in Requests, Access(r) PROVE TypeOK'
  BY <1>15 DEF Access, Answer, Idle
<1>16. ASSUME NEW r \in Requests, StartScan(r) PROVE TypeOK'
  <2>1. req' = [req EXCEPT ![r] = [pc |-> "scan", ver |-> req[r].ver]]
    <3>1. req[r] \in [pc : {"tool", "scan"}, ver : Vers]
      BY <1>16 DEF StartScan, SnappedStates
    <3>2. [req[r] EXCEPT !.pc = "scan"] = [pc |-> "scan", ver |-> req[r].ver]
      BY <3>1
    <3> QED
      BY <1>16, <3>2 DEF StartScan, Goto
  <2>2. req[r].ver \in Vers
    BY <1>16 DEF StartScan, SnappedStates
  <2>3. [pc |-> "scan", ver |-> req[r].ver] \in ReqStates
    BY <2>2
  <2>4. UNCHANGED <<disk, hups, reload, srv, caches, aclVer>> /\ scanner' = r
    BY <1>16 DEF StartScan
  <2>5. scanner = NoRequest
    BY <1>16 DEF StartScan
  <2> QED
    BY <2>1, <2>3, <2>4, <2>5
<1>17. ASSUME NEW r \in Requests, EndScan(r) PROVE TypeOK'
  BY <1>17 DEF EndScan, Answer, Idle
<1>18. ASSUME NEW i \in DOMAIN caches, NEW t \in Tokens, Expire(i, t) PROVE TypeOK'
  <2>2. caches' \in Seq(VerifyCaches) /\ Len(caches') = Len(caches)
    BY <1>18, ExpireUpdates
  <2> QED
    BY <1>18, <2>2 DEF Expire
<1>19. CASE UNCHANGED vars
  BY <1>19 DEF vars
<1> QED
  BY <1>1, <1>2, <1>3, <1>4, <1>5, <1>6, <1>7, <1>8, <1>9, <1>10, <1>11, <1>12,
     <1>13, <1>14, <1>15, <1>16, <1>17, <1>18, <1>19 DEF Next, Reload, Handle

\* Every step of the server, its requests and its operator keeps the types: a lock
\* is held by exactly the request that scans, a copied cache exists.
THEOREM TypeCorrect == Spec => []TypeOK
<1>1. TypeOK /\ [Next]_vars => TypeOK'
  BY NextTypes
<1> QED
  BY InitTypes, <1>1, PTL DEF Spec

--------------------------------------------------------------------------------
(* The cache a request asks is backed by its config *)

Backed(c, i) ==
    c.authenticator # None =>
        i # 0 /\ caches[i].authenticator.command = CommandOf(c)

\* Outside of its critical section Reload leaves cfg and verifyCache matched; inside,
\* oldCmd still tells which command the cache it found asks.
ServerBacked ==
    /\ reload.pc \notin {"acl", "cache"} => Backed(srv.cfg, srv.cache)
    /\ reload.pc \in {"acl", "cache"} /\ reload.oldCmd # None =>
          srv.cache # 0 /\ caches[srv.cache].authenticator.command = reload.oldCmd

BackedInv == ServerBacked /\ SnapshotConsistent

\* A cache object, once made, keeps its authenticator for ever.
LEMMA CachesStay ==
    ASSUME TypeOK, [Next]_vars
    PROVE  /\ Len(caches) <= Len(caches')
           /\ \A i \in 1 .. Len(caches) : caches'[i].authenticator = caches[i].authenticator
<1>1. caches \in Seq(VerifyCaches) /\ Len(caches) \in Nat
  BY LenProperties DEF TypeOK
<1>2. CASE UNCHANGED caches
  BY <1>1, <1>2
<1>3. ASSUME NEW r \in Requests, Store(r)
      PROVE  /\ Len(caches) <= Len(caches')
             /\ \A i \in 1 .. Len(caches) : caches'[i].authenticator = caches[i].authenticator
  <2>1. /\ Len(caches') = Len(caches)
        /\ \A j \in 1 .. Len(caches) : caches'[j].authenticator = caches[j].authenticator
    BY <1>3, StoreUpdates
  <2> QED
    BY <1>1, <2>1
<1>4. ASSUME NEW i \in DOMAIN caches, NEW t \in Tokens, Expire(i, t)
      PROVE  /\ Len(caches) <= Len(caches')
             /\ \A j \in 1 .. Len(caches) : caches'[j].authenticator = caches[j].authenticator
  BY <1>1, <1>4, ExpireUpdates
<1>5. CASE SwapCache
  <2>1. CASE /\ srv.cfg.authenticator # None
             /\ caches' = Append(caches, NewCache(srv.cfg.authenticator))
    <3>1. NewCache(srv.cfg.authenticator) \in VerifyCaches
      BY <2>1, Assumptions DEF Assumptions, TypeOK, NewCache, VerifyCaches
    <3> QED
      BY <1>1, <2>1, <3>1, CacheAppend
  <2> QED
    BY <1>2, <1>5, <2>1 DEF SwapCache
<1> QED
  BY <1>2, <1>3, <1>4, <1>5 DEF Next, Reload, Handle, vars, Hup, Edit, TakeHup, Load,
     Lock, UpdateAcl, Unlock, Arrive, Snapshot, Resolve, Command, Context, Access,
     StartScan, EndScan

\* ... and so a config stays backed by the cache that backs it.
LEMMA BackedStays ==
    ASSUME TypeOK, [Next]_vars, NEW c \in Configs, NEW i \in Nat, i <= Len(caches),
           Backed(c, i)
    PROVE  Backed(c, i)'
<1>1. Len(caches) \in Nat
  BY LenProperties DEF TypeOK
<1> QED
  BY <1>1, CachesStay DEF Backed, CommandOf

\* Reload re-establishes the match of cfg and verifyCache before it gives mu back.
LEMMA NextServerBacked ==
    ASSUME TypeOK, BackedInv, [Next]_vars
    PROVE  ServerBacked'
<1>1. /\ srv.cfg \in Configs
      /\ srv.cache \in Nat /\ srv.cache <= Len(caches) /\ Len(caches) \in Nat
      /\ srv.cfg.authenticator \in Authenticators \cup {None}
  BY LenProperties, Assumptions DEF Assumptions, TypeOK
<1>2. CASE Lock
  <2>1. /\ reload'.pc = "acl" /\ reload'.oldCmd = CommandOf(srv.cfg)
        /\ srv'.cache = srv.cache
        /\ UNCHANGED caches
    BY <1>2 DEF Lock, TypeOK
  <2>2. Backed(srv.cfg, srv.cache)
    BY <1>2 DEF Lock, BackedInv, ServerBacked
  <2> QED
    BY <2>1, <2>2 DEF ServerBacked, Backed, CommandOf
<1>3. CASE SwapCache
  <2>1. reload'.pc = "notify" /\ srv'.cfg = srv.cfg
    BY <1>3 DEF SwapCache, TypeOK
  <2>2. CASE srv.cfg.authenticator = None
    BY <2>1, <2>2 DEF ServerBacked, Backed
  <2>3. CASE srv.cfg.authenticator # None /\ KeepCache
    <3>1. UNCHANGED <<srv, caches>>
      BY <1>3, <2>3 DEF SwapCache
    <3>2. CommandOf(srv.cfg) # None /\ reload.oldCmd = CommandOf(srv.cfg)
      BY <1>1, <2>3, Assumptions DEF Assumptions, CommandOf, Authenticators, KeepCache
    <3>3. srv.cache # 0 /\ caches[srv.cache].authenticator.command = reload.oldCmd
      BY <1>3, <3>2 DEF SwapCache, BackedInv, ServerBacked
    <3> QED
      BY <2>1, <3>1, <3>2, <3>3 DEF ServerBacked, Backed
  <2>4. CASE srv.cfg.authenticator # None /\ ~KeepCache
    <3>1. /\ caches' = Append(caches, NewCache(srv.cfg.authenticator))
          /\ srv'.cache = Len(caches) + 1
      BY <1>3, <2>4 DEF SwapCache, TypeOK
    <3>2. NewCache(srv.cfg.authenticator) \in VerifyCaches
      BY <1>1, <2>4, Assumptions DEF Assumptions, TypeOK, NewCache, VerifyCaches
    <3>3. /\ caches'[srv'.cache] = NewCache(srv.cfg.authenticator)
          /\ srv'.cache # 0
      BY <1>1, <3>1, <3>2, CacheAppend DEF TypeOK
    <3>4. caches'[srv'.cache].authenticator.command = CommandOf(srv.cfg)
      BY <2>4, <3>3 DEF NewCache, CommandOf
    <3> QED
      BY <2>1, <3>3, <3>4 DEF ServerBacked, Backed, CommandOf
  <2> QED
    BY <2>2, <2>3, <2>4
<1>4. CASE UpdateAcl
  BY <1>4 DEF UpdateAcl, BackedInv, ServerBacked, TypeOK, Reloads
<1>5. CASE TakeHup \/ Load \/ Unlock
  <2>1. /\ reload.pc \notin {"acl", "cache"} /\ reload'.pc \notin {"acl", "cache"}
        /\ UNCHANGED <<srv, caches>>
    BY <1>5 DEF TakeHup, Load, Unlock, TypeOK, Reloads
  <2> QED
    BY <2>1 DEF BackedInv, ServerBacked, Backed, CommandOf
<1>6. CASE UNCHANGED <<reload, srv>>
  <2>1. CASE reload.pc \notin {"acl", "cache"}
    <3>1. Backed(srv.cfg, srv.cache)
      BY <2>1 DEF BackedInv, ServerBacked
    <3>2. \A c \in Configs, i \in Nat : i <= Len(caches) /\ Backed(c, i) => Backed(c, i)'
      BY BackedStays
    <3> QED
      BY <1>1, <1>6, <2>1, <3>1, <3>2 DEF ServerBacked, Backed, CommandOf
  <2>2. CASE reload.pc \in {"acl", "cache"}
    BY <1>1, <1>6, <2>2, CachesStay DEF BackedInv, ServerBacked
  <2> QED
    BY <2>1, <2>2
<1> QED
  BY <1>2, <1>3, <1>4, <1>5, <1>6 DEF Next, Reload, Handle, vars, Hup, Edit,
     Arrive, Snapshot, Resolve, Command, Store, Context, Access, StartScan, EndScan, Expire

\* A step of r other than its snapshot keeps what r copied, as long as r authenticates.
LEMMA CopyKept ==
    ASSUME TypeOK, [Next]_vars, NEW r \in Requests, Snapped(r)', ~Snapshot(r)
    PROVE  /\ Snapped(r)
           /\ req'[r].token = req[r].token
           /\ req'[r].cfg = req[r].cfg
           /\ req'[r].ver = req[r].ver
           /\ req'[r].entries = req[r].entries
           /\ req'[r].cache = req[r].cache
<1>1. CASE req'[r] = req[r]
  BY <1>1 DEF Snapped
<1>2. ASSUME NEW pc \in {"context", "command", "store"}, Goto(r, pc), Snapped(r)
      PROVE  /\ req'[r].token = req[r].token
             /\ req'[r].cfg = req[r].cfg
             /\ req'[r].ver = req[r].ver
             /\ req'[r].entries = req[r].entries
             /\ req'[r].cache = req[r].cache
  BY <1>2, Moving
<1>3. ~Answer(r) /\ ~Context(r)
  BY DEF Answer, Context, Idle, TypeOK, Snapped
<1>4. ~StartScan(r)
  BY DEF StartScan, Goto, TypeOK, ReqStates, SnappedStates, At, Snapped
<1>5. ASSUME NEW t \in Tokens PROVE ~Arrive(r, t)
  BY DEF Arrive, TypeOK, Snapped
<1>6. CASE Handle(r)
  BY <1>2, <1>3, <1>4, <1>6 DEF Handle, Resolve, Command, Store, Access, EndScan, At, Snapped
<1>7. ASSUME NEW q \in Requests \ {r}, (\E t \in Tokens : Arrive(q, t)) \/ Handle(q)
      PROVE  req'[r] = req[r]
  BY <1>7 DEF Arrive, Handle, Snapshot, Resolve, Command, Store, Context, Access, StartScan,
     EndScan, Goto, Answer, TypeOK
<1> QED
  BY <1>1, <1>5, <1>6, <1>7 DEF Next, Reload, vars, Hup, Edit, TakeHup, Load,
     Lock, UpdateAcl, SwapCache, Unlock, Expire
\* A request copies a matched pair, and keeps the cache it copied.
LEMMA NextSnapshotConsistent ==
    ASSUME TypeOK, BackedInv, [Next]_vars
    PROVE  SnapshotConsistent'
<1> SUFFICES ASSUME NEW r \in Requests, Snapped(r)'
             PROVE  Backed(req[r].cfg, req[r].cache)'
  BY DEF SnapshotConsistent, Backed, CommandOf
<1>1. CASE ~Snapshot(r)
  <2>1. Snapped(r) /\ req'[r].cfg = req[r].cfg /\ req'[r].cache = req[r].cache
    BY <1>1, CopyKept
  <2>2. req[r] \in SnappedStates /\ req[r].cache <= Len(caches)
    BY <2>1 DEF TypeOK, Snapped, ReqStates, SnappedStates
  <2>3. req[r].cfg \in Configs /\ req[r].cache \in Nat
    BY <2>2 DEF SnappedStates
  <2>4. Backed(req[r].cfg, req[r].cache)
    BY <2>1 DEF BackedInv, SnapshotConsistent, Backed
  <2>5. \A c \in Configs, i \in Nat : i <= Len(caches) /\ Backed(c, i) => Backed(c, i)'
    BY BackedStays
  <2> QED
    BY <2>1, <2>2, <2>3, <2>4, <2>5 DEF Backed, CommandOf
<1>2. CASE Snapshot(r)
  <2>1. /\ req'[r].cfg = srv.cfg /\ req'[r].cache = srv.cache
        /\ UNCHANGED <<srv, caches>>
        /\ reload.pc \notin {"acl", "cache"}
    BY <1>2 DEF Snapshot, Copied, TypeOK, MuFree
  <2> QED
    BY <2>1 DEF BackedInv, ServerBacked, Backed, CommandOf
<1> QED
  BY <1>1, <1>2

\* New makes a cache exactly for a config with an authenticator.
LEMMA InitBacked == ASSUME Init PROVE BackedInv
<1>1. PICK c \in Configs :
          /\ reload = [pc |-> "wait"]
          /\ caches = IF c.authenticator = None
                      THEN <<>> ELSE <<NewCache(c.authenticator)>>
          /\ srv = [cfg |-> c, ver |-> 0, entries |-> c.tokens, cache |-> Len(caches)]
          /\ req = [r \in Requests |-> Idle]
  BY DEF Init
<1>2. SnapshotConsistent
  BY <1>1 DEF SnapshotConsistent, Snapped, Idle
<1>3. Backed(srv.cfg, srv.cache)
  BY <1>1 DEF Backed, CommandOf, NewCache
<1> QED
  BY <1>1, <1>2, <1>3 DEF BackedInv, ServerBacked

\* Whatever the configs and however many reloads interleave, a request verifies its
\* token with the command of the config it took its snapshot of.
THEOREM SnapshotIsConsistent == Spec => []SnapshotConsistent
<1>1. TypeOK /\ BackedInv /\ [Next]_vars => BackedInv'
  BY NextServerBacked, NextSnapshotConsistent DEF BackedInv
<1>2. Init => BackedInv
  BY InitBacked
<1>3. BackedInv => SnapshotConsistent
  BY DEF BackedInv
<1> QED
  BY <1>1, <1>2, <1>3, TypeCorrect, PTL DEF Spec

--------------------------------------------------------------------------------
(* Who is let in *)

CachesVouched ==
    \A i \in 1 .. Len(caches) :
        caches[i].tokens \subseteq Vouched[caches[i].authenticator.command]

EntriesListed ==
    /\ srv.entries = srv.cfg.tokens
    /\ \A r \in Requests : Snapped(r) => req[r].entries = req[r].cfg.tokens

\* A token on its way into a cache is one its config's command has recognised.
StoresVouched ==
    \A r \in Requests :
        /\ At(r, "command") => req[r].cfg.authenticator # None
        /\ At(r, "store") => /\ req[r].cfg.authenticator # None
                            /\ req[r].token \in Vouched[CommandOf(req[r].cfg)]

AuthorityInv ==
    CachesVouched /\ EntriesListed /\ StoresVouched /\ AdmittedByAuthority

\* A token enters a cache only by Store, vouched for by the command of that cache.
LEMMA NextCachesVouched ==
    ASSUME TypeOK, BackedInv, AuthorityInv, [Next]_vars
    PROVE  CachesVouched'
<1>1. caches \in Seq(VerifyCaches) /\ Len(caches) \in Nat
  BY LenProperties DEF TypeOK
<1>2. CASE UNCHANGED caches
  BY <1>2 DEF AuthorityInv, CachesVouched
<1>3. ASSUME NEW r \in Requests, Store(r) PROVE CachesVouched'
  <2>1. /\ Len(caches') = Len(caches)
        /\ \A j \in 1 .. Len(caches) :
              /\ caches'[j].authenticator = caches[j].authenticator
              /\ caches'[j].tokens = IF j = req[r].cache
                                     THEN caches[j].tokens \cup {req[r].token}
                                     ELSE caches[j].tokens
    BY <1>3, StoreUpdates
  <2>2. req[r].token \in Vouched[CommandOf(req[r].cfg)] /\ req[r].cfg.authenticator # None
    BY <1>3 DEF Store, AuthorityInv, StoresVouched
  <2>3. caches[req[r].cache].authenticator.command = CommandOf(req[r].cfg)
    BY <1>3, <2>2 DEF Store, At, Snapped, BackedInv, SnapshotConsistent
  <2>4. ASSUME NEW j \in 1 .. Len(caches)
        PROVE  caches'[j].tokens \subseteq Vouched[caches'[j].authenticator.command]
    <3>1. caches[j].tokens \subseteq Vouched[caches[j].authenticator.command]
      BY DEF AuthorityInv, CachesVouched
    <3>2. CASE j = req[r].cache
      <4>1. caches'[j].tokens = caches[j].tokens \cup {req[r].token}
        BY <2>1, <3>2
      <4>2. caches'[j].authenticator.command = caches[j].authenticator.command
        BY <2>1
      <4>3. req[r].token \in Vouched[caches[j].authenticator.command]
        BY <2>2, <2>3, <3>2
      <4> QED
        BY <3>1, <4>1, <4>2, <4>3
    <3>3. CASE j # req[r].cache
      BY <2>1, <3>1, <3>3
    <3> QED
      BY <3>2, <3>3
  <2> QED
    BY <2>1, <2>4 DEF CachesVouched
<1>4. ASSUME NEW i \in DOMAIN caches, NEW t \in Tokens, Expire(i, t) PROVE CachesVouched'
  <2>1. /\ Len(caches') = Len(caches)
        /\ \A j \in 1 .. Len(caches) :
              /\ caches'[j].authenticator = caches[j].authenticator
              /\ caches'[j].tokens \subseteq caches[j].tokens
    BY <1>4, ExpireUpdates
  <2> QED
    BY <2>1 DEF AuthorityInv, CachesVouched
<1>5. CASE /\ srv.cfg.authenticator # None
           /\ caches' = Append(caches, NewCache(srv.cfg.authenticator))
  <2>1. NewCache(srv.cfg.authenticator) \in VerifyCaches
    BY <1>5, Assumptions DEF Assumptions, TypeOK, NewCache, VerifyCaches
  <2>2. /\ Len(caches') = Len(caches) + 1
        /\ caches'[Len(caches')] = NewCache(srv.cfg.authenticator)
        /\ \A j \in 1 .. Len(caches) : caches'[j] = caches[j]
    BY <1>1, <1>5, <2>1, CacheAppend
  <2>3. ASSUME NEW j \in 1 .. Len(caches')
        PROVE  caches'[j].tokens \subseteq Vouched[caches'[j].authenticator.command]
    <3>1. CASE j \in 1 .. Len(caches)
      BY <2>2, <3>1 DEF AuthorityInv, CachesVouched
    <3>2. CASE j = Len(caches')
      BY <2>2, <3>2 DEF NewCache
    <3> QED
      BY <1>1, <2>2, <3>1, <3>2
  <2> QED
    BY <2>3 DEF CachesVouched
<1> QED
  BY <1>2, <1>3, <1>4, <1>5 DEF Next, Reload, Handle, vars, Hup, Edit, TakeHup, Load,
     Lock, UpdateAcl, SwapCache, Unlock, Arrive, Snapshot, Resolve, Command, Context,
     Access, StartScan, EndScan


\* The entries a request copied are the tokens of the config it copied.
LEMMA NextEntriesListed ==
    ASSUME TypeOK, AuthorityInv, [Next]_vars
    PROVE  EntriesListed'
<1>1. srv'.entries = srv'.cfg.tokens
  <2>1. srv.entries = srv.cfg.tokens
    BY DEF AuthorityInv, EntriesListed
  <2> QED
    BY <2>1, ZenonT(60) DEF TypeOK, Next, Reload, Handle, vars, Hup, Edit, TakeHup, Load, Lock,
       UpdateAcl, SwapCache, Unlock, Arrive, Snapshot, Resolve, Command, Store, Context,
       Access, StartScan, EndScan, Expire
<1>2. ASSUME NEW r \in Requests, Snapped(r)'
      PROVE  req'[r].entries = req'[r].cfg.tokens
  <2>1. CASE Snapshot(r)
    BY <2>1 DEF Snapshot, Copied, TypeOK, AuthorityInv, EntriesListed
  <2>2. CASE ~Snapshot(r)
    BY <1>2, <2>2, CopyKept DEF AuthorityInv, EntriesListed
  <2> QED
    BY <2>1, <2>2
<1> QED
  BY <1>1, <1>2 DEF EntriesListed

\* The step by which a request comes to command, store or context.
LEMMA Reaches ==
    ASSUME TypeOK, [Next]_vars, NEW r \in Requests,
           req'[r].pc \in {"command", "store", "context"}, req'[r].pc # req[r].pc
    PROVE  \/ Resolve(r) /\ Goto(r, "context") /\ req'[r].pc = "context"
           \/ Resolve(r) /\ Goto(r, "command") /\ req'[r].pc = "command"
           \/ Command(r) /\ Goto(r, "store") /\ req'[r].pc = "store"
           \/ Store(r) /\ req'[r].pc = "context"
<1>1. ASSUME NEW q \in Requests \ {r}, (\E t \in Tokens : Arrive(q, t)) \/ Handle(q)
      PROVE  FALSE
  BY <1>1 DEF Arrive, Handle, Snapshot, Resolve, Command, Store, Context, Access, StartScan,
     EndScan, Goto, Answer, TypeOK
<1>2. ASSUME NEW t \in Tokens PROVE ~Arrive(r, t)
  BY DEF Arrive, TypeOK
<1>3. ~Snapshot(r) /\ ~Context(r) /\ ~Answer(r)
  BY DEF Snapshot, Copied, Context, Answer, Idle, TypeOK
<1>4. ~StartScan(r)
  BY DEF StartScan, Goto, TypeOK, ReqStates, SnappedStates, At
<1>5. \A pc \in {"command", "store", "context"} : Snapped(r) /\ Goto(r, pc) => req'[r].pc = pc
  BY Moving
<1>6. Handle(r)
  BY <1>1, <1>2 DEF Next, Reload, vars, Hup, Edit, TakeHup, Load, Lock, UpdateAcl,
     SwapCache, Unlock, Expire
<1> QED
  BY <1>3, <1>4, <1>5, <1>6 DEF Handle, Resolve, Command, Store, Access, EndScan, At, Snapped

\* A request stands at store only with a token its command recognised.
LEMMA NextStoresVouched ==
    ASSUME TypeOK, BackedInv, AuthorityInv, [Next]_vars
    PROVE  StoresVouched'
<1> SUFFICES ASSUME NEW r \in Requests, req'[r].pc \in {"command", "store"}
             PROVE  /\ req'[r].cfg.authenticator # None
                    /\ req'[r].pc = "store" =>
                          req'[r].token \in Vouched[CommandOf(req'[r].cfg)]
  BY DEF StoresVouched, At, CommandOf
<1>1. ~Snapshot(r)
  BY DEF Snapshot, Copied, TypeOK
<1>2. req'[r].token = req[r].token /\ req'[r].cfg = req[r].cfg
  BY <1>1, CopyKept DEF Snapped
<1>3. CASE req'[r].pc = req[r].pc
  BY <1>2, <1>3 DEF AuthorityInv, StoresVouched, At, CommandOf
<1>4. CASE Resolve(r) /\ Goto(r, "command") /\ req'[r].pc = "command"
  <2>1. ~Answer(r) /\ ~Goto(r, "context")
    BY <1>4, Moving DEF Resolve, At, Snapped, Answer, Idle, TypeOK
  <2> QED
    BY <1>2, <1>4, <2>1 DEF Resolve
<1>5. CASE Command(r) /\ req'[r].pc = "store"
  <2>1. ~Answer(r)
    BY <1>5 DEF Answer, Idle, TypeOK
  <2>2. /\ req[r].token \in Vouched[caches[req[r].cache].authenticator.command]
        /\ req[r].cfg.authenticator # None
    BY <1>5, <2>1 DEF Command, AuthorityInv, StoresVouched
  <2>3. caches[req[r].cache].authenticator.command = CommandOf(req[r].cfg)
    BY <1>5, <2>2 DEF Command, At, Snapped, BackedInv, SnapshotConsistent
  <2> QED
    BY <1>2, <2>2, <2>3
<1> QED
  BY <1>3, <1>4, <1>5, Reaches

\* A request is admitted by its list, by an entry of its cache or after its store.
LEMMA NextAdmitted ==
    ASSUME TypeOK, BackedInv, AuthorityInv, [Next]_vars
    PROVE  AdmittedByAuthority'
<1> SUFFICES ASSUME NEW r \in Requests, req'[r].pc = "context"
             PROVE  IF req'[r].cfg.authenticator = None
                    THEN req'[r].token \in req'[r].cfg.tokens
                    ELSE req'[r].token \in Vouched[CommandOf(req'[r].cfg)]
  BY DEF AdmittedByAuthority, At, CommandOf
<1>1. ~Snapshot(r)
  BY DEF Snapshot, Copied, TypeOK
<1>2. req'[r].token = req[r].token /\ req'[r].cfg = req[r].cfg
  BY <1>1, CopyKept DEF Snapped
<1>3. CASE req[r].pc = "context"
  BY <1>2, <1>3 DEF AuthorityInv, AdmittedByAuthority, At, CommandOf
<1>4. CASE Store(r)
  BY <1>2, <1>4 DEF Store, AuthorityInv, StoresVouched
<1>5. CASE Resolve(r) /\ req'[r].pc = "context"
  <2>1. ~Answer(r) /\ ~Goto(r, "command")
    BY <1>5, Moving DEF Resolve, At, Snapped, Answer, Idle, TypeOK
  <2>2. Snapped(r)
    BY <1>5 DEF Resolve, At, Snapped
  <2>3. CASE req[r].cfg.authenticator = None
    BY <1>2, <1>5, <2>1, <2>2, <2>3 DEF Resolve, AuthorityInv, EntriesListed
  <2>4. CASE req[r].cfg.authenticator # None
    <3>1. req[r].token \in caches[req[r].cache].tokens
      BY <1>5, <2>1, <2>4 DEF Resolve
    <3>2. /\ req[r].cache # 0
          /\ caches[req[r].cache].authenticator.command = CommandOf(req[r].cfg)
      BY <2>2, <2>4 DEF BackedInv, SnapshotConsistent
    <3>3. req[r].cache \in 1 .. Len(caches)
      <4>1. req[r] \in SnappedStates /\ req[r].cache <= Len(caches)
        BY <2>2 DEF TypeOK, Snapped, ReqStates, SnappedStates
      <4>2. Len(caches) \in Nat
        BY LenProperties DEF TypeOK
      <4> QED
        BY <3>2, <4>1, <4>2 DEF SnappedStates
    <3> QED
      BY <1>2, <2>4, <3>1, <3>2, <3>3 DEF AuthorityInv, CachesVouched
  <2> QED
    BY <2>3, <2>4
<1> QED
  BY <1>3, <1>4, <1>5, Reaches

\* At the start every cache is empty and no request is open.
LEMMA InitAuthority == ASSUME Init PROVE AuthorityInv
<1>1. PICK c \in Configs :
          /\ caches = IF c.authenticator = None
                      THEN <<>> ELSE <<NewCache(c.authenticator)>>
          /\ srv = [cfg |-> c, ver |-> 0, entries |-> c.tokens, cache |-> Len(caches)]
          /\ req = [r \in Requests |-> Idle]
  BY DEF Init
<1>2. CachesVouched
  <2> SUFFICES ASSUME NEW i \in 1 .. Len(caches) PROVE caches[i].tokens = {}
    BY DEF CachesVouched
  <2>1. CASE c.authenticator = None
    BY <1>1, <2>1
  <2>2. CASE c.authenticator # None
    BY <1>1, <2>2 DEF NewCache
  <2> QED
    BY <2>1, <2>2
<1> QED
  BY <1>1, <1>2 DEF AuthorityInv, EntriesListed, StoresVouched, AdmittedByAuthority, At,
     Snapped, Idle

\* No request is let in on a token that neither its config's list nor its config's
\* command recognises, whatever entries the caches of former configs hold and however
\* late their commands answer.
THEOREM AdmissionIsAuthorised == Spec => []AdmittedByAuthority
<1>1. TypeOK /\ BackedInv /\ AuthorityInv /\ [Next]_vars => BackedInv' /\ AuthorityInv'
  BY NextServerBacked, NextSnapshotConsistent, NextCachesVouched, NextEntriesListed,
     NextStoresVouched, NextAdmitted DEF BackedInv, AuthorityInv
<1>2. Init => BackedInv /\ AuthorityInv
  BY InitBacked, InitAuthority
<1>3. AuthorityInv => AdmittedByAuthority
  BY DEF AuthorityInv
<1> QED
  BY <1>1, <1>2, <1>3, TypeCorrect, PTL DEF Spec

--------------------------------------------------------------------------------
(* Which lists it meets *)

\* The lists of logMgr lag behind cfg only inside Reload, never behind a request.
VersionInv ==
    /\ srv.ver <= disk.ver
    /\ reload.pc = "lock" => srv.ver <= reload.ver /\ reload.ver <= disk.ver
    /\ aclVer <= srv.ver
    /\ reload.pc # "acl" => aclVer = srv.ver
    /\ \A r \in Requests : Snapped(r) => req[r].ver <= aclVer
    /\ AclNotOlderThanAuth

\* A reload raises the edit of cfg first and the one of the lists before it gives mu
\* back; a request takes its edit from cfg while mu is free.
LEMMA NextVersions ==
    ASSUME TypeOK, VersionInv, [Next]_vars
    PROVE  VersionInv'
<1>1. /\ srv.ver \in Nat /\ disk.ver \in Nat /\ aclVer \in Nat /\ aclVer' \in Nat
      /\ reload.pc = "lock" => reload.ver \in Nat
  BY NextTypes, Assumptions DEF Assumptions, TypeOK, Vers, Reloads
<1>2. /\ srv'.ver <= disk'.ver
      /\ reload'.pc = "lock" => srv'.ver <= reload'.ver /\ reload'.ver <= disk'.ver
      /\ aclVer' <= srv'.ver
      /\ reload'.pc # "acl" => aclVer' = srv'.ver
      /\ aclVer <= aclVer'
  <2> USE <1>1 DEF VersionInv
  <2>1. CASE UNCHANGED <<disk, reload, srv, aclVer>>
    BY <2>1
  <2>2. ASSUME NEW c \in Configs \cup {Broken}, Edit(c)
        PROVE  UNCHANGED <<reload, srv, aclVer>> /\ disk'.ver = disk.ver + 1
    BY <2>2 DEF Edit, TypeOK
  <2>3. CASE UNCHANGED <<reload, srv, aclVer>> /\ disk'.ver = disk.ver + 1
    BY <2>3
  <2>4. CASE TakeHup \/ Unlock
    BY <2>4 DEF TakeHup, Unlock
  <2>5. CASE Load
    BY <2>5 DEF Load
  <2>6. CASE Lock
    BY <2>6 DEF Lock, TypeOK
  <2>7. CASE UpdateAcl
    BY <2>7 DEF UpdateAcl, TypeOK, Reloads
  <2>8. CASE SwapCache
    <3>1. srv'.ver = srv.ver /\ reload' = [pc |-> "notify"] /\ UNCHANGED <<disk, aclVer>>
      BY <2>8 DEF SwapCache, TypeOK
    <3> QED
      BY <2>8, <3>1 DEF SwapCache
  <2> QED
    BY <2>1, <2>2, <2>3, <2>4, <2>5, <2>6, <2>7, <2>8 DEF Next, Reload, Handle, vars, Hup,
       Arrive, Snapshot, Resolve, Command, Store, Context, Access, StartScan, EndScan, Expire
<1>3. ASSUME NEW r \in Requests, Snapped(r)' PROVE req'[r].ver <= aclVer'
  <2>1. CASE Snapshot(r)
    BY <1>1, <2>1 DEF Snapshot, Copied, MuFree, TypeOK, VersionInv
  <2>2. CASE ~Snapshot(r)
    <3>1. Snapped(r) /\ req'[r].ver = req[r].ver
      BY <1>3, <2>2, CopyKept
    <3>2. req[r].ver \in Nat
      BY <3>1, Assumptions DEF Assumptions, TypeOK, Snapped, ReqStates, SnappedStates, Vers
    <3> QED
      BY <1>1, <1>2, <3>1, <3>2 DEF VersionInv
  <2> QED
    BY <2>1, <2>2
<1>4. ASSUME NEW r \in Requests, req'[r].pc \in {"tool", "scan"} PROVE aclVer' >= req'[r].ver
  <2>1. CASE req'[r] = req[r]
    <3>1. req[r].ver \in Nat
      BY <1>4, <2>1, Assumptions DEF Assumptions, TypeOK, ReqStates, SnappedStates, Vers
    <3> QED
      BY <1>1, <1>2, <1>4, <2>1, <3>1 DEF VersionInv, AclNotOlderThanAuth
  <2>2. CASE Context(r)
    <3>1. req'[r].ver = req[r].ver /\ Snapped(r) /\ UNCHANGED aclVer
      BY <2>2 DEF Context, TypeOK, At, Snapped
    <3>2. req[r].ver \in Nat
      BY <3>1, Assumptions DEF Assumptions, TypeOK, Snapped, ReqStates, SnappedStates, Vers
    <3> QED
      BY <1>1, <3>1, <3>2 DEF VersionInv
  <2>3. CASE StartScan(r)
    <3>1. req[r] \in [pc : {"tool", "scan"}, ver : Vers] /\ req[r].pc = "tool"
      BY <2>3 DEF StartScan, At, TypeOK, ReqStates, SnappedStates
    <3>2. req'[r].ver = req[r].ver /\ UNCHANGED aclVer
      BY <2>3, <3>1 DEF StartScan, Goto, TypeOK
    <3>3. req[r].ver \in Nat
      BY <3>1, Assumptions DEF Assumptions, Vers
    <3> QED
      BY <1>1, <3>1, <3>2, <3>3 DEF VersionInv, AclNotOlderThanAuth
  <2>4. ASSUME NEW pc \in {"context", "command", "store"}, Goto(r, pc), Snapped(r) PROVE FALSE
    BY <1>4, <2>4, Moving
  <2>5. ~Answer(r) /\ ~Snapshot(r)
    BY <1>4 DEF Answer, Snapshot, Copied, Idle, TypeOK
  <2>6. ASSUME NEW t \in Tokens PROVE ~Arrive(r, t)
    BY <1>4 DEF Arrive, TypeOK
  <2>7. CASE Handle(r)
    BY <2>2, <2>3, <2>4, <2>5, <2>7 DEF Handle, Resolve, Command, Store, Access, EndScan,
       At, Snapped
  <2>8. ASSUME NEW q \in Requests \ {r}, (\E t \in Tokens : Arrive(q, t)) \/ Handle(q)
        PROVE  req'[r] = req[r]
    BY <2>8 DEF Arrive, Handle, Snapshot, Resolve, Command, Store, Context, Access,
       StartScan, EndScan, Goto, Answer, TypeOK
  <2> QED
    BY <2>1, <2>6, <2>7, <2>8 DEF Next, Reload, vars, Hup, Edit, TakeHup, Load, Lock,
       UpdateAcl, SwapCache, Unlock, Expire
<1> QED
  BY <1>2, <1>3, <1>4 DEF VersionInv, AclNotOlderThanAuth

\* A tool call never meets lists older than the config its token was accepted under.
THEOREM AclIsNotOlder == Spec => []AclNotOlderThanAuth
<1>1. Init => VersionInv
  <2> SUFFICES ASSUME Init PROVE VersionInv
    OBVIOUS
  <2>1. /\ disk.ver = 0 /\ srv.ver = 0 /\ aclVer = 0 /\ reload.pc = "wait"
        /\ req = [r \in Requests |-> Idle]
    BY DEF Init
  <2>2. \A r \in Requests : req[r].pc = "idle"
    BY <2>1 DEF Idle
  <2> QED
    BY <2>1, <2>2 DEF VersionInv, AclNotOlderThanAuth, Snapped
<1>2. TypeOK /\ VersionInv /\ [Next]_vars => VersionInv'
  BY NextVersions
<1>3. VersionInv => AclNotOlderThanAuth
  BY DEF VersionInv
<1> QED
  BY <1>1, <1>2, <1>3, TypeCorrect, PTL DEF Spec
================================================================================
