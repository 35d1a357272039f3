------------------------------- MODULE FileAccess -------------------------------
(* What a caller of the log manager may rely on, whatever other programs do to the *)
(* file system meanwhile: what it is served is content that the lists in force at  *)
(* some moment of its own call allow, and a listing calls readable what such lists *)
(* expose.  LogManager implements this; the tool layer (Macro, Tools) is built on  *)
(* it.                                                                             *)
EXTENDS Calls

CONSTANTS
    Paths,    \* files of the file system
    Journal,  \* the path journald://
    Acls      \* settings an Update may bring

VARIABLES
    acl,      \* the settings in force
    access,   \* access[r]: "idle", "in" the manager, "listing" the files, or "served"
    since,    \* since[r]: the settings in force at any time since r went in
    content   \* content[r]: the entries r was served

accessVars == <<acl, access, since, content>>

Entries == [path : Paths \cup {Journal}, readable : BOOLEAN]

\* The blacklist wins; the journal needs its own switch.
Allows(a, path) ==
    /\ path \notin a.blacklist
    /\ IF path = Journal THEN a.journald ELSE path \in a.whitelist

\* The listing has a row for the journal when it is switched on, blacklisted or not.
Lists(a, path) == IF path = Journal THEN a.journald ELSE Allows(a, path)

Permitted(r) ==
    {e \in Entries : e.readable => \E a \in since[r] : Allows(a, e.path)}

Listable(r) ==
    {e \in Entries : e.readable => \E a \in since[r] : Lists(a, e.path)}

AccessInit ==
    /\ acl \in Acls
    /\ access = [r \in Requests |-> "idle"]
    /\ since = [r \in Requests |-> {}]
    /\ content = [r \in Requests |-> {}]

Enters(r, how) ==
    /\ access[r] = "idle"
    /\ access' = [access EXCEPT ![r] = how]
    /\ since' = [since EXCEPT ![r] = {acl}]
    /\ UNCHANGED <<acl, content>>

Begin(r) == Enters(r, "in")

BeginList(r) == Enters(r, "listing")

Gets(r, entries) ==
    /\ access' = [access EXCEPT ![r] = "served"]
    /\ content' = [content EXCEPT ![r] = entries]
    /\ UNCHANGED <<acl, since>>

Serve(r, entries) ==
    /\ access[r] = "in" /\ entries \subseteq Permitted(r)
    /\ Gets(r, entries)

ServeList(r, entries) ==
    /\ access[r] = "listing" /\ entries \subseteq Listable(r)
    /\ Gets(r, entries)

\* The call ends: refused on its way, or with what it was served.
Leave(r) ==
    /\ access[r] # "idle"
    /\ access' = [access EXCEPT ![r] = "idle"]
    /\ since' = [since EXCEPT ![r] = {}]
    /\ content' = [content EXCEPT ![r] = {}]
    /\ UNCHANGED acl

Update(a) ==
    /\ acl' = a
    /\ since' = [r \in Requests |->
          IF access[r] = "idle" THEN {} ELSE since[r] \cup {a}]
    /\ UNCHANGED <<access, content>>

AccessNext ==
    \/ \E r \in Requests :
          \/ Begin(r) \/ Serve(r, content'[r])
          \/ BeginList(r) \/ ServeList(r, content'[r])
          \/ Leave(r)
    \/ \E a \in Acls : Update(a)

AccessSpec == AccessInit /\ [][AccessNext]_accessVars
================================================================================
