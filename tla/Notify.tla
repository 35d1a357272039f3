--------------------------------- MODULE Notify ---------------------------------
(* Telegram notifications (internal/notify, internal/mcp/notify.go): notify_send      *)
(* looks the caller up in the service made from telegram.yaml and posts one message   *)
(* to the API, while a reload may replace the service.                                *)
(*                                                                                   *)
(* A telegram.yaml is a function from bot names (validate refuses a second one) to    *)
(* the bot's token and the chats of its users, the first entry of a user counting.    *)
EXTENDS Calls, Sequences

CONSTANTS
    Telegrams,  \* contents of telegram.yaml that load
    Broken,     \* no telegram.yaml, or one that does not parse or validate
    NoService,  \* notifyService is nil
    Bots,       \* bot names
    NoBot,      \* the parameter bot is left out
    Users,      \* names of callers
    Idle        \* not a call

ASSUME NotifyAssumptions ==
    /\ {Broken, NoService} \cap Telegrams = {}
    /\ NoBot \notin Bots
    /\ \A t \in Telegrams : DOMAIN t \subseteq Bots

VARIABLES
    telegram,  \* telegram.yaml
    service,   \* Server.notifyService
    note,      \* note[r]: the notify_send call r, or Idle
    inForce    \* inForce[r]: every service there was since call r began

notifyVars == <<telegram, service, note, inForce>>

--------------------------------------------------------------------------------
\* LoadTelegramConfig, for New and for Reload: a file that is missing or does not load
\* leaves what there was.
Loaded(old) == IF telegram \in Telegrams THEN telegram ELSE old

NotifyInit ==
    /\ telegram \in Telegrams \cup {Broken}
    /\ service = Loaded(NoService)
    /\ note = [r \in Requests |-> Idle]
    /\ inForce = [r \in Requests |-> {}]

EditTelegram(t) ==
    /\ telegram' = t
    /\ UNCHANGED <<service, note, inForce>>

\* The last part of Reload, under mu: without a service at the start there is none later.
ReloadService ==
    /\ service' = IF service = NoService THEN NoService ELSE Loaded(service)
    /\ inForce' = [r \in Requests |->
          IF note[r] = Idle THEN {} ELSE inForce[r] \cup {service'}]
    /\ UNCHANGED <<telegram, note>>

--------------------------------------------------------------------------------
\* BotsForUser
BotsOf(s, user) == {b \in DOMAIN s : user \in DOMAIN s[b].users}

\* posted: the messages that reached the API, as bot token and chat.
BeginNote(r, user, bot) ==
    /\ note[r] = Idle
    /\ note' = [note EXCEPT ![r] = [pc |-> "pick", user |-> user, asked |-> bot,
                   svc |-> NoService, bot |-> NoBot, posted |-> <<>>]]
    /\ inForce' = [inForce EXCEPT ![r] = {service}]
    /\ UNCHANGED <<telegram, service>>

NoteAt(r, pc) == note[r] # Idle /\ note[r].pc = pc

\* The bot asked for, if the user is one of its users; without the parameter, the only
\* bot of the user.
Chosen(r) ==
    LET candidates == BotsOf(service, note[r].user)
    IN  {b \in candidates :
            IF note[r].asked = NoBot THEN candidates = {b} ELSE note[r].asked = b}

\* The read-locked section of handleNotifySend copies the service, which is not nil once
\* the tool is registered; the rest works on the copy.  The call is refused without
\* text, without a bot, with several to choose from, or with a bot that is not this
\* user's.
Pick(r) ==
    /\ NoteAt(r, "pick")
    /\ \E text \in BOOLEAN :
          LET chosen == IF text THEN Chosen(r) ELSE {}
          IN  \/ \E b \in chosen :
                    note' = [note EXCEPT ![r].svc = service, ![r].bot = b,
                                         ![r].pc = "post"]
              \/ /\ chosen = {}
                 /\ note' = [note EXCEPT ![r].pc = "error"]
    /\ UNCHANGED <<telegram, service, inForce>>

\* Mutant of Sender: the service is read again, where it still knows bot and user.
SenderReread(r) ==
    IF note[r].bot \in BotsOf(service, note[r].user) THEN service ELSE note[r].svc

Sender(r) == note[r].svc

Message(r) ==
    LET bot == Sender(r)[note[r].bot]
    IN  [token |-> bot.token, chat |-> bot.users[note[r].user]]

\* One POST, not repeated: accepted, refused, or accepted while its answer is lost.
Post(r) ==
    /\ NoteAt(r, "post")
    /\ \/ note' = [note EXCEPT ![r].pc = "error"]
       \/ \E answer \in {"sent", "error"} :
              note' = [note EXCEPT ![r].pc = answer,
                                   ![r].posted = Append(@, Message(r))]
    /\ UNCHANGED <<telegram, service, inForce>>

EndNote(r) ==
    /\ NoteAt(r, "sent") \/ NoteAt(r, "error")
    /\ note' = [note EXCEPT ![r] = Idle]
    /\ inForce' = [inForce EXCEPT ![r] = {}]
    /\ UNCHANGED <<telegram, service>>
================================================================================
