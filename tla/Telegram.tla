------------------------------ MODULE Telegram ------------------------------
(***************************************************************************)
(* The Telegram webhook (pkg/channel/telegram/handler.go) on top of        *)
(* Conversation.  Telegram delivers an update until it is answered with    *)
(* 200; every delivery is a request that finds or creates the user's       *)
(* session, runs the orchestrator on it, and for the synchronous tiers     *)
(* sends a reply to the chat.  The session is the one of the user who      *)
(* wrote, the chat the one it was written in: a group has many users, and  *)
(* a user writes in many chats.  Nothing recognises an update that was     *)
(* delivered before, deliveries run side by side, and the web channel runs *)
(* turns on the same sessions, of whomever.                                *)
(***************************************************************************)
EXTENDS Conversation

CONSTANTS
    Updates,        \* text messages users send
    Users,          \* users
    UserOf,         \* UserOf[u]: who sent update u, Message.From
    Chats,          \* chats of one user or of many
    ChatOf          \* ChatOf[u]: where update u was written, Message.Chat

ASSUME TelegramAssumption ==
    /\ UserOf \in [Updates -> Users]
    /\ ChatOf \in [Updates -> Chats]
    /\ None \notin Updates /\ None \notin Users

VARIABLES
    users,          \* the user table: the users it has a row for
    owner,          \* owner[s]: the user_id column of session s
    born,           \* the sessions in the order of created_at
    update,         \* update[r]: what delivery r carries
    wpc,            \* wpc[r]: where request r is in the webhook handler, or "web"
    target,         \* target[r]: the session delivery r resolved
    acked,          \* the updates answered with 200
    sent            \* the replies sent to chats

webVars  == <<users, owner, born, update, wpc, target, acked, sent>>
chatVars == <<vars, webVars>>

(* A reply sent to a chat while handling delivery to: the message of       *)
(* request by.                                                             *)
Sent == [chat : Chats, to : Requests, by : Requests]

TelegramTypeOK ==
    /\ TypeOK
    /\ users \in SUBSET Users
    /\ owner \in [Sessions -> Users \cup {None}]
    /\ born \in Seq(Sessions)
    /\ update \in [Requests -> Updates \cup {None}]
    /\ wpc \in [Requests -> {"idle", "find", "create", "run", "running",
                             "reply", "respond", "ended", "web"}]
    /\ target \in [Requests -> Sessions \cup {None}]
    /\ acked \in SUBSET Updates
    /\ sent \in SUBSET Sent

TelegramInit ==
    /\ Init
    /\ users = {}
    /\ owner = [s \in Sessions |-> None]
    /\ born = <<>>
    /\ update = [r \in Requests |-> None]
    /\ wpc = [r \in Requests |-> "idle"]
    /\ target = [r \in Requests |-> None]
    /\ acked = {}
    /\ sent = {}

-----------------------------------------------------------------------------
(* A session row is inserted for user x, who must have a row: by the       *)
(* webhook, or by the web channel's POST /v1/sessions.                     *)
InsertSession(s, x, tier) ==
    /\ x \in users
    /\ CreateSession(s, tier)
    /\ owner' = [owner EXCEPT ![s] = x]
    /\ born' = Append(born, s)

WebSession(s, x) ==
    /\ \E tier \in Tiers : InsertSession(s, x, tier)
    /\ UNCHANGED <<users, update, wpc, target, acked, sent>>

(* POST /v1/sessions/{id}/messages: a turn on the session the path names,  *)
(* whoever owns it and whichever channel it came from.  202 or 500 is all  *)
(* the caller hears (Accepted).                                            *)
WebMessage(r, s) ==
    /\ wpc[r] = "idle"
    /\ Run(r, s)
    /\ wpc' = [wpc EXCEPT ![r] = "web"]
    /\ UNCHANGED <<users, owner, born, update, target, acked, sent>>

(* ResolveOrCreate: an upsert. *)
ResolveOrCreate(x) == users' = users \cup {x}

(* Telegram delivers, or delivers again, an update not yet answered.       *)
Deliver(r, u) ==
    /\ wpc[r] = "idle"
    /\ u \notin acked
    /\ update' = [update EXCEPT ![r] = u]
    /\ wpc' = [wpc EXCEPT ![r] = "find"]
    /\ ResolveOrCreate(UserOf[u])
    /\ UNCHANGED <<vars, owner, born, target, acked, sent>>

(* Mutant of OpenSessions: the query does not name the user.               *)
OpenSessionsOfAll(x) ==
    { i \in DOMAIN born : row[born[i]].state \in FSM!Open }

(* GetActiveByUserID: the newest of the user's open sessions, overdue or   *)
(* not, from whatever channel.                                             *)
OpenSessions(x) ==
    { i \in DOMAIN born : owner[born[i]] = x /\ row[born[i]].state \in FSM!Open }

NewestOpen(x) ==
    born[CHOOSE i \in OpenSessions(x) : \A j \in OpenSessions(x) : j <= i]

FindSession(r) ==
    LET x == UserOf[update[r]] IN
    /\ wpc[r] = "find"
    /\ \/ /\ OpenSessions(x) # {}
          /\ target' = [target EXCEPT ![r] = NewestOpen(x)]
          /\ wpc' = [wpc EXCEPT ![r] = "run"]
       \/ /\ OpenSessions(x) = {}
          /\ wpc' = [wpc EXCEPT ![r] = "create"]
          /\ UNCHANGED target
    /\ UNCHANGED <<vars, users, owner, born, update, acked, sent>>

(* None was found: create one, of tier L0.  Another delivery may have done *)
(* so in the meantime.                                                     *)
CreateForUser(r) ==
    /\ wpc[r] = "create"
    /\ \E s \in Sessions :
         /\ InsertSession(s, UserOf[update[r]], "L0")
         /\ target' = [target EXCEPT ![r] = s]
    /\ wpc' = [wpc EXCEPT ![r] = "run"]
    /\ UNCHANGED <<users, update, acked, sent>>

CallRun(r) ==
    /\ wpc[r] = "run"
    /\ Run(r, target[r])
    /\ wpc' = [wpc EXCEPT ![r] = "running"]
    /\ UNCHANGED <<users, owner, born, update, target, acked, sent>>

(* Run returned nil: load the session again, for its tier alone; if that   *)
(* fails there is no reply and the answer is 200 all the same.  The        *)
(* synchronous tiers have a reply to send.                                 *)
RunSucceeded(r) ==
    /\ wpc[r] = "running"
    /\ pc[r] = "done"
    /\ \/ wpc' = [wpc EXCEPT ![r] =
                    IF Async(row[target[r]]) THEN "respond" ELSE "reply"]
       \/ wpc' = [wpc EXCEPT ![r] = "respond"]
    /\ UNCHANGED <<vars, users, owner, born, update, target, acked, sent>>

(* Mutant of RunFailed: the update is answered with 200 all the same.      *)
FailureAcked(r) ==
    /\ wpc[r] = "running"
    /\ pc[r] = "failed"
    /\ wpc' = [wpc EXCEPT ![r] = "respond"]
    /\ UNCHANGED <<vars, users, owner, born, update, target, acked, sent>>

(* Run returned an error: 500, and Telegram will deliver the update again. *)
RunFailed(r) ==
    /\ wpc[r] = "running"
    /\ pc[r] = "failed"
    /\ wpc' = [wpc EXCEPT ![r] = "ended"]
    /\ UNCHANGED <<vars, users, owner, born, update, target, acked, sent>>

(* The reply is the last assistant message of the session, whoever wrote   *)
(* it.  There may be none, and sending may fail: both are only logged.     *)
Replies(s) ==
    { i \in DOMAIN log : log[i].session = s /\ log[i].role = "assistant" }

LatestReply(s) ==
    log[CHOOSE i \in Replies(s) : \A j \in Replies(s) : j <= i]

(* Sender.SendMessage to the chat in which delivery r's update was         *)
(* written.  A message that reached Telegram counts as sent, also when the *)
(* call reported an error.                                                 *)
SendMessage(r, message) ==
    sent' = sent \cup
              {[chat |-> ChatOf[update[r]], to |-> r, by |-> message.by]}

SendReply(r) ==
    /\ wpc[r] = "reply"
    /\ Replies(target[r]) # {}
    /\ SendMessage(r, LatestReply(target[r]))
    /\ wpc' = [wpc EXCEPT ![r] = "respond"]
    /\ UNCHANGED <<vars, users, owner, born, update, target, acked>>

SkipReply(r) ==
    /\ wpc[r] = "reply"
    /\ wpc' = [wpc EXCEPT ![r] = "respond"]
    /\ UNCHANGED <<vars, users, owner, born, update, target, acked, sent>>

Respond200(r) ==
    /\ wpc[r] = "respond"
    /\ acked' = acked \cup {update[r]}
    /\ wpc' = [wpc EXCEPT ![r] = "ended"]
    /\ UNCHANGED <<vars, users, owner, born, update, target, sent>>

(* A lookup failed (500), or the server died or the response was lost: no  *)
(* 200 reaches Telegram.                                                   *)
NoResponse(r) ==
    /\ wpc[r] \in {"find", "create", "run", "reply", "respond"}
    /\ wpc' = [wpc EXCEPT ![r] = "ended"]
    /\ UNCHANGED <<vars, users, owner, born, update, target, acked, sent>>

-----------------------------------------------------------------------------
Webhook(r) ==
    \/ \E u \in Updates : Deliver(r, u)
    \/ FindSession(r) \/ CreateForUser(r) \/ CallRun(r)
    \/ RunSucceeded(r) \/ RunFailed(r)
    \/ SendReply(r) \/ SkipReply(r) \/ Respond200(r) \/ NoResponse(r)

TelegramNext ==
    \/ \E s \in Sessions, x \in Users : WebSession(s, x)
    \/ \E r \in Requests, s \in Sessions : WebMessage(r, s)
    \/ \E r \in Requests : Webhook(r)
    \/ /\ \/ \E s \in Sessions, to \in FSM!State : OtherTransition(s, to)
          \/ \E r \in Requests : Handle(r) \/ Job(r)
       /\ UNCHANGED webVars

TelegramSpec == TelegramInit /\ [][TelegramNext]_chatVars

-----------------------------------------------------------------------------
(***************************************************************************)
(* Properties.                                                             *)
(***************************************************************************)

(* Telegram stops delivering an update only when one of its deliveries has *)
(* stored it in a session of the user who sent it.                         *)
AckedIsStored ==
    \A u \in acked : \E r \in Requests :
        /\ update[r] = u
        /\ \E i \in DOMAIN log : /\ log[i].role = "user"
                                 /\ log[i].by = r
                                 /\ owner[log[i].session] = UserOf[u]

(* A chat is sent only what belongs to someone who wrote there: when       *)
(* delivery m.to sends the reply of request m.by, that user's message is   *)
(* stored, in a session that is that user's, and the reply was said in     *)
(* this very session, to the same user or to a caller of the web channel,  *)
(* who may run a turn on any session.  It need not answer this message,    *)
(* nor one that was written in this chat.                                  *)
RepliesAreOfTheSendersSession ==
    \A m \in sent :
        LET u == update[m.to] IN
        /\ u \in Updates /\ m.chat = ChatOf[u]
        /\ Posted("user", m.to) /\ Posted("assistant", m.by)
        /\ on[m.by] = on[m.to] /\ owner[on[m.to]] = UserOf[u]
        /\ wpc[m.by] = "web" \/ UserOf[update[m.by]] = UserOf[u]

(* handler.go: for the synchronous tiers the handler "sends the resulting  *)
(* assistant reply back to the chat", the reply that this Run made.  It    *)
(* sends the last one it finds: of another turn, when this one was         *)
(* escalated or another finished meanwhile.                                *)
ReplyIsOfThisTurn == \A m \in sent : m.by = m.to
=============================================================================
