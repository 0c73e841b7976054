--------------------------- MODULE Telegram_proofs ---------------------------
(***************************************************************************)
(* Theorems about Telegram: for any users, updates, sessions and           *)
(* deliveries, repeated or side by side, what was answered with 200 is     *)
(* stored with its user, a chat is sent only what was said in the session  *)
(* of someone who wrote there, and the conversation underneath keeps all   *)
(* that Conversation keeps.                                                *)
(***************************************************************************)
EXTENDS Telegram, Conversation_proofs

WebTypes ==
    /\ users \in SUBSET Users
    /\ owner \in [Sessions -> Users \cup {None}]
    /\ born \in Seq(Sessions)
    /\ update \in [Requests -> Updates \cup {None}]
    /\ wpc \in [Requests -> {"idle", "find", "create", "run", "running",
                             "reply", "respond", "ended", "web"}]
    /\ target \in [Requests -> Sessions \cup {None}]
    /\ acked \in SUBSET Updates
    /\ sent \in SUBSET Sent

(* A delivery runs on a session of the user who sent its update, and not   *)
(* before it has found or created one; what it replies to has been run.    *)
(* A turn of the web channel runs on any session.                          *)
Delivery(r) ==
    /\ wpc[r] \notin {"idle", "web"} => update[r] \in Updates
    /\ wpc[r] \in {"idle", "find", "create", "run"} => pc[r] = "idle"
    /\ wpc[r] = "run" =>
          /\ target[r] \in Sessions /\ row[target[r]].state # FSM!NoSession
          /\ owner[target[r]] = UserOf[update[r]]
    /\ pc[r] # "idle" /\ wpc[r] # "web" => owner[on[r]] = UserOf[update[r]]
    /\ wpc[r] \in {"running", "reply", "respond"} => pc[r] # "idle" /\ on[r] = target[r]
    /\ wpc[r] \in {"reply", "respond"} => pc[r] = "done"

(* An update is stored: some delivery of it has a message in a session of  *)
(* its user.                                                               *)
Stored(u) ==
    \E r \in Requests :
        /\ update[r] = u
        /\ \E i \in DOMAIN log : /\ log[i].role = "user"
                                 /\ log[i].by = r
                                 /\ owner[log[i].session] = UserOf[u]

(* A message that was sent to the chat of a delivery.                      *)
Proper(m) ==
    LET u == update[m.to] IN
    /\ u \in Updates /\ m.chat = ChatOf[u]
    /\ Posted("user", m.to) /\ Posted("assistant", m.by)
    /\ on[m.by] = on[m.to] /\ owner[on[m.to]] = UserOf[u]
    /\ wpc[m.by] = "web" \/ UserOf[update[m.by]] = UserOf[u]

WebInv ==
    /\ IInv /\ WebTypes
    /\ \A r \in Requests : Delivery(r)
    /\ \A u \in acked : Stored(u)
    /\ \A m \in sent : Proper(m)

LEMMA WebInvImplies ==
  ASSUME WebInv
  PROVE  TelegramTypeOK /\ AckedIsStored /\ RepliesAreOfTheSendersSession
  BY DEF WebInv, IInv, WebTypes, Stored, Proper, TelegramTypeOK, AckedIsStored,
         RepliesAreOfTheSendersSession

LEMMA WebInvInit == TelegramInit => WebInv
<1> SUFFICES ASSUME TelegramInit PROVE WebInv
  OBVIOUS
<1>1. IInv
  BY InitInv DEF TelegramInit
<1>2. WebTypes
  BY DEF TelegramInit, WebTypes
<1>3. \A r \in Requests : Delivery(r)
  BY DEF TelegramInit, Init, Delivery
<1> QED
  BY <1>1, <1>2, <1>3 DEF TelegramInit, WebInv

-----------------------------------------------------------------------------
(* The webhook is one more caller of Run, and creates sessions.            *)
LEMMA ConversationSteps ==
  ASSUME WebInv, [TelegramNext]_chatVars
  PROVE  [AnyStep]_vars
<1>1. CASE UNCHANGED chatVars
  BY <1>1 DEF chatVars
<1>2. ASSUME NEW s \in Sessions, NEW x \in Users, WebSession(s, x) PROVE OthersStep
  BY <1>2, ConversationAssumption DEF WebSession, InsertSession, OthersStep
<1>3. ASSUME NEW r \in Requests, CreateForUser(r) PROVE OthersStep
  BY <1>3 DEF CreateForUser, InsertSession, OthersStep, Tier
<1>7. ASSUME NEW r \in Requests, NEW s \in Sessions, WebMessage(r, s) PROVE RequestStep(r)
  BY <1>7 DEF WebMessage, RequestStep
<1>4. ASSUME NEW r \in Requests, CallRun(r) PROVE RequestStep(r)
  <2>1. target[r] \in Sessions /\ Run(r, target[r])
    BY <1>4 DEF WebInv, Delivery, CallRun
  <2> QED
    BY <2>1 DEF RequestStep
<1>5. ASSUME NEW r \in Requests, Webhook(r), ~CreateForUser(r), ~CallRun(r)
      PROVE  UNCHANGED vars
  BY <1>5 DEF Webhook, Deliver, FindSession, RunSucceeded, RunFailed, SendReply,
              SkipReply, Respond200, NoResponse
<1>6. CASE \/ \E s \in Sessions, to \in FSM!State : OtherTransition(s, to)
           \/ \E r \in Requests : Handle(r) \/ Job(r)
  BY <1>6 DEF AnyStep, OthersStep, RequestStep
<1> QED
  BY <1>1, <1>2, <1>3, <1>4, <1>5, <1>6, <1>7 DEF TelegramNext, Webhook, AnyStep

(* What no step of the conversation undoes.                                *)
LEMMA ConversationOnward ==
  ASSUME IInv, [AnyStep]_vars
  PROVE  /\ IInv' /\ Grows
         /\ \A r \in Requests : pc[r] # "idle" => /\ pc'[r] # "idle" /\ on'[r] = on[r]
                                                  /\ pc[r] = "done" => pc'[r] = "done"
         /\ \A s \in Sessions :
              row[s].state # FSM!NoSession => row'[s].state # FSM!NoSession
<1>0. TypeOK /\ RequestInv
  BY DEF IInv
<1>1. CASE UNCHANGED vars \/ OthersStep
  <2>1. UNCHANGED <<log, pc, on>>
    BY <1>1 DEF vars, requestVars, OthersStep, CreateSession, OtherTransition
  <2>2. OneRow
    BY <1>0, <1>1, OthersMove DEF vars, OneRow
  <2> QED
    BY <1>0, <2>1, <2>2, RowFacts, NextInv DEF Grows
<1>2. ASSUME NEW r \in Requests, RequestStep(r)
      PROVE  /\ Grows /\ OneRow
             /\ \A q \in Requests : pc[q] # "idle" => /\ pc'[q] # "idle" /\ on'[q] = on[q]
                                                      /\ pc[q] = "done" => pc'[q] = "done"
  BY <1>0, <1>2, RequestEffect, RequestLog DEF Settled
<1>3. ASSUME NEW r \in Requests, Job(r)
      PROVE  Grows /\ OneRow /\ UNCHANGED <<pc, on>>
  BY <1>0, <1>3, JobEffect, JobLog DEF OneRow
<1> QED
  BY <1>0, <1>1, <1>2, <1>3, RowFacts, NextInv DEF AnyStep

(* What no step at all undoes.                                             *)
Onward ==
    /\ [AnyStep]_vars
    /\ \A s \in Sessions : row[s].state # FSM!NoSession => owner'[s] = owner[s]
    /\ \A r \in Requests :
         wpc[r] # "idle" => /\ wpc'[r] # "idle" /\ update'[r] = update[r]
                            /\ wpc'[r] = "web" <=> wpc[r] = "web"

LEMMA EveryStepIsOnward ==
  ASSUME WebInv, [TelegramNext]_chatVars
  PROVE  Onward
<1>1. [AnyStep]_vars /\ WebTypes
  BY ConversationSteps DEF WebInv
<1>2. CASE UNCHANGED webVars
  BY <1>1, <1>2 DEF Onward, webVars
<1>3. ASSUME NEW s \in Sessions, NEW x \in Users, WebSession(s, x) PROVE Onward
  BY <1>1, <1>3 DEF WebSession, InsertSession, CreateSession, Onward, WebTypes
<1>4. ASSUME NEW r \in Requests, Webhook(r)
      PROVE  /\ \A s \in Sessions : row[s].state # FSM!NoSession => owner'[s] = owner[s]
             /\ \A q \in Requests :
                  wpc[q] # "idle" => /\ wpc'[q] # "idle" /\ update'[q] = update[q]
                                     /\ wpc'[q] = "web" <=> wpc[q] = "web"
  <2> USE <1>1 DEF WebTypes
  <2>1. ASSUME NEW u \in Updates, Deliver(r, u)
        PROVE  /\ UNCHANGED owner
               /\ \A q \in Requests :
                    wpc[q] # "idle" => /\ wpc'[q] # "idle" /\ update'[q] = update[q]
                                       /\ wpc'[q] = "web" <=> wpc[q] = "web"
    BY <2>1 DEF Deliver
  <2>2. CASE CreateForUser(r)
    BY <2>2 DEF CreateForUser, InsertSession, CreateSession
  <2>3. CASE FindSession(r) \/ CallRun(r) \/ RunSucceeded(r) \/ RunFailed(r)
    BY <2>3 DEF FindSession, CallRun, RunSucceeded, RunFailed
  <2>4. CASE SendReply(r) \/ SkipReply(r) \/ Respond200(r) \/ NoResponse(r)
    BY <2>4 DEF SendReply, SkipReply, Respond200, NoResponse
  <2> QED
    BY <1>4, <2>1, <2>2, <2>3, <2>4 DEF Webhook
<1>5. ASSUME NEW r \in Requests, NEW s \in Sessions, WebMessage(r, s) PROVE Onward
  BY <1>1, <1>5 DEF WebMessage, Onward, WebTypes
<1> QED
  BY <1>1, <1>2, <1>3, <1>4, <1>5 DEF TelegramNext, Onward, chatVars

-----------------------------------------------------------------------------
(* What an author of a message has.                                        *)
LEMMA AuthorHasSession ==
  ASSUME WebInv, NEW i \in DOMAIN log
  PROVE  /\ log[i].by \in Requests /\ pc[log[i].by] # "idle"
         /\ wpc[log[i].by] # "idle"
         /\ log[i].session = on[log[i].by] /\ log[i].session \in Sessions
         /\ row[log[i].session].state # FSM!NoSession
         /\ \/ wpc[log[i].by] = "web"
            \/ owner[log[i].session] = UserOf[update[log[i].by]]
<1>1. log[i].by \in Requests
  BY AuthorType DEF WebInv, IInv
<1>2. pc[log[i].by] # "idle" /\ log[i].session = on[log[i].by]
  BY DEF WebInv, IInv, Authors
<1>3. /\ on[log[i].by] \in Sessions
      /\ row[on[log[i].by]].state # FSM!NoSession
  BY <1>1, <1>2 DEF WebInv, IInv, RequestInv, Snapshot
<1>4. /\ wpc[log[i].by] # "idle"
      /\ wpc[log[i].by] = "web" \/ owner[on[log[i].by]] = UserOf[update[log[i].by]]
  BY <1>1, <1>2 DEF WebInv, Delivery
<1> QED
  BY <1>1, <1>2, <1>3, <1>4

LEMMA StoredKept ==
  ASSUME WebInv, Onward, NEW u, Stored(u)
  PROVE  Stored(u)'
<1>1. PICK r \in Requests, i \in DOMAIN log :
         /\ update[r] = u /\ log[i].role = "user" /\ log[i].by = r
         /\ owner[log[i].session] = UserOf[u]
  BY DEF Stored
<1>2. /\ wpc[r] # "idle" /\ log[i].session \in Sessions
      /\ row[log[i].session].state # FSM!NoSession
  BY <1>1, AuthorHasSession
<1>3. update'[r] = u /\ owner'[log[i].session] = UserOf[u]
  BY <1>1, <1>2 DEF Onward
<1>4. i \in DOMAIN log' /\ log'[i] = log[i]
  BY ConversationOnward DEF WebInv, Onward, Grows
<1> QED
  BY <1>1, <1>3, <1>4 DEF Stored

LEMMA ProperKept ==
  ASSUME WebInv, Onward, NEW m \in sent
  PROVE  Proper(m)'
<1>1. Proper(m) /\ m.to \in Requests /\ m.by \in Requests
  BY DEF WebInv, WebTypes, Sent
<1>2. /\ wpc[m.by] # "idle" /\ pc[m.by] # "idle" /\ on[m.by] \in Sessions
      /\ row[on[m.by]].state # FSM!NoSession
  BY <1>1, AuthorHasSession DEF Proper, Posted
<1>3. wpc[m.to] # "idle" /\ pc[m.to] # "idle"
  BY <1>1, AuthorHasSession DEF Proper, Posted
<1>4. /\ update'[m.by] = update[m.by] /\ update'[m.to] = update[m.to]
      /\ wpc[m.by] = "web" => wpc'[m.by] = "web"
      /\ owner'[on[m.by]] = owner[on[m.by]]
  BY <1>1, <1>2, <1>3 DEF Onward
<1>5. /\ on'[m.by] = on[m.by] /\ on'[m.to] = on[m.to]
      /\ Posted("assistant", m.by) => Posted("assistant", m.by)'
      /\ Posted("user", m.to) => Posted("user", m.to)'
  BY <1>1, <1>2, <1>3, ConversationOnward, GrowsFacts DEF WebInv, Onward
<1> QED
  BY <1>1, <1>4, <1>5 DEF Proper

(* A delivery whose handler takes no step, and whose Run goes on if it has *)
(* begun.                                                                  *)
LEMMA DeliveryKept ==
  ASSUME WebInv, Onward, NEW r \in Requests, wpc'[r] = wpc[r], target'[r] = target[r],
         pc[r] = "idle" => pc'[r] = "idle"
  PROVE  Delivery(r)'
<1>1. Delivery(r) /\ wpc[r] # "idle" => update'[r] = update[r]
  BY DEF WebInv, Onward
<1>2. pc[r] # "idle" => /\ on[r] \in Sessions /\ row[on[r]].state # FSM!NoSession
                        /\ pc'[r] # "idle" /\ on'[r] = on[r]
                        /\ pc[r] = "done" => pc'[r] = "done"
  BY ConversationOnward DEF WebInv, Onward, IInv, RequestInv, Snapshot
<1>3. CASE pc[r] = "idle"
  <2>1. CASE wpc[r] = "run"
    <3>1. /\ target[r] \in Sessions /\ row[target[r]].state # FSM!NoSession
          /\ owner[target[r]] = UserOf[update[r]]
      BY <2>1 DEF WebInv, Delivery
    <3>2. row'[target[r]].state # FSM!NoSession /\ owner'[target[r]] = owner[target[r]]
      BY <3>1, ConversationOnward DEF WebInv, Onward
    <3> QED
      BY <1>1, <1>3, <2>1, <3>1, <3>2 DEF WebInv, Delivery
  <2>2. CASE wpc[r] # "run"
    BY <1>1, <1>3, <2>2 DEF WebInv, Delivery
  <2> QED
    BY <2>1, <2>2
<1>4. CASE pc[r] # "idle"
  <2>1. owner'[on[r]] = owner[on[r]]
    BY <1>2, <1>4 DEF Onward
  <2> QED
    BY <1>1, <1>2, <1>4, <2>1 DEF WebInv, Delivery
<1> QED
  BY <1>3, <1>4

(* What is left to show of a step.                                         *)
LEMMA WebInvKept ==
  ASSUME WebInv, Onward, WebTypes',
         \A r \in Requests : Delivery(r)',
         \A u \in acked' \ acked : Stored(u)',
         \A m \in sent' \ sent : Proper(m)'
  PROVE  WebInv'
<1>1. IInv'
  BY ConversationOnward DEF WebInv, Onward
<1>2. \A u \in acked' : Stored(u)'
  BY StoredKept DEF WebInv
<1>3. \A m \in sent' : Proper(m)'
  BY ProperKept
<1> QED
  BY <1>1, <1>2, <1>3 DEF WebInv

-----------------------------------------------------------------------------
(* The newest open session is one of the user's.                           *)
LEMMA NewestOpenIsOwn ==
  ASSUME WebInv, NEW x, OpenSessions(x) # {}
  PROVE  /\ NewestOpen(x) \in Sessions /\ owner[NewestOpen(x)] = x
         /\ row[NewestOpen(x)].state # FSM!NoSession
<1>1. born \in Seq(Sessions)
  BY DEF WebInv, WebTypes
<1>2. OpenSessions(x) \subseteq 1 .. Len(born) /\ Len(born) \in Nat
  BY <1>1 DEF OpenSessions
<1> DEFINE i == CHOOSE i \in OpenSessions(x) : \A j \in OpenSessions(x) : j <= i
<1>3. i \in OpenSessions(x)
  BY <1>2, Greatest
<1> HIDE DEF i
<1>4. /\ i \in DOMAIN born /\ owner[born[i]] = x /\ row[born[i]].state \in FSM!Open
      /\ born[i] \in Sessions
  BY <1>1, <1>3 DEF OpenSessions
<1>5. NewestOpen(x) = born[i]
  BY DEF NewestOpen, i
<1> QED
  BY <1>4, <1>5, StatesExist

(* The latest reply of a session was said in it.                           *)
LEMMA LatestReplyIsSaid ==
  ASSUME WebInv, NEW s, Replies(s) # {}
  PROVE  \E i \in DOMAIN log : /\ log[i] = LatestReply(s) /\ log[i].session = s
                               /\ log[i].role = "assistant"
<1>1. log \in Seq(Message)
  BY DEF WebInv, IInv, TypeOK
<1>2. Replies(s) \subseteq 1 .. Len(log) /\ Len(log) \in Nat
  BY <1>1 DEF Replies
<1> DEFINE i == CHOOSE i \in Replies(s) : \A j \in Replies(s) : j <= i
<1>3. i \in Replies(s)
  BY <1>2, Greatest
<1> HIDE DEF i
<1>4. LatestReply(s) = log[i]
  BY DEF LatestReply, i
<1> QED
  BY <1>3, <1>4 DEF Replies

-----------------------------------------------------------------------------
(* The steps.  First those that are not the webhook's.                     *)
LEMMA OtherStepsKeep ==
  ASSUME WebInv, Onward, UNCHANGED webVars,
         \A r \in Requests : pc[r] = "idle" => pc'[r] = "idle"
  PROVE  WebInv'
<1>1. WebTypes'
  BY DEF WebInv, WebTypes, webVars
<1>2. ASSUME NEW r \in Requests PROVE Delivery(r)'
  BY <1>2, DeliveryKept DEF webVars
<1> QED
  BY <1>1, <1>2, WebInvKept DEF webVars

LEMMA ConversationKeepsWeb ==
  ASSUME WebInv, Onward, UNCHANGED webVars,
         \/ \E s \in Sessions, to \in FSM!State : OtherTransition(s, to)
         \/ \E r \in Requests : Handle(r) \/ Job(r)
  PROVE  WebInv'
<1>1. TypeOK /\ RequestInv
  BY DEF WebInv, IInv
<1>2. CASE \E s \in Sessions, to \in FSM!State : OtherTransition(s, to)
  BY <1>2, OtherStepsKeep DEF OtherTransition, requestVars
<1>3. ASSUME NEW r \in Requests, Job(r) PROVE WebInv'
  BY <1>1, <1>3, JobEffect, OtherStepsKeep
<1>4. ASSUME NEW r \in Requests, Handle(r) PROVE WebInv'
  <2>1. pc[r] # "idle"
    BY <1>4 DEF Handle, SaveUserMessage, LoadHistory, SaveReply, DecideEscalation,
                Escalate, EscalationRejected, Enqueue, Fail, Pending, FailAfterWrite
  <2>2. \A q \in Requests \ {r} : pc'[q] = pc[q]
    BY <1>1, <1>4, RequestEffect DEF RequestStep
  <2> QED
    BY <2>1, <2>2, OtherStepsKeep
<1> QED
  BY <1>2, <1>3, <1>4

LEMMA InsertTypes ==
  ASSUME WebInv, NEW s \in Sessions, NEW x, NEW tier, InsertSession(s, x, tier)
  PROVE  /\ owner' \in [Sessions -> Users \cup {None}] /\ born' \in Seq(Sessions)
         /\ owner'[s] = x /\ UNCHANGED <<pc, on>>
<1>1. x \in Users /\ born \in Seq(Sessions) /\ owner \in [Sessions -> Users \cup {None}]
  BY DEF WebInv, WebTypes, InsertSession
<1> QED
  BY <1>1 DEF InsertSession, CreateSession, requestVars

LEMMA WebSessionKeeps ==
  ASSUME WebInv, Onward, NEW s \in Sessions, NEW x \in Users, WebSession(s, x)
  PROVE  WebInv'
<1>1. PICK tier \in Tiers : InsertSession(s, x, tier)
  BY DEF WebSession
<1>2. UNCHANGED <<users, update, wpc, target, acked, sent>>
  BY DEF WebSession
<1>3. WebTypes'
  BY <1>1, <1>2, InsertTypes DEF WebInv, WebTypes
<1>4. ASSUME NEW r \in Requests PROVE Delivery(r)'
  BY <1>1, <1>2, <1>4, InsertTypes, DeliveryKept
<1> QED
  BY <1>2, <1>3, <1>4, WebInvKept

LEMMA WebMessageKeeps ==
  ASSUME WebInv, Onward, NEW r \in Requests, NEW s \in Sessions, WebMessage(r, s)
  PROVE  WebInv'
<1>1. /\ WebTypes /\ TypeOK /\ Run(r, s) /\ wpc[r] = "idle"
      /\ wpc' = [wpc EXCEPT ![r] = "web"]
      /\ UNCHANGED <<users, owner, born, update, target, acked, sent>>
  BY DEF WebInv, IInv, WebMessage
<1>2. pc'[r] = "loaded" /\ \A q \in Requests \ {r} : wpc'[q] = wpc[q] /\ pc'[q] = pc[q]
  BY <1>1 DEF Run, WebTypes, TypeOK
<1>3. WebTypes'
  BY <1>1 DEF WebTypes
<1>4. ASSUME NEW q \in Requests \ {r} PROVE Delivery(q)'
  BY <1>1, <1>2, <1>4, DeliveryKept
<1>5. Delivery(r)'
  BY <1>1, <1>2 DEF WebTypes, Delivery
<1> QED
  BY <1>1, <1>3, <1>4, <1>5, WebInvKept

(* The other deliveries, when one takes a step.                            *)
LEMMA OtherDeliveries ==
  ASSUME WebInv, Onward, NEW r \in Requests, Webhook(r), NEW q \in Requests \ {r}
  PROVE  Delivery(q)'
<1>1. WebTypes /\ TypeOK
  BY DEF WebInv, IInv
<1>2. wpc'[q] = wpc[q] /\ target'[q] = target[q] /\ pc'[q] = pc[q]
  <2> USE <1>1 DEF WebTypes, TypeOK
  <2>1. CASE \E u \in Updates : Deliver(r, u)
    BY <2>1 DEF Deliver, vars, requestVars
  <2>2. CASE CreateForUser(r)
    BY <2>2 DEF CreateForUser, InsertSession, CreateSession, requestVars
  <2>3. CASE FindSession(r)
    BY <2>3 DEF FindSession, vars, requestVars
  <2>4. CASE CallRun(r)
    BY <2>4 DEF CallRun, Run
  <2>5. CASE RunSucceeded(r) \/ RunFailed(r) \/ SkipReply(r) \/ NoResponse(r)
    BY <2>5 DEF RunSucceeded, RunFailed, SkipReply, NoResponse, vars, requestVars
  <2>6. CASE SendReply(r) \/ Respond200(r)
    BY <2>6 DEF SendReply, Respond200, vars, requestVars
  <2> QED
    BY <2>1, <2>2, <2>3, <2>4, <2>5, <2>6 DEF Webhook
<1> QED
  BY <1>2, DeliveryKept

LEMMA DeliverKeeps ==
  ASSUME WebInv, Onward, NEW r \in Requests, NEW u \in Updates, Deliver(r, u)
  PROVE  WebInv'
<1>1. /\ WebTypes /\ Delivery(r) /\ UserOf[u] \in Users
      /\ pc \in [Requests -> {"idle", "loaded", "saved", "prompted", "escalate",
                              "done", "failed"}]
  BY TelegramAssumption DEF WebInv, IInv, TypeOK
<1>2. /\ update' = [update EXCEPT ![r] = u] /\ wpc' = [wpc EXCEPT ![r] = "find"]
      /\ users' = users \cup {UserOf[u]} /\ wpc[r] = "idle"
      /\ UNCHANGED <<row, pc, on, owner, born, target, acked, sent>>
  BY DEF Deliver, ResolveOrCreate, vars, requestVars
<1>3. WebTypes'
  BY <1>1, <1>2 DEF WebTypes
<1>4. Delivery(r)'
  BY <1>1, <1>2 DEF WebTypes, Delivery
<1> QED
  BY <1>2, <1>3, <1>4, OtherDeliveries, WebInvKept DEF Webhook

LEMMA FindSessionKeeps ==
  ASSUME WebInv, Onward, NEW r \in Requests, FindSession(r)
  PROVE  WebInv'
<1> DEFINE x == UserOf[update[r]]
<1>1. /\ WebTypes /\ Delivery(r) /\ wpc[r] = "find"
      /\ UNCHANGED <<row, pc, on, users, owner, born, update, acked, sent>>
  BY DEF WebInv, FindSession, vars, requestVars
<1>2. CASE OpenSessions(x) = {} /\ wpc' = [wpc EXCEPT ![r] = "create"] /\ UNCHANGED target
  <2>1. WebTypes'
    BY <1>1, <1>2 DEF WebTypes
  <2>2. Delivery(r)'
    BY <1>1, <1>2 DEF WebTypes, Delivery
  <2> QED
    BY <1>1, <2>1, <2>2, OtherDeliveries, WebInvKept DEF Webhook
<1>3. CASE /\ OpenSessions(x) # {} /\ wpc' = [wpc EXCEPT ![r] = "run"]
           /\ target' = [target EXCEPT ![r] = NewestOpen(x)]
  <2>1. /\ NewestOpen(x) \in Sessions /\ owner[NewestOpen(x)] = x
        /\ row[NewestOpen(x)].state # FSM!NoSession
    BY <1>3, NewestOpenIsOwn
  <2>2. WebTypes'
    BY <1>1, <1>3, <2>1 DEF WebTypes
  <2>3. Delivery(r)'
    BY <1>1, <1>3, <2>1 DEF WebTypes, Delivery
  <2> QED
    BY <1>1, <2>2, <2>3, OtherDeliveries, WebInvKept DEF Webhook
<1> QED
  BY <1>2, <1>3 DEF FindSession

LEMMA CreateForUserKeeps ==
  ASSUME WebInv, Onward, NEW r \in Requests, CreateForUser(r)
  PROVE  WebInv'
<1>1. PICK s \in Sessions : /\ InsertSession(s, UserOf[update[r]], "L0")
                            /\ target' = [target EXCEPT ![r] = s]
  BY DEF CreateForUser
<1>2. /\ WebTypes /\ Delivery(r) /\ wpc[r] = "create" /\ wpc' = [wpc EXCEPT ![r] = "run"]
      /\ UNCHANGED <<users, update, acked, sent>>
  BY DEF WebInv, CreateForUser
<1>3. /\ owner' \in [Sessions -> Users \cup {None}] /\ born' \in Seq(Sessions)
      /\ owner'[s] = UserOf[update[r]] /\ UNCHANGED <<pc, on>>
  BY <1>1, InsertTypes
<1>4. row'[s].state # FSM!NoSession
  BY <1>1, StatesExist DEF WebInv, IInv, TypeOK, InsertSession, CreateSession
<1>5. WebTypes'
  BY <1>1, <1>2, <1>3 DEF WebTypes
<1>6. Delivery(r)'
  BY <1>1, <1>2, <1>3, <1>4 DEF WebTypes, Delivery
<1> QED
  BY <1>2, <1>5, <1>6, OtherDeliveries, WebInvKept DEF Webhook

LEMMA CallRunKeeps ==
  ASSUME WebInv, Onward, NEW r \in Requests, CallRun(r)
  PROVE  WebInv'
<1>1. /\ WebTypes /\ Delivery(r) /\ wpc[r] = "run" /\ wpc' = [wpc EXCEPT ![r] = "running"]
      /\ UNCHANGED <<users, owner, born, update, target, acked, sent>>
  BY DEF WebInv, CallRun
<1>2. pc'[r] = "loaded" /\ on'[r] = target[r]
  BY DEF CallRun, Run, WebInv, IInv, TypeOK
<1>3. WebTypes'
  BY <1>1 DEF WebTypes
<1>4. Delivery(r)'
  BY <1>1, <1>2 DEF WebTypes, Delivery
<1> QED
  BY <1>1, <1>3, <1>4, OtherDeliveries, WebInvKept DEF Webhook

(* From the end of Run to the response.                                    *)
LEMMA ResponseKeeps ==
  ASSUME WebInv, Onward, NEW r \in Requests,
         RunSucceeded(r) \/ RunFailed(r) \/ SkipReply(r) \/ NoResponse(r)
  PROVE  WebInv'
<1>1. /\ WebTypes /\ Delivery(r)
      /\ UNCHANGED <<row, pc, on, users, owner, born, update, target, acked, sent>>
  BY DEF WebInv, RunSucceeded, RunFailed, SkipReply, NoResponse, vars, requestVars
<1>2. \/ wpc[r] \notin {"idle", "web"} /\ wpc' = [wpc EXCEPT ![r] = "ended"]
      \/ /\ wpc[r] \in {"running", "reply"} /\ pc[r] = "done"
         /\ \/ wpc' = [wpc EXCEPT ![r] = "reply"]
            \/ wpc' = [wpc EXCEPT ![r] = "respond"]
  BY <1>1 DEF Delivery, RunSucceeded, RunFailed, SkipReply, NoResponse
<1>3. WebTypes'
  BY <1>1, <1>2 DEF WebTypes
<1>4. Delivery(r)'
  BY <1>1, <1>2 DEF WebTypes, Delivery
<1> QED
  BY <1>1, <1>3, <1>4, OtherDeliveries, WebInvKept DEF Webhook

LEMMA SendReplyKeeps ==
  ASSUME WebInv, Onward, NEW r \in Requests, SendReply(r)
  PROVE  WebInv'
<1>1. /\ WebTypes /\ Delivery(r) /\ wpc[r] = "reply" /\ wpc' = [wpc EXCEPT ![r] = "respond"]
      /\ UNCHANGED <<row, log, pc, on, users, owner, born, update, target, acked>>
  BY DEF WebInv, SendReply, vars, requestVars
<1>2. PICK i \in DOMAIN log : /\ log[i] = LatestReply(target[r])
                              /\ log[i].session = target[r] /\ log[i].role = "assistant"
  BY LatestReplyIsSaid DEF SendReply
<1> DEFINE u == update[r]
<1> PICK m : m = [chat |-> ChatOf[u], to |-> r, by |-> log[i].by]
  OBVIOUS
<1>3. sent' = sent \cup {m}
  BY <1>2 DEF SendReply, SendMessage
<1>4. /\ m.chat = ChatOf[u] /\ m.to = r /\ m.by = log[i].by /\ m.by \in Requests
      /\ u \in Updates /\ m \in Sent
  BY <1>1, AuthorHasSession, TelegramAssumption DEF Sent, Delivery
<1>5. /\ on[r] = target[r] /\ owner[on[r]] = UserOf[u] /\ pc[r] = "done"
  BY <1>1 DEF Delivery
<1>6. /\ on[m.by] = on[r]
      /\ wpc[m.by] = "web" \/ UserOf[update[m.by]] = UserOf[u]
  BY <1>2, <1>4, <1>5, AuthorHasSession
<1>7. Posted("user", r) /\ Posted("assistant", m.by)
  BY <1>2, <1>4, <1>5 DEF WebInv, IInv, RequestInv, Asking, Posted
<1>8. wpc[m.by] = "web" => wpc'[m.by] = "web"
  BY <1>1, <1>4 DEF WebTypes
<1>9. Proper(m)'
  <2>1. Posted("user", r)' /\ Posted("assistant", m.by)'
    BY <1>1, <1>7 DEF Posted
  <2> QED
    BY <1>1, <1>4, <1>5, <1>6, <1>8, <2>1 DEF Proper
<1>10. WebTypes'
  BY <1>1, <1>3, <1>4 DEF WebTypes
<1>11. Delivery(r)'
  BY <1>1 DEF WebTypes, Delivery
<1> QED
  BY <1>1, <1>3, <1>9, <1>10, <1>11, OtherDeliveries, WebInvKept DEF Webhook

LEMMA Respond200Keeps ==
  ASSUME WebInv, Onward, NEW r \in Requests, Respond200(r)
  PROVE  WebInv'
<1>1. /\ WebTypes /\ Delivery(r) /\ wpc[r] = "respond" /\ wpc' = [wpc EXCEPT ![r] = "ended"]
      /\ acked' = acked \cup {update[r]}
      /\ UNCHANGED <<row, log, pc, on, users, owner, born, update, target, sent>>
  BY DEF WebInv, Respond200, vars, requestVars
<1>2. /\ update[r] \in Updates /\ pc[r] = "done"
      /\ owner[on[r]] = UserOf[update[r]]
  BY <1>1 DEF Delivery
<1>3. Posted("user", r)
  BY <1>2 DEF WebInv, IInv, RequestInv, Asking
<1>4. PICK i \in DOMAIN log : log[i].role = "user" /\ log[i].by = r
  BY <1>3 DEF Posted
<1>5. log[i].session = on[r]
  BY <1>4, AuthorHasSession
<1>6. Stored(update[r])'
  BY <1>1, <1>2, <1>4, <1>5 DEF Stored
<1>7. WebTypes'
  BY <1>1, <1>2 DEF WebTypes
<1>8. Delivery(r)'
  BY <1>1, <1>2 DEF WebTypes, Delivery
<1> QED
  BY <1>1, <1>6, <1>7, <1>8, OtherDeliveries, WebInvKept DEF Webhook

LEMMA WebInvNext ==
  ASSUME WebInv, [TelegramNext]_chatVars
  PROVE  WebInv'
<1>1. Onward
  BY EveryStepIsOnward
<1>2. CASE UNCHANGED chatVars
  BY <1>1, <1>2, OtherStepsKeep DEF chatVars, vars, requestVars
<1>3. ASSUME NEW r \in Requests, Webhook(r) PROVE WebInv'
  BY <1>1, <1>3, DeliverKeeps, FindSessionKeeps, CreateForUserKeeps, CallRunKeeps,
     ResponseKeeps, SendReplyKeeps, Respond200Keeps DEF Webhook
<1> QED
  BY <1>1, <1>2, <1>3, WebSessionKeeps, WebMessageKeeps, ConversationKeepsWeb
     DEF TelegramNext

LEMMA WebInvariance == TelegramSpec => []WebInv
  BY WebInvInit, WebInvNext, PTL DEF TelegramSpec

-----------------------------------------------------------------------------
(* Every variable keeps its type.                                          *)
THEOREM TelegramTypesAreKept == TelegramSpec => []TelegramTypeOK
<1>1. WebInv => TelegramTypeOK
  BY WebInvImplies
<1> QED
  BY <1>1, WebInvariance, PTL

(* However deliveries of an update fail, are repeated and overlap, one     *)
(* that was answered with 200 has stored it in a session of its user.      *)
THEOREM AckedIsAlwaysStored == TelegramSpec => []AckedIsStored
<1>1. WebInv => AckedIsStored
  BY WebInvImplies
<1> QED
  BY <1>1, WebInvariance, PTL

(* Of whatever turn and chat a reply is, it is of the session of the user  *)
(* who wrote in the chat it is sent to, however deliveries and turns of    *)
(* the web channel overlap.                                                *)
THEOREM RepliesStay == TelegramSpec => []RepliesAreOfTheSendersSession
<1>1. WebInv => RepliesAreOfTheSendersSession
  BY WebInvImplies
<1> QED
  BY <1>1, WebInvariance, PTL

LEMMA TelegramIsAny == TelegramSpec => AnySpec
<1>1. TelegramInit => Init
  BY DEF TelegramInit
<1>2. ASSUME WebInv, [TelegramNext]_chatVars PROVE [AnyStep]_vars
  BY <1>2, ConversationSteps
<1> QED
  BY <1>1, <1>2, WebInvariance, PTL DEF TelegramSpec, AnySpec

(* Updates that are delivered again become turns of their own, and each of *)
(* those is answered at most once, and for no older turn.                  *)
THEOREM TelegramTurns == TelegramSpec => [](OneReplyPerTurn /\ NeverAnswersAnOlderTurn)
<1>1. IInv => OneReplyPerTurn /\ NeverAnswersAnOlderTurn
  BY DEF IInv
<1> QED
  BY <1>1, TelegramIsAny, Invariance, PTL

(* Deliveries keep what the service promises of a turn.                    *)
THEOREM TelegramKeepsThePromise == TelegramSpec => ImplementsTurn
  BY TelegramIsAny, PromiseAlways

(* The webhook, the web channel, the jobs and everyone else together       *)
(* implement the abstract FSM of a session.                                *)
THEOREM TelegramImplementsFSM == TelegramSpec => ImplementsFSM
  BY TelegramIsAny, FSMAlways
=============================================================================
