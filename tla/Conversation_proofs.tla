------------------------- MODULE Conversation_proofs -------------------------
(***************************************************************************)
(* Theorems about Conversation: for any number of sessions, overlapping    *)
(* requests and job attempts, whatever fails and is retried, a turn gets   *)
(* at most one reply, no reply is for an older turn, what Run acknowledged *)
(* is taken care of, and everybody together keeps the session FSM.         *)
(***************************************************************************)
EXTENDS Conversation, WellFoundedInduction, FiniteSetTheorems, TLAPS

RequestStep(r) == (\E s \in Sessions : Run(r, s)) \/ Handle(r)

OthersStep ==
    \E s \in Sessions :
        \/ \E tier \in Tier : CreateSession(s, tier)
        \/ \E to \in FSM!State : OtherTransition(s, to)

(* The conversation whoever creates its sessions, of whatever tier: what   *)
(* is proved of it holds of Conversation and of the modules built on it.   *)
AnyStep == OthersStep \/ \E r \in Requests : RequestStep(r) \/ Job(r)

AnySpec == Init /\ [][AnyStep]_vars

LEMMA ConversationIsAny == Spec => AnySpec
<1>1. [Next]_vars => [AnyStep]_vars
  BY ConversationAssumption DEF Next, AnyStep, OthersStep, RequestStep
<1> QED
  BY <1>1, PTL DEF Spec, AnySpec

-----------------------------------------------------------------------------
(* Every message is of a request that has a session, and is in it; the     *)
(* request of a reply is over.                                             *)
Authors ==
    \A i \in DOMAIN log :
        LET r == log[i].by IN
        /\ pc[r] # "idle" /\ log[i].session = on[r]
        /\ log[i].role = "assistant" => pc[r] \in {"done", "failed"}

(* Request q is no older than request r: a message of r is followed by one *)
(* of q, or they are the same.                                             *)
NoOlder(r, q) ==
    \E m, n \in UserTurns(on[r]) : m <= n /\ log[m].by = r /\ log[n].by = q

(* The copy a request holds of its session is the row, or older.           *)
Snapshot(r) ==
    pc[r] # "idle" =>
        /\ on[r] \in Sessions
        /\ row[on[r]].state # FSM!NoSession
        /\ snap[r].version <= row[on[r]].version
        /\ snap[r].version = row[on[r]].version => snap[r].state = row[on[r]].state

Handled(r) ==
    \/ Posted("assistant", r)
    \/ jstate[r] # "none"
    \/ how[r] = "escalated" /\ row[on[r]].version > snap[r].version

Asking(r) ==
    /\ pc[r] \in {"saved", "prompted", "escalate", "done"} => Posted("user", r)
    /\ pc[r] = "prompted" /\ query[r] # None => NoOlder(r, query[r])
    /\ pc[r] = "done" => Handled(r)

(* A job is made by a request that is over; an attempt that is past its    *)
(* check has no reply before it, one that has returned nil leaves a reply  *)
(* or a session that is over, and one on a session that was over when it   *)
(* started does not get past the guard.                                    *)
Attempting(r) ==
    /\ jstate[r] # "none" => pc[r] \in {"done", "failed"} /\ Posted("user", r)
    /\ apc[r] # "idle" => jstate[r] = "running"
    /\ apc[r] \in {"guard", "history", "prompted"} => ~Posted("assistant", r)
    /\ apc[r] = "prompted" /\ jquery[r] # None => NoOlder(r, jquery[r])
    /\ apc[r] = "nil" \/ jstate[r] = "completed" =>
          Posted("assistant", r) \/ row[on[r]].state \in FSM!Terminal
    /\ jstate[r] = "running" /\ ~live[r] =>
          /\ row[on[r]].state \in FSM!Terminal
          /\ apc[r] \notin {"history", "prompted"}

RequestInv == \A r \in Requests : Snapshot(r) /\ Asking(r)
JobInv     == \A r \in Requests : Attempting(r)

IInv == TypeOK /\ Authors /\ OneReplyPerTurn /\ NeverAnswersAnOlderTurn
          /\ RequestInv /\ JobInv

-----------------------------------------------------------------------------
LEMMA InitInv == Init => IInv
<1> SUFFICES ASSUME Init PROVE IInv
  OBVIOUS
<1>1. /\ log = <<>> /\ DOMAIN log = {}
      /\ \A r \in Requests : /\ pc[r] = "idle" /\ apc[r] = "idle"
                             /\ jstate[r] = "none"
  BY DEF Init, Queue!RiverInit
<1>2. TypeOK
  BY ConversationAssumption
     DEF Init, TypeOK, Queue!RiverInit, Queue!RiverTypeOK, Queue!JobState, Unborn,
         Row, Tier
<1>3. Authors /\ OneReplyPerTurn /\ NeverAnswersAnOlderTurn
  BY <1>1 DEF Authors, OneReplyPerTurn, NeverAnswersAnOlderTurn
<1>4. RequestInv /\ JobInv
  BY <1>1 DEF RequestInv, JobInv, Snapshot, Asking, Attempting
<1> QED
  BY <1>2, <1>3, <1>4 DEF IInv

-----------------------------------------------------------------------------
(* The message table.                                                      *)
LEMMA PostFacts ==
  ASSUME log \in Seq(Message), NEW s, NEW role, NEW r, NEW q, Post(s, role, r, q)
  PROVE  /\ DOMAIN log' = DOMAIN log \cup {Len(log) + 1}
         /\ Len(log) + 1 \notin DOMAIN log
         /\ Len(log') = Len(log) + 1
         /\ \A i \in DOMAIN log : log'[i] = log[i]
         /\ log'[Len(log) + 1] = [session |-> s, role |-> role, by |-> r, query |-> q]
         /\ [session |-> s, role |-> role, by |-> r, query |-> q] \in Message
              => log' \in Seq(Message)
  BY DEF Post

(* The table keeps what it holds.                                          *)
Grows ==
    /\ DOMAIN log \subseteq DOMAIN log'
    /\ \A i \in DOMAIN log : log'[i] = log[i]

LEMMA GrowsFacts ==
  ASSUME Grows
  PROVE  /\ \A role, r : Posted(role, r) => Posted(role, r)'
         /\ \A s : UserTurns(s) \subseteq UserTurns(s)'
         /\ \A r, q : on'[r] = on[r] /\ NoOlder(r, q) => NoOlder(r, q)'
<1>1. \A role, r : Posted(role, r) => Posted(role, r)'
  BY DEF Grows, Posted
<1>2. \A s : UserTurns(s) \subseteq UserTurns(s)'
  BY DEF Grows, UserTurns
<1>3. ASSUME NEW r, NEW q, on'[r] = on[r], NoOlder(r, q) PROVE NoOlder(r, q)'
  <2>1. PICK m, n \in UserTurns(on[r]) : m <= n /\ log[m].by = r /\ log[n].by = q
    BY <1>3 DEF NoOlder
  <2>2. /\ m \in UserTurns(on[r])' /\ n \in UserTurns(on[r])'
        /\ log'[m] = log[m] /\ log'[n] = log[n]
    BY <1>2, <1>3, <2>1 DEF Grows, UserTurns
  <2> QED
    BY <2>1, <2>2 DEF NoOlder
<1> QED
  BY <1>1, <1>2, <1>3

(* A set of natural numbers up to n has a greatest.                        *)
LEMMA Greatest ==
  ASSUME NEW n \in Nat, NEW T, T \subseteq 1 .. n, T # {}
  PROVE  \E x \in T : \A y \in T : y <= x
<1> DEFINE Back == { b \in Nat : \E x \in T : b = n - x }
           Less == { p \in Nat \X Nat : p[1] < p[2] }
<1>1. Back \subseteq Nat /\ Back # {}
  <2>1. PICK x \in T : TRUE
    OBVIOUS
  <2>2. n - x \in Back
    BY <2>1
  <2> QED
    BY <2>2
<1>2. IsWellFoundedOn(Less, Nat)
  BY NatLessThanWellFounded DEF OpToRel
<1> HIDE DEF Back
<1>3. PICK b \in Back : \A c \in Back : ~(<<c, b>> \in Less)
  <2> HIDE DEF Less
  <2> QED
    BY <1>1, <1>2, WFMin
<1>4. \A c \in Back : ~(c < b)
  BY <1>1, <1>3
<1>5. PICK x \in T : b = n - x
  BY DEF Back
<1>6. ASSUME NEW y \in T PROVE y <= x
  <2>1. x \in 1 .. n /\ y \in 1 .. n
    OBVIOUS
  <2>2. n - y \in Back
    BY <2>1 DEF Back
  <2>3. ~(n - y < n - x)
    BY <1>4, <1>5, <2>2
  <2> QED
    BY <2>1, <2>3
<1> QED
  BY <1>6

(* The last user turn is one of the session's, and no other comes after.   *)
LEMMA LastUserIsLast ==
  ASSUME log \in Seq(Message), NEW s, UserTurns(s) # {}
  PROVE  \E n \in UserTurns(s) :
            log[n].by = LastUser(s) /\ \A m \in UserTurns(s) : m <= n
<1>1. UserTurns(s) \subseteq 1 .. Len(log) /\ Len(log) \in Nat
  BY DEF UserTurns
<1>2. \E n \in UserTurns(s) : \A m \in UserTurns(s) : m <= n
  BY <1>1, Greatest
<1> DEFINE n == CHOOSE i \in UserTurns(s) : \A m \in UserTurns(s) : m <= i
<1>3. n \in UserTurns(s) /\ \A m \in UserTurns(s) : m <= n
  BY <1>2
<1>4. log[n].by = LastUser(s)
  BY DEF LastUser
<1> QED
  BY <1>3, <1>4

(* A request that has stored its message finds no older turn to answer.    *)
LEMMA HistoryIsNoOlder ==
  ASSUME TypeOK, Authors, NEW r \in Requests, Posted("user", r)
  PROVE  NoOlder(r, LastUser(on[r]))
<1>1. PICK i \in DOMAIN log : log[i].role = "user" /\ log[i].by = r
  BY DEF Posted
<1>2. i \in UserTurns(on[r])
  BY <1>1 DEF Authors, UserTurns
<1>3. PICK n \in UserTurns(on[r]) :
         log[n].by = LastUser(on[r]) /\ \A m \in UserTurns(on[r]) : m <= n
  BY <1>2, LastUserIsLast DEF TypeOK
<1> QED
  BY <1>1, <1>2, <1>3 DEF NoOlder

(* What a reply to the log does to the properties of the log.              *)
LEMMA ReplyKeepsOrder ==
  ASSUME TypeOK, OneReplyPerTurn, NeverAnswersAnOlderTurn,
         NEW r \in Requests, NEW q,
         ~Posted("assistant", r), q # None => NoOlder(r, q),
         Post(on[r], "assistant", r, q)
  PROVE  OneReplyPerTurn' /\ NeverAnswersAnOlderTurn'
<1> DEFINE last == Len(log) + 1
<1>1. /\ DOMAIN log' = DOMAIN log \cup {last} /\ last \notin DOMAIN log
      /\ \A i \in DOMAIN log : log'[i] = log[i]
      /\ log'[last] = [session |-> on[r], role |-> "assistant", by |-> r, query |-> q]
  <2>1. log \in Seq(Message)
    BY DEF TypeOK
  <2> QED
    BY <2>1 DEF Post
<1> HIDE DEF last
<1>2. OneReplyPerTurn'
  BY <1>1 DEF OneReplyPerTurn, Posted
<1>3. \A s : UserTurns(s) \subseteq UserTurns(s)'
  BY <1>1 DEF UserTurns
<1>4. ASSUME NEW s, NEW m \in UserTurns(s) PROVE log'[m] = log[m]
  BY <1>1 DEF UserTurns
<1>5. ASSUME NEW j \in DOMAIN log', log'[j].role = "assistant", log'[j].query # None,
             NEW s, s = log'[j].session
      PROVE  \E m, n \in UserTurns(s)' :
                m <= n /\ log'[m].by = log'[j].by /\ log'[n].by = log'[j].query
  <2>1. CASE j \in DOMAIN log
    <3>1. PICK m, n \in UserTurns(s) :
             m <= n /\ log[m].by = log[j].by /\ log[n].by = log[j].query
      BY <1>1, <1>5, <2>1 DEF NeverAnswersAnOlderTurn
    <3> QED
      BY <1>1, <1>3, <1>4, <2>1, <3>1
  <2>2. CASE j = last
    <3>1. s = on[r] /\ log'[j].by = r /\ log'[j].query = q
      BY <1>1, <1>5, <2>2
    <3>2. PICK m, n \in UserTurns(on[r]) : m <= n /\ log[m].by = r /\ log[n].by = q
      BY <1>5, <3>1 DEF NoOlder
    <3>3. m \in UserTurns(s)' /\ n \in UserTurns(s)' /\ log'[m] = log[m] /\ log'[n] = log[n]
      BY <1>3, <1>4, <3>1
    <3> QED
      BY <3>1, <3>2, <3>3
  <2> QED
    BY <1>1, <2>1, <2>2, <1>5
<1>6. NeverAnswersAnOlderTurn'
  <2> SUFFICES ASSUME NEW j \in DOMAIN log',
                      log'[j].role = "assistant", log'[j].query # None
               PROVE  \E m, n \in { i \in DOMAIN log' : /\ log'[i].session = log'[j].session
                                                       /\ log'[i].role = "user" } :
                         m <= n /\ log'[m].by = log'[j].by /\ log'[n].by = log'[j].query
    BY DEF NeverAnswersAnOlderTurn, UserTurns
  <2> QED
    BY <1>5 DEF UserTurns
<1> QED
  BY <1>2, <1>6

-----------------------------------------------------------------------------
(* The session table: a step creates one session, or moves one along an    *)
(* edge from its real state, or leaves all alone.                          *)
Created(s, x) == row[s].state = FSM!NoSession /\ x.state = "Active"

Moved(s, x) ==
    FSM!Allowed(row[s].state, x.state) /\ x.version = row[s].version + 1

OneRow ==
    \/ UNCHANGED row
    \/ \E s \in Sessions, x \in Row :
         row' = [row EXCEPT ![s] = x] /\ (Created(s, x) \/ Moved(s, x))

LEMMA StatesExist ==
  /\ FSM!State = {"Active", "WaitingForHuman", "Completed", "Expired"}
  /\ FSM!NoSession = "NoSession"
  /\ FSM!Terminal = {"Completed", "Expired"}
  /\ FSM!Open = {"Active", "WaitingForHuman"}
  /\ \A from, to : FSM!Allowed(from, to) =>
        /\ from \in FSM!Open /\ to \in FSM!State /\ from # to
        /\ from # FSM!NoSession /\ from \notin FSM!Terminal
  BY DEF FSM!State, FSM!NoSession, FSM!Terminal, FSM!Open, FSM!Allowed,
         FSM!validTransitions

LEMMA RowFacts ==
  ASSUME TypeOK, OneRow, NEW s \in Sessions, row[s].state # FSM!NoSession
  PROVE  /\ row[s].version \in Nat /\ row'[s].version \in Nat
         /\ row'[s].state # FSM!NoSession
         /\ row'[s].version >= row[s].version
         /\ row'[s].version = row[s].version => row'[s].state = row[s].state
         /\ row[s].state \in FSM!Terminal => row'[s].state \in FSM!Terminal
<1>1. row \in [Sessions -> Row] /\ row[s] \in Row /\ row[s].version \in Nat
  BY DEF TypeOK, Row
<1>2. CASE UNCHANGED row
  BY <1>1, <1>2
<1>3. ASSUME NEW t \in Sessions, NEW x \in Row, row' = [row EXCEPT ![t] = x],
             Created(t, x) \/ Moved(t, x)
      PROVE  /\ row'[s].version \in Nat
             /\ row'[s].state # FSM!NoSession
             /\ row'[s].version >= row[s].version
             /\ row'[s].version = row[s].version => row'[s].state = row[s].state
             /\ row[s].state \in FSM!Terminal => row'[s].state \in FSM!Terminal
  <2>1. CASE s # t
    BY <1>1, <1>3, <2>1
  <2>2. CASE s = t
    <3>1. row'[s] = x /\ x.version \in Nat
      BY <1>1, <1>3, <2>2 DEF Row
    <3>2. Moved(s, x)
      BY <1>3, <2>2 DEF Created
    <3>3. x.version = row[s].version + 1 /\ x.state \in FSM!State
      BY <3>2, StatesExist DEF Moved
    <3>4. row[s].state \notin FSM!Terminal
      BY <3>2, StatesExist DEF Moved
    <3>5. x.state # FSM!NoSession
      BY <3>3, StatesExist
    <3> QED
      BY <1>1, <3>1, <3>3, <3>4, <3>5
  <2> QED
    BY <2>1, <2>2
<1> QED
  BY <1>1, <1>2, <1>3 DEF OneRow

LEMMA RowUpdate ==
  ASSUME NEW y \in Row, NEW to \in FSM!State
  PROVE  LET x == [y EXCEPT !.state = to, !.version = @ + 1] IN
         x \in Row /\ x.state = to /\ x.version = y.version + 1
<1> DEFINE x == [y EXCEPT !.state = to, !.version = @ + 1]
<1>1. x.state = to /\ x.version = y.version + 1
  BY DEF Row
<1>2. ASSUME NEW n \in Nat PROVE [y EXCEPT !.state = to, !.version = n] \in Row
  BY DEF Row
<1>3. y.version + 1 \in Nat
  BY DEF Row
<1> QED
  BY <1>1, <1>2, <1>3

LEMMA EscalationMoves ==
  ASSUME TypeOK, RequestInv, NEW r \in Requests, pc[r] = "escalate", StoreEscalation(r)
  PROVE  OneRow /\ row'[on[r]].version > snap[r].version
<1> DEFINE s == on[r]
           x == [row[s] EXCEPT !.state = "WaitingForHuman", !.version = @ + 1]
<1>1. s \in Sessions /\ snap[r].version = row[s].version => snap[r].state = row[s].state
  BY DEF RequestInv, Snapshot
<1>2. s \in Sessions /\ row[s] \in Row /\ row \in [Sessions -> Row]
  BY DEF RequestInv, Snapshot, TypeOK
<1>3. FSM!Allowed(row[s].state, "WaitingForHuman") /\ row[s].version = snap[r].version
  <2>1. FSM!Allowed(snap[r].state, "WaitingForHuman") /\ row[s].version = snap[r].version
    BY DEF StoreEscalation, CanEscalate
  <2>2. snap[r].state = row[s].state
    BY <2>1 DEF RequestInv, Snapshot
  <2> QED
    BY <2>1, <2>2
<1>4. x \in Row /\ x.state = "WaitingForHuman" /\ x.version = row[s].version + 1
  BY <1>2, StatesExist, RowUpdate
<1>5. row' = [row EXCEPT ![s] = x]
  BY <1>2 DEF StoreEscalation
<1>6. OneRow
  BY <1>2, <1>3, <1>4, <1>5 DEF OneRow, Moved
<1>7. row'[s].version > snap[r].version
  BY <1>2, <1>3, <1>4, <1>5 DEF Row
<1> QED
  BY <1>6, <1>7

LEMMA OthersMove ==
  ASSUME TypeOK, OthersStep
  PROVE  OneRow
<1>0. row \in [Sessions -> Row]
  BY DEF TypeOK
<1>1. ASSUME NEW s \in Sessions, NEW tier \in Tier, CreateSession(s, tier)
      PROVE  OneRow
  <2>1. [state |-> "Active", version |-> 1, tier |-> tier] \in Row
    BY ConversationAssumption, StatesExist DEF Row
  <2> QED
    BY <1>1, <2>1 DEF CreateSession, OneRow, Created
<1>2. ASSUME NEW s \in Sessions, NEW to \in FSM!State, OtherTransition(s, to)
      PROVE  OneRow
  <2> DEFINE x == [row[s] EXCEPT !.state = to, !.version = @ + 1]
  <2>1. row[s] \in Row
    BY <1>0
  <2>2. x \in Row /\ x.state = to /\ x.version = row[s].version + 1
    BY <2>1, RowUpdate
  <2>3. row' = [row EXCEPT ![s] = x]
    BY <1>0, <1>2 DEF OtherTransition
  <2>4. FSM!Allowed(row[s].state, to)
    BY <1>2 DEF OtherTransition
  <2> QED
    BY <2>2, <2>3, <2>4 DEF OneRow, Moved
<1> QED
  BY <1>1, <1>2 DEF OthersStep

-----------------------------------------------------------------------------
(* A step of a request: the other requests and all attempts are left       *)
(* alone, the request does not go back, and what it writes is one row or   *)
(* one message of its own.                                                 *)
Settled(r) == pc[r] \in {"done", "failed"}

LEMMA RequestEffect ==
  ASSUME TypeOK, RequestInv, NEW r \in Requests, RequestStep(r)
  PROVE  /\ \A q \in Requests \ {r} :
              /\ pc'[q] = pc[q] /\ on'[q] = on[q] /\ snap'[q] = snap[q]
              /\ query'[q] = query[q] /\ how'[q] = how[q] /\ jstate'[q] = jstate[q]
         /\ UNCHANGED <<apc, jquery, live>>
         /\ \/ jstate'[r] = jstate[r]
            \/ /\ pc[r] = "saved" /\ Settled(r)'
               /\ jstate[r] = "none" /\ jstate'[r] = "available"
         /\ ~Settled(r) /\ pc'[r] # "idle"
         /\ pc[r] # "idle" => on'[r] = on[r] /\ snap'[r] = snap[r]
         /\ OneRow
         /\ \/ UNCHANGED log
            \/ pc[r] = "loaded" /\ Post(on[r], "user", r, r)
            \/ pc[r] = "prompted" /\ Post(on[r], "assistant", r, query[r]) /\ Settled(r)'
<1> USE DEF Settled
<1>0. /\ pc \in [Requests -> {"idle", "loaded", "saved", "prompted", "escalate",
                              "done", "failed"}]
      /\ on \in [Requests -> Sessions \cup {None}] /\ snap \in [Requests -> Row]
      /\ query \in [Requests -> Requests \cup {None}] /\ DOMAIN how = Requests
      /\ DOMAIN jstate = Requests
  BY DEF TypeOK, Queue!RiverTypeOK
<1>1. ASSUME NEW s \in Sessions, Run(r, s)
      PROVE  /\ UNCHANGED <<row, log, query, how, jstate, apc, jquery, live>>
             /\ pc[r] = "idle" /\ pc'[r] = "loaded"
             /\ \A q \in Requests \ {r} :
                  pc'[q] = pc[q] /\ on'[q] = on[q] /\ snap'[q] = snap[q]
  BY <1>0, <1>1 DEF Run, jobVars
<1>2. CASE SaveUserMessage(r)
  BY <1>0, <1>2 DEF SaveUserMessage, OneRow, jobVars
<1>3. CASE LoadHistory(r)
  BY <1>0, <1>3 DEF LoadHistory, OneRow, jobVars
<1>4. CASE SaveReply(r)
  BY <1>0, <1>4 DEF SaveReply, OneRow, jobVars
<1>5. CASE DecideEscalation(r) \/ EscalationRejected(r) \/ Fail(r)
  BY <1>0, <1>5 DEF DecideEscalation, EscalationRejected, Fail, Pending, OneRow, jobVars
<1>6. CASE Escalate(r)
  <2>1. OneRow
    BY <1>6, EscalationMoves DEF Escalate
  <2> QED
    BY <1>0, <1>6, <2>1 DEF Escalate, jobVars
<1>7. CASE Enqueue(r)
  BY <1>0, <1>7 DEF Enqueue, Queue!Insert, OneRow
<1>8. CASE FailAfterWrite(r)
  <2>1. CASE pc[r] = "loaded" /\ Post(on[r], "user", r, r) /\ UNCHANGED <<row, jstate, attempts>>
    BY <1>0, <1>8, <2>1 DEF FailAfterWrite, OneRow
  <2>2. CASE pc[r] = "prompted" /\ Post(on[r], "assistant", r, query[r])
               /\ UNCHANGED <<row, jstate, attempts>>
    BY <1>0, <1>8, <2>2 DEF FailAfterWrite, OneRow
  <2>3. CASE pc[r] = "escalate" /\ StoreEscalation(r) /\ UNCHANGED <<log, jstate, attempts>>
    <3>1. OneRow
      BY <2>3, EscalationMoves
    <3> QED
      BY <1>0, <1>8, <2>3, <3>1 DEF FailAfterWrite
  <2>4. CASE pc[r] = "saved" /\ Queue!Insert(r) /\ UNCHANGED <<row, log>>
    BY <1>0, <1>8, <2>4 DEF FailAfterWrite, Queue!Insert, OneRow
  <2> QED
    BY <1>8, <2>1, <2>2, <2>3, <2>4 DEF FailAfterWrite
<1>9. CASE \E s \in Sessions : Run(r, s)
  BY <1>0, <1>1, <1>9 DEF OneRow
<1> QED
  BY <1>2, <1>3, <1>4, <1>5, <1>6, <1>7, <1>8, <1>9 DEF RequestStep, Handle

(* A step of an attempt: sessions, requests and the other attempts are left *)
(* alone, and what it writes is the reply it has generated.                 *)
LEMMA JobEffect ==
  ASSUME TypeOK, NEW r \in Requests, Job(r)
  PROVE  /\ UNCHANGED <<row, pc, on, snap, query, how>>
         /\ \A q \in Requests \ {r} :
              /\ jstate'[q] = jstate[q] /\ apc'[q] = apc[q]
              /\ jquery'[q] = jquery[q] /\ live'[q] = live[q]
         /\ jstate[r] # "none" /\ jstate'[r] # "none"
         /\ \/ UNCHANGED log
            \/ /\ apc[r] = "prompted" /\ jstate[r] = "running"
               /\ Post(on[r], "assistant", r, jquery[r])
               /\ apc'[r] \in {"nil", "idle"}
<1>0. /\ jstate \in [Requests -> Queue!JobState]
      /\ apc \in [Requests -> {"idle", "check", "guard", "history", "prompted", "nil"}]
      /\ jquery \in [Requests -> Requests \cup {None}]
      /\ live \in [Requests -> BOOLEAN]
  BY DEF TypeOK, Queue!RiverTypeOK
<1>1. CASE StartAttempt(r)
  BY <1>0, <1>1 DEF StartAttempt, Queue!Start, requestVars
<1>2. CASE CheckJob(r)
  BY <1>0, <1>2 DEF CheckJob, At, requestVars
<1>3. CASE GuardSession(r)
  BY <1>0, <1>3 DEF GuardSession, At, requestVars
<1>4. CASE LoadJobHistory(r)
  BY <1>0, <1>4 DEF LoadJobHistory, At, requestVars
<1>5. CASE SaveJobReply(r)
  BY <1>0, <1>5 DEF SaveJobReply, At, requestVars
<1>6. CASE CompleteJob(r)
  BY <1>0, <1>6 DEF CompleteJob, At, Queue!Complete, requestVars
<1>7. CASE AttemptFails(r)
  BY <1>0, <1>7 DEF AttemptFails, Queue!Retry, requestVars
<1>8. CASE ReplyStoredAttemptFails(r)
  BY <1>0, <1>8 DEF ReplyStoredAttemptFails, Queue!Retry, requestVars
<1> QED
  BY <1>1, <1>2, <1>3, <1>4, <1>5, <1>6, <1>7, <1>8 DEF Job

-----------------------------------------------------------------------------
(* Types.                                                                  *)
LEMMA PostTypes ==
  ASSUME TypeOK, RequestInv, NEW r \in Requests, pc[r] # "idle",
         NEW role \in {"user", "assistant"}, NEW q \in Requests \cup {None},
         Post(on[r], role, r, q)
  PROVE  log' \in Seq(Message)
<1>1. on[r] \in Sessions /\ log \in Seq(Message)
  BY DEF RequestInv, Snapshot, TypeOK
<1>2. [session |-> on[r], role |-> role, by |-> r, query |-> q] \in Message
  BY <1>1 DEF Message
<1> QED
  BY <1>1, <1>2 DEF Post

LEMMA RowTypes ==
  ASSUME TypeOK, OneRow
  PROVE  row' \in [Sessions -> Row]
  BY DEF TypeOK, OneRow

(* The question an author finds is a turn, or there is none.               *)
LEMMA LastUserType ==
  ASSUME TypeOK, NEW s
  PROVE  LastUser(s) \in Requests \cup {None}
<1>1. log \in Seq(Message)
  BY DEF TypeOK
<1>2. CASE UserTurns(s) = {}
  BY <1>2 DEF LastUser
<1>3. CASE UserTurns(s) # {}
  <2>1. PICK n \in UserTurns(s) : log[n].by = LastUser(s)
    BY <1>1, <1>3, LastUserIsLast
  <2>2. log[n] \in Message
    BY <1>1, <2>1 DEF UserTurns
  <2> QED
    BY <2>1, <2>2 DEF Message
<1> QED
  BY <1>2, <1>3

LEMMA RequestTypes ==
  ASSUME TypeOK, RequestInv, NEW r \in Requests, RequestStep(r)
  PROVE  TypeOK'
<1>0. MaxAttempts \in Nat
  BY ConversationAssumption
<1>1. row' \in [Sessions -> Row]
  BY RequestEffect, RowTypes
<1>2. log' \in Seq(Message)
  <2>1. CASE UNCHANGED log
    BY <2>1 DEF TypeOK
  <2>2. CASE pc[r] = "loaded" /\ Post(on[r], "user", r, r)
    BY <2>2, PostTypes
  <2>3. CASE pc[r] = "prompted" /\ Post(on[r], "assistant", r, query[r])
    <3>1. query[r] \in Requests \cup {None}
      BY DEF TypeOK
    <3> QED
      BY <2>3, <3>1, PostTypes
  <2> QED
    BY <2>1, <2>2, <2>3, RequestEffect
<1>3. TypeOK' <=> /\ pc' \in [Requests -> {"idle", "loaded", "saved", "prompted",
                                          "escalate", "done", "failed"}]
                  /\ on' \in [Requests -> Sessions \cup {None}]
                  /\ snap' \in [Requests -> Row]
                  /\ query' \in [Requests -> Requests \cup {None}]
                  /\ how' \in [Requests -> {"open", "answered", "escalated", "enqueued"}]
                  /\ jstate' \in [Requests -> Queue!JobState]
                  /\ attempts' \in [Requests -> 0 .. MaxAttempts]
  BY <1>1, <1>2, RequestEffect DEF TypeOK, Queue!RiverTypeOK
<1> USE DEF TypeOK, Queue!RiverTypeOK
<1>4. ASSUME NEW s \in Sessions, Run(r, s) PROVE TypeOK'
  <2>1. row[s] \in Row
    OBVIOUS
  <2> QED
    BY <1>3, <1>4, <2>1 DEF Run, jobVars
<1>5. CASE SaveUserMessage(r)
  BY <1>3, <1>5 DEF SaveUserMessage, jobVars
<1>6. CASE LoadHistory(r)
  BY <1>3, <1>6, LastUserType DEF LoadHistory, jobVars
<1>7. CASE SaveReply(r)
  BY <1>3, <1>7 DEF SaveReply, jobVars
<1>8. CASE DecideEscalation(r) \/ EscalationRejected(r) \/ Fail(r)
  BY <1>3, <1>8 DEF DecideEscalation, EscalationRejected, Fail, jobVars
<1>9. CASE Escalate(r)
  BY <1>3, <1>9 DEF Escalate, jobVars
<1>10. ASSUME Queue!Insert(r)
       PROVE  jstate' \in [Requests -> Queue!JobState] /\ UNCHANGED attempts
  BY <1>10 DEF Queue!Insert, Queue!JobState
<1>11. CASE Enqueue(r)
  BY <1>3, <1>10, <1>11 DEF Enqueue
<1>12. CASE FailAfterWrite(r)
  <2>1. UNCHANGED <<jstate, attempts>> \/ Queue!Insert(r)
    BY <1>12 DEF FailAfterWrite
  <2>2. pc' = [pc EXCEPT ![r] = "failed"] /\ UNCHANGED <<on, snap, query, how>>
    BY <1>12 DEF FailAfterWrite
  <2> QED
    BY <1>3, <1>10, <2>1, <2>2
<1> QED
  BY <1>4, <1>5, <1>6, <1>7, <1>8, <1>9, <1>11, <1>12 DEF RequestStep, Handle

LEMMA JobTypes ==
  ASSUME TypeOK, RequestInv, JobInv, NEW r \in Requests, Job(r)
  PROVE  TypeOK'
<1>0. /\ MaxAttempts \in Nat /\ attempts[r] \in 0 .. MaxAttempts
      /\ {"available", "running", "completed", "discarded"} \subseteq Queue!JobState
  BY ConversationAssumption DEF TypeOK, Queue!RiverTypeOK, Queue!JobState
<1>1. log' \in Seq(Message)
  <2>1. pc[r] # "idle"
    BY JobEffect DEF JobInv, Attempting
  <2>2. jquery[r] \in Requests \cup {None}
    BY DEF TypeOK
  <2>3. CASE Post(on[r], "assistant", r, jquery[r])
    BY <2>1, <2>2, <2>3, PostTypes
  <2>4. CASE UNCHANGED log
    BY <2>4 DEF TypeOK
  <2> QED
    BY <2>3, <2>4, JobEffect
<1>2. TypeOK' <=> /\ jstate' \in [Requests -> Queue!JobState]
                  /\ attempts' \in [Requests -> 0 .. MaxAttempts]
                  /\ apc' \in [Requests -> {"idle", "check", "guard", "history",
                                            "prompted", "nil"}]
                  /\ jquery' \in [Requests -> Requests \cup {None}]
                  /\ live' \in [Requests -> BOOLEAN]
  BY <1>1, JobEffect DEF TypeOK, Queue!RiverTypeOK
<1> USE DEF TypeOK, Queue!RiverTypeOK
<1>3. CASE StartAttempt(r)
  BY <1>0, <1>2, <1>3 DEF StartAttempt, Queue!Start
<1>4. CASE CheckJob(r)
  BY <1>2, <1>4 DEF CheckJob, At
<1>5. CASE GuardSession(r)
  BY <1>2, <1>5 DEF GuardSession, At
<1>6. CASE LoadJobHistory(r)
  <2>1. LastUserInBudget(on[r]) \subseteq Requests \cup {None}
    BY LastUserType DEF LastUserInBudget
  <2> QED
    BY <1>2, <1>6, <2>1 DEF LoadJobHistory, At
<1>7. CASE SaveJobReply(r)
  BY <1>2, <1>7 DEF SaveJobReply, At
<1>8. CASE CompleteJob(r)
  BY <1>0, <1>2, <1>8 DEF CompleteJob, At, Queue!Complete
<1>9. CASE AttemptFails(r)
  BY <1>0, <1>2, <1>9 DEF AttemptFails, Queue!Retry
<1>10. CASE ReplyStoredAttemptFails(r)
  BY <1>0, <1>2, <1>10 DEF ReplyStoredAttemptFails, Queue!Retry
<1> QED
  BY <1>3, <1>4, <1>5, <1>6, <1>7, <1>8, <1>9, <1>10 DEF Job

-----------------------------------------------------------------------------
(* The invariants of the log.                                              *)
LEMMA Writes ==
  ASSUME TypeOK, NEW r \in Requests, NEW role, NEW q,
         UNCHANGED log \/ Post(on[r], role, r, q)
  PROVE  /\ Grows
         /\ \A i \in DOMAIN log' :
              \/ i \in DOMAIN log /\ log'[i] = log[i]
              \/ /\ Post(on[r], role, r, q)
                 /\ log'[i] = [session |-> on[r], role |-> role, by |-> r, query |-> q]
<1>0. log \in Seq(Message)
  BY DEF TypeOK
<1>1. CASE UNCHANGED log
  BY <1>1 DEF Grows
<1>2. CASE Post(on[r], role, r, q)
  <2>1. /\ DOMAIN log' = DOMAIN log \cup {Len(log) + 1}
        /\ \A i \in DOMAIN log : log'[i] = log[i]
        /\ log'[Len(log) + 1] = [session |-> on[r], role |-> role, by |-> r, query |-> q]
    BY <1>0, <1>2 DEF Post
  <2> QED
    BY <1>2, <2>1 DEF Grows
<1> QED
  BY <1>1, <1>2

(* Only the author of a reply changes whether it has replied.              *)
LEMMA RepliesAreOwn ==
  ASSUME TypeOK, NEW r \in Requests, NEW role, NEW q,
         UNCHANGED log \/ Post(on[r], role, r, q), NEW p, p # r \/ role = "user"
  PROVE  Posted("assistant", p)' => Posted("assistant", p)
<1>1. \A i \in DOMAIN log' :
        \/ i \in DOMAIN log /\ log'[i] = log[i]
        \/ /\ Post(on[r], role, r, q)
           /\ log'[i] = [session |-> on[r], role |-> role, by |-> r, query |-> q]
  BY Writes
<1>2. \A i \in DOMAIN log' : log'[i].role = "assistant" /\ log'[i].by = p
         => i \in DOMAIN log /\ log'[i] = log[i]
  BY <1>1
<1> QED
  BY <1>2 DEF Posted

LEMMA UserTurnKeepsOrder ==
  ASSUME TypeOK, OneReplyPerTurn, NeverAnswersAnOlderTurn, NEW r \in Requests,
         UNCHANGED log \/ Post(on[r], "user", r, r)
  PROVE  OneReplyPerTurn' /\ NeverAnswersAnOlderTurn'
<1>1. /\ Grows
      /\ \A i \in DOMAIN log' :
           \/ i \in DOMAIN log /\ log'[i] = log[i]
           \/ log'[i].role = "user"
  <2>1. /\ Grows
        /\ \A i \in DOMAIN log' :
             \/ i \in DOMAIN log /\ log'[i] = log[i]
             \/ /\ Post(on[r], "user", r, r)
                /\ log'[i] = [session |-> on[r], role |-> "user", by |-> r, query |-> r]
    BY Writes
  <2> QED
    BY <2>1
<1>2. OneReplyPerTurn'
  BY <1>1 DEF OneReplyPerTurn
<1>3. ASSUME NEW j \in DOMAIN log', log'[j].role = "assistant", log'[j].query # None
      PROVE  \E m, n \in { i \in DOMAIN log' : /\ log'[i].session = log'[j].session
                                              /\ log'[i].role = "user" } :
                m <= n /\ log'[m].by = log'[j].by /\ log'[n].by = log'[j].query
  <2>1. j \in DOMAIN log /\ log'[j] = log[j]
    BY <1>1, <1>3
  <2>2. PICK m, n \in { i \in DOMAIN log : /\ log[i].session = log[j].session
                                          /\ log[i].role = "user" } :
           m <= n /\ log[m].by = log[j].by /\ log[n].by = log[j].query
    BY <1>3, <2>1 DEF NeverAnswersAnOlderTurn, UserTurns
  <2>3. /\ m \in DOMAIN log /\ n \in DOMAIN log /\ log'[m] = log[m] /\ log'[n] = log[n]
        /\ m \in DOMAIN log' /\ n \in DOMAIN log'
    BY <1>1, <2>2 DEF Grows
  <2> QED
    BY <2>1, <2>2, <2>3
<1>4. NeverAnswersAnOlderTurn'
  BY <1>3 DEF NeverAnswersAnOlderTurn, UserTurns
<1> QED
  BY <1>2, <1>4

LEMMA AuthorType ==
  ASSUME TypeOK, NEW i \in DOMAIN log
  PROVE  log[i] \in Message /\ log[i].by \in Requests
<1>1. log \in Seq(Message)
  BY DEF TypeOK
<1>2. log[i] \in Message
  BY <1>1
<1> QED
  BY <1>2 DEF Message

LEMMA AuthorsKept ==
  ASSUME TypeOK, Authors, NEW r \in Requests, NEW role, NEW q,
         UNCHANGED log \/ Post(on[r], role, r, q),
         Post(on[r], role, r, q) =>
            pc[r] # "idle" /\ (role = "assistant" => Settled(r)'),
         \A p \in Requests : pc[p] # "idle" => pc'[p] # "idle" /\ on'[p] = on[p],
         \A p \in Requests : Settled(p) => Settled(p)'
  PROVE  Authors'
<1>1. \A i \in DOMAIN log' :
        \/ i \in DOMAIN log /\ log'[i] = log[i]
        \/ /\ Post(on[r], role, r, q)
           /\ log'[i] = [session |-> on[r], role |-> role, by |-> r, query |-> q]
  BY Writes
<1>2. ASSUME NEW i \in DOMAIN log'
      PROVE  /\ pc'[log'[i].by] # "idle" /\ log'[i].session = on'[log'[i].by]
             /\ log'[i].role = "assistant" => pc'[log'[i].by] \in {"done", "failed"}
  <2>1. CASE i \in DOMAIN log /\ log'[i] = log[i]
    <3>1. log[i].by \in Requests
      BY <2>1, AuthorType
    <3> QED
      BY <2>1, <3>1 DEF Authors, Settled
  <2>2. CASE /\ Post(on[r], role, r, q)
             /\ log'[i] = [session |-> on[r], role |-> role, by |-> r, query |-> q]
    BY <2>2 DEF Settled
  <2> QED
    BY <1>1, <2>1, <2>2
<1> QED
  BY <1>2 DEF Authors

LEMMA RequestLog ==
  ASSUME IInv, NEW r \in Requests, RequestStep(r)
  PROVE  /\ Authors' /\ OneReplyPerTurn' /\ NeverAnswersAnOlderTurn' /\ Grows
         /\ \A p \in Requests \ {r} : Posted("assistant", p)' => Posted("assistant", p)
<1> USE DEF IInv
<1>1. ~Settled(r) /\ ~Posted("assistant", r)
  BY RequestEffect DEF Authors, Posted, Settled
<1>2. /\ \A p \in Requests : pc[p] # "idle" => pc'[p] # "idle" /\ on'[p] = on[p]
      /\ \A p \in Requests : Settled(p) => Settled(p)'
  BY RequestEffect DEF Settled
<1>3. CASE UNCHANGED log \/ (pc[r] = "loaded" /\ Post(on[r], "user", r, r))
  <2>1. OneReplyPerTurn' /\ NeverAnswersAnOlderTurn'
    BY <1>3, UserTurnKeepsOrder
  <2>2. Grows
    BY <1>3, Writes
  <2>3. \A p \in Requests \ {r} : Posted("assistant", p)' => Posted("assistant", p)
    BY <1>3, RepliesAreOwn
  <2>4. Authors'
    <3>1. CASE UNCHANGED log
      BY <1>2, <3>1, AuthorType DEF Authors, Settled
    <3>2. CASE pc[r] = "loaded" /\ Post(on[r], "user", r, r)
      BY <1>2, <3>2, AuthorsKept
    <3> QED
      BY <1>3, <3>1, <3>2
  <2> QED
    BY <2>1, <2>2, <2>3, <2>4
<1>4. CASE pc[r] = "prompted" /\ Post(on[r], "assistant", r, query[r]) /\ Settled(r)'
  <2>1. query[r] # None => NoOlder(r, query[r])
    BY <1>4 DEF RequestInv, Asking
  <2>2. OneReplyPerTurn' /\ NeverAnswersAnOlderTurn'
    BY <1>1, <1>4, <2>1, ReplyKeepsOrder
  <2>3. Grows
    BY <1>4, Writes
  <2>4. \A p \in Requests \ {r} : Posted("assistant", p)' => Posted("assistant", p)
    BY <1>4, RepliesAreOwn
  <2>5. Authors'
    BY <1>2, <1>4, AuthorsKept
  <2> QED
    BY <2>2, <2>3, <2>4, <2>5
<1> QED
  BY <1>3, <1>4, RequestEffect

LEMMA JobLog ==
  ASSUME IInv, NEW r \in Requests, Job(r)
  PROVE  /\ Authors' /\ OneReplyPerTurn' /\ NeverAnswersAnOlderTurn' /\ Grows
         /\ \A p \in Requests \ {r} : Posted("assistant", p)' => Posted("assistant", p)
<1> USE DEF IInv
<1>1. pc[r] # "idle" /\ Settled(r) /\ UNCHANGED <<pc, on>>
  BY JobEffect DEF JobInv, Attempting, Settled
<1>2. CASE UNCHANGED log
  BY <1>1, <1>2 DEF Authors, OneReplyPerTurn, NeverAnswersAnOlderTurn, UserTurns, Grows,
                    Posted
<1>3. CASE apc[r] = "prompted" /\ Post(on[r], "assistant", r, jquery[r])
  <2>1. ~Posted("assistant", r) /\ (jquery[r] # None => NoOlder(r, jquery[r]))
    BY <1>3 DEF JobInv, Attempting
  <2>2. OneReplyPerTurn' /\ NeverAnswersAnOlderTurn'
    BY <1>3, <2>1, ReplyKeepsOrder
  <2>3. Grows
    BY <1>3, Writes
  <2>4. \A p \in Requests \ {r} : Posted("assistant", p)' => Posted("assistant", p)
    BY <1>3, RepliesAreOwn
  <2>5. Settled(r)' /\ \A p \in Requests : Settled(p) => Settled(p)'
    BY <1>1 DEF Settled
  <2>6. Authors'
    BY <1>1, <1>3, <2>5, AuthorsKept
  <2> QED
    BY <2>2, <2>3, <2>4, <2>6
<1> QED
  BY <1>2, <1>3, JobEffect

-----------------------------------------------------------------------------
(* What a step leaves alone keeps what it has.                             *)
LEMMA SnapshotKept ==
  ASSUME TypeOK, OneRow, NEW r \in Requests, Snapshot(r),
         pc[r] # "idle", on'[r] = on[r], snap'[r] = snap[r]
  PROVE  /\ Snapshot(r)'
         /\ row'[on[r]].version >= row[on[r]].version
         /\ row[on[r]].version \in Nat /\ row'[on[r]].version \in Nat
         /\ snap[r].version \in Nat /\ snap[r].version <= row[on[r]].version
         /\ row[on[r]].state \in FSM!Terminal => row'[on[r]].state \in FSM!Terminal
<1>1. /\ on[r] \in Sessions /\ row[on[r]].state # FSM!NoSession
      /\ snap[r].version <= row[on[r]].version
      /\ snap[r].version = row[on[r]].version => snap[r].state = row[on[r]].state
  BY DEF Snapshot
<1>2. snap[r] \in Row /\ snap[r].version \in Nat
  BY DEF TypeOK, Row
<1>3. /\ row[on[r]].version \in Nat /\ row'[on[r]].version \in Nat
      /\ row'[on[r]].state # FSM!NoSession
      /\ row'[on[r]].version >= row[on[r]].version
      /\ row'[on[r]].version = row[on[r]].version => row'[on[r]].state = row[on[r]].state
      /\ row[on[r]].state \in FSM!Terminal => row'[on[r]].state \in FSM!Terminal
  BY <1>1, RowFacts
<1>4. Snapshot(r)'
  BY <1>1, <1>2, <1>3 DEF Snapshot
<1> QED
  BY <1>1, <1>2, <1>3, <1>4

LEMMA HandledKept ==
  ASSUME TypeOK, OneRow, Grows, NEW r \in Requests, Snapshot(r), Handled(r),
         pc[r] # "idle", on'[r] = on[r], snap'[r] = snap[r], how'[r] = how[r],
         jstate[r] # "none" => jstate'[r] # "none"
  PROVE  Handled(r)'
<1>1. /\ row'[on[r]].version >= row[on[r]].version
      /\ row[on[r]].version \in Nat /\ row'[on[r]].version \in Nat
      /\ snap[r].version \in Nat
  BY SnapshotKept
<1>2. Posted("assistant", r) => Posted("assistant", r)'
  BY GrowsFacts
<1> QED
  BY <1>1, <1>2 DEF Handled

LEMMA RequestKept ==
  ASSUME TypeOK, OneRow, Grows, NEW r \in Requests, Snapshot(r), Asking(r),
         pc'[r] = pc[r], on'[r] = on[r], snap'[r] = snap[r], query'[r] = query[r],
         how'[r] = how[r], jstate[r] # "none" => jstate'[r] # "none"
  PROVE  Snapshot(r)' /\ Asking(r)'
<1>1. CASE pc[r] = "idle"
  BY <1>1 DEF Snapshot, Asking
<1>2. CASE pc[r] # "idle"
  <2>1. Snapshot(r)'
    BY <1>2, SnapshotKept
  <2>2. Posted("user", r) => Posted("user", r)'
    BY GrowsFacts
  <2>3. NoOlder(r, query[r]) => NoOlder(r, query[r])'
    BY GrowsFacts
  <2>4. Handled(r) => Handled(r)'
    BY <1>2, HandledKept
  <2>5. Asking(r)'
    BY <2>2, <2>3, <2>4 DEF Asking
  <2> QED
    BY <2>1, <2>5
<1> QED
  BY <1>1, <1>2

LEMMA AttemptKept ==
  ASSUME TypeOK, OneRow, Grows, NEW r \in Requests, Snapshot(r), Attempting(r),
         pc'[r] = pc[r], on'[r] = on[r], snap'[r] = snap[r], jstate'[r] = jstate[r],
         apc'[r] = apc[r], jquery'[r] = jquery[r], live'[r] = live[r],
         Posted("assistant", r)' => Posted("assistant", r)
  PROVE  Attempting(r)'
<1>1. CASE jstate[r] = "none"
  BY <1>1 DEF Attempting
<1>2. CASE jstate[r] # "none"
  <2>1. pc[r] # "idle"
    BY <1>2 DEF Attempting
  <2>2. row[on[r]].state \in FSM!Terminal => row'[on[r]].state \in FSM!Terminal
    BY <2>1, SnapshotKept
  <2>3. /\ Posted("user", r) => Posted("user", r)'
        /\ Posted("assistant", r) => Posted("assistant", r)'
        /\ NoOlder(r, jquery[r]) => NoOlder(r, jquery[r])'
    BY GrowsFacts
  <2> QED
    BY <1>2, <2>2, <2>3 DEF Attempting
<1> QED
  BY <1>1, <1>2

-----------------------------------------------------------------------------
(* The three kinds of step keep the invariant.                             *)
LEMMA OthersKeep ==
  ASSUME IInv, OthersStep
  PROVE  IInv'
<1> USE DEF IInv
<1>1. UNCHANGED <<log, requestVars, jobVars>>
  BY DEF OthersStep, CreateSession, OtherTransition
<1>2. OneRow
  BY OthersMove
<1>3. Grows
  BY <1>1 DEF Grows
<1>4. TypeOK'
  BY <1>1, <1>2, RowTypes DEF TypeOK, Queue!RiverTypeOK, requestVars, jobVars
<1>5. Authors' /\ OneReplyPerTurn' /\ NeverAnswersAnOlderTurn'
  BY <1>1 DEF Authors, OneReplyPerTurn, NeverAnswersAnOlderTurn, UserTurns, requestVars
<1>6. RequestInv'
  BY <1>1, <1>2, <1>3, RequestKept DEF RequestInv, requestVars, jobVars
<1>7. \A r \in Requests : Posted("assistant", r)' => Posted("assistant", r)
  BY <1>1 DEF Posted
<1>8. JobInv'
  BY <1>1, <1>2, <1>3, <1>7, AttemptKept DEF RequestInv, JobInv, requestVars, jobVars
<1> QED
  BY <1>4, <1>5, <1>6, <1>8

(* The request that takes the step.                                        *)
LEMMA RequestSnapshots ==
  ASSUME IInv, NEW r \in Requests, RequestStep(r)
  PROVE  Snapshot(r)'
<1> USE DEF IInv
<1>1. OneRow /\ (pc[r] # "idle" => on'[r] = on[r] /\ snap'[r] = snap[r])
  BY RequestEffect
<1>2. CASE pc[r] # "idle"
  BY <1>1, <1>2, SnapshotKept DEF RequestInv
<1>3. CASE pc[r] = "idle"
  <2>1. PICK s \in Sessions : Run(r, s)
    BY <1>3 DEF RequestStep, Handle, SaveUserMessage, LoadHistory, SaveReply,
                DecideEscalation, Escalate, EscalationRejected, Enqueue, Fail, Pending,
                FailAfterWrite
  <2>2. /\ on'[r] = s /\ snap'[r] = row[s] /\ UNCHANGED row
        /\ row[s].state # FSM!NoSession
    BY <2>1 DEF Run, TypeOK
  <2>3. row[s].version \in Nat
    BY DEF TypeOK, Row
  <2> QED
    BY <2>2, <2>3 DEF Snapshot
<1> QED
  BY <1>2, <1>3

LEMMA RequestAsks ==
  ASSUME IInv, NEW r \in Requests, RequestStep(r)
  PROVE  Asking(r)'
<1> USE DEF IInv
<1>0. /\ Snapshot(r) /\ Asking(r) /\ OneRow /\ Grows
      /\ pc[r] # "idle" => on'[r] = on[r] /\ snap'[r] = snap[r]
      /\ DOMAIN pc = Requests /\ DOMAIN how = Requests /\ DOMAIN query = Requests
  BY RequestEffect, RequestLog DEF RequestInv, TypeOK
<1>1. Posted("user", r) => Posted("user", r)'
  BY <1>0, GrowsFacts
<1>2. ASSUME NEW s \in Sessions, Run(r, s) PROVE Asking(r)'
  BY <1>0, <1>2 DEF Run, Asking
<1>3. ASSUME NEW role, NEW q, Post(on[r], role, r, q) PROVE Posted(role, r)'
  <2>1. log \in Seq(Message)
    BY DEF TypeOK
  <2>2. /\ Len(log) + 1 \in DOMAIN log'
        /\ log'[Len(log) + 1] = [session |-> on[r], role |-> role, by |-> r, query |-> q]
    BY <1>3, <2>1 DEF Post
  <2> QED
    BY <2>2 DEF Posted
<1>4. CASE SaveUserMessage(r)
  BY <1>0, <1>3, <1>4 DEF SaveUserMessage, Asking
<1>5. CASE LoadHistory(r)
  <2>1. Posted("user", r)
    BY <1>0, <1>5 DEF LoadHistory, Asking
  <2>2. NoOlder(r, LastUser(on[r]))
    BY <2>1, HistoryIsNoOlder
  <2>3. pc'[r] = "prompted" /\ query'[r] = LastUser(on[r]) /\ UNCHANGED <<log, on>>
    BY <1>0, <1>5 DEF LoadHistory
  <2>4. NoOlder(r, query[r])'
    BY <2>2, <2>3 DEF NoOlder, UserTurns
  <2> QED
    BY <1>1, <2>1, <2>3, <2>4 DEF Asking
<1>6. CASE SaveReply(r)
  <2>1. Posted("user", r)' /\ Posted("assistant", r)'
    BY <1>0, <1>1, <1>3, <1>6 DEF SaveReply, Asking
  <2> QED
    BY <1>0, <1>6, <2>1 DEF SaveReply, Asking, Handled
<1>7. CASE DecideEscalation(r)
  BY <1>0, <1>1, <1>7 DEF DecideEscalation, Asking
<1>8. CASE Escalate(r)
  <2>1. row'[on[r]].version > snap[r].version
    BY <1>8, EscalationMoves DEF Escalate
  <2>2. Handled(r)'
    BY <1>0, <1>8, <2>1 DEF Escalate, Handled
  <2> QED
    BY <1>0, <1>1, <1>8, <2>2 DEF Escalate, Asking
<1>9. CASE Enqueue(r)
  <2>1. jstate'[r] = "available"
    BY <1>9 DEF Enqueue, Queue!Insert, TypeOK, Queue!RiverTypeOK
  <2> QED
    BY <1>0, <1>1, <1>9, <2>1 DEF Enqueue, Asking, Handled
<1>10. CASE EscalationRejected(r) \/ Fail(r) \/ FailAfterWrite(r)
  BY <1>0, <1>10 DEF EscalationRejected, Fail, FailAfterWrite, Asking
<1>11. CASE \E s \in Sessions : Run(r, s)
  BY <1>2, <1>11
<1> QED
  BY <1>4, <1>5, <1>6, <1>7, <1>8, <1>9, <1>10, <1>11 DEF RequestStep, Handle

LEMMA RequestKeeps ==
  ASSUME IInv, NEW r \in Requests, RequestStep(r)
  PROVE  IInv'
<1>1. TypeOK'
  BY RequestTypes DEF IInv
<1>2. /\ Authors' /\ OneReplyPerTurn' /\ NeverAnswersAnOlderTurn' /\ Grows
      /\ \A p \in Requests \ {r} : Posted("assistant", p)' => Posted("assistant", p)
  BY RequestLog
<1>3. /\ OneRow
      /\ \A q \in Requests \ {r} :
           /\ pc'[q] = pc[q] /\ on'[q] = on[q] /\ snap'[q] = snap[q]
           /\ query'[q] = query[q] /\ how'[q] = how[q] /\ jstate'[q] = jstate[q]
      /\ UNCHANGED <<apc, jquery, live>> /\ ~Settled(r)
      /\ \/ jstate'[r] = jstate[r]
         \/ /\ pc[r] = "saved" /\ Settled(r)'
            /\ jstate[r] = "none" /\ jstate'[r] = "available"
  BY RequestEffect DEF IInv
<1>4. RequestInv'
  <2>1. ASSUME NEW q \in Requests \ {r} PROVE Snapshot(q)' /\ Asking(q)'
    BY <1>2, <1>3, RequestKept DEF IInv, RequestInv
  <2> QED
    BY <2>1, RequestSnapshots, RequestAsks DEF RequestInv
<1>5. JobInv'
  <2>1. ASSUME NEW q \in Requests \ {r} PROVE Attempting(q)'
    BY <1>2, <1>3, AttemptKept DEF IInv, RequestInv, JobInv
  <2>2. Attempting(r)'
    <3>1. jstate[r] = "none" /\ apc[r] = "idle"
      BY <1>3 DEF IInv, JobInv, Attempting, Settled
    <3>2. pc[r] = "saved" => Posted("user", r)'
      BY <1>2, GrowsFacts DEF IInv, RequestInv, Asking
    <3>3. CASE jstate'[r] = "none"
      BY <1>3, <3>1, <3>3 DEF Attempting
    <3>4. CASE jstate'[r] # "none"
      <4>1. pc[r] = "saved" /\ Settled(r)' /\ jstate'[r] = "available"
        BY <1>3, <3>1, <3>4
      <4> QED
        BY <1>3, <3>1, <3>2, <4>1 DEF Attempting, Settled
    <3> QED
      BY <3>3, <3>4
  <2> QED
    BY <2>1, <2>2 DEF JobInv
<1> QED
  BY <1>1, <1>2, <1>4, <1>5 DEF IInv

(* The attempt that takes the step.                                        *)
LEMMA JobAttempts ==
  ASSUME IInv, NEW r \in Requests, Job(r)
  PROVE  Attempting(r)'
<1> USE DEF IInv
<1>0. /\ Attempting(r) /\ Snapshot(r) /\ Grows
      /\ UNCHANGED <<row, pc, on, snap>>
      /\ jstate[r] # "none" /\ pc[r] \in {"done", "failed"}
      /\ DOMAIN apc = Requests /\ DOMAIN jstate = Requests /\ DOMAIN live = Requests
      /\ DOMAIN jquery = Requests /\ Posted("user", r)
  BY JobEffect, JobLog DEF JobInv, RequestInv, Attempting, TypeOK, Queue!RiverTypeOK
<1>1. /\ Posted("user", r)'
      /\ Posted("assistant", r) => Posted("assistant", r)'
  BY <1>0, GrowsFacts
<1>2. UNCHANGED log => (Posted("assistant", r)' <=> Posted("assistant", r))
  BY DEF Posted
<1>3. row[on[r]].state \in FSM!State
  BY <1>0 DEF Snapshot, TypeOK, Row
<1>4. ASSUME Post(on[r], "assistant", r, jquery[r]) PROVE Posted("assistant", r)'
  <2>1. log \in Seq(Message)
    BY DEF TypeOK
  <2>2. /\ Len(log) + 1 \in DOMAIN log'
        /\ log'[Len(log) + 1].role = "assistant" /\ log'[Len(log) + 1].by = r
    BY <1>4, <2>1 DEF Post
  <2> QED
    BY <2>2 DEF Posted
<1>5. CASE StartAttempt(r)
  <2>1. apc'[r] = "check" /\ jstate'[r] = "running" /\ UNCHANGED log
    BY <1>0, <1>5 DEF StartAttempt, Queue!Start
  <2>2. ~live'[r] => row[on[r]].state \in FSM!Terminal
    BY <1>0, <1>3, <1>5, StatesExist DEF StartAttempt
  <2> QED
    BY <1>0, <1>1, <2>1, <2>2 DEF Attempting
<1>6. CASE CheckJob(r)
  BY <1>0, <1>1, <1>2, <1>6 DEF CheckJob, At, Attempting
<1>7. CASE GuardSession(r)
  BY <1>0, <1>1, <1>2, <1>7 DEF GuardSession, At, Attempting
<1>8. CASE LoadJobHistory(r)
  <2>1. /\ apc[r] = "history" /\ apc'[r] = "prompted" /\ jstate[r] = "running"
        /\ UNCHANGED <<log, jstate, live>>
        /\ jquery'[r] \in {LastUser(on[r]), None}
    BY <1>0, <1>8 DEF LoadJobHistory, At, LastUserInBudget
  <2>2. NoOlder(r, LastUser(on[r]))
    BY <1>0, HistoryIsNoOlder
  <2>3. jquery'[r] # None => NoOlder(r, jquery[r])'
    BY <1>0, <2>1, <2>2 DEF NoOlder, UserTurns
  <2> QED
    BY <1>0, <1>1, <1>2, <2>1, <2>3 DEF Attempting
<1>9. CASE SaveJobReply(r)
  <2>1. /\ jstate[r] = "running" /\ apc[r] = "prompted" /\ apc'[r] = "nil"
        /\ UNCHANGED <<jstate, live>>
    BY <1>0, <1>9 DEF SaveJobReply, At
  <2>2. Posted("assistant", r)'
    BY <1>4, <1>9 DEF SaveJobReply
  <2> QED
    BY <1>0, <1>1, <2>1, <2>2 DEF Attempting
<1>10. CASE CompleteJob(r)
  BY <1>0, <1>1, <1>10 DEF CompleteJob, At, Queue!Complete, Attempting
<1>11. CASE AttemptFails(r) \/ ReplyStoredAttemptFails(r)
  <2>1. apc'[r] = "idle" /\ jstate'[r] \in {"available", "discarded"}
    BY <1>0, <1>11 DEF AttemptFails, ReplyStoredAttemptFails, Queue!Retry
  <2> QED
    BY <1>0, <1>1, <2>1 DEF Attempting
<1> QED
  BY <1>5, <1>6, <1>7, <1>8, <1>9, <1>10, <1>11 DEF Job

LEMMA JobKeeps ==
  ASSUME IInv, NEW r \in Requests, Job(r)
  PROVE  IInv'
<1>1. TypeOK'
  BY JobTypes DEF IInv
<1>2. /\ Authors' /\ OneReplyPerTurn' /\ NeverAnswersAnOlderTurn' /\ Grows
      /\ \A p \in Requests \ {r} : Posted("assistant", p)' => Posted("assistant", p)
  BY JobLog
<1>3. /\ UNCHANGED <<row, pc, on, snap, query, how>>
      /\ \A q \in Requests \ {r} :
           /\ jstate'[q] = jstate[q] /\ apc'[q] = apc[q]
           /\ jquery'[q] = jquery[q] /\ live'[q] = live[q]
      /\ jstate'[r] # "none"
  BY JobEffect DEF IInv
<1>4. OneRow /\ \A q \in Requests : jstate[q] # "none" => jstate'[q] # "none"
  BY <1>3 DEF OneRow
<1>5. RequestInv'
  BY <1>2, <1>3, <1>4, RequestKept DEF IInv, RequestInv
<1>6. ASSUME NEW q \in Requests \ {r} PROVE Attempting(q)'
  BY <1>2, <1>3, <1>4, AttemptKept DEF IInv, RequestInv, JobInv
<1>7. JobInv'
  BY <1>6, JobAttempts DEF JobInv
<1> QED
  BY <1>1, <1>2, <1>5, <1>7 DEF IInv

LEMMA NextInv ==
  ASSUME IInv, [AnyStep]_vars
  PROVE  IInv'
<1>1. CASE UNCHANGED vars
  BY <1>1 DEF vars, requestVars, jobVars, IInv, TypeOK, Queue!RiverTypeOK, Authors,
              OneReplyPerTurn, NeverAnswersAnOlderTurn, UserTurns, RequestInv, JobInv,
              Snapshot, Asking, Attempting, Handled, NoOlder, Posted
<1> QED
  BY <1>1, OthersKeep, RequestKeeps, JobKeeps DEF AnyStep

LEMMA Invariance == AnySpec => []IInv
  BY InitInv, NextInv, PTL DEF AnySpec

-----------------------------------------------------------------------------
(* Every variable keeps its type.                                          *)
THEOREM TypesAreKept == Spec => []TypeOK
<1>1. IInv => TypeOK
  BY DEF IInv
<1> QED
  BY <1>1, ConversationIsAny, Invariance, PTL

(* However often a job is retried, and whatever was stored although the    *)
(* call that stored it failed, a turn gets at most one reply.              *)
THEOREM RepliesAreNotRepeated == Spec => []OneReplyPerTurn
<1>1. IInv => OneReplyPerTurn
  BY DEF IInv
<1> QED
  BY <1>1, ConversationIsAny, Invariance, PTL

(* Overlapping runs and jobs of a session may answer a later turn than     *)
(* their own, but no older one.                                            *)
THEOREM RepliesAreForNoOlderTurn == Spec => []NeverAnswersAnOlderTurn
<1>1. IInv => NeverAnswersAnOlderTurn
  BY DEF IInv
<1> QED
  BY <1>1, ConversationIsAny, Invariance, PTL

(* A completed job has left its reply, unless its session was over.        *)
THEOREM CompletedIsAnswered == Spec => []CompletedMeansAnswered
<1>1. IInv => CompletedMeansAnswered
  BY DEF IInv, JobInv, Attempting, CompletedMeansAnswered
<1> QED
  BY <1>1, ConversationIsAny, Invariance, PTL

LEMMA SilentAlways == AnySpec => NoJobReplyToDeadSession
<1> DEFINE Silent ==
      \A r \in Requests :
         jstate[r] = "running" /\ log' # log /\ log'[Len(log')].by = r
           /\ log'[Len(log')].role = "assistant"
         => live[r]
<1>1. ASSUME IInv, [AnyStep]_vars PROVE [Silent]_vars
  <2> SUFFICES ASSUME NEW r \in Requests, jstate[r] = "running", log' # log,
                      log'[Len(log')].by = r, log'[Len(log')].role = "assistant"
               PROVE  live[r]
    OBVIOUS
  <2>1. log \in Seq(Message) /\ Attempting(r) /\ Settled(r) /\ live[r] \in BOOLEAN
    BY <1>1 DEF IInv, TypeOK, JobInv, Attempting, Settled
  <2>2. ASSUME NEW q \in Requests, NEW role, NEW p, Post(on[q], role, q, p)
        PROVE  q = r /\ role = "assistant"
    <3>1. log'[Len(log')] = [session |-> on[q], role |-> role, by |-> q, query |-> p]
      BY <2>1, <2>2 DEF Post
    <3> QED
      BY <3>1
  <2>3. CASE OthersStep \/ UNCHANGED vars
    BY <2>3 DEF OthersStep, CreateSession, OtherTransition, vars
  <2>4. ASSUME NEW q \in Requests, RequestStep(q) PROVE FALSE
    <3>1. ~Settled(q)
      BY <1>1, <2>4, RequestEffect DEF IInv
    <3>2. q = r
      BY <1>1, <2>2, <2>4, RequestEffect DEF IInv
    <3> QED
      BY <2>1, <3>1, <3>2
  <2>5. ASSUME NEW q \in Requests, Job(q) PROVE live[r]
    <3>1. apc[q] = "prompted" /\ Post(on[q], "assistant", q, jquery[q])
      BY <1>1, <2>5, JobEffect DEF IInv
    <3>2. q = r
      BY <2>2, <3>1
    <3> QED
      BY <2>1, <3>1, <3>2 DEF Attempting
  <2> QED
    BY <1>1, <2>3, <2>4, <2>5 DEF AnyStep
<1> QED
  BY <1>1, Invariance, PTL DEF AnySpec, NoJobReplyToDeadSession

(* A job that starts on a session which is over adds nothing to it.        *)
THEOREM DeadSessionsStaySilent == Spec => NoJobReplyToDeadSession
  BY ConversationIsAny, SilentAlways

LEMMA FSMAlways == AnySpec => ImplementsFSM
<1> DEFINE abs == [s \in Sessions |-> row[s].state]
<1>1. Init => FSM!Init
  BY DEF Init, FSM!Init, Unborn
<1>2. ASSUME IInv, [AnyStep]_vars PROVE [FSM!Next]_abs
  <2>1. OneRow
    <3>1. ASSUME NEW r \in Requests, RequestStep(r) PROVE OneRow
      BY <1>2, <3>1, RequestEffect DEF IInv
    <3>2. ASSUME NEW r \in Requests, Job(r) PROVE OneRow
      BY <1>2, <3>2, JobEffect DEF IInv, OneRow
    <3>3. CASE OthersStep
      BY <1>2, <3>3, OthersMove DEF IInv
    <3>4. CASE UNCHANGED vars
      BY <3>4 DEF vars, OneRow
    <3> QED
      BY <1>2, <3>1, <3>2, <3>3, <3>4 DEF AnyStep
  <2>2. CASE UNCHANGED row
    BY <2>2
  <2>3. ASSUME NEW s \in Sessions, NEW x \in Row, row' = [row EXCEPT ![s] = x],
               Created(s, x) \/ Moved(s, x)
        PROVE  FSM!Next
    <3>1. abs' = [abs EXCEPT ![s] = x.state] /\ abs[s] = row[s].state
      BY <1>2, <2>3 DEF IInv, TypeOK
    <3>2. CASE Created(s, x)
      <4>1. FSM!Begin(s)
        BY <3>1, <3>2 DEF Created, FSM!Begin
      <4> QED
        BY <4>1 DEF FSM!Next
    <3>3. CASE Moved(s, x)
      <4>1. x.state \in FSM!State
        BY <3>3, StatesExist DEF Moved
      <4>2. FSM!Move(s, x.state)
        BY <3>1, <3>3 DEF Moved, FSM!Move
      <4> QED
        BY <4>1, <4>2 DEF FSM!Next
    <3> QED
      BY <2>3, <3>2, <3>3
  <2> QED
    BY <2>1, <2>2, <2>3 DEF OneRow
<1> QED
  BY <1>1, <1>2, Invariance, PTL DEF AnySpec, ImplementsFSM, FSM!Spec

(* The handlers, the jobs and everyone else together implement the         *)
(* abstract FSM of a session.                                              *)
THEOREM ConversationImplementsFSM == Spec => ImplementsFSM
  BY ConversationIsAny, FSMAlways

-----------------------------------------------------------------------------
(* What the promise of a turn (UserTurn) sees of a step: nothing, or one   *)
(* of its actions.                                                         *)
SameAcceptance(r) == Accepted(r)' <=> Accepted(r)

TurnKept(r) ==
    /\ Posted("user", r)' <=> Posted("user", r)
    /\ RepliesTo(r)' = RepliesTo(r) /\ InCharge(r)' = InCharge(r)
    /\ SameAcceptance(r)

TurnStored(r) ==
    /\ Posted("user", r)'
    /\ RepliesTo(r)' = RepliesTo(r) /\ InCharge(r)' = InCharge(r)
    /\ SameAcceptance(r)

TurnReplied(r) ==
    /\ Posted("user", r) /\ Posted("user", r)'
    /\ RepliesTo(r) = 0 /\ RepliesTo(r)' = 1
    /\ \/ /\ InCharge(r) = "request" /\ InCharge(r)' = "request"
          /\ Accepted(r) => Accepted(r)'
       \/ /\ InCharge(r) = "job" /\ InCharge(r)' \in {"job", "nobody"}
          /\ SameAcceptance(r)

TurnHanded(r) ==
    /\ Posted("user", r) /\ Posted("user", r)'
    /\ RepliesTo(r) = 0 /\ RepliesTo(r)' = 0
    /\ InCharge(r) = "request" /\ InCharge(r)' \in {"job", "human"}
    /\ Accepted(r) => Accepted(r)'

TurnEnded(r) ==
    /\ Posted("user", r)' <=> Posted("user", r)
    /\ RepliesTo(r)' = RepliesTo(r)
    /\ InCharge(r) = "job" /\ InCharge(r)' = "nobody"
    /\ SameAcceptance(r)

TurnStep(r) ==
    /\ \A p \in Requests \ {r} : TurnKept(p)
    /\ \/ TurnKept(r) \/ TurnStored(r) \/ TurnReplied(r)
       \/ TurnHanded(r) \/ TurnEnded(r)

(* A step that looks so at every turn is a step of the promise.            *)
LEMMA TurnStepIsPromised ==
  ASSUME NEW r \in Requests, TurnStep(r)
  PROVE  [Promise!Next]_(Promise!turnVars)
<1> DEFINE S == { q \in Requests : Posted("user", q) }
           R == [q \in Requests |-> RepliesTo(q)]
           C == [q \in Requests |-> InCharge(q)]
           A == { q \in Requests : Accepted(q) }
<1>1. \A p \in Requests \ {r} :
        /\ Posted("user", p)' <=> Posted("user", p)
        /\ RepliesTo(p)' = RepliesTo(p) /\ InCharge(p)' = InCharge(p)
        /\ Accepted(p)' <=> Accepted(p)
  BY DEF TurnStep, TurnKept, SameAcceptance
<1>2. /\ (Posted("user", r)' <=> Posted("user", r)) => S' = S
      /\ Posted("user", r)' => S' = S \cup {r}
  BY <1>1
<1>3. /\ R' = [R EXCEPT ![r] = RepliesTo(r)'] /\ R[r] = RepliesTo(r)
      /\ RepliesTo(r)' = RepliesTo(r) => R' = R
  BY <1>1
<1>4. /\ C' = [C EXCEPT ![r] = InCharge(r)'] /\ C[r] = InCharge(r)
      /\ InCharge(r)' = InCharge(r) => C' = C
  BY <1>1
<1>5. /\ (Accepted(r)' <=> Accepted(r)) => A' = A
      /\ (Accepted(r) => Accepted(r)') => A' = A \/ A' = A \cup {r}
  BY <1>1
<1>6. CASE TurnKept(r)
  BY <1>2, <1>3, <1>4, <1>5, <1>6 DEF TurnKept, SameAcceptance, Promise!turnVars
<1>7. CASE TurnStored(r)
  <2>1. CASE Posted("user", r)
    BY <1>7, <1>6, <2>1 DEF TurnStored, TurnKept
  <2>2. CASE ~Posted("user", r)
    <3>1. Promise!Store(r)
      BY <1>2, <1>3, <1>4, <1>5, <1>7, <2>2 DEF TurnStored, SameAcceptance, Promise!Store
    <3> QED
      BY <3>1 DEF Promise!Next
  <2> QED
    BY <2>1, <2>2
<1>8. CASE TurnReplied(r)
  <2>1. r \in S /\ S' = S /\ R[r] = 0 /\ R' = [R EXCEPT ![r] = 1]
    BY <1>2, <1>3, <1>8 DEF TurnReplied
  <2>2. \/ C[r] = "request" /\ C' = C /\ (A' = A \/ A' = A \cup {r})
        \/ C[r] = "job" /\ C' \in {C, [C EXCEPT ![r] = "nobody"]} /\ A' = A
    BY <1>4, <1>5, <1>8 DEF TurnReplied, SameAcceptance
  <2>3. Promise!Reply(r)
    BY <2>1, <2>2 DEF Promise!Reply, Promise!MayAccept, Promise!MayGiveUp
  <2> QED
    BY <2>3 DEF Promise!Next
<1>9. CASE TurnHanded(r)
  <2>1. r \in S /\ S' = S /\ R[r] = 0 /\ R' = R
    BY <1>2, <1>3, <1>9 DEF TurnHanded
  <2>2. /\ C[r] = "request" /\ (A' = A \/ A' = A \cup {r})
        /\ \E to \in {"job", "human"} : C' = [C EXCEPT ![r] = to]
    BY <1>4, <1>5, <1>9 DEF TurnHanded
  <2>3. Promise!HandOver(r)
    BY <2>1, <2>2 DEF Promise!HandOver, Promise!MayAccept
  <2> QED
    BY <2>3 DEF Promise!Next
<1>10. CASE TurnEnded(r)
  <2>1. S' = S /\ R' = R /\ A' = A /\ C[r] = "job" /\ C' = [C EXCEPT ![r] = "nobody"]
    BY <1>2, <1>3, <1>4, <1>5, <1>10 DEF TurnEnded, SameAcceptance
  <2>2. Promise!End(r)
    BY <2>1 DEF Promise!End
  <2> QED
    BY <2>2 DEF Promise!Next
<1> QED
  BY <1>6, <1>7, <1>8, <1>9, <1>10 DEF TurnStep

-----------------------------------------------------------------------------
(* How many replies there are.                                             *)
LEMMA NoReplyYet ==
  ASSUME NEW r, ~Posted("assistant", r)
  PROVE  RepliesTo(r) = 0
<1>1. { i \in DOMAIN log : log[i].role = "assistant" /\ log[i].by = r } = {}
  BY DEF Posted
<1> QED
  BY <1>1, FS_EmptySet DEF RepliesTo

LEMMA QuietCounts ==
  ASSUME UNCHANGED log
  PROVE  \A p : (Posted("user", p)' <=> Posted("user", p)) /\ RepliesTo(p)' = RepliesTo(p)
  BY DEF Posted, RepliesTo

LEMMA TurnCounts ==
  ASSUME TypeOK, NEW r \in Requests, Post(on[r], "user", r, r)
  PROVE  /\ \A p : RepliesTo(p)' = RepliesTo(p)
         /\ \A p : Posted("user", p)' <=> Posted("user", p) \/ p = r
<1>0. log \in Seq(Message)
  BY DEF TypeOK
<1>1. /\ DOMAIN log' = DOMAIN log \cup {Len(log) + 1} /\ Len(log) + 1 \notin DOMAIN log
      /\ \A i \in DOMAIN log : log'[i] = log[i]
      /\ log'[Len(log) + 1] = [session |-> on[r], role |-> "user", by |-> r, query |-> r]
  BY <1>0 DEF Post
<1>2. ASSUME NEW p PROVE RepliesTo(p)' = RepliesTo(p)
  <2>1. { i \in DOMAIN log' : log'[i].role = "assistant" /\ log'[i].by = p }
          = { i \in DOMAIN log : log[i].role = "assistant" /\ log[i].by = p }
    BY <1>1
  <2> QED
    BY <2>1 DEF RepliesTo
<1>3. ASSUME NEW p PROVE Posted("user", p)' <=> Posted("user", p) \/ p = r
  BY <1>1 DEF Posted
<1> QED
  BY <1>2, <1>3

LEMMA ReplyCounts ==
  ASSUME TypeOK, NEW r \in Requests, NEW q, Post(on[r], "assistant", r, q),
         ~Posted("assistant", r)
  PROVE  /\ RepliesTo(r) = 0 /\ RepliesTo(r)' = 1
         /\ \A p : p # r => RepliesTo(p)' = RepliesTo(p)
         /\ \A p : Posted("user", p)' <=> Posted("user", p)
<1>0. log \in Seq(Message)
  BY DEF TypeOK
<1>1. /\ DOMAIN log' = DOMAIN log \cup {Len(log) + 1} /\ Len(log) + 1 \notin DOMAIN log
      /\ \A i \in DOMAIN log : log'[i] = log[i]
      /\ log'[Len(log) + 1] = [session |-> on[r], role |-> "assistant", by |-> r, query |-> q]
  BY <1>0 DEF Post
<1>2. RepliesTo(r)' = 1
  <2>1. { i \in DOMAIN log' : log'[i].role = "assistant" /\ log'[i].by = r }
          = {Len(log) + 1}
    BY <1>1 DEF Posted
  <2> QED
    BY <2>1, FS_Singleton DEF RepliesTo
<1>3. ASSUME NEW p, p # r PROVE RepliesTo(p)' = RepliesTo(p)
  <2>1. { i \in DOMAIN log' : log'[i].role = "assistant" /\ log'[i].by = p }
          = { i \in DOMAIN log : log[i].role = "assistant" /\ log[i].by = p }
    BY <1>1, <1>3
  <2> QED
    BY <2>1 DEF RepliesTo
<1>4. ASSUME NEW p PROVE Posted("user", p)' <=> Posted("user", p)
  BY <1>1 DEF Posted
<1> QED
  BY <1>2, <1>3, <1>4, NoReplyYet

-----------------------------------------------------------------------------
(* How a request was settled is written when Run returns nil.              *)
Deciding == \A r \in Requests : pc[r] # "done" => how[r] = "open"

LEMMA DecidingAlways == AnySpec => []Deciding
<1>1. Init => Deciding
  BY DEF Init, Deciding
<1>2. ASSUME IInv, Deciding, [AnyStep]_vars PROVE Deciding'
  <2>0. /\ pc \in [Requests -> {"idle", "loaded", "saved", "prompted", "escalate",
                                "done", "failed"}]
        /\ DOMAIN how = Requests
    BY <1>2 DEF IInv, TypeOK
  <2>1. CASE OthersStep \/ UNCHANGED vars
    BY <1>2, <2>1 DEF OthersStep, CreateSession, OtherTransition, requestVars, vars, Deciding
  <2>2. ASSUME NEW r \in Requests, RequestStep(r) PROVE Deciding'
    <3>1. /\ \A q \in Requests \ {r} : pc'[q] = pc[q] /\ how'[q] = how[q]
          /\ how[r] = "open"
      BY <1>2, <2>2, RequestEffect DEF IInv, Deciding, Settled
    <3>2. pc'[r] = "done" \/ how' = how
      BY <2>0, <2>2 DEF RequestStep, Run, Handle, SaveUserMessage, LoadHistory, SaveReply,
            DecideEscalation, Escalate, EscalationRejected, Enqueue, Fail, FailAfterWrite
    <3> QED
      BY <1>2, <3>1, <3>2 DEF Deciding
  <2>3. ASSUME NEW r \in Requests, Job(r) PROVE Deciding'
    BY <1>2, <2>3, JobEffect DEF IInv, Deciding
  <2> QED
    BY <1>2, <2>1, <2>2, <2>3 DEF AnyStep
<1> QED
  BY <1>1, <1>2, Invariance, PTL DEF AnySpec

(* Who has escalated holds a copy from before that, and nobody else who    *)
(* has holds the same one: a second transition from it is rejected.        *)
Escalations ==
    \A r \in Requests : how[r] = "escalated" =>
        /\ pc[r] = "done"
        /\ snap[r].version < row[on[r]].version
        /\ \A q \in Requests \ {r} :
             on[q] = on[r] /\ how[q] = "escalated" => snap[q].version # snap[r].version

LEMMA EscalationsAlways == AnySpec => []Escalations
<1>1. Init => Escalations
  BY DEF Init, Escalations
<1>2. ASSUME IInv, Deciding, Escalations, [AnyStep]_vars PROVE Escalations'
  <2>0. /\ pc \in [Requests -> {"idle", "loaded", "saved", "prompted", "escalate",
                                "done", "failed"}]
        /\ DOMAIN how = Requests /\ TypeOK /\ \A q \in Requests : Snapshot(q)
    BY <1>2 DEF IInv, TypeOK, RequestInv
  (* The versions of those who have escalated already only grow.           *)
  <2>1. ASSUME OneRow, NEW q \in Requests, how[q] = "escalated",
               on'[q] = on[q], snap'[q] = snap[q]
        PROVE  /\ pc[q] = "done" /\ snap[q].version \in Nat
               /\ snap[q].version < row[on[q]].version
               /\ snap'[q].version < row'[on'[q]].version
    <3>1. pc[q] = "done" /\ snap[q].version < row[on[q]].version
      BY <1>2, <2>1 DEF Escalations
    <3>2. /\ row'[on[q]].version >= row[on[q]].version
          /\ row[on[q]].version \in Nat /\ row'[on[q]].version \in Nat
          /\ snap[q].version \in Nat
      BY <2>0, <2>1, <3>1, SnapshotKept
    <3> QED
      BY <2>1, <3>1, <3>2
  <2>2. ASSUME OneRow, UNCHANGED <<pc, on, snap, how>> PROVE Escalations'
    BY <1>2, <2>1, <2>2 DEF Escalations
  <2>3. CASE OthersStep
    <3>1. OneRow
      BY <1>2, <2>3, OthersMove DEF IInv
    <3> QED
      BY <2>2, <2>3, <3>1 DEF OthersStep, CreateSession, OtherTransition, requestVars
  <2>4. CASE UNCHANGED vars
    BY <2>2, <2>4 DEF vars, requestVars, OneRow
  <2>5. ASSUME NEW r \in Requests, Job(r) PROVE Escalations'
    BY <1>2, <2>2, <2>5, JobEffect DEF IInv, OneRow
  <2>6. ASSUME NEW r \in Requests, RequestStep(r) PROVE Escalations'
    <3>1. /\ \A q \in Requests \ {r} : /\ pc'[q] = pc[q] /\ on'[q] = on[q]
                                       /\ snap'[q] = snap[q] /\ how'[q] = how[q]
          /\ how[r] = "open" /\ OneRow
          /\ pc[r] # "idle" => on'[r] = on[r] /\ snap'[r] = snap[r]
      BY <1>2, <2>6, RequestEffect DEF IInv, Deciding, Settled
    <3>2. how'[r] = "escalated" => Escalate(r)
      BY <2>0, <2>6, <3>1 DEF RequestStep, Run, Handle, SaveUserMessage, LoadHistory,
            SaveReply, DecideEscalation, EscalationRejected, Enqueue, Fail, FailAfterWrite
    <3>3. \A q \in Requests \ {r} : how[q] = "escalated" =>
             /\ pc[q] = "done" /\ snap[q].version \in Nat
             /\ snap[q].version < row[on[q]].version
             /\ snap'[q].version < row'[on'[q]].version
      BY <2>1, <3>1
    <3>4. CASE how'[r] # "escalated"
      BY <1>2, <3>1, <3>3, <3>4 DEF Escalations
    <3>5. CASE how'[r] = "escalated"
      <4>1. /\ pc[r] = "escalate" /\ pc'[r] = "done" /\ on'[r] = on[r] /\ snap'[r] = snap[r]
            /\ row[on[r]].version = snap[r].version
            /\ row' = [row EXCEPT ![on[r]].state = "WaitingForHuman",
                                  ![on[r]].version = @ + 1]
        BY <2>0, <3>1, <3>2, <3>5 DEF Escalate, StoreEscalation, CanEscalate
      <4>2. snap'[r].version < row'[on'[r]].version
        <5>1. on[r] \in Sessions
          BY <2>0, <4>1 DEF Snapshot
        <5>2. row[on[r]] \in Row /\ row[on[r]].version \in Nat /\ DOMAIN row = Sessions
          BY <2>0, <5>1 DEF TypeOK, Row
        <5>3. row'[on[r]].version = row[on[r]].version + 1
          BY <4>1, <5>1, <5>2 DEF Row
        <5> QED
          BY <4>1, <5>2, <5>3
      <4>3. ASSUME NEW q \in Requests \ {r}, on[q] = on[r], how[q] = "escalated"
            PROVE  snap[q].version # snap[r].version
        <5>1. snap[q].version \in Nat /\ snap[q].version < row[on[r]].version
          BY <3>3, <4>3
        <5> QED
          BY <4>1, <5>1
      <4>4. \A q \in Requests \ {r} : on'[q] = on'[r] /\ how'[q] = "escalated"
              => snap'[q].version # snap'[r].version
        BY <3>1, <4>1, <4>3
      <4>5. ASSUME NEW q \in Requests \ {r}, how'[q] = "escalated"
            PROVE  /\ pc'[q] = "done" /\ snap'[q].version < row'[on'[q]].version
                   /\ \A p \in Requests \ {q} : on'[p] = on'[q] /\ how'[p] = "escalated"
                         => snap'[p].version # snap'[q].version
        <5>1. how[q] = "escalated" /\ pc'[q] = "done"
              /\ snap'[q].version < row'[on'[q]].version
          BY <3>1, <3>3, <4>5
        <5>2. ASSUME NEW p \in Requests \ {q}, on'[p] = on'[q], how'[p] = "escalated"
              PROVE  snap'[p].version # snap'[q].version
          <6>1. CASE p = r
            BY <6>1, <4>4, <4>5, <5>2
          <6>2. CASE p # r
            <7>1. on[p] = on[q] /\ how[p] = "escalated"
              BY <3>1, <5>2, <6>2
            <7>2. snap[p].version # snap[q].version
              BY <1>2, <5>1, <7>1 DEF Escalations
            <7> QED
              BY <3>1, <6>2, <7>2
          <6> QED
            BY <6>1, <6>2
        <5> QED
          BY <5>1, <5>2
      <4> QED
        BY <4>1, <4>2, <4>4, <4>5 DEF Escalations
    <3> QED
      BY <3>4, <3>5
  <2> QED
    BY <1>2, <2>3, <2>4, <2>5, <2>6 DEF AnyStep
<1> QED
  BY <1>1, <1>2, Invariance, DecidingAlways, PTL DEF AnySpec

(* What Run acknowledged is stored, and answered, enqueued or handed to a  *)
(* human, who is called once for each state of the session: whoever loses  *)
(* the race for the transition fails.                                      *)
THEOREM AcknowledgedIsHandled == Spec => []AcknowledgedMeansHandled
<1>1. IInv /\ Escalations => AcknowledgedMeansHandled
  BY DEF IInv, RequestInv, Asking, Handled, Escalations, AcknowledgedMeansHandled,
         Called, Accepted
<1> QED
  BY <1>1, ConversationIsAny, Invariance, EscalationsAlways, PTL

(* A turn whose columns stay as they are.                                  *)
LEMMA ColumnsKeep ==
  ASSUME NEW p, pc'[p] = pc[p], how'[p] = how[p], jstate'[p] = jstate[p]
  PROVE  InCharge(p)' = InCharge(p) /\ SameAcceptance(p)
  BY DEF InCharge, SameAcceptance, Accepted

LEMMA RequestTurns ==
  ASSUME IInv, Deciding, NEW r \in Requests, RequestStep(r)
  PROVE  TurnStep(r)
<1>0. /\ pc \in [Requests -> {"idle", "loaded", "saved", "prompted", "escalate",
                              "done", "failed"}]
      /\ how \in [Requests -> {"open", "answered", "escalated", "enqueued"}]
      /\ jstate \in [Requests -> Queue!JobState]
      /\ TypeOK
  BY DEF IInv, TypeOK, Queue!RiverTypeOK
<1>1. /\ \A q \in Requests \ {r} :
           pc'[q] = pc[q] /\ how'[q] = how[q] /\ jstate'[q] = jstate[q]
      /\ ~Settled(r)
      /\ \/ UNCHANGED log
         \/ pc[r] = "loaded" /\ Post(on[r], "user", r, r)
         \/ pc[r] = "prompted" /\ Post(on[r], "assistant", r, query[r])
  BY RequestEffect DEF IInv
<1>2. /\ how[r] = "open" /\ jstate[r] = "none" /\ pc[r] # "done"
      /\ ~Posted("assistant", r)
      /\ pc[r] \in {"saved", "prompted", "escalate"} => Posted("user", r)
  BY <1>1 DEF IInv, Authors, Posted, Deciding, JobInv, Attempting, RequestInv, Asking, Settled
<1>3. InCharge(r) = "request" /\ ~Accepted(r) /\ RepliesTo(r) = 0
  BY <1>2, NoReplyYet DEF InCharge, Accepted
<1>4. \A p \in Requests \ {r} : TurnKept(p)
  <2>1. ASSUME NEW p \in Requests \ {r}
        PROVE  (Posted("user", p)' <=> Posted("user", p)) /\ RepliesTo(p)' = RepliesTo(p)
    BY <1>0, <1>1, <1>2, QuietCounts, TurnCounts, ReplyCounts
  <2> QED
    BY <1>1, <2>1, ColumnsKeep DEF TurnKept
<1>5. CASE UNCHANGED log /\ jstate'[r] = "none" /\ how'[r] = how[r] /\ pc'[r] # "done"
  <2>1. TurnKept(r)
    BY <1>2, <1>3, <1>5, QuietCounts DEF TurnKept, InCharge, SameAcceptance, Accepted
  <2> QED
    BY <1>4, <2>1 DEF TurnStep
<1>6. CASE Post(on[r], "user", r, r) /\ jstate'[r] = "none" /\ how'[r] = how[r]
             /\ pc'[r] # "done"
  <2>1. TurnStored(r)
    BY <1>0, <1>2, <1>3, <1>6, TurnCounts DEF TurnStored, InCharge, SameAcceptance, Accepted
  <2> QED
    BY <1>4, <2>1 DEF TurnStep
<1>7. CASE pc[r] = "prompted" /\ Post(on[r], "assistant", r, query[r]) /\ jstate'[r] = "none"
             /\ how'[r] \in {"open", "answered"}
  <2>1. RepliesTo(r)' = 1 /\ Posted("user", r)' /\ Posted("user", r)
    BY <1>0, <1>2, <1>7, ReplyCounts
  <2>2. InCharge(r)' = "request"
    BY <1>7 DEF InCharge
  <2>3. TurnReplied(r)
    BY <1>3, <2>1, <2>2 DEF TurnReplied
  <2> QED
    BY <1>4, <2>3 DEF TurnStep
<1>8. CASE /\ pc[r] \in {"escalate", "saved"} /\ UNCHANGED log
           /\ \/ jstate'[r] = "none" /\ how'[r] = "escalated"
              \/ jstate'[r] = "available"
  <2>1. RepliesTo(r)' = 0 /\ Posted("user", r)' /\ Posted("user", r)
    BY <1>2, <1>3, <1>8, QuietCounts
  <2>2. InCharge(r)' \in {"job", "human"}
    BY <1>8 DEF InCharge
  <2>3. TurnHanded(r)
    BY <1>3, <2>1, <2>2 DEF TurnHanded
  <2> QED
    BY <1>4, <2>3 DEF TurnStep
<1>9. CASE SaveUserMessage(r)
  BY <1>0, <1>2, <1>6, <1>9 DEF SaveUserMessage, jobVars
<1>10. CASE \/ \E s \in Sessions : Run(r, s)
            \/ LoadHistory(r) \/ DecideEscalation(r) \/ EscalationRejected(r) \/ Fail(r)
  BY <1>0, <1>2, <1>5, <1>10
     DEF Run, LoadHistory, DecideEscalation, EscalationRejected, Fail, jobVars
<1>11. CASE SaveReply(r)
  BY <1>0, <1>2, <1>7, <1>11 DEF SaveReply, jobVars
<1>12. CASE Escalate(r)
  BY <1>0, <1>2, <1>8, <1>12 DEF Escalate, jobVars
<1>13. CASE Enqueue(r)
  BY <1>0, <1>2, <1>8, <1>13 DEF Enqueue, Queue!Insert
<1>14. CASE FailAfterWrite(r)
  <2>1. pc'[r] = "failed" /\ UNCHANGED how
    BY <1>0, <1>14 DEF FailAfterWrite
  <2>2. CASE pc[r] = "loaded" /\ Post(on[r], "user", r, r) /\ UNCHANGED jstate
    BY <1>2, <1>6, <2>1, <2>2
  <2>3. CASE pc[r] = "prompted" /\ Post(on[r], "assistant", r, query[r]) /\ UNCHANGED jstate
    BY <1>2, <1>7, <2>1, <2>3
  <2>4. CASE UNCHANGED <<log, jstate>>
    BY <1>2, <1>5, <2>1, <2>4
  <2>5. CASE pc[r] = "saved" /\ Queue!Insert(r) /\ UNCHANGED log
    BY <1>0, <1>8, <2>5 DEF Queue!Insert
  <2> QED
    BY <1>14, <2>2, <2>3, <2>4, <2>5 DEF FailAfterWrite
<1> QED
  BY <1>9, <1>10, <1>11, <1>12, <1>13, <1>14 DEF RequestStep, Handle

LEMMA JobTurns ==
  ASSUME IInv, NEW r \in Requests, Job(r)
  PROVE  TurnStep(r)
<1>0. /\ jstate \in [Requests -> Queue!JobState] /\ TypeOK
  BY DEF IInv, TypeOK, Queue!RiverTypeOK
<1>1. /\ UNCHANGED <<pc, how>>
      /\ \A q \in Requests \ {r} : jstate'[q] = jstate[q]
      /\ \/ UNCHANGED log
         \/ /\ apc[r] = "prompted" /\ jstate[r] = "running"
            /\ Post(on[r], "assistant", r, jquery[r])
  BY <1>0, JobEffect
<1>2. /\ jstate[r] # "none" => Posted("user", r)
      /\ apc[r] = "prompted" => ~Posted("assistant", r)
  BY DEF IInv, JobInv, Attempting
<1>3. \A p \in Requests \ {r} : TurnKept(p)
  <2>1. ASSUME NEW p \in Requests \ {r}
        PROVE  (Posted("user", p)' <=> Posted("user", p)) /\ RepliesTo(p)' = RepliesTo(p)
    BY <1>0, <1>1, <1>2, QuietCounts, ReplyCounts
  <2> QED
    BY <1>1, <2>1, ColumnsKeep DEF TurnKept
<1>4. SameAcceptance(r)
  BY <1>1 DEF SameAcceptance, Accepted
<1>5. CASE /\ UNCHANGED log
           /\ jstate[r] \in {"available", "running"} /\ jstate'[r] \in {"available", "running"}
  <2>1. TurnKept(r)
    BY <1>4, <1>5, QuietCounts DEF TurnKept, InCharge
  <2> QED
    BY <1>3, <2>1 DEF TurnStep
<1>6. CASE /\ UNCHANGED log
           /\ jstate[r] = "running" /\ jstate'[r] \in {"completed", "discarded"}
  <2>1. TurnEnded(r)
    BY <1>4, <1>6, QuietCounts DEF TurnEnded, InCharge
  <2> QED
    BY <1>3, <2>1 DEF TurnStep
<1>7. CASE /\ apc[r] = "prompted" /\ Post(on[r], "assistant", r, jquery[r])
           /\ jstate[r] = "running" /\ jstate'[r] \in {"running", "available", "discarded"}
  <2>1. /\ Posted("user", r) /\ Posted("user", r)'
        /\ RepliesTo(r) = 0 /\ RepliesTo(r)' = 1
    BY <1>0, <1>2, <1>7, ReplyCounts
  <2>2. InCharge(r) = "job" /\ InCharge(r)' \in {"job", "nobody"}
    BY <1>7 DEF InCharge
  <2>3. TurnReplied(r)
    BY <1>4, <2>1, <2>2 DEF TurnReplied
  <2> QED
    BY <1>3, <2>3 DEF TurnStep
<1>8. CASE StartAttempt(r)
  BY <1>0, <1>5, <1>8 DEF StartAttempt, Queue!Start
<1>9. CASE CheckJob(r) \/ GuardSession(r) \/ LoadJobHistory(r)
  BY <1>0, <1>5, <1>9 DEF CheckJob, GuardSession, LoadJobHistory, At
<1>10. CASE SaveJobReply(r)
  BY <1>0, <1>7, <1>10 DEF SaveJobReply, At
<1>11. CASE CompleteJob(r)
  BY <1>0, <1>6, <1>11 DEF CompleteJob, At, Queue!Complete
<1>12. CASE AttemptFails(r)
  BY <1>0, <1>5, <1>6, <1>12 DEF AttemptFails, Queue!Retry
<1>13. CASE ReplyStoredAttemptFails(r)
  BY <1>0, <1>7, <1>13 DEF ReplyStoredAttemptFails, Queue!Retry
<1> QED
  BY <1>8, <1>9, <1>10, <1>11, <1>12, <1>13 DEF Job

LEMMA PromiseAlways == AnySpec => ImplementsTurn
<1>1. Init => Promise!Init
  <2> SUFFICES ASSUME Init PROVE Promise!Init
    OBVIOUS
  <2>1. \A r \in Requests :
          /\ ~Posted("user", r) /\ ~Posted("assistant", r) /\ ~Accepted(r)
          /\ InCharge(r) = "request"
    BY DEF Init, Posted, Accepted, InCharge, Queue!RiverInit
  <2>2. \A r \in Requests : RepliesTo(r) = 0
    BY <2>1, NoReplyYet
  <2> QED
    BY <2>1, <2>2 DEF Promise!Init
<1>2. ASSUME IInv, Deciding, [AnyStep]_vars
      PROVE  [Promise!Next]_(Promise!turnVars)
  <2>1. CASE OthersStep \/ UNCHANGED vars
    <3>1. UNCHANGED <<log, pc, how, jstate>>
      BY <2>1 DEF OthersStep, CreateSession, OtherTransition, requestVars, jobVars, vars
    <3>2. \A r \in Requests :
            /\ Posted("user", r)' <=> Posted("user", r)
            /\ RepliesTo(r)' = RepliesTo(r) /\ InCharge(r)' = InCharge(r)
            /\ Accepted(r)' <=> Accepted(r)
      BY <3>1, QuietCounts, ColumnsKeep DEF SameAcceptance
    <3> QED
      BY <3>2 DEF Promise!turnVars
  <2>2. ASSUME NEW r \in Requests, RequestStep(r) \/ Job(r)
        PROVE  [Promise!Next]_(Promise!turnVars)
    BY <1>2, <2>2, RequestTurns, JobTurns, TurnStepIsPromised
  <2> QED
    BY <1>2, <2>1, <2>2 DEF AnyStep
<1> QED
  BY <1>1, <1>2, Invariance, DecidingAlways, PTL DEF AnySpec, ImplementsTurn, Promise!Spec

(* Requests that overlap, attempts that are repeated and writes whose      *)
(* result was lost keep what the service promises of a turn.               *)
THEOREM TurnsKeepThePromise == Spec => ImplementsTurn
  BY ConversationIsAny, PromiseAlways
=============================================================================
