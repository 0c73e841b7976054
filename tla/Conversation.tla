----------------------------- MODULE Conversation -----------------------------
(***************************************************************************)
(* One turn of a conversation, from TieredOrchestrator.Run to the stored   *)
(* reply: pkg/orchestrator (Run and the L0, L1 and L2 handlers) and the    *)
(* GenerateResponseWorker of pkg/runtime/jobs.go, over the session and     *)
(* message tables.                                                         *)
(*                                                                         *)
(* A request is one call of Run.  It goes through the database several     *)
(* times and through the model once, and nothing serialises two requests,  *)
(* or a request and a job, on the same session: every step below is one    *)
(* access to shared state, and any step of another may come between two    *)
(* of them.  A request may fail at every step, and a job attempt may be    *)
(* cut short at every step, with its last write stored or not.             *)
(*                                                                         *)
(* The job of request r is called r too.  What a message says is           *)
(* abstracted to which request wrote it and which turn its author took to  *)
(* be the question.                                                        *)
(***************************************************************************)
EXTENDS Naturals, Sequences, FiniteSets

CONSTANTS
    Sessions,       \* sessions
    Requests,       \* calls of TieredOrchestrator.Run, each made once
    Tiers,          \* the tiers with which sessions are created
    MaxAttempts,    \* River's limit on the attempts of a job
    MaxVersion,     \* bound: no session is reactivated at or past this version
    None            \* no request, no session

Tier == {"L0", "L1", "L2", "L3"}

ASSUME ConversationAssumption ==
    /\ Tiers \in SUBSET Tier
    /\ MaxAttempts \in Nat \ {0}
    /\ MaxVersion \in Nat
    /\ None \notin Requests /\ None \notin Sessions

VARIABLES
    row,            \* row[s]: the state, version and tier columns of session s
    log,            \* the message table, in the order of created_at
    pc,             \* pc[r]: where request r is in Run
    on,             \* on[r]: the session request r runs on
    snap,           \* snap[r]: the session as Run loaded it
    query,          \* query[r]: the last user turn of the history r loaded
    how,            \* how[r]: how request r was settled
    jstate,         \* jstate[r]: River's state of the job r enqueued
    attempts,       \* attempts[r]: how often that job was started
    apc,            \* apc[r]: where its attempt is in Work
    jquery,         \* jquery[r]: the last user turn of the history it loaded
    live            \* live[r]: history, the session was open when it started

requestVars == <<pc, on, snap, query, how>>
jobVars     == <<jstate, attempts, apc, jquery, live>>
vars        == <<row, log, requestVars, jobVars>>

-----------------------------------------------------------------------------
FSM == INSTANCE SessionFSM WITH state <- [s \in Sessions |-> row[s].state]
Queue == INSTANCE River WITH Jobs <- Requests

Async(session) == session.tier \in {"L2", "L3"}

Row     == [state : FSM!State \cup {FSM!NoSession}, version : Nat, tier : Tier]
Message == [session : Sessions, role : {"user", "assistant"},
            by : Requests, query : Requests \cup {None}]

TypeOK ==
    /\ row \in [Sessions -> Row]
    /\ log \in Seq(Message)
    /\ pc \in [Requests -> {"idle", "loaded", "saved", "prompted", "escalate",
                            "done", "failed"}]
    /\ on \in [Requests -> Sessions \cup {None}]
    /\ snap \in [Requests -> Row]
    /\ query \in [Requests -> Requests \cup {None}]
    /\ how \in [Requests -> {"open", "answered", "escalated", "enqueued"}]
    /\ Queue!RiverTypeOK
    /\ apc \in [Requests -> {"idle", "check", "guard", "history", "prompted",
                             "nil"}]
    /\ jquery \in [Requests -> Requests \cup {None}]
    /\ live \in [Requests -> BOOLEAN]

Unborn == [state |-> FSM!NoSession, version |-> 0, tier |-> "L0"]

Init ==
    /\ row = [s \in Sessions |-> Unborn]
    /\ log = <<>>
    /\ pc = [r \in Requests |-> "idle"]
    /\ on = [r \in Requests |-> None]
    /\ snap = [r \in Requests |-> Unborn]
    /\ query = [r \in Requests |-> None]
    /\ how = [r \in Requests |-> "open"]
    /\ Queue!RiverInit({})
    /\ apc = [r \in Requests |-> "idle"]
    /\ jquery = [r \in Requests |-> None]
    /\ live = [r \in Requests |-> FALSE]

-----------------------------------------------------------------------------
(* The message table.                                                      *)
Post(s, role, r, q) ==
    log' = Append(log, [session |-> s, role |-> role, by |-> r, query |-> q])

Posted(role, r) == \E i \in DOMAIN log : log[i].role = role /\ log[i].by = r

UserTurns(s) ==
    { i \in DOMAIN log : log[i].session = s /\ log[i].role = "user" }

(* Mutant of LastUser: the loop over the history runs the other way.       *)
FirstUser(s) ==
    IF UserTurns(s) = {} THEN None
    ELSE log[CHOOSE i \in UserTurns(s) : \A j \in UserTurns(s) : i <= j].by

(* The last user message of ListForSession(s, 0), the whole history.       *)
LastUser(s) ==
    IF UserTurns(s) = {} THEN None
    ELSE log[CHOOSE i \in UserTurns(s) : \A j \in UserTurns(s) : j <= i].by

(* The last user message of ListForSession(s, 4096).  User messages have   *)
(* no token count and cost nothing; a reply after the last of them may     *)
(* exhaust the budget on its own, and everything older is then cut off.    *)
RepliedSince(s) ==
    \E i \in DOMAIN log :
        /\ log[i].session = s
        /\ log[i].role = "assistant"
        /\ \A j \in UserTurns(s) : j < i

LastUserInBudget(s) ==
    {LastUser(s)} \cup (IF RepliedSince(s) THEN {None} ELSE {})

-----------------------------------------------------------------------------
(* The other writers of the session table, each a successful Transition:   *)
(* the expiry sweep, the tool worker, the operator.                        *)
CreateSession(s, tier) ==
    /\ row[s].state = FSM!NoSession
    /\ row' = [row EXCEPT ![s] =
                 [state |-> "Active", version |-> 1, tier |-> tier]]
    /\ UNCHANGED <<log, requestVars, jobVars>>

OtherTransition(s, to) ==
    /\ FSM!Allowed(row[s].state, to)
    /\ to = "Active" => row[s].version < MaxVersion
    /\ row' = [row EXCEPT ![s].state = to, ![s].version = @ + 1]
    /\ UNCHANGED <<log, requestVars, jobVars>>

-----------------------------------------------------------------------------
(* Run: load the session and pick the handler of its tier.  The state of   *)
(* the session plays no part.                                              *)
Run(r, s) ==
    /\ pc[r] = "idle"
    /\ row[s].state # FSM!NoSession
    /\ on' = [on EXCEPT ![r] = s]
    /\ snap' = [snap EXCEPT ![r] = row[s]]
    /\ pc' = [pc EXCEPT ![r] = "loaded"]
    /\ UNCHANGED <<row, log, query, how, jobVars>>

(* All handlers begin by storing the user's message.                       *)
SaveUserMessage(r) ==
    /\ pc[r] = "loaded"
    /\ Post(on[r], "user", r, r)
    /\ pc' = [pc EXCEPT ![r] = "saved"]
    /\ UNCHANGED <<row, on, snap, query, how, jobVars>>

(* L0 and L1 (after its retrieval): load the history and build the prompt. *)
LoadHistory(r) ==
    /\ pc[r] = "saved"
    /\ ~Async(snap[r])
    /\ query' = [query EXCEPT ![r] = LastUser(on[r])]
    /\ pc' = [pc EXCEPT ![r] = "prompted"]
    /\ UNCHANGED <<row, log, on, snap, how, jobVars>>

(* The model answered, for L1 well formed and confidently: store the reply. *)
SaveReply(r) ==
    /\ pc[r] = "prompted"
    /\ Post(on[r], "assistant", r, query[r])
    /\ pc' = [pc EXCEPT ![r] = "done"]
    /\ how' = [how EXCEPT ![r] = "answered"]
    /\ UNCHANGED <<row, on, snap, query, jobVars>>

(* Mutant of DecideEscalation: the answer is stored all the same.          *)
DecideAfterReply(r) ==
    /\ pc[r] = "prompted"
    /\ snap[r].tier = "L1"
    /\ Post(on[r], "assistant", r, query[r])
    /\ pc' = [pc EXCEPT ![r] = "escalate"]
    /\ UNCHANGED <<row, on, snap, query, how, jobVars>>

(* L1: the answer does not parse, its confidence is below the threshold,   *)
(* or it asks for a human.                                                 *)
DecideEscalation(r) ==
    /\ pc[r] = "prompted"
    /\ snap[r].tier = "L1"
    /\ pc' = [pc EXCEPT ![r] = "escalate"]
    /\ UNCHANGED <<row, log, on, snap, query, how, jobVars>>

(* Mutant of CanEscalate: the transition is made unconditionally.          *)
EscalationUnchecked(r) == TRUE

(* Transition from the state Run loaded, at the version Run loaded: the    *)
(* table allows it and the version still stands, or the request fails.     *)
CanEscalate(r) ==
    /\ FSM!Allowed(snap[r].state, "WaitingForHuman")
    /\ row[on[r]].version = snap[r].version

StoreEscalation(r) ==
    /\ CanEscalate(r)
    /\ row' = [row EXCEPT ![on[r]].state = "WaitingForHuman",
                             ![on[r]].version = @ + 1]

Escalate(r) ==
    /\ pc[r] = "escalate"
    /\ StoreEscalation(r)
    /\ pc' = [pc EXCEPT ![r] = "done"]
    /\ how' = [how EXCEPT ![r] = "escalated"]
    /\ UNCHANGED <<log, on, snap, query, jobVars>>

(* Mutant of EscalationRejected: the error of Transition is swallowed.     *)
RejectionSwallowed(r) ==
    /\ pc[r] = "escalate"
    /\ ~CanEscalate(r)
    /\ pc' = [pc EXCEPT ![r] = "done"]
    /\ how' = [how EXCEPT ![r] = "escalated"]
    /\ UNCHANGED <<row, log, on, snap, query, jobVars>>

EscalationRejected(r) ==
    /\ pc[r] = "escalate"
    /\ ~CanEscalate(r)
    /\ pc' = [pc EXCEPT ![r] = "failed"]
    /\ UNCHANGED <<row, log, on, snap, query, how, jobVars>>

(* Mutant of Enqueue: the error of the enqueuer is swallowed.              *)
EnqueueSwallowed(r) ==
    /\ pc[r] = "saved"
    /\ Async(snap[r])
    /\ pc' = [pc EXCEPT ![r] = "done"]
    /\ how' = [how EXCEPT ![r] = "enqueued"]
    /\ UNCHANGED <<row, log, on, snap, query, jobVars>>

(* L2 and L3: insert the job, in a transaction of its own.                 *)
Enqueue(r) ==
    /\ pc[r] = "saved"
    /\ Async(snap[r])
    /\ Queue!Insert(r)
    /\ pc' = [pc EXCEPT ![r] = "done"]
    /\ how' = [how EXCEPT ![r] = "enqueued"]
    /\ UNCHANGED <<row, log, on, snap, query, apc, jquery, live>>

(* A call returned an error, or the server died: nothing more happens in   *)
(* this request, and what it stored stays.  If the call was a write, it    *)
(* may have been stored although its result was lost.                      *)
Pending == {"loaded", "saved", "prompted", "escalate"}

Fail(r) ==
    /\ pc[r] \in Pending
    /\ pc' = [pc EXCEPT ![r] = "failed"]
    /\ UNCHANGED <<row, log, on, snap, query, how, jobVars>>

FailAfterWrite(r) ==
    /\ pc' = [pc EXCEPT ![r] = "failed"]
    /\ \/ /\ pc[r] = "loaded"
          /\ Post(on[r], "user", r, r)
          /\ UNCHANGED <<row, jstate, attempts>>
       \/ /\ pc[r] = "prompted"
          /\ Post(on[r], "assistant", r, query[r])
          /\ UNCHANGED <<row, jstate, attempts>>
       \/ /\ pc[r] = "escalate"
          /\ StoreEscalation(r)
          /\ UNCHANGED <<log, jstate, attempts>>
       \/ /\ pc[r] = "saved" /\ Async(snap[r])
          /\ Queue!Insert(r)
          /\ UNCHANGED <<row, log>>
    /\ UNCHANGED <<on, snap, query, how, apc, jquery, live>>

-----------------------------------------------------------------------------
(* River hands the job to a worker.                                        *)
StartAttempt(r) ==
    /\ Queue!Start(r)
    /\ apc' = [apc EXCEPT ![r] = "check"]
    /\ live' = [live EXCEPT ![r] = row[on[r]].state \in FSM!Open]
    /\ UNCHANGED <<row, log, requestVars, jquery>>

At(r, here, next) ==
    /\ jstate[r] = "running"
    /\ apc[r] = here
    /\ apc' = [apc EXCEPT ![r] = next]

(* Mutant of CheckJob: no look at the replies of earlier attempts.         *)
CheckNothing(r) ==
    /\ At(r, "check", "guard")
    /\ UNCHANGED <<row, log, requestVars, jstate, attempts, jquery, live>>

(* GetByJobID: a reply of an earlier attempt ends this one.                *)
CheckJob(r) ==
    /\ At(r, "check", IF Posted("assistant", r) THEN "nil" ELSE "guard")
    /\ UNCHANGED <<row, log, requestVars, jstate, attempts, jquery, live>>

(* Mutant of GuardSession: a waiting session counts as over.               *)
GuardActiveOnly(r) ==
    /\ At(r, "guard",
          IF row[on[r]].state # "Active" THEN "nil" ELSE "history")
    /\ UNCHANGED <<row, log, requestVars, jstate, attempts, jquery, live>>

(* Mutant of GuardSession: Expired is forgotten.                           *)
GuardCompletedOnly(r) ==
    /\ At(r, "guard",
          IF row[on[r]].state = "Completed" THEN "nil" ELSE "history")
    /\ UNCHANGED <<row, log, requestVars, jstate, attempts, jquery, live>>

(* GetByID: nothing is generated for a session that is over.               *)
GuardSession(r) ==
    /\ At(r, "guard",
          IF row[on[r]].state \in FSM!Terminal THEN "nil" ELSE "history")
    /\ UNCHANGED <<row, log, requestVars, jstate, attempts, jquery, live>>

LoadJobHistory(r) ==
    /\ At(r, "history", "prompted")
    /\ \E q \in LastUserInBudget(on[r]) : jquery' = [jquery EXCEPT ![r] = q]
    /\ UNCHANGED <<row, log, requestVars, jstate, attempts, live>>

(* The model has answered, after a minute or less: store the reply.        *)
SaveJobReply(r) ==
    /\ At(r, "prompted", "nil")
    /\ Post(on[r], "assistant", r, jquery[r])
    /\ UNCHANGED <<row, requestVars, jstate, attempts, jquery, live>>

(* Work returned nil and River marks the job completed.                    *)
CompleteJob(r) ==
    /\ At(r, "nil", "idle")
    /\ Queue!Complete(r)
    /\ UNCHANGED <<row, log, requestVars, jquery, live>>

(* Work returned an error, the worker died, or River did not get to mark   *)
(* the job completed.                                                      *)
AttemptFails(r) ==
    /\ Queue!Retry(r)
    /\ apc' = [apc EXCEPT ![r] = "idle"]
    /\ UNCHANGED <<row, log, requestVars, jquery, live>>

(* The reply was stored but the call that stored it returned an error.     *)
ReplyStoredAttemptFails(r) ==
    /\ apc[r] = "prompted"
    /\ Post(on[r], "assistant", r, jquery[r])
    /\ Queue!Retry(r)
    /\ apc' = [apc EXCEPT ![r] = "idle"]
    /\ UNCHANGED <<row, requestVars, jquery, live>>

-----------------------------------------------------------------------------
(* Handler.Handle, of any tier. *)
Handle(r) ==
    \/ SaveUserMessage(r) \/ LoadHistory(r) \/ SaveReply(r)
    \/ DecideEscalation(r) \/ Escalate(r) \/ EscalationRejected(r)
    \/ Enqueue(r)
    \/ Fail(r) \/ FailAfterWrite(r)

(* GenerateResponseWorker.Work and what River does around it. *)
Job(r) ==
    \/ StartAttempt(r) \/ CheckJob(r) \/ GuardSession(r) \/ LoadJobHistory(r)
    \/ SaveJobReply(r) \/ CompleteJob(r)
    \/ AttemptFails(r) \/ ReplyStoredAttemptFails(r)

(* NewMessageHandler answers 202 when Run returned nil, and only then.     *)
Accepted(r) == pc[r] = "done"

Next ==
    \/ \E s \in Sessions :
         \/ \E tier \in Tiers : CreateSession(s, tier)
         \/ \E to \in FSM!State : OtherTransition(s, to)
    \/ \E r \in Requests :
         (\E s \in Sessions : Run(r, s)) \/ Handle(r) \/ Job(r)

Spec == Init /\ [][Next]_vars

-----------------------------------------------------------------------------
(***************************************************************************)
(* Properties.                                                             *)
(***************************************************************************)

(* A turn gets at most one reply, whatever is retried: attempts of a job   *)
(* that failed after storing a reply are recognised by GetByJobID.         *)
OneReplyPerTurn ==
    \A i, j \in DOMAIN log :
        /\ log[i].role = "assistant" /\ log[j].role = "assistant"
        /\ log[i].by = log[j].by
        => i = j

(* Runs and jobs of one session overlap, and each takes the last user      *)
(* message it finds to be the question.  That may be a later turn than its *)
(* own, or with a history cut short none at all, but never an older one.   *)
NeverAnswersAnOlderTurn ==
    \A j \in DOMAIN log :
        /\ log[j].role = "assistant"
        /\ log[j].query # None
        => \E m, n \in UserTurns(log[j].session) :
              /\ m <= n
              /\ log[m].by = log[j].by
              /\ log[n].by = log[j].query

(* Run returns nil only for a turn that is taken care of: the message is   *)
(* stored, and so is a reply, or there is a job to make one, or a human    *)
(* has been called.  A human is called once for one state of the session:  *)
(* of two turns that escalate it from the same copy, the one that lost the *)
(* race is not acknowledged.                                               *)
Called(r) == how[r] = "escalated" /\ row[on[r]].version > snap[r].version

AcknowledgedMeansHandled ==
    /\ \A r \in Requests : Accepted(r) =>
          /\ Posted("user", r)
          /\ Posted("assistant", r) \/ jstate[r] # "none" \/ Called(r)
    /\ \A r, q \in Requests :
          r # q /\ on[r] = on[q] /\ how[r] = "escalated" /\ how[q] = "escalated"
            => snap[r].version # snap[q].version

(* A completed job has left its reply, unless its session was over.        *)
CompletedMeansAnswered ==
    \A r \in Requests : jstate[r] = "completed" =>
        Posted("assistant", r) \/ row[on[r]].state \in FSM!Terminal

(* The handlers, the jobs and everyone else together keep the session FSM. *)
ImplementsFSM == FSM!Spec

(* Requests, their jobs and what is stored of both keep what the service   *)
(* promises of a turn (UserTurn): the order of the steps, one reply, none  *)
(* after a human was called or the job ended, and no acceptance of a turn  *)
(* that nobody takes care of.                                              *)
RepliesTo(r) ==
    Cardinality({ i \in DOMAIN log : log[i].role = "assistant" /\ log[i].by = r })

InCharge(r) ==
    CASE jstate[r] \in {"available", "running"}     -> "job"
      [] jstate[r] \in {"completed", "discarded"}   -> "nobody"
      [] jstate[r] = "none" /\ how[r] = "escalated" -> "human"
      [] OTHER                                      -> "request"

Promise == INSTANCE UserTurn WITH
    Turns    <- Requests,
    stored   <- { r \in Requests : Posted("user", r) },
    replies  <- [r \in Requests |-> RepliesTo(r)],
    charge   <- [r \in Requests |-> InCharge(r)],
    accepted <- { r \in Requests : Accepted(r) }

ImplementsTurn == Promise!Spec

(* A job that is started on a session which is over adds nothing to it,    *)
(* whatever was stored or lost before.                                     *)
NoJobReplyToDeadSession ==
    [][\A r \in Requests :
         jstate[r] = "running" /\ log' # log /\ log'[Len(log')].by = r
           /\ log'[Len(log')].role = "assistant"
         => live[r]]_vars
=============================================================================
