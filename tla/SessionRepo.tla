----------------------------- MODULE SessionRepo -----------------------------
(***************************************************************************)
(* The session table and the code that changes it: the SessionRepository   *)
(* of pkg/runtime/session_repo.go with its optimistic locking, and the     *)
(* ExpireSessionsWorker of pkg/runtime/jobs.go.                            *)
(*                                                                         *)
(* A caller never writes a row in the transaction in which it read it.  It *)
(* loads a session, works for seconds (an LLM call, a human decision), and *)
(* then asks for a transition from the state it saw, at the version it     *)
(* saw.  Meanwhile others do the same.  Every session a caller has loaded  *)
(* and not yet used is therefore kept in held[c], a set of snapshots.      *)
(*                                                                         *)
(* Clients are the callers that hold one session at a time: the L1         *)
(* handler, the tool worker, and the operator who answers an escalation    *)
(* (the last is not in the repository, which only gives it Transition to   *)
(* call).  Sweepers are attempts of the expire_sessions job.               *)
(***************************************************************************)
EXTENDS Naturals, FiniteSets

CONSTANTS
    Sessions,       \* sessions
    Clients,        \* callers that load one session and may transition it
    Sweepers,       \* workers of the expire_sessions job
    MaxVersion      \* bound: no session is reactivated at or past this version

ASSUME RepoAssumption ==
    /\ Clients \cap Sweepers = {}
    /\ MaxVersion \in Nat

VARIABLES
    row,            \* row[s]: the state and version columns of session s
    overdue,        \* the sessions with expires_at < NOW()
    held,           \* held[c]: the snapshots c has loaded and not yet used
    listed,         \* listed[w]: history, what the ListExpired of w's sweep returned
    status          \* status[w]: where w is in its Work, or how that ended

vars == <<row, overdue, held, listed, status>>

-----------------------------------------------------------------------------
(* The states and the transition table are those of the abstract           *)
(* specification, which this one implements through this mapping.          *)
FSM == INSTANCE SessionFSM WITH state <- [s \in Sessions |-> row[s].state]

Callers == Clients \cup Sweepers

Row      == [state : FSM!State \cup {FSM!NoSession}, version : Nat]
Snapshot == [id : Sessions, state : FSM!State, version : Nat]

(* A sweep is running between ListExpired and the return of Work, and ok   *)
(* when Work returned nil.                                                 *)
Status == {"idle", "running", "ok"}

SnapshotOf(s) == [id |-> s, state |-> row[s].state, version |-> row[s].version]

TypeOK ==
    /\ row \in [Sessions -> Row]
    /\ overdue \in SUBSET Sessions
    /\ held \in [Callers -> SUBSET Snapshot]
    /\ listed \in [Sweepers -> SUBSET Snapshot]
    /\ status \in [Sweepers -> Status]

Init ==
    /\ row = [s \in Sessions |-> [state |-> FSM!NoSession, version |-> 0]]
    /\ overdue = {}
    /\ held = [c \in Callers |-> {}]
    /\ listed = [w \in Sweepers |-> {}]
    /\ status = [w \in Sweepers |-> "idle"]

-----------------------------------------------------------------------------
(* Create: both session-creating handlers insert an Active row, version 1. *)
Create(s) ==
    /\ row[s].state = FSM!NoSession
    /\ row' = [row EXCEPT ![s] = [state |-> "Active", version |-> 1]]
    /\ UNCHANGED <<overdue, held, listed, status>>

(* Time passes expires_at.  No code ever moves expires_at forward again.   *)
PassExpiry(s) ==
    /\ row[s].state # FSM!NoSession
    /\ s \notin overdue
    /\ overdue' = overdue \cup {s}
    /\ UNCHANGED <<row, held, listed, status>>

(* GetByID: the caller now holds a copy of the row.                        *)
GetByID(c, s) ==
    /\ held[c] = {}
    /\ row[s].state # FSM!NoSession
    /\ held' = [held EXCEPT ![c] = {SnapshotOf(s)}]
    /\ UNCHANGED <<row, overdue, listed, status>>

(* The caller finishes without a transition (an answer, an error, a crash). *)
Drop(c) ==
    /\ held[c] # {}
    /\ held' = [held EXCEPT ![c] = {}]
    /\ UNCHANGED <<row, overdue, listed, status>>

-----------------------------------------------------------------------------
(* Mutant of VersionMatches: the UPDATE does not name the version.         *)
VersionUnchecked(h) == TRUE

(* Transition(id, from, to, version) as a relation between the old and the *)
(* new rows and its result.  The UPDATE names the version alone: nothing   *)
(* compares the row's state with from.                                     *)
VersionMatches(h) == row[h.id].version = h.version

(* Mutant of UpdateRow: the UPDATE does not increment the version.         *)
VersionKept(h, to) == row' = [row EXCEPT ![h.id].state = to]

UpdateRow(h, to) ==
    row' = [row EXCEPT ![h.id] = [state |-> to, version |-> row[h.id].version + 1]]

Transition(h, to, result) ==
    \/ /\ ~FSM!Allowed(h.state, to)
       /\ result = "invalid"
       /\ UNCHANGED row
    \/ /\ FSM!Allowed(h.state, to)
       /\ VersionMatches(h)
       /\ result = "ok"
       /\ UpdateRow(h, to)
    \/ /\ FSM!Allowed(h.state, to)
       /\ ~VersionMatches(h)
       /\ result = "conflict"
       /\ UNCHANGED row

(* A client asks for the transition of the session it loaded: the L1       *)
(* handler and the tool worker to WaitingForHuman, the operator to Active  *)
(* or Completed.  Going back to Active is the only cycle of the table:     *)
(* MaxVersion bounds it.                                                   *)
ClientTargets == FSM!State \ {"Expired"}

CallTransition(c, to) ==
    \E h \in held[c], result \in {"ok", "conflict", "invalid"} :
        /\ to = "Active" => h.version < MaxVersion
        /\ Transition(h, to, result)
        /\ held' = [held EXCEPT ![c] = {}]
        /\ UNCHANGED <<overdue, listed, status>>

-----------------------------------------------------------------------------
(* Mutant of ListExpired: the query does not look at expires_at.           *)
ListOpen ==
    { SnapshotOf(s) : s \in { t \in Sessions : row[t].state \in FSM!Open } }

(* Mutant of ListExpired: the query lists waiting sessions only.           *)
ListWaiting ==
    { SnapshotOf(s) : s \in { t \in overdue : row[t].state = "WaitingForHuman" } }

(* ExpireSessionsWorker.Work.  One query lists the overdue sessions that   *)
(* are still open, in no stated order.                                     *)
ListExpired ==
    { SnapshotOf(s) : s \in { t \in overdue : row[t].state \in FSM!Open } }

StartSweep(w) ==
    /\ status[w] # "running"
    /\ ListExpired # {}
    /\ listed' = [listed EXCEPT ![w] = ListExpired]
    /\ held' = [held EXCEPT ![w] = ListExpired]
    /\ status' = [status EXCEPT ![w] = "running"]
    /\ UNCHANGED <<row, overdue>>

(* Work ends, with an error or its process, before the end of its list.    *)
EndWork(w) ==
    /\ held' = [held EXCEPT ![w] = {}]
    /\ listed' = [listed EXCEPT ![w] = {}]
    /\ status' = [status EXCEPT ![w] = "idle"]

(* One turn of the loop.  A lost race is skipped; any other error, which   *)
(* includes ErrInvalidTransition, returns from Work and ends the sweep.    *)
SweepOne(w) ==
    /\ status[w] = "running"
    /\ \E h \in held[w], result \in {"ok", "conflict", "invalid"} :
         /\ Transition(h, "Expired", result)
         /\ IF result = "invalid"
              THEN EndWork(w)
              ELSE /\ held' = [held EXCEPT ![w] = @ \ {h}]
                   /\ UNCHANGED <<listed, status>>
    /\ UNCHANGED overdue

(* The loop is done: Work returns nil.                                     *)
EndSweep(w) ==
    /\ status[w] = "running"
    /\ held[w] = {}
    /\ status' = [status EXCEPT ![w] = "ok"]
    /\ UNCHANGED <<row, overdue, held, listed>>

(* The worker process dies, or the job's context is cancelled.             *)
CrashSweep(w) ==
    /\ status[w] = "running"
    /\ EndWork(w)
    /\ UNCHANGED <<row, overdue>>

-----------------------------------------------------------------------------
Sweep(w) == StartSweep(w) \/ SweepOne(w) \/ EndSweep(w)

Next ==
    \/ \E s \in Sessions : Create(s) \/ PassExpiry(s)
    \/ \E c \in Clients :
         \/ \E s \in Sessions : GetByID(c, s)
         \/ \E to \in ClientTargets : CallTransition(c, to)
         \/ Drop(c)
    \/ \E w \in Sweepers : Sweep(w) \/ CrashSweep(w)

Spec == Init /\ [][Next]_vars

(* A sweep is started again whenever there is something to expire (River   *)
(* retries a failed attempt; the schedule that inserts the job is not in   *)
(* the repository), and attempts that keep being made are not all cut      *)
(* short before their first transition.  Clients owe nothing.              *)
FairSpec ==
    /\ Spec
    /\ WF_vars(\E w \in Sweepers : Sweep(w))
    /\ SF_vars(\E w \in Sweepers : SweepOne(w))

-----------------------------------------------------------------------------
(***************************************************************************)
(* Properties.                                                             *)
(***************************************************************************)

(* Optimistic locking works on copies: a snapshot is never newer than its  *)
(* row, and a snapshot at the row's version shows the row's present state. *)
(* Transition checks from against the table and version against the row,   *)
(* so this is what makes its check of from a check of the row.             *)
SnapshotsTrail ==
    \A c \in Callers : \A h \in held[c] :
        /\ h.version <= row[h.id].version
        /\ h.version = row[h.id].version => h.state = row[h.id].state

(* However callers interleave, a session moves only along the transition   *)
(* table from the state it is really in: the repository implements the     *)
(* abstract FSM although no UPDATE looks at the state column.              *)
ImplementsFSM == FSM!Spec

(* A sweep that returns nil has dealt with all it listed: each of those    *)
(* sessions was moved after the listing, by this sweep or by whoever won   *)
(* the race against it.  Nothing it listed is as it was.                   *)
SweepIsThorough ==
    \A w \in Sweepers :
        status[w] \in {"running", "ok"} =>
            \A h \in listed[w] \ held[w] : h.version < row[h.id].version

(* No session is expired early: an Expired session is past its expires_at, *)
(* however old the list was from which the sweep took it.                  *)
ExpiredIsOverdue ==
    \A s \in Sessions : row[s].state = "Expired" => s \in overdue

(* The inductive invariant behind these: the types, the snapshots, that a  *)
(* row not yet created is at version 0, that what a sweep listed is        *)
(* overdue, and that a sweep in progress has dealt with what it took off   *)
(* its list.                                                               *)
UncreatedIsZero ==
    \A s \in Sessions : row[s].state = FSM!NoSession => row[s].version = 0

SweepsOverdueOnly ==
    \A w \in Sweepers : \A h \in held[w] : h.id \in overdue

IInv ==
    /\ TypeOK
    /\ SnapshotsTrail
    /\ SweepIsThorough
    /\ ExpiredIsOverdue
    /\ UncreatedIsZero
    /\ SweepsOverdueOnly

-----------------------------------------------------------------------------
OverdueIn(s, st) == s \in overdue /\ row[s].state = st

(* An overdue Active session eventually leaves Active, whoever races with  *)
(* the sweep, unless some overdue session comes to wait for a human.       *)
ActiveExpiresUnlessBlocked ==
    \A s \in Sessions :
        OverdueIn(s, "Active") ~>
            \/ row[s].state # "Active"
            \/ \E t \in Sessions : OverdueIn(t, "WaitingForHuman")

(* FR-7 (docs/requirements.md): an overdue Active session is eventually    *)
(* expired.  It is not: one overdue session that waits for a human is      *)
(* listed with it, Transition rejects WaitingForHuman -> Expired, an edge  *)
(* that docs/architecture.md draws and the table does not have, and Work   *)
(* returns that error before it reaches the others, in every attempt.      *)
ActiveExpires ==
    \A s \in Sessions : OverdueIn(s, "Active") ~> row[s].state # "Active"
=============================================================================
