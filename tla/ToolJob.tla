-------------------------------- MODULE ToolJob --------------------------------
(***************************************************************************)
(* Tool execution: the ExecuteToolWorker of pkg/runtime/tool_job.go with   *)
(* the registry, the human-in-the-loop gate and the audit log of pkg/tools *)
(* it goes through, over the session table and the River queue.            *)
(*                                                                         *)
(* A Write tool changes the world outside: what it did cannot be rolled    *)
(* back, and is counted in executions.  The audit record that says so is   *)
(* written after it, by another call, and an attempt may be cut short      *)
(* between the two.                                                        *)
(***************************************************************************)
EXTENDS River, FiniteSets

CONSTANTS
    ToolJobs,       \* the jobs of this kind
    Sessions, Tools, Keys,      \* sessions, tools, idempotency keys
    SessionOf, ToolOf, KeyOf,   \* the arguments of each job
    Confident,      \* the jobs whose confidence reaches the gate's threshold
    KindOf,         \* KindOf[t]: the kind of tool t
    MaxVersion      \* bound: no session is reactivated at or past this version

Read == 0
Draft == 1
Write == 2
ToolKind == {Read, Draft, Write}

ASSUME ToolAssumption ==
    /\ ToolJobs \in SUBSET Jobs
    /\ SessionOf \in [Jobs -> Sessions]
    /\ ToolOf \in [ToolJobs -> Tools]
    /\ KeyOf \in [ToolJobs -> Keys]
    /\ Confident \in SUBSET ToolJobs
    /\ KindOf \in [Tools -> ToolKind]
    /\ MaxVersion \in Nat

VARIABLES
    row,            \* row[s]: the state and version columns of session s
    registered,     \* the tools in the registry
    apc,            \* apc[j]: where the attempt of job j is in Work
    snap,           \* snap[j]: the session as the gate's branch loaded it
    outcome,        \* outcome[j]: what the attempt's nil return stands for
    audited,        \* the keys in AUDIT_LOG
    executions,     \* executions[k]: how often a Write tool ran for key k
    cut,            \* cut[k]: history, attempts that ended after running the
                    \* tool for k and before its audit record was stored
    seen,           \* seen[j]: history, the executions for j's key that were
                    \* over when j asked the audit log
    raced           \* raced[k]: history, executions for k of jobs that had
                    \* not seen all that were made before

logVars  == <<audited, executions, cut, seen, raced>>
toolVars == <<registered, apc, snap, outcome, logVars>>

-----------------------------------------------------------------------------
FSM == INSTANCE SessionFSM WITH state <- [s \in Sessions |-> row[s].state]

Row == [state : FSM!State, version : Nat]

TypeOK ==
    /\ RiverTypeOK
    /\ row \in [Sessions -> Row]
    /\ registered \in SUBSET Tools
    /\ apc \in [ToolJobs -> {"idle", "get", "load", "hold", "check", "execute",
                         "log", "run", "nil"}]
    /\ snap \in [ToolJobs -> Row]
    /\ outcome \in [ToolJobs -> {"open", "held", "dropped", "skipped", "logged",
                             "ran"}]
    /\ audited \in SUBSET Keys
    /\ executions \in [Keys -> Nat]
    /\ cut \in [Keys -> Nat]
    /\ seen \in [ToolJobs -> Nat]
    /\ raced \in [Keys -> Nat]

Opened == [state |-> "Active", version |-> 1]

ToolInit ==
    /\ row = [s \in Sessions |-> Opened]
    /\ registered = {}
    /\ apc = [j \in ToolJobs |-> "idle"]
    /\ snap = [j \in ToolJobs |-> Opened]
    /\ outcome = [j \in ToolJobs |-> "open"]
    /\ audited = {}
    /\ executions = [k \in Keys |-> 0]
    /\ cut = [k \in Keys |-> 0]
    /\ seen = [j \in ToolJobs |-> 0]
    /\ raced = [k \in Keys |-> 0]

-----------------------------------------------------------------------------
(* Registry.Register: a name is taken once and for all.                    *)
Register(t) ==
    /\ t \notin registered
    /\ registered' = registered \cup {t}
    /\ UNCHANGED <<jstate, attempts, row, apc, snap, outcome, logVars>>

(* The other writers of the session table, each a successful Transition.   *)
OtherTransition(s, to) ==
    /\ FSM!Allowed(row[s].state, to)
    /\ to = "Active" => row[s].version < MaxVersion
    /\ row' = [row EXCEPT ![s] = [state |-> to, version |-> @.version + 1]]
    /\ UNCHANGED <<jstate, attempts, toolVars>>

StartAttempt(j) ==
    /\ Start(j)
    /\ apc' = [apc EXCEPT ![j] = "get"]
    /\ outcome' = [outcome EXCEPT ![j] = "open"]
    /\ UNCHANGED <<row, registered, snap, logVars>>

-----------------------------------------------------------------------------
Kind(j) == KindOf[ToolOf[j]]

At(j, here, next) ==
    /\ jstate[j] = "running"
    /\ apc[j] = here
    /\ apc' = [apc EXCEPT ![j] = next]

Returns(j, here, result) ==
    /\ At(j, here, "nil")
    /\ outcome' = [outcome EXCEPT ![j] = result]

(* Mutant of GetTool: the gate is not asked.                               *)
GetUngated(j) ==
    /\ ToolOf[j] \in registered
    /\ At(j, "get", IF Kind(j) # Write THEN "run" ELSE "check")
    /\ UNCHANGED <<jstate, attempts, row, registered, snap, outcome, logVars>>

(* HITLGate.Evaluate: the confidence of the call reaches the threshold.    *)
Evaluate(j) == j \in Confident

(* Registry.Get, then for a Write tool HITLGate.Evaluate.  A tool that is  *)
(* not registered is an error (AttemptFails).                              *)
GetTool(j) ==
    /\ ToolOf[j] \in registered
    /\ At(j, "get", IF Kind(j) # Write THEN "run"
                    ELSE IF Evaluate(j) THEN "check" ELSE "load")
    /\ UNCHANGED <<jstate, attempts, row, registered, snap, outcome, logVars>>

(* The gate says no: load the session and hand it to a human.  A lost race *)
(* for the session counts as success; a session that may not go to         *)
(* WaitingForHuman, because it is there or over, is an error.              *)
LoadSession(j) ==
    /\ At(j, "load", "hold")
    /\ snap' = [snap EXCEPT ![j] = row[SessionOf[j]]]
    /\ UNCHANGED <<jstate, attempts, row, registered, outcome, logVars>>

(* Mutant of VersionMatches: the UPDATE names the session alone.           *)
VersionUnchecked(j) == TRUE

VersionMatches(j) == row[SessionOf[j]].version = snap[j].version

MoveToWaiting(j) ==
    /\ FSM!Allowed(snap[j].state, "WaitingForHuman")
    /\ VersionMatches(j)
    /\ row' = [row EXCEPT ![SessionOf[j]] =
                 [state |-> "WaitingForHuman", version |-> @.version + 1]]

Hold(j) ==
    /\ Returns(j, "hold", "held")
    /\ MoveToWaiting(j)
    /\ UNCHANGED <<jstate, attempts, registered, snap, logVars>>

HoldLostRace(j) ==
    /\ Returns(j, "hold", "dropped")
    /\ FSM!Allowed(snap[j].state, "WaitingForHuman")
    /\ ~VersionMatches(j)
    /\ UNCHANGED <<jstate, attempts, row, registered, snap, logVars>>

(* The attempts that have executed for a key and not recorded it, and how  *)
(* many executions are over: recorded, or cut short before that.           *)
Unrecorded(k) == {i \in ToolJobs : KeyOf[i] = k /\ apc[i] = "log"}

Settled(k) == executions[k] - Cardinality(Unrecorded(k))

(* Mutant of CheckAudit: the audit log is not asked.                       *)
CheckNothing(j) ==
    /\ At(j, "check", "execute")
    /\ seen' = [seen EXCEPT ![j] = Settled(KeyOf[j])]
    /\ UNCHANGED <<jstate, attempts, row, registered, snap, outcome, audited,
                   executions, cut, raced>>

(* AuditLogger.IsExecuted.                                                 *)
CheckAudit(j) ==
    /\ \/ /\ KeyOf[j] \in audited
          /\ Returns(j, "check", "skipped")
          /\ UNCHANGED seen
       \/ /\ KeyOf[j] \notin audited
          /\ At(j, "check", "execute")
          /\ seen' = [seen EXCEPT ![j] = Settled(KeyOf[j])]
          /\ UNCHANGED outcome
    /\ UNCHANGED <<jstate, attempts, row, registered, snap, audited, executions,
                   cut, raced>>

(* Registry.Execute of the Write tool: the world has changed.  Did a rival *)
(* change it too, and was that not over when j asked the audit log?        *)
Executed(j) ==
    /\ executions' = [executions EXCEPT ![KeyOf[j]] = @ + 1]
    /\ raced' = [raced EXCEPT ![KeyOf[j]] =
                    IF executions[KeyOf[j]] # seen[j] THEN @ + 1 ELSE @]

(* Mutant of ExecuteWrite: the error of the tool is swallowed.             *)
ExecuteSwallowed(j) ==
    /\ At(j, "execute", "log")
    /\ UNCHANGED <<jstate, attempts, row, registered, snap, outcome, logVars>>

ExecuteWrite(j) ==
    /\ At(j, "execute", "log")
    /\ Executed(j)
    /\ UNCHANGED <<jstate, attempts, row, registered, snap, outcome, audited,
                   cut, seen>>

(* AuditLogger.Log.                                                        *)
StoreAudit(j) == audited' = audited \cup {KeyOf[j]}

WriteAudit(j) ==
    /\ Returns(j, "log", "logged")
    /\ StoreAudit(j)
    /\ UNCHANGED <<jstate, attempts, row, registered, snap, executions, cut,
                   seen, raced>>

(* Read and Draft tools change nothing outside.                            *)
RunReadOrDraft(j) ==
    /\ Returns(j, "run", "ran")
    /\ UNCHANGED <<jstate, attempts, row, registered, snap, logVars>>

CompleteJob(j) ==
    /\ At(j, "nil", "idle")
    /\ Complete(j)
    /\ UNCHANGED <<row, registered, snap, outcome, logVars>>

(* A call returned an error, or the worker died: before its write, or      *)
(* after it was done or stored.                                            *)
CutShort(j) == cut' = [cut EXCEPT ![KeyOf[j]] = @ + 1]

AttemptFails(j) ==
    /\ Retry(j)
    /\ apc' = [apc EXCEPT ![j] = "idle"]
    /\ IF apc[j] = "log" THEN CutShort(j) ELSE UNCHANGED cut
    /\ UNCHANGED <<row, registered, snap, outcome, audited, executions, seen,
                   raced>>

AttemptFailsAfterWrite(j) ==
    /\ Retry(j)
    /\ apc' = [apc EXCEPT ![j] = "idle"]
    /\ \/ /\ apc[j] = "hold"
          /\ MoveToWaiting(j)
          /\ UNCHANGED logVars
       \/ /\ apc[j] = "execute"
          /\ Executed(j)
          /\ CutShort(j)
          /\ UNCHANGED <<row, audited, seen>>
       \/ /\ apc[j] = "log"
          /\ StoreAudit(j)
          /\ UNCHANGED <<row, executions, cut, seen, raced>>
    /\ UNCHANGED <<registered, snap, outcome>>

-----------------------------------------------------------------------------
Work(j) ==
    \/ GetTool(j) \/ LoadSession(j) \/ Hold(j) \/ HoldLostRace(j)
    \/ CheckAudit(j) \/ ExecuteWrite(j) \/ WriteAudit(j) \/ RunReadOrDraft(j)

(* What the attempts of a tool job do.                                     *)
ToolAttempt(j) ==
    \/ StartAttempt(j) \/ Work(j) \/ CompleteJob(j)
    \/ AttemptFails(j) \/ AttemptFailsAfterWrite(j)

-----------------------------------------------------------------------------
(***************************************************************************)
(* Properties.                                                             *)
(***************************************************************************)

(* The audit log is complete for what was finished (NFR-15): a completed   *)
(* call of a Write tool above the threshold is in it, and what is in it    *)
(* was really done.                                                        *)
AuditIsTrue ==
    /\ \A k \in audited : executions[k] > 0
    /\ \A j \in ToolJobs :
         jstate[j] = "completed" /\ Kind(j) = Write /\ j \in Confident
           => KeyOf[j] \in audited

(* A Write tool runs again for a key for two reasons only: an attempt was  *)
(* cut short between its effect and its audit record, or two jobs with the *)
(* same key overlapped, one between the audit log and the tool and one     *)
(* between the tool and the audit log.  Neither retries nor further jobs   *)
(* repeat it otherwise (NFR-4).                                            *)
RepeatedOnlyInWindow ==
    \A k \in Keys : executions[k] <= 1 + cut[k] + raced[k]

(* A held call leaves the world alone: whatever is retried, a job below    *)
(* the threshold never runs its Write tool, and when it is held its        *)
(* session has been moved on for a human since it was loaded.              *)
HeldWithoutEffect ==
    \A j \in ToolJobs \ Confident : Kind(j) = Write =>
        /\ (\A i \in ToolJobs : KeyOf[i] = KeyOf[j] => i = j) => executions[KeyOf[j]] = 0
        /\ outcome[j] = "held" => row[SessionOf[j]].version > snap[j].version

(* A session moves along the edges of the table from the state it is in,   *)
(* although the gate asks the table about a copy which others may have     *)
(* made old: a call that is held late does not call back a session that is *)
(* over.                                                                   *)
SessionsMoveLegally == [][FSM!Next]_row

-----------------------------------------------------------------------------
(* NFR-4 (docs/requirements.md): all Write Tool operations are idempotent  *)
(* via unique operation keys.  An attempt that dies after the tool ran and *)
(* before its audit record is stored makes the retry run the tool again.   *)
ExecutedAtMostOnce == \A k \in Keys : executions[k] <= 1
=============================================================================
