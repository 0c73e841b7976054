-------------------------- MODULE AgentJobs_proofs --------------------------
(***************************************************************************)
(* Theorems about AgentJobs: for any number of jobs, keys, tools, sessions *)
(* and attempts, the audit log tells the truth, a Write tool is repeated   *)
(* only in the two windows, a held call has no effect, and what is found   *)
(* under the key of a row of the artifact table is accounted for.          *)
(***************************************************************************)
EXTENDS AgentJobs, FiniteSetTheorems, TLAPS

-----------------------------------------------------------------------------
(* The invariant of the queue. *)
RiverInv ==
    /\ RiverTypeOK
    /\ \A j \in Jobs : jstate[j] = "running" => attempts[j] > 0

(* Where an attempt is says what its call is, and how far it has come.     *)
Sure(j) == Kind(j) = Write /\ j \in Confident

PlacesOf(j) ==
    /\ apc[j] \in {"load", "hold"} => Kind(j) = Write /\ j \notin Confident
    /\ apc[j] \in {"check", "execute", "log"} => Sure(j)
    /\ apc[j] = "run" => Kind(j) # Write
    /\ apc[j] \in {"get", "load", "hold"} => outcome[j] = "open"
    /\ apc[j] # "idle" => jstate[j] = "running"
    /\ Sure(j) /\ (apc[j] = "nil" \/ jstate[j] = "completed") => KeyOf[j] \in audited

Places == \A j \in ToolJobs : PlacesOf(j)

(* What the audit log, the executions and the attempts have to do with one *)
(* another.  As long as a key is not in the log, every execution for it    *)
(* was cut short or is about to be recorded; an attempt that asked the log *)
(* and did not find the key has seen no more than those that were cut      *)
(* short.                                                                  *)
LogOf(k) ==
    /\ IsFiniteSet(Unrecorded(k))
    /\ k \in audited => executions[k] > 0
    /\ k \notin audited => executions[k] = cut[k] + Cardinality(Unrecorded(k))
    /\ executions[k] <= 1 + cut[k] + raced[k]

Log ==
    /\ \A k \in Keys : LogOf(k)
    /\ \A j \in ToolJobs :
         /\ apc[j] = "log" => executions[KeyOf[j]] > 0
         /\ apc[j] = "execute" => seen[j] <= cut[KeyOf[j]]

ToolInv == TypeOK /\ Places /\ Log /\ HeldWithoutEffect

(* Under the key of a job that has stored its artifact is what has become  *)
(* of it.                                                                  *)
FateShows(j) ==
    LET k == Artifacts!deterministicKey(j) IN
    fate[j] # "never" =>
        /\ k \in Artifacts!Key
        /\ \/ fate[j] = "kept" /\ object[k] = j
           \/ /\ fate[j] = "replaced"
              /\ object[k] \in ArtifactJobs \ {j}
              /\ Artifacts!Alike(object[k], j)
           \/ fate[j] = "removed" /\ object[k] = None

ObjectsInv ==
    /\ object \in [Artifacts!Key -> ArtifactJobs \cup {None}]
    /\ fate \in [ArtifactJobs -> {"never", "kept", "replaced", "removed"}]
    /\ \A j \in ArtifactJobs : FateShows(j)

(* The object of an artifact is stored before its row.                     *)
RowsInv ==
    /\ artifact \in SUBSET Artifacts!ArtifactRow
    /\ gpc \in [ArtifactJobs -> {"idle", "generate", "create", "nil"}]
    /\ \A j \in ArtifactJobs : gpc[j] = "create" => fate[j] # "never"
    /\ \A a \in artifact : /\ a.key = Artifacts!deterministicKey(a.by)
                            /\ fate[a.by] # "never"

ArtifactInv == ObjectsInv /\ RowsInv

IInv == RiverInv /\ ToolInv /\ ArtifactInv

-----------------------------------------------------------------------------
(* What River does to one job it does to no other.                         *)
LEMMA RiverStep ==
  ASSUME RiverInv, NEW j \in Jobs, Start(j) \/ Complete(j) \/ Retry(j)
  PROVE  /\ RiverInv'
         /\ \A i \in Jobs \ {j} : jstate'[i] = jstate[i]
         /\ Start(j) => jstate[j] = "available" /\ jstate'[j] = "running"
         /\ Retry(j) => jstate'[j] # "completed"
  BY RiverAssumption DEF RiverInv, RiverTypeOK, JobState, Start, Complete, Retry

LEMMA InitInv == Init => IInv
<1> SUFFICES ASSUME Init PROVE IInv
  OBVIOUS
<1>1. RiverInv
  BY RiverAssumption DEF Init, RiverInit, RiverInv, RiverTypeOK, JobState
<1>2. TypeOK
  BY <1>1, ToolAssumption DEF Init, ToolInit, TypeOK, RiverInv, Row, Opened, FSM!State
<1>3. \A j \in ToolJobs : apc[j] = "idle" /\ outcome[j] = "open" /\ jstate[j] # "completed"
  BY ToolAssumption DEF Init, ToolInit, RiverInit
<1>4. Places
  BY <1>3 DEF Places, PlacesOf
<1>5. Log
  <2>1. \A k \in Keys : Unrecorded(k) = {}
    BY <1>3 DEF Unrecorded
  <2>2. audited = {} /\ \A k \in Keys : executions[k] = 0 /\ cut[k] = 0 /\ raced[k] = 0
    BY DEF Init, ToolInit
  <2> QED
    BY <1>3, <2>1, <2>2, FS_EmptySet DEF Log, LogOf
<1>6. HeldWithoutEffect
  BY <1>3, ToolAssumption DEF Init, ToolInit, HeldWithoutEffect
<1>7. ArtifactInv
  BY DEF Init, Artifacts!ArtifactInit, ArtifactInv, ObjectsInv, RowsInv, FateShows
<1> QED
  BY <1>1, <1>2, <1>4, <1>5, <1>6, <1>7 DEF IInv, ToolInv

-----------------------------------------------------------------------------
(* While a key is not in the log, what is over was cut short.              *)
LEMMA SettledIsCut ==
  ASSUME TypeOK, Log, NEW k \in Keys, k \notin audited
  PROVE  Settled(k) = cut[k] /\ cut[k] \in Nat
<1>1. /\ executions[k] = cut[k] + Cardinality(Unrecorded(k))
      /\ IsFiniteSet(Unrecorded(k)) /\ cut[k] \in Nat
  BY DEF Log, LogOf, TypeOK
<1>2. Cardinality(Unrecorded(k)) \in Nat
  BY <1>1, FS_CardinalityType
<1> QED
  BY <1>1, <1>2 DEF Settled

(* The steps of tool jobs, one conjunct at a time.  First the types.       *)
LEMMA ToolTypes ==
  ASSUME TypeOK, Log, RiverInv, NEW j \in ToolJobs, ToolAttempt(j)
  PROVE  TypeOK' /\ RiverInv'
<1>0. /\ j \in Jobs /\ KeyOf[j] \in Keys /\ SessionOf[j] \in Sessions
      /\ row[SessionOf[j]] \in Row /\ row[SessionOf[j]].version + 1 \in Nat
  BY ToolAssumption DEF TypeOK, Row
<1>1. CASE StartAttempt(j)
  BY <1>0, <1>1, RiverStep DEF StartAttempt, TypeOK, RiverInv, logVars
<1>2. CASE GetTool(j)
  BY <1>2 DEF GetTool, At, TypeOK, RiverInv, RiverTypeOK, logVars
<1>3. CASE LoadSession(j)
  BY <1>0, <1>3 DEF LoadSession, At, TypeOK, RiverInv, RiverTypeOK, logVars
<1>4. CASE Hold(j)
  BY <1>0, <1>4 DEF Hold, Returns, At, MoveToWaiting, TypeOK, Row, FSM!State,
                    RiverInv, RiverTypeOK, logVars
<1>5. CASE HoldLostRace(j)
  BY <1>5 DEF HoldLostRace, Returns, At, TypeOK, RiverInv, RiverTypeOK, logVars
<1>6. CASE CheckAudit(j)
  <2>1. CASE KeyOf[j] \in audited
    BY <1>6, <2>1 DEF CheckAudit, Returns, At, TypeOK, RiverInv, RiverTypeOK
  <2>2. CASE KeyOf[j] \notin audited
    <3>1. Settled(KeyOf[j]) \in Nat
      BY <1>0, <2>2, SettledIsCut
    <3> QED
      BY <1>6, <2>2, <3>1 DEF CheckAudit, At, TypeOK, RiverInv, RiverTypeOK
  <2> QED
    BY <2>1, <2>2
<1>7. CASE ExecuteWrite(j)
  BY <1>0, <1>7 DEF ExecuteWrite, Executed, At, TypeOK, RiverInv, RiverTypeOK
<1>8. CASE WriteAudit(j)
  BY <1>0, <1>8 DEF WriteAudit, StoreAudit, Returns, At, TypeOK, RiverInv, RiverTypeOK
<1>9. CASE RunReadOrDraft(j)
  BY <1>9 DEF RunReadOrDraft, Returns, At, TypeOK, RiverInv, RiverTypeOK, logVars
<1>10. CASE CompleteJob(j)
  BY <1>0, <1>10, RiverStep DEF CompleteJob, At, TypeOK, RiverInv, logVars
<1>11. CASE AttemptFails(j)
  BY <1>0, <1>11, RiverStep DEF AttemptFails, CutShort, TypeOK, RiverInv
<1>12. CASE AttemptFailsAfterWrite(j)
  <2>1. RiverInv' /\ apc' \in [ToolJobs -> {"idle", "get", "load", "hold", "check",
                               "execute", "log", "run", "nil"}]
    BY <1>0, <1>12, RiverStep DEF AttemptFailsAfterWrite, TypeOK
  <2>2. row' \in [Sessions -> Row]
    BY <1>0, <1>12 DEF AttemptFailsAfterWrite, MoveToWaiting, TypeOK, Row, FSM!State
  <2>3. /\ audited' \in SUBSET Keys /\ executions' \in [Keys -> Nat]
        /\ cut' \in [Keys -> Nat] /\ raced' \in [Keys -> Nat]
    BY <1>0, <1>12 DEF AttemptFailsAfterWrite, CutShort, Executed, StoreAudit, TypeOK, logVars
  <2>4. UNCHANGED <<registered, snap, outcome, seen>>
    BY <1>12 DEF AttemptFailsAfterWrite, logVars
  <2> QED
    BY <2>1, <2>2, <2>3, <2>4 DEF TypeOK, RiverInv
<1> QED
  BY <1>1, <1>2, <1>3, <1>4, <1>5, <1>6, <1>7, <1>8, <1>9, <1>10, <1>11, <1>12
     DEF ToolAttempt, Work

(* An attempt of one job changes nothing of another, and takes nothing out *)
(* of the log.                                                             *)
LEMMA OtherJobs ==
  ASSUME TypeOK, RiverInv, NEW j \in ToolJobs, ToolAttempt(j)
  PROVE  /\ \A i \in ToolJobs \ {j} :
              /\ apc'[i] = apc[i] /\ outcome'[i] = outcome[i] /\ snap'[i] = snap[i]
              /\ jstate'[i] = jstate[i] /\ seen'[i] = seen[i]
         /\ audited \subseteq audited'
<1> USE DEF TypeOK, logVars
<1>0. j \in Jobs /\ ToolJobs \subseteq Jobs
  BY ToolAssumption
<1>1. CASE StartAttempt(j)
  BY <1>0, <1>1, RiverStep DEF StartAttempt
<1>2. CASE Work(j)
  BY <1>2 DEF Work, GetTool, LoadSession, Hold, HoldLostRace, CheckAudit, ExecuteWrite,
     WriteAudit, RunReadOrDraft, Returns, At, StoreAudit
<1>3. CASE CompleteJob(j)
  BY <1>0, <1>3, RiverStep DEF CompleteJob, At
<1>4. CASE AttemptFails(j)
  BY <1>0, <1>4, RiverStep DEF AttemptFails
<1>5. CASE AttemptFailsAfterWrite(j)
  BY <1>0, <1>5, RiverStep DEF AttemptFailsAfterWrite, StoreAudit
<1> QED
  BY <1>1, <1>2, <1>3, <1>4, <1>5 DEF ToolAttempt

LEMMA ToolPlaces ==
  ASSUME TypeOK, RiverInv, Places, NEW j \in ToolJobs, ToolAttempt(j)
  PROVE  Places'
<1> USE DEF TypeOK, PlacesOf, Sure, Kind, Places
<1>0. j \in Jobs /\ Kind(j) \in ToolKind
  BY ToolAssumption
<1>1. PlacesOf(j)'
  <2>1. CASE StartAttempt(j)
    BY <1>0, <2>1, RiverStep DEF StartAttempt
  <2>2. CASE GetTool(j)
    <3>1. /\ apc'[j] = IF Kind(j) # Write THEN "run"
                       ELSE IF j \in Confident THEN "check" ELSE "load"
          /\ jstate[j] = "running" /\ apc[j] = "get"
          /\ UNCHANGED <<jstate, outcome, audited>>
      BY <2>2 DEF GetTool, At, Evaluate, logVars
    <3>2. outcome[j] = "open" \/ outcome[j] # "open"
      OBVIOUS
    <3> QED
      BY <3>1
  <2>3. CASE LoadSession(j)
    BY <2>3 DEF LoadSession, At, logVars
  <2>4. CASE Hold(j)
    BY <2>4 DEF Hold, Returns, At, logVars
  <2>5. CASE HoldLostRace(j)
    BY <2>5 DEF HoldLostRace, Returns, At, logVars
  <2>6. CASE CheckAudit(j)
    BY <2>6 DEF CheckAudit, Returns, At
  <2>7. CASE ExecuteWrite(j)
    BY <2>7 DEF ExecuteWrite, At
  <2>8. CASE WriteAudit(j)
    BY <2>8 DEF WriteAudit, Returns, At, StoreAudit
  <2>9. CASE RunReadOrDraft(j)
    BY <2>9 DEF RunReadOrDraft, Returns, At, logVars
  <2>10. CASE CompleteJob(j)
    BY <2>10 DEF CompleteJob, At, logVars
  <2>11. CASE AttemptFails(j) \/ AttemptFailsAfterWrite(j)
    <3>1. apc' = [apc EXCEPT ![j] = "idle"] /\ Retry(j)
      BY <2>11 DEF AttemptFails, AttemptFailsAfterWrite
    <3>2. apc'[j] = "idle" /\ jstate'[j] # "completed"
      BY <1>0, <3>1, RiverStep
    <3> QED
      BY <3>2
  <2> QED
    BY <2>1, <2>2, <2>3, <2>4, <2>5, <2>6, <2>7, <2>8, <2>9, <2>10, <2>11
       DEF ToolAttempt, Work
<1>2. \A i \in ToolJobs \ {j} : PlacesOf(i)'
  BY OtherJobs
<1> QED
  BY <1>1, <1>2

-----------------------------------------------------------------------------
(* The log.  First the steps that do not touch what it is about.           *)
LEMMA QuietLog ==
  ASSUME Log, UNCHANGED logVars,
         \A i \in ToolJobs : /\ apc'[i] = "log" <=> apc[i] = "log"
                             /\ apc'[i] = "execute" => apc[i] = "execute"
  PROVE  Log'
<1>1. \A k \in Keys : Unrecorded(k)' = Unrecorded(k)
  BY DEF Unrecorded
<1> QED
  BY <1>1 DEF Log, LogOf, logVars

(* A job that has executed is one more whose execution is not recorded,    *)
(* until it is recorded or cut short.                                      *)
LEMMA Executes ==
  ASSUME TypeOK, Log, NEW j \in ToolJobs, apc[j] # "log",
         apc' = [apc EXCEPT ![j] = "log"]
  PROVE  \A k \in Keys :
           /\ IsFiniteSet(Unrecorded(k)')
           /\ Cardinality(Unrecorded(k)') = IF k = KeyOf[j]
                                            THEN Cardinality(Unrecorded(k)) + 1
                                            ELSE Cardinality(Unrecorded(k))
<1> TAKE k \in Keys
<1>1. IsFiniteSet(Unrecorded(k))
  BY DEF Log, LogOf
<1>2. CASE k = KeyOf[j]
  <2>1. j \notin Unrecorded(k) /\ Unrecorded(k)' = Unrecorded(k) \cup {j}
    BY <1>2 DEF Unrecorded, TypeOK
  <2> QED
    BY <1>1, <1>2, <2>1, FS_AddElement
<1>3. CASE k # KeyOf[j]
  <2>1. Unrecorded(k)' = Unrecorded(k)
    BY <1>3 DEF Unrecorded, TypeOK
  <2> QED
    BY <1>1, <1>3, <2>1
<1> QED
  BY <1>2, <1>3

LEMMA Leaves ==
  ASSUME TypeOK, Log, NEW j \in ToolJobs, apc[j] = "log",
         NEW x, x # "log", apc' = [apc EXCEPT ![j] = x]
  PROVE  \A k \in Keys :
           /\ IsFiniteSet(Unrecorded(k)')
           /\ Cardinality(Unrecorded(k)') = IF k = KeyOf[j]
                                            THEN Cardinality(Unrecorded(k)) - 1
                                            ELSE Cardinality(Unrecorded(k))
<1> TAKE k \in Keys
<1>1. IsFiniteSet(Unrecorded(k))
  BY DEF Log, LogOf
<1>2. CASE k = KeyOf[j]
  <2>1. j \in Unrecorded(k) /\ Unrecorded(k)' = Unrecorded(k) \ {j}
    BY <1>2 DEF Unrecorded, TypeOK
  <2> QED
    BY <1>1, <1>2, <2>1, FS_RemoveElement
<1>3. CASE k # KeyOf[j]
  <2>1. Unrecorded(k)' = Unrecorded(k)
    BY <1>3 DEF Unrecorded, TypeOK
  <2> QED
    BY <1>1, <1>3, <2>1
<1> QED
  BY <1>2, <1>3

(* A tool that runs: either nothing was over but what was cut short, or    *)
(* the execution counts as raced.                                          *)
LEMMA ExecutedCounts ==
  ASSUME TypeOK, Log, NEW j \in ToolJobs, apc[j] = "execute", Executed(j)
  PROVE  /\ \A k \in Keys : /\ executions'[k] = IF k = KeyOf[j] THEN executions[k] + 1
                                                              ELSE executions[k]
                            /\ raced'[k] \in Nat /\ raced'[k] >= raced[k]
         /\ executions'[KeyOf[j]] <= 1 + cut[KeyOf[j]] + raced'[KeyOf[j]]
<1> DEFINE key == KeyOf[j]
<1>1. /\ key \in Keys /\ seen[j] \in Nat /\ seen[j] <= cut[key]
      /\ executions \in [Keys -> Nat] /\ raced \in [Keys -> Nat] /\ cut \in [Keys -> Nat]
  BY ToolAssumption DEF TypeOK, Log
<1>2. /\ executions' = [executions EXCEPT ![key] = @ + 1]
      /\ raced' = [raced EXCEPT ![key] = IF executions[key] # seen[j] THEN @ + 1 ELSE @]
  BY DEF Executed
<1> HIDE DEF key
<1>3. \A k \in Keys : /\ executions'[k] = IF k = key THEN executions[k] + 1 ELSE executions[k]
                      /\ raced'[k] \in Nat /\ raced'[k] >= raced[k]
  BY <1>1, <1>2
<1>4. executions'[key] <= 1 + cut[key] + raced'[key]
  <2>1. executions[key] <= 1 + cut[key] + raced[key]
    BY <1>1 DEF Log, LogOf
  <2>2. CASE executions[key] = seen[j]
    BY <1>1, <1>2, <2>2
  <2>3. CASE executions[key] # seen[j]
    BY <1>1, <1>2, <2>1, <2>3
  <2> QED
    BY <2>2, <2>3
<1> QED
  BY <1>3, <1>4 DEF key

LEMMA ToolLog ==
  ASSUME TypeOK, RiverInv, Places, Log, NEW j \in ToolJobs, ToolAttempt(j)
  PROVE  Log'
<1> DEFINE key == KeyOf[j]
<1>0. /\ key \in Keys
      /\ executions \in [Keys -> Nat] /\ raced \in [Keys -> Nat] /\ cut \in [Keys -> Nat]
      /\ \A k \in Keys : Cardinality(Unrecorded(k)) \in Nat
  BY ToolAssumption, FS_CardinalityType DEF TypeOK, Log, LogOf
<1>1. ASSUME UNCHANGED logVars, apc[j] # "log", apc'[j] # "log", apc'[j] # "execute"
      PROVE  Log'
  <2>1. \A i \in ToolJobs : /\ apc'[i] = "log" <=> apc[i] = "log"
                            /\ apc'[i] = "execute" => apc[i] = "execute"
    BY <1>1, OtherJobs
  <2> QED
    BY <1>1, <2>1, QuietLog
<1>2. CASE StartAttempt(j)
  <2>1. apc[j] = "idle"
    BY <1>2, ToolAssumption DEF StartAttempt, Start, Places, PlacesOf
  <2>2. UNCHANGED logVars /\ apc'[j] = "get"
    BY <1>2 DEF StartAttempt, TypeOK
  <2> QED
    BY <1>1, <2>1, <2>2
<1>3. CASE GetTool(j)
  <2>1. UNCHANGED logVars /\ apc'[j] \in {"run", "check", "load"} /\ apc[j] = "get"
    BY <1>3 DEF GetTool, At, TypeOK
  <2> QED
    BY <1>1, <2>1
<1>4. CASE LoadSession(j)
  <2>1. UNCHANGED logVars /\ apc'[j] = "hold" /\ apc[j] = "load"
    BY <1>4 DEF LoadSession, At, TypeOK
  <2> QED
    BY <1>1, <2>1
<1>5. CASE Hold(j) \/ HoldLostRace(j)
  <2>1. UNCHANGED logVars /\ apc'[j] = "nil" /\ apc[j] = "hold"
    BY <1>5 DEF Hold, HoldLostRace, Returns, At, TypeOK
  <2> QED
    BY <1>1, <2>1
<1>6. CASE CheckAudit(j)
  <2>1. CASE key \in audited
    <3>1. UNCHANGED logVars /\ apc'[j] = "nil" /\ apc[j] = "check"
      BY <1>6, <2>1 DEF CheckAudit, Returns, At, logVars, TypeOK
    <3> QED
      BY <1>1, <3>1
  <2>2. CASE key \notin audited
    <3>1. /\ apc' = [apc EXCEPT ![j] = "execute"] /\ apc[j] = "check"
          /\ seen' = [seen EXCEPT ![j] = Settled(key)]
          /\ UNCHANGED <<audited, executions, cut, raced>>
      BY <1>6, <2>2 DEF CheckAudit, At
    <3>2. Settled(key) = cut[key]
      BY <1>0, <2>2, SettledIsCut
    <3>3. \A k \in Keys : Unrecorded(k)' = Unrecorded(k)
      BY <3>1 DEF Unrecorded, TypeOK
    <3>4. \A k \in Keys : LogOf(k)'
      BY <3>1, <3>3 DEF Log, LogOf
    <3>5. ASSUME NEW i \in ToolJobs
          PROVE  /\ apc'[i] = "log" => executions'[KeyOf[i]] > 0
                 /\ apc'[i] = "execute" => seen'[i] <= cut'[KeyOf[i]]
      <4>1. CASE i = j
        BY <1>0, <3>1, <3>2, <4>1 DEF TypeOK
      <4>2. CASE i # j
        BY <3>1, <4>2 DEF TypeOK, Log
      <4> QED
        BY <4>1, <4>2
    <3> QED
      BY <3>4, <3>5 DEF Log
  <2> QED
    BY <2>1, <2>2
<1>7. CASE ExecuteWrite(j)
  <2>1. /\ apc' = [apc EXCEPT ![j] = "log"] /\ apc[j] = "execute" /\ Executed(j)
        /\ UNCHANGED <<audited, cut, seen>>
    BY <1>7 DEF ExecuteWrite, At
  <2>2. /\ \A k \in Keys :
             /\ executions'[k] = IF k = key THEN executions[k] + 1 ELSE executions[k]
             /\ raced'[k] \in Nat /\ raced'[k] >= raced[k]
        /\ executions'[key] <= 1 + cut[key] + raced'[key]
    BY <2>1, ExecutedCounts
  <2>3. \A k \in Keys :
           /\ IsFiniteSet(Unrecorded(k)')
           /\ Cardinality(Unrecorded(k)') = IF k = key THEN Cardinality(Unrecorded(k)) + 1
                                                      ELSE Cardinality(Unrecorded(k))
    BY <2>1, Executes
  <2> HIDE DEF key
  <2>4. \A k \in Keys : LogOf(k)'
    BY <1>0, <2>1, <2>2, <2>3 DEF Log, LogOf
  <2>5. ASSUME NEW i \in ToolJobs
        PROVE  /\ apc'[i] = "log" => executions'[KeyOf[i]] > 0
               /\ apc'[i] = "execute" => seen'[i] <= cut'[KeyOf[i]]
    <3>1. KeyOf[i] \in Keys
      BY ToolAssumption
    <3>2. CASE i = j
      BY <1>0, <2>1, <2>2, <3>1, <3>2 DEF TypeOK, key
    <3>3. CASE i # j
      <4>1. apc'[i] = apc[i]
        BY <2>1, <3>3 DEF TypeOK
      <4> QED
        BY <1>0, <2>1, <2>2, <3>1, <4>1 DEF Log
    <3> QED
      BY <3>2, <3>3
  <2> QED
    BY <2>4, <2>5 DEF Log
<1>8. ASSUME NEW x \in {"idle", "nil"}, apc' = [apc EXCEPT ![j] = x], apc[j] = "log",
             audited' = audited \cup {key}, UNCHANGED <<executions, cut, seen, raced>>
      PROVE  Log'
  <2>1. \A k \in Keys :
           /\ IsFiniteSet(Unrecorded(k)')
           /\ Cardinality(Unrecorded(k)') = IF k = key THEN Cardinality(Unrecorded(k)) - 1
                                                      ELSE Cardinality(Unrecorded(k))
    BY <1>8, Leaves
  <2>2. executions[key] > 0
    BY <1>8 DEF Log
  <2> HIDE DEF key
  <2>3. \A k \in Keys : LogOf(k)'
    BY <1>0, <1>8, <2>1, <2>2 DEF Log, LogOf
  <2>4. \A i \in ToolJobs : apc'[i] \in {"log", "execute"} => apc'[i] = apc[i]
    BY <1>8 DEF TypeOK
  <2> QED
    BY <1>8, <2>3, <2>4 DEF Log
<1>9. CASE WriteAudit(j)
  BY <1>8, <1>9 DEF WriteAudit, StoreAudit, Returns, At
<1>10. CASE RunReadOrDraft(j)
  <2>1. UNCHANGED logVars /\ apc'[j] = "nil" /\ apc[j] = "run"
    BY <1>10 DEF RunReadOrDraft, Returns, At, TypeOK
  <2> QED
    BY <1>1, <2>1
<1>11. CASE CompleteJob(j)
  <2>1. UNCHANGED logVars /\ apc'[j] = "idle" /\ apc[j] = "nil"
    BY <1>11 DEF CompleteJob, At, TypeOK
  <2> QED
    BY <1>1, <2>1
<1>12. CASE AttemptFails(j)
  <2>1. apc' = [apc EXCEPT ![j] = "idle"] /\ UNCHANGED <<audited, executions, seen, raced>>
    BY <1>12 DEF AttemptFails
  <2>2. CASE apc[j] = "log"
    <3>1. cut' = [cut EXCEPT ![key] = @ + 1]
      BY <1>12, <2>2 DEF AttemptFails, CutShort
    <3>2. \A k \in Keys :
             /\ IsFiniteSet(Unrecorded(k)')
             /\ Cardinality(Unrecorded(k)') = IF k = key THEN Cardinality(Unrecorded(k)) - 1
                                                        ELSE Cardinality(Unrecorded(k))
      BY <2>1, <2>2, Leaves
    <3> HIDE DEF key
    <3>3. \A k \in Keys : cut'[k] = IF k = key THEN cut[k] + 1 ELSE cut[k]
      BY <1>0, <3>1
    <3>4. \A k \in Keys : LogOf(k)'
      BY <1>0, <2>1, <3>2, <3>3 DEF Log, LogOf, TypeOK
    <3>5. \A i \in ToolJobs : /\ apc'[i] \in {"log", "execute"} => apc'[i] = apc[i]
                              /\ KeyOf[i] \in Keys /\ seen[i] \in Nat
      BY <2>1, ToolAssumption DEF TypeOK
    <3>6. ASSUME NEW i \in ToolJobs, apc'[i] = "execute"
          PROVE  seen'[i] <= cut'[KeyOf[i]]
      <4>1. /\ seen'[i] = seen[i] /\ seen[i] <= cut[KeyOf[i]]
            /\ KeyOf[i] \in Keys /\ seen[i] \in Nat
        BY <2>1, <3>5, <3>6 DEF Log
      <4> QED
        BY <1>0, <3>3, <4>1
    <3>7. \A i \in ToolJobs : apc'[i] = "log" => executions'[KeyOf[i]] > 0
      BY <2>1, <3>5 DEF Log
    <3> QED
      BY <3>4, <3>6, <3>7 DEF Log
  <2>3. CASE apc[j] # "log"
    <3>1. UNCHANGED logVars /\ apc'[j] = "idle"
      BY <1>12, <2>1, <2>3 DEF AttemptFails, logVars, TypeOK
    <3> QED
      BY <1>1, <2>3, <3>1
  <2> QED
    BY <2>2, <2>3
<1>13. CASE AttemptFailsAfterWrite(j)
  <2>1. apc' = [apc EXCEPT ![j] = "idle"]
    BY <1>13 DEF AttemptFailsAfterWrite
  <2>2. CASE apc[j] = "hold"
    <3>1. UNCHANGED logVars /\ apc'[j] = "idle"
      BY <1>13, <2>1, <2>2 DEF AttemptFailsAfterWrite, TypeOK
    <3> QED
      BY <1>1, <2>2, <3>1
  <2>3. CASE apc[j] = "execute"
    <3>1. /\ Executed(j) /\ cut' = [cut EXCEPT ![key] = @ + 1]
          /\ UNCHANGED <<audited, seen>>
      BY <1>13, <2>3 DEF AttemptFailsAfterWrite, CutShort
    <3>2. /\ \A k \in Keys :
               /\ executions'[k] = IF k = key THEN executions[k] + 1 ELSE executions[k]
               /\ raced'[k] \in Nat /\ raced'[k] >= raced[k]
          /\ executions'[key] <= 1 + cut[key] + raced'[key]
      BY <2>3, <3>1, ExecutedCounts
    <3>3. \A k \in Keys : Unrecorded(k)' = Unrecorded(k)
      BY <2>1, <2>3 DEF Unrecorded, TypeOK
    <3> HIDE DEF key
    <3>4. \A k \in Keys : cut'[k] = IF k = key THEN cut[k] + 1 ELSE cut[k]
      BY <1>0, <3>1
    <3>5. \A k \in Keys : LogOf(k)'
      BY <1>0, <3>1, <3>2, <3>3, <3>4 DEF Log, LogOf, TypeOK
    <3>6. \A i \in ToolJobs : /\ apc'[i] \in {"log", "execute"} => apc'[i] = apc[i]
                              /\ KeyOf[i] \in Keys /\ seen[i] \in Nat
      BY <2>1, ToolAssumption DEF TypeOK
    <3>7. ASSUME NEW i \in ToolJobs
          PROVE  /\ apc'[i] = "execute" => seen'[i] <= cut'[KeyOf[i]]
                 /\ apc'[i] = "log" => executions'[KeyOf[i]] > 0
      <4>1. /\ KeyOf[i] \in Keys /\ seen[i] \in Nat /\ seen'[i] = seen[i]
            /\ apc'[i] = "execute" => seen[i] <= cut[KeyOf[i]]
            /\ apc'[i] = "log" => executions[KeyOf[i]] > 0
        BY <3>1, <3>6 DEF Log
      <4> QED
        BY <1>0, <3>2, <3>4, <4>1
    <3> QED
      BY <3>5, <3>7 DEF Log
  <2>4. CASE apc[j] = "log"
    <3>1. audited' = audited \cup {key} /\ UNCHANGED <<executions, cut, seen, raced>>
      BY <1>13, <2>4 DEF AttemptFailsAfterWrite, StoreAudit
    <3> QED
      BY <1>8, <2>1, <2>4, <3>1
  <2> QED
    BY <1>13, <2>2, <2>3, <2>4 DEF AttemptFailsAfterWrite
<1> QED
  BY <1>2, <1>3, <1>4, <1>5, <1>6, <1>7, <1>9, <1>10, <1>11, <1>12, <1>13
     DEF ToolAttempt, Work

-----------------------------------------------------------------------------
(* What a tool job's step does to the session table and to the copies.     *)
LEMMA RowAndCopies ==
  ASSUME NEW j \in ToolJobs, ToolAttempt(j)
  PROVE  /\ UNCHANGED row \/ MoveToWaiting(j)
         /\ \/ UNCHANGED snap
            \/ UNCHANGED row /\ snap' = [snap EXCEPT ![j] = row[SessionOf[j]]]
  BY DEF ToolAttempt, Work, StartAttempt, GetTool, LoadSession, Hold, HoldLostRace,
     CheckAudit, ExecuteWrite, WriteAudit, RunReadOrDraft, CompleteJob, AttemptFails,
     AttemptFailsAfterWrite

(* Versions only grow, and a session that is handed to a human is at the   *)
(* version that was loaded.                                                *)
LEMMA VersionsGrow ==
  ASSUME TypeOK,
         \/ UNCHANGED row
         \/ \E s \in Sessions, st \in FSM!State :
              row' = [row EXCEPT ![s] = [state |-> st, version |-> @.version + 1]]
  PROVE  \A s \in Sessions : /\ row[s].version \in Nat /\ row'[s].version \in Nat
                             /\ row'[s].version >= row[s].version
  BY DEF TypeOK, Row

LEMMA MoveGrows ==
  ASSUME TypeOK, NEW j \in ToolJobs, MoveToWaiting(j)
  PROVE  /\ \E s \in Sessions, st \in FSM!State :
              row' = [row EXCEPT ![s] = [state |-> st, version |-> @.version + 1]]
         /\ row'[SessionOf[j]].version > snap[j].version
<1>1. SessionOf[j] \in Sessions /\ "WaitingForHuman" \in FSM!State
  BY ToolAssumption DEF FSM!State
<1>2. row' = [row EXCEPT ![SessionOf[j]] =
                [state |-> "WaitingForHuman", version |-> @.version + 1]]
      /\ row[SessionOf[j]].version = snap[j].version
  BY DEF MoveToWaiting, VersionMatches
<1>3. row'[SessionOf[j]].version = row[SessionOf[j]].version + 1
      /\ row[SessionOf[j]].version \in Nat
  BY <1>1, <1>2 DEF TypeOK, Row
<1>4. \E s \in Sessions, st \in FSM!State :
         row' = [row EXCEPT ![s] = [state |-> st, version |-> @.version + 1]]
  <2> USE <1>1
  <2> WITNESS SessionOf[j] \in Sessions
  <2> WITNESS "WaitingForHuman" \in FSM!State
  <2> QED
    BY <1>2
<1>5. row'[SessionOf[j]].version > snap[j].version
  BY <1>2, <1>3
<1> QED
  BY <1>4, <1>5, Zenon

LEMMA HeldStep ==
  ASSUME TypeOK, RiverInv, Places, HeldWithoutEffect, NEW j \in ToolJobs, ToolAttempt(j)
  PROVE  HeldWithoutEffect'
<1> SUFFICES ASSUME NEW h \in ToolJobs \ Confident, Kind(h) = Write
             PROVE  /\ (\A i \in ToolJobs : KeyOf[i] = KeyOf[h] => i = h)
                         => executions'[KeyOf[h]] = 0
                    /\ outcome'[h] = "held"
                         => row'[SessionOf[h]].version > snap'[h].version
  BY DEF HeldWithoutEffect, Kind
<1>0. SessionOf[h] \in Sessions /\ KeyOf[h] \in Keys /\ KeyOf[j] \in Keys
      /\ snap[h].version \in Nat
  BY ToolAssumption DEF TypeOK, Row
<1>1. /\ (\A i \in ToolJobs : KeyOf[i] = KeyOf[h] => i = h) => executions[KeyOf[h]] = 0
      /\ outcome[h] = "held" => row[SessionOf[h]].version > snap[h].version
  BY DEF HeldWithoutEffect
<1>2. (\A i \in ToolJobs : KeyOf[i] = KeyOf[h] => i = h) => executions'[KeyOf[h]] = 0
  <2>1. CASE UNCHANGED executions
    BY <2>1, <1>1
  <2>2. CASE apc[j] = "execute" /\ Executed(j)
    <3>1. j # h
      BY <2>2 DEF Places, PlacesOf, Sure
    <3>2. executions' = [executions EXCEPT ![KeyOf[j]] = @ + 1]
      BY <2>2 DEF Executed
    <3> QED
      BY <3>1, <3>2, <1>0, <1>1 DEF TypeOK
  <2>3. UNCHANGED executions \/ (apc[j] = "execute" /\ Executed(j))
    BY DEF ToolAttempt, Work, StartAttempt, GetTool, LoadSession, Hold, HoldLostRace,
       CheckAudit, ExecuteWrite, WriteAudit, RunReadOrDraft, CompleteJob, AttemptFails,
       AttemptFailsAfterWrite, At, Returns, logVars
  <2> QED
    BY <2>1, <2>2, <2>3
<1>3. UNCHANGED row \/ MoveToWaiting(j)
  BY RowAndCopies
<1>4. /\ row[SessionOf[h]].version \in Nat /\ row'[SessionOf[h]].version \in Nat
      /\ row'[SessionOf[h]].version >= row[SessionOf[h]].version
  BY <1>0, <1>3, VersionsGrow, MoveGrows
<1>5. outcome'[h] = "held" => row'[SessionOf[h]].version > snap'[h].version
  <2>1. CASE outcome'[h] = outcome[h] /\ snap'[h] = snap[h]
    BY <2>1, <1>0, <1>1, <1>4
  <2>2. CASE outcome'[h] # "held"
    BY <2>2
  <2>3. CASE h = j /\ Hold(j)
    <3>1. MoveToWaiting(j) /\ snap' = snap
      BY <2>3 DEF Hold
    <3> QED
      BY <2>3, <3>1, MoveGrows
  <2>4. \/ outcome'[h] = outcome[h] /\ snap'[h] = snap[h]
        \/ outcome'[h] # "held"
        \/ h = j /\ Hold(j)
    <3>1. CASE h # j
      BY <3>1, OtherJobs
    <3>2. CASE h = j
      <4>1. CASE StartAttempt(j)
        BY <3>2, <4>1 DEF StartAttempt, TypeOK
      <4>2. CASE LoadSession(j)
        BY <3>2, <4>2 DEF LoadSession, At, Places, PlacesOf
      <4>3. CASE HoldLostRace(j)
        BY <3>2, <4>3 DEF HoldLostRace, Returns, At, TypeOK
      <4>4. CASE CheckAudit(j)
        BY <3>2, <4>4 DEF CheckAudit, Returns, At, TypeOK
      <4>5. CASE WriteAudit(j) \/ RunReadOrDraft(j)
        BY <3>2, <4>5 DEF WriteAudit, RunReadOrDraft, Returns, At, TypeOK
      <4>6. CASE GetTool(j) \/ ExecuteWrite(j) \/ CompleteJob(j) \/ AttemptFails(j)
                   \/ AttemptFailsAfterWrite(j)
        BY <4>6 DEF GetTool, ExecuteWrite, CompleteJob, AttemptFails,
           AttemptFailsAfterWrite
      <4> QED
        BY <3>2, <4>1, <4>2, <4>3, <4>4, <4>5, <4>6 DEF ToolAttempt, Work
    <3> QED
      BY <3>1, <3>2
  <2> QED
    BY <2>1, <2>2, <2>3, <2>4
<1> QED
  BY <1>2, <1>5

LEMMA ToolAttemptInv ==
  ASSUME RiverInv, ToolInv, NEW j \in ToolJobs, ToolAttempt(j)
  PROVE  RiverInv' /\ ToolInv'
  BY ToolTypes, ToolPlaces, ToolLog, HeldStep DEF ToolInv

(* The registry and the other writers of the session table.                *)
LEMMA RegisterInv ==
  ASSUME RiverInv, ToolInv, NEW t \in Tools, Register(t)
  PROVE  RiverInv' /\ ToolInv'
<1>1. RiverInv' /\ TypeOK' /\ Places' /\ HeldWithoutEffect'
  BY DEF Register, RiverInv, RiverTypeOK, ToolInv, TypeOK, Places, PlacesOf, Sure, Kind,
         HeldWithoutEffect, logVars
<1>2. Log'
  BY QuietLog DEF Register, ToolInv
<1> QED
  BY <1>1, <1>2 DEF ToolInv

LEMMA OtherTransitionInv ==
  ASSUME RiverInv, ToolInv, NEW s \in Sessions, NEW to \in FSM!State,
         OtherTransition(s, to)
  PROVE  RiverInv' /\ ToolInv'
<1>1. /\ row' = [row EXCEPT ![s] = [state |-> to, version |-> @.version + 1]]
      /\ UNCHANGED <<jstate, attempts, registered, apc, snap, outcome, audited,
                     executions, cut, seen, raced>>
  BY DEF OtherTransition, toolVars, logVars
<1>2. RiverInv' /\ Places'
  BY <1>1 DEF RiverInv, RiverTypeOK, ToolInv, Places, PlacesOf, Sure, Kind
<1>3. Log'
  BY <1>1, QuietLog DEF ToolInv, logVars
<1>4. row' \in [Sessions -> Row]
  BY <1>1 DEF ToolInv, TypeOK, Row
<1>5. TypeOK'
  BY <1>1, <1>2, <1>4 DEF RiverInv, ToolInv, TypeOK
<1>6. \A x \in Sessions : /\ row[x].version \in Nat /\ row'[x].version \in Nat
                          /\ row'[x].version >= row[x].version
  BY <1>1, VersionsGrow DEF ToolInv
<1>7. \A h \in ToolJobs : SessionOf[h] \in Sessions /\ snap[h].version \in Nat
  BY ToolAssumption DEF ToolInv, TypeOK, Row
<1>8. HeldWithoutEffect'
  BY <1>1, <1>6, <1>7 DEF ToolInv, HeldWithoutEffect, Kind
<1> QED
  BY <1>2, <1>3, <1>5, <1>8 DEF ToolInv

-----------------------------------------------------------------------------
(* Artifacts.  A key is the session and the type, and nothing else.        *)
LEMMA KeysAreAlike ==
  \A i, j : /\ Artifacts!deterministicKey(i) = <<SessionOf[i], TypeOf[i]>>
            /\ Artifacts!Alike(i, j)
                 <=> Artifacts!deterministicKey(i) = Artifacts!deterministicKey(j)
  BY DEF Artifacts!Alike, Artifacts!deterministicKey

LEMMA UploadStores ==
  ASSUME ObjectsInv, NEW j \in ArtifactJobs, Artifacts!Upload(j), Artifacts!HasStored(j)
  PROVE  /\ ObjectsInv' /\ fate'[j] # "never"
         /\ \A i \in ArtifactJobs : fate[i] # "never" => fate'[i] # "never"
<1> DEFINE key(i) == Artifacts!deterministicKey(i)
<1>1. key(j) \in Artifacts!Key /\ j # None
  BY AgentAssumption DEF Artifacts!ArtifactArguments, Artifacts!Upload, Artifacts!CanGenerate,
     Artifacts!Unmarshals, Artifacts!deterministicKey, Artifacts!Key
<1>2. /\ object \in [Artifacts!Key -> ArtifactJobs \cup {None}]
      /\ fate \in [ArtifactJobs -> {"never", "kept", "replaced", "removed"}]
      /\ object' = [object EXCEPT ![key(j)] = j]
      /\ fate' = [i \in ArtifactJobs |->
                    IF i = j THEN "kept"
                    ELSE IF key(i) = key(j) /\ fate[i] # "never" THEN "replaced" ELSE fate[i]]
  BY KeysAreAlike DEF ObjectsInv, Artifacts!Upload, Artifacts!HasStored
<1>3. \A i \in ArtifactJobs : FateShows(i)' <=>
        (fate'[i] # "never" =>
           /\ key(i) \in Artifacts!Key
           /\ \/ fate'[i] = "kept" /\ object'[key(i)] = i
              \/ /\ fate'[i] = "replaced" /\ object'[key(i)] \in ArtifactJobs \ {i}
                 /\ key(object'[key(i)]) = key(i)
              \/ fate'[i] = "removed" /\ object'[key(i)] = None)
  BY KeysAreAlike DEF FateShows, Artifacts!Alike, Artifacts!deterministicKey, Artifacts!Key
<1>4. \A i \in ArtifactJobs : fate[i] # "never" =>
           /\ key(i) \in Artifacts!Key
           /\ \/ fate[i] = "kept" /\ object[key(i)] = i
              \/ /\ fate[i] = "replaced" /\ object[key(i)] \in ArtifactJobs \ {i}
                 /\ key(object[key(i)]) = key(i)
              \/ fate[i] = "removed" /\ object[key(i)] = None
  BY KeysAreAlike DEF ObjectsInv, FateShows
<1> HIDE DEF key
<1>5. /\ object' \in [Artifacts!Key -> ArtifactJobs \cup {None}]
      /\ fate' \in [ArtifactJobs -> {"never", "kept", "replaced", "removed"}]
      /\ fate'[j] # "never"
      /\ \A i \in ArtifactJobs : fate[i] # "never" => fate'[i] # "never"
  BY <1>1, <1>2
<1>6. ASSUME NEW i \in ArtifactJobs PROVE FateShows(i)'
  <2>1. CASE i = j
    BY <1>1, <1>2, <1>3, <2>1
  <2>2. CASE i # j /\ key(i) = key(j)
    BY <1>1, <1>2, <1>3, <2>2
  <2>3. CASE key(i) # key(j)
    <3>1. \/ fate'[i] = fate[i] /\ object'[key(i)] = object[key(i)]
          \/ fate'[i] = "never"
      BY <1>1, <1>2, <1>4, <2>3
    <3> QED
      BY <1>2, <1>3, <1>4, <2>3, <3>1
  <2> QED
    BY <2>1, <2>2, <2>3
<1>7. UNCHANGED Artifacts!Key
  BY DEF Artifacts!Key
<1> QED
  BY <1>5, <1>6, <1>7 DEF ObjectsInv

LEMMA RemovalStores ==
  ASSUME ObjectsInv, NEW k \in Artifacts!Key, Artifacts!DeleteObject(k)
  PROVE  ObjectsInv' /\ \A i \in ArtifactJobs : fate[i] # "never" => fate'[i] # "never"
<1> DEFINE key(i) == Artifacts!deterministicKey(i)
<1>1. /\ object \in [Artifacts!Key -> ArtifactJobs \cup {None}]
      /\ fate \in [ArtifactJobs -> {"never", "kept", "replaced", "removed"}]
      /\ object' = [object EXCEPT ![k] = None]
      /\ fate' = [i \in ArtifactJobs |->
                    IF key(i) = k /\ fate[i] # "never" THEN "removed" ELSE fate[i]]
  BY KeysAreAlike DEF ObjectsInv, Artifacts!DeleteObject
<1>2. ASSUME NEW i \in ArtifactJobs PROVE FateShows(i)'
  <2>1. FateShows(i)' <=>
        (fate'[i] # "never" =>
           /\ key(i) \in Artifacts!Key
           /\ \/ fate'[i] = "kept" /\ object'[key(i)] = i
              \/ /\ fate'[i] = "replaced" /\ object'[key(i)] \in ArtifactJobs \ {i}
                 /\ Artifacts!Alike(object'[key(i)], i)
              \/ fate'[i] = "removed" /\ object'[key(i)] = None)
    BY DEF FateShows, Artifacts!Alike, Artifacts!deterministicKey, Artifacts!Key
  <2>2. fate[i] # "never" =>
           /\ key(i) \in Artifacts!Key
           /\ \/ fate[i] = "kept" /\ object[key(i)] = i
              \/ /\ fate[i] = "replaced" /\ object[key(i)] \in ArtifactJobs \ {i}
                 /\ Artifacts!Alike(object[key(i)], i)
              \/ fate[i] = "removed" /\ object[key(i)] = None
    BY DEF ObjectsInv, FateShows
  <2> HIDE DEF key
  <2>3. CASE key(i) = k
    BY <1>1, <2>1, <2>3
  <2>4. CASE key(i) # k
    <3>1. fate'[i] = fate[i] /\ (key(i) \in Artifacts!Key => object'[key(i)] = object[key(i)])
      BY <1>1, <2>4
    <3> QED
      BY <2>1, <2>2, <3>1
  <2> QED
    BY <2>3, <2>4
<1>3. UNCHANGED Artifacts!Key
  BY DEF Artifacts!Key
<1>4. /\ object' \in [Artifacts!Key -> ArtifactJobs \cup {None}]
      /\ fate' \in [ArtifactJobs -> {"never", "kept", "replaced", "removed"}]
      /\ \A i \in ArtifactJobs : fate[i] # "never" => fate'[i] # "never"
  BY <1>1
<1> QED
  BY <1>2, <1>3, <1>4 DEF ObjectsInv

LEMMA ObjectsKept ==
  ASSUME ObjectsInv, UNCHANGED <<object, fate>>
  PROVE  ObjectsInv'
<1>1. \A i \in ArtifactJobs : FateShows(i)'
  BY DEF ObjectsInv, FateShows, Artifacts!Alike, Artifacts!deterministicKey, Artifacts!Key
<1> QED
  BY <1>1 DEF ObjectsInv, Artifacts!Key

(* Rows stay in order while no artifact is forgotten.                      *)
LEMMA RowsKept ==
  ASSUME RowsInv, artifact' \subseteq artifact,
         gpc' \in [ArtifactJobs -> {"idle", "generate", "create", "nil"}],
         \A i \in ArtifactJobs : fate[i] # "never" => fate'[i] # "never",
         \A i \in ArtifactJobs : gpc'[i] = "create" => gpc[i] = "create" \/ fate'[i] # "never"
  PROVE  RowsInv'
<1>1. \A a \in artifact : a.by \in ArtifactJobs
  BY DEF RowsInv, Artifacts!ArtifactRow
<1>2. \A a : Artifacts!deterministicKey(a.by)' = Artifacts!deterministicKey(a.by)
  BY DEF Artifacts!deterministicKey
<1>3. UNCHANGED Artifacts!ArtifactRow
  BY DEF Artifacts!ArtifactRow, Artifacts!Key
<1> QED
  BY <1>1, <1>2, <1>3 DEF RowsInv

LEMMA InsertRowInv ==
  ASSUME RiverInv, ArtifactInv, NEW j \in ArtifactJobs, gpc[j] = "create",
         jstate[j] = "running", Artifacts!InsertRow(j), UNCHANGED fate,
         gpc' = [gpc EXCEPT ![j] = gpc'[j]], gpc'[j] \in {"idle", "nil"}
  PROVE  RowsInv'
<1> DEFINE new == [by |-> j, attempt |-> attempts[j], key |-> Artifacts!deterministicKey(j)]
<1>1. fate[j] # "never" /\ Artifacts!deterministicKey(j) \in Artifacts!Key
  BY DEF ArtifactInv, ObjectsInv, RowsInv, FateShows
<1>2. attempts[j] \in 1 .. MaxAttempts
  BY AgentAssumption, RiverAssumption DEF Artifacts!ArtifactArguments, RiverInv, RiverTypeOK
<1>3. new \in Artifacts!ArtifactRow
  BY <1>1, <1>2 DEF Artifacts!ArtifactRow
<1>4. /\ artifact' = artifact \cup {new} /\ artifact \in SUBSET Artifacts!ArtifactRow
      /\ \A a \in artifact : a.key = Artifacts!deterministicKey(a.by) /\ fate[a.by] # "never"
      /\ gpc' \in [ArtifactJobs -> {"idle", "generate", "create", "nil"}]
      /\ \A i \in ArtifactJobs : gpc'[i] = "create" => fate[i] # "never"
  BY DEF Artifacts!InsertRow, ArtifactInv, RowsInv
<1>5. new.by = j /\ new.key = Artifacts!deterministicKey(j)
  OBVIOUS
<1> HIDE DEF new
<1>6. \A a \in artifact' : a.key = Artifacts!deterministicKey(a.by) /\ fate[a.by] # "never"
  BY <1>1, <1>4, <1>5
<1>7. \A a : Artifacts!deterministicKey(a.by)' = Artifacts!deterministicKey(a.by)
  BY DEF Artifacts!deterministicKey
<1>8. UNCHANGED Artifacts!ArtifactRow
  BY DEF Artifacts!ArtifactRow, Artifacts!Key
<1> QED
  BY <1>3, <1>4, <1>6, <1>7, <1>8 DEF RowsInv

LEMMA ArtifactAttemptInv ==
  ASSUME RiverInv, ArtifactInv, NEW j \in ArtifactJobs, Artifacts!ArtifactAttempt(j)
  PROVE  RiverInv' /\ ArtifactInv' /\ \A i \in ToolJobs : jstate'[i] = jstate[i]
<1>0. j \in Jobs /\ \A i \in ToolJobs : i \in Jobs /\ i # j
  BY AgentAssumption, ToolAssumption DEF Artifacts!ArtifactArguments
<1>a. gpc \in [ArtifactJobs -> {"idle", "generate", "create", "nil"}]
  BY DEF ArtifactInv, RowsInv
<1>1. ASSUME UNCHANGED <<object, artifact, fate>>,
             gpc' = [gpc EXCEPT ![j] = gpc'[j]], gpc'[j] \in {"idle", "generate", "nil"}
      PROVE  ArtifactInv'
  <2>1. gpc' \in [ArtifactJobs -> {"idle", "generate", "create", "nil"}]
        /\ \A i \in ArtifactJobs : gpc'[i] = "create" => gpc[i] = "create"
    BY <1>1, <1>a
  <2> QED
    BY <1>1, <2>1, ObjectsKept, RowsKept DEF ArtifactInv
<1>2. ASSUME Artifacts!Upload(j), Artifacts!HasStored(j), UNCHANGED artifact,
             gpc' = [gpc EXCEPT ![j] = gpc'[j]], gpc'[j] \in {"idle", "create"}
      PROVE  ArtifactInv'
  <2>1. gpc' \in [ArtifactJobs -> {"idle", "generate", "create", "nil"}]
        /\ \A i \in ArtifactJobs : gpc'[i] = "create" => i = j \/ gpc[i] = "create"
    BY <1>2, <1>a
  <2>2. /\ ObjectsInv' /\ fate'[j] # "never"
        /\ \A i \in ArtifactJobs : fate[i] # "never" => fate'[i] # "never"
    BY <1>2, UploadStores DEF ArtifactInv
  <2> QED
    BY <1>2, <2>1, <2>2, RowsKept DEF ArtifactInv
<1>3. ASSUME jstate[j] = "running", gpc[j] = "create", Artifacts!InsertRow(j),
             UNCHANGED <<object, fate>>,
             gpc' = [gpc EXCEPT ![j] = gpc'[j]], gpc'[j] \in {"idle", "nil"}
      PROVE  ArtifactInv'
  BY <1>3, InsertRowInv, ObjectsKept DEF ArtifactInv
<1>4. CASE Artifacts!StartAttempt(j)
  <2>1. /\ UNCHANGED <<object, artifact, fate>> /\ Start(j)
        /\ gpc' = [gpc EXCEPT ![j] = gpc'[j]] /\ gpc'[j] = "generate"
    BY <1>4, <1>a DEF Artifacts!StartAttempt, Artifacts!Start, Start
  <2> QED
    BY <1>0, <1>1, <2>1, RiverStep
<1>5. CASE Artifacts!Generate(j)
  <2>1. /\ Artifacts!Upload(j) /\ Artifacts!HasStored(j)
        /\ UNCHANGED <<jstate, attempts, artifact>>
        /\ gpc' = [gpc EXCEPT ![j] = gpc'[j]] /\ gpc'[j] = "create"
    BY <1>5, <1>a DEF Artifacts!Generate, Artifacts!At
  <2> QED
    BY <1>2, <2>1 DEF RiverInv, RiverTypeOK
<1>6. CASE Artifacts!Create(j)
  <2>1. /\ jstate[j] = "running" /\ gpc[j] = "create" /\ Artifacts!InsertRow(j)
        /\ UNCHANGED <<jstate, attempts, object, fate>>
        /\ gpc' = [gpc EXCEPT ![j] = gpc'[j]] /\ gpc'[j] = "nil"
    BY <1>6, <1>a DEF Artifacts!Create, Artifacts!At
  <2> QED
    BY <1>3, <2>1 DEF RiverInv, RiverTypeOK
<1>7. CASE Artifacts!CompleteJob(j)
  <2>1. /\ UNCHANGED <<object, artifact, fate>> /\ Complete(j)
        /\ gpc' = [gpc EXCEPT ![j] = gpc'[j]] /\ gpc'[j] = "idle"
    BY <1>7, <1>a DEF Artifacts!CompleteJob, Artifacts!At, Artifacts!Complete, Complete
  <2> QED
    BY <1>0, <1>1, <2>1, RiverStep
<1>8. CASE Artifacts!AttemptFails(j)
  <2>1. /\ UNCHANGED <<object, artifact, fate>> /\ Retry(j)
        /\ gpc' = [gpc EXCEPT ![j] = gpc'[j]] /\ gpc'[j] = "idle"
    BY <1>8, <1>a DEF Artifacts!AttemptFails, Artifacts!Retry, Retry
  <2> QED
    BY <1>0, <1>1, <2>1, RiverStep
<1>9. CASE Artifacts!AttemptFailsAfterWrite(j)
  <2>1. /\ jstate[j] = "running" /\ Retry(j)
        /\ gpc' = [gpc EXCEPT ![j] = gpc'[j]] /\ gpc'[j] = "idle"
    BY <1>9, <1>a DEF Artifacts!AttemptFailsAfterWrite, Artifacts!Retry, Retry
  <2>2. CASE Artifacts!Upload(j) /\ Artifacts!HasStored(j) /\ UNCHANGED artifact
    BY <1>0, <1>2, <2>1, <2>2, RiverStep
  <2>3. CASE gpc[j] = "create" /\ Artifacts!InsertRow(j) /\ UNCHANGED <<object, fate>>
    BY <1>0, <1>3, <2>1, <2>3, RiverStep
  <2> QED
    BY <1>9, <2>2, <2>3 DEF Artifacts!AttemptFailsAfterWrite
<1> QED
  BY <1>4, <1>5, <1>6, <1>7, <1>8, <1>9 DEF Artifacts!ArtifactAttempt

LEMMA DeleteInv ==
  ASSUME ArtifactInv, NEW a \in artifact, Artifacts!Delete(a)
  PROVE  ArtifactInv'
<1>1. artifact' \subseteq artifact /\ UNCHANGED <<object, gpc, fate>>
  BY DEF Artifacts!Delete
<1>2. gpc \in [ArtifactJobs -> {"idle", "generate", "create", "nil"}]
  BY DEF ArtifactInv, RowsInv
<1> QED
  BY <1>1, <1>2, ObjectsKept, RowsKept DEF ArtifactInv

LEMMA DeleteObjectInv ==
  ASSUME ArtifactInv, NEW k \in Artifacts!Key, Artifacts!DeleteObject(k)
  PROVE  ArtifactInv'
<1>1. UNCHANGED <<artifact, gpc>>
  BY DEF Artifacts!DeleteObject
<1>2. gpc \in [ArtifactJobs -> {"idle", "generate", "create", "nil"}]
  BY DEF ArtifactInv, RowsInv
<1> QED
  BY <1>1, <1>2, RemovalStores, RowsKept DEF ArtifactInv

-----------------------------------------------------------------------------
LEMMA NextInv == IInv /\ [Next]_vars => IInv'
<1> SUFFICES ASSUME IInv, [Next]_vars PROVE IInv'
  OBVIOUS
<1>0. RiverInv /\ ToolInv /\ ArtifactInv
  BY DEF IInv
<1>1. ASSUME UNCHANGED artifactVars PROVE ArtifactInv'
  <2>1. UNCHANGED <<object, artifact, gpc, fate>>
    BY <1>1 DEF artifactVars
  <2>2. gpc \in [ArtifactJobs -> {"idle", "generate", "create", "nil"}]
    BY <1>0 DEF ArtifactInv, RowsInv
  <2> QED
    BY <1>0, <2>1, <2>2, ObjectsKept, RowsKept DEF ArtifactInv
<1>2. ASSUME UNCHANGED <<row, toolVars>>, RiverInv',
             \A i \in ToolJobs : jstate'[i] = jstate[i]
      PROVE  ToolInv'
  <2>1. UNCHANGED <<row, registered, apc, snap, outcome, audited, executions, cut,
                    seen, raced>>
    BY <1>2 DEF toolVars, logVars
  <2>2. TypeOK' /\ HeldWithoutEffect'
    BY <1>0, <1>2, <2>1 DEF RiverInv, ToolInv, TypeOK, HeldWithoutEffect, Kind
  <2>3. Places'
    BY <1>0, <1>2, <2>1 DEF ToolInv, Places, PlacesOf, Sure, Kind
  <2>4. Log'
    BY <1>0, <2>1, QuietLog DEF ToolInv, logVars
  <2> QED
    BY <2>2, <2>3, <2>4 DEF ToolInv
<1>3. ASSUME NEW t \in Tools, Register(t), UNCHANGED artifactVars PROVE IInv'
  BY <1>0, <1>1, <1>3, RegisterInv DEF IInv
<1>4. ASSUME NEW s \in Sessions, NEW to \in FSM!State, OtherTransition(s, to),
             UNCHANGED artifactVars
      PROVE  IInv'
  BY <1>0, <1>1, <1>4, OtherTransitionInv DEF IInv
<1>5. ASSUME NEW j \in ToolJobs, ToolAttempt(j), UNCHANGED artifactVars PROVE IInv'
  BY <1>0, <1>1, <1>5, ToolAttemptInv DEF IInv
<1>6. ASSUME NEW j \in ArtifactJobs, Artifacts!ArtifactAttempt(j),
             UNCHANGED <<row, toolVars>>
      PROVE  IInv'
  BY <1>0, <1>2, <1>6, ArtifactAttemptInv DEF IInv
<1>7. ASSUME NEW a \in artifact, Artifacts!Delete(a), UNCHANGED <<row, toolVars>>
      PROVE  IInv'
  <2>1. RiverInv' /\ \A i \in ToolJobs : jstate'[i] = jstate[i]
    BY <1>0, <1>7 DEF Artifacts!Delete, RiverInv, RiverTypeOK
  <2> QED
    BY <1>0, <1>2, <1>7, <2>1, DeleteInv DEF IInv
<1>8. ASSUME NEW k \in Artifacts!Key, Artifacts!DeleteObject(k), UNCHANGED <<row, toolVars>>
      PROVE  IInv'
  <2>1. RiverInv' /\ \A i \in ToolJobs : jstate'[i] = jstate[i]
    BY <1>0, <1>8 DEF Artifacts!DeleteObject, RiverInv, RiverTypeOK
  <2> QED
    BY <1>0, <1>2, <1>8, <2>1, DeleteObjectInv DEF IInv
<1>9. CASE UNCHANGED vars
  <2>1. UNCHANGED <<jstate, attempts>> /\ UNCHANGED <<row, toolVars>>
        /\ UNCHANGED artifactVars
    BY <1>9 DEF vars
  <2>2. RiverInv'
    BY <1>0, <2>1 DEF RiverInv, RiverTypeOK
  <2> QED
    BY <1>1, <1>2, <2>1, <2>2 DEF IInv
<1> QED
  BY <1>3, <1>4, <1>5, <1>6, <1>7, <1>8, <1>9 DEF Next

LEMMA Invariance == Spec => []IInv
  BY InitInv, NextInv, PTL DEF Spec

-----------------------------------------------------------------------------
(* A copy at its row's version shows the row.                              *)
CopyTrails(j) ==
    LET now == row[SessionOf[j]] IN
    /\ snap[j].version <= now.version
    /\ snap[j].version = now.version => snap[j] = now

CopiesTrail == \A j \in ToolJobs : CopyTrails(j)

LEMMA CopiesAtFirst == Init => CopiesTrail
<1> SUFFICES ASSUME Init, NEW j \in ToolJobs PROVE CopyTrails(j)
  BY DEF CopiesTrail
<1>1. snap[j] = Opened /\ row[SessionOf[j]] = Opened
  BY ToolAssumption DEF Init, ToolInit
<1> QED
  BY <1>1 DEF CopyTrails, Opened

(* What a step does to a row: nothing, or a legal move to the next version.*)
Moves(s, to) ==
    /\ FSM!Allowed(row[s].state, to)
    /\ row' = [row EXCEPT ![s] = [state |-> to, version |-> @.version + 1]]

LEMMA HandOverMoves ==
  ASSUME IInv, CopiesTrail, NEW j \in ToolJobs, MoveToWaiting(j)
  PROVE  Moves(SessionOf[j], "WaitingForHuman")
<1>1. snap[j] = row[SessionOf[j]]
  BY DEF CopiesTrail, CopyTrails, MoveToWaiting, VersionMatches
<1> QED
  BY <1>1 DEF MoveToWaiting, Moves

LEMMA RowSteps ==
  ASSUME IInv, CopiesTrail, [Next]_vars
  PROVE  \/ UNCHANGED <<row, snap>>
         \/ UNCHANGED snap /\ \E s \in Sessions, to \in FSM!State : Moves(s, to)
         \/ /\ UNCHANGED row
            /\ \E j \in ToolJobs : snap' = [snap EXCEPT ![j] = row[SessionOf[j]]]
<1>1. ASSUME NEW j \in ToolJobs, ToolAttempt(j), ~UNCHANGED row
      PROVE  UNCHANGED snap /\ \E s \in Sessions, to \in FSM!State : Moves(s, to)
  <2>1. UNCHANGED snap /\ Moves(SessionOf[j], "WaitingForHuman")
    BY <1>1, RowAndCopies, HandOverMoves
  <2>2. SessionOf[j] \in Sessions /\ "WaitingForHuman" \in FSM!State
    BY ToolAssumption DEF FSM!State
  <2> QED
    BY <2>1, <2>2
<1>2. ASSUME NEW j \in ToolJobs, ToolAttempt(j), UNCHANGED row
      PROVE  UNCHANGED snap \/ snap' = [snap EXCEPT ![j] = row[SessionOf[j]]]
  BY <1>2, RowAndCopies
<1>3. ASSUME NEW s \in Sessions, NEW to \in FSM!State, OtherTransition(s, to)
      PROVE  UNCHANGED snap /\ Moves(s, to)
  BY <1>3 DEF OtherTransition, Moves, toolVars
<1>4. CASE UNCHANGED <<row, toolVars>> \/ \E t \in Tools : Register(t)
  BY <1>4 DEF toolVars, Register
<1>5. CASE UNCHANGED vars
  BY <1>5 DEF vars, toolVars
<1> QED
  BY <1>1, <1>2, <1>3, <1>4, <1>5 DEF Next

LEMMA CopiesKeepTrailing ==
  ASSUME IInv, CopiesTrail, [Next]_vars
  PROVE  CopiesTrail'
<1> SUFFICES ASSUME NEW j \in ToolJobs PROVE CopyTrails(j)'
  BY DEF CopiesTrail
<1>1. /\ SessionOf[j] \in Sessions /\ row[SessionOf[j]] \in Row
      /\ snap \in [ToolJobs -> Row] /\ snap[j] \in Row /\ row \in [Sessions -> Row]
  BY ToolAssumption DEF IInv, ToolInv, TypeOK
<1>2. CopyTrails(j)
  BY DEF CopiesTrail
<1>3. CASE UNCHANGED <<row, snap>>
  BY <1>2, <1>3 DEF CopyTrails
<1>4. ASSUME UNCHANGED snap, NEW s \in Sessions, NEW to \in FSM!State, Moves(s, to)
      PROVE  CopyTrails(j)'
  <2>1. CASE s = SessionOf[j]
    <3>1. row'[SessionOf[j]].version = row[SessionOf[j]].version + 1
      BY <1>1, <1>4, <2>1 DEF Moves
    <3> QED
      BY <1>1, <1>2, <1>4, <3>1 DEF CopyTrails, Row
  <2>2. CASE s # SessionOf[j]
    <3>1. row'[SessionOf[j]] = row[SessionOf[j]]
      BY <1>1, <1>4, <2>2 DEF Moves
    <3> QED
      BY <1>2, <1>4, <3>1 DEF CopyTrails
  <2> QED
    BY <2>1, <2>2
<1>5. ASSUME UNCHANGED row, NEW i \in ToolJobs,
             snap' = [snap EXCEPT ![i] = row[SessionOf[i]]]
      PROVE  CopyTrails(j)'
  <2>1. CASE i = j
    BY <1>1, <1>5, <2>1 DEF CopyTrails, Row
  <2>2. CASE i # j
    BY <1>1, <1>2, <1>5, <2>2 DEF CopyTrails
  <2> QED
    BY <2>1, <2>2
<1> QED
  BY <1>3, <1>4, <1>5, RowSteps

LEMMA CopiesAlwaysTrail == Spec => []CopiesTrail
  BY CopiesAtFirst, CopiesKeepTrailing, Invariance, PTL DEF Spec

-----------------------------------------------------------------------------
(* The state of both kinds of jobs is of its types.                        *)
THEOREM TypesAreKept == Spec => []AgentTypeOK
<1>1. IInv => AgentTypeOK
  BY DEF IInv, ToolInv, ArtifactInv, ObjectsInv, RowsInv, AgentTypeOK,
         Artifacts!ArtifactTypeOK
<1> QED
  BY <1>1, Invariance, PTL

(* A Write tool that a completed job was to run is in the audit log, and   *)
(* what is in the log was done, whatever was retried.                      *)
THEOREM AuditTellsTheTruth == Spec => []AuditIsTrue
<1>1. IInv => AuditIsTrue
  BY DEF IInv, ToolInv, Log, LogOf, Places, PlacesOf, Sure, AuditIsTrue, TypeOK
<1> QED
  BY <1>1, Invariance, PTL

(* However many jobs share a key and however often they are retried, their *)
(* Write tool is repeated only for an attempt that was cut short after it, *)
(* or for one that raced another.                                          *)
THEOREM WriteRepeatsOnlyInWindow == Spec => []RepeatedOnlyInWindow
<1>1. IInv => RepeatedOnlyInWindow
  BY DEF IInv, ToolInv, Log, LogOf, RepeatedOnlyInWindow
<1> QED
  BY <1>1, Invariance, PTL

(* A call below the gate's threshold never runs its Write tool.            *)
THEOREM HeldCallsHaveNoEffect == Spec => []HeldWithoutEffect
<1>1. IInv => HeldWithoutEffect
  BY DEF IInv, ToolInv
<1> QED
  BY <1>1, Invariance, PTL

(* The gate's hand-over to a human is a legal move of the session as it is *)
(* then, whoever else moved it since it was loaded.                        *)
THEOREM SessionsAlwaysMoveLegally == Spec => SessionsMoveLegally
<1>1. IInv /\ CopiesTrail /\ [Next]_vars => [FSM!Next]_row
  <2> SUFFICES ASSUME IInv, CopiesTrail, [Next]_vars, row' # row PROVE FSM!Next
    OBVIOUS
  <2>1. PICK s \in Sessions, to \in FSM!State : Moves(s, to)
    BY RowSteps
  <2>2. FSM!Move(s, to)
    BY <2>1 DEF Moves, FSM!Move, IInv, ToolInv, TypeOK
  <2> QED
    BY <2>2 DEF FSM!Next
<1> QED
  BY <1>1, Invariance, CopiesAlwaysTrail, PTL DEF Spec, SessionsMoveLegally

(* Under the key of a row of the artifact table is its own artifact, the   *)
(* one that has since been stored for the session and type in its place,   *)
(* or nothing when the object was removed since.                           *)
THEOREM ArtifactRowsAreAccountedFor == Spec => []RowsReferToObjects
<1>1. IInv => RowsReferToObjects
  <2> SUFFICES ASSUME ArtifactInv, NEW a \in artifact
               PROVE  \/ fate[a.by] = "kept" /\ object[a.key] = a.by
                      \/ /\ fate[a.by] = "replaced"
                         /\ object[a.key] \in ArtifactJobs \ {a.by}
                         /\ Artifacts!Alike(object[a.key], a.by)
                      \/ fate[a.by] = "removed" /\ object[a.key] = None
    BY DEF IInv, RowsReferToObjects, Artifacts!RowsReferToObjects
  <2>1. /\ a.key = Artifacts!deterministicKey(a.by) /\ fate[a.by] # "never"
        /\ a.by \in ArtifactJobs
    BY DEF ArtifactInv, RowsInv, Artifacts!ArtifactRow
  <2> QED
    BY <2>1 DEF ArtifactInv, ObjectsInv, FateShows
<1> QED
  BY <1>1, Invariance, PTL
=============================================================================
