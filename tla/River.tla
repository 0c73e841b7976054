-------------------------------- MODULE River --------------------------------
(***************************************************************************)
(* The life of a job in the River queue, as the workers of the repository  *)
(* rely on it (pkg/runtime/worker.go starts the client; River itself is a  *)
(* library).  A job is delivered at least once: an attempt that returns an *)
(* error, that dies with its process or that River does not get to mark    *)
(* completed is followed by another, up to MaxAttempts, and then the job   *)
(* is discarded.  Two attempts of one job do not overlap.                  *)
(***************************************************************************)
EXTENDS Naturals

CONSTANTS
    Jobs,           \* the jobs that may be inserted
    MaxAttempts     \* River's limit on the attempts of a job

ASSUME RiverAssumption == MaxAttempts \in Nat \ {0}

VARIABLES
    jstate,         \* jstate[j]: River's state of job j
    attempts        \* attempts[j]: how often job j was started

JobState == {"none", "available", "running", "completed", "discarded"}

RiverTypeOK ==
    /\ jstate \in [Jobs -> JobState]
    /\ attempts \in [Jobs -> 0 .. MaxAttempts]

(* The jobs in queued were inserted before the model begins. *)
RiverInit(queued) ==
    /\ jstate = [j \in Jobs |-> IF j \in queued THEN "available" ELSE "none"]
    /\ attempts = [j \in Jobs |-> 0]

Insert(j) ==
    /\ jstate[j] = "none"
    /\ jstate' = [jstate EXCEPT ![j] = "available"]
    /\ UNCHANGED attempts

Start(j) ==
    /\ jstate[j] = "available"
    /\ attempts[j] < MaxAttempts
    /\ jstate' = [jstate EXCEPT ![j] = "running"]
    /\ attempts' = [attempts EXCEPT ![j] = @ + 1]

(* Work returned nil. *)
Complete(j) ==
    /\ jstate[j] = "running"
    /\ jstate' = [jstate EXCEPT ![j] = "completed"]
    /\ UNCHANGED attempts

(* The attempt ended in any other way. *)
Retry(j) ==
    /\ jstate[j] = "running"
    /\ jstate' = [jstate EXCEPT ![j] =
                    IF attempts[j] < MaxAttempts THEN "available"
                                                 ELSE "discarded"]
    /\ UNCHANGED attempts

Ended(j) == jstate[j] \in {"completed", "discarded"}
=============================================================================
