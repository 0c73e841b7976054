------------------------------ MODULE AgentJobs ------------------------------
(***************************************************************************)
(* The two kinds of jobs with which an agent acts on the world: tool calls *)
(* (ToolJob) and artifacts (ArtifactJob), on one River queue.              *)
(***************************************************************************)
EXTENDS ToolJob

CONSTANTS
    ArtifactJobs, TypeOf, Malformed, Unrenderable, None,    \* of ArtifactJob
    Batches         \* bound: the sets of jobs that may have been inserted

VARIABLES
    object, artifact, fate,
    gpc             \* the place of the attempts of artifact jobs

Artifacts == INSTANCE ArtifactJob WITH apc <- gpc

ASSUME AgentAssumption ==
    /\ Artifacts!ArtifactArguments
    /\ ToolJobs \cap ArtifactJobs = {}
    /\ Batches \in SUBSET SUBSET Jobs

artifactVars == <<object, artifact, gpc, fate>>
vars         == <<jstate, attempts, row, toolVars, artifactVars>>

Init ==
    /\ \E batch \in Batches : RiverInit(batch)
    /\ ToolInit
    /\ Artifacts!ArtifactInit

Next ==
    \/ /\ \/ \E t \in Tools : Register(t)
          \/ \E s \in Sessions, to \in FSM!State : OtherTransition(s, to)
          \/ \E j \in ToolJobs : ToolAttempt(j)
       /\ UNCHANGED artifactVars
    \/ /\ \/ \E j \in ArtifactJobs : Artifacts!ArtifactAttempt(j)
          \/ \E a \in artifact : Artifacts!Delete(a)
          \/ \E k \in Artifacts!Key : Artifacts!DeleteObject(k)
       /\ UNCHANGED <<row, toolVars>>

Spec == Init /\ [][Next]_vars

-----------------------------------------------------------------------------
(* The types of both components' state.                                    *)
AgentTypeOK == TypeOK /\ Artifacts!ArtifactTypeOK

(* Rows refer to what was last stored for their session and type, while    *)
(* artifacts are retried, made again and deleted: the property of          *)
(* ArtifactJob, on the queue it shares with the tool jobs.                 *)
RowsReferToObjects == Artifacts!RowsReferToObjects
=============================================================================
