----------------------------- MODULE ArtifactJob -----------------------------
(***************************************************************************)
(* Artifact generation: the GenerateArtifactWorker of                      *)
(* pkg/runtime/artifact_job.go with the dispatcher and the generators of   *)
(* pkg/tools/generators, over the object store, the artifact table and the *)
(* River queue.                                                            *)
(*                                                                         *)
(* A rendered artifact is abstracted to the job whose data it shows.       *)
(***************************************************************************)
EXTENDS River

CONSTANTS
    ArtifactJobs,       \* the jobs of this kind
    Sessions,
    SessionOf, TypeOf,  \* the arguments of each job
    Malformed,          \* the jobs whose data does not unmarshal
    Unrenderable,       \* those whose data does not render, as for a bad name
                        \* of a sheet
    None                \* no object

PDF == "pdf"
Excel == "excel"
Supported == {PDF, Excel}
Other == "other"

ArtifactArguments ==
    /\ ArtifactJobs \in SUBSET Jobs
    /\ SessionOf \in [Jobs -> Sessions]
    /\ TypeOf \in [ArtifactJobs -> Supported \cup {Other}]
    /\ Malformed \in SUBSET ArtifactJobs
    /\ Unrenderable \in SUBSET ArtifactJobs
    /\ None \notin Jobs

VARIABLES
    object,         \* object[k]: whose artifact the object under key k shows
    artifact,       \* the artifact table
    apc,            \* apc[j]: where the attempt of job j is in Work
    fate            \* history: what became of the object that job j stored

artifactVars == <<object, artifact, apc, fate>>

-----------------------------------------------------------------------------
(* deterministicKey: the tenant, the session and the type make the key.    *)
Key == Sessions \X Supported

(* Mutant of deterministicKey: the session alone makes it.                 *)
KeyOfSession(j) == <<SessionOf[j], PDF>>

deterministicKey(j) == <<SessionOf[j], TypeOf[j]>>

(* An attempt creates at most one row, which is therefore identified by    *)
(* the job and the attempt.                                                *)
ArtifactRow == [by : ArtifactJobs, attempt : 1 .. MaxAttempts, key : Key]

ArtifactTypeOK ==
    /\ object \in [Key -> ArtifactJobs \cup {None}]
    /\ artifact \in SUBSET ArtifactRow
    /\ apc \in [ArtifactJobs -> {"idle", "generate", "create", "nil"}]
    /\ fate \in [ArtifactJobs -> {"never", "kept", "replaced", "removed"}]

ArtifactInit ==
    /\ object = [k \in Key |-> None]
    /\ artifact = {}
    /\ apc = [j \in ArtifactJobs |-> "idle"]
    /\ fate = [j \in ArtifactJobs |-> "never"]

-----------------------------------------------------------------------------
StartAttempt(j) ==
    /\ Start(j)
    /\ apc' = [apc EXCEPT ![j] = "generate"]
    /\ UNCHANGED <<object, artifact, fate>>

At(j, here, next) ==
    /\ jstate[j] = "running"
    /\ apc[j] = here
    /\ apc' = [apc EXCEPT ![j] = next]

(* unmarshalArtifactData: other types are errors, as is malformed data.    *)
Unmarshals(j) == TypeOf[j] \in Supported /\ j \notin Malformed

(* renderPDF and renderExcel. *)
Renders(j) == j \notin Unrenderable

CanGenerate(j) == Unmarshals(j) /\ Renders(j)

(* Dispatch: render and upload, over whatever is under the key.            *)
Upload(j) ==
    /\ CanGenerate(j)
    /\ object' = [object EXCEPT ![deterministicKey(j)] = j]

(* Another artifact of its session and type takes the place of one that    *)
(* was stored before.                                                      *)
Alike(i, j) == SessionOf[i] = SessionOf[j] /\ TypeOf[i] = TypeOf[j]

HasStored(j) ==
    fate' = [i \in ArtifactJobs |->
               IF i = j THEN "kept"
               ELSE IF Alike(i, j) /\ fate[i] # "never" THEN "replaced" ELSE fate[i]]

Generate(j) ==
    /\ At(j, "generate", "create")
    /\ Upload(j)
    /\ HasStored(j)
    /\ UNCHANGED <<jstate, attempts, artifact>>

(* ArtifactRepository.Create: a row with an id of its own.                 *)
InsertRow(j) ==
    artifact' = artifact \cup
        {[by |-> j, attempt |-> attempts[j], key |-> deterministicKey(j)]}

Create(j) ==
    /\ At(j, "create", "nil")
    /\ InsertRow(j)
    /\ UNCHANGED <<jstate, attempts, object, fate>>

CompleteJob(j) ==
    /\ At(j, "nil", "idle")
    /\ Complete(j)
    /\ UNCHANGED <<object, artifact, fate>>

(* A call returned an error, or the worker died: before its write, or      *)
(* after it was stored.                                                    *)
AttemptFails(j) ==
    /\ Retry(j)
    /\ apc' = [apc EXCEPT ![j] = "idle"]
    /\ UNCHANGED <<object, artifact, fate>>

AttemptFailsAfterWrite(j) ==
    /\ Retry(j)
    /\ apc' = [apc EXCEPT ![j] = "idle"]
    /\ \/ apc[j] = "generate" /\ Upload(j) /\ HasStored(j) /\ UNCHANGED artifact
       \/ apc[j] = "create" /\ InsertRow(j) /\ UNCHANGED <<object, fate>>

(* ArtifactRepository.Delete and StorageClient.DeleteObject, by whoever    *)
(* manages artifacts.  Neither calls the other, so that a row may go       *)
(* without its object and an object without its rows, also while a job is  *)
(* between the two.                                                        *)
Delete(a) ==
    /\ a \in artifact
    /\ artifact' = artifact \ {a}
    /\ UNCHANGED <<jstate, attempts, object, apc, fate>>

DeleteObject(k) ==
    /\ object' = [object EXCEPT ![k] = None]
    /\ fate' = [i \in ArtifactJobs |->
                  IF <<SessionOf[i], TypeOf[i]>> = k /\ fate[i] # "never"
                    THEN "removed" ELSE fate[i]]
    /\ UNCHANGED <<jstate, attempts, artifact, apc>>

(* What the attempts of an artifact job do.                                *)
ArtifactAttempt(j) ==
    \/ StartAttempt(j) \/ Generate(j) \/ Create(j) \/ CompleteJob(j)
    \/ AttemptFails(j) \/ AttemptFailsAfterWrite(j)

-----------------------------------------------------------------------------
(***************************************************************************)
(* Properties.                                                             *)
(***************************************************************************)

(* Whatever is deleted or stored in between, under the key of a row of the *)
(* artifact table is the artifact of the row's own job; unless another job *)
(* has since stored one for the same session and of the same type, which   *)
(* then is there in its place; or the object was removed since.            *)
RowsReferToObjects ==
    \A a \in artifact :
        LET found == object[a.key] IN
        \/ fate[a.by] = "kept" /\ found = a.by
        \/ fate[a.by] = "replaced" /\ found \in ArtifactJobs \ {a.by} /\ Alike(found, a.by)
        \/ fate[a.by] = "removed" /\ found = None
=============================================================================
