------------------------------- MODULE Worker --------------------------------
(***************************************************************************)
(* The worker process: main of cmd/worker/main.go with the River client    *)
(* that StartWorker of pkg/runtime/worker.go runs in a goroutine of its    *)
(* own, while it works on ingestion jobs (Ingestion).  The process may be  *)
(* told to stop, fail or crash at any time and is started again by its     *)
(* supervisor; what its attempts leave behind is found in the database by  *)
(* the next one.                                                           *)
(***************************************************************************)
EXTENDS Ingestion, FiniteSets

CONSTANTS
    MaxWorkers,     \* attempts that the client runs at a time
    Plans           \* bound: which jobs are queued, and how many faults the
                    \* process meets

ASSUME WorkerAssumption ==
    /\ MaxWorkers \in Nat \ {0}
    /\ Plans \in SUBSET [queued : SUBSET Jobs, faults : Nat]

VARIABLES
    main,           \* where main is; "down" when there is no process
    startupErr,     \* startupErr # nil
    ctxDone,        \* the context of the signals is cancelled
    errChan,        \* the metrics server's error is in its channel
    workerErrChan,  \* StartWorker's error is in its channel
    client,         \* the River client in StartWorker
    faults,         \* how many faults are still to come
    cut             \* cut[j]: history, the last attempt of j was cut short

processVars == <<main, startupErr, ctxDone, errChan, workerErrChan, client>>
vars == <<jstate, attempts, ingestVars, processVars, faults, cut>>

TypeOK ==
    /\ RiverTypeOK
    /\ IngestionTypeOK
    /\ main \in {"down", "boot", "select", "shutdown", "stopped", "closed"}
    /\ {startupErr, ctxDone, errChan, workerErrChan} \subseteq BOOLEAN
    /\ client \in {"off", "starting", "working", "stopping", "stopped", "failed"}
    /\ faults \in Nat
    /\ cut \in [Jobs -> BOOLEAN]

Init ==
    /\ \E plan \in Plans : RiverInit(plan.queued) /\ faults = plan.faults
    /\ IngestionInit
    /\ main = "down"
    /\ startupErr = FALSE /\ ctxDone = FALSE
    /\ errChan = FALSE /\ workerErrChan = FALSE
    /\ client = "off"
    /\ cut = [j \in Jobs |-> FALSE]

-----------------------------------------------------------------------------
Fault == faults > 0 /\ faults' = faults - 1

InProgress(j) == apc[j] # "idle"

(* The process is gone: its goroutines with it, whatever they were at.     *)
Gone ==
    /\ main' = "down"
    /\ client' = "off"
    /\ apc' = [j \in Jobs |-> "idle"]
    /\ cut' = [j \in Jobs |-> cut[j] \/ InProgress(j)]
    /\ UNCHANGED <<jstate, attempts, status, source, chunk, fetched, embedded>>

(* The supervisor starts the process.                                      *)
StartProcess ==
    /\ main = "down"
    /\ main' = "boot"
    /\ startupErr' = FALSE /\ ctxDone' = FALSE
    /\ errChan' = FALSE /\ workerErrChan' = FALSE
    /\ UNCHANGED <<jstate, attempts, ingestVars, client, faults, cut>>

(* Tracer, pool and migrations are there; main starts the two goroutines.  *)
Boot ==
    /\ main = "boot"
    /\ main' = "select"
    /\ client' = "starting"
    /\ UNCHANGED <<jstate, attempts, ingestVars, startupErr, ctxDone, errChan,
                   workerErrChan, faults, cut>>

(* A context that is cancelled before start-up is over can make it fail.   *)
BootInterrupted ==
    /\ main = "boot" /\ ctxDone
    /\ Gone
    /\ UNCHANGED <<startupErr, ctxDone, errChan, workerErrChan, faults>>

(* log.Fatalf during start-up, or a crash later.                           *)
Crash ==
    /\ main # "down"
    /\ Fault
    /\ Gone
    /\ UNCHANGED <<startupErr, ctxDone, errChan, workerErrChan>>

Signal ==
    /\ main # "down" /\ ~ctxDone
    /\ Fault
    /\ ctxDone' = TRUE
    /\ UNCHANGED <<jstate, attempts, ingestVars, main, startupErr, errChan,
                   workerErrChan, client, cut>>

(* ListenAndServe of the metrics server returned an error.                 *)
ListenFails ==
    /\ main = "select" /\ ~errChan
    /\ Fault
    /\ errChan' = TRUE
    /\ UNCHANGED <<jstate, attempts, ingestVars, main, startupErr, ctxDone,
                   workerErrChan, client, cut>>

-----------------------------------------------------------------------------
(* StartWorker: the client starts, or StartWorker returns the error.  It   *)
(* cannot start with a cancelled context or a closed pool.                 *)
StartClient ==
    /\ client = "starting"
    /\ ~ctxDone
    /\ client' = "working"
    /\ UNCHANGED <<jstate, attempts, ingestVars, main, startupErr, ctxDone,
                   errChan, workerErrChan, faults, cut>>

StartClientFails ==
    /\ client = "starting"
    /\ IF ctxDone THEN UNCHANGED faults ELSE Fault
    /\ client' = "failed"
    /\ workerErrChan' = TRUE
    /\ UNCHANGED <<jstate, attempts, ingestVars, main, startupErr, ctxDone,
                   errChan, cut>>

(* The cancelled context stops the client from fetching jobs; those it has *)
(* go on until they end or, after SoftStopTimeout, are cancelled, which is *)
(* one of the ways in which an attempt fails.                              *)
SoftStop ==
    /\ client = "working" /\ ctxDone
    /\ client' = "stopping"
    /\ UNCHANGED <<jstate, attempts, ingestVars, main, startupErr, ctxDone,
                   errChan, workerErrChan, faults, cut>>

(* client.Stopped() is closed, and StartWorker returns nil.                *)
Stopped ==
    /\ client = "stopping"
    /\ \A j \in Jobs : ~InProgress(j)
    /\ client' = "stopped"
    /\ UNCHANGED <<jstate, attempts, ingestVars, main, startupErr, ctxDone,
                   errChan, workerErrChan, faults, cut>>

-----------------------------------------------------------------------------
(* Mutant of Select: nobody listens to StartWorker.                        *)
SelectIgnoresWorker ==
    /\ main = "select"
    /\ ctxDone \/ errChan
    /\ main' = "shutdown"
    /\ startupErr' = errChan
    /\ ctxDone' = TRUE
    /\ UNCHANGED <<jstate, attempts, ingestVars, errChan, workerErrChan, client,
                   faults, cut>>

(* main waits for the signal or an error.  When both are there it may take *)
(* either, but looks for an error after the signal as well; an error makes *)
(* it call stop(), which cancels the context.  It reads no channel again.  *)
Select ==
    /\ main = "select"
    /\ ctxDone \/ errChan \/ workerErrChan
    /\ main' = "shutdown"
    /\ startupErr' = (errChan \/ workerErrChan)
    /\ ctxDone' = TRUE
    /\ UNCHANGED <<jstate, attempts, ingestVars, errChan, workerErrChan, client,
                   faults, cut>>

(* metricsServer.Shutdown, for 5 seconds at most.                          *)
ShutdownMetrics ==
    /\ main = "shutdown"
    /\ main' = "stopped"
    /\ UNCHANGED <<jstate, attempts, ingestVars, startupErr, ctxDone, errChan,
                   workerErrChan, client, faults, cut>>

(* os.Exit(1), which runs no deferred call.                                *)
ExitWithError ==
    /\ main = "stopped" /\ startupErr
    /\ Gone
    /\ UNCHANGED <<startupErr, ctxDone, errChan, workerErrChan, faults>>

(* The deferred calls: pool.Close, then the tracer's shutdown, then the    *)
(* process ends.                                                           *)
ClosePool ==
    /\ main = "stopped" /\ ~startupErr
    /\ main' = "closed"
    /\ UNCHANGED <<jstate, attempts, ingestVars, startupErr, ctxDone, errChan,
                   workerErrChan, client, faults, cut>>

Exit ==
    /\ main = "closed"
    /\ Gone
    /\ UNCHANGED <<startupErr, ctxDone, errChan, workerErrChan, faults>>

-----------------------------------------------------------------------------
PoolOpen == main \in {"select", "shutdown", "stopped"}

FetchJob(j) ==
    /\ client = "working" /\ PoolOpen
    /\ Cardinality({i \in Jobs : InProgress(i)}) < MaxWorkers
    /\ StartAttempt(j)
    /\ cut' = [cut EXCEPT ![j] = FALSE]
    /\ UNCHANGED <<processVars, faults>>

(* An attempt goes on, in whatever state the process is.                   *)
Proceed(j) ==
    /\ PoolOpen
    /\ Ingest(j) \/ CompleteJob(j)
    /\ UNCHANGED <<processVars, faults, cut>>

CutShort(j) ==
    /\ PoolOpen
    /\ AttemptFails(j) \/ AttemptFailsAfterWrite(j)
    /\ InProgress(j)
    /\ cut' = [cut EXCEPT ![j] = TRUE]
    /\ UNCHANGED <<processVars, faults>>

(* Without the pool the attempt fails at its next query, and River cannot  *)
(* store that it did.                                                      *)
LoseAttempt(j) ==
    /\ ~PoolOpen /\ InProgress(j)
    /\ apc' = [apc EXCEPT ![j] = "idle"]
    /\ cut' = [cut EXCEPT ![j] = TRUE]
    /\ UNCHANGED <<jstate, attempts, status, source, chunk, fetched, embedded,
                   processVars, faults>>

(* A running client finds a job that is running for too long, because the  *)
(* attempt went with its process, and has it retried.                      *)
Rescue(j) ==
    /\ client = "working" /\ PoolOpen
    /\ ~InProgress(j)
    /\ Retry(j)
    /\ UNCHANGED <<ingestVars, processVars, faults, cut>>

-----------------------------------------------------------------------------
Environment ==
    /\ \E d \in Documents :
         CreateDocument(d) \/ \E t \in Texts : ReplaceSource(d, t)
    /\ UNCHANGED <<processVars, faults, cut>>

MainStep ==
    \/ Boot \/ BootInterrupted \/ Select \/ ShutdownMetrics \/ ExitWithError \/ ClosePool \/ Exit

ClientStep == StartClient \/ StartClientFails \/ SoftStop \/ Stopped

Next ==
    \/ StartProcess \/ MainStep \/ ClientStep
    \/ Crash \/ Signal \/ ListenFails
    \/ \E j \in Jobs :
         FetchJob(j) \/ Proceed(j) \/ CutShort(j) \/ LoseAttempt(j) \/ Rescue(j)
    \/ Environment

Spec == Init /\ [][Next]_vars

(* The supervisor restarts the process, main and the client go on, and so  *)
(* does an attempt, to its end or to an error.                             *)
FairSpec ==
    /\ Spec
    /\ WF_vars(StartProcess) /\ WF_vars(MainStep) /\ WF_vars(ClientStep)
    /\ \A j \in Jobs :
         /\ WF_vars(FetchJob(j)) /\ WF_vars(Rescue(j)) /\ WF_vars(LoseAttempt(j))
         /\ WF_vars(Proceed(j) \/ CutShort(j))

-----------------------------------------------------------------------------
(***************************************************************************)
(* Properties.                                                             *)
(***************************************************************************)

(* Every queued job ends, completed or discarded, whenever the process is  *)
(* stopped, fails or crashes: nothing it leaves behind, a client that did  *)
(* not start included, keeps a job from being worked on again.             *)
EveryJobEnds == \A j \in Jobs : jstate[j] = "available" ~> Ended(j)

(* A job that River counts as completed has left its document retrievable, *)
(* also when it stopped at the guard because another attempt had been at   *)
(* the document before.                                                    *)
CompletedIsIndexed ==
    \A j \in Jobs : jstate[j] = "completed" => Indexes(DocOf[j]) # {}

(* When the jobs of a document are over, it is Processing for good only if *)
(* the last attempt of one was cut short: the pipeline itself ends every   *)
(* document Ready or Failed, as pipeline.go promises.                      *)
AllOver(d) == \A j \in Jobs : DocOf[j] = d => jstate[j] = "none" \/ Ended(j)

StuckOnlyIfCut ==
    \A d \in Documents : status[d] = "processing" /\ AllOver(d) =>
        \E j \in Jobs : DocOf[j] = d /\ jstate[j] = "discarded" /\ cut[j]

-----------------------------------------------------------------------------
(* "Blocks until ctx is cancelled, then drains gracefully" (comment in     *)
(* cmd/worker/main.go; worker.go speaks of a drain window of 30 seconds).  *)
(* main does not wait for StartWorker: it closes the pool and exits while  *)
(* attempts are in progress.                                               *)
DrainsBeforeExit == main = "closed" => \A j \in Jobs : ~InProgress(j)
=============================================================================
