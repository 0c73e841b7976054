------------------------------ MODULE Ingestion ------------------------------
(***************************************************************************)
(* Document ingestion: Pipeline.Ingest of pkg/knowledge/ingestion run by   *)
(* the IngestDocumentWorker, over the document and chunk tables, the       *)
(* object store and the River queue.                                       *)
(*                                                                         *)
(* A text is what the object store holds for a document at some time.  It  *)
(* is abstracted to the number of chunks it is cut into; none, when it is  *)
(* too large, does not parse or is empty.  Scrubbing changes what a chunk  *)
(* says and is left out.                                                   *)
(***************************************************************************)
EXTENDS River

CONSTANTS
    Documents,      \* rows of the document table
    DocOf,          \* DocOf[j]: the document job j is to ingest
    Texts,          \* what the source of a document may be
    Count,          \* Count[t]: the number of chunks of text t
    EmbedBatchSize  \* chunks per call of the embedder

ASSUME IngestionAssumption ==
    /\ DocOf \in [Jobs -> Documents]
    /\ Count \in [Texts -> Nat]
    /\ Texts # {}
    /\ EmbedBatchSize \in Nat \ {0}

VARIABLES
    status,         \* status[d]: the status column of document d
    source,         \* source[d]: the text in the object store
    chunk,          \* the chunk table
    apc,            \* apc[j]: where the attempt of job j is in Ingest
    fetched,        \* fetched[j]: the text the attempt works on
    embedded        \* embedded[j]: how many of its chunks have a vector

ingestVars == <<status, source, chunk, apc, fetched, embedded>>

-----------------------------------------------------------------------------
Status == {"none", "pending", "processing", "ready", "failed"}
ChunkRow == [doc : Documents, index : Nat, text : Texts]

IngestionTypeOK ==
    /\ status \in [Documents -> Status]
    /\ source \in [Documents -> Texts]
    /\ chunk \in SUBSET ChunkRow
    /\ apc \in [Jobs -> {"idle", "guard", "processing", "fetch", "embed",
                         "ready", "failing", "nil"}]
    /\ fetched \in [Jobs -> Texts]
    /\ embedded \in [Jobs -> Nat]

IngestionInit ==
    /\ status = [d \in Documents |-> "none"]
    /\ source \in [Documents -> Texts]
    /\ chunk = {}
    /\ apc = [j \in Jobs |-> "idle"]
    /\ fetched = [j \in Jobs |-> CHOOSE t \in Texts : TRUE]
    /\ embedded = [j \in Jobs |-> 0]

-----------------------------------------------------------------------------
(* DocumentRepository.Create, by whoever registers a document.             *)
CreateDocument(d) ==
    /\ status[d] = "none"
    /\ status' = [status EXCEPT ![d] = "pending"]
    /\ UNCHANGED <<jstate, attempts, source, chunk, apc, fetched, embedded>>

(* Another text is uploaded under the document's key.                      *)
ReplaceSource(d, t) ==
    /\ t # source[d]
    /\ source' = [source EXCEPT ![d] = t]
    /\ UNCHANGED <<jstate, attempts, status, chunk, apc, fetched, embedded>>

StartAttempt(j) ==
    /\ Start(j)
    /\ apc' = [apc EXCEPT ![j] = "guard"]
    /\ UNCHANGED <<status, source, chunk, fetched, embedded>>

-----------------------------------------------------------------------------
At(j, here, next) ==
    /\ jstate[j] = "running"
    /\ apc[j] = here
    /\ apc' = [apc EXCEPT ![j] = next]

(* Mutant of SetStatus: what ends in an error is not marked.               *)
SetStatusUnlessFailed(j, st) ==
    status' = [status EXCEPT ![DocOf[j]] = IF st = "failed" THEN @ ELSE st]

SetStatus(j, st) == status' = [status EXCEPT ![DocOf[j]] = st]

(* Mutant of GuardDocument: a Ready document is done again.                *)
GuardNothing(j) ==
    /\ status[DocOf[j]] # "none"
    /\ At(j, "guard", "processing")
    /\ UNCHANGED <<jstate, attempts, status, source, chunk, fetched, embedded>>

(* Mutant of GuardDocument: a document that another attempt has taken up   *)
(* is left alone as well.                                                  *)
GuardTakenUp(j) ==
    /\ status[DocOf[j]] # "none"
    /\ At(j, "guard", IF status[DocOf[j]] \in {"processing", "ready"}
                      THEN "nil" ELSE "processing")
    /\ UNCHANGED <<jstate, attempts, status, source, chunk, fetched, embedded>>

(* GetByID: a Ready document is left alone; every other one, even one that *)
(* is Processing, is taken up.  An unknown document is an error.           *)
GuardDocument(j) ==
    /\ status[DocOf[j]] # "none"
    /\ At(j, "guard", IF status[DocOf[j]] = "ready" THEN "nil" ELSE "processing")
    /\ UNCHANGED <<jstate, attempts, status, source, chunk, fetched, embedded>>

(* Mutant of MarkProcessing: the pipeline starts without the mark.         *)
MarkNothing(j) ==
    /\ At(j, "processing", "fetch")
    /\ UNCHANGED <<jstate, attempts, status, source, chunk, fetched, embedded>>

MarkProcessing(j) ==
    /\ At(j, "processing", "fetch")
    /\ SetStatus(j, "processing")
    /\ UNCHANGED <<jstate, attempts, source, chunk, fetched, embedded>>

(* Connect and read: what is under the key now.                            *)
Download(j) == fetched' = [fetched EXCEPT ![j] = source[DocOf[j]]]

(* Mutant of Parses: a text without chunks is not an error.                *)
ParsesEmpty(t) == TRUE

(* The text is found in the document, and is not empty.                    *)
Parses(t) == Count[t] > 0

(* Download, parse and chunk.                                              *)
Fetch(j) ==
    /\ Download(j)
    /\ At(j, "fetch", IF Parses(source[DocOf[j]]) THEN "embed" ELSE "failing")
    /\ embedded' = [embedded EXCEPT ![j] = 0]
    /\ UNCHANGED <<jstate, attempts, status, source, chunk>>

(* The embedder returns a vector for every text of a batch, or an error.   *)
AllEmbedded(j) == embedded[j] >= Count[fetched[j]]

EmbedTexts(j) ==
    LET end == embedded[j] + EmbedBatchSize IN
    embedded' = [embedded EXCEPT ![j] =
                   IF end > Count[fetched[j]] THEN Count[fetched[j]] ELSE end]

(* One batch.  The source may be replaced meanwhile, and the other jobs go *)
(* on.                                                                     *)
Embed(j) ==
    /\ ~AllEmbedded(j)
    /\ At(j, "embed", "embed")
    /\ EmbedTexts(j)
    /\ UNCHANGED <<jstate, attempts, status, source, chunk, fetched>>

(* Index: one batch, which PostgreSQL runs as one transaction, inserts     *)
(* every chunk whose index the document does not have yet.                 *)
Indexes(d) == { c.index : c \in { x \in chunk : x.doc = d } }

(* Mutant of NewChunks: there is no ON CONFLICT clause and no constraint.  *)
AllChunks(d, t) ==
    { [doc |-> d, index |-> i, text |-> t] : i \in 0 .. Count[t] - 1 }

NewChunks(d, t) ==
    { [doc |-> d, index |-> i, text |-> t] : i \in (0 .. Count[t] - 1) \ Indexes(d) }

(* Mutant of InsertChunks: the inserts are not one transaction.            *)
InsertSomeChunks(j) ==
    \E some \in SUBSET NewChunks(DocOf[j], fetched[j]) : chunk' = chunk \cup some

InsertChunks(j) == chunk' = chunk \cup NewChunks(DocOf[j], fetched[j])

Index(j) ==
    /\ AllEmbedded(j)
    /\ At(j, "embed", "ready")
    /\ InsertChunks(j)
    /\ UNCHANGED <<jstate, attempts, status, source, fetched, embedded>>

(* A stage returned an error; the batch may have been stored all the same. *)
StageFails(j) ==
    /\ \/ At(j, "fetch", "failing") /\ UNCHANGED chunk
       \/ At(j, "embed", "failing") /\ UNCHANGED chunk
       \/ At(j, "embed", "failing") /\ AllEmbedded(j) /\ InsertChunks(j)
    /\ UNCHANGED <<jstate, attempts, status, source, fetched, embedded>>

MarkReady(j) ==
    /\ At(j, "ready", "nil")
    /\ SetStatus(j, "ready")
    /\ UNCHANGED <<jstate, attempts, source, chunk, fetched, embedded>>

(* The error path: the status is written, and Work returns the error.      *)
MarkFailed(j) ==
    /\ At(j, "failing", "idle")
    /\ SetStatus(j, "failed")
    /\ Retry(j)
    /\ UNCHANGED <<source, chunk, fetched, embedded>>

CompleteJob(j) ==
    /\ At(j, "nil", "idle")
    /\ Complete(j)
    /\ UNCHANGED <<status, source, chunk, fetched, embedded>>

(* A status update or GetByID returned an error, the job's context was     *)
(* cancelled, which also defeats the update to Failed, or the worker died: *)
(* before its write, or after it was stored.                               *)
AttemptFails(j) ==
    /\ Retry(j)
    /\ apc' = [apc EXCEPT ![j] = "idle"]
    /\ UNCHANGED <<status, source, chunk, fetched, embedded>>

AttemptFailsAfterWrite(j) ==
    /\ Retry(j)
    /\ apc' = [apc EXCEPT ![j] = "idle"]
    /\ \/ apc[j] = "processing" /\ SetStatus(j, "processing") /\ UNCHANGED chunk
       \/ /\ apc[j] = "embed" /\ AllEmbedded(j)
          /\ InsertChunks(j)
          /\ UNCHANGED status
       \/ apc[j] = "ready" /\ SetStatus(j, "ready") /\ UNCHANGED chunk
    /\ UNCHANGED <<source, fetched, embedded>>

-----------------------------------------------------------------------------
Ingest(j) ==
    \/ GuardDocument(j) \/ MarkProcessing(j) \/ Fetch(j)
    \/ Embed(j) \/ Index(j)
    \/ StageFails(j) \/ MarkReady(j) \/ MarkFailed(j)

(* Two jobs have started to work on d.                                     *)
Contended(d) ==
    \E i, j \in Jobs :
        /\ i # j /\ DocOf[i] = d /\ DocOf[j] = d
        /\ attempts[i] > 0 /\ attempts[j] > 0

-----------------------------------------------------------------------------
(***************************************************************************)
(* Properties.                                                             *)
(***************************************************************************)

(* Re-running a job, or running two for one document, duplicates no chunk  *)
(* (NFR-4): an index of a document is taken once.                          *)
OneChunkPerIndex ==
    \A c, e \in chunk : c.doc = e.doc /\ c.index = e.index => c = e

(* The numbers of the chunks of document d that are of text t.             *)
Part(d, t) == { c.index : c \in { x \in chunk : x.doc = d /\ x.text = t } }

(* What retrieval finds of a document is one whole text, as long as its    *)
(* source is not replaced between two attempts that store chunks.  When it *)
(* is, nothing of the earlier text goes, and of the later one only what    *)
(* the earlier does not reach is added: each text has its chunks from the  *)
(* first, or from where another one ends, to its last, and the numbers     *)
(* have no gap.                                                            *)
WholeUnlessReplaced ==
    \A d \in Documents :
        /\ \/ Indexes(d) = {}
           \/ \E t \in Texts : Part(d, t) # {} /\ Indexes(d) = 0 .. Count[t] - 1
        /\ \A t \in Texts :
             \/ Part(d, t) = {}
             \/ Part(d, t) = 0 .. Count[t] - 1
             \/ \E u \in Texts \ {t} : /\ Part(d, u) # {}
                                       /\ Part(d, t) = Count[u] .. Count[t] - 1

(* A Ready document can be retrieved: its chunks are stored before its     *)
(* status says so, whoever else works on it.                               *)
ReadyIsIndexed ==
    \A d \in Documents : status[d] = "ready" => Indexes(d) # {}

(* Retries of one job never take back a Ready document, not even when the  *)
(* attempt that made it Ready counts as failed: only a rival job, when     *)
(* both have started, does.                                                *)
ReadyStays ==
    [][\A d \in Documents :
         status[d] = "ready" /\ status'[d] # "ready" => Contended(d)]_status

(* The documents live as DocumentLife says: no status is passed over, the  *)
(* chunks of a text get their numbers all at once, none outside            *)
(* Processing, and no document is Ready without, except for what two jobs  *)
(* do to each other.                                                       *)
Life == INSTANCE DocumentLife WITH
            Sizes <- { Count[t] : t \in Texts },
            indexes <- [d \in Documents |-> Indexes(d)],
            contended <- { d \in Documents : Contended(d) }

ImplementsLife == Life!Spec
=============================================================================
