---------------------------- MODULE Worker_proofs ----------------------------
(***************************************************************************)
(* Theorems about Worker: for any number of documents, jobs, attempts and  *)
(* texts, and however often the process is stopped, fails or crashes, no   *)
(* chunk is stored twice, a document has the chunks of one whole text or   *)
(* of one continued by others, and it is left Processing only by an        *)
(* attempt that was cut short.                                             *)
(***************************************************************************)
EXTENDS Worker, TLAPS

JobStep(j) ==
    FetchJob(j) \/ Proceed(j) \/ CutShort(j) \/ LoseAttempt(j) \/ Rescue(j)

-----------------------------------------------------------------------------
(* An attempt belongs to a running job; it embeds a text that has chunks,  *)
(* and from the place where it marks the document Ready on, the document   *)
(* has chunks.                                                             *)
PlacesOf(j) ==
    /\ apc[j] # "idle" => jstate[j] = "running"
    /\ jstate[j] = "running" => attempts[j] > 0
    /\ apc[j] = "embed" => Count[fetched[j]] > 0
    /\ apc[j] \in {"ready", "nil"} \/ jstate[j] = "completed" => Indexes(DocOf[j]) # {}

Places == \A j \in Jobs : PlacesOf(j)

(* A Processing document has a job that is at work on it before its last   *)
(* status, or one whose last attempt was cut short.                        *)
Holder(j, d) ==
    /\ DocOf[j] = d
    /\ \/ apc[j] \in {"guard", "processing", "fetch", "embed", "ready", "failing"}
       \/ cut[j] /\ apc[j] = "idle" /\ jstate[j] \in {"available", "running", "discarded"}

Processing ==
    \A d \in Documents : status[d] = "processing" => \E j \in Jobs : Holder(j, d)

(* An attempt that is past its guard may take up its document, and from    *)
(* the mark on it has it in hand: what no longer has the status for that   *)
(* is contended.                                                           *)
MayTakeUp(d) ==
    status[d] \in {"pending", "processing", "failed"} \/ (status[d] = "ready" /\ Contended(d))

InHand(d) ==
    status[d] = "processing" \/ (status[d] \in {"ready", "failed"} /\ Contended(d))

HoldsOf(j) ==
    /\ apc[j] = "processing" => MayTakeUp(DocOf[j])
    /\ apc[j] \in {"fetch", "embed", "ready", "failing"} => InHand(DocOf[j])

Holds == \A j \in Jobs : HoldsOf(j)

Chunks == OneChunkPerIndex /\ WholeUnlessReplaced /\ ReadyIsIndexed

IInv == TypeOK /\ Places /\ Chunks /\ Processing /\ Holds

-----------------------------------------------------------------------------
LEMMA InitInv == Init => IInv
<1> SUFFICES ASSUME Init PROVE IInv
  OBVIOUS
<1>1. /\ \A j \in Jobs : apc[j] = "idle" /\ jstate[j] \in {"none", "available"}
      /\ \A d \in Documents : status[d] = "none"
      /\ chunk = {}
  BY DEF Init, RiverInit, IngestionInit
<1>2. faults \in Nat
  BY WorkerAssumption DEF Init
<1>3. RiverTypeOK
  BY RiverAssumption DEF Init, RiverInit, RiverTypeOK, JobState
<1>4. IngestionTypeOK
  BY IngestionAssumption DEF Init, IngestionInit, IngestionTypeOK, Status, ChunkRow
<1>5. TypeOK
  BY <1>2, <1>3, <1>4 DEF Init, TypeOK
<1>6. Places
  BY <1>1 DEF Places, PlacesOf
<1>7. Chunks
  BY <1>1 DEF Chunks, OneChunkPerIndex, WholeUnlessReplaced, Part, ReadyIsIndexed, Indexes
<1>8. Processing /\ Holds
  BY <1>1, IngestionAssumption DEF Processing, Holds, HoldsOf
<1> QED
  BY <1>5, <1>6, <1>7, <1>8 DEF IInv

-----------------------------------------------------------------------------
(* What is stored together.                                                *)
LEMMA CountOfText ==
  ASSUME TypeOK, NEW j \in Jobs
  PROVE  fetched[j] \in Texts /\ Count[fetched[j]] \in Nat /\ DocOf[j] \in Documents
  BY IngestionAssumption DEF TypeOK, IngestionTypeOK

LEMMA NewRows ==
  ASSUME TypeOK, NEW j \in Jobs, InsertChunks(j)
  PROVE  /\ chunk \subseteq chunk' /\ chunk' \in SUBSET ChunkRow
         /\ \A c \in chunk' \ chunk :
              /\ c.doc = DocOf[j] /\ c.index \in 0 .. Count[fetched[j]] - 1
              /\ c.index \notin Indexes(DocOf[j])
              /\ c = [doc |-> DocOf[j], index |-> c.index, text |-> fetched[j]]
         /\ \A i \in (0 .. Count[fetched[j]] - 1) \ Indexes(DocOf[j]) :
              [doc |-> DocOf[j], index |-> i, text |-> fetched[j]] \in chunk'
<1>1. fetched[j] \in Texts /\ Count[fetched[j]] \in Nat /\ DocOf[j] \in Documents
  BY CountOfText
<1>2. chunk' = chunk \cup NewChunks(DocOf[j], fetched[j]) /\ chunk \in SUBSET ChunkRow
  BY DEF InsertChunks, TypeOK, IngestionTypeOK
<1>3. \A c \in NewChunks(DocOf[j], fetched[j]) :
         /\ c \in ChunkRow
         /\ c.doc = DocOf[j] /\ c.index \in 0 .. Count[fetched[j]] - 1
         /\ c.index \notin Indexes(DocOf[j])
         /\ c = [doc |-> DocOf[j], index |-> c.index, text |-> fetched[j]]
  BY <1>1 DEF NewChunks, ChunkRow
<1>4. \A i \in (0 .. Count[fetched[j]] - 1) \ Indexes(DocOf[j]) :
         [doc |-> DocOf[j], index |-> i, text |-> fetched[j]]
            \in NewChunks(DocOf[j], fetched[j])
  BY DEF NewChunks
<1> QED
  BY <1>2, <1>3, <1>4

(* Inserting adds the indexes of the text to those of its document.        *)
LEMMA IndexesGrow ==
  ASSUME TypeOK, NEW j \in Jobs, InsertChunks(j)
  PROVE  /\ Indexes(DocOf[j])' = Indexes(DocOf[j]) \cup (0 .. Count[fetched[j]] - 1)
         /\ \A d \in Documents \ {DocOf[j]} : Indexes(d)' = Indexes(d)
<1> DEFINE doc == DocOf[j]
           rows == 0 .. Count[fetched[j]] - 1
<1>1. /\ chunk \subseteq chunk'
      /\ \A c \in chunk' \ chunk : c.doc = doc /\ c.index \in rows
      /\ \A i \in rows \ Indexes(doc) :
           [doc |-> doc, index |-> i, text |-> fetched[j]] \in chunk'
  BY NewRows
<1>2. \A d, i : i \in Indexes(d) <=> \E c \in chunk : c.doc = d /\ c.index = i
  BY DEF Indexes
<1>3. \A d, i : i \in Indexes(d)' <=> \E c \in chunk' : c.doc = d /\ c.index = i
  BY DEF Indexes
<1> HIDE DEF doc, rows
<1>4. \A i : i \in Indexes(doc)' <=> i \in Indexes(doc) \cup rows
  <2>1. ASSUME NEW i, i \in Indexes(doc)' PROVE i \in Indexes(doc) \cup rows
    BY <2>1, <1>1, <1>2, <1>3
  <2>2. ASSUME NEW i \in Indexes(doc) PROVE i \in Indexes(doc)'
    BY <2>2, <1>1, <1>2, <1>3
  <2>3. ASSUME NEW i \in rows \ Indexes(doc) PROVE i \in Indexes(doc)'
    <3> DEFINE c == [doc |-> doc, index |-> i, text |-> fetched[j]]
    <3>1. c \in chunk' /\ c.doc = doc /\ c.index = i
      BY <2>3, <1>1
    <3> HIDE DEF c
    <3> QED
      BY <3>1, <1>3
  <2> QED
    BY <2>1, <2>2, <2>3
<1>5. ASSUME NEW d \in Documents \ {doc} PROVE \A i : i \in Indexes(d)' <=> i \in Indexes(d)
  BY <1>1, <1>2, <1>3, <1>5
<1>6. Indexes(doc)' = Indexes(doc) \cup rows
  BY <1>4
<1>7. \A d \in Documents \ {doc} : Indexes(d)' = Indexes(d)
  BY <1>5
<1> QED
  BY <1>6, <1>7 DEF doc, rows

(* To the text it adds what the document does not have yet of it, and to   *)
(* the others nothing.                                                     *)
LEMMA PartsGrow ==
  ASSUME TypeOK, NEW j \in Jobs, InsertChunks(j), NEW text \in Texts, text = fetched[j]
  PROVE  /\ Part(DocOf[j], text)' =
              Part(DocOf[j], text) \cup ((0 .. Count[text] - 1) \ Indexes(DocOf[j]))
         /\ \A d \in Documents, t \in Texts :
              d # DocOf[j] \/ t # text => Part(d, t)' = Part(d, t)
<1> DEFINE doc == DocOf[j]
           rows == (0 .. Count[text] - 1) \ Indexes(DocOf[j])
<1>1. /\ chunk \subseteq chunk'
      /\ \A c \in chunk' \ chunk : c.doc = doc /\ c.index \in rows /\ c.text = text
      /\ \A i \in rows : [doc |-> doc, index |-> i, text |-> text] \in chunk'
  <2>1. /\ chunk \subseteq chunk'
        /\ \A c \in chunk' \ chunk :
             /\ c.doc = doc /\ c.index \in rows
             /\ c = [doc |-> doc, index |-> c.index, text |-> text]
        /\ \A i \in rows : [doc |-> doc, index |-> i, text |-> text] \in chunk'
    BY NewRows
  <2> QED
    BY <2>1
<1>2. \A d, t, i : i \in Part(d, t) <=> \E c \in chunk : c.doc = d /\ c.text = t /\ c.index = i
  BY DEF Part
<1>3. \A d, t, i : i \in Part(d, t)' <=> \E c \in chunk' : c.doc = d /\ c.text = t /\ c.index = i
  BY DEF Part
<1> HIDE DEF doc, rows
<1>4. \A i : i \in Part(doc, text)' <=> i \in Part(doc, text) \cup rows
  <2>1. ASSUME NEW i, i \in Part(doc, text)' PROVE i \in Part(doc, text) \cup rows
    BY <2>1, <1>1, <1>2, <1>3
  <2>2. ASSUME NEW i \in Part(doc, text) PROVE i \in Part(doc, text)'
    BY <2>2, <1>1, <1>2, <1>3
  <2>3. ASSUME NEW i \in rows PROVE i \in Part(doc, text)'
    <3> DEFINE c == [doc |-> doc, index |-> i, text |-> text]
    <3>1. c \in chunk' /\ c.doc = doc /\ c.index = i /\ c.text = text
      BY <2>3, <1>1
    <3> HIDE DEF c
    <3> QED
      BY <3>1, <1>3
  <2> QED
    BY <2>1, <2>2, <2>3
<1>5. ASSUME NEW d \in Documents, NEW t \in Texts, d # doc \/ t # text
      PROVE  \A i : i \in Part(d, t)' <=> i \in Part(d, t)
  BY <1>1, <1>2, <1>3, <1>5
<1>6. Part(doc, text)' = Part(doc, text) \cup rows
  BY <1>4
<1>7. \A d \in Documents, t \in Texts : d # doc \/ t # text => Part(d, t)' = Part(d, t)
  BY <1>5
<1> QED
  BY <1>6, <1>7 DEF doc, rows

(* What the property says of one document.                                 *)
LastText(d) ==
    \/ Indexes(d) = {}
    \/ \E t \in Texts : Part(d, t) # {} /\ Indexes(d) = 0 .. Count[t] - 1

WholePart(d, t) ==
    \/ Part(d, t) = {}
    \/ Part(d, t) = 0 .. Count[t] - 1
    \/ \E u \in Texts \ {t} : Part(d, u) # {} /\ Part(d, t) = Count[u] .. Count[t] - 1

LEMMA WholeByPart ==
  WholeUnlessReplaced <=>
      \A d \in Documents : LastText(d) /\ \A t \in Texts : WholePart(d, t)
  BY DEF WholeUnlessReplaced, LastText, WholePart

(* A text that is inserted either adds nothing, or all from where the      *)
(* numbers end, and then had nothing there before.                         *)
LEMMA InsertKeepsWhole ==
  ASSUME TypeOK, WholeUnlessReplaced, NEW j \in Jobs, InsertChunks(j)
  PROVE  WholeUnlessReplaced'
<1>0. PICK text \in Texts : text = fetched[j]
  BY CountOfText
<1> DEFINE doc == DocOf[j]
           n == Count[text]
<1>1. text \in Texts /\ n \in Nat /\ doc \in Documents /\ \A t \in Texts : Count[t] \in Nat
  BY CountOfText, IngestionAssumption
<1>2. /\ Indexes(doc)' = Indexes(doc) \cup (0 .. n - 1)
      /\ \A d \in Documents \ {doc} : Indexes(d)' = Indexes(d)
      /\ Part(doc, text)' = Part(doc, text) \cup ((0 .. n - 1) \ Indexes(doc))
      /\ \A d \in Documents, t \in Texts : d # doc \/ t # text => Part(d, t)' = Part(d, t)
  BY <1>0, IndexesGrow, PartsGrow
<1>3. \A d \in Documents : LastText(d) /\ \A t \in Texts : WholePart(d, t)
  BY WholeByPart
<1>4. Part(doc, text) \subseteq Indexes(doc)
  BY DEF Part, Indexes
<1> HIDE DEF doc, n
<1>5. ASSUME NEW d \in Documents \ {doc}
      PROVE  LastText(d)' /\ \A t \in Texts : WholePart(d, t)'
  BY <1>2, <1>3, <1>5 DEF LastText, WholePart
<1>6. ASSUME (0 .. n - 1) \ Indexes(doc) = {}
      PROVE  LastText(doc)' /\ \A t \in Texts : WholePart(doc, t)'
  <2>1. /\ Indexes(doc)' = Indexes(doc)
        /\ \A t \in Texts : Part(doc, t)' = Part(doc, t)
    BY <1>1, <1>2, <1>6
  <2> QED
    BY <1>1, <1>3, <2>1 DEF LastText, WholePart
<1>7. ASSUME (0 .. n - 1) \ Indexes(doc) # {}, Indexes(doc) = {}
      PROVE  LastText(doc)' /\ \A t \in Texts : WholePart(doc, t)'
  <2>1. /\ Indexes(doc)' = 0 .. n - 1
        /\ Part(doc, text) = {} /\ Part(doc, text)' = 0 .. n - 1
    BY <1>2, <1>4, <1>7
  <2>2. LastText(doc)' /\ WholePart(doc, text)'
    BY <1>1, <1>7, <2>1 DEF LastText, WholePart, n
  <2>3. ASSUME NEW t \in Texts \ {text} PROVE WholePart(doc, t)'
    <3>1. Part(doc, t) \subseteq Indexes(doc)
      BY DEF Part, Indexes
    <3>2. Part(doc, t)' = {}
      BY <1>1, <1>2, <1>7, <2>3, <3>1
    <3> QED
      BY <3>2 DEF WholePart
  <2> QED
    BY <2>2, <2>3
<1>8. ASSUME (0 .. n - 1) \ Indexes(doc) # {}, Indexes(doc) # {}
      PROVE  LastText(doc)' /\ \A t \in Texts : WholePart(doc, t)'
  <2>1. PICK u \in Texts : Part(doc, u) # {} /\ Indexes(doc) = 0 .. Count[u] - 1
    BY <1>1, <1>3, <1>8 DEF LastText
  <2> DEFINE m == Count[u]
  <2>2. m \in Nat
    BY <1>1
  <2>3. Indexes(doc) = 0 .. m - 1
    BY <2>1
  <2>x. Count[u] = m
    OBVIOUS
  <2> HIDE DEF m
  <2>4. n > m
    BY <1>1, <1>8, <2>2, <2>3
  <2>5. /\ (0 .. n - 1) \ Indexes(doc) = m .. n - 1
        /\ Indexes(doc)' = 0 .. n - 1
        /\ n - 1 \notin Indexes(doc)
    BY <1>1, <1>2, <2>2, <2>3, <2>4
  <2>6. Part(doc, text) = {}
    <3>1. ASSUME Part(doc, text) # {} PROVE n - 1 \in Part(doc, text)
      <4>1. WholePart(doc, text)
        BY <1>1, <1>3
      <4>2. CASE Part(doc, text) = 0 .. n - 1
        BY <1>1, <2>2, <2>4, <4>2
      <4>3. ASSUME NEW v \in Texts, Part(doc, text) = Count[v] .. n - 1
            PROVE  n - 1 \in Part(doc, text)
        BY <1>1, <3>1, <4>3
      <4> QED
        BY <3>1, <4>1, <4>2, <4>3 DEF WholePart, n
    <3> QED
      BY <1>4, <2>5, <3>1
  <2>7. u \in Texts \ {text}
    BY <2>1, <2>6
  <2>8. Part(doc, text)' = m .. n - 1 /\ Part(doc, u)' = Part(doc, u)
    BY <1>1, <1>2, <2>5, <2>6, <2>7
  <2>9. Part(doc, text)' # {} /\ Part(doc, u)' # {}
    <3>1. m \in m .. n - 1
      BY <1>1, <2>2, <2>4
    <3> QED
      BY <2>1, <2>8, <3>1
  <2>10. LastText(doc)' /\ WholePart(doc, text)'
    <3>1. UNCHANGED <<Texts, Count>> /\ Count[text] = n
      BY DEF n
    <3>2. /\ Indexes(doc)' = 0 .. Count[text] - 1
          /\ Part(doc, text)' = Count[u] .. Count[text] - 1
      BY <2>5, <2>8, <2>x, <3>1
    <3>3. LastText(doc)'
      BY <1>1, <2>9, <3>2 DEF LastText
    <3>4. WholePart(doc, text)'
      BY <2>7, <2>9, <3>2 DEF WholePart
    <3> QED
      BY <3>3, <3>4
  <2>11. ASSUME NEW t \in Texts \ {text} PROVE WholePart(doc, t)'
    <3>1. /\ Part(doc, t)' = Part(doc, t) /\ WholePart(doc, t)
          /\ \A v \in Texts : Part(doc, v) # {} => Part(doc, v)' = Part(doc, v)
      BY <1>1, <1>2, <1>3, <2>6, <2>11
    <3> QED
      BY <3>1 DEF WholePart
  <2> QED
    BY <2>10, <2>11
<1>9. \A d \in Documents : LastText(d)' /\ \A t \in Texts : WholePart(d, t)'
  BY <1>5, <1>6, <1>7, <1>8
<1> QED
  BY <1>9 DEF WholeUnlessReplaced, LastText, WholePart

LEMMA InsertKeepsChunks ==
  ASSUME TypeOK, OneChunkPerIndex, WholeUnlessReplaced, NEW j \in Jobs, InsertChunks(j)
  PROVE  /\ OneChunkPerIndex' /\ WholeUnlessReplaced'
         /\ Count[fetched[j]] > 0 => Indexes(DocOf[j])' # {}
<1>1. OneChunkPerIndex'
  <2>1. /\ chunk \subseteq chunk'
        /\ \A c \in chunk' \ chunk :
             /\ c.doc = DocOf[j] /\ c.index \notin Indexes(DocOf[j])
             /\ c = [doc |-> DocOf[j], index |-> c.index, text |-> fetched[j]]
    BY NewRows
  <2> SUFFICES ASSUME NEW c \in chunk', NEW e \in chunk',
                      c.doc = e.doc, c.index = e.index
               PROVE  c = e
    BY DEF OneChunkPerIndex
  <2>2. \A x \in chunk : x.index \in Indexes(x.doc)
    BY DEF Indexes
  <2>3. CASE c \in chunk /\ e \in chunk
    BY <2>3 DEF OneChunkPerIndex
  <2>4. CASE c \notin chunk /\ e \notin chunk
    BY <2>1, <2>4
  <2>5. CASE c \in chunk /\ e \notin chunk
    BY <2>1, <2>2, <2>5
  <2>6. CASE c \notin chunk /\ e \in chunk
    BY <2>1, <2>2, <2>6
  <2> QED
    BY <2>3, <2>4, <2>5, <2>6
<1>2. ASSUME Count[fetched[j]] > 0 PROVE Indexes(DocOf[j])' # {}
  <2>1. Count[fetched[j]] \in Nat /\ 0 \in 0 .. Count[fetched[j]] - 1
    BY <1>2, CountOfText
  <2> QED
    BY <2>1, IndexesGrow
<1> QED
  BY <1>1, <1>2, InsertKeepsWhole

-----------------------------------------------------------------------------
(* A step of one job: the others' attempts and the other documents are     *)
(* left alone, attempts are not taken back, and chunks are inserted by one *)
(* that has embedded its text.                                             *)
LEMMA JobEffect ==
  ASSUME TypeOK, Places, NEW j \in Jobs, JobStep(j)
  PROVE  /\ \A i \in Jobs \ {j} :
              /\ jstate'[i] = jstate[i] /\ attempts'[i] = attempts[i]
              /\ apc'[i] = apc[i] /\ cut'[i] = cut[i] /\ fetched'[i] = fetched[i]
         /\ \A d \in Documents \ {DocOf[j]} : status'[d] = status[d]
         /\ attempts'[j] >= attempts[j]
         /\ UNCHANGED chunk \/ (apc[j] = "embed" /\ InsertChunks(j))
<1> USE DEF TypeOK, RiverTypeOK, IngestionTypeOK, At, SetStatus
<1>0. attempts[j] \in Nat /\ MaxAttempts \in Nat
  BY RiverAssumption
<1>1. CASE FetchJob(j)
  BY <1>0, <1>1 DEF FetchJob, StartAttempt, Start
<1>2. CASE Proceed(j)
  <2>1. CASE CompleteJob(j)
    BY <1>0, <2>1, <1>2 DEF Proceed, CompleteJob, Complete
  <2>2. CASE MarkFailed(j)
    BY <1>0, <2>2, <1>2 DEF Proceed, MarkFailed, Retry
  <2>3. CASE GuardDocument(j) \/ MarkProcessing(j) \/ MarkReady(j)
    BY <1>0, <2>3, <1>2 DEF Proceed, GuardDocument, MarkProcessing, MarkReady
  <2>4. CASE Fetch(j) \/ Embed(j)
    BY <1>0, <2>4, <1>2 DEF Proceed, Fetch, Download, Embed
  <2>5. CASE Index(j) \/ StageFails(j)
    BY <1>0, <2>5, <1>2 DEF Proceed, Index, StageFails
  <2> QED
    BY <1>2, <2>1, <2>2, <2>3, <2>4, <2>5 DEF Proceed, Ingest
<1>3. CASE CutShort(j)
  BY <1>0, <1>3 DEF CutShort, AttemptFails, AttemptFailsAfterWrite, Retry
<1>4. CASE LoseAttempt(j)
  BY <1>0, <1>4 DEF LoseAttempt
<1>5. CASE Rescue(j)
  BY <1>0, <1>5 DEF Rescue, Retry, ingestVars
<1> QED
  BY <1>1, <1>2, <1>3, <1>4, <1>5 DEF JobStep

LEMMA JobTypes ==
  ASSUME TypeOK, NEW j \in Jobs, JobStep(j)
  PROVE  TypeOK'
<1> USE DEF TypeOK, RiverTypeOK, IngestionTypeOK, At, SetStatus, processVars
<1>0. /\ attempts[j] \in 0 .. MaxAttempts /\ MaxAttempts \in Nat
      /\ {"available", "running", "completed", "discarded"} \subseteq JobState
      /\ {"processing", "ready", "failed"} \subseteq Status
      /\ fetched[j] \in Texts /\ Count[fetched[j]] \in Nat /\ DocOf[j] \in Documents
      /\ source[DocOf[j]] \in Texts
  BY RiverAssumption, CountOfText DEF JobState, Status
<1>1. CASE FetchJob(j)
  BY <1>0, <1>1 DEF FetchJob, StartAttempt, Start
<1>2. CASE Proceed(j)
  <2>1. CASE CompleteJob(j)
    BY <1>0, <2>1, <1>2 DEF Proceed, CompleteJob, Complete
  <2>2. CASE MarkFailed(j)
    BY <1>0, <2>2, <1>2 DEF Proceed, MarkFailed, Retry
  <2>3. CASE GuardDocument(j)
    BY <1>0, <2>3, <1>2 DEF Proceed, GuardDocument
  <2>4. CASE MarkProcessing(j) \/ MarkReady(j)
    BY <1>0, <2>4, <1>2 DEF Proceed, MarkProcessing, MarkReady
  <2>5. CASE Fetch(j)
    BY <1>0, <2>5, <1>2 DEF Proceed, Fetch, Download
  <2>6. CASE Embed(j)
    <3>1. embedded' \in [Jobs -> Nat]
      BY <1>0, <2>6, IngestionAssumption DEF Embed, EmbedTexts
    <3> QED
      BY <1>0, <2>6, <1>2, <3>1 DEF Proceed, Embed
  <2>7. CASE Index(j)
    BY <1>0, <2>7, <1>2, NewRows DEF Proceed, Index
  <2>8. CASE StageFails(j)
    <3>1. chunk' \in SUBSET ChunkRow
      BY <2>8, NewRows DEF StageFails
    <3> QED
      BY <1>0, <2>8, <1>2, <3>1 DEF Proceed, StageFails
  <2> QED
    BY <1>2, <2>1, <2>2, <2>3, <2>4, <2>5, <2>6, <2>7, <2>8 DEF Proceed, Ingest
<1>3. CASE CutShort(j)
  <2>1. CASE AttemptFails(j)
    BY <1>0, <2>1, <1>3 DEF CutShort, AttemptFails, Retry
  <2>2. CASE AttemptFailsAfterWrite(j)
    <3>1. chunk' \in SUBSET ChunkRow
      BY <2>2, NewRows DEF AttemptFailsAfterWrite
    <3>2. status' \in [Documents -> Status]
      BY <1>0, <2>2 DEF AttemptFailsAfterWrite
    <3> QED
      BY <1>0, <2>2, <1>3, <3>1, <3>2 DEF CutShort, AttemptFailsAfterWrite, Retry
  <2> QED
    BY <1>3, <2>1, <2>2 DEF CutShort
<1>4. CASE LoseAttempt(j)
  BY <1>0, <1>4 DEF LoseAttempt
<1>5. CASE Rescue(j)
  BY <1>0, <1>5 DEF Rescue, Retry, ingestVars
<1> QED
  BY <1>1, <1>2, <1>3, <1>4, <1>5 DEF JobStep

(* The indexes of a document only grow, and those of one whose chunks are  *)
(* inserted are not empty.                                                 *)
LEMMA JobIndexes ==
  ASSUME TypeOK, Places, OneChunkPerIndex, WholeUnlessReplaced, NEW j \in Jobs, JobStep(j)
  PROVE  /\ OneChunkPerIndex' /\ WholeUnlessReplaced'
         /\ \A d \in Documents : Indexes(d) # {} => Indexes(d)' # {}
         /\ UNCHANGED chunk \/ Indexes(DocOf[j])' # {}
<1>1. CASE UNCHANGED chunk
  BY <1>1 DEF OneChunkPerIndex, WholeUnlessReplaced, Part, Indexes
<1>2. CASE apc[j] = "embed" /\ InsertChunks(j)
  <2>1. /\ OneChunkPerIndex' /\ WholeUnlessReplaced' /\ Indexes(DocOf[j])' # {}
    BY <1>2, InsertKeepsChunks DEF Places, PlacesOf
  <2>2. \A d \in Documents \ {DocOf[j]} : Indexes(d)' = Indexes(d)
    BY <1>2, IndexesGrow
  <2> QED
    BY <2>1, <2>2
<1> QED
  BY <1>1, <1>2, JobEffect

LEMMA JobPlaces ==
  ASSUME TypeOK, Places, OneChunkPerIndex, WholeUnlessReplaced, ReadyIsIndexed,
         NEW j \in Jobs, JobStep(j)
  PROVE  Places' /\ ReadyIsIndexed'
<1>0. /\ PlacesOf(j) /\ attempts[j] \in Nat /\ MaxAttempts \in Nat
      /\ DocOf[j] \in Documents
  BY RiverAssumption, CountOfText DEF Places, TypeOK, RiverTypeOK
<1>1. /\ \A d \in Documents : Indexes(d) # {} => Indexes(d)' # {}
      /\ UNCHANGED chunk \/ Indexes(DocOf[j])' # {}
  BY JobIndexes
<1>2. ASSUME NEW i \in Jobs \ {j} PROVE PlacesOf(i)'
  <2>1. PlacesOf(i) /\ DocOf[i] \in Documents
    BY IngestionAssumption DEF Places
  <2>2. /\ jstate'[i] = jstate[i] /\ attempts'[i] = attempts[i]
        /\ apc'[i] = apc[i] /\ fetched'[i] = fetched[i]
    BY JobEffect
  <2> QED
    BY <1>1, <2>1, <2>2 DEF PlacesOf
<1>3. /\ PlacesOf(j)'
      /\ status'[DocOf[j]] = "ready" => status[DocOf[j]] = "ready" \/ Indexes(DocOf[j])' # {}
  <2> USE DEF TypeOK, RiverTypeOK, IngestionTypeOK, At, SetStatus, PlacesOf
  <2>1. CASE FetchJob(j)
    BY <1>0, <1>1, <2>1 DEF FetchJob, StartAttempt, Start
  <2>2. CASE Proceed(j)
    <3>1. CASE CompleteJob(j)
      BY <1>0, <1>1, <3>1 DEF CompleteJob, Complete
    <3>2. CASE MarkFailed(j)
      BY <1>0, <1>1, <3>2 DEF MarkFailed, Retry
    <3>3. CASE GuardDocument(j)
      <4>1. /\ apc'[j] = IF status[DocOf[j]] = "ready" THEN "nil" ELSE "processing"
            /\ UNCHANGED <<jstate, attempts, status, fetched, chunk>>
            /\ jstate[j] = "running" /\ apc[j] = "guard"
        BY <3>3 DEF GuardDocument
      <4>2. status[DocOf[j]] = "ready" => Indexes(DocOf[j])' # {}
        BY <1>0, <1>1 DEF ReadyIsIndexed
      <4> QED
        BY <1>0, <4>1, <4>2
    <3>4. CASE MarkProcessing(j) \/ MarkReady(j)
      BY <1>0, <1>1, <3>4 DEF MarkProcessing, MarkReady
    <3>5. CASE Fetch(j)
      BY <1>0, <1>1, <3>5 DEF Fetch, Download, Parses
    <3>6. CASE Embed(j)
      BY <1>0, <1>1, <3>6 DEF Embed
    <3>7. CASE Index(j)
      <4>1. Indexes(DocOf[j])' # {}
        BY <1>0, <3>7, InsertKeepsChunks DEF Index
      <4> QED
        BY <1>0, <3>7, <4>1 DEF Index
    <3>8. CASE StageFails(j)
      BY <1>0, <1>1, <3>8 DEF StageFails
    <3> QED
      BY <2>2, <3>1, <3>2, <3>3, <3>4, <3>5, <3>6, <3>7, <3>8 DEF Proceed, Ingest
  <2>3. CASE CutShort(j)
    <3>1. apc' = [apc EXCEPT ![j] = "idle"] /\ Retry(j)
      BY <2>3 DEF CutShort, AttemptFails, AttemptFailsAfterWrite
    <3>2. /\ apc'[j] = "idle" /\ jstate'[j] \in {"available", "discarded"}
          /\ UNCHANGED attempts
      BY <3>1 DEF Retry
    <3>3. PlacesOf(j)'
      BY <3>2
    <3>4. status'[DocOf[j]] = "ready" => status[DocOf[j]] = "ready" \/ apc[j] = "ready"
      BY <1>0, <2>3 DEF CutShort, AttemptFails, AttemptFailsAfterWrite
    <3> QED
      BY <1>0, <1>1, <3>3, <3>4
  <2>4. CASE LoseAttempt(j)
    BY <1>0, <1>1, <2>4 DEF LoseAttempt
  <2>5. CASE Rescue(j)
    BY <1>0, <1>1, <2>5 DEF Rescue, Retry, InProgress, ingestVars
  <2> QED
    BY <2>1, <2>2, <2>3, <2>4, <2>5 DEF JobStep
<1>4. Places'
  BY <1>2, <1>3 DEF Places
<1>5. ReadyIsIndexed'
  <2> SUFFICES ASSUME NEW d \in Documents, status'[d] = "ready" PROVE Indexes(d)' # {}
    BY DEF ReadyIsIndexed
  <2>1. CASE d = DocOf[j]
    BY <1>1, <1>3, <2>1 DEF ReadyIsIndexed
  <2>2. CASE d # DocOf[j]
    BY <1>1, <2>2, JobEffect DEF ReadyIsIndexed
  <2> QED
    BY <2>1, <2>2
<1> QED
  BY <1>4, <1>5

LEMMA JobProcessing ==
  ASSUME TypeOK, Places, Processing, NEW j \in Jobs, JobStep(j)
  PROVE  Processing'
<1> DEFINE d == DocOf[j]
<1>0. PlacesOf(j) /\ d \in Documents
  BY CountOfText DEF Places
<1>1. status'[d] = "processing" /\ (status[d] = "processing" => Holder(j, d))
        => Holder(j, d)'
  <2> USE DEF TypeOK, RiverTypeOK, IngestionTypeOK, At, SetStatus, Holder, PlacesOf
  <2>1. CASE FetchJob(j)
    BY <1>0, <2>1 DEF FetchJob, StartAttempt, Start
  <2>2. CASE Proceed(j)
    <3>1. CASE CompleteJob(j)
      BY <1>0, <2>2, <3>1 DEF Proceed, CompleteJob, Complete
    <3>2. CASE MarkFailed(j)
      BY <1>0, <2>2, <3>2 DEF MarkFailed
    <3>3. CASE GuardDocument(j)
      BY <1>0, <2>2, <3>3 DEF Proceed, GuardDocument
    <3>4. CASE MarkProcessing(j)
      BY <1>0, <2>2, <3>4 DEF Proceed, MarkProcessing
    <3>5. CASE MarkReady(j)
      BY <1>0, <2>2, <3>5 DEF Proceed, MarkReady
    <3>6. CASE Fetch(j) \/ Embed(j)
      BY <1>0, <2>2, <3>6 DEF Proceed, Fetch, Embed
    <3>7. CASE Index(j) \/ StageFails(j)
      BY <1>0, <2>2, <3>7 DEF Proceed, Index, StageFails
    <3> QED
      BY <2>2, <3>1, <3>2, <3>3, <3>4, <3>5, <3>6, <3>7 DEF Proceed, Ingest
  <2>3. CASE CutShort(j)
    <3>1. apc' = [apc EXCEPT ![j] = "idle"] /\ Retry(j) /\ cut' = [cut EXCEPT ![j] = TRUE]
      BY <2>3 DEF CutShort, AttemptFails, AttemptFailsAfterWrite
    <3>2. apc'[j] = "idle" /\ jstate'[j] \in {"available", "discarded"} /\ cut'[j]
      BY <3>1 DEF Retry
    <3> QED
      BY <3>2
  <2>4. CASE LoseAttempt(j)
    <3>1. /\ apc'[j] = "idle" /\ jstate'[j] = "running" /\ cut'[j]
      BY <1>0, <2>4 DEF LoseAttempt, InProgress
    <3> QED
      BY <3>1
  <2>5. CASE Rescue(j)
    BY <1>0, <2>5 DEF Rescue, Retry, ingestVars, InProgress
  <2> QED
    BY <2>1, <2>2, <2>3, <2>4, <2>5 DEF JobStep
<1>2. ASSUME NEW e \in Documents, status'[e] = "processing"
      PROVE  \E i \in Jobs : Holder(i, e)'
  <2>1. CASE e = d /\ (status[d] = "processing" => Holder(j, d))
    BY <1>1, <1>2, <2>1
  <2>2. CASE status[e] = "processing" /\ ~(e = d /\ Holder(j, d))
    <3>1. PICK i \in Jobs : Holder(i, e)
      BY <2>2 DEF Processing
    <3>2. i # j
      BY <2>2, <3>1 DEF Holder
    <3>3. apc'[i] = apc[i] /\ cut'[i] = cut[i] /\ jstate'[i] = jstate[i]
      BY <3>2, JobEffect
    <3> QED
      BY <3>1, <3>3 DEF Holder
  <2>3. e # d => status[e] = "processing"
    BY <1>2, JobEffect
  <2> QED
    BY <2>1, <2>2, <2>3
<1> QED
  BY <1>2 DEF Processing

(* What a job's step does to the status of its document, and from where.   *)
Marks(j, here, st) ==
    /\ jstate[j] = "running" /\ apc[j] = here
    /\ SetStatus(j, st)
    /\ UNCHANGED <<attempts, chunk>>

LEMMA JobStatus ==
  ASSUME NEW j \in Jobs, JobStep(j)
  PROVE  \/ Marks(j, "processing", "processing")
         \/ Marks(j, "ready", "ready")
         \/ Marks(j, "failing", "failed")
         \/ apc[j] = "embed" /\ InsertChunks(j) /\ UNCHANGED <<status, attempts>>
         \/ UNCHANGED <<status, chunk>>
<1> USE DEF At, Marks
<1>1. CASE FetchJob(j)
  BY <1>1 DEF FetchJob, StartAttempt
<1>2. CASE Proceed(j)
  <2>1. CASE CompleteJob(j) \/ GuardDocument(j) \/ Fetch(j) \/ Embed(j)
    BY <2>1 DEF CompleteJob, GuardDocument, Fetch, Embed
  <2>2. CASE MarkProcessing(j) \/ MarkReady(j) \/ MarkFailed(j)
    BY <2>2 DEF MarkProcessing, MarkReady, MarkFailed, Retry
  <2>3. CASE Index(j) \/ StageFails(j)
    BY <2>3 DEF Index, StageFails
  <2> QED
    BY <1>2, <2>1, <2>2, <2>3 DEF Proceed, Ingest
<1>3. CASE CutShort(j)
  BY <1>3 DEF CutShort, AttemptFails, AttemptFailsAfterWrite, Retry
<1>4. CASE LoseAttempt(j) \/ Rescue(j)
  BY <1>4 DEF LoseAttempt, Rescue, ingestVars
<1> QED
  BY <1>1, <1>2, <1>3, <1>4 DEF JobStep

(* Where a job's step can bring its attempt.                               *)
LEMMA JobMoves ==
  ASSUME TypeOK, NEW j \in Jobs, JobStep(j)
  PROVE  /\ apc'[j] = "processing" =>
              /\ apc[j] = "guard" /\ status[DocOf[j]] \notin {"none", "ready"}
              /\ UNCHANGED status
         /\ apc'[j] \in {"fetch", "embed", "ready", "failing"} =>
              \/ Marks(j, "processing", "processing")
              \/ apc[j] \in {"fetch", "embed"} /\ UNCHANGED status
<1> USE DEF TypeOK, IngestionTypeOK, At, Marks
<1>1. CASE FetchJob(j)
  BY <1>1 DEF FetchJob, StartAttempt
<1>2. CASE Proceed(j)
  <2>1. CASE CompleteJob(j) \/ MarkFailed(j) \/ MarkReady(j)
    BY <2>1 DEF CompleteJob, MarkFailed, MarkReady
  <2>2. CASE GuardDocument(j)
    BY <2>2 DEF GuardDocument
  <2>3. CASE MarkProcessing(j)
    BY <2>3 DEF MarkProcessing
  <2>4. CASE Fetch(j) \/ Embed(j) \/ Index(j) \/ StageFails(j)
    BY <2>4 DEF Fetch, Embed, Index, StageFails
  <2> QED
    BY <1>2, <2>1, <2>2, <2>3, <2>4 DEF Proceed, Ingest
<1>3. CASE CutShort(j) \/ LoseAttempt(j)
  BY <1>3 DEF CutShort, AttemptFails, AttemptFailsAfterWrite, LoseAttempt
<1>4. CASE Rescue(j)
  BY <1>4 DEF Rescue, ingestVars, InProgress
<1> QED
  BY <1>1, <1>2, <1>3, <1>4 DEF JobStep

(* Once contended, always contended.                                       *)
LEMMA ContendedStays ==
  ASSUME TypeOK, Places, NEW j \in Jobs, JobStep(j), NEW d \in Documents, Contended(d)
  PROVE  Contended(d)'
<1>1. \A i \in Jobs : attempts[i] \in Nat /\ attempts'[i] \in Nat
  BY JobTypes, RiverAssumption DEF TypeOK, RiverTypeOK
<1>2. attempts'[j] >= attempts[j] /\ \A i \in Jobs \ {j} : attempts'[i] = attempts[i]
  BY JobEffect
<1>3. \A i \in Jobs : attempts[i] > 0 => attempts'[i] > 0
  BY <1>1, <1>2
<1> QED
  BY <1>3 DEF Contended

(* Two jobs that are both past their start contend.                        *)
LEMMA JobHolds ==
  ASSUME TypeOK, Places, Holds, NEW j \in Jobs, JobStep(j)
  PROVE  Holds'
<1> DEFINE d == DocOf[j]
<1>0. /\ d \in Documents /\ status \in [Documents -> Status]
      /\ \A i \in Jobs : DocOf[i] \in Documents
  BY IngestionAssumption DEF TypeOK, IngestionTypeOK
<1>1. \A i \in Jobs : apc[i] # "idle" => attempts[i] > 0
  BY DEF Places, PlacesOf
<1>2. \A e \in Documents : Contended(e) => Contended(e)'
  BY ContendedStays
<1>3. ASSUME NEW i \in Jobs \ {j} PROVE HoldsOf(i)'
  <2>0. apc'[i] = apc[i] /\ HoldsOf(i)
    BY JobEffect DEF Holds
  <2>1. CASE status'[DocOf[i]] = status[DocOf[i]]
    BY <1>0, <1>2, <2>0, <2>1 DEF HoldsOf, MayTakeUp, InHand
  <2>2. CASE status'[DocOf[i]] # status[DocOf[i]]
    <3>1. /\ DocOf[i] = d /\ apc[j] # "idle"
          /\ status'[d] \in {"processing", "ready", "failed"}
      BY <1>0, <2>2, JobStatus, JobEffect DEF Marks, SetStatus
    <3>2. apc[i] # "idle" => Contended(d)'
      <4>1. apc[i] # "idle" => attempts[i] > 0 /\ attempts[j] > 0
        BY <1>1, <3>1
      <4>2. apc[i] # "idle" => Contended(d)
        BY <3>1, <4>1 DEF Contended
      <4> QED
        BY <1>0, <1>2, <4>2
    <3> QED
      BY <2>0, <3>1, <3>2 DEF HoldsOf, MayTakeUp, InHand
  <2> QED
    BY <2>1, <2>2
<1>4. HoldsOf(j)'
  <2>0. HoldsOf(j)
    BY DEF Holds
  <2>1. ASSUME apc'[j] = "processing" PROVE MayTakeUp(d)'
    <3>1. status[d] \notin {"none", "ready"} /\ UNCHANGED status
      BY <2>1, JobMoves
    <3> QED
      BY <1>0, <3>1 DEF MayTakeUp, Status
  <2>2. ASSUME apc'[j] \in {"fetch", "embed", "ready", "failing"} PROVE InHand(d)'
    <3>1. CASE Marks(j, "processing", "processing")
      BY <1>0, <3>1 DEF Marks, SetStatus, InHand
    <3>2. CASE apc[j] \in {"fetch", "embed"} /\ UNCHANGED status
      BY <1>0, <1>2, <2>0, <3>2 DEF HoldsOf, InHand
    <3> QED
      BY <2>2, <3>1, <3>2, JobMoves
  <2> QED
    BY <2>1, <2>2 DEF HoldsOf
<1> QED
  BY <1>3, <1>4 DEF Holds

LEMMA JobStepInv ==
  ASSUME IInv, NEW j \in Jobs, JobStep(j)
  PROVE  IInv'
  BY JobTypes, JobIndexes, JobPlaces, JobProcessing, JobHolds DEF IInv, Chunks

-----------------------------------------------------------------------------
(* The process ends: every attempt that was in progress was cut short.     *)
LEMMA GoneInv ==
  ASSUME IInv, Gone, UNCHANGED <<startupErr, ctxDone, errChan, workerErrChan>>,
         faults' \in Nat
  PROVE  IInv'
<1>1. /\ main' = "down" /\ client' = "off"
      /\ apc' = [j \in Jobs |-> "idle"]
      /\ cut' = [j \in Jobs |-> cut[j] \/ InProgress(j)]
      /\ UNCHANGED <<jstate, attempts, status, source, chunk, fetched, embedded>>
  BY DEF Gone
<1>2. TypeOK'
  <2>1. RiverTypeOK' /\ IngestionTypeOK'
    BY <1>1 DEF IInv, TypeOK, RiverTypeOK, IngestionTypeOK
  <2>2. cut' \in [Jobs -> BOOLEAN]
    <3>1. \A j \in Jobs : (cut[j] \/ InProgress(j)) \in BOOLEAN
      OBVIOUS
    <3> QED
      BY <1>1, <3>1, Zenon
  <2> QED
    BY <1>1, <2>1, <2>2 DEF IInv, TypeOK
<1>3. \A d : Indexes(d)' = Indexes(d)
  BY <1>1 DEF Indexes
<1>4. Places' /\ Holds'
  BY <1>1, <1>3 DEF IInv, Places, PlacesOf, Holds, HoldsOf
<1>5. Chunks'
  BY <1>1, <1>3 DEF IInv, Chunks, OneChunkPerIndex, WholeUnlessReplaced, Part, ReadyIsIndexed
<1>6. Processing'
  <2> SUFFICES ASSUME NEW d \in Documents, status[d] = "processing"
               PROVE  \E j \in Jobs : Holder(j, d)'
    BY <1>1 DEF Processing
  <2>1. PICK j \in Jobs : Holder(j, d)
    BY DEF IInv, Processing
  <2>2. apc'[j] = "idle" /\ (cut'[j] <=> cut[j] \/ apc[j] # "idle") /\ jstate'[j] = jstate[j]
    BY <1>1 DEF InProgress
  <2>3. apc[j] # "idle" => jstate[j] = "running"
    BY DEF IInv, Places, PlacesOf
  <2> QED
    BY <2>1, <2>2, <2>3 DEF Holder
<1> QED
  BY <1>2, <1>4, <1>5, <1>6 DEF IInv

(* A step of main or of the client that leaves all attempts alone.         *)
LEMMA QuietInv ==
  ASSUME IInv, UNCHANGED <<jstate, attempts, ingestVars, cut>>, TypeOK'
  PROVE  IInv'
<1>1. UNCHANGED <<jstate, attempts, status, source, chunk, apc, fetched, embedded, cut>>
  BY DEF ingestVars
<1>2. \A d : Indexes(d)' = Indexes(d)
  BY <1>1 DEF Indexes
<1>3. Places' /\ Processing'
  BY <1>1, <1>2 DEF IInv, Places, PlacesOf, Processing, Holder
<1>5. Holds'
  BY <1>1 DEF IInv, Holds, HoldsOf, MayTakeUp, InHand, Contended
<1>4. Chunks'
  BY <1>1, <1>2 DEF IInv, Chunks, OneChunkPerIndex, WholeUnlessReplaced, Part, ReadyIsIndexed
<1> QED
  BY <1>3, <1>4, <1>5 DEF IInv

LEMMA EnvironmentInv ==
  ASSUME IInv, Environment
  PROVE  IInv'
<1>1. PICK d \in Documents : CreateDocument(d) \/ \E t \in Texts : ReplaceSource(d, t)
  BY DEF Environment
<1>2. /\ UNCHANGED <<jstate, attempts, chunk, apc, fetched, embedded, cut>>
      /\ UNCHANGED <<processVars, faults>>
  BY <1>1 DEF Environment, CreateDocument, ReplaceSource
<1>3. \A e : Indexes(e)' = Indexes(e)
  BY <1>2 DEF Indexes
<1>4. \A e \in Documents :
         status'[e] # status[e] => status[e] = "none" /\ status'[e] = "pending"
  BY <1>1 DEF CreateDocument, ReplaceSource, IInv, TypeOK, IngestionTypeOK
<1>5. TypeOK'
  <2>1. status' \in [Documents -> Status] /\ source' \in [Documents -> Texts]
    BY <1>1 DEF CreateDocument, ReplaceSource, IInv, TypeOK, IngestionTypeOK, Status
  <2>2. RiverTypeOK' /\ IngestionTypeOK'
    BY <1>2, <2>1 DEF IInv, TypeOK, RiverTypeOK, IngestionTypeOK
  <2> QED
    BY <1>2, <2>2 DEF IInv, TypeOK, processVars
<1>6. Places'
  BY <1>2, <1>3 DEF IInv, Places, PlacesOf
<1>7. Chunks'
  BY <1>2, <1>3, <1>4 DEF IInv, Chunks, OneChunkPerIndex, WholeUnlessReplaced, Part, ReadyIsIndexed
<1>8. Processing'
  BY <1>2, <1>4 DEF IInv, Processing, Holder
<1>9. Holds'
  BY <1>2, <1>4, IngestionAssumption DEF IInv, Holds, HoldsOf, MayTakeUp, InHand, Contended
<1> QED
  BY <1>5, <1>6, <1>7, <1>8, <1>9 DEF IInv

-----------------------------------------------------------------------------
LEMMA MainStepInv ==
  ASSUME IInv, MainStep
  PROVE  IInv'
<1>0. faults \in Nat
  BY DEF IInv, TypeOK
<1>1. CASE BootInterrupted \/ ExitWithError \/ Exit
  BY <1>0, <1>1, GoneInv DEF BootInterrupted, ExitWithError, Exit
<1>2. CASE Boot \/ Select \/ ShutdownMetrics \/ ClosePool
  <2>1. UNCHANGED <<jstate, attempts, ingestVars, cut>>
    BY <1>2 DEF Boot, Select, ShutdownMetrics, ClosePool
  <2>2. RiverTypeOK' /\ IngestionTypeOK'
    BY <2>1 DEF IInv, TypeOK, RiverTypeOK, IngestionTypeOK, ingestVars
  <2>3. /\ main' \in {"down", "boot", "select", "shutdown", "stopped", "closed"}
        /\ client' \in {"off", "starting", "working", "stopping", "stopped", "failed"}
        /\ faults' \in Nat
    BY <1>2 DEF Boot, Select, ShutdownMetrics, ClosePool, IInv, TypeOK
  <2>4. /\ startupErr \in BOOLEAN /\ ctxDone \in BOOLEAN
        /\ errChan \in BOOLEAN /\ workerErrChan \in BOOLEAN
    BY DEF IInv, TypeOK
  <2>5. /\ startupErr' \in BOOLEAN /\ ctxDone' \in BOOLEAN
        /\ errChan' \in BOOLEAN /\ workerErrChan' \in BOOLEAN
    BY <1>2, <2>4 DEF Boot, Select, ShutdownMetrics, ClosePool
  <2>6. TypeOK'
    BY <2>1, <2>2, <2>3, <2>5 DEF IInv, TypeOK
  <2> QED
    BY <2>1, <2>6, QuietInv
<1> QED
  BY <1>1, <1>2 DEF MainStep

LEMMA ClientStepInv ==
  ASSUME IInv, ClientStep
  PROVE  IInv'
<1>1. UNCHANGED <<jstate, attempts, ingestVars, cut>>
  BY DEF ClientStep, StartClient, StartClientFails, SoftStop, Stopped
<1>2. RiverTypeOK' /\ IngestionTypeOK'
  BY <1>1 DEF IInv, TypeOK, RiverTypeOK, IngestionTypeOK, ingestVars
<1>3. /\ client' \in {"off", "starting", "working", "stopping", "stopped", "failed"}
      /\ faults' \in Nat /\ UNCHANGED <<main, startupErr, ctxDone, errChan>>
      /\ workerErrChan' \in {workerErrChan, TRUE}
  <2>0. faults \in Nat
    BY DEF IInv, TypeOK
  <2>1. CASE StartClientFails
    <3>1. faults' \in Nat
      BY <2>0, <2>1 DEF StartClientFails, Fault
    <3> QED
      BY <2>1, <3>1 DEF StartClientFails
  <2>2. CASE StartClient \/ SoftStop \/ Stopped
    BY <2>0, <2>2 DEF StartClient, SoftStop, Stopped
  <2> QED
    BY <2>1, <2>2 DEF ClientStep
<1>4. TypeOK'
  BY <1>1, <1>2, <1>3 DEF IInv, TypeOK
<1> QED
  BY <1>1, <1>4, QuietInv

LEMMA NextInv == IInv /\ [Next]_vars => IInv'
<1> SUFFICES ASSUME IInv, [Next]_vars PROVE IInv'
  OBVIOUS
<1>1. CASE StartProcess \/ Signal \/ ListenFails
  <2>1. UNCHANGED <<jstate, attempts, ingestVars, cut>>
    BY <1>1 DEF StartProcess, Signal, ListenFails
  <2>2. RiverTypeOK' /\ IngestionTypeOK'
    BY <2>1 DEF IInv, TypeOK, RiverTypeOK, IngestionTypeOK, ingestVars
  <2>3. /\ main' \in {main, "boot"} /\ client' = client /\ faults' \in Nat
        /\ startupErr' \in {startupErr, FALSE} /\ ctxDone' \in {ctxDone, TRUE, FALSE}
        /\ errChan' \in {errChan, TRUE, FALSE} /\ workerErrChan' \in {workerErrChan, FALSE}
    <3>0. faults \in Nat
      BY DEF IInv, TypeOK
    <3>1. CASE StartProcess
      BY <3>0, <3>1 DEF StartProcess
    <3>2. CASE Signal
      BY <3>0, <3>2 DEF Signal, Fault
    <3>3. CASE ListenFails
      BY <3>0, <3>3 DEF ListenFails, Fault
    <3> QED
      BY <1>1, <3>1, <3>2, <3>3
  <2>4. TypeOK'
    BY <2>1, <2>2, <2>3 DEF IInv, TypeOK
  <2> QED
    BY <2>1, <2>4, QuietInv
<1>2. CASE MainStep
  BY <1>2, MainStepInv
<1>3. CASE ClientStep
  BY <1>3, ClientStepInv
<1>4. CASE Crash
  <2>1. faults' \in Nat
    BY <1>4 DEF Crash, Fault, IInv, TypeOK
  <2> QED
    BY <1>4, <2>1, GoneInv DEF Crash
<1>5. ASSUME NEW j \in Jobs, JobStep(j) PROVE IInv'
  BY <1>5, JobStepInv
<1>6. CASE Environment
  BY <1>6, EnvironmentInv
<1>7. CASE UNCHANGED vars
  <2>1. UNCHANGED <<jstate, attempts, ingestVars, cut>>
    BY <1>7 DEF vars
  <2>2. TypeOK'
    BY <1>7 DEF vars, ingestVars, processVars, IInv, TypeOK, RiverTypeOK, IngestionTypeOK
  <2> QED
    BY <2>1, <2>2, QuietInv
<1> QED
  BY <1>1, <1>2, <1>3, <1>4, <1>5, <1>6, <1>7 DEF Next, JobStep

LEMMA Invariance == Spec => []IInv
  BY InitInv, NextInv, PTL DEF Spec

-----------------------------------------------------------------------------
(* What the process, the queue and the tables hold is of its types.        *)
THEOREM TypesAreKept == Spec => []TypeOK
<1>1. IInv => TypeOK
  BY DEF IInv
<1> QED
  BY <1>1, Invariance, PTL

(* Retries, rival jobs and restarts of the process store no chunk twice.   *)
THEOREM NoChunkTwice == Spec => []OneChunkPerIndex
<1>1. IInv => OneChunkPerIndex
  BY DEF IInv, Chunks
<1> QED
  BY <1>1, Invariance, PTL

(* A document has the chunks of one whole text, continued by other texts   *)
(* only where it ends.                                                     *)
THEOREM TextsAreWholeUnlessReplaced == Spec => []WholeUnlessReplaced
<1>1. IInv => WholeUnlessReplaced
  BY DEF IInv, Chunks
<1> QED
  BY <1>1, Invariance, PTL

(* A document that is Ready has chunks.                                    *)
THEOREM ReadyMeansIndexed == Spec => []ReadyIsIndexed
<1>1. IInv => ReadyIsIndexed
  BY DEF IInv, Chunks
<1> QED
  BY <1>1, Invariance, PTL

(* So has the document of every job that River counts as completed.        *)
THEOREM CompletedMeansIndexed == Spec => []CompletedIsIndexed
<1>1. IInv => CompletedIsIndexed
  BY DEF IInv, Chunks, Places, PlacesOf, CompletedIsIndexed
<1> QED
  BY <1>1, Invariance, PTL

(* A document whose jobs are over stays Processing only when the last      *)
(* attempt of one of them was cut short.                                   *)
THEOREM ProcessingMeansCut == Spec => []StuckOnlyIfCut
<1>1. IInv => StuckOnlyIfCut
  <2> SUFFICES ASSUME IInv, NEW d \in Documents, status[d] = "processing", AllOver(d)
               PROVE  \E j \in Jobs : DocOf[j] = d /\ jstate[j] = "discarded" /\ cut[j]
    BY DEF StuckOnlyIfCut
  <2>1. PICK j \in Jobs : Holder(j, d)
    BY DEF IInv, Processing
  <2>2. jstate[j] \in {"none", "completed", "discarded"}
    BY <2>1 DEF AllOver, Ended, Holder
  <2>3. apc[j] # "idle" => jstate[j] = "running"
    BY DEF IInv, Places, PlacesOf
  <2> QED
    BY <2>1, <2>2, <2>3 DEF Holder
<1> QED
  BY <1>1, Invariance, PTL

(* A step that takes back a Ready document is of an attempt that is past   *)
(* its guard, and so the document is contended.                            *)
LEMMA TakesBack ==
  ASSUME IInv, NEW j \in Jobs, JobStep(j), NEW d \in Documents,
         status[d] = "ready", status'[d] # "ready"
  PROVE  Contended(d)
<1>1. d = DocOf[j]
  BY JobEffect DEF IInv
<1>2. apc[j] \in {"processing", "failing"}
  BY <1>1, JobStatus DEF Marks, SetStatus, IInv, TypeOK, IngestionTypeOK
<1>3. HoldsOf(j)
  BY DEF IInv, Holds
<1> QED
  BY <1>1, <1>2, <1>3 DEF HoldsOf, MayTakeUp, InHand

(* A step that is not a job's changes no status but by registering a       *)
(* document, no chunk and no attempt.                                      *)
LEMMA NoJobsStep ==
  ASSUME [Next]_vars, \A j \in Jobs : ~JobStep(j)
  PROVE  /\ UNCHANGED <<chunk, attempts>>
         /\ UNCHANGED status \/ \E d \in Documents : CreateDocument(d)
<1>1. CASE Environment
  BY <1>1 DEF Environment, CreateDocument, ReplaceSource
<1>2. CASE StartProcess \/ MainStep \/ ClientStep \/ Crash \/ Signal \/ ListenFails
  BY <1>2 DEF StartProcess, MainStep, ClientStep, Crash, Signal, ListenFails, Boot,
     BootInterrupted, Select, ShutdownMetrics, ExitWithError, ClosePool, Exit,
     StartClient, StartClientFails, SoftStop, Stopped, Gone, ingestVars
<1>3. CASE UNCHANGED vars
  BY <1>3 DEF vars, ingestVars
<1> QED
  BY <1>1, <1>2, <1>3 DEF Next, JobStep

(* Only a rival job takes back a Ready document.                           *)
THEOREM OnlyRivalsTakeBack == Spec => ReadyStays
<1> DEFINE Stays ==
      \A d \in Documents :
         status[d] = "ready" /\ status'[d] # "ready" => Contended(d)
<1>1. IInv /\ [Next]_vars => [Stays]_status
  <2> SUFFICES ASSUME IInv, [Next]_vars, NEW d \in Documents,
                      status[d] = "ready", status'[d] # "ready"
               PROVE  Contended(d)
    OBVIOUS
  <2>1. ASSUME NEW j \in Jobs, JobStep(j) PROVE Contended(d)
    BY <2>1, TakesBack
  <2>2. CASE \A j \in Jobs : ~JobStep(j)
    BY <2>2, NoJobsStep DEF CreateDocument, IInv, TypeOK, IngestionTypeOK
  <2> QED
    BY <2>1, <2>2
<1> QED
  BY <1>1, Invariance, PTL DEF Spec, ReadyStays

-----------------------------------------------------------------------------
(* The life of documents.  A job's step that writes a status is a step of  *)
(* its document's life, ...                                                *)
LEMMA MarkIsLife ==
  ASSUME IInv, NEW j \in Jobs,
         \/ Marks(j, "processing", "processing")
         \/ Marks(j, "ready", "ready")
         \/ Marks(j, "failing", "failed")
  PROVE  Life!Next
<1> DEFINE d == DocOf[j]
<1>1. d \in Documents /\ HoldsOf(j) /\ PlacesOf(j)
  BY IngestionAssumption DEF IInv, Holds, Places
<1>2. /\ \A e : Indexes(e)' = Indexes(e)
      /\ \A e : Contended(e)' <=> Contended(e)
  BY DEF Marks, Indexes, Contended
<1>3. ASSUME NEW st, SetStatus(j, st) PROVE Life!Become(d, st)
  BY <1>2, <1>3 DEF SetStatus, Life!Become
<1>4. CASE Marks(j, "processing", "processing")
  <2>1. Life!TakeUp(d)
    BY <1>1, <1>3, <1>4 DEF Marks, HoldsOf, MayTakeUp, Life!TakeUp
  <2> QED
    BY <1>1, <2>1 DEF Life!Next
<1>5. CASE Marks(j, "ready", "ready")
  <2>1. InHand(d) /\ Indexes(d) # {}
    BY <1>1, <1>5 DEF Marks, HoldsOf, PlacesOf
  <2>2. Life!Finish(d)
    BY <1>1, <1>3, <1>5, <2>1 DEF Marks, InHand, Life!InHand, Life!Finish
  <2> QED
    BY <1>1, <2>2 DEF Life!Next
<1>6. CASE Marks(j, "failing", "failed")
  <2>1. Life!GiveUp(d)
    BY <1>1, <1>3, <1>6 DEF Marks, HoldsOf, InHand, Life!InHand, Life!GiveUp
  <2> QED
    BY <1>1, <2>1 DEF Life!Next
<1> QED
  BY <1>4, <1>5, <1>6

(* ... one that inserts chunks stores a whole text, ...                    *)
LEMMA InsertIsLife ==
  ASSUME IInv, NEW j \in Jobs, apc[j] = "embed", InsertChunks(j),
         UNCHANGED <<status, attempts>>
  PROVE  Life!Next
<1> DEFINE d == DocOf[j]
           n == Count[fetched[j]]
<1>1. d \in Documents /\ fetched[j] \in Texts /\ n \in Nat /\ n > 0 /\ InHand(d)
  BY CountOfText DEF IInv, Holds, HoldsOf, Places, PlacesOf
<1>2. /\ Indexes(d)' = Indexes(d) \cup (0 .. n - 1)
      /\ \A e \in Documents \ {d} : Indexes(e)' = Indexes(e)
  BY IndexesGrow DEF IInv
<1>3. [e \in Documents |-> Indexes(e)]' =
        [[e \in Documents |-> Indexes(e)] EXCEPT ![d] = @ \cup (0 .. n - 1)]
  BY <1>1, <1>2
<1>4. n \in { Count[t] : t \in Texts } \ {0}
  BY <1>1
<1>5. \A e : Contended(e)' <=> Contended(e)
  BY DEF Contended
<1>6. Life!Store(d)
  BY <1>1, <1>3, <1>4, <1>5 DEF InHand, Life!InHand, Life!Store
<1> QED
  BY <1>1, <1>6 DEF Life!Next

(* ... and any other may be that of a second job which begins.             *)
LEMMA OtherIsLife ==
  ASSUME IInv, NEW j \in Jobs, JobStep(j), UNCHANGED <<status, chunk>>
  PROVE  [Life!Next]_(Life!lifeVars)
<1> DEFINE d == DocOf[j]
<1>1. d \in Documents
  BY IngestionAssumption
<1>2. \A e : Indexes(e)' = Indexes(e)
  BY DEF Indexes
<1>3. ASSUME NEW e \in Documents PROVE Contended(e) => Contended(e)'
  BY <1>3, ContendedStays DEF IInv
<1>4. ASSUME NEW e \in Documents \ {d} PROVE Contended(e)' => Contended(e)
  BY <1>4, JobEffect DEF IInv, Contended
<1>5. CASE Contended(d)' /\ ~Contended(d)
  <2>1. Life!Contend(d)
    BY <1>1, <1>2, <1>3, <1>4, <1>5 DEF Life!Contend
  <2> QED
    BY <1>1, <2>1 DEF Life!Next
<1>6. CASE Contended(d)' => Contended(d)
  BY <1>1, <1>2, <1>3, <1>4, <1>6 DEF Life!lifeVars
<1> QED
  BY <1>5, <1>6

LEMMA EveryStepIsLife ==
  ASSUME IInv, [Next]_vars
  PROVE  [Life!Next]_(Life!lifeVars)
<1>1. ASSUME NEW j \in Jobs, JobStep(j) PROVE [Life!Next]_(Life!lifeVars)
  BY <1>1, JobStatus, MarkIsLife, InsertIsLife, OtherIsLife
<1>2. CASE \A j \in Jobs : ~JobStep(j)
  <2>1. /\ UNCHANGED <<chunk, attempts>>
        /\ UNCHANGED status \/ \E d \in Documents : CreateDocument(d)
    BY <1>2, NoJobsStep
  <2>2. /\ \A e : Indexes(e)' = Indexes(e)
        /\ \A e : Contended(e)' <=> Contended(e)
    BY <2>1 DEF Indexes, Contended
  <2>3. CASE UNCHANGED status
    BY <2>2, <2>3 DEF Life!lifeVars
  <2>4. ASSUME NEW d \in Documents, CreateDocument(d) PROVE Life!Next
    <3>1. Life!Register(d)
      BY <2>2, <2>4 DEF CreateDocument, Life!Become, Life!Register
    <3> QED
      BY <3>1 DEF Life!Next
  <2> QED
    BY <2>1, <2>3, <2>4
<1> QED
  BY <1>1, <1>2

LEMMA LifeBegins == Init => Life!Init
<1> SUFFICES ASSUME Init PROVE Life!Init
  OBVIOUS
<1>1. /\ status = [d \in Documents |-> "none"] /\ chunk = {}
      /\ \A j \in Jobs : attempts[j] = 0
  BY DEF Init, RiverInit, IngestionInit
<1>2. \A d : Indexes(d) = {} /\ ~Contended(d)
  BY <1>1 DEF Indexes, Contended
<1> QED
  BY <1>1, <1>2 DEF Life!Init

(* Whatever becomes of jobs, attempts and the process, every document      *)
(* lives as DocumentLife says.                                             *)
THEOREM DocumentsLive == Spec => ImplementsLife
<1>1. IInv /\ [Next]_vars => [Life!Next]_(Life!lifeVars)
  BY EveryStepIsLife
<1> QED
  BY <1>1, LifeBegins, Invariance, PTL DEF Spec, ImplementsLife, Life!Spec
=============================================================================
