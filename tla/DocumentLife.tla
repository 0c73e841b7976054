---------------------------- MODULE DocumentLife ----------------------------
(***************************************************************************)
(* The life of a document (migrations/005_knowledge.sql, "pending ->       *)
(* processing -> ready | failed"; the comments of Pipeline.Ingest add the  *)
(* way back from failed and a second start from processing): it is         *)
(* registered, taken up, its chunks become visible as many at once as a    *)
(* text has, and it ends Ready, which it stays, or Failed, from where it   *)
(* is taken up again.  Chunks are numbers here; which text they are of is  *)
(* the matter of WholeUnlessReplaced of Ingestion.                         *)
(*                                                                         *)
(* Two jobs may work on one document.  Then one may take up what the other *)
(* made Ready, and end what the other ended; all else is promised of such  *)
(* a document too.                                                         *)
(*                                                                         *)
(* This is the abstract specification: it has no jobs, no places in the    *)
(* pipeline and no process.  Worker implements it.                         *)
(***************************************************************************)
EXTENDS Naturals

CONSTANTS
    Documents,
    Sizes           \* how many chunks the text of a document may have

VARIABLES
    status,         \* status[d]: where d is in its life
    indexes,        \* indexes[d]: the numbers of the chunks that d has
    contended       \* the documents on which two jobs have worked

lifeVars == <<status, indexes, contended>>

Init ==
    /\ status = [d \in Documents |-> "none"]
    /\ indexes = [d \in Documents |-> {}]
    /\ contended = {}

-----------------------------------------------------------------------------
Become(d, st) ==
    /\ status' = [status EXCEPT ![d] = st]
    /\ UNCHANGED <<indexes, contended>>

Register(d) == status[d] = "none" /\ Become(d, "pending")

(* Processing once more, if the attempt before did not end it.             *)
TakeUp(d) ==
    /\ \/ status[d] \in {"pending", "processing", "failed"}
       \/ status[d] = "ready" /\ d \in contended
    /\ Become(d, "processing")

InHand(d) ==
    \/ status[d] = "processing"
    \/ status[d] \in {"ready", "failed"} /\ d \in contended

(* All chunks of a text at once; those that are there are kept.            *)
Store(d) ==
    /\ InHand(d)
    /\ \E n \in Sizes \ {0} :
         indexes' = [indexes EXCEPT ![d] = @ \cup (0 .. n - 1)]
    /\ UNCHANGED <<status, contended>>

Finish(d) == InHand(d) /\ indexes[d] # {} /\ Become(d, "ready")

GiveUp(d) == InHand(d) /\ Become(d, "failed")

(* A second job starts to work on d.                                       *)
Contend(d) ==
    /\ contended' = contended \cup {d}
    /\ UNCHANGED <<status, indexes>>

Next ==
    \E d \in Documents :
        Register(d) \/ TakeUp(d) \/ Store(d) \/ Finish(d) \/ GiveUp(d) \/ Contend(d)

Spec == Init /\ [][Next]_lifeVars
=============================================================================
