------------------------------- MODULE Chunker -------------------------------
(***************************************************************************)
(* The fixed-size chunker of pkg/knowledge/ingestion/chunker.go: Chunk     *)
(* cuts a text into windows of Size characters that overlap by Overlap.    *)
(* The text is abstracted to its length, a chunk to the half-open range    *)
(* of characters it holds.                                                 *)
(***************************************************************************)
EXTENDS Integers, Sequences

CONSTANTS
    Totals,         \* lengths of texts
    Sizes,          \* configured sizes; not positive means the defaults
    Overlaps        \* configured overlaps; nothing refuses a negative one

ASSUME ChunkerAssumption ==
    /\ Totals \in SUBSET Nat
    /\ Sizes \in SUBSET Int
    /\ Overlaps \in SUBSET Int

VARIABLES
    total,          \* the length of the text
    size, overlap,  \* the configuration in force
    start,          \* the loop's start
    chunks,         \* the chunks made so far; ChunkIndex is the place - 1
    done            \* Chunk has returned

vars == <<total, size, overlap, start, chunks, done>>

-----------------------------------------------------------------------------
DefaultChunkConfig == [size |-> 2000, overlap |-> 200]

Window == [from : Nat, to : Nat]

TypeOK ==
    /\ total \in Nat
    /\ size \in Nat \ {0}
    /\ overlap \in Int
    /\ start \in Nat
    /\ chunks \in Seq(Window)
    /\ done \in BOOLEAN

(* A size that is not positive brings in both defaults.                    *)
Init ==
    /\ total \in Totals
    /\ \E s \in Sizes, o \in Overlaps :
         LET cfg == IF s <= 0 THEN DefaultChunkConfig
                              ELSE [size |-> s, overlap |-> o]
         IN  size = cfg.size /\ overlap = cfg.overlap
    /\ start = 0
    /\ chunks = <<>>
    /\ done = (total = 0)

(* Mutant of step: one character too far.                                  *)
stepTooFar ==
    IF size - overlap <= 0 THEN size ELSE size - overlap + 1

(* An overlap as large as the size would never advance: it counts as none. *)
(* A negative one makes the step longer than a chunk.                      *)
step == IF size - overlap <= 0 THEN size ELSE size - overlap

(* Mutant of End: the end is not clamped.                                  *)
EndUnclamped(s) == s + size

End(s) == IF s + size > total THEN total ELSE s + size

(* Mutant of Turn: the loop does not stop at the end of the text.          *)
TurnOn ==
    /\ ~done
    /\ chunks' = Append(chunks, [from |-> start, to |-> End(start)])
    /\ start' = start + step
    /\ done' = (start + step >= total)
    /\ UNCHANGED <<total, size, overlap>>

(* One turn of the loop.  The loop ends with the chunk that reaches the    *)
(* end of the text, or when start has passed it.                           *)
Turn ==
    /\ ~done
    /\ chunks' = Append(chunks, [from |-> start, to |-> End(start)])
    /\ start' = start + step
    /\ done' = (End(start) = total \/ start + step >= total)
    /\ UNCHANGED <<total, size, overlap>>

Next == Turn

Spec == Init /\ [][Next]_vars

-----------------------------------------------------------------------------
(***************************************************************************)
(* Properties.                                                             *)
(***************************************************************************)

(* Which characters Chunk loses: none, whatever the length and the size,   *)
(* unless the overlap is negative, and then exactly the -overlap ones      *)
(* behind each chunk, those behind the last one included (chunker.go:31    *)
(* guards against a step of nothing only).                                 *)
Lost(p) == \A i \in DOMAIN chunks : ~(chunks[i].from <= p /\ p < chunks[i].to)

SteppedOver(p) ==
    \E i \in DOMAIN chunks : chunks[i].to <= p /\ p < chunks[i].to - overlap

CoversText ==
    \A p \in 0 .. (IF done THEN total ELSE start) - 1 :
        Lost(p) <=> overlap < 0 /\ SteppedOver(p)

(* A chunk is never empty, never longer than Size and never outside the    *)
(* text, and only the last may be shorter than Size.                       *)
ChunksFit ==
    \A i \in DOMAIN chunks :
        /\ chunks[i].from < chunks[i].to
        /\ chunks[i].to <= chunks[i].from + size
        /\ chunks[i].to <= total
        /\ i < Len(chunks) => chunks[i].to = chunks[i].from + size

(* Every chunk brings something new, and repeats of the one before it (or  *)
(* leaves out behind it, when the overlap is negative) what the            *)
(* configuration says: no text is embedded in a chunk that another chunk   *)
(* contains.                                                               *)
EachChunkIsNew ==
    \A i \in 1 .. Len(chunks) - 1 :
        /\ chunks[i].to < chunks[i + 1].to
        /\ chunks[i + 1].from
             = chunks[i].to - (IF overlap < size THEN overlap ELSE 0)

=============================================================================
