-------------------------- MODULE Retrieval_proofs --------------------------
(***************************************************************************)
(* Theorems about Chunker and Retrieval: which characters what Chunk       *)
(* returns covers, for texts of every length and every configuration,      *)
(* senseless ones and negative overlaps included; for every limit, blend   *)
(* and scores, nothing better is left out of an answer, and a short        *)
(* passage is found whole.                                                 *)
(***************************************************************************)
EXTENDS Retrieval, SequenceTheorems, TLAPS

(* The loop always advances: by no more than a chunk, or by a chunk and    *)
(* what a negative overlap leaves out.                                     *)
LEMMA StepBounds ==
  ASSUME size \in Nat \ {0}, overlap \in Int
  PROVE  /\ step \in Nat \ {0}
         /\ overlap >= 0 => step <= size
         /\ overlap < 0 => step = size - overlap
  BY DEF step

(* The end of a chunk that starts inside the text.                         *)
LEMMA EndBounds ==
  ASSUME total \in Nat, size \in Nat \ {0}, start \in Nat, start < total
  PROVE  /\ End(start) \in start + 1 .. total
         /\ End(start) <= start + size
         /\ End(start) # total => End(start) = start + size
  BY DEF End

-----------------------------------------------------------------------------
(* The inductive invariant.  While the loop goes on, start is inside the   *)
(* text, one step behind the start of the last chunk, and every chunk has  *)
(* its full size: the one that is shorter ends the loop.  All that was     *)
(* stepped over is behind start.                                           *)
Position ==
    ~done =>
      /\ start < total
      /\ IF chunks = <<>>
         THEN start = 0
         ELSE /\ start = chunks[Len(chunks)].from + step
              /\ chunks[Len(chunks)].to < total
      /\ \A i \in DOMAIN chunks : chunks[i].to = chunks[i].from + size

Behind ==
    ~done => \A i \in DOMAIN chunks :
               overlap < 0 => chunks[i].to - overlap <= start

(* How far the chunks reach; to the end, unless the last step was over it. *)
Reached == IF chunks = <<>> THEN 0 ELSE chunks[Len(chunks)].to

ReachesEnd == done /\ overlap >= 0 => Reached = total

IInv ==
    /\ TypeOK /\ Position /\ Behind /\ ReachesEnd
    /\ CoversText /\ ChunksFit /\ EachChunkIsNew

LEMMA InitInv == Init => IInv
<1> SUFFICES ASSUME Init PROVE IInv
  OBVIOUS
<1>1. /\ total \in Nat /\ start = 0 /\ chunks = <<>> /\ done = (total = 0)
      /\ size \in Nat \ {0} /\ overlap \in Int
  BY ChunkerAssumption DEF Init, DefaultChunkConfig
<1>2. TypeOK
  BY <1>1 DEF TypeOK
<1>3. /\ done <=> total = 0
      /\ DOMAIN chunks = {} /\ Reached = 0
  <2>1. done <=> total = 0
    BY <1>1, Zenon
  <2>2. DOMAIN chunks = {} /\ Reached = 0
    BY <1>1 DEF Reached
  <2> QED
    BY <2>1, <2>2
<1>4. Position /\ Behind /\ ReachesEnd
  BY <1>1, <1>3 DEF Position, Behind, ReachesEnd
<1>5. CoversText
  BY <1>1, <1>3 DEF CoversText, Lost, SteppedOver
<1>6. ChunksFit /\ EachChunkIsNew
  BY <1>1, <1>3 DEF ChunksFit, EachChunkIsNew
<1> QED
  BY <1>2, <1>4, <1>5, <1>6 DEF IInv

(* A turn of the loop adds one chunk behind the others.                    *)
LEMMA TurnInv ==
  ASSUME IInv, Turn
  PROVE  IInv'
<1> DEFINE n == Len(chunks)
           new == [from |-> start, to |-> End(start)]
<1>1. /\ total \in Nat /\ size \in Nat \ {0} /\ overlap \in Int
      /\ start \in Nat /\ chunks \in Seq(Window) /\ n \in Nat
      /\ ~done /\ start < total
  BY DEF IInv, TypeOK, Position, Turn
<1>2. /\ step \in Nat \ {0}
      /\ overlap >= 0 => step <= size
      /\ overlap < 0 => step = size - overlap
  BY <1>1, StepBounds
<1>3. /\ End(start) \in start + 1 .. total
      /\ End(start) <= start + size
      /\ End(start) # total => End(start) = start + size
  BY <1>1, EndBounds
<1>4. UNCHANGED <<total, size, overlap>> /\ step' = step
  BY DEF Turn, step
<1>5. /\ chunks' = Append(chunks, new)
      /\ start' = start + step
      /\ done' = (End(start) = total \/ start + step >= total)
  BY DEF Turn
<1>6. new \in Window /\ new.from = start /\ new.to = End(start)
  BY <1>1, <1>3 DEF Window
<1>7. /\ chunks' \in Seq(Window) /\ Len(chunks') = n + 1
      /\ chunks'[n + 1] = new
      /\ \A i \in 1 .. n : chunks'[i] = chunks[i]
      /\ DOMAIN chunks = 1 .. n /\ DOMAIN chunks' = 1 .. n + 1
      /\ chunks' # <<>> /\ \A i \in 1 .. n : chunks[i] \in Window
  BY <1>1, <1>5, <1>6
<1> HIDE DEF new, n
<1>8. /\ done' <=> (End(start) = total \/ start + step >= total)
      /\ done' /\ overlap >= 0 => End(start) = total
  <2>1. overlap >= 0 /\ start + step >= total => End(start) = total
    BY <1>1, <1>2, <1>3
  <2>2. done' <=> (End(start) = total \/ start + step >= total)
    BY <1>5
  <2> QED
    BY <2>1, <2>2
<1>9. TypeOK'
  BY <1>1, <1>2, <1>4, <1>5, <1>7 DEF TypeOK
<1>10. Position'
  <2> SUFFICES ASSUME ~done'
               PROVE  /\ start' < total' /\ start' = chunks'[Len(chunks')].from + step'
                      /\ chunks'[Len(chunks')].to < total'
                      /\ \A i \in DOMAIN chunks' : chunks'[i].to = chunks'[i].from + size'
    BY <1>7 DEF Position
  <2>1. End(start) < total /\ End(start) = start + size /\ start + step < total
    BY <1>1, <1>2, <1>3, <1>5, <1>8
  <2>2. \A i \in 1 .. n : chunks[i].to = chunks[i].from + size
    BY <1>1, <1>7 DEF IInv, Position
  <2> QED
    BY <1>1, <1>4, <1>5, <1>6, <1>7, <2>1, <2>2
<1>11. Reached' = End(start)
  BY <1>6, <1>7 DEF Reached
<1>12. Behind' /\ ReachesEnd'
  <2>1. ReachesEnd'
    BY <1>4, <1>8, <1>11 DEF ReachesEnd
  <2>2. ASSUME ~done', overlap < 0, NEW i \in 1 .. n + 1
        PROVE  chunks'[i].to - overlap <= start'
    <3>1. CASE i = n + 1
      BY <2>2, <3>1, <1>1, <1>2, <1>3, <1>5, <1>6, <1>7, <1>8
    <3>2. CASE i \in 1 .. n
      <4>1. chunks[i].to - overlap <= start /\ chunks[i].to \in Nat
        BY <2>2, <3>2, <1>1, <1>7 DEF IInv, Behind, Window
      <4> QED
        BY <4>1, <3>2, <1>1, <1>2, <1>5, <1>7
    <3> QED
      BY <3>1, <3>2, <1>1
  <2>3. Behind'
    BY <2>2, <1>4, <1>7 DEF Behind
  <2> QED
    BY <2>1, <2>3
<1>13. CoversText'
  <2> SUFFICES ASSUME NEW p \in 0 .. (IF done' THEN total ELSE start') - 1
               PROVE  /\ (\E i \in 1 .. n + 1 : chunks'[i].from <= p /\ p < chunks'[i].to)
                         \/ (/\ overlap < 0
                             /\ \E i \in 1 .. n + 1 :
                                  chunks'[i].to <= p /\ p < chunks'[i].to - overlap)
                      /\ overlap < 0 =>
                           \A i, j \in 1 .. n + 1 :
                             ~(/\ chunks'[i].from <= p /\ p < chunks'[i].to
                               /\ chunks'[j].to <= p /\ p < chunks'[j].to - overlap)
    BY <1>1, <1>4, <1>5, <1>7 DEF CoversText, Lost, SteppedOver
  <2>1. /\ p \in Nat /\ n + 1 \in 1 .. n + 1
        /\ chunks'[n + 1].from = start /\ chunks'[n + 1].to = End(start)
    BY <1>1, <1>2, <1>5, <1>6, <1>7
  <2>2. \A i \in 1 .. n : /\ chunks'[i] = chunks[i] /\ i \in 1 .. n + 1
                          /\ chunks[i].from \in Nat /\ chunks[i].to \in Nat
                          /\ overlap < 0 => chunks[i].to - overlap <= start
    <3> TAKE i \in 1 .. n
    <3>1. chunks[i].from \in Nat /\ chunks[i].to \in Nat
      BY <1>7 DEF Window
    <3>2. overlap < 0 => chunks[i].to - overlap <= start
      BY <1>1, <1>7 DEF IInv, Behind
    <3>3. chunks'[i] = chunks[i] /\ i \in 1 .. n + 1
      BY <1>1, <1>7
    <3> QED
      BY <3>1, <3>2, <3>3
  <2>3. CASE p < start
    <3>1. p \in 0 .. start - 1
      BY <2>1, <2>3, <1>1
    <3>2. Lost(p) <=> overlap < 0 /\ SteppedOver(p)
      BY <3>1, <1>1 DEF IInv, CoversText
    <3>3. \A i \in 1 .. n + 1 :
             chunks'[i].to <= p \/ chunks'[i].from <= p => i \in 1 .. n
      BY <2>1, <2>3, <1>1, <1>3
    <3>4. CASE Lost(p)
      <4>1. overlap < 0 /\ SteppedOver(p)
        BY <3>2, <3>4
      <4>2. \A i \in 1 .. n : ~(chunks[i].from <= p /\ p < chunks[i].to)
        BY <3>4, <1>7 DEF Lost
      <4>3. \E i \in 1 .. n : chunks[i].to <= p /\ p < chunks[i].to - overlap
        BY <4>1, <1>7 DEF SteppedOver
      <4> QED
        BY <4>1, <4>2, <4>3, <3>3, <2>2
    <3>5. CASE ~Lost(p)
      <4>1. \E i \in 1 .. n : chunks[i].from <= p /\ p < chunks[i].to
        BY <3>5, <1>7 DEF Lost
      <4>2. overlap < 0 =>
              \A i \in 1 .. n : ~(chunks[i].to <= p /\ p < chunks[i].to - overlap)
        BY <3>2, <3>5, <1>7 DEF SteppedOver
      <4> QED
        BY <4>1, <4>2, <3>3, <2>2
    <3> QED
      BY <3>4, <3>5
  <2>4. CASE p >= start /\ p < End(start)
    <3>1. \A j \in 1 .. n + 1 :
             overlap < 0 => ~(chunks'[j].to <= p /\ p < chunks'[j].to - overlap)
      <4>1. \A j \in 1 .. n : overlap < 0 => ~(p < chunks'[j].to - overlap)
        BY <2>2, <2>4, <1>1, <2>1
      <4> QED
        BY <4>1, <2>1, <2>4, <1>1, <1>3
    <3> QED
      BY <3>1, <2>1, <2>4
  <2>5. CASE p >= End(start)
    <3>1. overlap < 0 /\ p < End(start) - overlap
      <4>1. End(start) # total
        BY <2>1, <2>5, <1>1, <1>2, <1>3, <1>5, <1>8
      <4>2. overlap < 0
        BY <4>1, <2>1, <2>5, <1>1, <1>2, <1>3, <1>5, <1>8
      <4>3. p < start + step
        BY <2>1, <4>1, <1>1, <1>2, <1>3, <1>5, <1>8
      <4> QED
        BY <4>1, <4>2, <4>3, <2>1, <1>1, <1>2, <1>3
    <3>2. ASSUME NEW i \in 1 .. n + 1 PROVE ~(p < chunks'[i].to)
      <4>1. CASE i \in 1 .. n
        <5>1. chunks[i].to \in Nat /\ chunks[i].to - overlap <= start
          BY <4>1, <2>2, <3>1
        <5>2. start < p /\ chunks[i].to < p
          BY <5>1, <2>1, <2>5, <3>1, <1>1, <1>3
        <5> QED
          BY <5>1, <5>2, <4>1, <2>1, <2>2
      <4>2. CASE i = n + 1
        BY <4>2, <2>1, <2>5, <1>1, <1>3
      <4> QED
        BY <4>1, <4>2, <1>1
    <3> QED
      BY <3>1, <3>2, <2>1, <2>5
  <2> QED
    BY <2>1, <2>3, <2>4, <2>5, <1>1, <1>3
<1>14. ChunksFit'
  <2>1. \A i \in 1 .. n : /\ chunks[i].to = chunks[i].from + size
                          /\ chunks[i].from < chunks[i].to
                          /\ chunks[i].to <= chunks[i].from + size
                          /\ chunks[i].to <= total
    BY <1>1, <1>7 DEF IInv, Position, ChunksFit
  <2> QED
    BY <2>1, <1>1, <1>3, <1>4, <1>6, <1>7 DEF ChunksFit
<1>15. EachChunkIsNew'
  <2> SUFFICES ASSUME NEW i \in 1 .. n
               PROVE  /\ chunks'[i].to < chunks'[i + 1].to
                      /\ chunks'[i + 1].from
                           = chunks'[i].to - (IF overlap < size THEN overlap ELSE 0)
    BY <1>1, <1>4, <1>7 DEF EachChunkIsNew
  <2>1. CASE i < n
    BY <2>1, <1>1, <1>7 DEF IInv, EachChunkIsNew, n
  <2>2. CASE i = n
    <3>1. /\ start = chunks[n].from + step /\ chunks[n].to < total
          /\ chunks[n].to = chunks[n].from + size
          /\ chunks[n].from \in Nat
      BY <2>2, <1>1, <1>7 DEF IInv, Position, n, Window
    <3>2. chunks'[i] = chunks[n] /\ chunks'[i + 1] = new
      BY <2>2, <1>7
    <3>3. chunks[n].to < End(start)
      <4>1. chunks[n].to \in Int /\ chunks[n].to < start + size
        BY <3>1, <1>1, <1>2
      <4> QED
        BY <4>1, <3>1, <1>1, <1>3
    <3>4. start = chunks[n].to - (IF overlap < size THEN overlap ELSE 0)
      BY <3>1, <1>1 DEF step
    <3> QED
      BY <3>2, <3>3, <3>4, <1>6
  <2> QED
    BY <2>1, <2>2, <1>1
<1> QED
  BY <1>9, <1>10, <1>12, <1>13, <1>14, <1>15 DEF IInv

LEMMA NextInv == IInv /\ [Next]_vars => IInv'
<1> SUFFICES ASSUME IInv, [Next]_vars PROVE IInv'
  OBVIOUS
<1>1. CASE Turn
  BY <1>1, TurnInv
<1>2. CASE UNCHANGED vars
  BY <1>2 DEF vars, IInv, TypeOK, Position, Behind, ReachesEnd, step,
              CoversText, Lost, SteppedOver, Reached, ChunksFit, EachChunkIsNew
<1> QED
  BY <1>1, <1>2 DEF Next

LEMMA Invariance == Spec => []IInv
  BY InitInv, NextInv, PTL DEF Spec

(* Which text is lost, for any length, size and overlap: none when the     *)
(* overlap is not negative, so that what Chunk returns holds every         *)
(* character; and with a negative one exactly what is stepped over.        *)
THEOREM TextIsCovered == Spec => []CoversText
<1>1. IInv => CoversText
  BY DEF IInv
<1> QED
  BY <1>1, Invariance, PTL

(* No chunk is empty, too long or outside the text, and only the last one  *)
(* is short.                                                               *)
THEOREM ChunksAlwaysFit == Spec => []ChunksFit
<1>1. IInv => ChunksFit
  BY DEF IInv
<1> QED
  BY <1>1, Invariance, PTL

(* No chunk is contained in another, and neighbours overlap, or are apart, *)
(* by exactly what is configured.                                          *)
THEOREM ChunksAreNew == Spec => []EachChunkIsNew
<1>1. IInv => EachChunkIsNew
  BY DEF IInv
<1> QED
  BY <1>1, Invariance, PTL

-----------------------------------------------------------------------------
(* A chunk that is better by both scores is better by every blend of them. *)
LEMMA BetterScores ==
  ASSUME NEW v1 \in Int, NEW v2 \in Int, NEW t1 \in Int, NEW t2 \in Int,
         NEW w \in Nat \ {0}, NEW a \in 0 .. w, v1 > v2, t1 > t2
  PROVE  a * v1 + (w - a) * t1 > a * v2 + (w - a) * t2
<1>1. v1 >= v2 + 1 /\ t1 >= t2 + 1
  OBVIOUS
<1>2. a * v1 >= a * v2 + a
  BY <1>1
<1>3. (w - a) * t1 >= (w - a) * t2 + (w - a)
  BY <1>1
<1> QED
  BY <1>2, <1>3

-----------------------------------------------------------------------------
(* Short passages of the text that is chunked so far are whole in a chunk. *)
PassagesAreWhole ==
    \A from \in Nat, to \in Nat :
        from < to /\ to <= Reached /\ to - from <= Shared + 1
        => \E c \in DOMAIN chunks : Holds(c, from, to)

(* How far the chunks reach when the loop goes on: to the overlap with the *)
(* next one.                                                               *)
LEMMA ReachedBeforeTurn ==
  ASSUME IInv, Turn
  PROVE  /\ Reached \in Nat /\ Shared \in Int
         /\ chunks = <<>> => start = 0
         /\ chunks # <<>> => Reached = start + Shared
<1>1. /\ size \in Nat \ {0} /\ overlap \in Int /\ start \in Nat
      /\ chunks \in Seq(Window) /\ ~done
  BY DEF IInv, TypeOK, Turn
<1>2. Shared \in Int
  BY <1>1 DEF Shared
<1>3. CASE chunks = <<>>
  BY <1>1, <1>2, <1>3 DEF IInv, Position, Reached
<1>4. CASE chunks # <<>>
  <2> DEFINE n == Len(chunks)
  <2>1. n \in DOMAIN chunks
    BY <1>1, <1>4
  <2>2. /\ chunks[n].from \in Nat /\ chunks[n].to \in Nat
        /\ chunks[n].to = chunks[n].from + size
        /\ start = chunks[n].from + step
    <3>1. chunks[n] \in Window
      BY <1>1, <2>1
    <3>2. start = chunks[n].from + step
      BY <1>1, <1>4 DEF IInv, Position
    <3>3. chunks[n].to = chunks[n].from + size
      BY <1>1, <2>1 DEF IInv, Position
    <3> QED
      BY <3>1, <3>2, <3>3 DEF Window
  <2>3. step = size - Shared
    BY <1>1 DEF step, Shared
  <2>4. Reached = chunks[n].to
    BY <1>4 DEF Reached
  <2> QED
    BY <1>1, <1>2, <1>4, <2>2, <2>3, <2>4
<1> QED
  BY <1>3, <1>4

(* A passage that the new chunk completes begins in it.                    *)
LEMMA TurnKeepsPassages ==
  ASSUME IInv, PassagesAreWhole, Turn
  PROVE  PassagesAreWhole'
<1> DEFINE n == Len(chunks)
           new == [from |-> start, to |-> End(start)]
<1>1. /\ total \in Nat /\ size \in Nat \ {0} /\ start \in Nat /\ start < total
      /\ chunks \in Seq(Window) /\ n \in Nat
  BY DEF IInv, TypeOK, Position, Turn
<1>2. /\ chunks' = Append(chunks, new) /\ Shared' = Shared
      /\ new.from = start /\ new.to = End(start)
  BY DEF Turn, Shared
<1>3. new \in Window
  BY <1>1, EndBounds DEF Window
<1>4. /\ DOMAIN chunks = 1 .. n /\ DOMAIN chunks' = 1 .. n + 1
      /\ Len(chunks') = n + 1 /\ chunks' # <<>>
      /\ chunks'[n + 1] = new /\ \A i \in 1 .. n : chunks'[i] = chunks[i]
  BY <1>1, <1>2, <1>3
<1>5. Reached' = End(start)
  BY <1>2, <1>4 DEF Reached
<1> SUFFICES ASSUME NEW from \in Nat, NEW to \in Nat,
                    from < to, to <= End(start), to - from <= Shared + 1
             PROVE  \E c \in 1 .. n + 1 : chunks'[c].from <= from /\ to <= chunks'[c].to
  BY <1>2, <1>4, <1>5 DEF PassagesAreWhole, Holds
<1>6. /\ Reached \in Nat /\ Shared \in Int
      /\ chunks = <<>> => start = 0
      /\ chunks # <<>> => Reached = start + Shared
  BY ReachedBeforeTurn
<1>7. CASE to <= Reached
  <2>1. PICK c \in 1 .. n : chunks[c].from <= from /\ to <= chunks[c].to
    BY <1>4, <1>7 DEF PassagesAreWhole, Holds
  <2> QED
    BY <2>1, <1>1, <1>4
<1>8. CASE to > Reached
  <2>1. start <= from
    BY <1>1, <1>6, <1>8
  <2>2. n + 1 \in 1 .. n + 1
    BY <1>1
  <2> QED
    BY <2>1, <2>2, <1>2, <1>4
<1> QED
  BY <1>6, <1>7, <1>8

-----------------------------------------------------------------------------
(* The inductive invariant of a query: what it works on, that the          *)
(* candidates are the best by the blend, and what the result is.           *)
Scored ==
    phase # "idle" =>
        /\ done
        /\ VecScore \in [DOMAIN chunks -> Int]
        /\ TextScore \in [DOMAIN chunks -> Int]

Candidates ==
    phase = "rerank" => candidates \in SUBSET DOMAIN chunks /\ Best(candidates)

BestIsFirst ==
    phase = "returned" =>
        /\ ranked \in Seq(DOMAIN chunks)
        /\ chunks # <<>> => ranked # <<>>
        /\ \A i \in DOMAIN ranked : VecScore[ranked[1]] >= VecScore[ranked[i]]

QueryInv ==
    /\ topK \in Int /\ alpha \in 0 .. Whole
    /\ Scored /\ Candidates /\ BestIsFirst /\ NothingBetterLeftOut

KnowledgeInv == IInv /\ PassagesAreWhole /\ QueryInv

LEMMA KnowledgeInvInit == KnowledgeInit => KnowledgeInv
<1> SUFFICES ASSUME KnowledgeInit PROVE KnowledgeInv
  OBVIOUS
<1>1. IInv
  BY InitInv DEF KnowledgeInit
<1>2. PassagesAreWhole
  BY DEF PassagesAreWhole, Reached, KnowledgeInit, Init
<1>3. QueryInv
  BY RetrievalAssumption DEF KnowledgeInit, QueryInv, Scored, Candidates,
                             BestIsFirst, NothingBetterLeftOut
<1> QED
  BY <1>1, <1>2, <1>3 DEF KnowledgeInv

(* While chunks are made nothing is asked.                                 *)
LEMMA IndexTextInv ==
  ASSUME KnowledgeInv, IndexText
  PROVE  KnowledgeInv'
<1>1. IInv' /\ PassagesAreWhole'
  BY TurnInv, TurnKeepsPassages DEF KnowledgeInv, IndexText
<1>2. phase = "idle" /\ phase' = "idle"
  BY DEF KnowledgeInv, QueryInv, Scored, IndexText, Turn, queryVars
<1>3. QueryInv'
  BY <1>2 DEF KnowledgeInv, QueryInv, Scored, Candidates, BestIsFirst,
              NothingBetterLeftOut, IndexText, queryVars
<1> QED
  BY <1>1, <1>3 DEF KnowledgeInv

(* While a query goes on the chunks stay.                                  *)
LEMMA ChunksStay ==
  ASSUME IInv, PassagesAreWhole, UNCHANGED vars
  PROVE  IInv' /\ PassagesAreWhole'
<1>1. IInv'
  BY NextInv
<1>2. PassagesAreWhole'
  BY DEF vars, PassagesAreWhole, Reached, Shared, Holds
<1> QED
  BY <1>1, <1>2

LEMMA EmbedQueryInv ==
  ASSUME KnowledgeInv, EmbedQuery
  PROVE  KnowledgeInv'
<1>1. IInv' /\ PassagesAreWhole'
  BY ChunksStay DEF KnowledgeInv, EmbedQuery
<1>2. Scored'
  BY RetrievalAssumption DEF EmbedQuery, Scored, vars
<1>3. QueryInv'
  BY <1>2 DEF KnowledgeInv, QueryInv, Candidates, BestIsFirst,
              NothingBetterLeftOut, EmbedQuery
<1> QED
  BY <1>1, <1>3 DEF KnowledgeInv

LEMMA QueryStepInv ==
  ASSUME KnowledgeInv, Query
  PROVE  KnowledgeInv'
<1>1. IInv' /\ PassagesAreWhole'
  BY ChunksStay DEF KnowledgeInv, Query
<1>2. Scored'
  BY DEF KnowledgeInv, QueryInv, Query, Scored, vars
<1>3. Candidates'
  BY DEF Query, Candidates, Best, Score, Limited, candidateK, vars
<1>4. QueryInv'
  BY <1>2, <1>3 DEF KnowledgeInv, QueryInv, BestIsFirst, NothingBetterLeftOut, Query
<1> QED
  BY <1>1, <1>4 DEF KnowledgeInv

LEMMA RetrieveFailsInv ==
  ASSUME KnowledgeInv, RetrieveFails
  PROVE  KnowledgeInv'
<1>1. IInv' /\ PassagesAreWhole'
  BY ChunksStay DEF KnowledgeInv, RetrieveFails
<1>2. QueryInv'
  BY DEF KnowledgeInv, QueryInv, Scored, Candidates, BestIsFirst,
         NothingBetterLeftOut, RetrieveFails, vars
<1> QED
  BY <1>1, <1>2 DEF KnowledgeInv

(* The reranker: a chunk that is cut off has no better VecScore than one   *)
(* that is kept, and a chunk that was no candidate has no better blend.    *)
LEMMA RerankInv ==
  ASSUME KnowledgeInv, Rerank
  PROVE  KnowledgeInv'
<1>1. IInv' /\ PassagesAreWhole'
  BY ChunksStay DEF KnowledgeInv, Rerank
<1> DEFINE n == Len(chunks)
           m == Cardinality(candidates)
<1>2. /\ n \in Nat /\ DOMAIN chunks = 1 .. n /\ topK \in Int /\ alpha \in 0 .. Whole
      /\ VecScore \in [1 .. n -> Int] /\ TextScore \in [1 .. n -> Int]
      /\ candidates \in SUBSET (1 .. n) /\ Best(candidates)
  <2>1. n \in Nat /\ DOMAIN chunks = 1 .. n
    BY DEF KnowledgeInv, IInv, TypeOK
  <2> QED
    BY <2>1 DEF KnowledgeInv, QueryInv, Scored, Candidates, Rerank
<1>3. /\ m = Limited(candidateK) /\ m \in Nat /\ m <= n
      /\ topK > 0 => candidateK >= topK
      /\ n > 0 => m > 0
  BY <1>2, RetrievalAssumption DEF Best, Limited, candidateK
<1>4. PICK r \in Sorted(candidates) : ranked' = Cut(r)
  BY DEF Rerank
<1>5. /\ r \in [1 .. m -> candidates]
      /\ \A c \in candidates : \E i \in 1 .. m : r[i] = c
      /\ \A i, j \in 1 .. m : i < j => VecScore[r[i]] >= VecScore[r[j]]
  BY <1>4 DEF Sorted
<1> DEFINE p == IF topK > 0 /\ m > topK THEN topK ELSE m
<1> HIDE DEF n, m
<1>6. r \in Seq(1 .. n) /\ Len(r) = m
  <2>1. r \in [1 .. m -> 1 .. n]
    BY <1>2, <1>5
  <2> QED
    <3>1. r \in Seq(1 .. n)
      BY <2>1, <1>3, SeqDef, Zenon
    <3>2. DOMAIN r = 1 .. m /\ DOMAIN r = 1 .. Len(r) /\ Len(r) \in Nat
      BY <2>1, <3>1, LenProperties
    <3> QED
      BY <3>1, <3>2, <1>3
<1>7. /\ p \in 0 .. m /\ Len(ranked') = p /\ DOMAIN ranked' = 1 .. p
      /\ ranked' \in Seq(1 .. n) /\ \A i \in 1 .. p : ranked'[i] = r[i]
  <2>1. CASE topK > 0 /\ m > topK
    <3>1. ranked' = SubSeq(r, 1, topK) /\ p = topK
      BY <2>1, <1>4, <1>6 DEF Cut
    <3>2. topK \in 0 .. Len(r) /\ topK \in Nat
      BY <2>1, <1>2, <1>3, <1>6
    <3>3. /\ SubSeq(r, 1, topK) \in Seq(1 .. n)
          /\ Len(SubSeq(r, 1, topK)) = topK
          /\ \A i \in 1 .. topK : SubSeq(r, 1, topK)[i] = r[i]
      <4>1. \A i \in 1 .. topK : r[i] \in 1 .. n
        <5> TAKE i \in 1 .. topK
        <5>1. i \in 1 .. Len(r)
          BY <3>2, <2>1, <1>6
        <5> QED
          BY <5>1, <1>6, ElementOfSeq
      <4>2. 1 \in Int /\ topK \in Int /\ 1 <= topK
        BY <2>1, <3>2
      <4>3. topK - 1 + 1 = topK /\ \A i \in 1 .. topK : 1 + i - 1 = i
        BY <3>2
      <4> QED
        BY <4>1, <4>2, <4>3, SubSeqProperties
    <3> QED
      BY <3>1, <3>2, <3>3, <1>6, LenProperties
  <2>2. CASE ~(topK > 0 /\ m > topK)
    <3>1. ranked' = r /\ p = m
      BY <2>2, <1>4, <1>6 DEF Cut
    <3> QED
      BY <3>1, <1>3, <1>6
  <2> QED
    BY <2>1, <2>2
<1>8. UNCHANGED <<chunks, done, topK, alpha, VecScore, TextScore>>
      /\ phase' = "returned"
  BY DEF Rerank, vars
<1>9. topK > 0 => p = Limited(topK)
  <2>1. Limited(topK) = IF topK > n THEN n ELSE topK
    BY DEF Limited, n
  <2>2. /\ candidateK \in Int
        /\ m = IF candidateK > n THEN n ELSE candidateK
    <3>1. candidateK \in Int
      BY <1>2, RetrievalAssumption DEF candidateK
    <3>2. Limited(candidateK) = IF candidateK > n THEN n ELSE candidateK
      BY DEF Limited, n
    <3> QED
      BY <3>1, <3>2, <1>3
  <2> QED
    BY <2>1, <2>2, <1>2, <1>3
<1>10. chunks # <<>> => ranked' # <<>>
  <2>1. n > 0 => p > 0
    BY <1>2, <1>3
  <2>2. chunks # <<>> => n > 0
    BY <1>2 DEF n, KnowledgeInv, IInv, TypeOK
  <2> QED
    BY <2>1, <2>2, <1>7
<1> HIDE DEF p
<1>11. \A i \in 1 .. p : VecScore[ranked'[1]] >= VecScore[ranked'[i]]
  <2> TAKE i \in 1 .. p
  <2>1. 1 \in 1 .. p /\ i \in 1 .. m /\ 1 \in 1 .. m
    BY <1>3, <1>7
  <2>2. VecScore[r[1]] \in Int
    BY <2>1, <1>2, <1>5
  <2>3. VecScore[r[1]] >= VecScore[r[i]]
    BY <2>1, <2>2, <1>5
  <2> QED
    BY <2>1, <2>3, <1>7
<1>12. ASSUME NEW c \in 1 .. n, c \notin {ranked'[i] : i \in 1 .. p},
              NEW i \in 1 .. p, VecScore[c] > VecScore[r[i]],
              TextScore[c] > TextScore[r[i]]
       PROVE  FALSE
  <2>1. i \in 1 .. m /\ r[i] \in candidates /\ r[i] \in 1 .. n
    <3>1. i \in 1 .. m
      BY <1>3, <1>7
    <3>2. r[i] \in candidates
      BY <3>1, <1>5
    <3> QED
      BY <3>1, <3>2, <1>2
  <2>2. CASE c \in candidates
    <3>1. PICK j \in 1 .. m : r[j] = c
      BY <2>2, <1>5
    <3>2. j \notin 1 .. p
      BY <3>1, <1>7, <1>12
    <3>3. i < j
      BY <3>2, <1>3, <1>7
    <3>4. VecScore[r[i]] >= VecScore[c]
      BY <3>1, <3>3, <2>1, <1>5
    <3> QED
      BY <3>4, <2>1, <1>2, <1>12
  <2>3. CASE c \notin candidates
    <3>1. Score(r[i]) >= Score(c)
      BY <2>1, <2>3, <1>2 DEF Best
    <3>2. /\ VecScore[c] \in Int /\ VecScore[r[i]] \in Int
          /\ TextScore[c] \in Int /\ TextScore[r[i]] \in Int
      BY <2>1, <1>2
    <3>3. /\ Whole \in Nat \ {0}
          /\ alpha * VecScore[c] + (Whole - alpha) * TextScore[c]
               > alpha * VecScore[r[i]] + (Whole - alpha) * TextScore[r[i]]
      BY <3>2, <1>2, <1>12, BetterScores, RetrievalAssumption
    <3>4. Score(c) > Score(r[i])
      BY <3>3 DEF Score
    <3>5. Score(c) \in Int /\ Score(r[i]) \in Int
      <4> DEFINE blend(v, t) == alpha * v + (Whole - alpha) * t
      <4>1. \A v, t \in Int : blend(v, t) \in Int
        BY <1>2, <3>3
      <4>2. Score(c) = blend(VecScore[c], TextScore[c])
            /\ Score(r[i]) = blend(VecScore[r[i]], TextScore[r[i]])
        BY DEF Score
      <4> HIDE DEF blend
      <4> QED
        BY <3>2, <4>1, <4>2
    <3> QED
      BY <3>1, <3>4, <3>5
  <2> QED
    BY <2>2, <2>3
<1>13. NothingBetterLeftOut'
  <2>1. \A c \in 1 .. n : c \notin {ranked'[i] : i \in 1 .. p} =>
          \A i \in 1 .. p : ~(VecScore[c] > VecScore[ranked'[i]]
                               /\ TextScore[c] > TextScore[ranked'[i]])
    BY <1>7, <1>12
  <2>2. Len(ranked') = p /\ topK' = topK /\ Limited(topK)' = Limited(topK)
    BY <1>7, <1>8 DEF Limited
  <2> QED
    BY <2>1, <2>2, <1>2, <1>7, <1>8, <1>9 DEF NothingBetterLeftOut, Returned, Better
<1>14. BestIsFirst'
  BY <1>2, <1>7, <1>8, <1>10, <1>11 DEF BestIsFirst
<1>15. QueryInv'
  BY <1>8, <1>13, <1>14 DEF KnowledgeInv, QueryInv, Scored, Candidates, Rerank
<1> QED
  BY <1>1, <1>15 DEF KnowledgeInv

LEMMA KnowledgeInvNext == KnowledgeInv /\ [KnowledgeNext]_knowledgeVars => KnowledgeInv'
<1> SUFFICES ASSUME KnowledgeInv, [KnowledgeNext]_knowledgeVars PROVE KnowledgeInv'
  OBVIOUS
<1>1. CASE IndexText
  BY <1>1, IndexTextInv
<1>2. CASE EmbedQuery
  BY <1>2, EmbedQueryInv
<1>3. CASE Query
  BY <1>3, QueryStepInv
<1>4. CASE RetrieveFails
  BY <1>4, RetrieveFailsInv
<1>5. CASE Rerank
  BY <1>5, RerankInv
<1>6. CASE UNCHANGED knowledgeVars
  <2>1. IInv' /\ PassagesAreWhole'
    BY <1>6, ChunksStay DEF KnowledgeInv, knowledgeVars
  <2>2. QueryInv'
    BY <1>6 DEF KnowledgeInv, QueryInv, Scored, Candidates, Best, Score, Limited,
                candidateK, BestIsFirst, NothingBetterLeftOut, Returned, Better,
                knowledgeVars, vars, queryVars
  <2> QED
    BY <2>1, <2>2 DEF KnowledgeInv
<1> QED
  BY <1>1, <1>2, <1>3, <1>4, <1>5, <1>6 DEF KnowledgeNext

LEMMA KnowledgeInvariance == KnowledgeSpec => []KnowledgeInv
  BY KnowledgeInvInit, KnowledgeInvNext, PTL DEF KnowledgeSpec

(* The two cuts, by different scores, leave out no chunk that is better by *)
(* both than one that is returned, and leave no place empty.               *)
THEOREM NothingBetterIsLeftOut == KnowledgeSpec => []NothingBetterLeftOut
<1>1. KnowledgeInv => NothingBetterLeftOut
  BY DEF KnowledgeInv, QueryInv
<1> QED
  BY <1>1, KnowledgeInvariance, PTL

(* Wherever the text is cut, a passage no longer than the overlap and one  *)
(* more is found whole when the scores favour the chunks that hold it.     *)
THEOREM PassagesAreFound == KnowledgeSpec => []PassageIsFound
<1>1. KnowledgeInv => PassageIsFound
  <2> SUFFICES ASSUME KnowledgeInv, phase = "returned",
                      NEW from \in 0 .. total - 1, NEW to \in from + 1 .. total,
                      to - from <= Shared + 1,
                      \A c \in {d \in DOMAIN chunks : Holds(d, from, to)},
                        d \in DOMAIN chunks \ {e \in DOMAIN chunks : Holds(e, from, to)} :
                          Better(c, d)
               PROVE  /\ ranked # <<>>
                      /\ ranked[1] \in {d \in DOMAIN chunks : Holds(d, from, to)}
    BY DEF PassageIsFound
  <2>1. total \in Nat /\ done /\ Reached = total
    <3>1. total \in Nat /\ size \in Nat \ {0} /\ overlap \in Int /\ done
      BY DEF KnowledgeInv, IInv, TypeOK, QueryInv, Scored
    <3>2. overlap >= 0
      BY <3>1 DEF Shared
    <3> QED
      BY <3>1, <3>2 DEF KnowledgeInv, IInv, ReachesEnd
  <2>2. from \in Nat /\ to \in Nat /\ from < to /\ to <= Reached
    BY <2>1
  <2>3. PICK h \in DOMAIN chunks : Holds(h, from, to)
    BY <2>2 DEF KnowledgeInv, PassagesAreWhole
  <2>4. chunks # <<>>
    BY <2>3
  <2>5. /\ ranked \in Seq(DOMAIN chunks) /\ ranked # <<>>
        /\ \A i \in DOMAIN ranked : VecScore[ranked[1]] >= VecScore[ranked[i]]
    BY <2>4 DEF KnowledgeInv, QueryInv, BestIsFirst
  <2>6. 1 \in DOMAIN ranked /\ ranked[1] \in DOMAIN chunks
    BY <2>5
  <2>7. ASSUME ~Holds(ranked[1], from, to) PROVE FALSE
    <3>1. Better(h, ranked[1])
      BY <2>3, <2>6, <2>7
    <3>2. VecScore[h] \in Int /\ VecScore[ranked[1]] \in Int
      BY <2>3, <2>6 DEF KnowledgeInv, QueryInv, Scored
    <3>3. h \in Returned
      BY <3>1, <2>3, <2>6 DEF KnowledgeInv, QueryInv, NothingBetterLeftOut, Returned
    <3>4. VecScore[ranked[1]] >= VecScore[h]
      BY <3>3, <2>5 DEF Returned
    <3> QED
      BY <3>1, <3>2, <3>4 DEF Better
  <2> QED
    BY <2>5, <2>6, <2>7
<1> QED
  BY <1>1, KnowledgeInvariance, PTL
=============================================================================
