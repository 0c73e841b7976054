------------------------------ MODULE Retrieval ------------------------------
(***************************************************************************)
(* Hybrid retrieval: Retrieve of pkg/knowledge/retrieval/retriever.go and  *)
(* the reranker, over the chunks that Chunker made of one text.  The query *)
(* keeps the best chunks by a blend of two scores, the reranker sorts      *)
(* those by one of them and keeps fewer.  What a chunk scores is           *)
(* arbitrary; a score is an integer, and alpha is counted in parts of      *)
(* Whole.                                                                  *)
(***************************************************************************)
EXTENDS Chunker, FiniteSets

CONSTANTS
    MinCandidates,  \* candidates asked for at least; 10 in the code
    TopKs,          \* values of topK
    Whole, Alphas,  \* alpha = 1, and the values of alpha
    Scores,         \* values of VecScore and TextScore
    MaxScored       \* bound: chunks that take part in a query

ASSUME RetrievalAssumption ==
    /\ MinCandidates \in Nat \ {0}
    /\ TopKs \in SUBSET Int
    /\ Whole \in Nat \ {0}
    /\ Alphas \in SUBSET (0 .. Whole)
    /\ Scores \in SUBSET Int
    /\ MaxScored \in Nat

VARIABLES
    phase,              \* where Retrieve is
    topK, alpha,        \* its arguments
    VecScore, TextScore,    \* what each chunk scores for the query
    candidates,         \* the places of the rows the query returned
    ranked              \* the places of the chunks in Retrieve's result

queryVars == <<phase, topK, alpha, VecScore, TextScore, candidates, ranked>>

-----------------------------------------------------------------------------
RetrievalTypeOK ==
    /\ TypeOK
    /\ phase \in {"idle", "query", "rerank", "returned", "failed"}
    /\ topK \in Int
    /\ alpha \in 0 .. Whole
    /\ phase # "idle" => /\ done
                         /\ VecScore \in [DOMAIN chunks -> Int]
                         /\ TextScore \in [DOMAIN chunks -> Int]
    /\ candidates \in SUBSET DOMAIN chunks
    /\ ranked \in Seq(DOMAIN chunks)

KnowledgeInit ==
    /\ Init
    /\ phase = "idle"
    /\ topK \in TopKs
    /\ alpha \in Alphas
    /\ VecScore = <<>> /\ TextScore = <<>>
    /\ candidates = {}
    /\ ranked = <<>>

(* Chunk goes on; retrieval finds its chunks when they are all stored.     *)
IndexText == Turn /\ UNCHANGED queryVars

(* Retrieve is called and the embedder has returned the query's vector.    *)
EmbedQuery ==
    /\ done /\ phase = "idle"
    /\ Len(chunks) <= MaxScored
    /\ phase' = "query"
    /\ VecScore' \in [DOMAIN chunks -> Scores]
    /\ TextScore' \in [DOMAIN chunks -> Scores]
    /\ UNCHANGED <<vars, topK, alpha, candidates, ranked>>

(* Mutant of candidateK: a constant.                                       *)
fewCandidates == MinCandidates

candidateK == IF topK * 2 < MinCandidates THEN MinCandidates ELSE topK * 2

Score(c) == alpha * VecScore[c] + (Whole - alpha) * TextScore[c]

(* ORDER BY ... DESC LIMIT: rows that score the same come in any order.    *)
Limited(n) == IF n > Len(chunks) THEN Len(chunks) ELSE n

Best(rows) ==
    /\ Cardinality(rows) = Limited(candidateK)
    /\ \A c \in rows, d \in DOMAIN chunks \ rows : Score(c) >= Score(d)

Query ==
    /\ phase = "query"
    /\ phase' = "rerank"
    /\ \E rows \in SUBSET DOMAIN chunks : Best(rows) /\ candidates' = rows
    /\ UNCHANGED <<vars, topK, alpha, VecScore, TextScore, ranked>>

(* Embedding, query or scan fails: Retrieve returns the error, and no      *)
(* chunks.                                                                 *)
RetrieveFails ==
    /\ phase \in {"query", "rerank"}
    /\ phase' = "failed"
    /\ UNCHANGED <<vars, topK, alpha, VecScore, TextScore, candidates, ranked>>

(* sort.Slice by VecScore, which leaves equals in any order.               *)
Sorted(rows) ==
    { r \in [1 .. Cardinality(rows) -> rows] :
        /\ \A c \in rows : \E i \in DOMAIN r : r[i] = c
        /\ \A i, j \in DOMAIN r : i < j => VecScore[r[i]] >= VecScore[r[j]] }

(* Mutant of Cut: the last ones are kept.                                  *)
CutHead(r) ==
    IF topK > 0 /\ Len(r) > topK THEN SubSeq(r, Len(r) - topK + 1, Len(r)) ELSE r

(* A topK that is not positive keeps all candidates.                       *)
Cut(r) == IF topK > 0 /\ Len(r) > topK THEN SubSeq(r, 1, topK) ELSE r

Rerank ==
    /\ phase = "rerank"
    /\ phase' = "returned"
    /\ \E r \in Sorted(candidates) : ranked' = Cut(r)
    /\ UNCHANGED <<vars, topK, alpha, VecScore, TextScore, candidates>>

-----------------------------------------------------------------------------
KnowledgeNext == IndexText \/ EmbedQuery \/ Query \/ RetrieveFails \/ Rerank

knowledgeVars == <<vars, queryVars>>

KnowledgeSpec == KnowledgeInit /\ [][KnowledgeNext]_knowledgeVars

-----------------------------------------------------------------------------
(***************************************************************************)
(* Properties.                                                             *)
(***************************************************************************)

(* The query and the reranker order by different scores and cut one after  *)
(* the other, and still no chunk is left out for one that is worse by      *)
(* both, nor while there is room for it.                                   *)
Returned == { ranked[i] : i \in DOMAIN ranked }

Better(c, d) == VecScore[c] > VecScore[d] /\ TextScore[c] > TextScore[d]

NothingBetterLeftOut ==
    phase = "returned" =>
        /\ \A c \in DOMAIN chunks \ Returned, d \in Returned : ~Better(c, d)
        /\ topK > 0 => Len(ranked) = Limited(topK)

(* A passage that is not longer than the overlap allows is found whole,    *)
(* wherever it is in the text: if the chunks that hold all of it score     *)
(* better than the others, the first result is one of them.  With a        *)
(* negative overlap no passage is that short, not even one character.      *)
Shared == IF overlap < size THEN overlap ELSE 0

Holds(c, from, to) == chunks[c].from <= from /\ to <= chunks[c].to

PassageIsFound ==
    phase = "returned" =>
        \A from \in 0 .. total - 1 : \A to \in from + 1 .. total :
            LET holders == { c \in DOMAIN chunks : Holds(c, from, to) } IN
            /\ to - from <= Shared + 1
            /\ \A c \in holders, d \in DOMAIN chunks \ holders : Better(c, d)
            => ranked # <<>> /\ ranked[1] \in holders
=============================================================================
