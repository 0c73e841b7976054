----------------------------- MODULE MCKnowledge -----------------------------
(* Chunker on all small lengths and configurations, the senseless ones     *)
(* (no size, more overlap than size, a negative overlap) included, and     *)
(* Retrieve on the texts of at most three chunks, with every score and     *)
(* every order among equals.                                               *)
EXTENDS Retrieval

MCTotals   == 0 .. 8
MCSizes    == -1 .. 4
MCOverlaps == -3 .. 5
MCTopKs    == {0, 1, 3}
MCAlphas   == {0, 1, 2}
=============================================================================
