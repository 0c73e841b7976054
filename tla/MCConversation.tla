--------------------------- MODULE MCConversation ---------------------------
(* Conversation on one session, which is answered within the request and   *)
(* may escalate (L1), or is answered by jobs (L2).                         *)
EXTENDS Conversation, TLC

MCTiers == {"L1", "L2"}

(* Requests are told apart by nothing but their order in the tables.       *)
Symmetry == Permutations(Requests)
=============================================================================
