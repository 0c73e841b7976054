------------------------------ MODULE MCTelegram ------------------------------
(* Telegram for two users who write in one group, or for one who writes    *)
(* there and in a chat of their own, with sessions of tier L0, which the   *)
(* webhook creates, and of tier L1, which the web channel creates.         *)
EXTENDS Telegram, TLC

CONSTANTS ann, bob, group, own, u1, u2

MCTiers == {"L1"}
TwoUsers == [u \in Updates |-> IF u = u1 THEN ann ELSE bob]
OneUser  == [u \in Updates |-> ann]
OneChat  == [u \in Updates |-> group]
TwoChats == [u \in Updates |-> IF u = u1 THEN group ELSE own]

(* Requests are alike, and so are sessions; so are two users in one chat,  *)
(* each with an update.                                                    *)
Swap == (ann :> bob) @@ (bob :> ann) @@ (u1 :> u2) @@ (u2 :> u1)
Keep == [x \in {ann, bob, u1, u2} |-> x]
Symmetry ==
    { p @@ q @@ o : p \in Permutations(Requests), q \in Permutations(Sessions),
                    o \in {Keep, Swap} }
=============================================================================
