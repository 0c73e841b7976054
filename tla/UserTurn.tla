------------------------------ MODULE UserTurn ------------------------------
(***************************************************************************)
(* What the service promises a user who sends a message (pkg/orchestrator, *)
(* pkg/runtime/jobs.go): the message is stored first; then it is answered  *)
(* or somebody is put in charge of it, a job or a human; it is accepted    *)
(* only when that has been done; and it gets one reply at most, only while *)
(* it is the request's own affair or a job's.                              *)
(*                                                                         *)
(* This is the abstract specification: it has no places in the code, no    *)
(* attempts and no other turns.  Conversation implements it.               *)
(***************************************************************************)
EXTENDS Naturals

CONSTANTS Turns     \* messages that users send

VARIABLES
    stored,         \* the turns whose message is stored
    replies,        \* replies[t]: how many replies t got
    charge,         \* charge[t]: who has to reply to t
    accepted        \* the turns of which the user was told that all is well

turnVars == <<stored, replies, charge, accepted>>

Init ==
    /\ stored = {}
    /\ replies = [t \in Turns |-> 0]
    /\ charge = [t \in Turns |-> "request"]
    /\ accepted = {}

-----------------------------------------------------------------------------
Store(t) ==
    /\ t \notin stored
    /\ stored' = stored \cup {t}
    /\ UNCHANGED <<replies, charge, accepted>>

(* The user may be told, unless the request fails with what it did.        *)
MayAccept(t) == accepted' = accepted \/ accepted' = accepted \cup {t}

(* A job that replied may be given up at once: its last attempt failed     *)
(* with the reply stored.                                                  *)
MayGiveUp(t) == charge' \in {charge, [charge EXCEPT ![t] = "nobody"]}

Reply(t) ==
    /\ t \in stored
    /\ replies[t] = 0
    /\ replies' = [replies EXCEPT ![t] = 1]
    /\ \/ charge[t] = "request" /\ MayAccept(t) /\ UNCHANGED charge
       \/ charge[t] = "job" /\ MayGiveUp(t) /\ UNCHANGED accepted
    /\ UNCHANGED stored

(* A turn that has a reply is no longer handed over.                       *)
HandOver(t) ==
    /\ t \in stored
    /\ replies[t] = 0
    /\ charge[t] = "request"
    /\ \E to \in {"job", "human"} : charge' = [charge EXCEPT ![t] = to]
    /\ MayAccept(t)
    /\ UNCHANGED <<stored, replies>>

(* The job is completed or given up: nobody will reply any more.           *)
End(t) ==
    /\ charge[t] = "job"
    /\ charge' = [charge EXCEPT ![t] = "nobody"]
    /\ UNCHANGED <<stored, replies, accepted>>

Next == \E t \in Turns : Store(t) \/ Reply(t) \/ HandOver(t) \/ End(t)

Spec == Init /\ [][Next]_turnVars
=============================================================================
