----------------------------- MODULE SessionFSM -----------------------------
(***************************************************************************)
(* What a session promises its users (pkg/runtime/types.go, fsm.go): it is *)
(* created Active and afterwards moves only along the edges of             *)
(* validTransitions.  Completed and Expired are terminal.                  *)
(*                                                                         *)
(* This is the abstract specification: it has no versions, no snapshots    *)
(* and no concurrent callers.  SessionRepo, which has them all, implements *)
(* it.                                                                     *)
(***************************************************************************)
CONSTANTS Sessions      \* the sessions that may ever be created

VARIABLE state          \* state[s]: the state column of s, or NoSession

-----------------------------------------------------------------------------
State == {"Active", "WaitingForHuman", "Completed", "Expired"}
NoSession == "NoSession"

Terminal == {"Completed", "Expired"}
Open     == {"Active", "WaitingForHuman"}

(* The transition table.  A state that is no source of an edge is terminal. *)
validTransitions ==
    { <<"Active", "WaitingForHuman">>, <<"Active", "Completed">>,
      <<"Active", "Expired">>,
      <<"WaitingForHuman", "Active">>, <<"WaitingForHuman", "Completed">> }

Allowed(from, to) == <<from, to>> \in validTransitions

-----------------------------------------------------------------------------
TypeOK == state \in [Sessions -> State \cup {NoSession}]

Init == state = [s \in Sessions |-> NoSession]

Begin(s) ==
    /\ state[s] = NoSession
    /\ state' = [state EXCEPT ![s] = "Active"]

Move(s, to) ==
    /\ Allowed(state[s], to)
    /\ state' = [state EXCEPT ![s] = to]

Next == \E s \in Sessions : Begin(s) \/ \E to \in State : Move(s, to)

Spec == Init /\ [][Next]_state
=============================================================================
