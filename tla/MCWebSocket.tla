---------------------------- MODULE MCWebSocket ----------------------------
(* Two connections of one session, and messages of two; channels of one    *)
(* place; one request a minute.                                            *)
EXTENDS WebSocket

CONSTANTS s, other, c1, c2

MCSessionOf == [c \in {c1, c2} |-> s]
=============================================================================
