----------------------------- MODULE WebSocket -----------------------------
(***************************************************************************)
(* GET /ws/sessions/{id}: the handler of pkg/channel/web/ws.go behind the  *)
(* rate limiter, on the broadcaster.  Each connection has two goroutines:  *)
(* the handler, which forwards messages to the client, and a reader, which *)
(* waits for the client to go away.                                        *)
(***************************************************************************)
EXTENDS Broadcaster, FiniteSets, Functions

CONSTANTS Limit, MaxMinute, Never      \* see RateLimiter

(* A process serves finitely many requests. *)
ASSUME LimiterAssumption ==
    /\ IsFiniteSet(Conns)
    /\ Limit \in Nat
    /\ MaxMinute \in Nat
    /\ Never \notin Nat

VARIABLES
    minute, counter, deadline, window, lpc, late, gone, life,   \* the limiter
    wpc,            \* wpc[c]: where the handler of c is
    rpc,            \* rpc[c]: where the reader of c is
    open,           \* the connections that are open
    taken,          \* taken[c]: what the handler of c took from the channel
    seen            \* history: seen[c][n]: how many of them before offer n

Limiter == INSTANCE RateLimiter WITH Requests <- Conns

limiterVars == <<minute, counter, deadline, window, lpc, late, gone, life>>
socketVars  == <<wpc, rpc, open, taken, seen>>
vars        == <<broadcasterVars, limiterVars, socketVars>>

Place == {"limit", "subscribe", "loop", "write", "cancel", "close", "ended"}

WebTypeOK ==
    /\ BroadcasterTypeOK
    /\ Limiter!LimiterTypeOK
    /\ wpc \in [Conns -> Place]
    /\ rpc \in [Conns -> {"none", "reading", "ended"}]
    /\ open \in SUBSET Conns
    /\ taken \in [Conns -> Seq(Msg)]
    /\ seen \in [Conns -> Seq(Nat)]

Init ==
    /\ BroadcasterInit
    /\ Limiter!LimiterInit
    /\ wpc = [c \in Conns |-> "limit"]
    /\ rpc = [c \in Conns |-> "none"]
    /\ open = {}
    /\ taken = [c \in Conns |-> <<>>]
    /\ seen = [c \in Conns |-> <<>>]

-----------------------------------------------------------------------------
Goto(c, here, next) ==
    /\ wpc[c] = here
    /\ wpc' = [wpc EXCEPT ![c] = next]

(* The middleware: Allow, and what becomes of its answer.                  *)
Allow(c) ==
    /\ \/ Limiter!ReadClock(c)
       \/ Limiter!Incr(c)
       \/ Limiter!Expire(c)
       \/ Limiter!LimiterFails(c)
    /\ UNCHANGED <<broadcasterVars, socketVars>>

(* 429 or 500. *)
Refuse(c) ==
    /\ lpc[c] \in {"over", "error"}
    /\ Goto(c, "limit", "ended")
    /\ UNCHANGED <<broadcasterVars, limiterVars, rpc, open, taken, seen>>

(* The path, the tenant and the session are in order and the connection is *)
(* upgraded, or one of them fails.                                         *)
Upgrade(c) ==
    /\ lpc[c] = "allowed"
    /\ \/ Goto(c, "limit", "subscribe") /\ open' = open \cup {c}
       \/ Goto(c, "limit", "ended") /\ UNCHANGED open
    /\ UNCHANGED <<broadcasterVars, limiterVars, rpc, taken, seen>>

(* Subscribe, and start the reader. *)
SubscribeConn(c) ==
    /\ Goto(c, "subscribe", "loop")
    /\ Subscribe(c)
    /\ rpc' = [rpc EXCEPT ![c] = "reading"]
    /\ UNCHANGED <<limiterVars, open, taken, seen>>

(* The loop: a message, or word from the reader, in any order when both    *)
(* are there.  The channel is closed by this handler alone, after the      *)
(* loop, so that the loop never finds it closed.                           *)
TakeMessage(c) ==
    /\ Goto(c, "loop", "write")
    /\ Receive(c)
    /\ taken' = [taken EXCEPT ![c] = Append(@, Head(buf[c]))]
    /\ UNCHANGED <<limiterVars, rpc, open, seen>>

(* Writing to a client that has gone may still succeed.                    *)
WriteMessage(c) ==
    /\ \/ Goto(c, "write", "loop")
       \/ Goto(c, "write", "cancel")
    /\ UNCHANGED <<broadcasterVars, limiterVars, rpc, open, taken, seen>>

(* Mutant of SeeDisconnect: the loop waits for messages only.              *)
SeeNothing(c) == wpc[c] = "loop" /\ UNCHANGED vars

SeeDisconnect(c) ==
    /\ rpc[c] = "ended"
    /\ Goto(c, "loop", "cancel")
    /\ UNCHANGED <<broadcasterVars, limiterVars, rpc, open, taken, seen>>

(* The deferred calls: cancel first, then the connection is closed.        *)
CancelConn(c) ==
    /\ Goto(c, "cancel", "close")
    /\ Cancel(c)
    /\ UNCHANGED <<limiterVars, rpc, open, taken, seen>>

CloseConn(c) ==
    /\ Goto(c, "close", "ended")
    /\ open' = open \ {c}
    /\ UNCHANGED <<broadcasterVars, limiterVars, rpc, taken, seen>>

(* ReadMessage fails: the connection is closed from either side.           *)
ReaderEnds(c) ==
    /\ rpc[c] = "reading"
    /\ c \notin open
    /\ rpc' = [rpc EXCEPT ![c] = "ended"]
    /\ UNCHANGED <<broadcasterVars, limiterVars, wpc, open, taken, seen>>

(* The client goes away. *)
Leave(c) ==
    /\ c \in open
    /\ open' = open \ {c}
    /\ UNCHANGED <<broadcasterVars, limiterVars, wpc, rpc, taken, seen>>

Time ==
    /\ Limiter!Tick \/ \E k \in Limiter!Minute : Limiter!Drop(k)
    /\ UNCHANGED <<broadcasterVars, socketVars>>

Publisher ==
    /\ \E s \in Sessions : Publish(s)
    /\ UNCHANGED <<limiterVars, socketVars>>

PublishOn ==
    /\ \/ EndPublish /\ UNCHANGED seen
       \/ \E c \in Conns :
            /\ PublishTo(c)
            /\ seen' = [seen EXCEPT ![c] = Append(@, Len(taken[c]))]
    /\ UNCHANGED <<limiterVars, wpc, rpc, open, taken>>

-----------------------------------------------------------------------------
Handler(c) ==
    \/ Allow(c) \/ Refuse(c) \/ Upgrade(c) \/ SubscribeConn(c)
    \/ TakeMessage(c) \/ WriteMessage(c) \/ SeeDisconnect(c)
    \/ CancelConn(c) \/ CloseConn(c)

Next ==
    \/ Time \/ Publisher \/ PublishOn
    \/ \E c \in Conns : Handler(c) \/ ReaderEnds(c) \/ Leave(c)

Spec == Init /\ [][Next]_vars

(* Goroutines that can run do.  sync.Mutex starves nobody, and select      *)
(* chooses at random among what is ready, so that neither the mutex nor    *)
(* the messages keep a handler from what it could do again and again.      *)
FairSpec ==
    /\ Spec
    /\ WF_vars(PublishOn)
    /\ \A c \in Conns :
         /\ WF_vars(Handler(c)) /\ WF_vars(ReaderEnds(c))
         /\ SF_vars(SeeDisconnect(c) \/ CancelConn(c))

-----------------------------------------------------------------------------
(***************************************************************************)
(* Properties.                                                             *)
(***************************************************************************)

(* The rate limiter's property, of the requests for a connection.          *)
AdmittedWithinLimit == Limiter!AdmittedWithinLimit

Got(c) == taken[c] \o buf[c]

(* What waited in the channel of c when message n was offered: the earlier *)
(* messages that c got and had not taken by then.                          *)
Waiting(c, n) == { i \in DOMAIN Got(c) : Got(c)[i] < n /\ i > seen[c][n] }

(* A subscriber gets what it is offered in the order in which it was       *)
(* published and nothing twice, and misses a message only if Capacity      *)
(* earlier ones, all of which it gets, waited when that one was offered.   *)
MissesOnlyWhenFull ==
    \A c \in Conns :
        /\ \A i, j \in DOMAIN Got(c) : i < j => Got(c)[i] < Got(c)[j]
        /\ \A n \in 1 .. offered[c] \ Range(Got(c)) :
             Cardinality(Waiting(c, n)) >= Capacity

(* When a client goes away, whenever that is, the handler ends, the reader *)
(* ends, and the broadcaster forgets the channel.                          *)
GoneIsReleased ==
    \A c \in Conns :
        (rpc[c] # "none" /\ c \notin open)
          ~> /\ wpc[c] = "ended"
             /\ rpc[c] = "ended"
             /\ c \notin subs[SessionOf[c]]
=============================================================================
