---------------------------- MODULE Broadcaster ----------------------------
(***************************************************************************)
(* MemoryBroadcaster of pkg/channel/web/broadcaster.go: a mutex, and for   *)
(* every session the set of its subscribers' channels.  A subscriber has   *)
(* one channel, which is named after it.                                   *)
(*                                                                         *)
(* Publish is cut at every channel it sends to, because subscribers        *)
(* receive without the mutex.  Nothing in the repository calls Publish     *)
(* yet: whoever does may publish any message at any time.                  *)
(***************************************************************************)
EXTENDS Integers, Sequences

CONSTANTS
    Sessions,
    Conns,          \* subscribers
    SessionOf,      \* SessionOf[c]: the session c subscribes to
    Capacity,       \* of a channel: 16
    MaxMsgs,        \* bound of the messages offered to a channel, for TLC
    None            \* nobody holds the mutex

ASSUME BroadcasterAssumption ==
    /\ SessionOf \in [Conns -> Sessions]
    /\ Capacity \in Nat \ {0}
    /\ MaxMsgs \in Nat
    /\ None \notin Sessions

(* To a subscriber, a message is the number of its offer to the channel.   *)
Msg == 1 .. MaxMsgs

VARIABLES
    subs,           \* subs[s]: the channels subscribed to session s
    buf,            \* buf[c]: what waits in the channel of c
    closed,         \* the channels that are closed
    held,           \* the session whose Publish holds the mutex, or None
    todo,           \* the channels that Publish has not come to
    offered         \* history: offered[c]: how many messages c was offered

broadcasterVars == <<subs, buf, closed, held, todo, offered>>

BroadcasterTypeOK ==
    /\ subs \in [Sessions -> SUBSET Conns]
    /\ buf \in [Conns -> Seq(Msg)]
    /\ \A c \in Conns : Len(buf[c]) <= Capacity
    /\ closed \in SUBSET Conns
    /\ held \in Sessions \cup {None}
    /\ todo \in SUBSET Conns
    /\ offered \in [Conns -> 0 .. MaxMsgs]

BroadcasterInit ==
    /\ subs = [s \in Sessions |-> {}]
    /\ buf = [c \in Conns |-> <<>>]
    /\ closed = {}
    /\ held = None
    /\ todo = {}
    /\ offered = [c \in Conns |-> 0]

-----------------------------------------------------------------------------
Recipients(s) == subs[s]

(* Publish takes the mutex ... *)
Publish(s) ==
    /\ held = None
    /\ \A c \in Recipients(s) : offered[c] < MaxMsgs
    /\ held' = s
    /\ todo' = Recipients(s)
    /\ UNCHANGED <<subs, buf, closed, offered>>

(* Mutant of Offer: a place once filled counts as full for good, so that   *)
(* messages are dropped for channels in which nothing waits.               *)
OfferPlacesOnce(c) ==
    buf' = [buf EXCEPT ![c] =
              IF offered[c] < Capacity THEN Append(@, offered[c] + 1) ELSE @]

(* ... offers the message to one channel after the other, and drops it for *)
(* those that are full ...                                                 *)
Offer(c) ==
    \/ /\ Len(buf[c]) < Capacity
       /\ buf' = [buf EXCEPT ![c] = Append(@, offered[c] + 1)]
    \/ /\ Len(buf[c]) = Capacity
       /\ UNCHANGED buf

PublishTo(c) ==
    /\ c \in todo
    /\ Offer(c)
    /\ todo' = todo \ {c}
    /\ offered' = [offered EXCEPT ![c] = @ + 1]
    /\ UNCHANGED <<subs, closed, held>>

(* ... and releases the mutex. *)
EndPublish ==
    /\ held # None
    /\ todo = {}
    /\ held' = None
    /\ UNCHANGED <<subs, buf, closed, todo, offered>>

Subscribe(c) ==
    /\ held = None
    /\ subs' = [subs EXCEPT ![SessionOf[c]] = @ \cup {c}]
    /\ UNCHANGED <<buf, closed, held, todo, offered>>

Unregister(c) ==
    /\ subs' = [subs EXCEPT ![SessionOf[c]] = @ \ {c}]
    /\ closed' = closed \cup {c}
    /\ UNCHANGED <<buf, held, todo, offered>>

(* Mutant of Cancel: without the mutex.                                    *)
CancelUnlocked(c) == Unregister(c)

(* The cancel function that Subscribe returns.                             *)
Cancel(c) ==
    /\ held = None
    /\ Unregister(c)

(* A receive from the channel of c, of a message that waits there.         *)
Receive(c) ==
    /\ buf[c] # <<>>
    /\ buf' = [buf EXCEPT ![c] = Tail(@)]
    /\ UNCHANGED <<subs, closed, held, todo, offered>>

(* Publish never comes to a channel that is closed: a send on it would     *)
(* panic and take the publisher's process down.                            *)
NeverSendsOnClosed == todo \cap closed = {}
=============================================================================
