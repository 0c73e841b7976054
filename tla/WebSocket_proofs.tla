-------------------------- MODULE WebSocket_proofs --------------------------
(***************************************************************************)
(* Theorems about WebSocket: for any number of connections, sessions and   *)
(* places in a channel, no message is ever sent on a closed channel, a     *)
(* subscriber misses messages only when its channel is full, and for any   *)
(* limit and however often commands fail, no more requests than the limit  *)
(* pass on one counter, from its first request to its expiry.              *)
(***************************************************************************)
EXTENDS WebSocket, FiniteSetTheorems, SequenceTheorems, TLAPS

-----------------------------------------------------------------------------
(* The inductive invariant.  A handler that has not come to its deferred   *)
(* calls has its channel open, a subscribed channel is open and listed     *)
(* under its own session, and while a Publish holds the mutex the channels *)
(* it has to come to stay subscribed.                                      *)
Registered ==
    \A s \in Sessions : \A c \in subs[s] : c \in Conns /\ SessionOf[c] = s

ClosedIsOver == \A c \in closed : c \in Conns /\ wpc[c] \in {"close", "ended"}

SubscribedIsOpen == \A s \in Sessions : subs[s] \cap closed = {}

PublishingToSubscribers ==
    /\ held = None => todo = {}
    /\ held # None => todo \subseteq subs[held]

Shape ==
    /\ subs \in [Sessions -> SUBSET Conns]
    /\ wpc \in [Conns -> Place]
    /\ held \in Sessions \cup {None}
    /\ closed \in SUBSET Conns

ChannelInv ==
    /\ Shape
    /\ Registered
    /\ ClosedIsOver
    /\ SubscribedIsOpen
    /\ PublishingToSubscribers

(* It implies the property: what Publish comes to is subscribed, and what  *)
(* is subscribed is open.                                                  *)
LEMMA InvImplies == ChannelInv => NeverSendsOnClosed
  BY DEF ChannelInv, Shape, SubscribedIsOpen, PublishingToSubscribers,
         NeverSendsOnClosed

(* No connection, no subscription, no Publish.                             *)
LEMMA InvInit == Init => ChannelInv
<1> SUFFICES ASSUME Init PROVE ChannelInv
  OBVIOUS
<1> USE DEF Init, BroadcasterInit
<1>1. Shape
  <2>1. wpc \in [Conns -> Place]
    BY DEF Place
  <2>2. subs \in [Sessions -> SUBSET Conns] /\ held = None /\ closed = {}
    OBVIOUS
  <2> QED
    BY <2>1, <2>2 DEF Shape
<1>2. Registered /\ ClosedIsOver /\ SubscribedIsOpen
  BY DEF Registered, ClosedIsOver, SubscribedIsOpen
<1>3. PublishingToSubscribers
  BY DEF PublishingToSubscribers
<1> QED
  BY <1>1, <1>2, <1>3 DEF ChannelInv

(* Steps that leave the broadcaster and the handlers' places alone.        *)
LEMMA InvKept ==
  ASSUME ChannelInv, UNCHANGED <<subs, closed, held, todo, wpc>>
  PROVE  ChannelInv'
  BY DEF ChannelInv, Shape, Registered, ClosedIsOver, SubscribedIsOpen,
         PublishingToSubscribers

(* Steps of a handler that leave the broadcaster alone: it does not go     *)
(* back behind its deferred calls.                                         *)
LEMMA InvMoved ==
  ASSUME ChannelInv, UNCHANGED <<subs, closed, held, todo>>,
         NEW c \in Conns, NEW here \in Place, NEW next \in Place,
         Goto(c, here, next),
         here \in {"close", "ended"} => next \in {"close", "ended"}
  PROVE  ChannelInv'
<1>1. Shape'
  BY DEF ChannelInv, Shape, Goto
<1>2. ClosedIsOver'
  BY DEF ChannelInv, Shape, ClosedIsOver, Goto
<1>3. Registered' /\ SubscribedIsOpen' /\ PublishingToSubscribers'
  BY DEF ChannelInv, Registered, SubscribedIsOpen, PublishingToSubscribers
<1> QED
  BY <1>1, <1>2, <1>3 DEF ChannelInv

(* Every step preserves the invariant.                                     *)
LEMMA InvNext == ChannelInv /\ [Next]_vars => ChannelInv'
<1> SUFFICES ASSUME ChannelInv, [Next]_vars PROVE ChannelInv'
  OBVIOUS
<1> USE BroadcasterAssumption
<1>1. CASE UNCHANGED vars
  BY <1>1, InvKept DEF vars, broadcasterVars, socketVars
<1>2. CASE Time
  BY <1>2, InvKept DEF Time, broadcasterVars, socketVars
<1>3. CASE Publisher
  <2> PICK s \in Sessions : Publish(s)
    BY <1>3 DEF Publisher
  <2>1. UNCHANGED <<subs, closed, wpc>> /\ held' = s /\ todo' = subs[s]
    BY <1>3 DEF Publisher, Publish, Recipients, socketVars
  <2>2. Shape' /\ Registered' /\ ClosedIsOver' /\ SubscribedIsOpen'
    BY <2>1 DEF ChannelInv, Shape, Registered, ClosedIsOver, SubscribedIsOpen
  <2>3. PublishingToSubscribers'
    BY <2>1 DEF PublishingToSubscribers, BroadcasterAssumption
  <2> QED
    BY <2>2, <2>3 DEF ChannelInv
<1>4. CASE PublishOn
  <2>1. UNCHANGED <<subs, closed, wpc>>
    BY <1>4 DEF PublishOn, EndPublish, PublishTo, socketVars
  <2>2. \/ held' = None /\ todo' = {}
        \/ held' = held /\ todo' \subseteq todo
    BY <1>4 DEF PublishOn, EndPublish, PublishTo
  <2>3. Shape' /\ Registered' /\ ClosedIsOver' /\ SubscribedIsOpen'
    BY <2>1, <2>2 DEF ChannelInv, Shape, Registered, ClosedIsOver, SubscribedIsOpen
  <2>4. PublishingToSubscribers'
    BY <2>1, <2>2 DEF ChannelInv, PublishingToSubscribers
  <2> QED
    BY <2>3, <2>4 DEF ChannelInv
<1>5. ASSUME NEW c \in Conns, Handler(c) PROVE ChannelInv'
  <2>1. CASE Allow(c)
    BY <2>1, InvKept DEF Allow, broadcasterVars, socketVars
  <2>2. CASE Refuse(c)
    BY <2>2, InvMoved DEF Place, Refuse, broadcasterVars
  <2>3. CASE Upgrade(c)
    BY <2>3, InvMoved DEF Place, Upgrade, broadcasterVars
  <2>4. CASE SubscribeConn(c)
    <3>1. /\ wpc[c] = "subscribe" /\ wpc' = [wpc EXCEPT ![c] = "loop"]
          /\ subs' = [subs EXCEPT ![SessionOf[c]] = @ \cup {c}]
          /\ held = None /\ UNCHANGED <<closed, held, todo>>
      BY <2>4 DEF SubscribeConn, Subscribe, Goto
    <3>2. SessionOf[c] \in Sessions /\ c \notin closed
      BY <3>1 DEF ChannelInv, ClosedIsOver, BroadcasterAssumption
    <3>3. Shape'
      BY <3>1, <3>2 DEF ChannelInv, Shape, Place
    <3>4. Registered'
      BY <3>1, <3>2 DEF ChannelInv, Shape, Registered
    <3>5. ClosedIsOver'
      BY <3>1, <3>2 DEF ChannelInv, Shape, ClosedIsOver
    <3>6. SubscribedIsOpen'
      BY <3>1, <3>2 DEF ChannelInv, Shape, SubscribedIsOpen
    <3>7. PublishingToSubscribers'
      BY <3>1 DEF ChannelInv, PublishingToSubscribers
    <3> QED
      BY <3>3, <3>4, <3>5, <3>6, <3>7 DEF ChannelInv
  <2>5. CASE TakeMessage(c)
    BY <2>5, InvMoved DEF Place, TakeMessage, Receive
  <2>6. CASE WriteMessage(c)
    BY <2>6, InvMoved DEF Place, WriteMessage, broadcasterVars
  <2>7. CASE SeeDisconnect(c)
    BY <2>7, InvMoved DEF Place, SeeDisconnect, broadcasterVars
  <2>8. CASE CancelConn(c)
    <3>1. /\ wpc[c] = "cancel" /\ wpc' = [wpc EXCEPT ![c] = "close"]
          /\ subs' = [subs EXCEPT ![SessionOf[c]] = @ \ {c}]
          /\ closed' = closed \cup {c}
          /\ held = None /\ UNCHANGED <<held, todo>>
      BY <2>8 DEF CancelConn, Cancel, Unregister, Goto
    <3>2. Shape'
      BY <3>1 DEF ChannelInv, Shape, Place
    <3>3. Registered'
      BY <3>1 DEF ChannelInv, Shape, Registered
    <3>4. ClosedIsOver'
      BY <3>1 DEF ChannelInv, Shape, ClosedIsOver
    <3>5. SubscribedIsOpen'
      BY <3>1 DEF ChannelInv, Shape, SubscribedIsOpen, Registered
    <3>6. PublishingToSubscribers'
      BY <3>1 DEF ChannelInv, PublishingToSubscribers
    <3> QED
      BY <3>2, <3>3, <3>4, <3>5, <3>6 DEF ChannelInv
  <2>9. CASE CloseConn(c)
    BY <2>9, InvMoved DEF Place, CloseConn, broadcasterVars
  <2> QED
    BY <1>5, <2>1, <2>2, <2>3, <2>4, <2>5, <2>6, <2>7, <2>8, <2>9 DEF Handler
<1>6. ASSUME NEW c \in Conns, ReaderEnds(c) \/ Leave(c) PROVE ChannelInv'
  BY <1>6, InvKept DEF ReaderEnds, Leave, broadcasterVars
<1> QED
  BY <1>1, <1>2, <1>3, <1>4, <1>5, <1>6 DEF Next

(* Whatever clients, publishers and handlers do, and however many there    *)
(* are, Publish never sends on a channel that a handler has closed: the    *)
(* mutex keeps cancel out of its loop, and a channel that was cancelled is *)
(* no longer listed when the next loop begins.                             *)
THEOREM ChannelSafety == Spec => []NeverSendsOnClosed
<1>1. Spec => []ChannelInv
  BY InvInit, InvNext, PTL DEF Spec
<1> QED
  BY <1>1, InvImplies, PTL

-----------------------------------------------------------------------------
(* The rate limiter.  A counter lets no more than Limit of those in that   *)
(* it has counted since it last expired, and as it outlives its minute,    *)
(* whoever is counted by a later one than the first is late.               *)
Holding(k, l) ==
    { c \in Conns : lpc[c] \in {"expire", "allowed"} /\ window[c] = k /\ life[c] = l }
Counted(k) == { c \in Conns : lpc[c] \notin {"idle", "incr"} /\ window[c] = k }

LimiterShape ==
    /\ minute \in Limiter!Minute
    /\ counter \in [Limiter!Minute -> Nat]
    /\ deadline \in [Limiter!Minute -> 1 .. MaxMinute + 1 \cup {Never}]
    /\ window \in [Conns -> Limiter!Minute]
    /\ lpc \in [Conns -> {"idle", "incr", "expire", "allowed", "over", "error"}]
    /\ late \in SUBSET Conns
    /\ gone \in [Limiter!Minute -> Nat]
    /\ life \in [Conns -> Nat]

Windows ==
    \A c \in Conns : window[c] <= minute /\ (lpc[c] = "allowed" => Limit >= 1)

Lives ==
    \A c \in Conns : lpc[c] \in {"expire", "allowed"} =>
        life[c] <= gone[window[c]] /\ (c \notin late => life[c] = 0)

Counter(k) ==
    /\ deadline[k] # Never => deadline[k] > k
    /\ minute <= k => gone[k] = 0
    /\ counter[k] <= Cardinality(Counted(k))

Holders(k, l) ==
    /\ l = gone[k] => Cardinality(Holding(k, l)) <= counter[k]
    /\ Limit >= 1 => Cardinality(Holding(k, l)) <= Limit

LimiterInv ==
    /\ LimiterShape /\ Windows /\ Lives
    /\ \A k \in Limiter!Minute : Counter(k) /\ \A l \in Nat : Holders(k, l)

(* All sets of requests are finite.                                        *)
LEMMA FewRequests ==
  ASSUME NEW T \in SUBSET Conns
  PROVE  /\ IsFiniteSet(T) /\ Cardinality(T) \in Nat
         /\ Cardinality(T) <= Cardinality(Conns) /\ Cardinality(Conns) \in Nat
         /\ \A S \in SUBSET T : Cardinality(S) <= Cardinality(T)
         /\ \A c \in Conns \ T : Cardinality(T \cup {c}) = Cardinality(T) + 1
  BY LimiterAssumption, FS_Subset, FS_CardinalityType, FS_AddElement

LEMMA SomeRequests ==
  \A k : /\ Counted(k) \in SUBSET Conns /\ Cardinality(Counted(k)) \in Nat
         /\ \A l : Holding(k, l) \in SUBSET Conns /\ Cardinality(Holding(k, l)) \in Nat
  BY FewRequests DEF Holding, Counted

(* The limiter counts with a Cardinality of its own, which is the same.    *)
LEMMA SameCardinality == \A S : Limiter!Cardinality(S) = Cardinality(S)
  BY DEF Limiter!Cardinality, Cardinality

(* It implies the type of the limiter, whose counters count requests, and  *)
(* the property: who passed is among those who may pass.                   *)
LEMMA LimiterInvImplies ==
  ASSUME LimiterInv
  PROVE  Limiter!LimiterTypeOK /\ AdmittedWithinLimit
<1>1. Limiter!LimiterTypeOK
  <2>1. ASSUME NEW k \in Limiter!Minute PROVE counter[k] \in 0 .. Cardinality(Conns)
    <3>1. counter[k] \in Nat /\ counter[k] <= Cardinality(Counted(k))
      BY DEF LimiterInv, LimiterShape, Counter
    <3>2. /\ Cardinality(Counted(k)) <= Cardinality(Conns)
          /\ Cardinality(Counted(k)) \in Nat /\ Cardinality(Conns) \in Nat
      BY FewRequests, SomeRequests
    <3> QED
      BY <3>1, <3>2
  <2> QED
    BY <2>1, SameCardinality DEF LimiterInv, LimiterShape, Limiter!LimiterTypeOK
<1>2. ASSUME NEW k \in Limiter!Minute, NEW l \in 0 .. gone[k]
      PROVE  Cardinality(Limiter!Admitted(k, l)) <= Limit
  <2>1. Limiter!Admitted(k, l) \in SUBSET Holding(k, l) /\ l \in Nat
    BY DEF Holding, Limiter!Admitted
  <2>2. CASE Limit >= 1
    <3>1. /\ Cardinality(Limiter!Admitted(k, l)) <= Cardinality(Holding(k, l))
          /\ Cardinality(Limiter!Admitted(k, l)) \in Nat /\ Cardinality(Holding(k, l)) \in Nat
      BY <2>1, FewRequests, SomeRequests
    <3>2. Cardinality(Holding(k, l)) <= Limit
      BY <2>1, <2>2 DEF LimiterInv, Holders
    <3> QED
      BY <3>1, <3>2, LimiterAssumption
  <2>3. CASE ~(Limit >= 1)
    <3>1. Limiter!Admitted(k, l) = {} /\ Limit = 0
      BY <2>3, LimiterAssumption DEF LimiterInv, Windows, Limiter!Admitted
    <3> QED
      BY <3>1, FS_EmptySet
  <2> QED
    BY <2>2, <2>3
<1>3. ASSUME NEW k \in Limiter!Minute, NEW l \in 0 .. gone[k], l > 0
      PROVE  Limiter!Admitted(k, l) \subseteq late
  BY <1>3 DEF LimiterInv, Lives, Limiter!Admitted
<1> QED
  BY <1>1, <1>2, <1>3, SameCardinality DEF AdmittedWithinLimit, Limiter!AdmittedWithinLimit

LEMMA LimiterInvInit == Init => LimiterInv
<1> SUFFICES ASSUME Init PROVE LimiterInv
  OBVIOUS
<1> USE LimiterAssumption DEF Init, Limiter!LimiterInit
<1>1. LimiterShape /\ Windows /\ Lives
  BY DEF LimiterShape, Windows, Lives, Limiter!Minute
<1>2. ASSUME NEW k \in Limiter!Minute, NEW l \in Nat PROVE Counter(k) /\ Holders(k, l)
  <2>1. Counted(k) = {} /\ Holding(k, l) = {}
    BY DEF Holding, Counted
  <2>2. Cardinality(Counted(k)) = 0 /\ Cardinality(Holding(k, l)) = 0
    BY <2>1, FS_EmptySet
  <2>3. counter[k] = 0 /\ deadline[k] = Never /\ gone[k] = 0
    OBVIOUS
  <2> QED
    BY <2>2, <2>3 DEF Counter, Holders
<1> QED
  BY <1>1, <1>2 DEF LimiterInv

(* Steps that leave the limiter alone.                                     *)
LEMMA LimiterInvKept ==
  ASSUME LimiterInv, UNCHANGED limiterVars
  PROVE  LimiterInv'
<1>1. UNCHANGED <<minute, counter, deadline, window, lpc, late, gone, life>>
  BY DEF limiterVars
<1>2. LimiterShape' /\ Windows' /\ Lives'
  BY <1>1 DEF LimiterInv, LimiterShape, Windows, Lives
<1>3. ASSUME NEW k \in Limiter!Minute, NEW l \in Nat PROVE Counter(k)' /\ Holders(k, l)'
  <2>1. Counted(k)' = Counted(k) /\ Holding(k, l)' = Holding(k, l)
    BY <1>1 DEF Holding, Counted
  <2> QED
    BY <1>1, <2>1 DEF LimiterInv, Counter, Holders
<1> QED
  BY <1>2, <1>3 DEF LimiterInv

LEMMA TimeKeepsLimiter ==
  ASSUME LimiterInv, Limiter!Tick \/ \E k \in Limiter!Minute : Limiter!Drop(k)
  PROVE  LimiterInv'
<1> USE DEF LimiterInv, LimiterShape
<1>1. CASE Limiter!Tick
  <2>1. /\ minute' = minute + 1 /\ minute' \in Limiter!Minute
        /\ UNCHANGED <<counter, deadline, window, lpc, late, gone, life>>
    BY <1>1, LimiterAssumption DEF Limiter!Tick, Limiter!Minute, Limiter!historyVars
  <2>2. Windows' /\ Lives'
    BY <2>1, LimiterAssumption DEF Windows, Lives, Limiter!Minute
  <2>3. ASSUME NEW k \in Limiter!Minute, NEW l \in Nat PROVE Counter(k)' /\ Holders(k, l)'
    <3>1. Counted(k)' = Counted(k) /\ Holding(k, l)' = Holding(k, l)
      BY <2>1 DEF Holding, Counted
    <3>2. minute' <= k => minute <= k
      BY <2>1, LimiterAssumption DEF Limiter!Minute
    <3> QED
      BY <2>1, <3>1, <3>2 DEF Counter, Holders
  <2> QED
    BY <2>1, <2>2, <2>3
<1>2. ASSUME NEW k \in Limiter!Minute, Limiter!Drop(k) PROVE LimiterInv'
  <2>1. /\ counter' = [counter EXCEPT ![k] = 0] /\ deadline' = [deadline EXCEPT ![k] = Never]
        /\ gone' = [gone EXCEPT ![k] = @ + 1]
        /\ deadline[k] # Never /\ minute >= deadline[k]
        /\ UNCHANGED <<minute, window, lpc, late, life>>
    BY <1>2 DEF Limiter!Drop
  <2>2. minute > k
    <3>1. deadline[k] \in 1 .. MaxMinute + 1 /\ deadline[k] > k
      BY <2>1 DEF Counter
    <3> QED
      BY <2>1, <3>1, LimiterAssumption DEF Limiter!Minute
  <2>3. LimiterShape' /\ Windows'
    BY <2>1 DEF Windows
  <2>4. Lives'
    <3>1. ASSUME NEW l \in Limiter!Minute PROVE gone[l] <= gone'[l] /\ gone[l] \in Nat /\ gone'[l] \in Nat
      BY <2>1, <3>1
    <3> QED
      BY <2>1, <3>1 DEF Lives
  <2>5. ASSUME NEW i \in Limiter!Minute, NEW l \in Nat PROVE Counter(i)' /\ Holders(i, l)'
    <3>1. Counted(i)' = Counted(i) /\ Holding(i, l)' = Holding(i, l)
      BY <2>1 DEF Holding, Counted
    <3>2. CASE i # k
      BY <2>1, <3>1, <3>2 DEF Counter, Holders
    <3>3. CASE i = k
      <4>1. /\ deadline'[i] = Never /\ counter'[i] = 0 /\ ~(minute <= i)
            /\ gone'[i] = gone[i] + 1 /\ gone[i] \in Nat
        BY <2>1, <2>2, <3>3, LimiterAssumption DEF Limiter!Minute
      <4>2. Counter(i)'
        BY <2>1, <3>1, <4>1, SomeRequests DEF Counter
      <4>3. l = gone[i] + 1 => Holding(i, l) = {}
        BY <4>1 DEF Lives, Holding
      <4>4. l = gone[i] + 1 => Cardinality(Holding(i, l)) = 0
        BY <4>3, FS_EmptySet
      <4> QED
        BY <3>1, <4>1, <4>2, <4>4 DEF Holders
    <3> QED
      BY <3>2, <3>3
  <2> QED
    BY <2>3, <2>4, <2>5
<1> QED
  BY <1>1, <1>2

(* A request that reads the clock holds nothing and is not counted yet.    *)
LEMMA ReadClockKeepsLimiter ==
  ASSUME LimiterInv, NEW c \in Conns, Limiter!ReadClock(c)
  PROVE  LimiterInv'
<1> USE DEF LimiterInv, LimiterShape
<1>1. /\ lpc[c] = "idle" /\ window' = [window EXCEPT ![c] = minute]
      /\ lpc' = [lpc EXCEPT ![c] = "incr"]
      /\ UNCHANGED <<minute, counter, deadline, late, gone, life>>
  BY DEF Limiter!ReadClock, Limiter!historyVars
<1>2. LimiterShape'
  BY <1>1
<1>3. Windows' /\ Lives'
  BY <1>1, LimiterAssumption DEF Windows, Lives, Limiter!Minute
<1>4. ASSUME NEW k \in Limiter!Minute, NEW l \in Nat PROVE Counter(k)' /\ Holders(k, l)'
  <2>1. Counted(k)' = Counted(k) /\ Holding(k, l)' = Holding(k, l)
    BY <1>1 DEF Holding, Counted
  <2> QED
    BY <1>1, <2>1 DEF Counter, Holders
<1> QED
  BY <1>2, <1>3, <1>4

(* A request that is counted may pass only if the counter, and with it     *)
(* those who may pass since it expired last, stays within the limit.       *)
LEMMA IncrKeepsLimiter ==
  ASSUME LimiterInv, NEW c \in Conns, Limiter!Incr(c)
  PROVE  LimiterInv'
<1> USE DEF LimiterInv, LimiterShape
<1> DEFINE w == window[c]
           n == counter[w] + 1
           z == gone[w]
<1>1. /\ lpc[c] = "incr" /\ counter' = [counter EXCEPT ![w] = n]
      /\ lpc' = [lpc EXCEPT ![c] = IF n = 1 THEN "expire" ELSE Limiter!Verdict(n)]
      /\ late' = IF minute > w THEN late \cup {c} ELSE late
      /\ life' = [life EXCEPT ![c] = z]
      /\ UNCHANGED <<minute, deadline, window, gone>>
  BY DEF Limiter!Incr
<1>2. /\ w \in Limiter!Minute /\ w <= minute /\ n \in Nat \ {0} /\ counter[w] \in Nat
      /\ z \in Nat /\ life'[c] = z
      /\ lpc'[c] \in {"expire", "allowed", "over"}
      /\ lpc'[c] = "allowed" => n <= Limit
      /\ lpc'[c] = "expire" => n = 1
      /\ \A q \in Conns \ {c} : /\ lpc'[q] = lpc[q] /\ life'[q] = life[q]
                                /\ q \in late' <=> q \in late
  BY <1>1 DEF Windows, Limiter!Verdict
<1>3. LimiterShape'
  BY <1>1, <1>2
<1>4. Windows' /\ Lives'
  <2>1. Windows'
    BY <1>1, <1>2, LimiterAssumption DEF Windows
  <2>2. c \notin late' => z = 0
    BY <1>1, <1>2, LimiterAssumption DEF Counter, Limiter!Minute
  <2> QED
    BY <1>1, <1>2, <2>1, <2>2 DEF Lives
<1>5. ASSUME NEW k \in Limiter!Minute, NEW l \in Nat PROVE Counter(k)' /\ Holders(k, l)'
  <2>1. CASE k # w
    <3>1. Counted(k)' = Counted(k) /\ counter'[k] = counter[k] /\ Holding(k, l)' = Holding(k, l)
      BY <1>1, <1>2, <2>1 DEF Holding, Counted
    <3> QED
      BY <1>1, <3>1 DEF Counter, Holders
  <2>2. CASE k = w
    <3>1. /\ Counted(k)' = Counted(k) \cup {c} /\ c \notin Counted(k)
          /\ c \notin Holding(k, l)
          /\ counter'[k] = n /\ counter[k] + 1 = n /\ gone'[k] = z /\ gone[k] = z
      BY <1>1, <1>2, <2>2 DEF Counted, Holding
    <3>2. /\ Cardinality(Counted(k)') = Cardinality(Counted(k)) + 1
          /\ Cardinality(Holding(k, l) \cup {c}) = Cardinality(Holding(k, l)) + 1
      BY <3>1, SomeRequests, FewRequests
    <3>3. \/ Holding(k, l)' = Holding(k, l)
          \/ /\ Holding(k, l)' = Holding(k, l) \cup {c}
             /\ l = z /\ (n <= Limit \/ n = 1)
      BY <1>1, <1>2, <2>2 DEF Holding
    <3>4. /\ Cardinality(Holding(k, l)) \in Nat /\ Cardinality(Counted(k)) \in Nat
          /\ Limit \in Nat
      BY SomeRequests, LimiterAssumption
    <3>5. Counter(k)'
      <4>1. Counter(k)
        OBVIOUS
      <4> QED
        BY <1>1, <1>2, <3>1, <3>2, <3>4, <4>1 DEF Counter
    <3>6. /\ l = z => Cardinality(Holding(k, l)) <= counter[k]
          /\ Limit >= 1 => Cardinality(Holding(k, l)) <= Limit
      BY <3>1 DEF Holders
    <3>7. /\ l = z => Cardinality(Holding(k, l)') <= n
          /\ Limit >= 1 => Cardinality(Holding(k, l)') <= Limit
      <4>1. CASE Holding(k, l)' = Holding(k, l)
        BY <1>2, <3>1, <3>4, <3>6, <4>1
      <4>2. CASE Holding(k, l)' = Holding(k, l) \cup {c} /\ l = z /\ (n <= Limit \/ n = 1)
        <5>1. Cardinality(Holding(k, l)') = Cardinality(Holding(k, l)) + 1
          BY <3>2, <4>2
        <5> QED
          BY <1>2, <3>1, <3>4, <3>6, <4>2, <5>1
      <4> QED
        BY <3>3, <4>1, <4>2
    <3> QED
      BY <3>1, <3>5, <3>7 DEF Holders
  <2> QED
    BY <2>1, <2>2
<1> QED
  BY <1>3, <1>4, <1>5

(* A step after which fewer may pass.                                      *)
LEMMA FewerHolders ==
  ASSUME LimiterShape, NEW k \in Limiter!Minute, NEW l,
         Holding(k, l)' \in SUBSET Holding(k, l)
  PROVE  /\ Cardinality(Holding(k, l)') \in Nat
         /\ Cardinality(Holding(k, l)) <= counter[k] => Cardinality(Holding(k, l)') <= counter[k]
         /\ Cardinality(Holding(k, l)) <= Limit => Cardinality(Holding(k, l)') <= Limit
<1>1. Holding(k, l) \in SUBSET Conns /\ Cardinality(Holding(k, l)) \in Nat
  BY SomeRequests
<1>2. /\ Cardinality(Holding(k, l)') <= Cardinality(Holding(k, l))
      /\ Cardinality(Holding(k, l)') \in Nat
  BY <1>1, FewRequests
<1> QED
  BY <1>1, <1>2, LimiterAssumption DEF LimiterShape

(* The expiry that is set lies after the minute that was counted.          *)
LEMMA ExpireKeepsLimiter ==
  ASSUME LimiterInv, NEW c \in Conns, Limiter!Expire(c)
  PROVE  LimiterInv'
<1> USE DEF LimiterInv, LimiterShape
<1>1. /\ lpc[c] = "expire"
      /\ \/ UNCHANGED deadline
         \/ deadline' = [deadline EXCEPT ![window[c]] = minute + 1]
      /\ lpc' = [lpc EXCEPT ![c] = Limiter!Verdict(1)]
      /\ UNCHANGED <<minute, counter, window, late, gone, life>>
  BY DEF Limiter!Expire, Limiter!Expiry, Limiter!historyVars
<1>2. /\ lpc'[c] \in {"allowed", "over"} /\ (lpc'[c] = "allowed" => 1 <= Limit)
      /\ \A q \in Conns \ {c} : lpc'[q] = lpc[q]
      /\ minute \in Nat /\ minute + 1 \in 1 .. MaxMinute + 1
      /\ window[c] \in Limiter!Minute /\ window[c] <= minute
  BY <1>1, LimiterAssumption DEF Limiter!Verdict, Windows, Limiter!Minute
<1>3. LimiterShape'
  BY <1>1, <1>2
<1>4. Windows' /\ Lives'
  BY <1>1, <1>2, LimiterAssumption DEF Windows, Lives
<1>5. ASSUME NEW k \in Limiter!Minute, NEW l \in Nat PROVE Counter(k)' /\ Holders(k, l)'
  <2>1. Counted(k)' = Counted(k) /\ Holding(k, l)' \in SUBSET Holding(k, l)
    BY <1>1, <1>2 DEF Holding, Counted
  <2>2. deadline'[k] # Never => deadline'[k] > k
    <3>1. minute + 1 > window[c] /\ Counter(k)
      BY <1>2, LimiterAssumption DEF Limiter!Minute
    <3> QED
      BY <1>1, <1>2, <3>1 DEF Counter
  <2>3. Counter(k)'
    BY <1>1, <2>1, <2>2 DEF Counter
  <2>4. Holders(k, l)'
    BY <1>1, <2>1, FewerHolders DEF Holders
  <2> QED
    BY <2>3, <2>4
<1> QED
  BY <1>3, <1>4, <1>5

(* A request that failed does not pass, though it may have been counted.   *)
LEMMA FailureKeepsLimiter ==
  ASSUME LimiterInv, NEW c \in Conns, Limiter!LimiterFails(c)
  PROVE  LimiterInv'
<1> USE DEF LimiterInv, LimiterShape
<1> DEFINE w == window[c]
<1>1. /\ lpc[c] \in {"incr", "expire"} /\ lpc' = [lpc EXCEPT ![c] = "error"]
      /\ UNCHANGED <<minute, deadline, window, gone, life>>
      /\ \/ UNCHANGED <<counter, late>>
         \/ /\ lpc[c] = "incr" /\ counter' = [counter EXCEPT ![w] = @ + 1]
            /\ late' = IF minute > w THEN late \cup {c} ELSE late
  BY DEF Limiter!LimiterFails
<1>2. /\ w \in Limiter!Minute /\ lpc'[c] = "error"
      /\ \A q \in Conns \ {c} : lpc'[q] = lpc[q] /\ (q \in late' <=> q \in late)
  BY <1>1
<1>3. LimiterShape'
  BY <1>1, <1>2
<1>4. Windows' /\ Lives'
  BY <1>1, <1>2 DEF Windows, Lives
<1>5. ASSUME NEW k \in Limiter!Minute, NEW l \in Nat PROVE Counter(k)' /\ Holders(k, l)'
  <2>1. Counted(k) \in SUBSET Counted(k)' /\ Holding(k, l)' \in SUBSET Holding(k, l)
    BY <1>1, <1>2 DEF Holding, Counted
  <2>2. Counted(k)' \in SUBSET Conns
    BY <1>3 DEF Counted
  <2>3. /\ Cardinality(Counted(k)) <= Cardinality(Counted(k)')
        /\ Cardinality(Counted(k)') \in Nat /\ Cardinality(Counted(k)) \in Nat
        /\ counter[k] \in Nat /\ Limit \in Nat
    BY <2>1, <2>2, SomeRequests, FewRequests, LimiterAssumption
  <2>4. counter'[k] <= Cardinality(Counted(k)')
    <3>1. CASE counter'[k] = counter[k]
      BY <2>3, <3>1 DEF Counter
    <3>2. CASE counter'[k] # counter[k]
      <4>1. k = w /\ lpc[c] = "incr" /\ counter'[k] = counter[k] + 1
        BY <1>1, <3>2
      <4>2. Counted(k)' = Counted(k) \cup {c} /\ c \in Conns \ Counted(k)
        BY <1>1, <1>2, <4>1 DEF Counted
      <4>3. Cardinality(Counted(k)') = Cardinality(Counted(k)) + 1
        BY <4>2, SomeRequests, FewRequests
      <4> QED
        BY <2>3, <4>1, <4>3 DEF Counter
    <3> QED
      BY <3>1, <3>2
  <2>5. counter'[k] >= counter[k] /\ counter'[k] \in Nat
    BY <1>1, <1>3, <2>3
  <2>6. Counter(k)'
    BY <1>1, <2>4 DEF Counter
  <2>7. Holders(k, l)'
    <3>1. /\ Cardinality(Holding(k, l)') \in Nat
          /\ l = gone[k] => Cardinality(Holding(k, l)') <= counter[k]
          /\ Limit >= 1 => Cardinality(Holding(k, l)') <= Limit
      BY <2>1, FewerHolders DEF Holders
    <3> QED
      BY <1>1, <2>3, <2>5, <3>1 DEF Holders
  <2> QED
    BY <2>6, <2>7
<1> QED
  BY <1>3, <1>4, <1>5

LEMMA LimiterInvNext ==
  ASSUME LimiterInv, [Next]_vars
  PROVE  LimiterInv'
<1>1. CASE UNCHANGED limiterVars
  BY <1>1, LimiterInvKept
<1>2. CASE Time
  BY <1>2, TimeKeepsLimiter DEF Time
<1>3. ASSUME NEW c \in Conns, Allow(c) PROVE LimiterInv'
  BY <1>3, ReadClockKeepsLimiter, IncrKeepsLimiter, ExpireKeepsLimiter, FailureKeepsLimiter
     DEF Allow
<1>4. CASE Publisher \/ PublishOn \/ UNCHANGED vars
  BY <1>1, <1>4 DEF Publisher, PublishOn, vars
<1>5. ASSUME NEW c \in Conns, Handler(c) \/ ReaderEnds(c) \/ Leave(c), ~Allow(c)
      PROVE  LimiterInv'
  BY <1>1, <1>5 DEF Handler, Refuse, Upgrade, SubscribeConn, TakeMessage, WriteMessage,
                    SeeDisconnect, CancelConn, CloseConn, ReaderEnds, Leave
<1> QED
  BY <1>2, <1>3, <1>4, <1>5 DEF Next

LEMMA LimiterInvariance == Spec => []LimiterInv
  BY LimiterInvInit, LimiterInvNext, PTL DEF Spec

(* However the commands of overlapping requests interleave or fail, and    *)
(* whenever counters expire, no more than Limit pass of the requests that  *)
(* a counter counts before it expires, those who are counted within their  *)
(* minute all among the first such; beside them pass only late ones.       *)
THEOREM LimitIsKept == Spec => []AdmittedWithinLimit
<1>1. LimiterInv => AdmittedWithinLimit
  BY LimiterInvImplies
<1> QED
  BY <1>1, LimiterInvariance, PTL

-----------------------------------------------------------------------------
(* The messages of a subscriber: those it took and those that wait.        *)
OfferShape ==
    /\ buf \in [Conns -> Seq(Msg)] /\ taken \in [Conns -> Seq(Msg)]
    /\ \A c \in Conns : Len(buf[c]) <= Capacity
    /\ offered \in [Conns -> 0 .. MaxMsgs]
    /\ todo \in SUBSET Conns
    /\ rpc \in [Conns -> {"none", "reading", "ended"}]
    /\ open \in SUBSET Conns
    /\ seen \in [Conns -> Seq(Nat)]
    /\ \A c \in Conns : Len(seen[c]) = offered[c]

Growing(c) == \A i, j \in DOMAIN Got(c) : i < j => Got(c)[i] < Got(c)[j]

(* What a subscriber got it was offered.                                   *)
Known(c) == \A i \in DOMAIN Got(c) : Got(c)[i] <= offered[c]

Missed(c) ==
    \A n \in 1 .. offered[c] \ Range(Got(c)) : Cardinality(Waiting(c, n)) >= Capacity

(* A Publish that has begun has a message for everyone it has to come to.  *)
OfferInv ==
    /\ ChannelInv /\ OfferShape
    /\ \A c \in todo : offered[c] < MaxMsgs
    /\ \A c \in Conns : Growing(c) /\ Known(c) /\ Missed(c)

LEMMA OfferInvImplies == OfferInv => MissesOnlyWhenFull
  BY DEF OfferInv, Growing, Missed, MissesOnlyWhenFull

LEMMA OfferInvInit == Init => OfferInv
<1> SUFFICES ASSUME Init PROVE OfferInv
  OBVIOUS
<1> USE BroadcasterAssumption DEF Init, BroadcasterInit
<1>1. OfferShape
  <2>1. <<>> \in Seq(Nat) /\ Len(<<>>) = 0 /\ <<>> \in Seq(Msg)
    OBVIOUS
  <2> QED
    BY <2>1 DEF OfferShape
<1>2. ASSUME NEW c \in Conns PROVE Growing(c) /\ Known(c) /\ Missed(c)
  <2>1. Got(c) = <<>> /\ DOMAIN Got(c) = {} /\ offered[c] = 0
    BY DEF Got
  <2> QED
    BY <2>1 DEF Growing, Known, Missed
<1> QED
  BY <1>1, <1>2, InvInit DEF OfferInv

(* Steps that offer nothing.                                               *)
LEMMA OfferInvKept ==
  ASSUME OfferInv, ChannelInv', OfferShape', UNCHANGED <<offered, seen>>,
         \A c \in todo' : offered[c] < MaxMsgs,
         \A c \in Conns : Got(c)' = Got(c)
  PROVE  OfferInv'
<1>1. ASSUME NEW c \in Conns PROVE Growing(c)' /\ Known(c)' /\ Missed(c)'
  <2>1. Got(c)' = Got(c) /\ Growing(c) /\ Known(c) /\ Missed(c)
    BY DEF OfferInv
  <2> QED
    BY <2>1 DEF Growing, Known, Missed, Waiting
<1> QED
  BY <1>1 DEF OfferInv

LEMMA BuffersKept ==
  ASSUME OfferInv, ChannelInv', UNCHANGED <<buf, taken, offered, seen>>,
         rpc' \in [Conns -> {"none", "reading", "ended"}], open' \in SUBSET Conns,
         todo' \in SUBSET Conns, \A c \in todo' : offered[c] < MaxMsgs
  PROVE  OfferInv'
<1>1. OfferShape' /\ \A c \in Conns : Got(c)' = Got(c)
  BY DEF OfferInv, OfferShape, Got
<1> QED
  BY <1>1, OfferInvKept

LEMMA MoveHead ==
  ASSUME NEW S, NEW t \in Seq(S), NEW b \in Seq(S), b # <<>>
  PROVE  Append(t, Head(b)) \o Tail(b) = t \o b
<1> DEFINE l == Append(t, Head(b)) \o Tail(b)
           r == t \o b
<1>1. /\ Head(b) \in S /\ Tail(b) \in Seq(S) /\ Head(b) = b[1]
      /\ Len(Tail(b)) = Len(b) - 1 /\ Len(b) \in Nat \ {0} /\ Len(t) \in Nat
      /\ \A i \in 1 .. Len(Tail(b)) : Tail(b)[i] = b[i + 1]
  BY HeadTailProperties
<1>2. /\ Append(t, Head(b)) \in Seq(S) /\ Len(Append(t, Head(b))) = Len(t) + 1
      /\ \A i \in 1 .. Len(t) : Append(t, Head(b))[i] = t[i]
      /\ Append(t, Head(b))[Len(t) + 1] = b[1]
  BY <1>1, AppendProperties
<1>3. /\ r \in Seq(S) /\ Len(r) = Len(t) + Len(b)
      /\ \A i \in 1 .. Len(t) + Len(b) : r[i] = IF i <= Len(t) THEN t[i] ELSE b[i - Len(t)]
  BY ConcatProperties
<1>4. /\ l \in Seq(S) /\ Len(l) = Len(t) + Len(b)
      /\ \A i \in 1 .. Len(t) + Len(b) :
           l[i] = IF i <= Len(t) + 1 THEN Append(t, Head(b))[i] ELSE Tail(b)[i - (Len(t) + 1)]
  BY <1>1, <1>2, ConcatProperties
<1>5. ASSUME NEW i \in 1 .. Len(t) + Len(b) PROVE l[i] = r[i]
  <2>1. CASE i <= Len(t)
    BY <1>1, <1>2, <1>3, <1>4, <2>1
  <2>2. CASE i = Len(t) + 1
    BY <1>1, <1>2, <1>3, <1>4, <2>2
  <2>3. CASE i > Len(t) + 1
    <3>1. /\ i - (Len(t) + 1) \in 1 .. Len(Tail(b))
          /\ (i - (Len(t) + 1)) + 1 = i - Len(t)
      BY <1>1, <2>3
    <3>2. Tail(b)[i - (Len(t) + 1)] = b[i - Len(t)]
      BY <1>1, <3>1
    <3> QED
      BY <1>1, <1>3, <1>4, <2>3, <3>2
  <2> QED
    BY <1>1, <2>1, <2>2, <2>3
<1> HIDE DEF l, r
<1>6. l = r
  BY <1>3, <1>4, <1>5, SeqEqual
<1> QED
  BY <1>6 DEF l, r

(* Taking a message moves it from what waits to what was taken.            *)
LEMMA TakeKeepsOffers ==
  ASSUME OfferInv, ChannelInv', NEW c \in Conns, TakeMessage(c)
  PROVE  OfferInv'
<1>1. /\ buf[c] \in Seq(Msg) /\ taken[c] \in Seq(Msg) /\ buf[c] # <<>>
      /\ buf' = [buf EXCEPT ![c] = Tail(@)]
      /\ taken' = [taken EXCEPT ![c] = Append(@, Head(buf[c]))]
      /\ UNCHANGED <<offered, todo, rpc, open, seen>>
      /\ OfferShape
  BY DEF OfferInv, OfferShape, TakeMessage, Receive
<1>2. /\ Head(buf[c]) \in Msg /\ Tail(buf[c]) \in Seq(Msg)
      /\ Len(Tail(buf[c])) = Len(buf[c]) - 1
      /\ Append(taken[c], Head(buf[c])) \in Seq(Msg)
  BY <1>1, HeadTailProperties
<1>3. OfferShape'
  BY <1>1, <1>2, BroadcasterAssumption DEF OfferShape
<1>4. ASSUME NEW d \in Conns PROVE Got(d)' = Got(d)
  <2>1. CASE d = c
    <3>1. Append(taken[c], Head(buf[c])) \o Tail(buf[c]) = taken[c] \o buf[c]
      BY <1>1, MoveHead
    <3> QED
      BY <1>1, <2>1, <3>1 DEF OfferShape, Got
  <2>2. CASE d # c
    BY <1>1, <2>2 DEF OfferShape, Got
  <2> QED
    BY <2>1, <2>2
<1> QED
  BY <1>1, <1>3, <1>4, OfferInvKept DEF OfferInv

LEMMA AppendToTail ==
  ASSUME NEW S, NEW t \in Seq(S), NEW b \in Seq(S), NEW x \in S
  PROVE  /\ t \o b \in Seq(S) /\ Len(t \o b) = Len(t) + Len(b)
         /\ t \o Append(b, x) = Append(t \o b, x)
<1>1. /\ t \o b \in Seq(S) /\ Append(b, x) \in Seq(S) /\ <<x>> \in Seq(S)
      /\ Append(b, x) = b \o <<x>> /\ Len(t \o b) = Len(t) + Len(b)
  BY ConcatProperties, AppendProperties, AppendIsConcat
<1>2. Append(t \o b, x) = (t \o b) \o <<x>>
  BY <1>1, AppendIsConcat
<1>3. (t \o b) \o <<x>> = t \o (b \o <<x>>)
  BY <1>1, ConcatAssociative
<1> QED
  BY <1>1, <1>2, <1>3

(* One more element, larger than all the others.                           *)
LEMMA AppendLargest ==
  ASSUME NEW g \in Seq(Nat), NEW x \in Nat, \A i \in 1 .. Len(g) : g[i] < x,
         \A i, j \in 1 .. Len(g) : i < j => g[i] < g[j]
  PROVE  /\ DOMAIN Append(g, x) = 1 .. Len(g) + 1 /\ Len(g) \in Nat
         /\ \A i \in 1 .. Len(g) : Append(g, x)[i] = g[i]
         /\ Append(g, x)[Len(g) + 1] = x
         /\ \A i, j \in 1 .. Len(g) + 1 : i < j => Append(g, x)[i] < Append(g, x)[j]
         /\ \A i \in 1 .. Len(g) + 1 : Append(g, x)[i] <= x
<1>1. /\ Append(g, x) \in Seq(Nat) /\ Len(Append(g, x)) = Len(g) + 1 /\ Len(g) \in Nat
      /\ \A i \in 1 .. Len(g) : Append(g, x)[i] = g[i]
      /\ Append(g, x)[Len(g) + 1] = x
  BY AppendProperties, LenProperties
<1>2. DOMAIN Append(g, x) = 1 .. Len(g) + 1
  BY <1>1, LenProperties
<1>3. \A i \in 1 .. Len(g) : g[i] \in Nat
  BY ElementOfSeq
<1> DEFINE h == Append(g, x)
<1> HIDE DEF h
<1>4. \A i \in 1 .. Len(g) + 1 : i \in 1 .. Len(g) \/ i = Len(g) + 1
  BY <1>1
<1>5. /\ \A i \in 1 .. Len(g) : h[i] = g[i]
      /\ h[Len(g) + 1] = x
  BY <1>1 DEF h
<1>6. \A i, j \in 1 .. Len(g) + 1 : i < j => h[i] < h[j]
  BY <1>1, <1>4, <1>5
<1>7. \A i \in 1 .. Len(g) + 1 : h[i] <= x
  BY <1>1, <1>3, <1>4, <1>5
<1> QED
  BY <1>1, <1>2, <1>6, <1>7 DEF h

(* What a subscriber got, when it is offered another message.              *)
LEMMA BeforeOffer ==
  ASSUME OfferInv, NEW c \in Conns, offered[c] < MaxMsgs
  PROVE  /\ offered[c] \in Nat /\ offered[c] + 1 \in Msg /\ MaxMsgs \in Nat
         /\ offered[c] + 1 \in Nat
         /\ Got(c) \in Seq(Nat) /\ Got(c) \in Seq(Msg)
         /\ DOMAIN Got(c) = 1 .. Len(Got(c)) /\ Len(Got(c)) \in Nat
         /\ Len(Got(c)) = Len(taken[c]) + Len(buf[c])
         /\ Len(taken[c]) \in Nat /\ Len(buf[c]) \in Nat
         /\ \A i \in 1 .. Len(Got(c)) : /\ Got(c)[i] \in Nat
                                        /\ Got(c)[i] <= offered[c]
                                        /\ Got(c)[i] < offered[c] + 1
<1>1. /\ offered[c] \in 0 .. MaxMsgs /\ MaxMsgs \in Nat
      /\ buf[c] \in Seq(Msg) /\ taken[c] \in Seq(Msg) /\ Known(c)
  BY BroadcasterAssumption DEF OfferInv, OfferShape
<1>2. offered[c] \in Nat /\ offered[c] + 1 \in Msg /\ offered[c] + 1 \in Nat
  BY <1>1 DEF Msg
<1>3. /\ taken[c] \o buf[c] \in Seq(Msg)
      /\ Len(taken[c] \o buf[c]) = Len(taken[c]) + Len(buf[c])
      /\ Len(taken[c]) \in Nat /\ Len(buf[c]) \in Nat
  BY <1>1, ConcatProperties, LenProperties
<1>4. Got(c) = taken[c] \o buf[c]
  BY DEF Got
<1>5. Msg \subseteq Nat
  BY <1>1 DEF Msg
<1>6. Got(c) \in Seq(Nat)
  BY <1>3, <1>4, <1>5, SeqMonotonic
<1>7. /\ DOMAIN Got(c) = 1 .. Len(Got(c)) /\ Len(Got(c)) \in Nat
      /\ \A i \in 1 .. Len(Got(c)) : Got(c)[i] \in Nat
  BY <1>6, LenProperties, ElementOfSeq
<1>8. ASSUME NEW i \in 1 .. Len(Got(c))
      PROVE  Got(c)[i] <= offered[c] /\ Got(c)[i] < offered[c] + 1
  <2>1. Got(c)[i] <= offered[c] /\ Got(c)[i] \in Nat
    BY <1>1, <1>7 DEF Known
  <2> QED
    BY <1>2, <2>1
<1> QED
  BY <1>1, <1>2, <1>3, <1>4, <1>6, <1>7, <1>8

(* The history of an offer keeps those of the earlier ones.                *)
LEMMA SeenGrows ==
  ASSUME OfferInv, NEW c \in Conns, offered[c] < MaxMsgs,
         seen' = [seen EXCEPT ![c] = Append(@, Len(taken[c]))]
  PROVE  /\ seen' \in [Conns -> Seq(Nat)]
         /\ Len(seen'[c]) = offered[c] + 1
         /\ seen'[c][offered[c] + 1] = Len(taken[c])
         /\ \A n \in 1 .. offered[c] : seen'[c][n] = seen[c][n]
<1>1. /\ seen \in [Conns -> Seq(Nat)] /\ seen[c] \in Seq(Nat)
      /\ Len(seen[c]) = offered[c] /\ Len(taken[c]) \in Nat
  BY BeforeOffer DEF OfferInv, OfferShape
<1>2. /\ Append(seen[c], Len(taken[c])) \in Seq(Nat)
      /\ Len(Append(seen[c], Len(taken[c]))) = Len(seen[c]) + 1
      /\ \A n \in 1 .. Len(seen[c]) : Append(seen[c], Len(taken[c]))[n] = seen[c][n]
      /\ Append(seen[c], Len(taken[c]))[Len(seen[c]) + 1] = Len(taken[c])
  BY <1>1, AppendProperties
<1>3. seen'[c] = Append(seen[c], Len(taken[c]))
  BY <1>1
<1> QED
  BY <1>1, <1>2, <1>3

(* An offer that is accepted is the newest message.                        *)
LEMMA AcceptedOffer ==
  ASSUME OfferInv, NEW c \in Conns, offered[c] < MaxMsgs,
         offered' = [offered EXCEPT ![c] = @ + 1],
         buf' = [buf EXCEPT ![c] = Append(@, offered[c] + 1)], UNCHANGED taken,
         seen' = [seen EXCEPT ![c] = Append(@, Len(taken[c]))]
  PROVE  Growing(c)' /\ Known(c)' /\ Missed(c)'
<1>1. /\ offered'[c] = offered[c] + 1 /\ buf'[c] = Append(buf[c], offered[c] + 1)
      /\ buf[c] \in Seq(Msg) /\ taken[c] \in Seq(Msg)
      /\ Growing(c) /\ Missed(c)
  BY DEF OfferInv, OfferShape
<1> DEFINE x == offered[c] + 1
           g == Got(c)
           h == Append(g, x)
<1>0. /\ x \in Nat /\ x \in Msg /\ offered[c] \in Nat
      /\ g \in Seq(Nat) /\ DOMAIN g = 1 .. Len(g) /\ Len(g) \in Nat
      /\ \A i \in 1 .. Len(g) : g[i] < x
  BY BeforeOffer
<1>2. Got(c)' = h
  <2>1. taken[c] \o Append(buf[c], x) = Append(taken[c] \o buf[c], x)
    <3> HIDE DEF x
    <3>1. x \in Msg /\ taken[c] \in Seq(Msg) /\ buf[c] \in Seq(Msg)
      BY <1>0, <1>1
    <3>2. \A t, b \in Seq(Msg) : \A m \in Msg : t \o Append(b, m) = Append(t \o b, m)
      BY AppendToTail
    <3> QED
      BY <3>1, <3>2
  <2>2. Got(c)' = taken[c] \o Append(buf[c], x)
    BY <1>1 DEF Got
  <2> QED
    BY <2>1, <2>2 DEF Got
<1>3. \A i, j \in 1 .. Len(g) : i < j => g[i] < g[j]
  BY <1>0, <1>1 DEF Growing
<1>4. /\ DOMAIN h = 1 .. Len(g) + 1 /\ Len(g) \in Nat
      /\ \A i \in 1 .. Len(g) : h[i] = g[i]
      /\ h[Len(g) + 1] = x
      /\ \A i, j \in 1 .. Len(g) + 1 : i < j => h[i] < h[j]
      /\ \A i \in 1 .. Len(g) + 1 : h[i] <= x
  BY <1>0, <1>3, AppendLargest
<1>5. /\ x \in Nat /\ Got(c)' = h /\ offered'[c] = x /\ DOMAIN g = 1 .. Len(g)
      /\ \A n \in 1 .. x : n = x \/ n \in 1 .. offered[c]
      /\ \A n \in 1 .. x : n \in Nat /\ n <= x
  BY <1>0, <1>1, <1>2
<1>6. Got(c) = g
  OBVIOUS
<1> HIDE DEF x, g, h
<1>7. Growing(c)' /\ Known(c)'
  BY <1>4, <1>5 DEF Growing, Known
<1>8. ASSUME NEW n \in 1 .. x, n \notin Range(h)
      PROVE  Cardinality(Waiting(c, n)') >= Capacity
  <2>1. Range(h) = { h[i] : i \in 1 .. Len(g) + 1 } /\ Range(g) = { g[i] : i \in 1 .. Len(g) }
    BY <1>4, <1>5 DEF Range
  <2>2. n \in 1 .. offered[c] \ Range(g)
    BY <1>4, <1>5, <1>8, <2>1
  <2>3. Waiting(c, n)' = Waiting(c, n)
    <3>1. seen'[c][n] = seen[c][n]
      BY <2>2, SeenGrows
    <3>2. \A k : { i \in DOMAIN h : h[i] < n /\ i > k } = { i \in DOMAIN g : g[i] < n /\ i > k }
      BY <1>4, <1>5
    <3> QED
      BY <1>5, <1>6, <3>1, <3>2 DEF Waiting
  <2> QED
    BY <1>1, <1>6, <2>2, <2>3 DEF Missed
<1>9. Missed(c)'
  BY <1>5, <1>8 DEF Missed
<1> QED
  BY <1>7, <1>9

(* One that is not is missed behind a full channel.                        *)
LEMMA DroppedOffer ==
  ASSUME OfferInv, NEW c \in Conns, offered[c] < MaxMsgs, Len(buf[c]) = Capacity,
         offered' = [offered EXCEPT ![c] = @ + 1], UNCHANGED <<buf, taken>>,
         seen' = [seen EXCEPT ![c] = Append(@, Len(taken[c]))]
  PROVE  Growing(c)' /\ Known(c)' /\ Missed(c)'
<1>0. /\ offered[c] \in Nat /\ Len(taken[c]) \in Nat /\ Len(buf[c]) \in Nat
      /\ Len(Got(c)) = Len(taken[c]) + Len(buf[c]) /\ Len(Got(c)) \in Nat
      /\ DOMAIN Got(c) = 1 .. Len(Got(c))
      /\ \A i \in 1 .. Len(Got(c)) : /\ Got(c)[i] \in Nat
                                     /\ Got(c)[i] <= offered[c]
                                     /\ Got(c)[i] < offered[c] + 1
  BY BeforeOffer
<1>1. /\ offered'[c] = offered[c] + 1 /\ Capacity \in Nat
      /\ Growing(c) /\ Missed(c)
  BY BroadcasterAssumption DEF OfferInv, OfferShape
<1>2. Got(c)' = Got(c)
  BY DEF Got
<1>3. Growing(c)'
  BY <1>1, <1>2 DEF Growing
<1>4. Known(c)'
  <2>1. \A i \in 1 .. Len(Got(c)) : Got(c)[i] <= offered[c] + 1
    BY <1>0
  <2> QED
    BY <1>1, <1>2, <2>1, BeforeOffer DEF Known
<1>5. ASSUME NEW n \in 1 .. offered[c] + 1, n \notin Range(Got(c))
      PROVE  Cardinality(Waiting(c, n)') >= Capacity
  <2>0. Waiting(c, n)' = { i \in DOMAIN Got(c) : Got(c)[i] < n /\ i > seen'[c][n] }
    BY <1>2 DEF Waiting
  <2>1. CASE n = offered[c] + 1
    <3>1. seen'[c][n] = Len(taken[c])
      BY <2>1, SeenGrows
    <3>2. Waiting(c, n)' = Len(taken[c]) + 1 .. Len(Got(c))
      <4> DEFINE L == Len(taken[c])
                 M == Len(Got(c))
                 g == Got(c)
      <4>1. /\ L \in Nat /\ M \in Nat /\ DOMAIN g = 1 .. M
            /\ \A i \in 1 .. M : g[i] < n
        BY <1>0, <2>1
      <4>2. Waiting(c, n)' = { i \in DOMAIN g : g[i] < n /\ i > L }
        BY <2>0, <3>1
      <4> HIDE DEF L, M, g
      <4>3. { i \in DOMAIN g : g[i] < n /\ i > L } = L + 1 .. M
        BY <4>1
      <4> QED
        BY <4>2, <4>3 DEF L, M
    <3>3. Cardinality(Len(taken[c]) + 1 .. Len(Got(c))) = Capacity
      <4>1. Len(Got(c)) \in Int /\ Len(taken[c]) + 1 \in Int
        BY <1>0
      <4>2. Cardinality(Len(taken[c]) + 1 .. Len(Got(c))) =
              IF Len(taken[c]) + 1 > Len(Got(c)) THEN 0
              ELSE Len(Got(c)) - (Len(taken[c]) + 1) + 1
        BY <4>1, FS_Interval
      <4> QED
        BY <1>0, <1>1, <4>2
    <3> QED
      BY <1>1, <3>2, <3>3
  <2>2. CASE n # offered[c] + 1
    <3>1. n \in 1 .. offered[c]
      BY <1>0, <2>2
    <3>2. n \in 1 .. offered[c] \ Range(Got(c))
      BY <1>5, <3>1
    <3>3. Waiting(c, n)' = Waiting(c, n)
      BY <2>0, <3>1, SeenGrows DEF Waiting
    <3> QED
      BY <1>1, <3>2, <3>3 DEF Missed
  <2> QED
    BY <2>1, <2>2
<1>6. Missed(c)'
  BY <1>1, <1>2, <1>5 DEF Missed
<1> QED
  BY <1>3, <1>4, <1>6

LEMMA OfferKeepsOffers ==
  ASSUME OfferInv, ChannelInv', NEW c \in Conns, PublishTo(c),
         UNCHANGED <<taken, rpc, open>>,
         seen' = [seen EXCEPT ![c] = Append(@, Len(taken[c]))]
  PROVE  OfferInv'
<1>1. /\ OfferShape /\ offered[c] \in Nat /\ offered[c] + 1 \in 0 .. MaxMsgs
      /\ offered[c] < MaxMsgs /\ c \in todo /\ todo' = todo \ {c}
      /\ offered' = [offered EXCEPT ![c] = @ + 1]
  BY BroadcasterAssumption DEF OfferInv, OfferShape, PublishTo
<1>0. /\ seen' \in [Conns -> Seq(Nat)]
      /\ \A d \in Conns : Len(seen'[d]) = offered'[d]
  BY <1>1, SeenGrows DEF OfferShape
<1>2. ASSUME NEW d \in Conns \ {c}
      PROVE  Growing(d)' /\ Known(d)' /\ Missed(d)' /\ offered'[d] = offered[d]
  <2>1. Got(d)' = Got(d) /\ offered'[d] = offered[d] /\ seen'[d] = seen[d]
    BY <1>1, <1>2 DEF OfferShape, Got, PublishTo, Offer
  <2>2. Growing(d) /\ Known(d) /\ Missed(d)
    BY DEF OfferInv
  <2> QED
    BY <2>1, <2>2 DEF Growing, Known, Missed, Waiting
<1>3. \A d \in todo' : offered'[d] < MaxMsgs
  BY <1>1, <1>2 DEF OfferInv, OfferShape
<1>4. CASE Len(buf[c]) < Capacity /\ buf' = [buf EXCEPT ![c] = Append(@, offered[c] + 1)]
  <2>1. /\ Append(buf[c], offered[c] + 1) \in Seq(Msg)
        /\ Len(Append(buf[c], offered[c] + 1)) = Len(buf[c]) + 1
    BY <1>1, BeforeOffer, AppendProperties DEF OfferShape
  <2>2. Len(buf[c]) + 1 <= Capacity
    BY <1>1, <1>4, BeforeOffer, BroadcasterAssumption
  <2>3. OfferShape'
    BY <1>0, <1>1, <1>4, <2>1, <2>2 DEF OfferShape
  <2>4. Growing(c)' /\ Known(c)' /\ Missed(c)'
    BY <1>1, <1>4, AcceptedOffer
  <2> QED
    BY <1>2, <1>3, <2>3, <2>4 DEF OfferInv
<1>5. CASE Len(buf[c]) = Capacity /\ UNCHANGED buf
  <2>1. OfferShape'
    BY <1>0, <1>1, <1>5 DEF OfferShape
  <2>2. Growing(c)' /\ Known(c)' /\ Missed(c)'
    BY <1>1, <1>5, DroppedOffer
  <2> QED
    BY <1>2, <1>3, <2>1, <2>2 DEF OfferInv
<1> QED
  BY <1>4, <1>5 DEF PublishTo, Offer

LEMMA OfferInvNext ==
  ASSUME OfferInv, [Next]_vars
  PROVE  OfferInv'
<1>0. /\ ChannelInv' /\ OfferShape /\ todo \in SUBSET Conns
      /\ \A c \in todo : offered[c] < MaxMsgs
  BY InvNext DEF OfferInv, OfferShape
<1>1. CASE UNCHANGED vars \/ Time
  BY <1>0, <1>1, BuffersKept DEF Time, vars, broadcasterVars, socketVars, OfferShape
<1>2. CASE Publisher
  <2> PICK s \in Sessions : Publish(s)
    BY <1>2 DEF Publisher
  <2>1. /\ todo' = subs[s] /\ \A c \in subs[s] : offered[c] < MaxMsgs
        /\ UNCHANGED <<buf, taken, offered, rpc, open, seen>>
    BY <1>2 DEF Publisher, Publish, Recipients, socketVars
  <2>2. subs[s] \in SUBSET Conns
    BY DEF OfferInv, ChannelInv, Shape
  <2> QED
    BY <1>0, <2>1, <2>2, BuffersKept DEF OfferShape
<1>3. CASE PublishOn
  <2>1. UNCHANGED <<taken, rpc, open>>
    BY <1>3 DEF PublishOn
  <2>2. CASE EndPublish /\ UNCHANGED seen
    <3>1. UNCHANGED <<buf, offered, todo>>
      BY <2>2 DEF EndPublish
    <3> QED
      BY <1>0, <2>1, <2>2, <3>1, BuffersKept DEF OfferShape
  <2>3. ASSUME NEW c \in Conns, PublishTo(c),
               seen' = [seen EXCEPT ![c] = Append(@, Len(taken[c]))]
        PROVE  OfferInv'
    BY <1>0, <2>1, <2>3, OfferKeepsOffers
  <2> QED
    BY <1>3, <2>2, <2>3 DEF PublishOn
<1>4. ASSUME NEW c \in Conns, Handler(c) \/ ReaderEnds(c) \/ Leave(c), ~TakeMessage(c)
      PROVE  OfferInv'
  <2>1. UNCHANGED <<buf, taken, offered, todo, seen>>
    BY <1>4 DEF Handler, Allow, Refuse, Upgrade, SubscribeConn, Subscribe, WriteMessage,
          SeeDisconnect, CancelConn, Cancel, Unregister, CloseConn, ReaderEnds, Leave,
          broadcasterVars, socketVars
  <2>2. rpc' \in [Conns -> {"none", "reading", "ended"}] /\ open' \in SUBSET Conns
    BY <1>0, <1>4 DEF OfferShape, Handler, Allow, Refuse, Upgrade, SubscribeConn,
          WriteMessage, SeeDisconnect, CancelConn, CloseConn, ReaderEnds, Leave, socketVars
  <2> QED
    BY <1>0, <2>1, <2>2, BuffersKept
<1>5. ASSUME NEW c \in Conns, TakeMessage(c) PROVE OfferInv'
  BY <1>0, <1>5, TakeKeepsOffers
<1> QED
  BY <1>1, <1>2, <1>3, <1>4, <1>5 DEF Next

LEMMA OfferInvariance == Spec => []OfferInv
  BY OfferInvInit, OfferInvNext, PTL DEF Spec

(* Every variable of the web channel keeps its type; no channel holds more *)
(* than its capacity, and no counter more than there are requests.         *)
THEOREM WebTypesAreKept == Spec => []WebTypeOK
<1>1. LimiterInv /\ OfferInv => WebTypeOK
  BY LimiterInvImplies DEF OfferInv, ChannelInv, Shape, OfferShape, WebTypeOK,
     BroadcasterTypeOK
<1> QED
  BY <1>1, LimiterInvariance, OfferInvariance, PTL

(* However publishers, handlers and clients interleave, a subscriber gets  *)
(* messages in order and once, and misses one only behind a full channel.  *)
THEOREM NothingElseIsMissed == Spec => []MissesOnlyWhenFull
  BY OfferInvariance, OfferInvImplies, PTL
=============================================================================
