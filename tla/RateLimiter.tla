---------------------------- MODULE RateLimiter ----------------------------
(***************************************************************************)
(* The Redis rate limiter of pkg/middleware/ratelimit.go: one counter per  *)
(* tenant and minute.  A request reads the clock, increments the counter   *)
(* of that minute, and when it is the first sets the counter's expiry: two *)
(* commands that may each fail, and between which anything may happen.     *)
(*                                                                         *)
(* One tenant: tenants have counters of their own.  Seconds are left out:  *)
(* a counter whose expiry was set in minute m goes at some time in minute  *)
(* m + 1, or later.                                                        *)
(***************************************************************************)
EXTENDS Integers, FiniteSets

CONSTANTS
    Requests,       \* requests to a rate-limited route
    Limit,          \* requests per minute
    MaxMinute,      \* bound of the clock, for TLC
    Never           \* a counter that does not expire

Minute == 0 .. MaxMinute

VARIABLES
    minute,         \* the wall clock
    counter,        \* counter[k]: the counter of minute k, 0 when absent
    deadline,       \* deadline[k]: the minute in which counter k expires
    window,         \* window[r]: the minute request r read
    lpc,            \* lpc[r]: where request r is in Allow
    late,           \* history: requests that were counted after their minute
    gone,           \* history: gone[k]: how often counter k expired
    life            \* history: life[r]: gone[window[r]] when r was counted

historyVars == <<late, gone, life>>
limiterVars == <<minute, counter, deadline, window, lpc, historyVars>>

LimiterTypeOK ==
    /\ minute \in Minute
    /\ counter \in [Minute -> 0 .. Cardinality(Requests)]
    /\ deadline \in [Minute -> 1 .. MaxMinute + 1 \cup {Never}]
    /\ window \in [Requests -> Minute]
    /\ lpc \in [Requests -> {"idle", "incr", "expire", "allowed", "over", "error"}]
    /\ late \in SUBSET Requests
    /\ gone \in [Minute -> Nat]
    /\ life \in [Requests -> Nat]

LimiterInit ==
    /\ minute = 0
    /\ counter = [k \in Minute |-> 0]
    /\ deadline = [k \in Minute |-> Never]
    /\ window = [r \in Requests |-> 0]
    /\ lpc = [r \in Requests |-> "idle"]
    /\ late = {}
    /\ gone = [k \in Minute |-> 0]
    /\ life = [r \in Requests |-> 0]

-----------------------------------------------------------------------------
(* The clock, and Redis removing a counter that has expired.               *)
Tick ==
    /\ minute < MaxMinute
    /\ minute' = minute + 1
    /\ UNCHANGED <<counter, deadline, window, lpc, historyVars>>

Drop(k) ==
    /\ deadline[k] # Never
    /\ minute >= deadline[k]
    /\ counter' = [counter EXCEPT ![k] = 0]
    /\ deadline' = [deadline EXCEPT ![k] = Never]
    /\ gone' = [gone EXCEPT ![k] = @ + 1]
    /\ UNCHANGED <<minute, window, lpc, late, life>>

-----------------------------------------------------------------------------
(* Allow. *)
ReadClock(r) ==
    /\ lpc[r] = "idle"
    /\ window' = [window EXCEPT ![r] = minute]
    /\ lpc' = [lpc EXCEPT ![r] = "incr"]
    /\ UNCHANGED <<minute, counter, deadline, historyVars>>

(* The answer to a request that was the n-th of its minute.                *)
Verdict(n) == IF n <= Limit THEN "allowed" ELSE "over"

Incr(r) ==
    LET k == window[r]
        n == counter[k] + 1
    IN  /\ lpc[r] = "incr"
        /\ counter' = [counter EXCEPT ![k] = n]
        /\ lpc' = [lpc EXCEPT ![r] = IF n = 1 THEN "expire" ELSE Verdict(n)]
        /\ late' = IF minute > k THEN late \cup {r} ELSE late
        /\ life' = [life EXCEPT ![r] = gone[k]]
        /\ UNCHANGED <<minute, deadline, window, gone>>

(* Mutant of Expiry: the counter goes within a second.                     *)
ExpiryAtOnce == minute

(* A minute from now. *)
Expiry == minute + 1

(* The first of its minute sets the expiry.  The counter may be gone by    *)
(* then, when another request made and another expiry removed it: then     *)
(* EXPIRE does nothing.                                                    *)
Expire(r) ==
    LET k == window[r] IN
    /\ lpc[r] = "expire"
    /\ deadline' = IF counter[k] = 0 THEN deadline
                                     ELSE [deadline EXCEPT ![k] = Expiry]
    /\ lpc' = [lpc EXCEPT ![r] = Verdict(1)]
    /\ UNCHANGED <<minute, counter, window, historyVars>>

(* A command returned an error: before it took effect, or after.           *)
LimiterFails(r) ==
    LET k == window[r] IN
    /\ lpc[r] \in {"incr", "expire"}
    /\ lpc' = [lpc EXCEPT ![r] = "error"]
    /\ UNCHANGED <<minute, deadline, window, gone, life>>
    /\ \/ UNCHANGED <<counter, late>>
       \/ /\ lpc[r] = "incr"
          /\ counter' = [counter EXCEPT ![k] = @ + 1]
          /\ late' = IF minute > k THEN late \cup {r} ELSE late

-----------------------------------------------------------------------------
(* Who was let in under the key of minute k, counted after the counter had *)
(* expired l times.                                                        *)
Admitted(k, l) ==
    { r \in Requests : lpc[r] = "allowed" /\ window[r] = k /\ life[r] = l }

(* As long as a minute lasts its counter does, and lets at most Limit in:  *)
(* whoever is let in beside them read the clock in that minute and was     *)
(* counted after it, when the counter had expired.  Each time it does, no  *)
(* more than Limit such late requests are let in.                          *)
AdmittedWithinLimit ==
    \A k \in Minute : \A l \in 0 .. gone[k] :
        /\ Cardinality(Admitted(k, l)) <= Limit
        /\ l > 0 => Admitted(k, l) \subseteq late
=============================================================================
