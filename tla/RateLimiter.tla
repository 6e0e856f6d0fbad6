---------------------------- MODULE RateLimiter ----------------------------
(***************************************************************************)
(* RateLimiter in src/backend/room/ratelimit.go: buckets are created by    *)
(* the first call with a key, refilled lazily from the time of the last    *)
(* call, and removed by a goroutine that sweeps the map on a ticker.  Both *)
(* work under rl.mu and read the clock under it.                           *)
(*                                                                         *)
(* One token is Rate units and one unit flows in per tick of the clock, so *)
(* the fractions the code keeps in a float64 are exact here.               *)
(***************************************************************************)
EXTENDS Integers

CONSTANTS
    Keys,
    Rate,      \* rl.rate, in ticks
    Capacity,  \* rl.capacity
    MaxAge,    \* buckets last used longer ago are swept (10 minutes)
    Period,    \* of the sweeper's ticker (5 minutes)
    MaxTime    \* bound: the clock

ASSUME RateAssumption     == Rate \in Nat /\ Rate > 0
ASSUME CapacityAssumption == Capacity \in Nat /\ Capacity > 0
ASSUME SweepAssumption    == MaxAge \in Nat /\ Period \in Nat /\ Period > 0
ASSUME BoundAssumption    == MaxTime \in Nat

VARIABLES
    now,
    known,             \* keys of rl.buckets
    tokens, lastCheck, \* of the known keys' buckets; tokens in units
    due,               \* when the sweeper's ticker fires next
    answer,            \* what Allow returned last, and for which key
    mark,              \* history: when a window of observation began, or -1
    spent              \* history: units paid per key since then

vars == <<now, known, tokens, lastCheck, due, answer, mark, spent>>

Full == Capacity * Rate
Capped(units) == IF units > Full THEN Full ELSE units
Refilled(k) == Capped(tokens[k] + (now - lastCheck[k]))

-----------------------------------------------------------------------------
Init ==
    /\ now = 0
    /\ known = {}
    /\ tokens = [k \in Keys |-> 0]
    /\ lastCheck = [k \in Keys |-> 0]
    /\ due = Period
    /\ answer = "none"
    /\ mark = -1
    /\ spent = [k \in Keys |-> 0]

Use(k, have, ok) ==
    /\ tokens' = [tokens EXCEPT ![k] = IF ok THEN have - Rate ELSE have]
    /\ lastCheck' = [lastCheck EXCEPT ![k] = now]
    /\ answer' = <<k, ok>>
    /\ spent' = [spent EXCEPT ![k] = IF ok /\ mark >= 0 THEN @ + Rate ELSE @]

FirstCall(k) ==
    /\ k \notin known
    /\ known' = known \cup {k}
    /\ Use(k, Full, TRUE)
    /\ UNCHANGED <<now, due, mark>>

(* Mutant of LaterCall: a refused call starts the refill over.            *)
LaterCallForgetful(k) ==
    /\ k \in known
    /\ Use(k, IF Refilled(k) >= Rate THEN Refilled(k) ELSE 0, Refilled(k) >= Rate)
    /\ UNCHANGED <<now, known, due, mark>>

LaterCall(k) ==
    /\ k \in known
    /\ Use(k, Refilled(k), Refilled(k) >= Rate)
    /\ UNCHANGED <<now, known, due, mark>>

Allow(k) == FirstCall(k) \/ LaterCall(k)

(* Mutant of Sweep: whatever is there goes.                                *)
SweepAll ==
    /\ now >= due
    /\ known' = {}
    /\ due' = (now \div Period + 1) * Period
    /\ UNCHANGED <<now, tokens, lastCheck, answer, mark, spent>>

(* One round of cleanupLoop.  A tick that is not received in time is lost. *)
Sweep ==
    /\ now >= due
    /\ known' = {k \in known : now - lastCheck[k] <= MaxAge}
    /\ due' = (now \div Period + 1) * Period
    /\ UNCHANGED <<now, tokens, lastCheck, answer, mark, spent>>

Tick ==
    /\ now < MaxTime
    /\ now' = now + 1
    /\ UNCHANGED <<known, tokens, lastCheck, due, answer, mark, spent>>

(* The observer opens its window once, at any time.                        *)
Observe ==
    /\ mark = -1
    /\ mark' = now
    /\ UNCHANGED <<now, known, tokens, lastCheck, due, answer, spent>>

Next == (\E k \in Keys : Allow(k)) \/ Sweep \/ Tick \/ Observe

Spec == Init /\ [][Next]_vars

-----------------------------------------------------------------------------
(* Buckets hold between nothing and Full and were not used in the future.  *)
TypeOK ==
    /\ now \in Nat
    /\ known \in SUBSET Keys
    /\ tokens \in [Keys -> 0..Full]
    /\ lastCheck \in [Keys -> 0..now]
    /\ due \in Nat
    /\ mark \in -1..now
    /\ spent \in [Keys -> Nat]

(* In no window of time does a key get more than a full bucket and what    *)
(* flows in meanwhile: the burst is Capacity, the sustained rate 1/Rate.   *)
WindowBound ==
    mark >= 0 => \A k \in Keys : spent[k] <= Full + (now - mark)

(* An unknown key has a full bucket.                                       *)
Level == [k \in Keys |-> IF k \in known THEN Refilled(k) ELSE Full]

(* The lazy refill and the sweeping of the map cannot be told from buckets *)
(* that exist always and fill continuously.                                *)
Bucket == INSTANCE TokenBucket WITH level <- Level
ImplementsTokenBucket == Bucket!Spec
=============================================================================
