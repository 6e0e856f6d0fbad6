---------------------------- MODULE TokenBucket ----------------------------
(***************************************************************************)
(* What a limiter promises its callers ("token bucket rate limiter",       *)
(* src/backend/room/ratelimit.go): every key has a bucket that starts      *)
(* full, gains one unit per tick up to Capacity tokens of Rate units each, *)
(* and pays one token for every call it grants.                            *)
(***************************************************************************)
EXTENDS Integers

CONSTANTS Keys, Rate, Capacity

VARIABLES level, answer

bucketVars == <<level, answer>>

Full == Capacity * Rate

Init ==
    /\ level = [k \in Keys |-> Full]
    /\ answer = "none"

Grant(k) ==
    /\ level[k] >= Rate
    /\ level' = [level EXCEPT ![k] = @ - Rate]
    /\ answer' = <<k, TRUE>>

Refuse(k) ==
    /\ level[k] < Rate
    /\ answer' = <<k, FALSE>>
    /\ UNCHANGED level

Pass ==
    /\ level' = [k \in Keys |-> IF level[k] < Full THEN level[k] + 1 ELSE level[k]]
    /\ UNCHANGED answer

Next == Pass \/ \E k \in Keys : Grant(k) \/ Refuse(k)

Spec == Init /\ [][Next]_bucketVars
=============================================================================
