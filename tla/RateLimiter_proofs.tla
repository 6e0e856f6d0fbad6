------------------------- MODULE RateLimiter_proofs -------------------------
(***************************************************************************)
(* Theorems about RateLimiter, for any keys, rates, capacities and sweeps. *)
(* What a caller may rely on needs one condition: a bucket is swept only   *)
(* when it would have been full again, MaxAge >= Full.  The limiters of    *)
(* the program with Capacity * rate <= 10 minutes meet it.                 *)
(***************************************************************************)
EXTENDS RateLimiter, TLAPS

LEMMA FullType == Full \in Nat /\ Full >= Rate /\ Rate \in Nat /\ Rate > 0
<1>1. \A c, r \in Nat : c > 0 => c * r \in Nat /\ c * r >= r
  OBVIOUS
<1> QED BY <1>1, RateAssumption, CapacityAssumption DEF Full

LEMMA RefilledType ==
    ASSUME TypeOK, NEW k \in Keys
    PROVE  Refilled(k) \in 0..Full
<1>1. tokens[k] \in 0..Full /\ lastCheck[k] \in 0..now /\ now \in Nat
  BY DEF TypeOK
<1>2. tokens[k] + (now - lastCheck[k]) \in Nat
  BY <1>1, FullType
<1> QED BY <1>2, FullType DEF Refilled, Capped

(* What a call does to the type of the bucket it uses.                     *)
LEMMA UseTyped ==
    ASSUME TypeOK, NEW k \in Keys, NEW have \in 0..Full, NEW ok \in BOOLEAN,
           ok => have >= Rate, Use(k, have, ok), UNCHANGED <<now, due, mark>>,
           known' \in SUBSET Keys
    PROVE  TypeOK'
<1>1. (IF ok THEN have - Rate ELSE have) \in 0..Full
  BY FullType
<1>2. tokens' \in [Keys -> 0..Full]
  BY <1>1 DEF Use, TypeOK
<1>3. lastCheck' \in [Keys -> 0..now]
  BY DEF Use, TypeOK
<1>4. spent' \in [Keys -> Nat]
  <2>1. spent' \in {spent, [spent EXCEPT ![k] = spent[k] + Rate]}
    BY DEF Use, TypeOK
  <2>2. spent[k] + Rate \in Nat
    BY FullType DEF TypeOK
  <2> QED BY <2>1, <2>2 DEF TypeOK
<1> QED BY <1>2, <1>3, <1>4 DEF TypeOK

LEMMA NextCases ==
    ASSUME Next
    PROVE  \/ \E k \in Keys : FirstCall(k)
           \/ \E k \in Keys : LaterCall(k)
           \/ Sweep \/ Tick \/ Observe
BY DEF Next, Allow

LEMMA TypeNext ==
    ASSUME TypeOK, [Next]_vars
    PROVE  TypeOK'
<1>1. ASSUME NEW k \in Keys, FirstCall(k)
      PROVE  TypeOK'
  <2>1. /\ Use(k, Full, TRUE) /\ UNCHANGED <<now, due, mark>>
        /\ known' \in SUBSET Keys
    BY <1>1 DEF FirstCall, TypeOK
  <2>2. Full \in 0..Full /\ Full >= Rate
    BY FullType
  <2> QED BY <2>1, <2>2, UseTyped
<1>2. ASSUME NEW k \in Keys, LaterCall(k)
      PROVE  TypeOK'
  <2>1. /\ Use(k, Refilled(k), Refilled(k) >= Rate) /\ UNCHANGED <<now, due, mark>>
        /\ known' \in SUBSET Keys
    BY <1>2 DEF LaterCall, TypeOK
  <2> DEFINE ok == Refilled(k) >= Rate
  <2>2. ok \in BOOLEAN /\ (ok => Refilled(k) >= Rate)
    OBVIOUS
  <2>3. Use(k, Refilled(k), ok)
    BY <2>1
  <2> HIDE DEF ok
  <2> QED BY <2>1, <2>2, <2>3, UseTyped, RefilledType
<1>3. CASE Sweep
  <2>1. (now \div Period + 1) * Period \in Nat
    <3>1. \A a \in Nat, p \in Nat : p > 0 => (a \div p + 1) * p \in Nat
      OBVIOUS
    <3> QED BY <3>1, SweepAssumption DEF TypeOK
  <2> QED BY <1>3, <2>1 DEF Sweep, TypeOK
<1>4. CASE Tick
  BY <1>4 DEF Tick, TypeOK
<1>5. CASE Observe
  BY <1>5 DEF Observe, TypeOK
<1>6. CASE UNCHANGED vars
  BY <1>6 DEF vars, TypeOK
<1>7. CASE Next
  BY NextCases, <1>7, <1>1, <1>2, <1>3, <1>4, <1>5, Zenon
<1> QED BY <1>6, <1>7

(* Every bucket holds between nothing and Full.                            *)
THEOREM TypeCorrect == Spec => []TypeOK
<1>1. Init => TypeOK
  BY FullType, SweepAssumption DEF Init, TypeOK
<1> QED BY <1>1, TypeNext, PTL DEF Spec

-----------------------------------------------------------------------------
(* What a key may still draw at once counts against the window (inductive).*)
Budget == mark >= 0 => \A k \in Keys : spent[k] + Level[k] <= Full + (now - mark)
Unspent == mark = -1 => \A k \in Keys : spent[k] = 0

LEMMA LevelType ==
    ASSUME TypeOK
    PROVE  Level \in [Keys -> 0..Full]
BY RefilledType, FullType DEF Level

(* The level of a bucket a call used, and of the others.                   *)
LEMMA LevelAfterUse ==
    ASSUME TypeOK, NEW k \in Keys, NEW ok \in BOOLEAN,
           Level[k] >= Rate \/ ~ok, Use(k, Level[k], ok),
           known' = known \cup {k}, now' = now
    PROVE  Level' = [Level EXCEPT ![k] = IF ok THEN Level[k] - Rate ELSE Level[k]]
<1> DEFINE left == IF ok THEN Level[k] - Rate ELSE Level[k]
<1>1. left \in 0..Full
  BY LevelType, FullType
<1>2. Level'[k] = left
  <2>1. tokens'[k] = left /\ lastCheck'[k] = now /\ k \in known'
    BY DEF Use, TypeOK
  <2>2. Level'[k] = Capped(tokens'[k] + (now' - lastCheck'[k]))
    BY <2>1 DEF Level, Refilled, Capped
  <2>3. tokens'[k] + (now' - lastCheck'[k]) = left
    BY <2>1, <1>1 DEF TypeOK
  <2> QED BY <2>2, <2>3, <1>1, FullType DEF Capped
<1>3. ASSUME NEW j \in Keys, j # k
      PROVE  Level'[j] = Level[j]
  BY <1>3 DEF Level, Refilled, Use, TypeOK
<1>4. DOMAIN Level' = Keys /\ DOMAIN Level = Keys
  BY DEF Level
<1> QED BY <1>2, <1>3, <1>4 DEF Level

(* A sweep of buckets that are full again leaves every level as it was.    *)
LEMMA LevelAfterSweep ==
    ASSUME TypeOK, MaxAge >= Full, Sweep
    PROVE  Level' = Level
<1>1. ASSUME NEW k \in known, now - lastCheck[k] > MaxAge
      PROVE  Refilled(k) = Full
  <2>1. k \in Keys
    BY DEF TypeOK
  <2>2. tokens[k] \in 0..Full /\ lastCheck[k] \in 0..now /\ now \in Nat
    BY <2>1 DEF TypeOK
  <2>3. tokens[k] + (now - lastCheck[k]) > Full
    BY <1>1, <2>2, FullType, SweepAssumption
  <2> QED BY <2>3 DEF Refilled, Capped
<1>2. ASSUME NEW k \in Keys
      PROVE  (IF k \in known' THEN Refilled(k)' ELSE Full) = (IF k \in known THEN Refilled(k) ELSE Full)
  <2>1. /\ known' = {j \in known : now - lastCheck[j] <= MaxAge}
        /\ Refilled(k)' = Refilled(k)
    BY DEF Sweep, Refilled, Capped
  <2>2. k \in known /\ k \notin known' => now - lastCheck[k] > MaxAge
    BY <2>1, SweepAssumption DEF TypeOK
  <2> QED BY <2>1, <2>2, <1>1
<1> QED BY <1>2 DEF Level

(* One tick fills every bucket that is not full by one unit.               *)
LEMMA LevelAfterTick ==
    ASSUME TypeOK, Tick
    PROVE  Level' = [k \in Keys |-> IF Level[k] < Full THEN Level[k] + 1 ELSE Level[k]]
<1>1. ASSUME NEW k \in Keys
      PROVE  Level'[k] = IF Level[k] < Full THEN Level[k] + 1 ELSE Level[k]
  <2>1. tokens[k] \in 0..Full /\ lastCheck[k] \in 0..now /\ now \in Nat
    BY DEF TypeOK
  <2>2. now' = now + 1 /\ UNCHANGED <<known, tokens, lastCheck>>
    BY DEF Tick
  <2>3. CASE k \in known
    <3> DEFINE x == tokens[k] + (now - lastCheck[k])
    <3>1. x \in Nat /\ tokens[k] + ((now + 1) - lastCheck[k]) = x + 1
      BY <2>1, FullType
    <3>2. Level[k] = Capped(x)
      BY <2>3 DEF Level, Refilled
    <3>3. Level'[k] = Capped(x + 1)
      BY <2>2, <2>3, <3>1 DEF Level, Refilled, Capped
    <3> HIDE DEF x
    <3> QED BY <3>1, <3>2, <3>3, FullType DEF Capped
  <2>4. CASE k \notin known
    BY <2>2, <2>4, FullType DEF Level
  <2> QED BY <2>3, <2>4
<1> QED BY <1>1 DEF Level

-----------------------------------------------------------------------------
(* The steps of the limiter, as they appear on the levels.                 *)
LEMMA CallSteps ==
    ASSUME TypeOK, NEW k \in Keys, Allow(k)
    PROVE  \E ok \in BOOLEAN :
              /\ ok <=> Level[k] >= Rate
              /\ Use(k, Level[k], ok)
              /\ known' = known \cup {k} /\ now' = now /\ mark' = mark
<1>1. CASE FirstCall(k)
  <2>1. Level[k] = Full
    BY <1>1 DEF FirstCall, Level
  <2>2. TRUE <=> Level[k] >= Rate
    BY <2>1, FullType
  <2>3. Use(k, Level[k], TRUE) /\ known' = known \cup {k} /\ now' = now /\ mark' = mark
    BY <1>1, <2>1 DEF FirstCall
  <2> QED BY <2>2, <2>3
<1>2. CASE LaterCall(k)
  <2>1. Level[k] = Refilled(k)
    BY <1>2 DEF LaterCall, Level
  <2> DEFINE ok == Level[k] >= Rate
  <2>2. ok \in BOOLEAN
    OBVIOUS
  <2>3. Use(k, Level[k], ok) /\ known' = known \cup {k} /\ now' = now /\ mark' = mark
    BY <1>2, <2>1 DEF LaterCall
  <2> QED BY <2>2, <2>3
<1> QED BY <1>1, <1>2 DEF Allow

LEMMA BudgetNext ==
    ASSUME TypeOK, MaxAge >= Full, Budget, Unspent, [Next]_vars
    PROVE  Budget' /\ Unspent'
<1> DEFINE Goal == Budget' /\ Unspent'
<1> SUFFICES Goal
  OBVIOUS
<1>0. /\ Level \in [Keys -> 0..Full] /\ Full \in Nat /\ Rate \in Nat
      /\ now \in Nat /\ mark \in -1..now /\ spent \in [Keys -> Nat]
  BY LevelType, FullType DEF TypeOK
<1>1. ASSUME NEW k \in Keys, Allow(k)
      PROVE  Goal
  <2>1. PICK ok \in BOOLEAN : /\ ok <=> Level[k] >= Rate
                             /\ Use(k, Level[k], ok)
                             /\ known' = known \cup {k} /\ now' = now /\ mark' = mark
    BY <1>1, CallSteps
  <2>2. Level' = [Level EXCEPT ![k] = IF ok THEN Level[k] - Rate ELSE Level[k]]
    BY <2>1, LevelAfterUse
  <2>3. spent' = [spent EXCEPT ![k] = IF ok /\ mark >= 0 THEN spent[k] + Rate ELSE spent[k]]
    BY <2>1 DEF Use
  <2>4. ASSUME NEW j \in Keys, mark >= 0
        PROVE  spent'[j] + Level'[j] = spent[j] + Level[j]
    <3>1. CASE j # k
      BY <3>1, <2>2, <2>3, <1>0
    <3>2. CASE j = k /\ ok
      <4>1. spent'[k] = spent[k] + Rate /\ Level'[k] = Level[k] - Rate
        BY <3>2, <2>2, <2>3, <2>4, <1>0
      <4>2. spent[k] \in Int /\ Level[k] \in Int
        BY <1>0
      <4> QED BY <3>2, <4>1, <4>2, <1>0
    <3>3. CASE j = k /\ ~ok
      BY <3>3, <2>2, <2>3, <1>0
    <3> QED BY <3>1, <3>2, <3>3
  <2>5. Budget'
    BY <2>1, <2>4 DEF Budget
  <2>6. Unspent'
    BY <2>1, <2>3, <1>0 DEF Unspent
  <2> QED BY <2>5, <2>6
<1>2. CASE Sweep
  <2>1. Level' = Level /\ UNCHANGED <<now, mark, spent>>
    BY <1>2, LevelAfterSweep DEF Sweep
  <2> QED BY <2>1 DEF Budget, Unspent
<1>3. CASE Tick
  <2>1. now' = now + 1 /\ UNCHANGED <<mark, spent>>
    BY <1>3 DEF Tick
  <2>2. ASSUME NEW k \in Keys
        PROVE  Level'[k] <= Level[k] + 1 /\ Level'[k] \in Int /\ Level[k] \in Int
    BY <1>3, <1>0, LevelAfterTick
  <2>3. ASSUME NEW k \in Keys, mark >= 0
        PROVE  spent[k] + Level'[k] <= Full + ((now + 1) - mark)
    <3>1. spent[k] + Level[k] <= Full + (now - mark)
      BY <2>3 DEF Budget
    <3>2. spent[k] \in Int
      BY <1>0
    <3> QED BY <3>1, <3>2, <2>2, <1>0
  <2> QED BY <2>1, <2>3 DEF Budget, Unspent
<1>4. CASE Observe
  <2>1. mark = -1 /\ mark' = now /\ UNCHANGED <<now, spent, Level>>
    BY <1>4 DEF Observe, Level, Refilled, Capped
  <2>2. ASSUME NEW k \in Keys
        PROVE  spent[k] + Level[k] <= Full + (now - now)
    <3>1. spent[k] = 0
      BY <2>1 DEF Unspent
    <3> QED BY <3>1, <1>0
  <2> QED BY <2>1, <2>2, <1>0 DEF Budget, Unspent
<1>5. CASE UNCHANGED vars
  BY <1>5 DEF vars, Budget, Unspent, Level, Refilled, Capped
<1>6. CASE Next
  BY <1>6, <1>1, <1>2, <1>3, <1>4 DEF Next
<1> QED BY <1>5, <1>6

(* No key ever gets more than a burst and the rate, in any window.         *)
THEOREM WindowsAreBounded ==
    ASSUME MaxAge >= Full
    PROVE  Spec => []WindowBound
<1>1. Init => Budget /\ Unspent
  BY DEF Init, Budget, Unspent
<1>2. TypeOK /\ Budget => WindowBound
  <2> SUFFICES ASSUME TypeOK, Budget, mark >= 0, NEW k \in Keys
               PROVE  spent[k] <= Full + (now - mark)
    BY DEF WindowBound
  <2>1. spent[k] + Level[k] <= Full + (now - mark)
    BY DEF Budget
  <2>2. Level[k] \in Nat /\ spent[k] \in Nat /\ now \in Int /\ mark \in Int /\ Full \in Int
    BY LevelType, FullType DEF TypeOK
  <2> QED BY <2>1, <2>2
<1>3. TypeOK /\ Budget /\ Unspent /\ [Next]_vars => Budget' /\ Unspent'
  BY BudgetNext
<1> QED BY <1>1, <1>2, <1>3, TypeCorrect, PTL DEF Spec

-----------------------------------------------------------------------------
LEMMA StepImplements ==
    ASSUME TypeOK, MaxAge >= Full, [Next]_vars
    PROVE  [Bucket!Next]_(Bucket!bucketVars)
<1>0. Bucket!Full = Full
  BY DEF Bucket!Full, Full
<1>1. ASSUME NEW k \in Keys, Allow(k)
      PROVE  Bucket!Grant(k) \/ Bucket!Refuse(k)
  <2>1. PICK ok \in BOOLEAN : /\ ok <=> Level[k] >= Rate
                             /\ Use(k, Level[k], ok)
                             /\ known' = known \cup {k} /\ now' = now
    BY <1>1, CallSteps
  <2>2. Level' = [Level EXCEPT ![k] = IF ok THEN Level[k] - Rate ELSE Level[k]]
    BY <2>1, LevelAfterUse
  <2>3. answer' = <<k, ok>>
    BY <2>1 DEF Use
  <2>4. Level[k] \in Int /\ Rate \in Int
    BY LevelType, FullType
  <2>5. CASE ok
    <3>1. Level' = [Level EXCEPT ![k] = Level[k] - Rate] /\ answer' = <<k, TRUE>>
      BY <2>2, <2>3, <2>5
    <3> QED BY <2>1, <2>5, <3>1 DEF Bucket!Grant
  <2>6. CASE ~ok
    <3>1. Level' = Level
      BY <2>2, <2>6, LevelType
    <3>2. answer' = <<k, FALSE>>
      BY <2>3, <2>6
    <3>3. ~(Level[k] >= Rate)
      BY <2>1, <2>6
    <3>4. Level[k] < Rate
      BY <3>3, <2>4
    <3> QED BY <3>1, <3>2, <3>4 DEF Bucket!Refuse
  <2> QED BY <2>5, <2>6
<1>2. CASE Sweep
  BY <1>2, LevelAfterSweep DEF Sweep, Bucket!bucketVars
<1>3. CASE Tick
  <2>1. answer' = answer
    BY <1>3 DEF Tick
  <2> QED BY <2>1, <1>0, <1>3, LevelAfterTick DEF Bucket!Next, Bucket!Pass
<1>4. CASE Observe \/ UNCHANGED vars
  BY <1>4 DEF Observe, vars, Level, Refilled, Capped, Bucket!bucketVars
<1>5. CASE Next
  BY <1>5, <1>1, <1>2, <1>3, <1>4 DEF Next, Bucket!Next
<1> QED BY <1>4, <1>5

(* The limiter implements the ideal token bucket.                          *)
THEOREM LimiterIsTokenBucket ==
    ASSUME MaxAge >= Full
    PROVE  Spec => ImplementsTokenBucket
<1>1. Init => Bucket!Init
  BY DEF Init, Bucket!Init, Level, Bucket!Full, Full
<1>2. TypeOK /\ [Next]_vars => [Bucket!Next]_(Bucket!bucketVars)
  BY StepImplements
<1> QED BY <1>1, <1>2, TypeCorrect, PTL DEF Spec, ImplementsTokenBucket, Bucket!Spec
=============================================================================
