-------------------------- MODULE RateLimiterProofs -------------------------
(***************************************************************************)
(* Proofs about RateLimiter, for every set of keys, capacity, window,      *)
(* grain and rounding error.                                               *)
(***************************************************************************)
EXTENDS RateLimiter, TLAPS

(***************************************************************************)
(* Products of a duration and the rate, the arithmetic of everything here. *)
(***************************************************************************)
LEMMA TimesMonotone ==
  ASSUME NEW a \in Nat, NEW b \in Nat, NEW c \in Nat, a <= b
  PROVE  a * c <= b * c
  OBVIOUS

LEMMA TimesNext ==
  ASSUME NEW a \in Nat, NEW c \in Nat
  PROVE  (a + 1) * c = a * c + c /\ a * c \in Nat /\ 0 * c = 0
  OBVIOUS

LEMMA Units ==
  /\ Token \in Nat \ {0} /\ Rate \in Nat \ {0} /\ Full \in Nat /\ Rounding \in Nat
  /\ Token <= Full /\ Rate <= Full /\ WindowMs * Rate = Full
  /\ 2 * Rounding <= Rate
<1>1. /\ Capacity \in Nat \ {0} /\ WindowMs \in Nat \ {0} /\ Grain \in Nat \ {0}
      /\ Rounding \in Nat /\ 2 * Rounding <= Capacity * Grain
  BY LimiterAssumption
<1>2. Token \in Nat \ {0} /\ Rate \in Nat \ {0}
  BY <1>1 DEF Token, Rate
<1>3. WindowMs * Rate = Full
  BY <1>1 DEF Token, Rate, Full
<1>4. Full \in Nat /\ Token <= Full
  <2>1. 1 * Token <= Capacity * Token
    BY <1>1, <1>2, TimesMonotone
  <2> QED
    BY <1>1, <1>2, <2>1 DEF Full
<1>5. Rate <= Full
  <2>1. 1 * Rate <= WindowMs * Rate
    BY <1>1, <1>2, TimesMonotone
  <2> QED
    BY <1>2, <1>3, <2>1
<1> QED
  BY <1>1, <1>2, <1>3, <1>4, <1>5 DEF Rate

LEMMA DivRoundsUp ==
  ASSUME NEW a \in Nat, NEW c \in Nat \ {0}, NEW d \in Nat
  PROVE  /\ (a + c - 1) \div c \in Nat
         /\ d >= (a + c - 1) \div c <=> d * c >= a
  OBVIOUS

-----------------------------------------------------------------------------
(***************************************************************************)
(* The exact value of a bucket, which only grows with time, and full when  *)
(* the bucket is stale: sweeping it is not seen.                           *)
(***************************************************************************)
LEMMA ExactBounds ==
  ASSUME TypeOK, NEW k \in Keys
  PROVE  /\ Exact(bucket[k]) \in Nat /\ bucket[k].tokens <= Exact(bucket[k])
         /\ clock = bucket[k].lastRefillMs => Exact(bucket[k]) = bucket[k].tokens
         /\ clock # bucket[k].lastRefillMs => Exact(bucket[k]) >= Rate
         /\ Stale(k) => Exact(bucket[k]) >= Full
         /\ Level(k) \in 0 .. Full
<1> DEFINE b == bucket[k]
           d == clock - b.lastRefillMs
<1>1. b.tokens \in 0 .. Full /\ b.lastRefillMs \in Nat /\ d \in Nat /\ clock \in Nat
  BY DEF TypeOK, BucketState
<1>2. Rate \in Nat /\ Full \in Nat /\ WindowMs * Rate = Full /\ WindowMs \in Nat
  BY Units, LimiterAssumption
<1>3. d * Rate \in Nat /\ Exact(b) = b.tokens + d * Rate
  BY <1>1, <1>2, TimesNext DEF Exact
<1>4. ASSUME Stale(k) PROVE Exact(b) >= Full
  <2>1. WindowMs <= d
    BY <1>1, <1>2, <1>4 DEF Stale
  <2>2. WindowMs * Rate <= d * Rate
    BY <1>1, <1>2, <2>1, TimesMonotone
  <2> QED
    BY <1>1, <1>2, <1>3, <2>2
<1>5. ASSUME clock = b.lastRefillMs PROVE Exact(b) = b.tokens
  <2>1. d = 0
    BY <1>1, <1>5
  <2>2. 0 * Rate = 0
    BY <1>2, TimesNext
  <2> QED
    BY <1>1, <1>3, <2>1, <2>2
<1>6. ASSUME clock # b.lastRefillMs PROVE Exact(b) >= Rate
  <2>1. 1 <= d
    BY <1>1, <1>6
  <2>2. 1 * Rate <= d * Rate
    BY <1>1, <1>2, <2>1, TimesMonotone
  <2> QED
    BY <1>1, <1>2, <1>3, <2>2
<1>7. Level(k) \in 0 .. Full
  BY <1>1, <1>2, <1>3 DEF Level, Upto
<1> QED
  BY <1>1, <1>3, <1>4, <1>5, <1>6, <1>7

(***************************************************************************)
(* What check finds in a bucket is its level, but for one rounding error.  *)
(***************************************************************************)
LEMMA RefilledIsNear ==
  ASSUME TypeOK, NEW k \in Keys, NEW r \in Refilled(k)
  PROVE  /\ r \in 0 .. Full
         /\ Level(k) - Rounding <= r /\ r <= Level(k) + Rounding
<1>1. Rate \in Nat /\ Full \in Nat /\ Rounding \in Nat /\ Rounding <= Rate
  BY Units
<1>2. CASE k \notin Kept
  <2>1. r = Full
    BY <1>2 DEF Refilled
  <2>2. Level(k) = Full
    BY <1>1, <1>2, ExactBounds DEF Kept, Level, Upto
  <2> QED
    BY <1>1, <2>1, <2>2
<1>3. CASE k \in Kept
  <2> DEFINE b == bucket[k]
             x == Exact(b)
  <2>1. r \in Refill(b) /\ Level(k) = Upto(Full, x)
    BY <1>3 DEF Refilled, Kept, Level
  <2>2. /\ x \in Nat /\ b.tokens \in 0 .. Full
        /\ clock = b.lastRefillMs => x = b.tokens
        /\ clock # b.lastRefillMs => x >= Rate
    BY ExactBounds DEF TypeOK, BucketState
  <2>3. CASE clock = b.lastRefillMs
    BY <1>1, <2>1, <2>2, <2>3 DEF Refill, Upto
  <2>4. CASE clock # b.lastRefillMs
    <3>1. PICK y \in Rounded(x) : r = Upto(Full, y)
      BY <2>1, <2>4 DEF Refill
    <3>2. y \in Int /\ x - Rounding <= y /\ y <= x + Rounding
      BY <1>1, <2>2, <3>1 DEF Rounded
    <3> HIDE DEF x
    <3> QED
      BY <1>1, <2>1, <2>2, <2>4, <3>1, <3>2 DEF Upto
  <2> QED
    BY <2>3, <2>4
<1> QED
  BY <1>2, <1>3

(***************************************************************************)
(* A millisecond raises every level by what flows in.                      *)
(***************************************************************************)
LEMMA PassRaises ==
  ASSUME TypeOK, Pass, NEW k \in Keys
  PROVE  Level(k)' = Upto(Full, Level(k) + Rate)
<1> DEFINE b == bucket[k]
           d == clock - b.lastRefillMs
<1>1. b.tokens \in 0 .. Full /\ b.lastRefillMs \in Nat /\ d \in Nat /\ clock \in Nat
  BY DEF TypeOK, BucketState
<1>2. Rate \in Nat /\ Full \in Nat
  BY Units
<1>3. (d + 1) * Rate = d * Rate + Rate /\ d * Rate \in Nat
  BY <1>1, <1>2, TimesNext
<1>4. clock' - b.lastRefillMs = d + 1 /\ bucket' = bucket /\ known' = known
  BY <1>1 DEF Pass
<1>5. CASE k \in known
  <2>1. Level(k) = Upto(Full, b.tokens + d * Rate)
    BY <1>5 DEF Level, Exact
  <2>2. Level(k)' = Upto(Full, b.tokens + (d + 1) * Rate)
    BY <1>4, <1>5 DEF Level, Exact
  <2> QED
    BY <1>1, <1>2, <1>3, <2>1, <2>2 DEF Upto
<1>6. CASE k \notin known
  BY <1>2, <1>4, <1>6 DEF Level, Upto
<1> QED
  BY <1>5, <1>6

(***************************************************************************)
(* A check leaves its key what it stores, and no other key is touched.     *)
(***************************************************************************)
LEMMA StoreLeaves ==
  ASSUME TypeOK, NEW k \in Keys, NEW left \in 0 .. Full, Store(k, left), NEW j \in Keys
  PROVE  Level(j)' = IF j = k THEN left ELSE Level(j)
<1>1. Rate \in Nat /\ Full \in Nat /\ clock \in Nat /\ clock' = clock
  BY Units DEF TypeOK, Store
<1>2. CASE j = k
  <2>1. bucket'[k] = [tokens |-> left, lastRefillMs |-> clock] /\ k \in known'
    BY DEF Store
  <2>2. Level(k)' = Upto(Full, left + (clock - clock) * Rate)
    BY <1>1, <2>1 DEF Level, Exact
  <2>3. (clock - clock) * Rate = 0
    BY <1>1, TimesNext
  <2> QED
    BY <1>1, <1>2, <2>2, <2>3 DEF Upto
<1>3. CASE j # k /\ j \in Kept
  <2>1. bucket'[j] = bucket[j] /\ j \in known' /\ j \in known
    BY <1>3 DEF Store, Kept
  <2> QED
    BY <1>1, <1>3, <2>1 DEF Level, Exact
<1>4. CASE j # k /\ j \notin Kept
  <2>1. j \notin known'
    BY <1>4 DEF Store
  <2>2. Level(j) = Full
    BY <1>1, <1>4, ExactBounds DEF Level, Kept, Upto
  <2> QED
    BY <1>4, <2>1, <2>2 DEF Level
<1> QED
  BY <1>2, <1>3, <1>4

-----------------------------------------------------------------------------
(***************************************************************************)
(* Types.                                                                  *)
(***************************************************************************)
LEMMA TypeInit == Init => TypeOK
  BY Units, LimiterAssumption DEF Init, TypeOK, BucketState, NoBucket

LEMMA RetryAfterType ==
  ASSUME NEW a \in Nat, a < Token, NEW w \in RetryAfter(a)
  PROVE  w \in Nat
<1>1. PICK x \in {y \in Rounded(Token - a) : y > 0} : w = (x + Rate - 1) \div Rate
  BY DEF RetryAfter
<1>2. x \in Nat
  BY <1>1, Units DEF Rounded
<1> QED
  BY <1>1, <1>2, Units, DivRoundsUp

\* What a check stores is typed.
LEMMA StoreTypes ==
  ASSUME TypeOK, NEW k \in Keys, NEW left \in 0 .. Full, Store(k, left)
  PROVE  /\ known' \subseteq Keys /\ bucket' \in [Keys -> BucketState]
         /\ nextSweepMs' \in Nat /\ clock' \in Nat
         /\ \A j \in Keys : bucket'[j].lastRefillMs <= clock'
<1>1. WindowMs \in Nat /\ Full \in Nat
  BY Units, LimiterAssumption
<1>2. clock \in Nat /\ nextSweepMs' \in Nat /\ clock' = clock
  BY <1>1 DEF Store, NextSweep, TypeOK
<1>3. bucket' = [i \in Keys |-> IF i = k THEN [tokens |-> left, lastRefillMs |-> clock]
                                ELSE IF i \in Kept THEN bucket[i] ELSE NoBucket]
  BY DEF Store
<1>4. \A i \in Keys : bucket'[i] \in BucketState /\ bucket'[i].lastRefillMs <= clock
  BY <1>1, <1>2, <1>3 DEF TypeOK, BucketState, NoBucket
<1>5. bucket' \in [Keys -> BucketState]
  BY <1>3, <1>4
<1>6. known' \subseteq Keys
  BY DEF Store, Kept, TypeOK
<1> QED
  BY <1>2, <1>4, <1>5, <1>6

LEMMA TypeStep == TypeOK /\ [Next]_vars => TypeOK'
<1> SUFFICES ASSUME TypeOK, [Next]_vars PROVE TypeOK'
  OBVIOUS
<1>0. /\ Token \in Nat \ {0} /\ Full \in Nat /\ Capacity \in Nat
      /\ Full = Capacity * Token /\ clock \in Nat /\ readyAt \in [Keys -> Nat]
  BY Units, LimiterAssumption DEF TypeOK, Full
<1>1. CASE Pass
  BY <1>1 DEF Pass, TypeOK, BucketState
<1>2. ASSUME NEW k \in Keys, Allow(k) PROVE TypeOK'
  <2>1. PICK r \in Refilled(k) :
          /\ r >= Token /\ Store(k, r - Token)
          /\ answer' = [key |-> k, allowed |-> TRUE, remaining |-> (r - Token) \div Token]
          /\ readyAt' = [readyAt EXCEPT ![k] = 0]
    BY <1>2 DEF Allow
  <2>2. r \in 0 .. Full
    BY RefilledIsNear
  <2>3. r - Token \in 0 .. Full /\ (r - Token) \div Token \in 0 .. Capacity
    BY <1>0, <2>1, <2>2
  <2>4. /\ known' \subseteq Keys /\ bucket' \in [Keys -> BucketState]
        /\ nextSweepMs' \in Nat /\ clock' \in Nat
        /\ \A j \in Keys : bucket'[j].lastRefillMs <= clock'
    BY <2>1, <2>3, StoreTypes
  <2> QED
    BY <1>0, <2>1, <2>3, <2>4 DEF TypeOK
<1>3. ASSUME NEW k \in Keys, Refuse(k) PROVE TypeOK'
  <2>1. PICK r \in Refilled(k) :
          /\ r < Token /\ Store(k, r)
          /\ answer' = [key |-> k, allowed |-> FALSE, remaining |-> 0]
          /\ \E w \in RetryAfter(r) : readyAt' = [readyAt EXCEPT ![k] = clock + w]
    BY <1>3 DEF Refuse
  <2>2. r \in 0 .. Full
    BY RefilledIsNear
  <2>3. PICK w \in RetryAfter(r) : readyAt' = [readyAt EXCEPT ![k] = clock + w]
    BY <2>1
  <2>4. w \in Nat
    BY <2>1, <2>2, RetryAfterType
  <2>5. /\ known' \subseteq Keys /\ bucket' \in [Keys -> BucketState]
        /\ nextSweepMs' \in Nat /\ clock' \in Nat
        /\ \A j \in Keys : bucket'[j].lastRefillMs <= clock'
    BY <2>1, <2>2, StoreTypes
  <2>6. readyAt' \in [Keys -> Nat] /\ 0 \in 0 .. Capacity
    BY <1>0, <2>3, <2>4
  <2> QED
    BY <2>1, <2>5, <2>6 DEF TypeOK
<1>4. CASE UNCHANGED vars
  BY <1>4 DEF vars, TypeOK
<1> QED
  BY <1>1, <1>2, <1>3, <1>4 DEF Next

THEOREM TypeCorrect == Spec => []TypeOK
  BY TypeInit, TypeStep, PTL DEF Spec

-----------------------------------------------------------------------------
(***************************************************************************)
(* The limiter implements the promise: a millisecond is one of the         *)
(* promise, a check that lets its key through or refuses it is one that    *)
(* does, with the rounding it allows, and a sweep is not seen.             *)
(***************************************************************************)
LEMMA InitImplements == Init => Promise!Init
<1> SUFFICES ASSUME Init PROVE Promise!Init
  OBVIOUS
<1>1. \A k \in Keys : Level(k) = Full
  BY DEF Init, Level
<1> QED
  BY <1>1 DEF Init, Promise!Init, Promise!Full, Promise!Token, Full, Token

LEMMA StepImplements == TypeOK /\ [Next]_vars => [Promise!Next]_(Promise!vars)
<1> SUFFICES ASSUME TypeOK, [Next]_vars PROVE [Promise!Next]_(Promise!vars)
  OBVIOUS
<1> DEFINE level == [k \in Keys |-> Level(k)]
<1>0. /\ Token \in Nat \ {0} /\ Full \in Nat
      /\ Promise!Token = Token /\ Promise!Full = Full /\ Promise!Rate = Rate
  BY Units DEF Promise!Token, Promise!Full, Promise!Rate, Token, Full, Rate
<1>1. CASE Pass
  <2>1. \A k \in Keys : Level(k)' = Upto(Full, Level(k) + Rate)
    BY <1>1, PassRaises
  <2>2. level' = [k \in Keys |-> Upto(Full, level[k] + Rate)] /\ answer' = answer
    BY <1>1, <2>1 DEF Pass
  <2>3. Promise!Pass
    BY <1>0, <2>2 DEF Promise!Pass, Promise!Upto, Upto
  <2> QED
    BY <2>3 DEF Promise!Next
<1>2. ASSUME NEW k \in Keys, NEW r \in Refilled(k)
      PROVE  r \in Promise!Near(level[k]) /\ r \in 0 .. Full
  BY <1>0, RefilledIsNear DEF Promise!Near
<1>3. ASSUME NEW k \in Keys, NEW left \in 0 .. Full, Store(k, left)
      PROVE  level' = [level EXCEPT ![k] = left]
  <2>1. \A j \in Keys : Level(j)' = IF j = k THEN left ELSE Level(j)
    BY <1>3, StoreLeaves
  <2> QED
    BY <2>1
<1>4. ASSUME NEW k \in Keys, Allow(k) PROVE Promise!Allow(k)
  <2>1. PICK r \in Refilled(k) :
          /\ r >= Token /\ Store(k, r - Token)
          /\ answer' = [key |-> k, allowed |-> TRUE, remaining |-> (r - Token) \div Token]
    BY <1>4 DEF Allow
  <2>2. r \in Promise!Near(level[k]) /\ r \in 0 .. Full
    BY <1>2
  <2>3. level' = [level EXCEPT ![k] = r - Token]
    BY <1>0, <1>3, <2>1, <2>2
  <2> QED
    BY <1>0, <2>1, <2>2, <2>3, Zenon DEF Promise!Allow
<1>5. ASSUME NEW k \in Keys, Refuse(k) PROVE Promise!Refuse(k)
  <2>1. PICK r \in Refilled(k) :
          /\ r < Token /\ Store(k, r)
          /\ answer' = [key |-> k, allowed |-> FALSE, remaining |-> 0]
    BY <1>5 DEF Refuse
  <2>2. r \in Promise!Near(level[k]) /\ r \in 0 .. Full
    BY <1>2
  <2>3. level' = [level EXCEPT ![k] = r]
    BY <1>3, <2>1, <2>2
  <2> QED
    BY <1>0, <2>1, <2>2, <2>3, Zenon DEF Promise!Refuse
<1>6. CASE UNCHANGED vars
  <2>1. \A k \in Keys : Level(k)' = Level(k)
    BY <1>6 DEF vars, Level, Exact
  <2> QED
    BY <1>6, <2>1 DEF vars, Promise!vars
<1> QED
  BY <1>1, <1>4, <1>5, <1>6 DEF Next, Promise!Next

THEOREM Implements == Spec => KeepsPromise
  BY InitImplements, StepImplements, TypeCorrect, PTL DEF Spec, KeepsPromise, Promise!Spec

-----------------------------------------------------------------------------
(***************************************************************************)
(* The map holds recent buckets only: a sweep leaves those of the window   *)
(* before it, and the next one is a window away.                           *)
(***************************************************************************)
RecentInv == TypeOK /\ BucketsRecent /\ nextSweepMs <= clock + WindowMs

THEOREM OnlyRecent == Spec => []BucketsRecent
<1>1. Init => RecentInv
  BY TypeInit, LimiterAssumption DEF Init, RecentInv, BucketsRecent
<1>2. RecentInv /\ [Next]_vars => RecentInv'
  <2> SUFFICES ASSUME RecentInv, [Next]_vars PROVE RecentInv'
    OBVIOUS
  <2>1. TypeOK /\ TypeOK'
    BY TypeStep DEF RecentInv
  <2>2. /\ WindowMs \in Nat \ {0} /\ clock \in Nat /\ nextSweepMs \in Nat
        /\ \A j \in Keys : bucket[j].lastRefillMs \in Nat
    BY <2>1, LimiterAssumption DEF TypeOK, BucketState
  <2>3. /\ nextSweepMs <= clock + WindowMs
        /\ \A j \in known : bucket[j].lastRefillMs + 2 * WindowMs > nextSweepMs
    BY DEF RecentInv, BucketsRecent
  <2>4. ASSUME NEW k \in Keys, NEW left, Store(k, left)
        PROVE  BucketsRecent' /\ nextSweepMs' <= clock' + WindowMs
    <3>1. known' = Kept \cup {k} /\ bucket'[k].lastRefillMs = clock /\ clock' = clock
      BY <2>4 DEF Store
    <3>2. \A j \in Kept : j # k => bucket'[j] = bucket[j] /\ j \in known /\ j \in Keys
      BY <2>1, <2>4 DEF Store, Kept, TypeOK
    <3>3. CASE Sweeps
      <4>1. nextSweepMs' = clock + WindowMs
        BY <2>4, <3>3 DEF Store, NextSweep
      <4>2. \A j \in Kept : ~(bucket[j].lastRefillMs + WindowMs <= clock)
        BY <3>3 DEF Kept, Stale
      <4>3. ASSUME NEW j \in known' PROVE bucket'[j].lastRefillMs + 2 * WindowMs > nextSweepMs'
        <5>1. CASE j = k
          BY <2>2, <3>1, <4>1, <5>1
        <5>2. CASE j \in Kept /\ j # k
          BY <2>2, <3>2, <4>1, <4>2, <5>2
        <5> QED
          BY <3>1, <4>3, <5>1, <5>2
      <4> QED
        BY <2>2, <3>1, <4>1, <4>3 DEF BucketsRecent
    <3>4. CASE ~Sweeps
      <4>1. nextSweepMs' = nextSweepMs
        BY <2>4, <3>4 DEF Store
      <4>2. ASSUME NEW j \in known' PROVE bucket'[j].lastRefillMs + 2 * WindowMs > nextSweepMs'
        <5>1. CASE j = k
          BY <2>2, <2>3, <3>1, <4>1, <5>1
        <5>2. CASE j \in Kept /\ j # k
          BY <2>3, <3>2, <4>1, <5>2
        <5> QED
          BY <3>1, <4>2, <5>1, <5>2
      <4> QED
        BY <2>3, <3>1, <4>1, <4>2 DEF BucketsRecent
    <3> QED
      BY <3>3, <3>4
  <2>5. CASE Pass
    <3>1. /\ clock' = clock + 1 /\ nextSweepMs' = nextSweepMs
          /\ known' = known /\ bucket' = bucket
      BY <2>5 DEF Pass
    <3> QED
      BY <2>1, <2>2, <2>3, <3>1 DEF RecentInv, BucketsRecent
  <2>6. CASE UNCHANGED vars
    BY <2>1, <2>3, <2>6 DEF vars, RecentInv, BucketsRecent
  <2> QED
    BY <2>1, <2>4, <2>5, <2>6 DEF Next, Allow, Refuse, RecentInv
<1>3. RecentInv => BucketsRecent
  BY DEF RecentInv
<1> QED
  BY <1>1, <1>2, <1>3, PTL DEF Spec

-----------------------------------------------------------------------------
(***************************************************************************)
(* The wait a refused key is told is right to the millisecond.  Until the  *)
(* key asks again its bucket is as the refusal left it, or swept, which a  *)
(* bucket is only once the wait is over.                                   *)
(***************************************************************************)
Told(k) ==
  /\ k \in known =>
       /\ bucket[k].tokens < Token
       /\ \E w \in RetryAfter(bucket[k].tokens) : readyAt[k] = bucket[k].lastRefillMs + w
  /\ k \notin known => clock + 1 >= readyAt[k]

WaitInv == TypeOK /\ \A k \in Keys : readyAt[k] # 0 => Told(k)

\* What is missing has surely flowed in after the wait, and surely not before it.
LEMMA WaitFills ==
  ASSUME NEW t \in Nat, t < Token, NEW d \in Nat, NEW w \in RetryAfter(t)
  PROVE  /\ w \in Nat /\ w <= WindowMs + 1
         /\ d > w => t + d * Rate >= Token + Rounding
         /\ d + 1 < w => t + d * Rate + Rounding < Token
<1>1. /\ Rate \in Nat \ {0} /\ Token \in Nat /\ Rounding \in Nat /\ WindowMs \in Nat
      /\ 2 * Rounding <= Rate /\ Token <= Full /\ WindowMs * Rate = Full /\ Full \in Nat
  BY Units, LimiterAssumption
<1>2. PICK x \in {y \in Rounded(Token - t) : y > 0} : w = (x + Rate - 1) \div Rate
  BY DEF RetryAfter
<1>3. x \in Nat /\ Token - t - Rounding <= x /\ x <= Token - t + Rounding
  BY <1>1, <1>2 DEF Rounded
<1>4. w \in Nat
  BY <1>1, <1>2, <1>3, DivRoundsUp
<1>5. ASSUME NEW n \in Nat PROVE n >= w <=> n * Rate >= x
  BY <1>1, <1>2, <1>3, DivRoundsUp
<1>6. w * Rate >= x /\ w * Rate \in Nat
  BY <1>1, <1>4, <1>5, TimesNext
<1>7. d * Rate \in Nat
  BY <1>1, TimesNext
<1>8. w <= WindowMs + 1
  <2>1. (WindowMs + 1) * Rate = Full + Rate
    BY <1>1, TimesNext
  <2>2. (WindowMs + 1) * Rate >= x
    BY <1>1, <1>3, <2>1
  <2> QED
    BY <1>1, <1>5, <2>2
<1>9. ASSUME d > w PROVE t + d * Rate >= Token + Rounding
  <2>1. (w + 1) * Rate <= d * Rate
    BY <1>1, <1>4, <1>9, TimesMonotone
  <2>2. (w + 1) * Rate = w * Rate + Rate
    BY <1>1, <1>4, TimesNext
  <2> QED
    BY <1>1, <1>3, <1>6, <1>7, <2>1, <2>2
<1>10. ASSUME d + 1 < w PROVE t + d * Rate + Rounding < Token
  <2>1. ~((d + 1) * Rate >= x)
    BY <1>4, <1>5, <1>10
  <2>2. (d + 1) * Rate = d * Rate + Rate
    BY <1>1, TimesNext
  <2> QED
    BY <1>1, <1>3, <1>7, <2>1, <2>2
<1> QED
  BY <1>4, <1>8, <1>9, <1>10

LEMMA ToldIsRight == WaitInv => WaitAsTold
<1> SUFFICES ASSUME WaitInv, NEW k \in Keys, readyAt[k] # 0, NEW r \in Refilled(k)
             PROVE  /\ clock > readyAt[k] => r >= Token
                    /\ clock + 1 < readyAt[k] => r < Token
  BY DEF WaitAsTold
<1>1. TypeOK /\ Told(k)
  BY DEF WaitInv
<1>2. /\ Token \in Nat /\ Full \in Nat /\ Token <= Full /\ Rounding \in Nat
      /\ clock \in Nat /\ readyAt[k] \in Nat
  BY <1>1, Units DEF TypeOK
<1>3. CASE k \notin known
  <2>1. r = Full
    BY <1>3 DEF Refilled, Kept
  <2> QED
    BY <1>1, <1>2, <1>3, <2>1 DEF Told
<1>4. CASE k \in known
  <2> DEFINE b == bucket[k]
             d == clock - b.lastRefillMs
  <2>1. b.tokens \in Nat /\ b.lastRefillMs \in Nat /\ d \in Nat
    BY <1>1 DEF TypeOK, BucketState
  <2>2. PICK w \in RetryAfter(b.tokens) : readyAt[k] = b.lastRefillMs + w
    BY <1>1, <1>4 DEF Told
  <2>3. b.tokens < Token
    BY <1>1, <1>4 DEF Told
  <2>4. /\ w \in Nat
        /\ d > w => b.tokens + d * Rate >= Token + Rounding
        /\ d + 1 < w => b.tokens + d * Rate + Rounding < Token
    BY <2>1, <2>3, WaitFills
  <2>5. Level(k) = Upto(Full, b.tokens + d * Rate)
    BY <1>4 DEF Level, Exact
  <2>6. Level(k) - Rounding <= r /\ r <= Level(k) + Rounding /\ r \in 0 .. Full
    BY <1>1, RefilledIsNear
  <2>7. d * Rate \in Nat
    BY <2>1, TimesNext, Units
  <2>8. ASSUME clock > readyAt[k] PROVE r >= Token
    <3>1. CASE k \notin Kept
      BY <1>2, <3>1 DEF Refilled
    <3>2. CASE k \in Kept
      <4>1. d > w
        BY <1>2, <2>1, <2>2, <2>4, <2>8
      <4>2. b.tokens + d * Rate >= Token + Rounding /\ r \in Refill(b)
        BY <2>4, <3>2, <4>1 DEF Refilled
      <4>3. clock # b.lastRefillMs
        BY <2>1, <2>4, <4>1
      <4>4. PICK y \in Rounded(b.tokens + d * Rate) : r = Upto(Full, y)
        BY <4>2, <4>3 DEF Refill, Exact
      <4>5. y \in Int /\ b.tokens + d * Rate - Rounding <= y
        BY <1>2, <2>1, <2>7, <4>4 DEF Rounded
      <4> HIDE DEF d
      <4> QED
        BY <1>2, <2>1, <2>7, <4>2, <4>4, <4>5 DEF Upto
    <3> QED
      BY <3>1, <3>2
  <2>9. ASSUME clock + 1 < readyAt[k] PROVE r < Token
    <3>1. d + 1 < w
      BY <1>2, <2>1, <2>2, <2>4, <2>9
    <3>2. b.tokens + d * Rate + Rounding < Token
      BY <2>4, <3>1
    <3> HIDE DEF d
    <3> QED
      BY <1>2, <2>1, <2>5, <2>6, <2>7, <3>2 DEF Upto
  <2> QED
    BY <2>8, <2>9
<1> QED
  BY <1>3, <1>4

LEMMA WaitStep == WaitInv /\ [Next]_vars => WaitInv'
<1> SUFFICES ASSUME WaitInv, [Next]_vars PROVE WaitInv'
  OBVIOUS
<1>1. TypeOK /\ TypeOK'
  BY TypeStep DEF WaitInv
<1>2. WindowMs \in Nat /\ clock \in Nat /\ readyAt \in [Keys -> Nat]
  BY <1>1, LimiterAssumption DEF TypeOK
<1>3. ASSUME NEW k \in Keys, NEW j \in Keys, k # j, NEW left, Store(j, left),
             Told(k), readyAt'[k] = readyAt[k]
      PROVE  Told(k)'
  <2>1. clock' = clock /\ (k \in known' <=> k \in Kept)
    BY <1>3 DEF Store
  <2>2. CASE k \in Kept
    <3>1. bucket'[k] = bucket[k] /\ k \in known
      BY <1>3, <2>2 DEF Store, Kept
    <3> QED
      BY <1>3, <2>1, <2>2, <3>1 DEF Told, RetryAfter, Rounded
  <2>3. CASE k \notin Kept /\ k \in known
    <3>1. bucket[k].lastRefillMs + WindowMs <= clock
      BY <2>3 DEF Kept, Stale
    <3>2. bucket[k].tokens \in Nat /\ bucket[k].lastRefillMs \in Nat
      BY <1>1 DEF TypeOK, BucketState
    <3>3. bucket[k].tokens < Token
      BY <1>3, <2>3 DEF Told
    <3>4. PICK w \in RetryAfter(bucket[k].tokens) : readyAt[k] = bucket[k].lastRefillMs + w
      BY <1>3, <2>3 DEF Told
    <3>5. w \in Nat /\ w <= WindowMs + 1
      BY <1>2, <3>2, <3>3, WaitFills
    <3>6. clock + 1 >= readyAt[k]
      BY <1>2, <3>1, <3>2, <3>4, <3>5
    <3> QED
      BY <1>3, <2>1, <2>3, <3>6 DEF Told
  <2>4. CASE k \notin known
    BY <1>3, <2>1, <2>4 DEF Told, Kept
  <2> QED
    BY <2>2, <2>3, <2>4
<1>4. ASSUME NEW j \in Keys, Allow(j), NEW k \in Keys, readyAt'[k] # 0 PROVE Told(k)'
  <2>1. PICK r \in Refilled(j) : Store(j, r - Token) /\ readyAt' = [readyAt EXCEPT ![j] = 0]
    BY <1>4 DEF Allow
  <2>2. k # j /\ readyAt'[k] = readyAt[k]
    BY <1>2, <1>4, <2>1
  <2>3. Told(k)
    BY <1>4, <2>2 DEF WaitInv
  <2> QED
    BY <1>3, <2>1, <2>2, <2>3
<1>5. ASSUME NEW j \in Keys, Refuse(j), NEW k \in Keys, readyAt'[k] # 0 PROVE Told(k)'
  <2>1. PICK r \in Refilled(j) :
          /\ r < Token /\ Store(j, r)
          /\ \E w \in RetryAfter(r) : readyAt' = [readyAt EXCEPT ![j] = clock + w]
    BY <1>5 DEF Refuse
  <2>2. PICK w \in RetryAfter(r) : readyAt' = [readyAt EXCEPT ![j] = clock + w]
    BY <2>1
  <2>3. CASE k = j
    <3>1. bucket'[k] = [tokens |-> r, lastRefillMs |-> clock] /\ k \in known'
      BY <2>1, <2>3 DEF Store
    <3>2. readyAt'[k] = clock + w
      BY <1>2, <2>2, <2>3
    <3> QED
      BY <2>1, <3>1, <3>2 DEF Told, RetryAfter, Rounded
  <2>4. CASE k # j
    <3>1. readyAt'[k] = readyAt[k]
      BY <1>2, <2>2, <2>4
    <3>2. Told(k)
      BY <1>5, <3>1 DEF WaitInv
    <3> QED
      BY <1>3, <2>1, <2>4, <3>1, <3>2
  <2> QED
    BY <2>3, <2>4
<1>6. ASSUME Pass, NEW k \in Keys, readyAt'[k] # 0 PROVE Told(k)'
  <2>1. /\ known' = known /\ bucket' = bucket /\ readyAt' = readyAt /\ clock' = clock + 1
    BY <1>6 DEF Pass
  <2>2. Told(k) /\ readyAt[k] \in Nat
    BY <1>2, <1>6, <2>1 DEF WaitInv
  <2> QED
    BY <1>2, <2>1, <2>2 DEF Told, RetryAfter, Rounded
<1>7. CASE UNCHANGED vars
  BY <1>1, <1>7 DEF vars, WaitInv, Told, RetryAfter, Rounded
<1> QED
  BY <1>1, <1>4, <1>5, <1>6, <1>7 DEF Next, WaitInv

THEOREM WaitCorrect == Spec => []WaitAsTold
<1>1. Init => WaitInv
  BY TypeInit DEF Init, WaitInv
<1> QED
  BY <1>1, WaitStep, ToldIsRight, PTL DEF Spec

=============================================================================
