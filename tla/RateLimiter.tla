----------------------------- MODULE RateLimiter ----------------------------
(***************************************************************************)
(* createTokenBucketLimiter: a map from keys to buckets that are refilled  *)
(* when their key asks, and dropped when they must be full again.  check   *)
(* is synchronous: one action.  Amounts are in TokenBucket's units.  The   *)
(* code computes with doubles: what it adds and divides is here the exact  *)
(* value or one Rounding off, either way, and the errors of a key's checks *)
(* add up.  Whatever a double holds is a whole number of units if Grain is *)
(* a large enough power of two.                                            *)
(***************************************************************************)
EXTENDS Integers

CONSTANTS
    Keys,
    Capacity,   \* options.capacity
    WindowMs,   \* options.windowMs
    Grain,      \* units per token and millisecond of the window
    Rounding,   \* units by which one refill or one division may be off
    NoKey,
    MaxClock    \* bound: milliseconds the limiter lives

ASSUME LimiterAssumption ==
    /\ NoKey \notin Keys
    /\ Capacity \in Nat \ {0}
    /\ WindowMs \in Nat \ {0}
    /\ Grain \in Nat \ {0}
    /\ Rounding \in Nat
    /\ 2 * Rounding <= Capacity * Grain    \* far less than a millisecond's refill
    /\ MaxClock \in Nat

VARIABLES
    known,          \* the keys of buckets
    bucket,         \* the entries of buckets
    nextSweepMs,
    clock,          \* what now() returns: it does not step back
    answer,
    readyAt         \* when a refused key was told to come back, 0: was not (history)

vars == <<known, bucket, nextSweepMs, clock, answer, readyAt>>

Token == WindowMs * Grain
Rate == Capacity * Grain
Full == Capacity * Token
Upto(a, b) == IF a <= b THEN a ELSE b

BucketState == [tokens : 0 .. Full, lastRefillMs : Nat]
NoBucket == [tokens |-> 0, lastRefillMs |-> 0]

\* Types of every variable; no bucket is from the future.
TypeOK ==
    /\ known \subseteq Keys
    /\ bucket \in [Keys -> BucketState]
    /\ nextSweepMs \in Nat /\ clock \in Nat
    /\ answer \in [key : Keys \cup {NoKey}, allowed : BOOLEAN, remaining : 0 .. Capacity]
    /\ readyAt \in [Keys -> Nat]
    /\ \A k \in Keys : bucket[k].lastRefillMs <= clock

Init ==
    /\ known = {}
    /\ bucket = [k \in Keys |-> NoBucket]
    /\ nextSweepMs = 0 /\ clock = 0
    /\ answer = [key |-> NoKey, allowed |-> FALSE, remaining |-> 0]
    /\ readyAt = [k \in Keys |-> 0]

Pass ==
    /\ clock < MaxClock
    /\ clock' = clock + 1
    /\ UNCHANGED <<known, bucket, nextSweepMs, answer, readyAt>>

\* Mutant: a bucket is stale a millisecond early.
StaleEarly(k) == bucket[k].lastRefillMs + WindowMs <= clock + 1

Stale(k) == bucket[k].lastRefillMs + WindowMs <= clock

NextSweep == clock + WindowMs

Sweeps == clock >= nextSweepMs
Kept == IF Sweeps THEN {k \in known : ~Stale(k)} ELSE known

\* The exact value, and what doubles may make of it.
Exact(b) == b.tokens + (clock - b.lastRefillMs) * Rate
Rounded(x) == (x - Rounding) .. (x + Rounding)

\* Nothing is added, and nothing rounded, in the millisecond of the last refill.
Refill(b) ==
    IF clock = b.lastRefillMs THEN {b.tokens}
    ELSE {Upto(Full, x) : x \in Rounded(Exact(b))}

Refilled(k) == IF k \in Kept THEN Refill(bucket[k]) ELSE {Full}

\* Mutant: rounded down.
RetryAfterFloor(amount) == {x \div Rate : x \in Rounded(Token - amount) \cap Nat}

\* What is missing is more than nothing, and so is what it is rounded to.
RetryAfter(amount) ==
    {(x + Rate - 1) \div Rate : x \in {y \in Rounded(Token - amount) : y > 0}}

\* check sweeps, and stores what is left to the key.
Store(k, left) ==
    /\ known' = Kept \cup {k}
    /\ bucket' = [j \in Keys |->
            IF j = k THEN [tokens |-> left, lastRefillMs |-> clock]
            ELSE IF j \in Kept THEN bucket[j] ELSE NoBucket]
    /\ nextSweepMs' = IF Sweeps THEN NextSweep ELSE nextSweepMs
    /\ UNCHANGED clock

Allow(k) ==
    \E refilled \in Refilled(k) :
        /\ refilled >= Token
        /\ Store(k, refilled - Token)
        /\ answer' = [key |-> k, allowed |-> TRUE,
                      remaining |-> (refilled - Token) \div Token]
        /\ readyAt' = [readyAt EXCEPT ![k] = 0]

Refuse(k) ==
    \E refilled \in Refilled(k) :
        /\ refilled < Token
        /\ Store(k, refilled)
        /\ answer' = [key |-> k, allowed |-> FALSE, remaining |-> 0]
        /\ \E wait \in RetryAfter(refilled) : readyAt' = [readyAt EXCEPT ![k] = clock + wait]

Next == Pass \/ \E k \in Keys : Allow(k) \/ Refuse(k)

Spec == Init /\ [][Next]_vars

-----------------------------------------------------------------------------
(***************************************************************************)
(* A key's bucket as the promise has it: with the exact refill it has not  *)
(* been given yet, and full if there is none.                              *)
(***************************************************************************)
Level(k) == IF k \in known THEN Upto(Full, Exact(bucket[k])) ELSE Full

Promise == INSTANCE TokenBucket WITH level <- [k \in Keys |-> Level(k)]

(***************************************************************************)
(* The comment of rate-limit.ts: a swept bucket's key "would see the same  *)
(* full bucket as a newly-created entry"; and refilling late is refilling  *)
(* all the time.  Every decision is one the promise allows: right up to    *)
(* the rounding errors of the key's own checks, whatever other keys do and *)
(* whenever a sweep comes.                                                 *)
(***************************************************************************)
KeepsPromise == Promise!Spec

(***************************************************************************)
(* The wait a refused key is told (retryAfterMs) is right to the           *)
(* millisecond: if it does not ask before, it is let through from the one  *)
(* after that it was told, however the amounts round, and surely refused   *)
(* up to two before it.                                                    *)
(***************************************************************************)
WaitAsTold ==
    \A k \in Keys :
        readyAt[k] # 0 =>
            /\ clock > readyAt[k] => \A r \in Refilled(k) : r >= Token
            /\ clock + 1 < readyAt[k] => \A r \in Refilled(k) : r < Token

(***************************************************************************)
(* The map does not grow with the keys that ever asked: it holds those     *)
(* that asked in the two windows before the next sweep.                    *)
(***************************************************************************)
BucketsRecent == \A k \in known : bucket[k].lastRefillMs + 2 * WindowMs > nextSweepMs

=============================================================================
