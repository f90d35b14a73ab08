----------------------------- MODULE TokenBucket ----------------------------
(***************************************************************************)
(* What the rate limiter promises (app/middleware/rate-limit.ts, the       *)
(* comment at its head): every key has a bucket of its own, full at first, *)
(* which refills all the time, whether the key asks or not; a request      *)
(* takes a token or is refused.  When a key asks, and only then, what its  *)
(* bucket holds is rounded.  A token is Token units, of which Rate flow in *)
(* per millisecond, so that exact levels are integers.                     *)
(***************************************************************************)
EXTENDS Integers

CONSTANTS
    Keys,       \* bearer tokens, "anonymous"
    Capacity,
    WindowMs,
    Grain,      \* units per token and millisecond of the window
    Rounding,   \* units by which one check may be off
    NoKey

VARIABLES
    level,      \* what each key's bucket holds
    answer      \* the last decision

vars == <<level, answer>>

Token == WindowMs * Grain
Rate == Capacity * Grain
Full == Capacity * Token
Upto(a, b) == IF a <= b THEN a ELSE b

Init ==
    /\ level = [k \in Keys |-> Full]
    /\ answer = [key |-> NoKey, allowed |-> FALSE, remaining |-> 0]

\* A millisecond passes.
Pass ==
    /\ level' = [k \in Keys |-> Upto(Full, level[k] + Rate)]
    /\ UNCHANGED answer

\* What a check may take the level for.
Near(l) == {r \in 0 .. Full : l - Rounding <= r /\ r <= l + Rounding}

Allow(k) ==
    \E r \in Near(level[k]) :
        /\ r >= Token
        /\ level' = [level EXCEPT ![k] = r - Token]
        /\ answer' = [key |-> k, allowed |-> TRUE, remaining |-> (r - Token) \div Token]

Refuse(k) ==
    \E r \in Near(level[k]) :
        /\ r < Token
        /\ level' = [level EXCEPT ![k] = r]
        /\ answer' = [key |-> k, allowed |-> FALSE, remaining |-> 0]

Next == Pass \/ \E k \in Keys : Allow(k) \/ Refuse(k)

Spec == Init /\ [][Next]_vars

=============================================================================
