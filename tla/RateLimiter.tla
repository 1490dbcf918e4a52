----------------------------- MODULE RateLimiter -----------------------------
(***************************************************************************)
(* rateLimiter.allow for one key: a token bucket that is filled up only    *)
(* when it is asked.  Time passes in ticks, and tokens are counted in      *)
(* parts: a call costs Cost of them and a tick is worth Gain.              *)
(*                                                                         *)
(* idle stops to grow once the bucket would be full: min(burst, ...) is    *)
(* the same from then on.                                                  *)
(***************************************************************************)
EXTENDS Integers

CONSTANTS
    Burst,          \* calls that may come at once
    Cost, Gain      \* Gain / Cost is the rate

ASSUME RateAssumption == Burst \in Nat \ {0} /\ Cost \in Nat \ {0} /\ Gain \in Nat \ {0}

Full == Burst * Cost

VARIABLES
    tokens,         \* as of the last call
    idle,           \* ticks since the last call
    credit          \* history: the bucket of the reference, which is filled up
                    \* at every tick

limiterVars == <<tokens, idle, credit>>

AtMost(n, m) == IF n < m THEN n ELSE m

\* There is no bucket yet; the first call makes a full one.
LimiterInit == tokens = Full /\ idle = 0 /\ credit = Full

LimiterTypeOK == tokens \in 0..Full /\ idle \in 0..Full /\ credit \in 0..Full

Refilled == AtMost(tokens + idle * Gain, Full)

allow ==
    /\ Refilled >= Cost
    /\ tokens' = Refilled - Cost
    /\ idle' = 0
    /\ credit' = credit - Cost

\* mutant: a refused call starts the wait again
RefuseForgets ==
    /\ Refilled < Cost
    /\ idle' = 0
    /\ UNCHANGED <<tokens, credit>>

\* 429; the time since the last call is not lost.
Refuse ==
    /\ Refilled < Cost
    /\ tokens' = Refilled
    /\ idle' = 0
    /\ UNCHANGED credit

LimiterTick ==
    /\ tokens + idle * Gain < Full
    /\ idle' = idle + 1
    /\ credit' = AtMost(credit + Gain, Full)
    /\ UNCHANGED tokens

\* Filling the bucket up only when it is asked (ratelimit.go:39-50) grants and
\* refuses the same calls as a bucket that is filled up all the time: in any
\* span of time no more than the burst and the rate allow, and a caller
\* that has waited for a token gets it, however often it was refused.
LazyBucketExact == Refilled = credit

=============================================================================
