---------------------------- MODULE RateLimiter ----------------------------
(***************************************************************************)
(* TokenBucketLimiter of app/api/security.py, and what RateLimitMiddleware *)
(* tells the client.  Tokens are counted in units, so that a rate below    *)
(* one request a second is a whole number; a request costs Cost units.     *)
(* check holds the limiter's lock from its first look to its answer, so a  *)
(* history of calls is a sequence.                                         *)
(***************************************************************************)
EXTENDS Integers, Sequences, SequencesExt

CONSTANTS
    Rate,        \* units that come back in a second
    Cost,        \* units that a request takes
    Capacity,    \* units of a full bucket
    MaxKeys      \* max_keys

ASSUME LimiterAssumption ==
    /\ {Rate, Cost, Capacity, MaxKeys} \subseteq Nat \ {0}
    /\ Capacity >= Cost

\* A limiter's buckets, the least recently used first, and its last answer.
NewLimiter == [buckets |-> <<>>, allowed |-> TRUE, retry |-> 0]

Without(buckets, key) == SelectSeq(buckets, LAMBDA b : b.key # key)

\* The bucket as the call finds it: a new one is full, an old one is refilled.
Refilled(buckets, key, now) ==
    IF \E i \in DOMAIN buckets : buckets[i].key = key
    THEN LET b == buckets[CHOOSE i \in DOMAIN buckets : buckets[i].key = key]
             tokens == b.tokens + (now - b.at) * Rate
         IN  [key |-> key, at |-> now, tokens |-> IF tokens > Capacity THEN Capacity ELSE tokens]
    ELSE [key |-> key, at |-> now, tokens |-> Capacity]

\* _evict: the oldest go while there are too many.
Evict(buckets) ==
    IF Len(buckets) > MaxKeys THEN SubSeq(buckets, 1 + Len(buckets) - MaxKeys, Len(buckets))
    ELSE buckets

\* Variant: the time of the last refill is only kept for a call that is let in.
Check_keepsTime(limiter, key, now) ==
    LET b == Refilled(limiter.buckets, key, now)
        old == SelectSeq(limiter.buckets, LAMBDA x : x.key = key)
        allowed == b.tokens >= Cost
        left == IF allowed THEN [b EXCEPT !.tokens = @ - Cost]
                ELSE [b EXCEPT !.at = IF old = <<>> THEN now ELSE old[1].at]
    IN  [buckets |-> Evict(Append(Without(limiter.buckets, key), left)),
         allowed |-> allowed,
         retry |-> IF allowed THEN 0 ELSE (Cost - b.tokens) \div Rate + 1]

\* check, and the Retry-After header: a whole second more than the deficit takes.
Check(limiter, key, now) ==
    LET b == Refilled(limiter.buckets, key, now)
        allowed == b.tokens >= Cost
        left == IF allowed THEN [b EXCEPT !.tokens = @ - Cost] ELSE b
    IN  [buckets |-> Evict(Append(Without(limiter.buckets, key), left)),
         allowed |-> allowed,
         retry |-> IF allowed THEN 0 ELSE (Cost - b.tokens) \div Rate + 1]

\* The limiter after each of the calls, each <<time, key>>.
After(calls) ==
    FoldLeft(LAMBDA ls, c : Append(ls, Check(IF ls = <<>> THEN NewLimiter ELSE Last(ls),
                                             c[2], c[1])), <<>>, calls)
=============================================================================
