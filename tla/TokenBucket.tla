---------------------------- MODULE TokenBucket ----------------------------
(***************************************************************************)
(* The script RedisRateLimiter.check runs in Redis, and what check makes   *)
(* of its answer (app/rate_limiter.py).                                    *)
(*                                                                         *)
(* The script keeps a fractional number of tokens that grows by            *)
(* limit / window_ms every millisecond.  Here a bucket holds credit: one   *)
(* token is WindowMs credit, and every millisecond adds limit credit, so   *)
(* that all numbers are integers and nothing is rounded but what the       *)
(* script rounds.  (The script's floating point is taken to be exact.)     *)
(***************************************************************************)
EXTENDS Integers

CONSTANTS
    Second,     \* clock units in a second: 1000 for milliseconds
    Window      \* window_seconds

ASSUME BucketAssumption ==
    /\ Second \in Nat \ {0}
    /\ Window \in Nat \ {0}

WindowMs == Window * Second

Least(x, y) == IF x <= y THEN x ELSE y
Greatest(x, y) == IF x >= y THEN x ELSE y

\* x / y rounded up.
Ceil(x, y) == (x + y - 1) \div y

\* The Redis key of a bucket, with the time after which it no longer exists.
Bucket == [credit : Nat, updated_at : Nat, expires_at : Nat \cup {-1}]
NoKey == [credit |-> 0, updated_at |-> 0, expires_at |-> -1]
Exists(b, now) == now <= b.expires_at

Full(limit) == limit * WindowMs

\* The tokens a bucket has at a time: those it had, and those it gained since,
\* up to its capacity.  A bucket without a key is full.
Credit(b, limit, now) ==
    IF Exists(b, now)
    THEN Least(Full(limit), b.credit + limit * Greatest(0, now - b.updated_at))
    ELSE Full(limit)

Allows(b, limit, now) == Credit(b, limit, now) >= WindowMs

\* Mutant of Left: a refused check takes a token as well.
Left_AlwaysTakes(b, limit, now) == Credit(b, limit, now) - WindowMs

\* The credit a check leaves in the bucket.
Left(b, limit, now) ==
    Credit(b, limit, now) - IF Allows(b, limit, now) THEN WindowMs ELSE 0

\* Mutant of Lifetime: a key is dropped after a quarter of the time its bucket needs to fill.
Lifetime_TooShort == WindowMs \div 4

\* PEXPIRE: a key is dropped this long after the last check.
Lifetime == 2 * WindowMs

\* The key as a check leaves it, be it allowed or not.
Checked(b, limit, now) ==
    [credit |-> Left(b, limit, now), updated_at |-> now, expires_at |-> now + Lifetime]

\* retry_after_seconds: the missing credit in milliseconds, in whole seconds.
RetryAfter(b, limit, now) ==
    IF Allows(b, limit, now) THEN 0
    ELSE Greatest(1, Ceil(Ceil(WindowMs - Credit(b, limit, now), limit), Second))

\* Mutant of ResetAt: computed before the token is taken.
ResetAt_BeforeTaking(b, limit, now) ==
    Ceil(now + Ceil(Full(limit) - Credit(b, limit, now), limit), Second)

\* reset_at: the second by which the bucket is full again.
ResetAt(b, limit, now) ==
    Ceil(now + Ceil(Full(limit) - Left(b, limit, now), limit), Second)

\* The answer of check.
RateLimitDecision ==
    [allowed : BOOLEAN, limit : Nat, remaining : Nat,
     retry_after_seconds : Nat, reset_at : Nat]

Decision(b, limit, now) ==
    [allowed |-> Allows(b, limit, now),
     limit |-> limit,
     remaining |-> Left(b, limit, now) \div WindowMs,
     retry_after_seconds |-> RetryAfter(b, limit, now),
     reset_at |-> ResetAt(b, limit, now)]
=============================================================================
