------------------------- MODULE RateLimitingAdvice -------------------------
(***************************************************************************)
(* Proofs about what RateLimiting tells its clients, for any limits,       *)
(* window and number of requests: the times in Retry-After and             *)
(* X-RateLimit-Reset are late enough, and the headers are those of the     *)
(* check that decided.                                                     *)
(***************************************************************************)
EXTENDS RateLimitingProofs

-----------------------------------------------------------------------------
(***************************************************************************)
(* Arithmetic of one bucket.                                               *)
(***************************************************************************)

\* What is rounded up is covered.
LEMMA CeilCovers ==
    ASSUME NEW x \in Nat, NEW y \in Nat \ {0}
    PROVE  x <= y * Ceil(x, y)
<1> DEFINE n == x + y - 1
<1>1. n \in Nat
  OBVIOUS
<1> HIDE DEF n
<1>2. n < y * (n \div y) + y
  BY <1>1
<1>3. n \div y \in Nat
  BY <1>1
<1>4. x <= y * (n \div y)
  <2>1. y * (n \div y) \in Nat
    BY <1>3, ProductNat
  <2> QED BY <1>2, <2>1 DEF n
<1> QED BY <1>4 DEF Ceil, n

\* Retry-After is long enough for what is missing to be gained.
LEMMA RetryCovers ==
    ASSUME NEW b \in Bucket, NEW limit \in Limits, NEW now \in Nat, ~Allows(b, limit, now)
    PROVE  LET wait == RetryAfter(b, limit, now) * Second IN
           /\ RetryAfter(b, limit, now) \in Nat /\ RetryAfter(b, limit, now) >= 1 /\ wait \in Nat
           /\ WindowMs <= Left(b, limit, now) + limit * wait
<1> DEFINE miss == WindowMs - Credit(b, limit, now)
           ms == Ceil(miss, limit)
           secs == Ceil(ms, Second)
           retry == RetryAfter(b, limit, now)
<1>1. miss \in Nat /\ Left(b, limit, now) = Credit(b, limit, now)
      /\ Credit(b, limit, now) \in Nat
  BY CreditType, LeftType, FullType, WindowType DEF Allows
<1>2. ms \in Nat /\ miss <= limit * ms
  BY <1>1, CeilNat, CeilCovers DEF Limits
<1>3. secs \in Nat /\ ms <= Second * secs
  BY <1>2, CeilNat, CeilCovers, WindowType
<1>4. retry \in Nat /\ retry >= 1 /\ secs <= retry
  BY <1>3 DEF RetryAfter, Greatest
<1> HIDE DEF miss, ms, secs, retry
<1>5. Second * secs <= Second * retry /\ Second * retry = retry * Second /\ retry * Second \in Nat
      /\ Second * secs \in Nat
  BY <1>3, <1>4, ProductMonotone, ProductNat, WindowType
<1>6. ms <= retry * Second
  BY <1>2, <1>3, <1>5
<1>7. limit * ms <= limit * (retry * Second) /\ limit * ms \in Nat /\ limit * (retry * Second) \in Nat
  BY <1>2, <1>5, <1>6, ProductMonotone, ProductNat DEF Limits
<1>8. miss <= limit * (retry * Second)
  BY <1>1, <1>2, <1>7
<1>9. WindowMs <= Left(b, limit, now) + limit * (retry * Second)
  BY <1>1, <1>7, <1>8, WindowType DEF miss
<1> QED BY <1>4, <1>5, <1>9 DEF retry

\* The bucket a check leaves gains as the time passes.
LEMMA CheckedGains ==
    ASSUME NEW b \in Bucket, NEW limit \in Limits, NEW now \in Nat, NEW n \in Nat, NEW y \in Nat,
           y <= Full(limit), y <= Left(b, limit, now) + limit * n
    PROVE  y <= Credit(Checked(b, limit, now), limit, now + n)
<1> DEFINE c == Checked(b, limit, now)
<1>1. c.updated_at = now /\ c.credit = Left(b, limit, now)
  BY DEF Checked
<1>2. Greatest(0, now + n - now) = n
  BY DEF Greatest
<1>3. Left(b, limit, now) \in Nat /\ Full(limit) \in Nat /\ limit * n \in Nat
  BY LeftType, FullType, ProductNat DEF Limits
<1> HIDE DEF c
<1>4. CASE Exists(c, now + n)
  <2>1. Credit(c, limit, now + n) = Least(Full(limit), Left(b, limit, now) + limit * n)
    BY <1>1, <1>2, <1>4 DEF Credit
  <2> QED BY <1>3, <2>1 DEF Least, c
<1>5. CASE ~Exists(c, now + n)
  BY <1>5 DEF Credit, c
<1> QED BY <1>4, <1>5

\* In n milliseconds a bucket gains at most n times its limit, the expiry of its
\* key included.
LEMMA CreditGains ==
    ASSUME NEW b \in Bucket, NEW limit \in Limits, NEW now \in Nat, NEW n \in Nat, Fresh(b, limit)
    PROVE  Credit(b, limit, now + n) <= Credit(b, limit, now) + limit * n
<1> DEFINE gained(t) == Greatest(0, t - b.updated_at)
<1>1. /\ b.credit \in Nat /\ b.updated_at \in Nat /\ b.expires_at \in Int
      /\ Full(limit) \in Nat /\ now + n \in Nat /\ limit * n \in Nat
  BY FullType, ProductNat DEF Bucket, Limits
<1>2. /\ Credit(b, limit, now) \in 0 .. Full(limit)
      /\ Credit(b, limit, now + n) \in 0 .. Full(limit)
  BY <1>1, CreditType
<1>3. CASE ~Exists(b, now)
  <2>1. Credit(b, limit, now) = Full(limit)
    BY <1>3 DEF Credit
  <2> QED BY <1>1, <1>2, <2>1
<1>4. CASE Exists(b, now)
  <2>1. /\ gained(now) \in Nat /\ gained(now + n) \in Nat
        /\ gained(now + n) <= gained(now) + n
        /\ now + n > b.updated_at + Lifetime => gained(now) + n >= WindowMs
    BY <1>1, WindowType DEF Greatest
  <2>2. Credit(b, limit, now) = Least(Full(limit), b.credit + limit * gained(now))
    BY <1>4 DEF Credit
  <2>3. Exists(b, now + n) =>
            Credit(b, limit, now + n) = Least(Full(limit), b.credit + limit * gained(now + n))
    BY DEF Credit
  <2>4. ~Exists(b, now + n) => now + n > b.updated_at + Lifetime
    BY <1>1, <1>4, WindowType DEF Exists, Fresh, Bucket
  <2> HIDE DEF gained
  <2>5. /\ limit * (gained(now) + n) = limit * gained(now) + limit * n
        /\ limit * gained(now) \in Nat /\ limit * gained(now + n) \in Nat
    BY <2>1, ProductNat DEF Limits
  <2>6. limit * gained(now + n) <= limit * (gained(now) + n)
    BY <2>1, ProductMonotone DEF Limits
  <2>7. CASE Exists(b, now + n)
    BY <1>1, <2>2, <2>3, <2>5, <2>6, <2>7 DEF Least
  <2>8. CASE ~Exists(b, now + n)
    <3>1. limit * WindowMs <= limit * (gained(now) + n)
      BY <2>1, <2>4, <2>8, ProductMonotone, WindowType DEF Limits
    <3>2. Full(limit) <= limit * gained(now) + limit * n
      BY <2>5, <3>1 DEF Full
    <3> QED BY <1>1, <1>2, <2>2, <2>5, <3>2 DEF Least
  <2> QED BY <2>7, <2>8
<1> QED BY <1>3, <1>4

\* X-RateLimit-Reset is late enough for the bucket to be full.
LEMMA ResetCovers ==
    ASSUME NEW b \in Bucket, NEW limit \in Limits, NEW now \in Nat
    PROVE  LET at == ResetAt(b, limit, now) * Second IN
           at \in Nat /\ Credit(Checked(b, limit, now), limit, at) = Full(limit)
<1> DEFINE miss == Full(limit) - Left(b, limit, now)
           ms == Ceil(miss, limit)
           reset == ResetAt(b, limit, now)
           at == reset * Second
<1>1. miss \in Nat /\ Left(b, limit, now) \in Nat /\ Full(limit) \in Nat
  BY LeftType, FullType
<1>2. ms \in Nat /\ miss <= limit * ms
  BY <1>1, CeilNat, CeilCovers DEF Limits
<1> HIDE DEF miss
<1>3. reset \in Nat /\ now + ms <= Second * reset
  <2>1. reset = Ceil(now + ms, Second)
    BY DEF ResetAt, miss
  <2> HIDE DEF ms, reset
  <2>2. now + ms \in Nat
    BY <1>2
  <2> QED BY <2>1, <2>2, CeilNat, CeilCovers, WindowType
<1> HIDE DEF ms, reset
<1>4. at \in Nat /\ at = Second * reset
  BY <1>3, ProductNat, WindowType
<1> HIDE DEF at
<1>5. PICK n \in Nat : at = now + n /\ ms <= n
  <2>1. at - now \in Nat /\ ms <= at - now /\ at = now + (at - now)
    BY <1>2, <1>3, <1>4
  <2> QED BY <2>1
<1>6. limit * ms <= limit * n /\ limit * n \in Nat /\ limit * ms \in Nat
  BY <1>2, <1>5, ProductMonotone, ProductNat DEF Limits
<1>7. Full(limit) <= Left(b, limit, now) + limit * n
  BY <1>1, <1>2, <1>6 DEF miss
<1>8. Full(limit) <= Credit(Checked(b, limit, now), limit, now + n)
  BY <1>1, <1>5, <1>7, CheckedGains
<1>9. Credit(Checked(b, limit, now), limit, now + n) \in 0 .. Full(limit)
  BY <1>5, CreditType, CheckedType
<1> QED BY <1>1, <1>4, <1>5, <1>8, <1>9 DEF at, reset

-----------------------------------------------------------------------------
(***************************************************************************)
(* The advice is not late either, by less than the second it is rounded to.*)
(***************************************************************************)

\* One less than what is rounded up to falls short of it.
LEMMA CeilIsLeast ==
    ASSUME NEW x \in Nat \ {0}, NEW y \in Nat \ {0}, NEW m \in Nat, m + 1 <= Ceil(x, y)
    PROVE  y * m < x
<1> DEFINE n == x + y - 1
           quotient == n \div y
<1>1. n \in Nat
  OBVIOUS
<1>2. quotient \in Nat /\ y * quotient <= n
  BY <1>1
<1>3. y * (m + 1) <= y * quotient /\ y * (m + 1) = y * m + y /\ y * m \in Nat
      /\ y * quotient \in Nat
  <2>1. m + 1 <= quotient
    BY DEF Ceil
  <2> HIDE DEF quotient
  <2> QED BY <1>2, <2>1, ProductMonotone, ProductNat
<1> HIDE DEF quotient
<1>4. y * m + y <= x + y - 1
  BY <1>1, <1>2, <1>3 DEF n
<1> QED BY <1>3, <1>4

\* The bucket a check leaves gains no more than its limit every millisecond.
LEMMA CheckedGainsNoMore ==
    ASSUME NEW b \in Bucket, NEW limit \in Limits, NEW now \in Nat, NEW n \in Nat
    PROVE  Credit(Checked(b, limit, now), limit, now + n) <= Left(b, limit, now) + limit * n
<1>1. Checked(b, limit, now) \in Bucket /\ Fresh(Checked(b, limit, now), limit)
  BY CheckedType
<1> QED BY <1>1, CreditChecked, CreditGains

\* A client told to wait for several seconds that comes back at least a second
\* early is refused again, even if nobody else came meanwhile: Retry-After is
\* the least number of whole seconds that is enough (rate_limiter.py:96, 143).
THEOREM RetryIsTight ==
    ASSUME NEW b \in Bucket, NEW limit \in Limits, NEW now \in Nat, NEW n \in Nat,
           ~Allows(b, limit, now), n <= (RetryAfter(b, limit, now) - 1) * Second
    PROVE  ~Allows(Checked(b, limit, now), limit, now + n)
<1> DEFINE miss == WindowMs - Credit(b, limit, now)
           ms == Ceil(miss, limit)
           retry == RetryAfter(b, limit, now)
<1>1. /\ miss \in Nat \ {0} /\ Left(b, limit, now) = Credit(b, limit, now)
      /\ Credit(b, limit, now) \in Nat
  BY CreditType, LeftType, FullType, WindowType DEF Allows
<1>2. ms \in Nat
  BY <1>1, CeilNat DEF Limits
<1>3. retry \in Nat /\ retry >= 1
  BY RetryCovers
<1>4. ms >= 1
  <2>1. miss <= limit * ms
    BY <1>1, CeilCovers DEF Limits
  <2>2. limit * 0 = 0
    BY DEF Limits
  <2> HIDE DEF miss, ms
  <2> QED BY <1>1, <1>2, <2>1, <2>2
<1>5. retry = Greatest(1, Ceil(ms, Second))
  BY DEF RetryAfter
<1> HIDE DEF miss, ms, retry
<1>6. n + 1 <= ms
  <2>1. CASE retry = 1
    BY <1>2, <1>4, <2>1, WindowType DEF retry
  <2>2. CASE retry # 1
    <3>1. retry = Ceil(ms, Second)
      BY <1>5, <2>2 DEF Greatest
    <3>2. (retry - 1) \in Nat /\ (retry - 1) + 1 <= Ceil(ms, Second)
      BY <1>3, <3>1
    <3>3. Second * (retry - 1) < ms
      BY <1>2, <1>4, <3>2, CeilIsLeast, WindowType
    <3>4. Second * (retry - 1) = (retry - 1) * Second /\ (retry - 1) * Second \in Nat
      BY <3>2, ProductNat, WindowType
    <3>5. n <= (retry - 1) * Second
      BY DEF retry
    <3> QED BY <1>2, <3>3, <3>4, <3>5
  <2> QED BY <2>1, <2>2
<1>7. limit * n < miss
  BY <1>1, <1>6, CeilIsLeast DEF ms, Limits
<1>8. Credit(Checked(b, limit, now), limit, now + n) <= Left(b, limit, now) + limit * n
  BY CheckedGainsNoMore
<1>9. limit * n \in Nat /\ Credit(Checked(b, limit, now), limit, now + n) \in Nat
  <2>1. Credit(Checked(b, limit, now), limit, now + n) \in 0 .. Full(limit)
    BY CreditType, CheckedType
  <2> QED BY <2>1, ProductNat, FullType DEF Limits
<1> QED BY <1>1, <1>7, <1>8, <1>9, WindowType DEF miss, Allows

\* Nor is the bucket full a second before X-RateLimit-Reset
\* (rate_limiter.py:99, 144).
THEOREM ResetIsTight ==
    ASSUME NEW b \in Bucket, NEW limit \in Limits, NEW now \in Nat, NEW n \in Nat,
           now + n <= (ResetAt(b, limit, now) - 1) * Second
    PROVE  Credit(Checked(b, limit, now), limit, now + n) < Full(limit)
<1> DEFINE miss == Full(limit) - Left(b, limit, now)
           ms == Ceil(miss, limit)
           reset == ResetAt(b, limit, now)
<1>1. miss \in Nat \ {0} /\ Left(b, limit, now) \in Nat /\ Full(limit) \in Nat
  BY CreditType, LeftType, FullType, WindowType DEF Allows
<1>2. ms \in Nat /\ reset \in Nat
  <2>1. ms \in Nat
    BY <1>1, CeilNat DEF Limits
  <2> HIDE DEF ms
  <2>2. reset = Ceil(now + ms, Second)
    BY DEF ResetAt, ms
  <2> QED BY <2>1, <2>2, CeilNat, WindowType
<1>3. ms >= 1
  <2>1. miss <= limit * ms
    BY <1>1, CeilCovers DEF Limits
  <2>2. limit * 0 = 0
    BY DEF Limits
  <2> HIDE DEF miss, ms
  <2> QED BY <1>1, <1>2, <2>1, <2>2
<1>4. reset = Ceil(now + ms, Second)
  BY DEF ResetAt
<1> HIDE DEF miss, ms, reset
<1>5. n + 1 <= ms
  <2>1. reset >= 1
    <3>1. reset # 0
      <4>1. now + ms <= Second * reset
        BY <1>2, <1>3, <1>4, CeilCovers, WindowType
      <4>2. Second * 0 = 0
        BY WindowType
      <4> QED BY <1>2, <1>3, <4>1, <4>2
    <3> QED BY <1>2, <3>1
  <2>2. (reset - 1) \in Nat /\ (reset - 1) + 1 <= Ceil(now + ms, Second)
    BY <1>2, <1>4, <2>1
  <2>3. Second * (reset - 1) < now + ms
    <3>1. now + ms \in Nat \ {0}
      BY <1>2, <1>3
    <3> QED BY <2>2, <3>1, CeilIsLeast, WindowType
  <2>4. Second * (reset - 1) = (reset - 1) * Second /\ (reset - 1) * Second \in Nat
    BY <2>2, ProductNat, WindowType
  <2>5. now + n <= (reset - 1) * Second
    BY DEF reset
  <2> QED BY <1>2, <2>3, <2>4, <2>5
<1>6. limit * n < miss
  BY <1>1, <1>5, CeilIsLeast DEF ms, Limits
<1>7. Credit(Checked(b, limit, now), limit, now + n) <= Left(b, limit, now) + limit * n
  BY CheckedGainsNoMore
<1>8. limit * n \in Nat /\ Credit(Checked(b, limit, now), limit, now + n) \in Nat
  <2>1. Credit(Checked(b, limit, now), limit, now + n) \in 0 .. Full(limit)
    BY CreditType, CheckedType
  <2> QED BY <2>1, ProductNat, FullType DEF Limits
<1> QED BY <1>1, <1>6, <1>7, <1>8 DEF miss

-----------------------------------------------------------------------------
(***************************************************************************)
(* AdviceHolds.  Neither of its parts is inductive: they say what holds    *)
(* when the time has come, the invariant what will hold then.              *)
(***************************************************************************)

\* How long a client that was promised a token has to wait.
Wait(k) == Greatest(0, promised[k] - elapsed)

Kept(k) ==
    /\ promised[k] # Never
        => Credit(bucket[k], LimitOf(k), clock + Wait(k)) >= WindowMs
    /\ Credit(bucket[k], LimitOf(k), full_at[k]) = Full(LimitOf(k))

AdviceInv == IInv /\ \A k \in Keys : Kept(k)

\* What the parts speak of are numbers.
LEMMA KeyFacts ==
    ASSUME IInv, NEW k \in Keys
    PROVE  /\ bucket[k] \in Bucket /\ LimitOf(k) \in Limits /\ Fresh(bucket[k], LimitOf(k))
           /\ clock \in Nat /\ elapsed \in Nat /\ full_at[k] \in Nat
           /\ promised[k] \in Nat \cup {Never}
           /\ promised[k] # Never => promised[k] \in Nat /\ Wait(k) \in Nat
<1>1. promised[k] \in Nat \cup {Never} /\ elapsed \in Nat
  BY DEF IInv, TypeOK, BucketsTyped, ClockTyped, Times
<1>2. promised[k] # Never => promised[k] \in Nat /\ Wait(k) \in Nat
  BY <1>1 DEF Wait, Greatest
<1> QED BY <1>1, <1>2, LimitType DEF IInv, TypeOK, BucketsTyped, ClockTyped, BucketsFresh

\* An empty key is a full bucket at any time.
LEMMA NoKeyFull ==
    ASSUME NEW limit \in Limits, NEW now \in Nat
    PROVE  Credit(NoKey, limit, now) = Full(limit) /\ Full(limit) >= WindowMs /\ Full(limit) \in Nat
BY NoKeyGone, FullType DEF Credit

LEMMA KeptUnchanged ==
    ASSUME AdviceInv, UNCHANGED <<bucket, promised, full_at, clock, elapsed>>
    PROVE  \A k \in Keys : Kept(k)'
BY DEF AdviceInv, Kept, Wait, LimitOf

\* A check renews what is promised of its bucket; one it refuses takes nothing
\* from what was promised before.
LEMMA ScriptKept ==
    ASSUME AdviceInv, NEW j \in Keys, RunScript(j), UNCHANGED clockVars
    PROVE  \A k \in Keys : Kept(k)'
<1> DEFINE b == bucket[j]
           limit == LimitOf(j)
           retry_at == elapsed + Decide(j).retry_after_seconds * Second
<1>1. /\ b \in Bucket /\ limit \in Limits /\ Fresh(b, limit)
      /\ clock \in Nat /\ elapsed \in Nat /\ promised[j] \in Nat \cup {Never}
  BY KeyFacts DEF AdviceInv
<1>2. clock' = clock /\ elapsed' = elapsed
  BY DEF clockVars
<1>3. /\ bucket' = [bucket EXCEPT ![j] = Checked(b, limit, clock)]
      /\ full_at' = [full_at EXCEPT ![j] = ResetAt(b, limit, clock) * Second]
      /\ promised' = [promised EXCEPT ![j] =
                IF Allows(b, limit, clock) THEN Never
                ELSE IF promised[j] = Never THEN retry_at ELSE Least(promised[j], retry_at)]
      /\ Decide(j).retry_after_seconds = RetryAfter(b, limit, clock)
  BY DEF RunScript, Decide, Decision
<1>4. /\ bucket \in [Keys -> Bucket] /\ full_at \in [Keys -> Nat]
      /\ promised \in [Keys -> Nat \cup {Never}]
  BY DEF AdviceInv, IInv, TypeOK, BucketsTyped
<1>5. ASSUME NEW k \in Keys, k # j
      PROVE  Kept(k)'
  BY <1>2, <1>3, <1>4, <1>5 DEF AdviceInv, Kept, Wait, LimitOf
<1>6. bucket'[j] = Checked(b, limit, clock) /\ full_at'[j] = ResetAt(b, limit, clock) * Second
  BY <1>3, <1>4
<1> HIDE DEF b, limit
<1>7. Credit(bucket'[j], limit, full_at'[j]) = Full(limit)
  BY <1>1, <1>6, ResetCovers
<1>8. ASSUME promised'[j] # Never
      PROVE  Credit(bucket'[j], limit, clock + Greatest(0, promised'[j] - elapsed)) >= WindowMs
  <2>1. ~Allows(b, limit, clock)
    BY <1>3, <1>4, <1>8
  <2> DEFINE n == Decide(j).retry_after_seconds * Second
  <2>2. n \in Nat /\ WindowMs <= Left(b, limit, clock) + limit * n
    BY <1>1, <1>3, <2>1, RetryCovers
  <2>3. retry_at = elapsed + n
    OBVIOUS
  <2> HIDE DEF n, retry_at
  <2>4. promised'[j] = IF promised[j] = Never THEN retry_at ELSE Least(promised[j], retry_at)
    BY <1>3, <1>4, <2>1
  <2>5. CASE promised'[j] = retry_at
    <3>1. Greatest(0, promised'[j] - elapsed) = n
      BY <1>1, <2>2, <2>3, <2>5 DEF Greatest
    <3>2. WindowMs <= Full(limit) /\ WindowMs \in Nat
      BY <1>1, FullType, WindowType
    <3>3. WindowMs <= Credit(Checked(b, limit, clock), limit, clock + n)
      BY <1>1, <2>2, <3>2, CheckedGains
    <3>4. Credit(Checked(b, limit, clock), limit, clock + n) \in Nat
      <4>1. clock + n \in Nat
        BY <1>1, <2>2
      <4>2. Credit(Checked(b, limit, clock), limit, clock + n) \in 0 .. Full(limit)
        BY <1>1, <4>1, CreditType, CheckedType
      <4> QED BY <1>1, <4>2, FullType
    <3>5. Credit(Checked(b, limit, clock), limit, clock + n) >= WindowMs
      BY <3>2, <3>3, <3>4
    <3> QED BY <1>6, <3>1, <3>5
  <2>6. CASE promised'[j] # retry_at
    <3>1. promised[j] # Never /\ promised'[j] = promised[j] /\ promised[j] \in Nat
      BY <1>1, <2>4, <2>6 DEF Least
    <3> DEFINE w == Wait(j)
    <3>2. w \in Nat /\ Credit(b, limit, clock + w) >= WindowMs
      BY <3>1, KeyFacts DEF AdviceInv, Kept, b, limit
    <3>3. w = Greatest(0, promised'[j] - elapsed)
      BY <3>1 DEF Wait
    <3> HIDE DEF w
    <3>4. Left(b, limit, clock) = Credit(b, limit, clock)
      BY <1>1, <2>1, LeftType
    <3>5. Credit(b, limit, clock + w) <= Left(b, limit, clock) + limit * w
      BY <1>1, <3>2, <3>4, CreditGains
    <3>6. Credit(b, limit, clock + w) \in Nat /\ Credit(b, limit, clock + w) <= Full(limit)
      BY <1>1, <3>2, CreditType, FullType
    <3>7. Credit(b, limit, clock + w) <= Credit(Checked(b, limit, clock), limit, clock + w)
      BY <1>1, <3>2, <3>5, <3>6, CheckedGains
    <3>8. Credit(Checked(b, limit, clock), limit, clock + w) \in Nat
      BY <1>1, <3>2, CreditType, CheckedType, FullType
    <3> QED BY <1>6, <3>2, <3>3, <3>6, <3>7, <3>8, WindowType
  <2> QED BY <2>5, <2>6
<1>9. Kept(j)'
  BY <1>2, <1>7, <1>8 DEF Kept, Wait, LimitOf, limit
<1> QED BY <1>5, <1>9

\* A bucket without a key is full, now and later.
LEMMA DropKept ==
    ASSUME AdviceInv, NEW j \in Keys, bucket' = [bucket EXCEPT ![j] = NoKey],
           UNCHANGED <<promised, full_at, clock, elapsed>>
    PROVE  \A k \in Keys : Kept(k)'
<1>1. bucket'[j] = NoKey /\ \A k \in Keys : k # j => bucket'[k] = bucket[k]
  BY DEF AdviceInv, IInv, TypeOK, BucketsTyped
<1>2. ASSUME NEW k \in Keys, k # j
      PROVE  Kept(k)'
  BY <1>1, <1>2 DEF AdviceInv, Kept, Wait, LimitOf
<1>3. LimitOf(j) \in Limits /\ clock \in Nat /\ full_at[j] \in Nat
      /\ (promised[j] # Never => clock + Wait(j) \in Nat)
  BY KeyFacts DEF AdviceInv
<1>4. Kept(j)'
  BY <1>1, <1>3, NoKeyFull DEF Kept, Wait, LimitOf
<1> QED BY <1>2, <1>4

\* Whoever has to wait has a millisecond less to go, and whoever need not finds
\* the bucket no emptier.
LEMMA TickKept ==
    ASSUME AdviceInv, Tick
    PROVE  \A k \in Keys : Kept(k)'
<1>1. clock' = clock + 1 /\ elapsed' = elapsed + 1 /\ UNCHANGED <<bucket, promised, full_at>>
  BY DEF Tick, bucketVars
<1> SUFFICES ASSUME NEW k \in Keys
             PROVE  Kept(k)'
  OBVIOUS
<1>2. /\ bucket[k] \in Bucket /\ LimitOf(k) \in Limits /\ clock \in Nat /\ elapsed \in Nat
      /\ promised[k] # Never => promised[k] \in Nat /\ Wait(k) \in Nat
  BY KeyFacts DEF AdviceInv
<1>3. ASSUME promised[k] # Never
      PROVE  Credit(bucket[k], LimitOf(k), clock' + Wait(k)') >= WindowMs
  <2>1. Wait(k)' \in Nat /\ clock + Wait(k) <= clock' + Wait(k)'
    BY <1>1, <1>2, <1>3 DEF Wait, Greatest
  <2>2. Credit(bucket[k], LimitOf(k), clock + Wait(k)) >= WindowMs
    BY <1>3 DEF AdviceInv, Kept
  <2>3. clock + Wait(k) \in Nat /\ clock' + Wait(k)' \in Nat
    BY <1>1, <1>2, <1>3, <2>1
  <2>4. Credit(bucket[k], LimitOf(k), clock + Wait(k))
            <= Credit(bucket[k], LimitOf(k), clock' + Wait(k)')
    BY <1>2, <2>1, <2>3, CreditStepBack
  <2>5. /\ Credit(bucket[k], LimitOf(k), clock + Wait(k)) \in Nat
        /\ Credit(bucket[k], LimitOf(k), clock' + Wait(k)') \in Nat
    BY <1>2, <2>3, CreditType, FullType
  <2> QED BY <2>2, <2>4, <2>5, WindowType
<1>4. Credit(bucket[k], LimitOf(k), full_at[k]) = Full(LimitOf(k))
  BY DEF AdviceInv, Kept
<1> QED BY <1>1, <1>3, <1>4 DEF Kept, LimitOf

\* When the clock is set back nothing is promised any more; when a bucket will
\* be full does not depend on what the clock tells.
LEMMA StepBackKept ==
    ASSUME AdviceInv, NEW time \in 0 .. (clock - 1), StepBack(time)
    PROVE  \A k \in Keys : Kept(k)'
BY DEF StepBack, AdviceInv, Kept, LimitOf

LEMMA AdviceStep ==
    ASSUME AdviceInv, [Next]_vars
    PROVE  AdviceInv'
<1> DEFINE Goal == \A k \in Keys : Kept(k)'
<1>1. IInv'
  BY TypeStep, BoundStep DEF AdviceInv, IInv
<1>2. ASSUME NEW q \in Requests, GlobalAnswered(q)
      PROVE  Goal
  BY <1>2, KeyType, ScriptKept DEF GlobalAnswered, AdviceInv, IInv
<1>3. ASSUME NEW q \in Requests, EndpointAnswered(q)
      PROVE  Goal
  <2>1. kind[q] \in Endpoints
    BY <1>3 DEF EndpointAnswered, Resume, AdviceInv, IInv, TypeOK, RequestsTyped
  <2> QED BY <1>3, <2>1, KeyType, ScriptKept DEF EndpointAnswered, AdviceInv, IInv
<1>4. ASSUME NEW q \in Requests, NEW from, NEW after, NEW k \in Keys, Fails(q, from, after, k)
      PROVE  Goal
  <2>1. CASE RunScript(k)
    BY <1>4, <2>1, ScriptKept DEF Fails
  <2>2. CASE UNCHANGED bucketVars
    BY <1>4, <2>2, KeptUnchanged DEF Fails, bucketVars, clockVars
  <2> QED BY <1>4, <2>1, <2>2 DEF Fails
<1>5. ASSUME NEW q \in Requests, GlobalFails(q)
      PROVE  Goal
  BY <1>4, <1>5, KeyType DEF GlobalFails, AdviceInv, IInv
<1>6. ASSUME NEW q \in Requests, EndpointFails(q)
      PROVE  Goal
  <2>1. kind[q] \in Endpoints
    BY <1>6 DEF EndpointFails, Fails, Resume, AdviceInv, IInv, TypeOK, RequestsTyped
  <2> QED BY <1>4, <1>6, <2>1, KeyType DEF EndpointFails, AdviceInv, IInv
<1>7. ASSUME NEW q \in Requests,
             \/ \E c \in Clients, k \in Kinds : Arrive(q, c, k)
             \/ BodyRefused(q) \/ HandlerReturns(q) \/ HandlerRaises(q) \/ Leave(q)
      PROVE  Goal
  BY <1>7, KeptUnchanged
     DEF Arrive, BodyRefused, HandlerReturns, HandlerRaises, Leave, bucketVars, clockVars
<1>8. ASSUME NEW k \in Keys, Expire(k) \/ Lose(k)
      PROVE  Goal
  BY <1>8, DropKept DEF Expire, Lose, clockVars
<1>9. Tick => Goal
  BY TickKept
<1>10. ASSUME NEW time \in 0 .. (clock - 1), StepBack(time)
       PROVE  Goal
  BY <1>10, StepBackKept
<1>11. UNCHANGED vars => Goal
  BY KeptUnchanged DEF vars, bucketVars, clockVars
<1> HIDE DEF Goal
<1>12. Goal
  BY <1>2, <1>3, <1>5, <1>6, <1>7, <1>8, <1>9, <1>10, <1>11 DEF Next
<1> QED BY <1>1, <1>12 DEF Goal, AdviceInv

\* A refused client that waits for Retry-After is not refused again, unless
\* another request took the token or the clock was set back; by
\* X-RateLimit-Reset the bucket is full (rate_limiter.py:96-99, 143-144).
THEOREM AdviceIsTrue == Spec => []AdviceHolds
<1>1. Init => AdviceInv
  <2> SUFFICES ASSUME Init
               PROVE  AdviceInv
    OBVIOUS
  <2>1. IInv
    BY InitIInv
  <2>2. \A k \in Keys : bucket[k] = NoKey /\ promised[k] = Never /\ full_at[k] = 0
    BY DEF Init
  <2>3. \A k \in Keys : Kept(k)
    BY <2>2, LimitType, NoKeyFull DEF Kept
  <2> QED BY <2>1, <2>3 DEF AdviceInv
<1>2. AdviceInv /\ [Next]_vars => AdviceInv'
  BY AdviceStep
<1>3. AdviceInv => AdviceHolds
  <2> SUFFICES ASSUME AdviceInv, NEW k \in Keys
               PROVE  /\ (promised[k] # Never /\ elapsed >= promised[k])
                            => Allows(bucket[k], LimitOf(k), clock)
                      /\ clock >= full_at[k]
                            => Credit(bucket[k], LimitOf(k), clock) = Full(LimitOf(k))
    BY DEF AdviceHolds
  <2>1. /\ bucket[k] \in Bucket /\ LimitOf(k) \in Limits
        /\ clock \in Nat /\ elapsed \in Nat /\ full_at[k] \in Nat
        /\ promised[k] # Never => promised[k] \in Nat
    BY KeyFacts DEF AdviceInv
  <2>2. (promised[k] # Never /\ elapsed >= promised[k]) => Wait(k) = 0
    BY <2>1 DEF Wait, Greatest
  <2>3. (promised[k] # Never /\ elapsed >= promised[k]) => Allows(bucket[k], LimitOf(k), clock)
    BY <2>1, <2>2 DEF AdviceInv, Kept, Allows
  <2>4. clock >= full_at[k] => Credit(bucket[k], LimitOf(k), clock) = Full(LimitOf(k))
    <3>1. Credit(bucket[k], LimitOf(k), full_at[k]) = Full(LimitOf(k))
      BY DEF AdviceInv, Kept
    <3>2. Credit(bucket[k], LimitOf(k), clock) \in 0 .. Full(LimitOf(k)) /\ Full(LimitOf(k)) \in Nat
      BY <2>1, CreditType, FullType
    <3>3. clock >= full_at[k] => Full(LimitOf(k)) <= Credit(bucket[k], LimitOf(k), clock)
      BY <2>1, <3>1, CreditStepBack
    <3> QED BY <3>2, <3>3
  <2> QED BY <2>3, <2>4
<1> QED BY <1>1, <1>2, <1>3, PTL DEF Spec

-----------------------------------------------------------------------------
(***************************************************************************)
(* HeadersFitResponse.                                                     *)
(***************************************************************************)

\* The headers of a response to a request that was let through.
Fits(h, scopes, k) ==
    /\ (scopes # {}) = h.allowed
    /\ k \in scopes => h.limit = Limit[k]
FitsPaid(h, q) == Fits(h, paid[q], kind[q])

\* The headers of a refusal.
Refusal(h) == ~h.allowed /\ h.remaining = 0 /\ h.retry_after_seconds >= 1

\* What a request at each await was told and has paid.
ToldAndPaid(q) ==
    /\ pc[q] \in {"idle", "global"} => given[q] = NoDecision /\ paid[q] = {}
    /\ pc[q] \in {"idle", "global", "endpoint"} => endpoint_given[q] = NoDecision
    /\ pc[q] = "endpoint" => paid[q] = {Global} /\ given[q].allowed
    /\ pc[q] = "handler" => FitsPaid(Headers(given[q], endpoint_given[q]), q)
    /\ pc[q] = "done" =>
        /\ response[q].status = 429 => Refusal(response[q].headers)
        /\ response[q].status = 200 => FitsPaid(response[q].headers, q)

HeadersInv == TypeOK /\ \A q \in Requests : ToldAndPaid(q)

\* What a check answers.
LEMMA DecisionFacts ==
    ASSUME TypeOK, NEW k \in Keys
    PROVE  LET d == Decide(k) IN
           /\ d \in RateLimitDecision /\ d.limit = LimitOf(k) /\ d # NoDecision
           /\ ~d.allowed => Refusal(d)
<1> DEFINE b == bucket[k]
           limit == LimitOf(k)
           d == Decide(k)
<1>1. b \in Bucket /\ limit \in Limits /\ clock \in Nat
  BY LimitType DEF TypeOK, BucketsTyped, ClockTyped
<1>2. d \in RateLimitDecision
  BY <1>1, DecisionType DEF Decide
<1>3. /\ d.limit = limit /\ d.allowed = Allows(b, limit, clock)
      /\ d.remaining = Left(b, limit, clock) \div WindowMs
      /\ d.retry_after_seconds = RetryAfter(b, limit, clock)
  BY DEF Decide, Decision
<1>4. d # NoDecision
  BY <1>1, <1>3 DEF NoDecision, Limits
<1> HIDE DEF b, limit, d
<1>5. ASSUME ~Allows(b, limit, clock)
      PROVE  d.remaining = 0 /\ d.retry_after_seconds >= 1
  <2>1. /\ Left(b, limit, clock) = Credit(b, limit, clock)
        /\ Credit(b, limit, clock) \in Nat /\ Credit(b, limit, clock) < WindowMs
    BY <1>1, <1>5, LeftType, CreditType, FullType, WindowType DEF Allows
  <2>2. \A x \in Nat : x < WindowMs => x \div WindowMs = 0
    BY WindowType
  <2> QED BY <1>1, <1>3, <1>5, <2>1, <2>2, RetryCovers
<1> QED BY <1>2, <1>3, <1>4, <1>5 DEF Refusal, b, limit, d

\* A request nothing was checked for, and one that was allowed.
LEMMA FitsUnpaid == ASSUME NEW k PROVE Fits(NoDecision, {}, k)
<1>1. NoDecision.allowed = FALSE
  BY DEF NoDecision
<1> QED BY <1>1 DEF Fits

LEMMA FitsAllowed ==
    ASSUME NEW h \in RateLimitDecision, NEW scopes, NEW k, h.allowed, scopes # {},
           k \in scopes => h.limit = Limit[k]
    PROVE  Fits(h, scopes, k)
<1>1. h.allowed = TRUE
  BY DEF RateLimitDecision
<1> QED BY <1>1 DEF Fits

\* A step of one request leaves the others alone.
LEMMA OthersKeepHeaders ==
    ASSUME HeadersInv, TypeOK', NEW q \in Requests, ToldAndPaid(q)',
           \A p \in Requests : p # q =>
                /\ pc'[p] = pc[p] /\ kind'[p] = kind[p] /\ given'[p] = given[p]
                /\ endpoint_given'[p] = endpoint_given[p]
                /\ response'[p] = response[p] /\ paid'[p] = paid[p]
    PROVE  HeadersInv'
BY DEF HeadersInv, ToldAndPaid, FitsPaid

LEMMA ArriveHeaders ==
    ASSUME HeadersInv, TypeOK', NEW q \in Requests, NEW c \in Clients, NEW k \in Kinds, Arrive(q, c, k)
    PROVE  HeadersInv'
<1>1. /\ pc[q] = "idle" /\ pc'[q] \in {"global", "handler"}
      /\ \A p \in Requests : p # q => pc'[p] = pc[p] /\ kind'[p] = kind[p]
      /\ UNCHANGED <<given, endpoint_given, response, paid>>
  BY DEF Arrive, Resume, HeadersInv, TypeOK, RequestsTyped
<1>2. given[q] = NoDecision /\ paid[q] = {} /\ endpoint_given[q] = NoDecision
  BY <1>1 DEF HeadersInv, ToldAndPaid
<1>3. FitsPaid(Headers(given[q], endpoint_given[q]), q)'
  BY <1>1, <1>2, FitsUnpaid DEF FitsPaid, Headers
<1>4. ToldAndPaid(q)'
  BY <1>1, <1>2, <1>3 DEF ToldAndPaid
<1> QED BY <1>1, <1>4, OthersKeepHeaders

LEMMA GlobalAnsweredHeaders ==
    ASSUME HeadersInv, TypeOK', NEW q \in Requests, GlobalAnswered(q)
    PROVE  HeadersInv'
<1> DEFINE k == <<client[q], Global>>
           d == Decide(k)
<1>1. k \in Keys /\ LimitOf(k) = Limit[Global]
  BY KeyType DEF HeadersInv, LimitOf
<1>2. d \in RateLimitDecision /\ d.limit = Limit[Global] /\ d # NoDecision /\ (~d.allowed => Refusal(d))
  BY <1>1, DecisionFacts DEF HeadersInv
<1>3. /\ pc[q] = "global" /\ pc' = [pc EXCEPT ![q] = IF d.allowed THEN AfterGlobal(q, unavailable[q]) ELSE "done"]
      /\ given' = [given EXCEPT ![q] = d]
      /\ paid' = [paid EXCEPT ![q] = IF d.allowed THEN @ \cup {Global} ELSE @]
      /\ d.allowed => response' = response
      /\ ~d.allowed => response' = [response EXCEPT ![q] = [status |-> 429, headers |-> d]]
      /\ UNCHANGED <<kind, endpoint_given>>
  BY DEF GlobalAnswered, Resume, Pay, Respond
<1> HIDE DEF k, d
<1>4. paid[q] = {} /\ endpoint_given[q] = NoDecision
  BY <1>3 DEF HeadersInv, ToldAndPaid
<1>5. /\ pc'[q] = IF d.allowed THEN AfterGlobal(q, unavailable[q]) ELSE "done"
      /\ given'[q] = d /\ endpoint_given'[q] = NoDecision
      /\ paid'[q] = IF d.allowed THEN {Global} ELSE {}
      /\ ~d.allowed => response'[q].status = 429 /\ response'[q].headers = d
      /\ \A p \in Requests : p # q =>
            /\ pc'[p] = pc[p] /\ given'[p] = given[p] /\ paid'[p] = paid[p]
            /\ response'[p] = response[p]
  BY <1>3, <1>4 DEF HeadersInv, TypeOK, RequestsTyped
<1>6. d.allowed \in BOOLEAN
  BY <1>2 DEF RateLimitDecision
<1>7. CASE d.allowed
  <2>1. pc'[q] \in {"endpoint", "handler"} /\ paid'[q] = {Global}
    BY <1>5, <1>7 DEF AfterGlobal
  <2>2. kind[q] \in {Global} => d.limit = Limit[kind[q]]
    BY <1>2
  <2>3. FitsPaid(Headers(given[q], endpoint_given[q]), q)'
    BY <1>2, <1>3, <1>5, <1>7, <2>1, <2>2, FitsAllowed DEF FitsPaid, Headers
  <2> QED BY <1>3, <1>5, <1>7, <2>1, <2>3, OthersKeepHeaders DEF ToldAndPaid
<1>8. CASE ~d.allowed
  <2>1. ToldAndPaid(q)'
    BY <1>2, <1>5, <1>8 DEF ToldAndPaid, Refusal
  <2> QED BY <1>3, <1>5, <2>1, OthersKeepHeaders
<1> QED BY <1>6, <1>7, <1>8

LEMMA EndpointAnsweredHeaders ==
    ASSUME HeadersInv, TypeOK', NEW q \in Requests, EndpointAnswered(q)
    PROVE  HeadersInv'
<1> DEFINE k == <<client[q], kind[q]>>
           d == Decide(k)
<1>1. kind[q] \in Endpoints
  BY DEF EndpointAnswered, Resume, HeadersInv, TypeOK, RequestsTyped
<1>2. k \in Keys /\ LimitOf(k) = Limit[kind[q]]
  BY <1>1, KeyType DEF HeadersInv, LimitOf
<1>3. /\ d \in RateLimitDecision /\ d.limit = Limit[kind[q]] /\ d # NoDecision
      /\ ~d.allowed => Refusal(d)
  BY <1>2, DecisionFacts DEF HeadersInv
<1>4. Headers(given[q], d) = d
  BY <1>3 DEF Headers
<1>5. /\ pc[q] = "endpoint" /\ pc' = [pc EXCEPT ![q] = IF d.allowed THEN "handler" ELSE "done"]
      /\ endpoint_given' = [endpoint_given EXCEPT ![q] = d]
      /\ paid' = [paid EXCEPT ![q] = IF d.allowed THEN @ \cup {kind[q]} ELSE @]
      /\ d.allowed => response' = response
      /\ ~d.allowed => response' = [response EXCEPT ![q] = [status |-> 429, headers |-> d]]
      /\ UNCHANGED <<kind, given>>
  BY <1>4 DEF EndpointAnswered, Resume, Pay, Respond
<1> HIDE DEF k, d
<1>6. paid[q] = {Global}
  BY <1>5 DEF HeadersInv, ToldAndPaid
<1>7. /\ pc'[q] = IF d.allowed THEN "handler" ELSE "done"
      /\ endpoint_given'[q] = d
      /\ d.allowed => paid'[q] = {Global, kind[q]}
      /\ ~d.allowed => response'[q].status = 429 /\ response'[q].headers = d
      /\ \A p \in Requests : p # q =>
            /\ pc'[p] = pc[p] /\ endpoint_given'[p] = endpoint_given[p] /\ paid'[p] = paid[p]
            /\ response'[p] = response[p]
  BY <1>5, <1>6 DEF HeadersInv, TypeOK, RequestsTyped
<1>8. d.allowed \in BOOLEAN
  BY <1>3 DEF RateLimitDecision
<1>9. CASE d.allowed
  <2>1. FitsPaid(Headers(given[q], endpoint_given[q]), q)'
    BY <1>3, <1>5, <1>7, <1>9, FitsAllowed DEF FitsPaid, Headers
  <2>2. ToldAndPaid(q)'
    BY <1>7, <1>9, <2>1 DEF ToldAndPaid
  <2> QED BY <1>5, <1>7, <2>2, OthersKeepHeaders
<1>10. CASE ~d.allowed
  <2>1. ToldAndPaid(q)'
    BY <1>3, <1>7, <1>10 DEF ToldAndPaid, Refusal
  <2> QED BY <1>5, <1>7, <2>1, OthersKeepHeaders
<1> QED BY <1>8, <1>9, <1>10

\* What a request has been told so far fits what it has paid.
LEMMA CheckedFits ==
    ASSUME HeadersInv, NEW q \in Requests, pc[q] \in {"global", "endpoint", "handler"}
    PROVE  FitsPaid(Headers(given[q], endpoint_given[q]), q)
<1>1. CASE pc[q] = "handler"
  BY <1>1 DEF HeadersInv, ToldAndPaid
<1>2. CASE pc[q] \in {"global", "endpoint"}
  <2>1. /\ endpoint_given[q] = NoDecision
        /\ pc[q] = "global" => given[q] = NoDecision /\ paid[q] = {}
        /\ pc[q] = "endpoint" => paid[q] = {Global} /\ given[q].allowed /\ kind[q] \in Endpoints
        /\ given[q] \in RateLimitDecision
    BY <1>2 DEF HeadersInv, ToldAndPaid, TypeOK, RequestsTyped
  <2>2. Headers(given[q], endpoint_given[q]) = given[q]
    BY <2>1 DEF Headers
  <2>3. CASE pc[q] = "global"
    BY <2>1, <2>2, <2>3, FitsUnpaid DEF FitsPaid
  <2>4. CASE pc[q] = "endpoint"
    BY <2>1, <2>2, <2>4, FitsAllowed, LimitAssumption DEF FitsPaid
  <2> QED BY <1>2, <2>3, <2>4
<1> QED BY <1>1, <1>2

LEMMA FailsHeaders ==
    ASSUME HeadersInv, TypeOK', NEW q \in Requests, GlobalFails(q) \/ EndpointFails(q)
    PROVE  HeadersInv'
<1>1. /\ pc[q] \in {"global", "endpoint"}
      /\ pc' = [pc EXCEPT ![q] = IF LetsThrough THEN "handler" ELSE "done"]
      /\ UNCHANGED <<kind, given, endpoint_given, paid>>
      /\ LetsThrough => response' = response
      /\ ~LetsThrough => \E h : response' = [response EXCEPT ![q] = [status |-> 503, headers |-> h]]
      /\ pc[q] = "endpoint" => kind[q] \in Endpoints
  BY DEF GlobalFails, EndpointFails, Fails, AfterGlobal, Resume, Respond, HeadersInv, TypeOK, RequestsTyped
<1>2. /\ pc'[q] = IF LetsThrough THEN "handler" ELSE "done"
      /\ ~LetsThrough => response'[q].status = 503
      /\ \A p \in Requests : p # q => pc'[p] = pc[p] /\ response'[p] = response[p]
  BY <1>1 DEF HeadersInv, TypeOK, RequestsTyped
<1>3. FitsPaid(Headers(given[q], endpoint_given[q]), q)
  BY <1>1, CheckedFits
<1>4. ToldAndPaid(q)'
  BY <1>1, <1>2, <1>3 DEF ToldAndPaid, FitsPaid
<1> QED BY <1>1, <1>2, <1>4, OthersKeepHeaders

LEMMA HandlerHeaders ==
    ASSUME HeadersInv, TypeOK', NEW q \in Requests,
           BodyRefused(q) \/ HandlerReturns(q) \/ HandlerRaises(q)
    PROVE  HeadersInv'
<1> DEFINE h == Headers(given[q], endpoint_given[q])
<1>1. /\ pc[q] \in {"endpoint", "handler"} /\ pc' = [pc EXCEPT ![q] = "done"]
      /\ UNCHANGED <<kind, given, endpoint_given, paid>>
      /\ \/ response' = [response EXCEPT ![q] = [status |-> 200, headers |-> h]]
         \/ response' = [response EXCEPT ![q] = [status |-> 500, headers |-> NoDecision]]
  BY DEF BodyRefused, HandlerReturns, HandlerRaises, Resume, Respond
<1>2. FitsPaid(h, q)
  BY <1>1, CheckedFits
<1> HIDE DEF h
<1>3. /\ pc'[q] = "done"
      /\ \/ response'[q].status = 200 /\ response'[q].headers = h
         \/ response'[q].status = 500
      /\ \A p \in Requests : p # q => pc'[p] = pc[p] /\ response'[p] = response[p]
  BY <1>1 DEF HeadersInv, TypeOK, RequestsTyped
<1>4. ToldAndPaid(q)'
  BY <1>1, <1>2, <1>3 DEF ToldAndPaid, FitsPaid
<1> QED BY <1>1, <1>3, <1>4, OthersKeepHeaders

LEMMA LeaveHeaders ==
    ASSUME HeadersInv, TypeOK', NEW q \in Requests, Leave(q)
    PROVE  HeadersInv'
<1>1. /\ pc'[q] = "idle" /\ given'[q] = NoDecision /\ endpoint_given'[q] = NoDecision
      /\ paid'[q] = {}
      /\ \A p \in Requests : p # q =>
            /\ pc'[p] = pc[p] /\ kind'[p] = kind[p] /\ given'[p] = given[p]
            /\ endpoint_given'[p] = endpoint_given[p]
            /\ response'[p] = response[p] /\ paid'[p] = paid[p]
  BY DEF Leave, Resume, HeadersInv, TypeOK, RequestsTyped
<1>2. ToldAndPaid(q)'
  BY <1>1 DEF ToldAndPaid
<1> QED BY <1>1, <1>2, OthersKeepHeaders

\* The headers of a response are those of the narrowest scope that decided on
\* the request, and a refusal has the refusing scope's (README.md:214-215).
THEOREM HeadersFit == Spec => []HeadersFitResponse
<1>1. Init => HeadersInv
  <2> SUFFICES ASSUME Init
               PROVE  HeadersInv
    OBVIOUS
  <2>1. TypeOK
    BY InitIInv DEF IInv
  <2> QED BY <2>1 DEF HeadersInv, Init, ToldAndPaid
<1>2. HeadersInv /\ [Next]_vars => HeadersInv'
  <2> SUFFICES ASSUME HeadersInv, [Next]_vars
               PROVE  HeadersInv'
    OBVIOUS
  <2>1. TypeOK'
    BY TypeStep DEF HeadersInv
  <2>2. ASSUME \/ \E k \in Keys : Expire(k) \/ Lose(k)
               \/ Tick
               \/ \E time \in 0 .. (clock - 1) : StepBack(time)
               \/ UNCHANGED vars
        PROVE  HeadersInv'
    <3>1. UNCHANGED requestVars
      BY <2>2 DEF Expire, Lose, Tick, StepBack, vars
    <3> QED BY <2>1, <3>1 DEF requestVars, HeadersInv, ToldAndPaid, FitsPaid
  <2> QED BY <2>1, <2>2, ArriveHeaders, GlobalAnsweredHeaders, EndpointAnsweredHeaders,
             FailsHeaders, HandlerHeaders, LeaveHeaders DEF Next
<1>3. HeadersInv => HeadersFitResponse
  BY DEF HeadersInv, ToldAndPaid, FitsPaid, Fits, Refusal, HeadersFitResponse
<1> QED BY <1>1, <1>2, <1>3, PTL DEF Spec
=============================================================================
