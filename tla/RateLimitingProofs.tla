------------------------- MODULE RateLimitingProofs -------------------------
(***************************************************************************)
(* For any limits, window, clients, requests and endpoints, and whatever   *)
(* checks fail, keys expire and clocks are set back: a bucket never gives  *)
(* more tokens in a stretch of time than its capacity and what it gains in *)
(* that stretch.                                                           *)
(*                                                                         *)
(* The bound alone is not inductive.  What is preserved is that the tokens *)
(* given and the credit still in the bucket are within it together.        *)
(***************************************************************************)
EXTENDS RateLimiting, TLAPS

-----------------------------------------------------------------------------
(* Arithmetic. *)

\* Multiplication is monotone.
LEMMA ProductMonotone ==
    ASSUME NEW a \in Nat, NEW x \in Int, NEW y \in Int, x <= y
    PROVE  a * x <= a * y
<1>1. a * (y - x) >= 0  OBVIOUS
<1>2. a * (y - x) = a * y - a * x  OBVIOUS
<1> QED  BY <1>1, <1>2

\* A product of naturals is a natural.
LEMMA ProductNat ==
    ASSUME NEW a \in Nat, NEW x \in Nat
    PROVE  a * x \in Nat
OBVIOUS

\* Rounding up a natural gives a natural.
LEMMA CeilNat ==
    ASSUME NEW x \in Nat, NEW y \in Nat \ {0}
    PROVE  Ceil(x, y) \in Nat
<1>1. x + y - 1 \in Nat  OBVIOUS
<1>2. \A n \in Nat : n \div y \in Nat  OBVIOUS
<1> QED  BY <1>1, <1>2 DEF Ceil

\* The window and the life of a key are positive.
LEMMA WindowType ==
    /\ Second \in Nat \ {0}
    /\ WindowMs \in Nat \ {0}
    /\ Lifetime \in Nat
    /\ Lifetime >= WindowMs
<1>1. \A a, x \in Nat \ {0} : a * x \in Nat \ {0}
  <2> SUFFICES ASSUME NEW a \in Nat \ {0}, NEW x \in Nat \ {0}
               PROVE  a * x \in Nat \ {0}
    OBVIOUS
  <2>1. a * 1 <= a * x  BY ProductMonotone
  <2> QED  BY <2>1
<1>2. WindowMs \in Nat \ {0}  BY <1>1, BucketAssumption DEF WindowMs
<1> QED  BY <1>2, BucketAssumption DEF Lifetime

-----------------------------------------------------------------------------
(* Buckets. *)

Limits == Nat \ {0}

\* A full bucket holds a token at least.
LEMMA FullType ==
    ASSUME NEW limit \in Limits
    PROVE  Full(limit) \in Nat /\ Full(limit) >= WindowMs
<1>1. WindowMs * 1 <= WindowMs * limit
  BY ProductMonotone, WindowType DEF Limits
<1>2. WindowMs * limit = limit * WindowMs  BY WindowType DEF Limits
<1>3. limit * WindowMs \in Nat  BY ProductNat, WindowType DEF Limits
<1> QED  BY <1>1, <1>2, <1>3, WindowType DEF Full

\* A bucket never holds more than it can.
LEMMA CreditType ==
    ASSUME NEW b \in Bucket, NEW limit \in Limits, NEW now \in Nat
    PROVE  Credit(b, limit, now) \in 0 .. Full(limit)
<1> DEFINE gained == Greatest(0, now - b.updated_at)
<1>1. b.credit \in Nat /\ b.updated_at \in Nat  BY DEF Bucket
<1>2. gained \in Nat  BY <1>1 DEF Greatest
<1>3. limit * gained \in Nat  BY <1>2, ProductNat DEF Limits
<1>4. Full(limit) \in Nat  BY FullType
<1> HIDE DEF gained
<1>5. Least(Full(limit), b.credit + limit * gained) \in 0 .. Full(limit)
  BY <1>1, <1>3, <1>4 DEF Least
<1> QED  BY <1>4, <1>5 DEF Credit, gained

\* What a check leaves is what there was, less the token it gave.
LEMMA LeftType ==
    ASSUME NEW b \in Bucket, NEW limit \in Limits, NEW now \in Nat
    PROVE  /\ Left(b, limit, now) \in 0 .. Full(limit)
           /\ Allows(b, limit, now)
                => Left(b, limit, now) = Credit(b, limit, now) - WindowMs
           /\ ~Allows(b, limit, now)
                => Left(b, limit, now) = Credit(b, limit, now)
<1>1. Credit(b, limit, now) \in 0 .. Full(limit)  BY CreditType
<1>2. Full(limit) \in Nat  BY FullType
<1> QED  BY <1>1, <1>2, WindowType DEF Left, Allows

\* A key a check leaves is well formed and fresh.
Fresh(b, limit) ==
    /\ b.credit <= Full(limit)
    /\ b.expires_at # -1 => b.expires_at = b.updated_at + Lifetime

LEMMA CheckedType ==
    ASSUME NEW b \in Bucket, NEW limit \in Limits, NEW now \in Nat
    PROVE  /\ Checked(b, limit, now) \in Bucket
           /\ Fresh(Checked(b, limit, now), limit)
<1>1. Left(b, limit, now) \in Nat /\ Left(b, limit, now) <= Full(limit)
  BY LeftType, FullType
<1>2. now + Lifetime \in Nat  BY WindowType
<1> QED  BY <1>1, <1>2 DEF Checked, Bucket, Fresh

\* The credit a check leaves is there right after it.
LEMMA CreditChecked ==
    ASSUME NEW b \in Bucket, NEW limit \in Limits, NEW now \in Nat
    PROVE  Credit(Checked(b, limit, now), limit, now) = Left(b, limit, now)
<1> DEFINE after == Checked(b, limit, now)
<1>1. Exists(after, now)  BY WindowType DEF Exists, Checked
<1>2. Greatest(0, now - after.updated_at) = 0  BY DEF Checked, Greatest
<1>3. limit * 0 = 0  BY DEF Limits
<1>4. Left(b, limit, now) \in 0 .. Full(limit) /\ Full(limit) \in Nat
  BY LeftType, FullType
<1>5. after.credit = Left(b, limit, now)  BY DEF Checked
<1>6. Credit(after, limit, now) = Least(Full(limit), after.credit + limit * 0)
  BY <1>1, <1>2 DEF Credit
<1> QED  BY <1>3, <1>4, <1>5, <1>6 DEF Least

\* The answer of a check is well formed.
LEMMA DecisionType ==
    ASSUME NEW b \in Bucket, NEW limit \in Limits, NEW now \in Nat
    PROVE  Decision(b, limit, now) \in RateLimitDecision
<1> DEFINE credit == Credit(b, limit, now)
           left == Left(b, limit, now)
<1>1. credit \in Nat /\ left \in Nat /\ left <= Full(limit) /\ Full(limit) \in Nat
  BY CreditType, LeftType, FullType
<1>2. left \div WindowMs \in Nat
  <2>1. \A n \in Nat : n \div WindowMs \in Nat  BY WindowType
  <2> QED  BY <1>1, <2>1
<1>3. RetryAfter(b, limit, now) \in Nat
  <2>1. CASE Allows(b, limit, now)  BY <2>1 DEF RetryAfter
  <2>2. CASE ~Allows(b, limit, now)
    <3>1. WindowMs - credit \in Nat  BY <1>1, <2>2, WindowType DEF Allows
    <3>2. Ceil(WindowMs - credit, limit) \in Nat  BY <3>1, CeilNat DEF Limits
    <3>3. Ceil(Ceil(WindowMs - credit, limit), Second) \in Nat
      BY <3>2, CeilNat, WindowType
    <3> QED  BY <2>2, <3>3 DEF RetryAfter, Greatest
  <2> QED  BY <2>1, <2>2
<1>4. ResetAt(b, limit, now) \in Nat
  <2>1. Full(limit) - left \in Nat  BY <1>1
  <2>2. Ceil(Full(limit) - left, limit) \in Nat  BY <2>1, CeilNat DEF Limits
  <2>3. now + Ceil(Full(limit) - left, limit) \in Nat  BY <2>2
  <2> QED  BY <2>3, CeilNat, WindowType DEF ResetAt
<1>5. Allows(b, limit, now) \in BOOLEAN  BY DEF Allows
<1> QED  BY <1>2, <1>3, <1>4, <1>5 DEF Decision, RateLimitDecision, Limits

\* A millisecond adds at most limit credit, be it the one in which the key
\* expires: a key lives long enough for its bucket to fill.
LEMMA CreditTick ==
    ASSUME NEW b \in Bucket, NEW limit \in Limits, NEW now \in Nat, Fresh(b, limit)
    PROVE  Credit(b, limit, now + 1) <= Credit(b, limit, now) + limit
<1> DEFINE gained(n) == Greatest(0, n - b.updated_at)
<1>1. b.credit \in Nat /\ b.updated_at \in Nat  BY DEF Bucket
<1>2. Full(limit) \in Nat  BY FullType
<1>3. Credit(b, limit, now) \in 0 .. Full(limit)  BY CreditType
<1>4. CASE Exists(b, now + 1)
  <2>1. Exists(b, now)  BY <1>4 DEF Exists, Bucket
  <2>2. gained(now) \in Nat /\ gained(now + 1) \in Nat /\ gained(now + 1) <= gained(now) + 1
    BY <1>1 DEF Greatest
  <2>3. Credit(b, limit, now) = Least(Full(limit), b.credit + limit * gained(now))
    BY <2>1 DEF Credit
  <2>4. Credit(b, limit, now + 1) = Least(Full(limit), b.credit + limit * gained(now + 1))
    BY <1>4 DEF Credit
  <2> HIDE DEF gained
  <2>5. limit * gained(now + 1) <= limit * (gained(now) + 1)
    BY <2>2, ProductMonotone DEF Limits
  <2>6. limit * (gained(now) + 1) = limit * gained(now) + limit
    BY <2>2 DEF Limits
  <2>7. limit * gained(now) \in Nat /\ limit * gained(now + 1) \in Nat
    BY <2>2, ProductNat DEF Limits
  <2> QED  BY <1>1, <1>2, <2>3, <2>4, <2>5, <2>6, <2>7 DEF Least, Limits
<1>5. CASE ~Exists(b, now + 1) /\ Exists(b, now)
  <2>1. now = b.updated_at + Lifetime
    BY <1>5, <1>1 DEF Exists, Fresh, Bucket
  <2>2. gained(now) = Lifetime  BY <1>1, <2>1, WindowType DEF Greatest
  <2>3. limit * WindowMs <= limit * Lifetime
    BY ProductMonotone, WindowType DEF Limits
  <2>4. Credit(b, limit, now) = Least(Full(limit), b.credit + limit * Lifetime)
    BY <1>5, <2>2 DEF Credit
  <2>5. limit * Lifetime \in Nat  BY ProductNat, WindowType DEF Limits
  <2>6. Credit(b, limit, now) = Full(limit)
    BY <1>1, <1>2, <2>3, <2>4, <2>5 DEF Least, Full
  <2>7. Credit(b, limit, now + 1) = Full(limit)  BY <1>5 DEF Credit
  <2> QED  BY <1>2, <2>6, <2>7 DEF Limits
<1>6. CASE ~Exists(b, now + 1) /\ ~Exists(b, now)
  BY <1>2, <1>6 DEF Credit, Limits
<1> QED  BY <1>4, <1>5, <1>6

\* A clock that is set back adds none.
LEMMA CreditStepBack ==
    ASSUME NEW b \in Bucket, NEW limit \in Limits, NEW now \in Nat, NEW time \in Nat,
           time <= now
    PROVE  Credit(b, limit, time) <= Credit(b, limit, now)
<1> DEFINE gained(n) == Greatest(0, n - b.updated_at)
<1>1. b.credit \in Nat /\ b.updated_at \in Nat /\ b.expires_at \in Int  BY DEF Bucket
<1>2. Full(limit) \in Nat  BY FullType
<1>3. Credit(b, limit, time) \in 0 .. Full(limit)  BY CreditType
<1>4. CASE ~Exists(b, now)
  <2>1. Credit(b, limit, now) = Full(limit)  BY <1>4 DEF Credit
  <2> QED  BY <1>2, <1>3, <2>1
<1>5. CASE Exists(b, now)
  <2>1. Exists(b, time)  BY <1>1, <1>5 DEF Exists
  <2>2. gained(time) \in Nat /\ gained(now) \in Nat /\ gained(time) <= gained(now)
    BY <1>1 DEF Greatest
  <2>3. Credit(b, limit, now) = Least(Full(limit), b.credit + limit * gained(now))
    BY <1>5 DEF Credit
  <2>4. Credit(b, limit, time) = Least(Full(limit), b.credit + limit * gained(time))
    BY <2>1 DEF Credit
  <2> HIDE DEF gained
  <2>5. limit * gained(time) <= limit * gained(now)
    BY <2>2, ProductMonotone DEF Limits
  <2>6. limit * gained(time) \in Nat /\ limit * gained(now) \in Nat
    BY <2>2, ProductNat DEF Limits
  <2> QED  BY <1>1, <1>2, <2>3, <2>4, <2>5, <2>6 DEF Least
<1> QED  BY <1>4, <1>5

\* A key that is not there does not exist.
LEMMA NoKeyGone == ASSUME NEW now \in Nat PROVE ~Exists(NoKey, now)
BY DEF Exists, NoKey

\* Dropping an expired key adds none.
LEMMA CreditExpire ==
    ASSUME NEW b, NEW limit, NEW now \in Nat, ~Exists(b, now)
    PROVE  Credit(NoKey, limit, now) = Credit(b, limit, now)
BY NoKeyGone DEF Credit

-----------------------------------------------------------------------------
(* The invariant. *)

BucketsFresh == \A k \in Keys : Fresh(bucket[k], LimitOf(k))

\* What a bucket gave since t and what it still holds.
WithinBound(k, t) ==
    since[k][t] * WindowMs + Credit(bucket[k], LimitOf(k), clock)
        <= Full(LimitOf(k)) + LimitOf(k) * (elapsed - t)

GivenAndLeft ==
    \A k \in Keys, t \in Times :
        /\ t <= elapsed => WithinBound(k, t)
        /\ t > elapsed => since[k][t] = 0

IInv == TypeOK /\ BucketsFresh /\ GivenAndLeft

\* A bucket's limit is positive.
LEMMA LimitType == ASSUME NEW k \in Keys PROVE LimitOf(k) \in Limits
BY LimitAssumption DEF Keys, LimitOf, Limits

\* The key of a check a request is making.
LEMMA KeyType ==
    ASSUME NEW q \in Requests, TypeOK
    PROVE  /\ <<client[q], Global>> \in Keys
           /\ kind[q] \in Endpoints => <<client[q], kind[q]>> \in Keys
BY DEF TypeOK, RequestsTyped, Keys, Scopes

\* The invariant holds at the start.
LEMMA InitIInv ==
    ASSUME Init
    PROVE  IInv
<1>1. NoKey \in Bucket  BY DEF NoKey, Bucket
<1>2. NoDecision \in RateLimitDecision  BY DEF NoDecision, RateLimitDecision
<1>3. (CHOOSE c \in Clients : TRUE) \in Clients  BY LimitAssumption
<1>4. 0 \in Times  BY LimitAssumption DEF Times
<1>5. TypeOK
  BY <1>1, <1>2, <1>3, <1>4
  DEF Init, TypeOK, RequestsTyped, BucketsTyped, ClockTyped, NoResponse, Kinds
<1>6. BucketsFresh
  <2> SUFFICES ASSUME NEW k \in Keys PROVE Fresh(NoKey, LimitOf(k))
    BY DEF Init, BucketsFresh
  <2> QED  BY LimitType, FullType DEF Fresh, NoKey
<1>7. GivenAndLeft
  <2> SUFFICES ASSUME NEW k \in Keys, NEW t \in Times
               PROVE  /\ t <= elapsed => WithinBound(k, t)
                      /\ since[k][t] = 0
    BY DEF GivenAndLeft
  <2>1. since[k][t] = 0 /\ clock = 0 /\ elapsed = 0 /\ bucket[k] = NoKey  BY DEF Init
  <2>2. Credit(NoKey, LimitOf(k), 0) <= Full(LimitOf(k)) /\ Credit(NoKey, LimitOf(k), 0) \in Nat
    BY <1>1, LimitType, CreditType, FullType
  <2>3. t <= 0 => t = 0  BY LimitAssumption DEF Times
  <2>4. 0 * WindowMs = 0 /\ LimitOf(k) * (0 - 0) = 0
    BY WindowType, LimitType DEF Limits
  <2>5. Full(LimitOf(k)) \in Nat  BY LimitType, FullType
  <2> QED  BY <2>1, <2>2, <2>3, <2>4, <2>5 DEF WithinBound
<1> QED  BY <1>5, <1>6, <1>7 DEF IInv

-----------------------------------------------------------------------------
(* Steps. *)

\* The variables the bound is about.
boundVars == <<bucket, since, clock, elapsed>>

LEMMA BoundUnchanged ==
    ASSUME IInv, UNCHANGED boundVars
    PROVE  BucketsFresh' /\ GivenAndLeft'
BY DEF IInv, boundVars, BucketsFresh, GivenAndLeft, WithinBound

\* A run of the script keeps the buckets well typed.
LEMMA ScriptType ==
    ASSUME TypeOK, NEW k \in Keys, RunScript(k)
    PROVE  /\ BucketsTyped'
           /\ Decide(k) \in RateLimitDecision
<1>1. bucket[k] \in Bucket /\ LimitOf(k) \in Limits /\ clock \in Nat /\ elapsed \in Nat
  BY LimitType DEF TypeOK, BucketsTyped, ClockTyped, Times
<1>2. Decide(k) \in RateLimitDecision  BY <1>1, DecisionType DEF Decide
<1>3. /\ Decide(k).reset_at * Second \in Nat
      /\ Decide(k).retry_after_seconds * Second \in Nat
  <2>1. Decide(k).reset_at \in Nat /\ Decide(k).retry_after_seconds \in Nat
    BY <1>2 DEF RateLimitDecision
  <2> QED  BY <2>1, ProductNat, WindowType
<1>4. bucket' \in [Keys -> Bucket]
  BY <1>1, CheckedType DEF RunScript, TypeOK, BucketsTyped, ClockTyped
<1>5. full_at' \in [Keys -> Nat]
  BY <1>3 DEF RunScript, TypeOK, BucketsTyped, ClockTyped
<1>6. since' \in [Keys -> [Times -> Nat]]
  <2>1. since \in [Keys -> [Times -> Nat]]  BY DEF TypeOK, BucketsTyped, ClockTyped
  <2>2. [t \in Times |-> since[k][t] + IF t <= elapsed THEN 1 ELSE 0] \in [Times -> Nat]
    BY <2>1
  <2> QED  BY <2>1, <2>2 DEF RunScript
<1>7. promised' \in [Keys -> Nat \cup {Never}]
  <2> DEFINE retry_at == elapsed + Decide(k).retry_after_seconds * Second
  <2>1. retry_at \in Nat  BY <1>1, <1>3
  <2>2. promised \in [Keys -> Nat \cup {Never}]  BY DEF TypeOK, BucketsTyped, ClockTyped
  <2>3. promised[k] # Never => Least(promised[k], retry_at) \in Nat
    BY <2>1, <2>2 DEF Least
  <2>4. promised' = [promised EXCEPT ![k] =
            IF Decide(k).allowed THEN Never
            ELSE IF promised[k] = Never THEN retry_at ELSE Least(promised[k], retry_at)]
    BY DEF RunScript
  <2> HIDE DEF retry_at
  <2> QED  BY <2>1, <2>2, <2>3, <2>4
<1> QED  BY <1>2, <1>4, <1>5, <1>6, <1>7 DEF BucketsTyped, Times

\* What the bound speaks of are numbers.
LEMMA PointType ==
    ASSUME IInv, NEW k \in Keys, NEW t \in Times
    PROVE  /\ bucket[k] \in Bucket /\ LimitOf(k) \in Limits
           /\ clock \in Nat /\ elapsed \in Nat /\ t \in Nat
           /\ since[k][t] \in Nat
<1>1. LimitOf(k) \in Limits  BY LimitType
<1>2. since \in [Keys -> [Times -> Nat]]  BY DEF IInv, TypeOK, BucketsTyped, ClockTyped
<1>3. since[k] \in [Times -> Nat]  BY <1>2
<1>4. t \in Nat /\ elapsed \in Nat  BY LimitAssumption DEF IInv, TypeOK, BucketsTyped, ClockTyped, Times
<1>5. bucket[k] \in Bucket /\ clock \in Nat  BY DEF IInv, TypeOK, BucketsTyped, ClockTyped
<1> QED  BY <1>1, <1>3, <1>4, <1>5

\* A run of the script keeps the bound: it takes from the bucket what it gives.
LEMMA ScriptBound ==
    ASSUME IInv, NEW k \in Keys, RunScript(k), UNCHANGED clockVars
    PROVE  BucketsFresh' /\ GivenAndLeft'
<1> DEFINE b == bucket[k]
           limit == LimitOf(k)
<1>1. b \in Bucket /\ limit \in Limits /\ clock \in Nat /\ elapsed \in Nat
  BY LimitType DEF IInv, TypeOK, BucketsTyped, ClockTyped, Times
<1>2. bucket' = [bucket EXCEPT ![k] = Checked(b, limit, clock)]  BY DEF RunScript
<1>3. bucket'[k] = Checked(b, limit, clock) /\ \A j \in Keys : j # k => bucket'[j] = bucket[j]
  BY <1>2 DEF IInv, TypeOK, BucketsTyped, ClockTyped
<1>4. BucketsFresh'
  <2> SUFFICES ASSUME NEW j \in Keys PROVE Fresh(bucket'[j], LimitOf(j))
    BY DEF BucketsFresh, LimitOf
  <2>1. CASE j = k  BY <2>1, <1>1, <1>3, CheckedType
  <2>2. CASE j # k  BY <2>2, <1>3 DEF IInv, BucketsFresh
  <2> QED  BY <2>1, <2>2
<1>5. GivenAndLeft'
  <2> SUFFICES ASSUME NEW j \in Keys, NEW t \in Times
               PROVE  /\ t <= elapsed => WithinBound(j, t)'
                      /\ t > elapsed => since'[j][t] = 0
    BY DEF GivenAndLeft, clockVars
  <2>0. clock' = clock /\ elapsed' = elapsed  BY DEF clockVars
  <2>1. /\ t <= elapsed => WithinBound(j, t)
        /\ t > elapsed => since[j][t] = 0
    BY DEF IInv, GivenAndLeft
  <2>2. CASE j # k
    <3>1. since'[j] = since[j]  BY <2>2 DEF RunScript, IInv, TypeOK, BucketsTyped, ClockTyped
    <3>2. bucket'[j] = bucket[j]  BY <2>2, <1>3
    <3> QED  BY <2>0, <2>1, <3>1, <3>2 DEF WithinBound
  <2>3. CASE j = k
    <3>1. Credit(bucket'[k], limit, clock) = Left(b, limit, clock)
      BY <1>1, <1>3, CreditChecked
    <3>2. since[k][t] \in Nat  BY DEF IInv, TypeOK, BucketsTyped, ClockTyped
    <3>3. Decide(k).allowed <=> Allows(b, limit, clock)  BY DEF Decide, Decision
    <3>4. Credit(b, limit, clock) \in Int /\ WindowMs \in Nat /\ Full(limit) \in Nat
      BY <1>1, CreditType, FullType, WindowType
    <3>5. CASE Allows(b, limit, clock)
      <4>1. since'[k][t] = since[k][t] + IF t <= elapsed THEN 1 ELSE 0
        BY <3>3, <3>5 DEF RunScript, IInv, TypeOK, BucketsTyped, ClockTyped
      <4>2. Left(b, limit, clock) = Credit(b, limit, clock) - WindowMs
        BY <1>1, <3>5, LeftType
      <4>3. (since[k][t] + 1) * WindowMs = since[k][t] * WindowMs + WindowMs
        BY <3>2, <3>4
      <4>4. since[k][t] * WindowMs \in Nat  BY <3>2, <3>4, ProductNat
      <4>5. t <= elapsed => WithinBound(k, t)'
        <5> SUFFICES ASSUME t <= elapsed
                     PROVE  since'[k][t] * WindowMs + Credit(bucket'[k], limit, clock)
                              <= Full(limit) + limit * (elapsed - t)
          BY <2>0 DEF WithinBound, LimitOf
        <5>1. since'[k][t] = since[k][t] + 1  BY <4>1
        <5>2. since[k][t] * WindowMs + Credit(b, limit, clock)
                <= Full(limit) + limit * (elapsed - t)
          BY <2>1, <2>3 DEF WithinBound
        <5>3. limit * (elapsed - t) \in Int  BY <1>1 DEF Limits, Times
        <5> HIDE DEF b, limit
        <5> QED  BY <3>1, <3>4, <4>2, <4>3, <4>4, <5>1, <5>2, <5>3
      <4>6. t > elapsed => since'[k][t] = 0
        BY <4>1, <2>1, <2>3, <1>1 DEF Times
      <4> QED  BY <2>3, <4>5, <4>6
    <3>6. CASE ~Allows(b, limit, clock)
      <4>1. since' = since  BY <3>3, <3>6 DEF RunScript
      <4>2. Left(b, limit, clock) = Credit(b, limit, clock)
        BY <1>1, <3>6, LeftType
      <4> QED  BY <2>0, <2>1, <2>3, <3>1, <4>1, <4>2 DEF WithinBound
    <3> QED  BY <3>5, <3>6
  <2> QED  BY <2>2, <2>3
<1> QED  BY <1>4, <1>5

\* A millisecond adds to the bound what it may add to the bucket.
LEMMA TickBound ==
    ASSUME IInv, Tick
    PROVE  BucketsFresh' /\ GivenAndLeft'
<1>1. /\ bucket' = bucket /\ since' = since
      /\ clock' = clock + 1 /\ elapsed' = elapsed + 1
  BY DEF Tick, bucketVars
<1>2. BucketsFresh'  BY <1>1 DEF IInv, BucketsFresh, LimitOf
<1>3. GivenAndLeft'
  <2> SUFFICES ASSUME NEW k \in Keys, NEW t \in Times
               PROVE  /\ t <= elapsed + 1 => WithinBound(k, t)'
                      /\ t > elapsed + 1 => since[k][t] = 0
    BY <1>1 DEF GivenAndLeft
  <2> DEFINE limit == LimitOf(k)
             before == Credit(bucket[k], limit, clock)
             after == Credit(bucket[k], limit, clock + 1)
  <2>1. /\ bucket[k] \in Bucket /\ limit \in Limits /\ clock \in Nat /\ elapsed \in Nat
        /\ since[k][t] \in Nat /\ t \in Nat
    BY PointType
  <2>2. Fresh(bucket[k], limit)  BY DEF IInv, BucketsFresh
  <2>3. after <= before + limit  BY <2>1, <2>2, CreditTick
  <2>4. /\ before \in Nat /\ after \in Nat /\ after <= Full(limit) /\ Full(limit) \in Nat
    BY <2>1, CreditType, FullType
  <2>5. /\ t <= elapsed => WithinBound(k, t)
        /\ t > elapsed => since[k][t] = 0
    BY DEF IInv, GivenAndLeft
  <2>6. t > elapsed + 1 => since[k][t] = 0  BY <2>1, <2>5
  <2>7. ASSUME t <= elapsed + 1
        PROVE  since[k][t] * WindowMs + after <= Full(limit) + limit * ((elapsed + 1) - t)
    <3>1. CASE t <= elapsed
      <4>1. since[k][t] * WindowMs + before <= Full(limit) + limit * (elapsed - t)
        BY <3>1, <2>5 DEF WithinBound
      <4>2. limit * ((elapsed + 1) - t) = limit * (elapsed - t) + limit
        BY <2>1 DEF Limits
      <4>3. since[k][t] * WindowMs \in Nat  BY <2>1, ProductNat, WindowType
      <4>4. limit * (elapsed - t) \in Int  BY <2>1 DEF Limits
      <4>5. limit \in Nat  BY <2>1 DEF Limits
      <4> HIDE DEF limit, before, after
      <4> QED  BY <2>3, <2>4, <4>1, <4>2, <4>3, <4>4, <4>5
    <3>2. CASE t > elapsed
      <4>1. since[k][t] = 0 /\ t = elapsed + 1  BY <3>2, <2>1, <2>5, <2>7
      <4>2. 0 * WindowMs = 0 /\ limit * ((elapsed + 1) - t) = 0
        BY <4>1, <2>1, WindowType DEF Limits
      <4> HIDE DEF limit, before, after
      <4> QED  BY <4>1, <4>2, <2>4
    <3> QED  BY <3>1, <3>2, <2>1
  <2>8. t <= elapsed + 1 => WithinBound(k, t)'
    BY <1>1, <2>7 DEF WithinBound, LimitOf
  <2> QED  BY <2>6, <2>8
<1> QED  BY <1>2, <1>3

\* A clock that is set back leaves the bound as it is.
LEMMA StepBackBound ==
    ASSUME IInv, NEW time \in 0 .. (clock - 1), StepBack(time)
    PROVE  BucketsFresh' /\ GivenAndLeft'
<1>1. bucket' = bucket /\ since' = since /\ clock' = time /\ elapsed' = elapsed
  BY DEF StepBack
<1>2. BucketsFresh'  BY <1>1 DEF IInv, BucketsFresh, LimitOf
<1>3. GivenAndLeft'
  <2> SUFFICES ASSUME NEW k \in Keys, NEW t \in Times
               PROVE  /\ t <= elapsed => WithinBound(k, t)'
                      /\ t > elapsed => since[k][t] = 0
    BY <1>1 DEF GivenAndLeft
  <2> DEFINE limit == LimitOf(k)
             before == Credit(bucket[k], limit, clock)
             after == Credit(bucket[k], limit, time)
  <2>1. /\ bucket[k] \in Bucket /\ limit \in Limits /\ clock \in Nat /\ elapsed \in Nat
        /\ since[k][t] \in Nat /\ t \in Nat /\ time \in Nat /\ time <= clock
    BY PointType
  <2>2. after <= before  BY <2>1, CreditStepBack
  <2>3. before \in Nat /\ after \in Nat /\ Full(limit) \in Nat
    BY <2>1, CreditType, FullType
  <2>4. /\ t <= elapsed => WithinBound(k, t)
        /\ t > elapsed => since[k][t] = 0
    BY DEF IInv, GivenAndLeft
  <2>5. ASSUME t <= elapsed
        PROVE  since[k][t] * WindowMs + after <= Full(limit) + limit * (elapsed - t)
    <3>1. since[k][t] * WindowMs + before <= Full(limit) + limit * (elapsed - t)
      BY <2>4, <2>5 DEF WithinBound
    <3>2. since[k][t] * WindowMs \in Nat  BY <2>1, ProductNat, WindowType
    <3>3. limit * (elapsed - t) \in Int  BY <2>1 DEF Limits
    <3> HIDE DEF limit, before, after
    <3> QED  BY <2>2, <2>3, <3>1, <3>2, <3>3
  <2>6. t <= elapsed => WithinBound(k, t)'
    BY <1>1, <2>5 DEF WithinBound, LimitOf
  <2> QED  BY <2>4, <2>6
<1> QED  BY <1>2, <1>3

\* A key that expires leaves the bound as it is.
LEMMA ExpireBound ==
    ASSUME IInv, NEW j \in Keys, Expire(j)
    PROVE  BucketsFresh' /\ GivenAndLeft'
<1>1. since' = since /\ clock' = clock /\ elapsed' = elapsed  BY DEF Expire, clockVars
<1>2. bucket'[j] = NoKey /\ \A k \in Keys : k # j => bucket'[k] = bucket[k]
  BY DEF Expire, IInv, TypeOK, BucketsTyped, ClockTyped
<1>3. BucketsFresh'
  <2> SUFFICES ASSUME NEW k \in Keys PROVE Fresh(bucket'[k], LimitOf(k))
    BY DEF BucketsFresh, LimitOf
  <2>1. CASE k = j  BY <2>1, <1>2, LimitType, FullType DEF Fresh, NoKey
  <2>2. CASE k # j  BY <2>2, <1>2 DEF IInv, BucketsFresh
  <2> QED  BY <2>1, <2>2
<1>4. \A k \in Keys : Credit(bucket'[k], LimitOf(k), clock) = Credit(bucket[k], LimitOf(k), clock)
  <2> SUFFICES ASSUME NEW k \in Keys
               PROVE  Credit(bucket'[k], LimitOf(k), clock) = Credit(bucket[k], LimitOf(k), clock)
    OBVIOUS
  <2>1. CASE k = j
    <3>1. ~Exists(bucket[j], clock) /\ clock \in Nat  BY DEF Expire, IInv, TypeOK, BucketsTyped, ClockTyped
    <3> QED  BY <2>1, <3>1, <1>2, CreditExpire
  <2>2. CASE k # j  BY <2>2, <1>2
  <2> QED  BY <2>1, <2>2
<1>5. GivenAndLeft'
  <2> SUFFICES ASSUME NEW k \in Keys, NEW t \in Times
               PROVE  /\ t <= elapsed => WithinBound(k, t)'
                      /\ t > elapsed => since[k][t] = 0
    BY <1>1 DEF GivenAndLeft
  <2> QED  BY <1>1, <1>4 DEF IInv, GivenAndLeft, WithinBound, LimitOf
<1> QED  BY <1>3, <1>5

\* A lost bucket is full and gave nothing.
LEMMA LoseBound ==
    ASSUME IInv, NEW j \in Keys, Lose(j)
    PROVE  BucketsFresh' /\ GivenAndLeft'
<1>1. clock' = clock /\ elapsed' = elapsed  BY DEF Lose, clockVars
<1>2. /\ bucket'[j] = NoKey /\ \A t \in Times : since'[j][t] = 0
      /\ \A k \in Keys : k # j => bucket'[k] = bucket[k] /\ since'[k] = since[k]
  BY DEF Lose, IInv, TypeOK, BucketsTyped
<1>3. BucketsFresh'
  <2> SUFFICES ASSUME NEW k \in Keys PROVE Fresh(bucket'[k], LimitOf(k))
    BY DEF BucketsFresh, LimitOf
  <2>1. CASE k = j  BY <2>1, <1>2, LimitType, FullType DEF Fresh, NoKey
  <2>2. CASE k # j  BY <2>2, <1>2 DEF IInv, BucketsFresh
  <2> QED  BY <2>1, <2>2
<1>4. GivenAndLeft'
  <2> SUFFICES ASSUME NEW k \in Keys, NEW t \in Times
               PROVE  /\ t <= elapsed => WithinBound(k, t)'
                      /\ t > elapsed => since'[k][t] = 0
    BY <1>1 DEF GivenAndLeft
  <2>1. CASE k # j
    BY <2>1, <1>1, <1>2 DEF IInv, GivenAndLeft, WithinBound, LimitOf
  <2>2. CASE k = j
    <3>1. /\ LimitOf(j) \in Limits /\ clock \in Nat /\ elapsed \in Nat /\ t \in Nat
      BY PointType
    <3>2. NoKey \in Bucket  BY DEF NoKey, Bucket
    <3>3. Credit(NoKey, LimitOf(j), clock) = Full(LimitOf(j))
      BY <3>1, NoKeyGone DEF Credit
    <3>4. t <= elapsed => LimitOf(j) * (elapsed - t) \in Nat
      BY <3>1, ProductNat DEF Limits
    <3>5. 0 * WindowMs = 0 /\ Full(LimitOf(j)) \in Nat  BY <3>1, FullType, WindowType
    <3> QED  BY <2>2, <1>1, <1>2, <3>3, <3>4, <3>5 DEF WithinBound, LimitOf
  <2> QED  BY <2>1, <2>2
<1> QED  BY <1>3, <1>4

\* A missing decision is typed like a decision.
LEMMA NoDecisionType == NoDecision \in RateLimitDecision
BY DEF NoDecision, RateLimitDecision

\* No check follows a failed one.
LEMMA AfterFailure ==
    ASSUME NEW q \in Requests, GlobalFails(q)
    PROVE  Fails(q, "global", "handler", <<client[q], Global>>)
<1>1. AfterGlobal(q, TRUE) = "handler"
  BY DEF AfterGlobal
<1> QED BY <1>1, Zenon DEF GlobalFails

\* A failed check keeps the types, whatever the response.
LEMMA FailsType ==
    ASSUME TypeOK, NEW q \in Requests, NEW from, NEW k \in Keys, Fails(q, from, "handler", k),
           response' \in [Requests -> [status : {0, 200, 429, 500, 503}, headers : RateLimitDecision]]
    PROVE  TypeOK'
<1>1. BucketsTyped'
  <2>1. CASE RunScript(k)  BY <2>1, ScriptType
  <2>2. CASE UNCHANGED bucketVars  BY <2>2 DEF bucketVars, TypeOK, BucketsTyped, Times
  <2> QED  BY <2>1, <2>2 DEF Fails
<1>2. RequestsTyped'
  <2>1. LetsThrough \in BOOLEAN  BY LimitAssumption DEF LetsThrough
  <2>2. unavailable' \in [Requests -> BOOLEAN]
    BY <2>1, ZenonT(30) DEF Fails, TypeOK, RequestsTyped
  <2>3. /\ pc' \in [Requests -> {"idle", "global", "endpoint", "handler", "done"}]
        /\ \A r \in Requests : pc'[r] = "endpoint" => kind'[r] \in Endpoints
    BY DEF Fails, Resume, TypeOK, RequestsTyped
  <2> QED  BY <2>2, <2>3 DEF Fails, TypeOK, RequestsTyped
<1>3. ClockTyped'  BY DEF Fails, clockVars, TypeOK, ClockTyped, Times
<1> QED  BY <1>1, <1>2, <1>3 DEF TypeOK

\* Types are kept.
LEMMA TypeStep ==
    ASSUME TypeOK, [Next]_vars
    PROVE  TypeOK'
<1> DEFINE Responses ==
        [Requests -> [status : {0, 200, 429, 500, 503}, headers : RateLimitDecision]]
<1> USE DEF TypeOK
<1>1. ASSUME NEW q \in Requests, NEW c \in Clients, NEW k \in Kinds, Arrive(q, c, k)
      PROVE  TypeOK'
  <2>1. RequestsTyped'
    BY <1>1, LimitAssumption DEF Arrive, Resume, RequestsTyped
  <2>2. BucketsTyped' /\ ClockTyped'
    BY <1>1 DEF Arrive, BucketsTyped, ClockTyped, bucketVars, clockVars
  <2> QED  BY <2>1, <2>2
<1>2. ASSUME NEW q \in Requests, GlobalAnswered(q)
      PROVE  TypeOK'
  <2> DEFINE d == Decide(<<client[q], Global>>)
  <2>1. RunScript(<<client[q], Global>>) /\ <<client[q], Global>> \in Keys
    BY <1>2, KeyType DEF GlobalAnswered
  <2>2. BucketsTyped' /\ d \in RateLimitDecision  BY <2>1, ScriptType
  <2>3. response' \in Responses
    BY <1>2, <2>2 DEF GlobalAnswered, Respond, RequestsTyped
  <2>4. paid' \in [Requests -> SUBSET Scopes]
    BY <1>2 DEF GlobalAnswered, Pay, RequestsTyped, Scopes
  <2>5. /\ pc' \in [Requests -> {"idle", "global", "endpoint", "handler", "done"}]
        /\ \A r \in Requests : pc'[r] = "endpoint" => kind'[r] \in Endpoints
    BY <1>2 DEF GlobalAnswered, Resume, AfterGlobal, RequestsTyped
  <2>6. given' \in [Requests -> RateLimitDecision]
    BY <1>2, <2>2 DEF GlobalAnswered, RequestsTyped
  <2>7. RequestsTyped'
    BY <1>2, <2>3, <2>4, <2>5, <2>6 DEF GlobalAnswered, RequestsTyped
  <2>8. ClockTyped'  BY <1>2 DEF GlobalAnswered, clockVars, ClockTyped, Times
  <2> QED  BY <2>2, <2>7, <2>8
<1>3. ASSUME NEW q \in Requests, EndpointAnswered(q)
      PROVE  TypeOK'
  <2> DEFINE d == Decide(<<client[q], kind[q]>>)
  <2>0. kind[q] \in Endpoints  BY <1>3 DEF EndpointAnswered, Resume, RequestsTyped
  <2>1. RunScript(<<client[q], kind[q]>>) /\ <<client[q], kind[q]>> \in Keys
    BY <1>3, <2>0, KeyType DEF EndpointAnswered
  <2>2. BucketsTyped' /\ d \in RateLimitDecision  BY <2>1, ScriptType
  <2>3. response' \in Responses
    BY <1>3, <2>2 DEF EndpointAnswered, Respond, Headers, RequestsTyped
  <2>4. paid' \in [Requests -> SUBSET Scopes]
    BY <1>3, <2>0 DEF EndpointAnswered, Pay, RequestsTyped, Scopes
  <2>5. /\ pc' \in [Requests -> {"idle", "global", "endpoint", "handler", "done"}]
        /\ \A r \in Requests : pc'[r] = "endpoint" => kind'[r] \in Endpoints
    BY <1>3 DEF EndpointAnswered, Resume, RequestsTyped
  <2>6. endpoint_given' \in [Requests -> RateLimitDecision]
    BY <1>3, <2>2 DEF EndpointAnswered, RequestsTyped
  <2>7. RequestsTyped'
    BY <1>3, <2>3, <2>4, <2>5, <2>6 DEF EndpointAnswered, RequestsTyped
  <2>8. ClockTyped'  BY <1>3 DEF EndpointAnswered, clockVars, ClockTyped, Times
  <2> QED  BY <2>2, <2>7, <2>8
<1>4. ASSUME NEW q \in Requests, GlobalFails(q)
      PROVE  TypeOK'
  <2>1. response' \in Responses
    BY <1>4, NoDecisionType DEF GlobalFails, Respond, RequestsTyped
  <2>2. <<client[q], Global>> \in Keys  BY KeyType
  <2> QED  BY <1>4, <2>1, <2>2, FailsType, AfterFailure
<1>5. ASSUME NEW q \in Requests, EndpointFails(q)
      PROVE  TypeOK'
  <2>1. response' \in Responses
    BY <1>5, NoDecisionType DEF EndpointFails, Respond, Headers, RequestsTyped
  <2>2. kind[q] \in Endpoints  BY <1>5 DEF EndpointFails, Fails, Resume, RequestsTyped
  <2>3. <<client[q], kind[q]>> \in Keys  BY <2>2, KeyType
  <2> QED  BY <1>5, <2>1, <2>3, FailsType DEF EndpointFails
<1>6. ASSUME NEW q \in Requests, BodyRefused(q) \/ HandlerReturns(q)
      PROVE  TypeOK'
  <2>0. \E from \in {"endpoint", "handler"} :
          /\ Resume(q, from, "done")
          /\ Respond(q, 200, Headers(given[q], endpoint_given[q]))
          /\ UNCHANGED <<client, kind, given, endpoint_given, unavailable, paid>>
    BY <1>6 DEF BodyRefused, HandlerReturns
  <2>1. RequestsTyped'
    BY <2>0 DEF Resume, Respond, Headers, RequestsTyped
  <2>2. BucketsTyped' /\ ClockTyped'
    BY <1>6 DEF BodyRefused, HandlerReturns, BucketsTyped, ClockTyped, bucketVars, clockVars
  <2> QED  BY <2>1, <2>2
<1>7. ASSUME NEW q \in Requests, HandlerRaises(q)
      PROVE  TypeOK'
  BY <1>7, NoDecisionType DEF HandlerRaises, Resume, Respond, RequestsTyped, BucketsTyped,
    ClockTyped, bucketVars, clockVars
<1>8. ASSUME NEW q \in Requests, Leave(q)
      PROVE  TypeOK'
  BY <1>8, NoDecisionType DEF Leave, Resume, NoResponse, Kinds, RequestsTyped, BucketsTyped,
    ClockTyped, bucketVars, clockVars
<1>9. ASSUME NEW k \in Keys, Expire(k)
      PROVE  TypeOK'
  <2>1. NoKey \in Bucket  BY DEF NoKey, Bucket
  <2> QED  BY <1>9, <2>1 DEF Expire, RequestsTyped, BucketsTyped, ClockTyped, requestVars, clockVars
<1>10. ASSUME Tick
       PROVE  TypeOK'
  <2>1. clock' \in Nat /\ elapsed' \in Times /\ stepbacks' \in Nat
    BY <1>10, LimitAssumption DEF Tick, ClockTyped, Times
  <2> QED  BY <1>10, <2>1 DEF Tick, RequestsTyped, BucketsTyped, ClockTyped, requestVars, bucketVars
<1>11. ASSUME NEW time \in 0 .. (clock - 1), StepBack(time)
       PROVE  TypeOK'
  <2>1. clock' \in Nat /\ elapsed' \in Times /\ stepbacks' \in Nat
    BY <1>11 DEF StepBack, ClockTyped
  <2> QED  BY <1>11, <2>1 DEF StepBack, RequestsTyped, BucketsTyped, ClockTyped, requestVars
<1>13. ASSUME NEW k \in Keys, Lose(k)
       PROVE  TypeOK'
  <2>1. NoKey \in Bucket  BY DEF NoKey, Bucket
  <2> QED  BY <1>13, <2>1 DEF Lose, RequestsTyped, BucketsTyped, ClockTyped, requestVars, clockVars
<1>12. ASSUME UNCHANGED vars
       PROVE  TypeOK'
  BY <1>12 DEF vars, requestVars, bucketVars, clockVars, RequestsTyped, BucketsTyped, ClockTyped
<1> QED
  BY <1>1, <1>2, <1>3, <1>4, <1>5, <1>6, <1>7, <1>8, <1>9, <1>10, <1>11, <1>12, <1>13 DEF Next

\* The bound is kept.
LEMMA BoundStep ==
    ASSUME IInv, [Next]_vars
    PROVE  BucketsFresh' /\ GivenAndLeft'
<1> DEFINE Goal == BucketsFresh' /\ GivenAndLeft'
<1>1. ASSUME NEW q \in Requests, GlobalAnswered(q)
      PROVE  Goal
  BY <1>1, KeyType, ScriptBound DEF GlobalAnswered, IInv
<1>2. ASSUME NEW q \in Requests, EndpointAnswered(q)
      PROVE  Goal
  <2>1. kind[q] \in Endpoints
    BY <1>2 DEF EndpointAnswered, Resume, IInv, TypeOK, RequestsTyped
  <2> QED  BY <1>2, <2>1, KeyType, ScriptBound DEF EndpointAnswered, IInv
<1>3. ASSUME NEW q \in Requests, NEW from, NEW after, NEW k \in Keys, Fails(q, from, after, k)
      PROVE  Goal
  <2>1. CASE RunScript(k)  BY <1>3, <2>1, ScriptBound DEF Fails
  <2>2. CASE UNCHANGED bucketVars
    BY <1>3, <2>2, BoundUnchanged DEF Fails, bucketVars, clockVars, boundVars
  <2> QED  BY <1>3, <2>1, <2>2 DEF Fails
<1>4. ASSUME NEW q \in Requests, GlobalFails(q)
      PROVE  Goal
  BY <1>3, <1>4, KeyType DEF GlobalFails, IInv
<1>5. ASSUME NEW q \in Requests, EndpointFails(q)
      PROVE  Goal
  <2>1. kind[q] \in Endpoints
    BY <1>5 DEF EndpointFails, Fails, Resume, IInv, TypeOK, RequestsTyped
  <2> QED  BY <1>3, <1>5, <2>1, KeyType DEF EndpointFails, IInv
<1>6. ASSUME UNCHANGED boundVars
      PROVE  Goal
  BY <1>6, BoundUnchanged
<1>7. ASSUME NEW q \in Requests,
             \/ \E c \in Clients, k \in Kinds : Arrive(q, c, k)
             \/ BodyRefused(q) \/ HandlerReturns(q) \/ HandlerRaises(q) \/ Leave(q)
      PROVE  UNCHANGED boundVars
  BY <1>7 DEF Arrive, BodyRefused, HandlerReturns, HandlerRaises, Leave, boundVars, bucketVars, clockVars
<1>8. UNCHANGED vars => UNCHANGED boundVars
  BY DEF vars, boundVars, bucketVars, clockVars
<1>9. ASSUME NEW k \in Keys, Expire(k)
      PROVE  Goal
  BY <1>9, ExpireBound
<1>10. Tick => Goal  BY TickBound
<1>11. ASSUME NEW time \in 0 .. (clock - 1), StepBack(time)
       PROVE  Goal
  BY <1>11, StepBackBound
<1>13. ASSUME NEW k \in Keys, Lose(k)
       PROVE  Goal
  BY <1>13, LoseBound
<1> HIDE DEF Goal
<1>12. Goal
  BY <1>1, <1>2, <1>4, <1>5, <1>6, <1>7, <1>8, <1>9, <1>10, <1>11, <1>13 DEF Next
<1> QED  BY <1>12 DEF Goal

-----------------------------------------------------------------------------
(* The theorems. *)

\* The invariant holds.
THEOREM Inductive == Spec => []IInv
<1>1. Init => IInv  BY InitIInv
<1>2. IInv /\ [Next]_vars => IInv'
  BY TypeStep, BoundStep DEF IInv
<1> QED  BY <1>1, <1>2, PTL DEF Spec

\* The requests and buckets stay well typed.
THEOREM TypeCorrect == Spec => []TypeOK
<1>1. IInv => TypeOK  BY DEF IInv
<1> QED  BY <1>1, Inductive, PTL

\* In every stretch of time a bucket gives at most its capacity and what it
\* gains in that stretch, for every limit, window and number of clients.
THEOREM GrantsStayBounded == Spec => []GrantsBounded
<1>1. IInv => GrantsBounded
  <2> SUFFICES ASSUME IInv, NEW k \in Keys, NEW t \in 0 .. elapsed
               PROVE  since[k][t] * WindowMs
                        <= Full(LimitOf(k)) + LimitOf(k) * (elapsed - t)
    BY DEF GrantsBounded
  <2>1. t \in Times /\ t <= elapsed
    BY LimitAssumption DEF IInv, TypeOK, ClockTyped, Times
  <2>2. since[k][t] * WindowMs + Credit(bucket[k], LimitOf(k), clock)
          <= Full(LimitOf(k)) + LimitOf(k) * (elapsed - t)
    BY <2>1 DEF IInv, GivenAndLeft, WithinBound
  <2>3. /\ bucket[k] \in Bucket /\ LimitOf(k) \in Limits /\ clock \in Nat
        /\ elapsed \in Nat /\ t \in Nat /\ since[k][t] \in Nat
    BY <2>1, PointType
  <2>4. Credit(bucket[k], LimitOf(k), clock) \in Nat /\ Full(LimitOf(k)) \in Nat
    BY <2>3, CreditType, FullType
  <2>5. since[k][t] * WindowMs \in Nat  BY <2>3, ProductNat, WindowType
  <2>6. LimitOf(k) * (elapsed - t) \in Int  BY <2>3 DEF Limits
  <2> QED  BY <2>2, <2>4, <2>5, <2>6
<1> QED  BY <1>1, Inductive, PTL

\* What a client gets out of a bucket in any stretch of time no longer than a
\* window: its capacity and one window's refill.
WindowBounded ==
    \A k \in Keys, t \in 0 .. elapsed :
        elapsed - t <= WindowMs => since[k][t] <= 2 * LimitOf(k)

\* A limit of so many requests in a window is kept up to what a bucket that
\* refills while it is drained must allow: never more than twice the limit in a
\* stretch of one window, wherever it begins (rate_limiter.py:84-101).
THEOREM WindowGrants == Spec => []WindowBounded
<1>1. IInv /\ GrantsBounded => WindowBounded
  <2> SUFFICES ASSUME IInv, GrantsBounded, NEW k \in Keys, NEW t \in 0 .. elapsed,
                      elapsed - t <= WindowMs
               PROVE  since[k][t] <= 2 * LimitOf(k)
    BY DEF WindowBounded
  <2> DEFINE limit == LimitOf(k)
             n == since[k][t]
  <2>1. limit \in Limits /\ limit \in Nat /\ n \in Nat /\ elapsed - t \in Int
    <3>1. t \in Times
      BY LimitAssumption DEF IInv, TypeOK, ClockTyped, Times
    <3> QED BY <3>1, PointType DEF Limits
  <2>2. n * WindowMs <= limit * WindowMs + limit * (elapsed - t)
    BY DEF GrantsBounded, Full
  <2> HIDE DEF limit, n
  <2>3. limit * (elapsed - t) <= limit * WindowMs
    BY <2>1, ProductMonotone, WindowType
  <2> DEFINE gain == limit * (elapsed - t)
             window == limit * WindowMs
             given_ms == n * WindowMs
  <2>4. gain \in Int /\ window \in Nat /\ given_ms \in Nat
    BY <2>1, WindowType, ProductNat
  <2>5. given_ms <= window + window
    <3>1. given_ms <= window + gain /\ gain <= window
      BY <2>2, <2>3
    <3> HIDE DEF gain, window, given_ms
    <3> QED BY <2>4, <3>1
  <2>6. ASSUME n > 2 * limit
        PROVE  FALSE
    <3>1. WindowMs * (limit + limit + 1) <= WindowMs * n
      BY <2>1, <2>6, ProductMonotone, WindowType
    <3>2. WindowMs * (limit + limit + 1) = window + window + WindowMs
      BY <2>1, WindowType
    <3>3. WindowMs * n = given_ms
      BY <2>1, WindowType
    <3> HIDE DEF window, given_ms
    <3> QED BY <2>4, <2>5, <3>1, <3>2, <3>3, WindowType
  <2> QED BY <2>1, <2>6 DEF limit, n
<1> QED BY <1>1, Inductive, GrantsStayBounded, PTL

\* A request that goes on to the check of its endpoint has its global token, and
\* one is flagged only with fail_open.
PaidSoFar ==
    \A q \in Requests : /\ pc[q] = "endpoint" => Global \in paid[q]
                        /\ unavailable[q] => FailOpen

PaidInv == TypeOK /\ PaidSoFar /\ HandlerIsPaidFor

LEMMA PaidStep ==
    ASSUME PaidInv, [Next]_vars
    PROVE  PaidSoFar' /\ HandlerIsPaidFor'
<1> DEFINE Goal == PaidSoFar' /\ HandlerIsPaidFor'
<1> USE DEF PaidInv, TypeOK, RequestsTyped, PaidSoFar, HandlerIsPaidFor, ScopesOf
<1>1. ASSUME NEW q \in Requests, NEW c \in Clients, NEW k \in Kinds, Arrive(q, c, k)
      PROVE  Goal
  BY <1>1 DEF Arrive, Resume
<1>2. ASSUME NEW q \in Requests, GlobalAnswered(q)
      PROVE  Goal
  <2>1. \A r \in Requests : r # q => pc'[r] = pc[r] /\ paid'[r] = paid[r]
    BY <1>2 DEF GlobalAnswered, Resume, Pay
  <2>2. kind' = kind /\ unavailable' = unavailable  BY <1>2 DEF GlobalAnswered
  <2>3. pc'[q] # "done" => Global \in paid'[q]
    BY <1>2 DEF GlobalAnswered, Resume, Pay
  <2>4. pc'[q] = "handler" => kind[q] \notin Endpoints \/ unavailable[q]
    BY <1>2 DEF GlobalAnswered, Resume, AfterGlobal
  <2>5. pc'[q] = "handler" => ScopesOf(q)' \subseteq paid'[q] \/ (FailOpen /\ unavailable[q])
    BY <2>2, <2>3, <2>4 DEF Kinds, Scopes
  <2>6. pc'[q] = "endpoint" => Global \in paid'[q]
    BY <2>3
  <2>7. PaidSoFar'  BY <2>1, <2>2, <2>6
  <2>8. HandlerIsPaidFor'  BY <2>1, <2>2, <2>5
  <2> QED  BY <2>7, <2>8
<1>3. ASSUME NEW q \in Requests, EndpointAnswered(q)
      PROVE  Goal
  <2>1. \A r \in Requests : r # q => pc'[r] = pc[r] /\ paid'[r] = paid[r]
    BY <1>3 DEF EndpointAnswered, Resume, Pay
  <2>2. kind' = kind /\ unavailable' = unavailable  BY <1>3 DEF EndpointAnswered
  <2>3. pc'[q] = "handler" => kind[q] \in paid'[q] /\ Global \in paid'[q]
    BY <1>3 DEF EndpointAnswered, Resume, Pay
  <2>4. pc'[q] # "endpoint"  BY <1>3 DEF EndpointAnswered, Resume
  <2>5. PaidSoFar'  BY <2>1, <2>2, <2>4
  <2>6. HandlerIsPaidFor'
    <3>1. pc'[q] = "handler" => ScopesOf(q)' \subseteq paid'[q]  BY <2>2, <2>3
    <3> QED  BY <2>1, <2>2, <3>1
  <2> QED  BY <2>5, <2>6
<1>4. ASSUME NEW q \in Requests, NEW from, NEW k, Fails(q, from, "handler", k)
      PROVE  Goal
  <2>1. \A r \in Requests : r # q => pc'[r] = pc[r] /\ unavailable'[r] = unavailable[r]
    BY <1>4 DEF Fails, Resume
  <2>2. kind' = kind /\ paid' = paid  BY <1>4 DEF Fails
  <2>3. pc'[q] # "endpoint"  BY <1>4 DEF Fails, Resume
  <2>4. pc'[q] = "handler" => FailOpen  BY <1>4 DEF Fails, Resume, LetsThrough
  <2>5. /\ unavailable \in [Requests -> BOOLEAN]
        /\ unavailable' = [unavailable EXCEPT ![q] = FailOpen]
    BY <1>4 DEF Fails, LetsThrough
  <2>6. FailOpen => unavailable'[q]
    <3> HIDE DEF PaidInv, TypeOK, RequestsTyped, PaidSoFar, HandlerIsPaidFor, ScopesOf
    <3>1. unavailable'[q] = FailOpen  BY <2>5, ZenonT(30)
    <3> QED  BY <3>1
  <2>7. unavailable'[q] => FailOpen
    <3> HIDE DEF PaidInv, TypeOK, RequestsTyped, PaidSoFar, HandlerIsPaidFor, ScopesOf
    <3>1. unavailable'[q] = FailOpen  BY <2>5, ZenonT(30)
    <3> QED  BY <3>1
  <2>8. PaidSoFar'
    <3>1. \A r \in Requests : r # q =>
            (pc'[r] = "endpoint" => Global \in paid'[r]) /\ (unavailable'[r] => FailOpen)
      BY <2>1, <2>2
    <3> HIDE DEF PaidInv, TypeOK, RequestsTyped, HandlerIsPaidFor, ScopesOf
    <3> QED  BY <3>1, <2>3, <2>7
  <2>9. HandlerIsPaidFor'
    <3>1. \A r \in Requests : r # q /\ pc'[r] = "handler" =>
            ScopesOf(r)' \subseteq paid'[r] \/ (FailOpen /\ unavailable'[r])
      BY <2>1, <2>2
    <3> HIDE DEF PaidInv, TypeOK, RequestsTyped, PaidSoFar, ScopesOf
    <3> QED  BY <3>1, <2>4, <2>6
  <2> QED  BY <2>8, <2>9
<1>5. ASSUME NEW q \in Requests, GlobalFails(q) \/ EndpointFails(q)
      PROVE  Goal
  BY <1>4, <1>5, AfterFailure DEF EndpointFails
<1>6. ASSUME NEW q \in Requests, BodyRefused(q) \/ HandlerReturns(q) \/ HandlerRaises(q)
      PROVE  Goal
  BY <1>6 DEF BodyRefused, HandlerReturns, HandlerRaises, Resume
<1>7. ASSUME NEW q \in Requests, Leave(q)
      PROVE  Goal
  BY <1>7 DEF Leave, Resume
<1>8. ASSUME UNCHANGED requestVars
      PROVE  Goal
  BY <1>8 DEF requestVars
<1>9. ASSUME \/ \E k \in Keys : Expire(k) \/ Lose(k)
             \/ Tick
             \/ \E time \in 0 .. (clock - 1) : StepBack(time)
             \/ UNCHANGED vars
      PROVE  UNCHANGED requestVars
  BY <1>9 DEF Expire, Lose, Tick, StepBack, vars
<1> HIDE DEF Goal
<1>10. Goal
  BY <1>1, <1>2, <1>3, <1>5, <1>6, <1>7, <1>8, <1>9 DEF Next
<1> QED  BY <1>10 DEF Goal

\* A handler runs only for a request that every scope it is subject to gave a
\* token, or, with fail_open, for one Redis failed.
THEOREM HandlersArePaidFor == Spec => []HandlerIsPaidFor
<1>1. Init => PaidInv
  <2>1. Init => TypeOK  BY InitIInv DEF IInv
  <2>2. Init => PaidSoFar /\ HandlerIsPaidFor
    BY DEF Init, PaidSoFar, HandlerIsPaidFor
  <2> QED  BY <2>1, <2>2 DEF PaidInv
<1>2. PaidInv /\ [Next]_vars => PaidInv'
  <2>1. PaidInv /\ [Next]_vars => TypeOK'  BY TypeStep DEF PaidInv
  <2>2. PaidInv /\ [Next]_vars => PaidSoFar' /\ HandlerIsPaidFor'  BY PaidStep
  <2> QED  BY <2>1, <2>2 DEF PaidInv
<1>3. PaidInv => HandlerIsPaidFor  BY DEF PaidInv
<1> QED  BY <1>1, <1>2, <1>3, PTL DEF Spec

\* What a request has been given, and how it stands, when a check of it fails.
LetThrough(q) ==
    /\ pc[q] \in {"idle", "global"} => paid[q] = {}
    /\ pc[q] = "endpoint" => paid[q] \subseteq {Global}
    /\ pc[q] # "done" => response[q].status = 0
    /\ unavailable[q] =>
        /\ pc[q] \in {"handler", "done"}
        /\ response[q].status \notin {429, 503} /\ kind[q] \notin paid[q]

LetThroughInv == TypeOK /\ \A q \in Requests : LetThrough(q)

LEMMA LetThroughStep ==
    ASSUME LetThroughInv, TypeOK', [Next]_vars
    PROVE  LetThroughInv'
<1> USE DEF LetThroughInv, TypeOK, RequestsTyped, LetThrough
<1>1. ASSUME NEW q \in Requests, NEW c \in Clients, NEW k \in Kinds, Arrive(q, c, k)
      PROVE  LetThroughInv'
  BY <1>1 DEF Arrive, Resume
<1>2. ASSUME NEW q \in Requests, GlobalAnswered(q)
      PROVE  LetThroughInv'
  <2>1. /\ ~unavailable[q] /\ paid[q] = {} /\ response[q].status = 0
        /\ pc'[q] \in {"endpoint", "handler", "done"} /\ paid'[q] \subseteq {Global}
        /\ pc'[q] # "done" => response'[q].status = 0
        /\ UNCHANGED <<kind, unavailable>>
        /\ \A p \in Requests : p # q =>
            pc'[p] = pc[p] /\ paid'[p] = paid[p] /\ response'[p] = response[p]
    BY <1>2 DEF GlobalAnswered, Resume, AfterGlobal, Pay, Respond
  <2>2. LetThrough(q)'
    BY <2>1
  <2>3. \A p \in Requests : p # q => LetThrough(p)'
    BY <2>1
  <2> HIDE DEF LetThrough, TypeOK
  <2> QED BY <2>2, <2>3
<1>3. ASSUME NEW q \in Requests, EndpointAnswered(q)
      PROVE  LetThroughInv'
  <2>1. /\ ~unavailable[q] /\ response[q].status = 0
        /\ pc'[q] \in {"handler", "done"}
        /\ pc'[q] # "done" => response'[q].status = 0
        /\ UNCHANGED <<kind, unavailable>>
        /\ \A p \in Requests : p # q =>
            pc'[p] = pc[p] /\ paid'[p] = paid[p] /\ response'[p] = response[p]
    BY <1>3 DEF EndpointAnswered, Resume, Pay, Respond
  <2> QED BY <2>1
<1>4. ASSUME NEW q \in Requests, GlobalFails(q) \/ EndpointFails(q)
      PROVE  LetThroughInv'
  <2>1. /\ ~unavailable[q] /\ response[q].status = 0 /\ kind[q] \notin paid[q]
        /\ pc'[q] = IF LetsThrough THEN "handler" ELSE "done"
        /\ LetsThrough => response' = response
        /\ UNCHANGED <<kind, paid>>
        /\ \A p \in Requests : p # q => pc'[p] = pc[p] /\ response'[p] = response[p]
    <3>1. \/ /\ pc[q] = "global" /\ Fails(q, "global", "handler", <<client[q], Global>>)
             /\ IF LetsThrough THEN UNCHANGED response ELSE Respond(q, 503, NoDecision)
          \/ /\ pc[q] = "endpoint" /\ Fails(q, "endpoint", "handler", <<client[q], kind[q]>>)
             /\ IF LetsThrough THEN UNCHANGED response
                ELSE Respond(q, 503, Headers(given[q], NoDecision))
      <4> HIDE DEF LetThroughInv, TypeOK, RequestsTyped, LetThrough
      <4>1. CASE GlobalFails(q)
        <5>1. Fails(q, "global", "handler", <<client[q], Global>>)
          BY <4>1, AfterFailure
        <5>2. pc[q] = "global"
          BY <5>1 DEF Fails, Resume
        <5> QED BY <4>1, <5>1, <5>2 DEF GlobalFails
      <4>2. CASE EndpointFails(q)
        BY <4>2 DEF EndpointFails, Fails, Resume
      <4> QED BY <1>4, <4>1, <4>2
    <3>2. /\ pc[q] \in {"global", "endpoint"}
          /\ pc' = [pc EXCEPT ![q] = IF LetsThrough THEN "handler" ELSE "done"]
          /\ LetsThrough => response' = response
          /\ \A p \in Requests : p # q => response'[p] = response[p]
          /\ UNCHANGED <<kind, paid>>
      BY <3>1 DEF Fails, Resume, Respond
    <3>3. /\ ~unavailable[q] /\ response[q].status = 0
          /\ pc[q] = "endpoint" => kind[q] \in Endpoints
      BY <3>2
    <3>4. kind[q] \notin paid[q]
      BY <3>2, <3>3, LimitAssumption
    <3> QED BY <3>2, <3>3, <3>4
  <2>2. /\ ~LetsThrough => ~unavailable'[q]
        /\ \A p \in Requests : p # q => unavailable'[p] = unavailable[p]
    <3>1. unavailable' = [unavailable EXCEPT ![q] = LetsThrough]
      BY <1>4 DEF GlobalFails, EndpointFails, Fails
    <3>2. unavailable \in [Requests -> BOOLEAN]
      OBVIOUS
    <3> HIDE DEF LetThroughInv, TypeOK, RequestsTyped, LetThrough
    <3>3. unavailable'[q] = LetsThrough
      BY <3>1, <3>2, ZenonT(30)
    <3>4. \A p \in Requests : p # q => unavailable'[p] = unavailable[p]
      BY <3>1, <3>2, ZenonT(30)
    <3> QED BY <3>3, <3>4
  <2> QED BY <2>1, <2>2
<1>5. ASSUME NEW q \in Requests, BodyRefused(q) \/ HandlerReturns(q) \/ HandlerRaises(q)
      PROVE  LetThroughInv'
  <2>1. /\ pc'[q] = "done" /\ response'[q].status \in {200, 500}
        /\ UNCHANGED <<kind, paid, unavailable>>
        /\ \A p \in Requests : p # q => pc'[p] = pc[p] /\ response'[p] = response[p]
    BY <1>5 DEF BodyRefused, HandlerReturns, HandlerRaises, Resume, Respond
  <2> QED BY <2>1
<1>6. ASSUME NEW q \in Requests, Leave(q)
      PROVE  LetThroughInv'
  BY <1>6 DEF Leave, Resume, NoResponse
<1>7. ASSUME UNCHANGED requestVars
      PROVE  LetThroughInv'
  BY <1>7 DEF requestVars
<1>8. ASSUME \/ \E k \in Keys : Expire(k) \/ Lose(k)
             \/ Tick
             \/ \E time \in 0 .. (clock - 1) : StepBack(time)
             \/ UNCHANGED vars
      PROVE  UNCHANGED requestVars
  BY <1>8 DEF Expire, Lose, Tick, StepBack, vars
<1> HIDE DEF LetThroughInv
<1> QED BY <1>1, <1>2, <1>3, <1>4, <1>5, <1>6, <1>7, <1>8 DEF Next

\* With fail_open an outage of Redis refuses nobody, whatever the limits and
\* whichever of the checks it hits.
THEOREM OutagesStayLetThrough == Spec => []OutagesLetThrough
<1>1. Init => LetThroughInv
  <2>1. Init => TypeOK
    BY InitIInv DEF IInv
  <2>2. Init => \A q \in Requests : LetThrough(q)
    BY DEF Init, LetThrough, NoResponse
  <2> QED BY <2>1, <2>2 DEF LetThroughInv
<1>2. LetThroughInv /\ [Next]_vars => LetThroughInv'
  BY TypeStep, LetThroughStep DEF LetThroughInv
<1>3. LetThroughInv => OutagesLetThrough
  BY DEF LetThroughInv, LetThrough, OutagesLetThrough
<1> QED BY <1>1, <1>2, <1>3, PTL DEF Spec
=============================================================================
