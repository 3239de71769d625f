--------------------------- MODULE TokenBucketProofs --------------------------
(***************************************************************************)
(* A token bucket implements the rate limit, for every size and rate.      *)
(***************************************************************************)
EXTENDS TokenBucket, TLAPS

LEMMA LeastIsLeast ==
  ASSUME NEW a \in Int, NEW b \in Int
  PROVE  /\ Least(a, b) \in Int /\ Least(a, b) <= a /\ Least(a, b) <= b
         /\ Least(a, b) = a \/ Least(a, b) = b
BY DEF Least

LEMMA DistributeOver ==
  ASSUME NEW k \in Nat, NEW a \in Int, NEW b \in Int
  PROVE  /\ k * (a + b) = k * a + k * b /\ (a + b) * k = a * k + b * k
         /\ k * (a - b) = k * a - k * b /\ (a - b) * k = a * k - b * k
OBVIOUS

LEMMA ProductNat ==
  ASSUME NEW a \in Nat, NEW b \in Nat
  PROVE  a * b \in Nat
OBVIOUS

LEMMA Monotone ==
  ASSUME NEW k \in Nat, NEW a \in Int, NEW b \in Int, a <= b
  PROVE  k * a <= k * b /\ a * k <= b * k
OBVIOUS

\* When the last refill read the clock.
Since == IF stamping THEN read ELSE last_updated

\* What BucketTypeOK needs to be inductive: a refill that may lose a part of a
\* token, and a tick between two readings, happened before Since.
HistoryBound == refills <= Since /\ unpaid <= Since

Ranges == BucketTypeOK /\ HistoryBound

\* What a refill is worth, rounded down.
LEMMA NumTokensRounds ==
  ASSUME Ranges
  PROVE  /\ NumTokens \in Nat
         /\ NumTokens * Second <= TokenRate * (now - last_updated)
         /\ TokenRate * (now - last_updated) < (NumTokens + 1) * Second
         /\ now = last_updated => NumTokens = 0
<1> DEFINE earned == (now - last_updated) * TokenRate
<1>1. now \in Nat /\ last_updated \in Nat /\ now - last_updated \in Nat
      /\ TokenRate \in Nat /\ Second \in Nat /\ Second > 0
  BY BucketAssumption DEF Ranges, BucketTypeOK
<1>2. earned \in Nat /\ earned = TokenRate * (now - last_updated)
  BY <1>1
<1>3. \A n \in Nat : /\ n \div Second \in Nat
                     /\ (n \div Second) * Second <= n
                     /\ n < ((n \div Second) + 1) * Second
  BY <1>1
<1>4. now = last_updated => earned = 0
  BY <1>1
<1>5. 0 \div Second = 0
  BY <1>1
<1> HIDE DEF earned
<1>6. NumTokens = earned \div Second
  BY DEF NumTokens, earned
<1> QED
  BY <1>2, <1>3, <1>4, <1>5, <1>6

LEMMA SinceRange ==
  ASSUME Ranges
  PROVE  /\ now \in Nat /\ read \in Nat /\ last_updated \in Nat
         /\ Since \in Nat /\ Since <= now
         /\ refills \in Nat /\ unpaid \in Nat /\ spent \in Nat /\ tokens \in Nat
         /\ credit \in Nat /\ Burst \in Nat
BY BucketAssumption DEF Ranges, HistoryBound, BucketTypeOK, Since, Burst

THEOREM TokenBucketInit == Init => Ranges /\ CreditBacked /\ RoundingLoss
<1> SUFFICES ASSUME Init PROVE Ranges /\ CreditBacked /\ RoundingLoss
  OBVIOUS
<1>1. BucketSize \in Nat /\ Second \in Nat /\ Horizon \in Nat /\ TokenRate \in Nat
  BY BucketAssumption
<1>2. Burst \in Nat /\ BucketSize * Second \in Nat
  BY <1>1 DEF Burst
<1>3. Ranges
  <2>1. tokens \in 0..BucketSize /\ waiting \in Sizes \cup {0} /\ credit \in 0..Burst
    BY <1>1, <1>2 DEF Init
  <2>2. /\ now \in 0..Horizon /\ read \in 0..now /\ last_updated \in 0..now
        /\ spent \in Nat /\ refills \in 0..now /\ unpaid \in 0..now
    BY <1>1 DEF Init
  <2>3. stamping \in BOOLEAN /\ capped \in BOOLEAN /\ Since = 0
    BY DEF Init, Since
  <2>4. HistoryBound
    BY <2>3 DEF Init, HistoryBound
  <2> QED
    BY <2>1, <2>2, <2>3, <2>4 DEF Ranges, BucketTypeOK
<1>4. Due = 0 /\ TokenRate * 0 = 0 /\ 0 * Second = 0
  BY <1>1 DEF Init, Due
<1>5. Least(TokenRate * Due, BucketSize * Second) = 0
  BY <1>2, <1>4 DEF Least
<1>6. CreditBacked
  BY <1>4, <1>5 DEF CreditBacked, Init
<1>7. RoundingLoss
  BY <1>1 DEF RoundingLoss, Init
<1> QED
  BY <1>3, <1>6, <1>7

(***************************************************************************)
(* What a payment does: it is covered by the credit, and the tokens stay   *)
(* backed.                                                                 *)
(***************************************************************************)
LEMMA PayKeeps ==
  ASSUME Ranges, CreditBacked, RoundingLoss, NEW msg_size \in Nat, Pay(msg_size)
  PROVE  /\ tokens' \in 0..BucketSize /\ spent' \in Nat /\ credit' \in 0..Burst
         /\ credit >= msg_size * Second /\ msg_size \in 0..(2 * BucketSize)
         /\ CreditBacked' /\ RoundingLoss'
<1> DEFINE due == Least(TokenRate * Due, BucketSize * Second)
<1>1. /\ tokens \in 0..BucketSize /\ credit \in 0..Burst /\ spent \in Nat
      /\ BucketSize \in Nat /\ Second \in Nat /\ TokenRate \in Nat /\ Burst \in Nat
      /\ msg_size <= tokens /\ Due \in Nat
  BY BucketAssumption, SinceRange DEF Ranges, BucketTypeOK, Pay, Due, Burst
<1>2. TokenRate * Due \in Nat /\ BucketSize * Second \in Nat
  BY <1>1
<1>3. due \in Nat
  BY <1>2 DEF Least
<1>4. msg_size * Second <= tokens * Second /\ msg_size * Second \in Nat
      /\ tokens * Second \in Nat
      /\ (tokens - msg_size) * Second = tokens * Second - msg_size * Second
  BY <1>1, Monotone, DistributeOver
<1>5. tokens * Second + due <= credit
  BY DEF CreditBacked
<1>6. Due' = Due
  BY DEF Pay, Due, bucket
<1>7. due' = due
  BY <1>6
<1>8. tokens' = tokens - msg_size /\ spent' = spent + msg_size
      /\ credit' = credit - msg_size * Second
  BY DEF Pay
<1> HIDE DEF due
<1>9. credit >= msg_size * Second /\ credit' \in 0..Burst
  BY <1>1, <1>3, <1>4, <1>5, <1>8
<1>10. tokens' * Second + due' <= credit'
  BY <1>1, <1>3, <1>4, <1>5, <1>7, <1>8
<1>11. CreditBacked'
  BY <1>10 DEF CreditBacked, due
<1>12. tokens' + spent' + refills = tokens + spent + refills
  BY <1>1, <1>8, SinceRange
<1>13. RoundingLoss'
  BY <1>12 DEF RoundingLoss, Pay, bucket, loss
<1> QED
  BY <1>1, <1>8, <1>9, <1>11, <1>13

\* The refill of add_tokens: the tokens it adds were part of the credit.
LEMMA RefillKeeps ==
  ASSUME Ranges, CreditBacked, RoundingLoss, Refill
  PROVE  Ranges' /\ CreditBacked' /\ RoundingLoss'
<1> DEFINE owed == TokenRate * (now - last_updated)
           full == BucketSize * Second
           filled == Least(tokens + NumTokens, BucketSize)
           counted == IF now > last_updated THEN refills + 1 ELSE refills
<1>1. /\ tokens \in 0..BucketSize /\ credit \in 0..Burst /\ spent \in Nat
      /\ BucketSize \in Nat /\ Second \in Nat \ {0} /\ TokenRate \in Nat
      /\ now \in Nat /\ last_updated \in 0..now /\ unpaid \in Nat /\ refills \in Nat
  BY BucketAssumption, SinceRange DEF Ranges, BucketTypeOK
<1>2. NumTokens \in Nat /\ NumTokens * Second <= owed
      /\ owed < (NumTokens + 1) * Second /\ (now = last_updated => NumTokens = 0)
  BY NumTokensRounds
<1>3. /\ owed \in Nat /\ full \in Nat /\ NumTokens * Second \in Nat
      /\ tokens * Second \in Nat /\ tokens * Second <= full
      /\ (tokens + NumTokens) * Second = tokens * Second + NumTokens * Second
  BY <1>1, <1>2, DistributeOver, Monotone
<1>4. /\ filled \in 0..BucketSize /\ filled <= tokens + NumTokens
      /\ filled = tokens + NumTokens \/ tokens + NumTokens > BucketSize
      /\ counted \in Nat
  BY <1>1, <1>2 DEF Least
<1>5. /\ tokens' = filled /\ refills' = counted
      /\ stamping' = TRUE /\ read' = now
      /\ last_updated' = last_updated /\ now' = now /\ waiting' = waiting
      /\ spent' = spent /\ unpaid' = unpaid /\ credit' = credit
  BY DEF Refill
<1>6. stamping = FALSE /\ capped' = (capped \/ tokens + NumTokens > BucketSize)
  BY DEF Refill, Ranges, BucketTypeOK
<1> HIDE DEF filled
<1>7. Ranges'
  <2>1. refills <= last_updated /\ unpaid <= last_updated
    BY <1>6 DEF Ranges, HistoryBound, Since
  <2>2. counted \in 0..now /\ unpaid \in 0..now
    BY <1>1, <2>1
  <2>3. Since' = now
    BY <1>5 DEF Since
  <2> HIDE DEF counted
  <2>4. HistoryBound'
    BY <1>5, <2>2, <2>3 DEF HistoryBound
  <2>5. capped' \in BOOLEAN
    BY <1>6
  <2>6. now' \in 0..Horizon /\ read' \in 0..now' /\ last_updated' \in 0..now'
    BY <1>1, <1>5 DEF Ranges, BucketTypeOK
  <2>7. BucketTypeOK'
    BY <1>4, <1>5, <2>2, <2>5, <2>6 DEF Ranges, BucketTypeOK, Burst
  <2> QED
    BY <2>4, <2>7 DEF Ranges
<1>8. CreditBacked'
  <2>1. Due = now - last_updated /\ Due' = 0
    BY <1>5, <1>6 DEF Due
  <2>2. tokens * Second + Least(owed, full) <= credit
    BY <2>1 DEF CreditBacked
  <2>3. filled * Second <= (tokens + NumTokens) * Second /\ filled * Second <= full
        /\ filled * Second \in Nat
    BY <1>1, <1>2, <1>4, Monotone, ProductNat
  <2>4. filled * Second <= credit
    <3> HIDE DEF owed, full
    <3> QED
      BY <1>1, <1>2, <1>3, <2>2, <2>3 DEF Least
  <2>5. Least(TokenRate * 0, full) = 0
    BY <1>1, <1>3 DEF Least
  <2>6. filled * Second + Least(TokenRate * 0, full) <= credit
    BY <2>3, <2>4, <2>5
  <2> QED
    BY <1>5, <2>1, <2>6 DEF CreditBacked
<1>9. RoundingLoss'
  <2> SUFFICES ASSUME ~capped'
               PROVE  TokenRate * now <= (filled + spent + counted) * Second
                                           + TokenRate * (now - now + unpaid)
    BY <1>5 DEF RoundingLoss
  <2>1. ~capped /\ filled = tokens + NumTokens
    BY <1>4, <1>6
  <2>2. TokenRate * now <= (tokens + spent + refills) * Second
                             + TokenRate * (now - last_updated + unpaid)
    BY <1>6, <2>1 DEF RoundingLoss
  <2>3. TokenRate * (now - last_updated + unpaid) = owed + TokenRate * unpaid
    BY <1>1, DistributeOver
  <2>4. (tokens + spent + refills) * Second + owed <= (filled + spent + counted) * Second
    <3>1. CASE now > last_updated
      <4>1. filled + spent + counted = (tokens + spent + refills) + (NumTokens + 1)
        BY <1>1, <1>2, <2>1, <3>1
      <4>2. (filled + spent + counted) * Second
              = (tokens + spent + refills) * Second + (NumTokens + 1) * Second
        BY <1>1, <1>2, <4>1, DistributeOver
      <4>3. (tokens + spent + refills) * Second \in Nat
            /\ (NumTokens + 1) * Second \in Nat
        BY <1>1, <1>2
      <4> HIDE DEF owed, counted
      <4> QED
        BY <1>2, <1>3, <4>2, <4>3
    <3>2. CASE now = last_updated
      <4>1. owed = 0 /\ filled + spent + counted = tokens + spent + refills
        BY <1>1, <1>2, <2>1, <3>2
      <4>2. (tokens + spent + refills) * Second \in Nat
        BY <1>1
      <4> QED
        BY <4>1, <4>2
    <3> QED
      BY <1>1, <3>1, <3>2
  <2>5. TokenRate * (now - now + unpaid) = TokenRate * unpaid
    BY <1>1
  <2>6. /\ TokenRate * now \in Nat /\ TokenRate * unpaid \in Nat
        /\ (tokens + spent + refills) * Second \in Nat
        /\ (filled + spent + counted) * Second \in Nat
    BY <1>1, <1>4, ProductNat
  <2> HIDE DEF owed, counted
  <2> QED
    BY <1>3, <2>2, <2>3, <2>4, <2>5, <2>6
<1> QED
  BY <1>7, <1>8, <1>9

\* The second reading of the clock.
LEMMA StampKeeps ==
  ASSUME Ranges, CreditBacked, RoundingLoss, Stamp
  PROVE  Ranges' /\ CreditBacked' /\ RoundingLoss'
<1> DEFINE late == unpaid + (now - read)
<1>1. /\ now \in Nat /\ read \in Nat /\ unpaid \in Nat /\ refills \in Nat
      /\ refills <= read /\ unpaid <= read /\ read <= now /\ TokenRate \in Nat
      /\ stamping = TRUE
  BY BucketAssumption, SinceRange DEF Ranges, HistoryBound, BucketTypeOK, Since, Stamp
<1>2. /\ stamping' = FALSE /\ last_updated' = now /\ unpaid' = late
      /\ tokens' = tokens /\ read' = read /\ now' = now /\ waiting' = waiting
      /\ spent' = spent /\ refills' = refills /\ capped' = capped /\ credit' = credit
  BY DEF Stamp
<1>3. late \in 0..now /\ now - now + late = now - read + unpaid
  BY <1>1
<1>4. Since' = now
  BY <1>2 DEF Since
<1> HIDE DEF late
<1>5. Ranges'
  <2>1. HistoryBound'
    <3>1. refills <= now /\ late <= now
      BY <1>1, <1>3
    <3> QED
      BY <1>2, <1>4, <3>1 DEF HistoryBound
  <2>2. /\ now \in 0..Horizon /\ now \in 0..now /\ read \in 0..now
        /\ refills \in 0..now /\ late \in 0..now
    BY <1>1, <1>3 DEF Ranges, BucketTypeOK
  <2>3. BucketTypeOK'
    BY <1>2, <2>2 DEF Ranges, BucketTypeOK, Burst
  <2> QED
    BY <2>1, <2>3 DEF Ranges
<1>6. CreditBacked'
  <2>1. Due = 0 /\ Due' = 0
    BY <1>1, <1>2 DEF Due
  <2> QED
    BY <1>2, <2>1 DEF CreditBacked
<1>7. RoundingLoss'
  BY <1>1, <1>2, <1>3 DEF RoundingLoss
<1> QED
  BY <1>5, <1>6, <1>7

\* Time brings as much credit as it brings tokens, up to the burst.
LEMMA TickKeeps ==
  ASSUME Ranges, CreditBacked, RoundingLoss, Tick
  PROVE  Ranges' /\ CreditBacked' /\ RoundingLoss'
<1> DEFINE full == BucketSize * Second
           grown == Least(credit + TokenRate, Burst)
           later == now + 1
<1>1. /\ tokens \in 0..BucketSize /\ credit \in 0..Burst
      /\ BucketSize \in Nat /\ Second \in Nat /\ TokenRate \in Nat /\ Burst \in Nat
      /\ now \in Nat /\ read \in 0..now /\ last_updated \in 0..now
      /\ unpaid \in 0..now /\ refills \in 0..now /\ Since \in 0..now
      /\ refills <= Since /\ unpaid <= Since
  BY BucketAssumption, SinceRange DEF Ranges, BucketTypeOK, HistoryBound
<1>2. /\ now' = later /\ credit' = grown
      /\ tokens' = tokens /\ last_updated' = last_updated /\ read' = read
      /\ stamping' = stamping /\ refills' = refills /\ unpaid' = unpaid
      /\ capped' = capped /\ waiting' = waiting /\ spent' = spent
  BY DEF Tick, bucket, loss
<1>3. full \in Nat /\ Burst = full + full /\ tokens * Second \in Nat
      /\ tokens * Second <= full
  BY <1>1, Monotone, ProductNat DEF Burst
<1>4. grown \in 0..Burst /\ (grown = credit + TokenRate \/ grown = Burst)
  BY <1>1 DEF Least
<1>5. Since' = Since
  BY <1>2 DEF Since
<1>6. Ranges'
  <2>1. later \in 0..Horizon /\ read \in 0..later /\ last_updated \in 0..later
        /\ refills \in 0..later /\ unpaid \in 0..later
    BY <1>1, BucketAssumption DEF Tick, Ranges, BucketTypeOK
  <2> HIDE DEF later, grown
  <2> QED
    BY <1>1, <1>2, <1>4, <1>5, <2>1 DEF Ranges, HistoryBound, BucketTypeOK, Burst
<1>7. CreditBacked'
  <2> SUFFICES tokens * Second + Least(TokenRate * Due', full) <= grown
    BY <1>2 DEF CreditBacked
  <2>1. tokens * Second + Least(TokenRate * Due, full) <= credit
    BY DEF CreditBacked
  <2>2. CASE stamping = TRUE
    <3>1. Due = 0 /\ Due' = 0
      BY <1>2, <2>2 DEF Due
    <3>2. Least(TokenRate * 0, full) = 0
      BY <1>1, <1>3 DEF Least
    <3> HIDE DEF full, grown
    <3> QED
      BY <1>1, <1>3, <1>4, <2>1, <3>1, <3>2
  <2>3. CASE stamping = FALSE
    <3>1. Due = now - last_updated /\ Due' = later - last_updated
      BY <1>2, <2>3 DEF Due
    <3>2. TokenRate * (later - last_updated) = TokenRate * (now - last_updated) + TokenRate
          /\ TokenRate * (now - last_updated) \in Nat
      BY <1>1, DistributeOver, ProductNat
    <3> DEFINE owed == TokenRate * (now - last_updated)
    <3>3. tokens * Second + Least(owed, full) <= credit
      BY <2>1, <3>1
    <3> HIDE DEF full, grown, owed
    <3>4. tokens * Second + Least(owed + TokenRate, full) <= grown
      BY <1>1, <1>3, <1>4, <3>2, <3>3 DEF Least, owed
    <3> QED
      BY <3>1, <3>2, <3>4 DEF owed
  <2> QED
    BY <2>2, <2>3 DEF Ranges, BucketTypeOK
<1>8. RoundingLoss'
  <2> DEFINE had == (tokens + spent + refills) * Second
  <2> SUFFICES ASSUME ~capped'
               PROVE  TokenRate * later <= had + TokenRate * (later - Since + unpaid)
    BY <1>2 DEF RoundingLoss, Since
  <2>1. TokenRate * now <= had + TokenRate * (now - Since + unpaid)
    BY <1>2 DEF RoundingLoss, Since
  <2>2. /\ TokenRate * later = TokenRate * now + TokenRate
        /\ later - Since + unpaid = (now - Since + unpaid) + 1
    BY <1>1, DistributeOver
  <2>3. TokenRate * (later - Since + unpaid)
          = TokenRate * (now - Since + unpaid) + TokenRate
    BY <1>1, <2>2, DistributeOver
  <2>4. /\ had \in Nat /\ TokenRate * now \in Nat
        /\ TokenRate * (now - Since + unpaid) \in Nat
    <3>1. tokens + spent + refills \in Nat /\ now - Since + unpaid \in Nat
      BY <1>1, SinceRange
    <3> QED
      BY <1>1, <3>1, ProductNat
  <2> HIDE DEF had, later
  <2> QED
    BY <1>1, <2>1, <2>2, <2>3, <2>4
<1> QED
  BY <1>6, <1>7, <1>8


\* Only the rate limit's credit and the tokens of a response change hands.
LEMMA UnmovedKeeps ==
  ASSUME Ranges, CreditBacked, RoundingLoss, waiting' \in Sizes \cup {0},
         UNCHANGED <<bucket, loss, now, spent, credit>>
  PROVE  Ranges' /\ CreditBacked' /\ RoundingLoss'
BY DEF Ranges, HistoryBound, BucketTypeOK, CreditBacked, RoundingLoss, Since, Due,
       Burst, bucket, loss

LEMMA PaidKeeps ==
  ASSUME Ranges, CreditBacked, RoundingLoss, NEW msg_size \in Nat, Pay(msg_size),
         waiting' \in Sizes \cup {0}
  PROVE  Ranges' /\ CreditBacked' /\ RoundingLoss'
<1>1. Ranges'
  BY PayKeeps
     DEF Pay, Ranges, HistoryBound, BucketTypeOK, Since, Burst, bucket, loss
<1> QED
  BY <1>1, PayKeeps

THEOREM TokenBucketStep ==
  Ranges /\ CreditBacked /\ RoundingLoss /\ [Next]_vars
    => Ranges' /\ CreditBacked' /\ RoundingLoss'
<1> SUFFICES ASSUME Ranges, CreditBacked, RoundingLoss, [Next]_vars
             PROVE  Ranges' /\ CreditBacked' /\ RoundingLoss'
  OBVIOUS
<1>1. CASE Refill
  BY <1>1, RefillKeeps
<1>2. CASE Stamp
  BY <1>2, StampKeeps
<1>3. ASSUME NEW len \in Sizes, Respond(len)
      PROVE  Ranges' /\ CreditBacked' /\ RoundingLoss'
  <2>1. len + AgeLen \in Nat
    BY BucketAssumption
  <2>2. waiting' \in Sizes \cup {0}
    BY <1>3 DEF Respond
  <2>3. CASE Pay(len + AgeLen)
    BY <2>1, <2>2, <2>3, PaidKeeps
  <2>4. CASE UNCHANGED <<bucket, loss, now, spent, credit>>
    BY <2>2, <2>4, UnmovedKeeps
  <2> QED
    BY <1>3, <2>3, <2>4 DEF Respond
<1>4. CASE Retry
  <2>1. waiting \in Nat /\ waiting' \in Sizes \cup {0} /\ Pay(waiting)
    BY <1>4, BucketAssumption DEF Retry, Ranges, BucketTypeOK
  <2> QED
    BY <2>1, PaidKeeps
<1>5. CASE Expire
  BY <1>5, UnmovedKeeps DEF Expire
<1>6. CASE Tick
  BY <1>6, TickKeeps
<1>7. CASE UNCHANGED vars
  BY <1>7, UnmovedKeeps DEF vars, Ranges, BucketTypeOK
<1> QED
  BY <1>1, <1>2, <1>3, <1>4, <1>5, <1>6, <1>7 DEF Next

\* The three hold together: none of them is inductive without the others.
THEOREM TokenBucketInvariant == Spec => [](Ranges /\ CreditBacked /\ RoundingLoss)
<1>1. Init => Ranges /\ CreditBacked /\ RoundingLoss
  BY TokenBucketInit
<1>2. Ranges /\ CreditBacked /\ RoundingLoss /\ [Next]_vars
        => Ranges' /\ CreditBacked' /\ RoundingLoss'
  BY TokenBucketStep
<1> QED
  BY <1>1, <1>2, PTL DEF Spec

(***************************************************************************)
(* For any size and rate of the bucket and any rhythm of the refills, a    *)
(* bucket never holds more than its size, nor less than nothing, and       *)
(* last_updated never runs ahead of the clock it was read from.            *)
(***************************************************************************)
THEOREM BucketStaysInRange == Spec => []BucketTypeOK
<1>1. Ranges => BucketTypeOK
  BY DEF Ranges
<1> QED
  BY <1>1, TokenBucketInvariant, PTL

\* The tokens of a bucket, with those the time since its last refill will bring, are
\* backed by the credit of the limit.
THEOREM TokensBacked == Spec => []CreditBacked
<1> QED
  BY TokenBucketInvariant, PTL

\* No rhythm of refills loses more than a token per refill to rounding.
THEOREM LosesLessThanATokenPerRefill == Spec => []RoundingLoss
<1> QED
  BY TokenBucketInvariant, PTL

(***************************************************************************)
(* The bucket implements the rate limit: what a client is sent never       *)
(* exceeds TokenRate over any stretch of time by more than twice the size. *)
(***************************************************************************)
LEMMA LimitInit == Init => Limit!Init
BY DEF Init, Limit!Init

LEMMA PayIsSend ==
  ASSUME Ranges, CreditBacked, RoundingLoss, NEW msg_size \in Nat, Pay(msg_size)
  PROVE  Limit!Next
<1>1. credit >= msg_size * Second /\ msg_size \in 0..(2 * BucketSize)
      /\ credit' = credit - msg_size * Second
  BY PayKeeps DEF Pay
<1>2. Burst \div Second = 2 * BucketSize
  <2>1. /\ BucketSize \in Nat /\ Second \in Nat /\ Second > 0
        /\ 2 * BucketSize \in Nat
    BY BucketAssumption
  <2>2. \A n \in Nat : (n * Second) \div Second = n
    BY <2>1
  <2> QED
    BY <2>1, <2>2 DEF Burst
<1> QED
  BY <1>1, <1>2 DEF Limit!Next, Limit!Send

LEMMA LimitStep ==
  ASSUME Ranges, CreditBacked, RoundingLoss, [Next]_vars
  PROVE  [Limit!Next]_credit
<1>1. ASSUME NEW len \in Sizes, Respond(len)
      PROVE  [Limit!Next]_credit
  <2>1. len + AgeLen \in Nat
    BY BucketAssumption
  <2> QED
    BY <1>1, <2>1, PayIsSend DEF Respond
<1>2. CASE Retry
  <2>1. waiting \in Nat /\ Pay(waiting)
    BY <1>2, BucketAssumption DEF Retry, Ranges, BucketTypeOK
  <2> QED
    BY <2>1, PayIsSend
<1>3. CASE Tick
  BY <1>3 DEF Tick, Least, Limit!Next, Limit!Grow
<1>4. CASE Refill \/ Stamp \/ Expire \/ UNCHANGED vars
  BY <1>4 DEF Refill, Stamp, Expire, vars
<1> QED
  BY <1>1, <1>2, <1>3, <1>4 DEF Next

THEOREM BucketLimitsRate == Spec => ImplementsRateLimit
<1>1. Init => Ranges /\ CreditBacked /\ RoundingLoss
  BY TokenBucketInit
<1>2. Ranges /\ CreditBacked /\ RoundingLoss /\ [Next]_vars
        => Ranges' /\ CreditBacked' /\ RoundingLoss'
  BY TokenBucketStep
<1>3. Ranges /\ CreditBacked /\ RoundingLoss /\ [Next]_vars => [Limit!Next]_credit
  BY LimitStep
<1> QED
  BY <1>1, <1>2, <1>3, LimitInit, PTL DEF Spec, ImplementsRateLimit, Limit!Spec

===============================================================================
