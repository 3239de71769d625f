----------------------------- MODULE TokenBucket ------------------------------
(***************************************************************************)
(* One token bucket at the resolution of gettimeofday: Bucket.c, and       *)
(* add_tokens and use_tokens of proxy.c as they act on it.  Refills come   *)
(* in any rhythm, since add_tokens runs once per pass of the loop and      *)
(* passes over the largest descriptor.  What a refill is worth is rounded  *)
(* down, and the clock is read twice: once to reckon the tokens and again  *)
(* for last_updated.                                                       *)
(***************************************************************************)
EXTENDS Integers

CONSTANTS
  BucketSize,    \* BUCKET_SIZE
  TokenRate,     \* TOKEN_RATE, tokens per second
  Second,        \* ticks per second, 1000000 in the code
  AgeLen,        \* the length of the Age header handleServer adds
  Sizes,         \* the lengths of responses
  Horizon        \* bound: the ticks a behaviour lasts

ASSUME BucketAssumption ==
  /\ BucketSize \in Nat /\ TokenRate \in Nat /\ Second \in Nat \ {0}
  /\ AgeLen \in Nat /\ Sizes \subseteq Nat \ {0}
  /\ Horizon \in Nat

VARIABLES
  tokens,        \* bucket->tokens
  last_updated,  \* bucket->last_updated
  now,           \* the clock
  read,          \* what add_tokens read from it before it adds the tokens
  stamping,      \* add_tokens is between its two readings
  waiting,       \* the length of the response whose client_fds holds this client
  spent,         \* history: the tokens used
  refills,       \* history: the refills that may have lost a part of a token
  unpaid,        \* history: the ticks between the two readings of the clock
  capped,        \* history: whether a refill was cut off at bucket_size
  credit         \* history: the credit of the RateLimit this bucket implements

bucket == <<tokens, last_updated, read, stamping>>
loss   == <<refills, unpaid, capped>>
vars   == <<bucket, loss, now, waiting, spent, credit>>

Least(a, b) == IF a <= b THEN a ELSE b

(***************************************************************************)
(* A full bucket that was not refilled for long may be emptied, refilled   *)
(* at once, and emptied again: the burst is twice the bucket.              *)
(***************************************************************************)
Burst == 2 * BucketSize * Second

Limit == INSTANCE RateLimit

\* new_bucket: the bucket starts empty.
Init ==
  /\ tokens = 0 /\ last_updated = 0 /\ now = 0
  /\ read = 0 /\ stamping = FALSE
  /\ waiting = 0
  /\ spent = 0 /\ refills = 0 /\ unpaid = 0 /\ capped = FALSE /\ credit = 0

------------------------------------------------------------------------------
\* Mutant of NumTokens: rounded up.
NumTokensUp == ((now - last_updated) * TokenRate + Second - 1) \div Second

\* Mutant of NumTokens: whole seconds only.
NumTokensTwice == ((now - last_updated) \div Second) * TokenRate

NumTokens == ((now - last_updated) * TokenRate) \div Second

\* Mutant of Refill: the bucket may run over.
RefillUncapped ==
  /\ ~stamping /\ stamping' = TRUE /\ read' = now
  /\ tokens' = tokens + NumTokens
  /\ refills' = IF now > last_updated THEN refills + 1 ELSE refills
  /\ UNCHANGED <<capped, last_updated, now, waiting, spent, unpaid, credit>>

\* add_tokens, when its loop gets to this bucket.
Refill ==
  /\ ~stamping /\ stamping' = TRUE /\ read' = now
  /\ tokens' = Least(tokens + NumTokens, BucketSize)
  /\ capped' = (capped \/ tokens + NumTokens > BucketSize)
  /\ refills' = IF now > last_updated THEN refills + 1 ELSE refills
  /\ UNCHANGED <<last_updated, now, waiting, spent, unpaid, credit>>

\* Its last statement reads the clock again.
Stamp ==
  /\ stamping /\ stamping' = FALSE
  /\ last_updated' = now
  /\ unpaid' = unpaid + (now - read)
  /\ UNCHANGED <<tokens, read, now, waiting, spent, refills, capped, credit>>

\* Mutant of Pay: the write is not paid for.
PayNothing(msg_size) ==
  /\ tokens >= msg_size
  /\ spent' = spent + msg_size
  /\ credit' = credit - msg_size * Second
  /\ UNCHANGED <<bucket, now, loss>>

\* use_tokens, with enough of them.
Pay(msg_size) ==
  /\ tokens >= msg_size
  /\ tokens' = tokens - msg_size
  /\ spent' = spent + msg_size
  /\ credit' = credit - msg_size * Second
  /\ UNCHANGED <<last_updated, read, stamping, now, loss>>

\* handleServer: the response is written with its Age header, or has to wait.
Respond(size) ==
  /\ ~stamping /\ waiting = 0
  /\ \/ Pay(size + AgeLen) /\ waiting' = 0
     \/ /\ tokens < size + AgeLen /\ waiting' = size
        /\ UNCHANGED <<bucket, loss, now, spent, credit>>

\* check_cached_messages writes what waits and leaves it waiting.
Retry == ~stamping /\ waiting # 0 /\ Pay(waiting) /\ UNCHANGED waiting

\* delete_expired
Expire ==
  /\ ~stamping /\ waiting # 0 /\ waiting' = 0
  /\ UNCHANGED <<bucket, loss, now, spent, credit>>

\* Time passes, inside add_tokens too.
Tick ==
  /\ now < Horizon
  /\ now' = now + 1
  /\ credit' = Least(credit + TokenRate, Burst)
  /\ UNCHANGED <<bucket, loss, waiting, spent>>

Next ==
  \/ Refill
  \/ Stamp
  \/ \E size \in Sizes : Respond(size)
  \/ Retry
  \/ Expire
  \/ Tick

Spec == Init /\ [][Next]_vars

------------------------------------------------------------------------------
\* The bucket holds between nothing and bucket_size.
BucketTypeOK ==
  /\ tokens \in 0..BucketSize
  /\ now \in 0..Horizon /\ read \in 0..now /\ last_updated \in 0..now
  /\ stamping \in BOOLEAN
  /\ waiting \in Sizes \cup {0}
  /\ spent \in Nat /\ refills \in 0..now /\ unpaid \in 0..now
  /\ capped \in BOOLEAN
  /\ credit \in 0..Burst

\* The time a refill would be paid for; none while it is being reckoned.
Due == IF stamping THEN 0 ELSE now - last_updated

\* The tokens, and those the time since the last refill will bring, never
\* amount to more than the credit of a bucket twice the size.
CreditBacked ==
  tokens * Second + Least(TokenRate * Due, BucketSize * Second) <= credit

(***************************************************************************)
(* Whatever the rhythm of the refills, what a client is sent through the   *)
(* bucket stays within the limit of a bucket twice the size: in no stretch *)
(* of time is it sent more than TokenRate allows and twice BucketSize.     *)
(***************************************************************************)
ImplementsRateLimit == Limit!Spec

(***************************************************************************)
(* Rounding costs less than one token per refill: a client whose bucket    *)
(* never ran full has been given all that the rate promises, but for that  *)
(* and for the time between the two readings of the clock.                 *)
(***************************************************************************)
RoundingLoss ==
  LET since == IF stamping THEN read ELSE last_updated
  IN  capped \/ TokenRate * now <= (tokens + spent + refills) * Second
                                     + TokenRate * (now - since + unpaid)

==============================================================================
