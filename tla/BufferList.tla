------------------------------ MODULE BufferList ------------------------------
(***************************************************************************)
(* Buffer.c, Bucket.c and the token functions of proxy.c: per descriptor,  *)
(* the bytes received and not yet consumed, and a token bucket that limits *)
(* what is written to it.                                                  *)
(***************************************************************************)
EXTENDS ProxyBase

CONSTANTS
  BucketSize,    \* BUCKET_SIZE, the most tokens a bucket holds
  TokenRate,     \* TOKEN_RATE, tokens per second
  Second         \* time units in a second

VARIABLES
  live,          \* the descriptors whose buffers[fd] is not NULL
  content,       \* buffers[fd]->buffer up to its length
  tokens,        \* buffers[fd]->bucket->tokens
  elapsed        \* the time since buffers[fd]->bucket->last_updated

bufferVars == <<live, content, tokens, elapsed>>

(***************************************************************************)
(* The last conjunct makes TimeCap harmless: a bucket that was not updated *)
(* for that long is full whatever longer time has passed.                  *)
(***************************************************************************)
ASSUME BufferAssumption ==
  /\ BucketSize \in Nat
  /\ TokenRate \in Nat
  /\ Second \in Nat \ {0}
  /\ TimeCap * TokenRate >= BucketSize * Second

BufferInit ==
  /\ live = {}
  /\ content = [fd \in Fds |-> <<>>]
  /\ tokens = [fd \in Fds |-> 0]
  /\ elapsed = [fd \in Fds |-> 0]

------------------------------------------------------------------------------
(***************************************************************************)
(* The operators below take `held`, what the buffers hold once the bytes   *)
(* being handled were appended (insertPartialBuffer) or cleared.           *)
(***************************************************************************)

\* new_bucket: a bucket starts empty.
NewBucket(fd) ==
  /\ tokens' = [tokens EXCEPT ![fd] = 0]
  /\ elapsed' = [elapsed EXCEPT ![fd] = 0]

NewPartialBuffer(fd, held) ==
  content' = [held EXCEPT ![fd] = <<>>] /\ NewBucket(fd)

\* insertBufferList, of a new buffer: what the slot held before is lost.
InsertBuffer(fd, held) == live' = live \cup {fd} /\ NewPartialBuffer(fd, held)

\* insertPartialBuffer
Appended(fd, chunks) == [content EXCEPT ![fd] = @ \o chunks]

\* clearFromBufferList, always called with the whole length.
Cleared(fd) == [content EXCEPT ![fd] = <<>>]

Hold(held) == content' = held /\ UNCHANGED <<live, tokens, elapsed>>

\* deleteFromBufferList; a slot that is NULL counts as empty.
DeleteBuffer(fd) ==
  live' = live \ {fd} /\ NewPartialBuffer(fd, content)

------------------------------------------------------------------------------
\* Mutant of Refilled: bucket_size is not looked at.
RefilledUncapped(fd) == tokens[fd] + (elapsed[fd] * TokenRate) \div Second

Refilled(fd) ==
  LET num_tokens == (elapsed[fd] * TokenRate) \div Second
  IN  IF tokens[fd] + num_tokens > BucketSize THEN BucketSize
      ELSE tokens[fd] + num_tokens

\* add_tokens looks at the slots above listen_sock and below its length.
Refillable(length) == {fd \in live : fd < length}

AddTokens(length) ==
  /\ tokens' = [fd \in Fds |->
                  IF fd \in Refillable(length) THEN Refilled(fd) ELSE tokens[fd]]
  /\ elapsed' = [fd \in Fds |->
                  IF fd \in Refillable(length) THEN 0 ELSE elapsed[fd]]
  /\ UNCHANGED <<live, content>>

\* use_tokens writes msg_size bytes to a descriptor that can pay for them.
CanPay(fd, msg_size) == tokens[fd] >= msg_size

Paid(fds, msg_size) ==
  [fd \in Fds |-> IF fd \in fds THEN tokens[fd] - msg_size ELSE tokens[fd]]

\* One time unit passes for every bucket.
BufferTick ==
  /\ elapsed' = [fd \in Fds |-> IF fd \in live THEN Older(elapsed[fd]) ELSE 0]
  /\ UNCHANGED <<live, content, tokens>>

------------------------------------------------------------------------------
\* The buffers are well formed, and no bucket holds more than it may.
BufferTypeOK ==
  /\ live \subseteq Fds
  /\ content \in [Fds -> Seq(Chunk)]
  /\ tokens \in [Fds -> 0..BucketSize]
  /\ elapsed \in [Fds -> 0..TimeCap]

==============================================================================
