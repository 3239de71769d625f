------------------------------ MODULE RateLimit -------------------------------
(***************************************************************************)
(* What a token bucket promises (README.md: "Rate limiting via the bucket  *)
(* method"): credit grows with time, a fixed amount per tick, up to Burst, *)
(* and every token sent uses up Second of it.                              *)
(***************************************************************************)
EXTENDS Naturals

CONSTANTS
  TokenRate,     \* tokens per second
  Second,        \* ticks per second
  Burst          \* the most credit, in tokens times Second

VARIABLE credit

Init == credit = 0

Grow == credit' = IF credit + TokenRate <= Burst THEN credit + TokenRate
                  ELSE Burst

\* A message longer than the burst is never sent.
Send(size) == credit >= size * Second /\ credit' = credit - size * Second

Next == Grow \/ \E size \in 0..(Burst \div Second) : Send(size)

Spec == Init /\ [][Next]_credit

==============================================================================
