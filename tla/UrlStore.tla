------------------------------- MODULE UrlStore -------------------------------
(***************************************************************************)
(* What the cache is to somebody who only GETs: every URL is unknown, or   *)
(* being fetched over one connection, or stored.  A fetch whose origin     *)
(* goes away early is lost: the URL is neither fetched again nor forgotten *)
(* (proxy.c drops every later request for it as long as it runs).          *)
(***************************************************************************)
CONSTANT Urls

VARIABLE state

States == {"absent", "fetching", "lost", "stored"}

Init == state = [u \in Urls |-> "absent"]

Turns(U, from, to) ==
  /\ \A u \in U : state[u] = from
  /\ state' = [u \in Urls |-> IF u \in U THEN to ELSE state[u]]

Fetch(u)  == Turns({u}, "absent", "fetching")
Lose(u)   == Turns({u}, "fetching", "lost")
Store(u)  == Turns({u}, "fetching", "stored")

\* One sweep may find several responses expired.
Expire(U) == Turns(U, "stored", "absent")

Next == \/ \E u \in Urls : Fetch(u) \/ Lose(u) \/ Store(u)
        \/ \E U \in SUBSET Urls : Expire(U)

Spec == Init /\ [][Next]_state

==============================================================================
