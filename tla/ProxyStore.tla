------------------------------ MODULE ProxyStore ------------------------------
(***************************************************************************)
(* The proxy, its clients sending nothing but GET, is a UrlStore.          *)
(***************************************************************************)
EXTENDS Proxy

Pending(u)  == \E i \in Slots : arr[i] # NULL /\ arr[i].key = u /\ ~HasResponse(arr[i])
Stored(u)   == \E i \in Slots : arr[i] # NULL /\ arr[i].key = u /\ HasResponse(arr[i])
Fetching(u) == \E fd \in Fds : sock[fd].role = "origin" /\ sock[fd].url = u

UrlState ==
  [u \in Urls |-> CASE Stored(u) -> "stored"
                    [] Pending(u) /\ ~Stored(u) /\ Fetching(u) -> "fetching"
                    [] Pending(u) /\ ~Stored(u) /\ ~Fetching(u) -> "lost"
                    [] OTHER -> "absent"]

Store == INSTANCE UrlStore WITH state <- UrlState

\* Every step of the proxy is a step of the abstract store or leaves it alone:
\* a URL is fetched only when nothing is known of it, over one connection whose
\* complete response is stored, and only an expired response is forgotten.
ImplementsUrlStore == Store!Spec

==============================================================================
