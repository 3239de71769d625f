------------------------------ MODULE MCProxyGet ------------------------------
(***************************************************************************)
(* Clients that only GET, and what they make of the cache.                 *)
(***************************************************************************)
EXTENDS ProxyClaims, ProxyStore

MCKeysRead == [u \in Urls |-> {u}]
OneGet == << {[kind |-> "req", method |-> "GET", url |-> u] : u \in Urls} >>
InOnePiece == << {[kind |-> "end", max_age |-> m] : m \in MaxAges} >>

==============================================================================
