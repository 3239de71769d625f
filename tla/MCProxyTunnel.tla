---------------------------- MODULE MCProxyTunnel -----------------------------
(***************************************************************************)
(* Clients that CONNECT once and then send what the tunnel relays.         *)
(***************************************************************************)
EXTENDS ProxyClaims

MCKeysRead == [u \in Urls |-> {u}]
Piece == [kind |-> "data"]
MCClientChunks ==
  << {[kind |-> "req", method |-> "CONNECT", url |-> u] : u \in Urls}, {Piece} >>
MCOriginChunks == << {Piece} >>

==============================================================================
