------------------------------ MODULE ProxyBase ------------------------------
(***************************************************************************)
(* What every component of the proxy shares: file descriptors, URLs, the   *)
(* pieces of data that arrive on a socket, and the clock.                  *)
(***************************************************************************)
EXTENDS Integers, Sequences

CONSTANTS
  ListenFd,      \* listen_fd, the descriptor of the listening socket
  MaxFd,         \* the largest descriptor the process may open (its limit)
  Urls,          \* the URLs clients ask for, "host:port" of CONNECT included
  NoUrl,         \* stands for a string that is the URL of no request
  MaxAges,       \* the values of Cache-Control: max-age origins answer with
  DefaultMaxAge, \* DEFAULT_MAX_AGE, for a message without Cache-Control
  TimeCap        \* clocks are read as ages, and ages are counted up to here

(***************************************************************************)
(* The kernel hands out the lowest free descriptor; the standard streams   *)
(* and the listening socket are open before any connection, so every       *)
(* connection's descriptor is larger than listen_fd.                       *)
(***************************************************************************)
Fds == (ListenFd + 1)..MaxFd

ASSUME BaseAssumption ==
  /\ ListenFd \in Nat
  /\ MaxFd \in Nat /\ ListenFd <= MaxFd
  /\ NoUrl \notin Urls
  /\ MaxAges \subseteq Nat
  /\ DefaultMaxAge \in MaxAges
  /\ TimeCap \in Nat
  /\ \A m \in MaxAges : m <= TimeCap

(***************************************************************************)
(* A chunk is what one segment brings.  "req": the bytes that complete a   *)
(* request header (a request other than GET and CONNECT carries a body and *)
(* its Content-Length).  "end": the bytes that complete a response, header *)
(* and Content-Length body.  "data": bytes that complete neither: part of  *)
(* a header or body, a response without Content-Length, tunnelled bytes.   *)
(***************************************************************************)
Methods == {"GET", "CONNECT", "OTHER"}
Request == [kind : {"req"}, method : Methods, url : Urls]
End     == [kind : {"end"}, max_age : MaxAges]
Data    == [kind : {"data"}]
Chunk   == Request \cup End \cup Data

\* One time unit more, up to TimeCap; beyond it every age acts the same.
Older(t) == IF t < TimeCap THEN t + 1 ELSE t

==============================================================================
