----------------------------- MODULE ProxyClaims ------------------------------
(***************************************************************************)
(* What comments, assertions and the README say of the proxy and what its  *)
(* code does not do: each is stated as the text puts it.                   *)
(***************************************************************************)
EXTENDS Proxy

\* CacheObject.h: client_fds is a "dynamic array of sockfds who want this URL".
\* While a URL is being fetched, everyone who asked for it is in there.
EveryAskerWaits ==
  \A i \in Slots : (arr[i] # NULL /\ ~HasResponse(arr[i])) =>
    \A fd \in Fds :
      (sock[fd].role = "client" /\ asks[fd][arr[i].url] > answers[fd][arr[i].url])
        => fd \in arr[i].client_fds

\* The same comment: who was answered no longer wants the URL.
OnlyAskersWait ==
  \A i \in Slots : arr[i] # NULL =>
    \A fd \in arr[i].client_fds : asks[fd][arr[i].url] > answers[fd][arr[i].url]

\* ServerHandler.h: is_server returns the "associated url if the sockfd refers
\* to a server", "NULL if the sockfd refers to a client".
ClientsAreNoServers ==
  \A fd \in Fds : sock[fd].role = "client" => ~IsServer(fd)

\* proxy.c: assert(cache_obj != NULL), the URL of a complete response is cached.
AssertHolds ==
  \A fd \in Fds, k \in 1..MaxSends :
    (Reads(fd, k) /\ IsServer(fd) /\ Framed(Buffer(fd, k)))
       => Found(ServerUrl(fd))

==============================================================================
