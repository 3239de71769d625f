-------------------------------- MODULE Proxy ---------------------------------
(***************************************************************************)
(* The event loop of proxy.c over the cache, the buffers and the tunnels:  *)
(* one thread that refills the token buckets, retries the responses its    *)
(* clients could not pay for, waits in select, and handles the ready       *)
(* descriptors in increasing order.  The peers send, close and let time    *)
(* pass between any two of its steps.                                      *)
(***************************************************************************)
EXTENDS HttpCache, BufferList, SecureNodes

CONSTANTS
  ResLen,        \* the length of a response
  AgeLen,        \* the length of the Age header handleServer adds to it
  ClientChunks,  \* bound: the nth chunk of a client is one of ClientChunks[n]
  OriginChunks,  \* bound: and the nth chunk of an origin one of OriginChunks[n]
  MaxSends,      \* bound: the most chunks the peer of a connection sends
  MaxConns       \* bound: connections accepted in a behaviour

VARIABLES
  pc,            \* where main's loop is, or "dead": the process has ended
  max_sock,      \* max_sock
  master,        \* master_fd_set
  ready,         \* the descriptors of copy_fd_set not visited yet
  idx,           \* i of the loop of check_cached_messages
  server_list,   \* the URLs of a descriptor's nodes, the nearest to the front first
  sock,          \* the kernel's sockets: who is at the other end, what it sent
  conns,         \* the number of connections accepted
  asks,          \* history: requests read from a connection, per URL
  answers,       \* history: responses written to it, per URL they were fetched for
  partner        \* history: the other end of a connection's tunnel, 0 if none

loopVars == <<pc, max_sock, master, ready, idx>>
ghosts == <<asks, answers, partner>>
vars == <<cacheVars, bufferVars, secure_list, loopVars, server_list, sock,
          conns, ghosts>>

ASSUME ProxyAssumption ==
  /\ ResLen \in Nat /\ AgeLen \in Nat
  /\ MaxConns \in Nat /\ MaxSends \in Nat
  /\ ClientChunks \in Seq(SUBSET (Request \cup Data))
  /\ OriginChunks \in Seq(SUBSET (End \cup Data))
  /\ Len(ClientChunks) <= MaxSends /\ Len(OriginChunks) <= MaxSends

Sources == Urls \cup {NoUrl}

Socket == [role : {"free", "client", "origin"}, url : Sources,
           inq : Seq(Chunk), fin : BOOLEAN, sends : 0..MaxSends]

Connection(role, u) ==
  [role |-> role, url |-> u, inq |-> <<>>, fin |-> FALSE, sends |-> 0]

NoSocket == Connection("free", NoUrl)
NoAsks == [u \in Urls |-> 0]
NoAnswers == [u \in Sources |-> 0]

Init ==
  /\ CacheInit /\ BufferInit /\ SecureInit
  /\ pc = "add_tokens" /\ idx = 0
  /\ max_sock = ListenFd /\ master = {ListenFd} /\ ready = {}
  /\ server_list = [fd \in Fds |-> <<>>]
  /\ sock = [fd \in Fds |-> NoSocket]
  /\ conns = 0
  /\ asks = [fd \in Fds |-> NoAsks]
  /\ answers = [fd \in Fds |-> NoAnswers]
  /\ partner = [fd \in Fds |-> 0]

------------------------------------------------------------------------------
Open(fd) == sock[fd].role # "free"

\* The kernel returns the lowest free descriptor.
NextFd(fd) == ~Open(fd) /\ \A g \in Fds : g < fd => Open(g)

\* Mutant of Watch: the new descriptor is taken for the largest.
WatchNewest(fd) == master' = master \cup {fd} /\ max_sock' = fd

\* FD_SET and the update of max_sock.
Watch(fd) ==
  /\ master' = master \cup {fd}
  /\ max_sock' = IF fd > max_sock THEN fd ELSE max_sock

\* Mutant of PushNode: the node goes to the end of the list.
PushNodeLast(fd, u) == server_list' = [server_list EXCEPT ![fd] = @ \o <<u>>]

\* pushFrontServerNode
PushNode(fd, u) == server_list' = [server_list EXCEPT ![fd] = <<u>> \o @]

\* deleteFromServerList removes the node nearest to the front.
DeleteNode(fd) == server_list' = [server_list EXCEPT ![fd] = Tail(@)]

\* isServer: the first node of fd decides.
IsServer(fd) == server_list[fd] # <<>>
ServerUrl(fd) == Head(server_list[fd])

\* What the histories and the tunnels' ends become when fd is closed.
Forget(fd) == partner' = [g \in Fds |-> IF g = fd \/ partner[g] = fd THEN 0
                                        ELSE partner[g]]

AnswerCap == MaxSends + 1

\* The responses written so far, one more to each of fds, fetched for src.
Answered(fds, src) ==
  [g \in Fds |->
     IF g \in fds /\ answers[g][src] < AnswerCap
     THEN [answers[g] EXCEPT ![src] = @ + 1] ELSE answers[g]]

------------------------------------------------------------------------------
(***************************************************************************)
(* The passes of the loop outside the handlers.                            *)
(***************************************************************************)
AddTokensStep ==
  /\ pc = "add_tokens"
  /\ AddTokens(max_sock)
  /\ pc' = "check" /\ idx' = 0
  /\ UNCHANGED <<cacheVars, secure_list, max_sock, master, ready, server_list,
                 sock, conns, ghosts>>

\* The clients check_cached_messages writes the object in slot idx to.
Retried ==
  IF arr[idx] = NULL \/ ~HasResponse(arr[idx]) THEN {}
  ELSE {fd \in arr[idx].client_fds : CanPay(fd, ResLen)}

\* check_cached_messages looks at one slot; it leaves client_fds alone.
CheckCachedMessages ==
  /\ pc = "check" /\ idx < num_obj
  /\ tokens' = Paid(Retried, ResLen)
  /\ answers' = IF Retried = {} THEN answers
                ELSE Answered(Retried, arr[idx].source)
  /\ idx' = idx + 1
  /\ UNCHANGED <<cacheVars, live, content, elapsed, secure_list, pc, max_sock,
                 master, ready, server_list, sock, conns, asks, partner>>

Readable(fd) == sock[fd].inq # <<>> \/ sock[fd].fin

Watched == master \ {ListenFd}

\* select(max_sock + 1, ...)
Selected == {fd \in Watched : fd <= max_sock /\ Readable(fd)}

\* select returns what is readable, a pending connection included; on its
\* timeout that is nothing.
Select ==
  /\ pc = "check" /\ idx >= num_obj
  /\ \E fresh \in SUBSET {ListenFd} :
       /\ fresh # {} => conns < MaxConns
       /\ ready' = fresh \cup Selected
  /\ pc' = "dispatch" /\ idx' = 0
  /\ UNCHANGED <<cacheVars, bufferVars, secure_list, max_sock, master,
                 server_list, sock, conns, ghosts>>

\* The loop over copy_fd_set reads max_sock again before every descriptor.
Turn(fd) ==
  /\ pc = "dispatch" /\ fd \in ready /\ fd <= max_sock
  /\ \A g \in ready : fd <= g

\* Mutant of Visited: a pass serves the lowest ready descriptor only.
VisitedOnly(fd) == ready' = {} /\ UNCHANGED <<pc, idx>>

Visited(fd) == ready' = ready \ {fd} /\ UNCHANGED <<pc, idx>>

EndOfPass ==
  /\ pc = "dispatch" /\ \A fd \in ready : fd > max_sock
  /\ DeleteExpired
  /\ pc' = "add_tokens" /\ ready' = {}
  /\ UNCHANGED <<bufferVars, secure_list, max_sock, master, idx, server_list,
                 sock, conns, ghosts>>

\* server_error, a failed assertion and SIGPIPE end the process.
Die == pc' = "dead" /\ UNCHANGED <<cacheVars, bufferVars, secure_list, max_sock,
                                   master, ready, idx, server_list, sock, conns,
                                   ghosts>>

------------------------------------------------------------------------------
(***************************************************************************)
(* Connections come and go.                                                *)
(***************************************************************************)
HandleNewConnection ==
  /\ Turn(ListenFd)
  /\ \E fd \in Fds :
       /\ NextFd(fd)
       /\ Watch(fd)
       /\ InsertBuffer(fd, content)
       /\ sock' = [sock EXCEPT ![fd] = Connection("client", NoUrl)]
  /\ Visited(ListenFd)
  /\ conns' = conns + 1
  /\ UNCHANGED <<cacheVars, secure_list, server_list, ghosts>>

\* accept fails: no descriptor is free, or the connection was given up.
AcceptFails == Turn(ListenFd) /\ Die

\* read returned 0.  The node in server_list, if any, stays.
HandleDisconnect(fd) ==
  /\ Turn(fd) /\ sock[fd].fin /\ sock[fd].inq = <<>>
  /\ DeleteBuffer(fd)
  /\ DeleteBySockfd(fd)
  /\ sock' = [sock EXCEPT ![fd] = NoSocket]
  /\ max_sock' = IF max_sock = fd THEN max_sock - 1 ELSE max_sock
  /\ DeleteSecureNode(fd)
  /\ master' = master \ {fd}
  /\ Visited(fd)
  /\ asks' = [asks EXCEPT ![fd] = NoAsks]
  /\ answers' = [answers EXCEPT ![fd] = NoAnswers]
  /\ Forget(fd)
  /\ UNCHANGED <<server_list, conns>>

\* read returned -1: the peer reset the connection, what it sent is lost.
ReadError(fd) ==
  /\ Turn(fd) /\ sock[fd].fin /\ sock[fd].inq # <<>>
  /\ sock' = [sock EXCEPT ![fd].inq = <<>>]
  /\ Visited(fd)
  /\ UNCHANGED <<cacheVars, bufferVars, secure_list, max_sock, master,
                 server_list, conns, ghosts>>

------------------------------------------------------------------------------
(***************************************************************************)
(* handleExistingConnection reads k chunks, as many as one read returns,   *)
(* and appends them to the buffer of fd.                                   *)
(***************************************************************************)
Reads(fd, k) == Turn(fd) /\ k \in 1..Len(sock[fd].inq)
Buffer(fd, k) == content[fd] \o SubSeq(sock[fd].inq, 1, k)
Drained(fd, k) == [sock EXCEPT ![fd].inq = SubSeq(@, k + 1, Len(@))]

\* parse_http_res found a header, and the body is as long as it says.  It
\* takes a request with a body for a response too.
Whole(c) == c.kind = "end" \/ (c.kind = "req" /\ c.method = "OTHER")
Framed(buf) ==
  /\ Whole(buf[Len(buf)])
  /\ \A i \in 1..(Len(buf) - 1) : buf[i].kind = "data"
AgeLimit(c) == IF c.kind = "end" THEN c.max_age ELSE DefaultMaxAge

\* headerWithAge adds a header line.
WithAge(size) == size + AgeLen

\* The clients handleServer can write the response to at once.
Served(i) == {fd \in arr[i].client_fds : CanPay(fd, WithAge(ResLen))}

\* Mutant of CloseOrigin: the clients that have their answer are closed too.
CloseAll(fd, i) ==
  sock' = [g \in Fds |-> IF g = fd \/ g \in Served(i) THEN NoSocket ELSE sock[g]]

\* close(fd)
CloseOrigin(fd, i) == sock' = [sock EXCEPT ![fd] = NoSocket]

(***************************************************************************)
(* handleServer: the response is complete.  The buffer's slot and max_sock *)
(* stay as they are when the descriptor is closed.                         *)
(***************************************************************************)
StoreAndForward(fd, k) ==
  /\ Reads(fd, k) /\ IsServer(fd) /\ Framed(Buffer(fd, k))
  /\ \E i \in Slots :
       /\ FindByUrl(ServerUrl(fd), i)
       /\ StoreResponse(i, AgeLimit(Buffer(fd, k)[Len(Buffer(fd, k))]),
                        sock[fd].url, Served(i))
       /\ tokens' = Paid(Served(i), WithAge(ResLen))
       /\ answers' = [Answered(Served(i), sock[fd].url) EXCEPT ![fd] = NoAnswers]
       /\ CloseOrigin(fd, i)
  /\ content' = Appended(fd, SubSeq(sock[fd].inq, 1, k))
  /\ DeleteNode(fd)
  /\ master' = master \ {fd}
  /\ Visited(fd)
  /\ asks' = [asks EXCEPT ![fd] = NoAsks]
  /\ Forget(fd)
  /\ UNCHANGED <<live, elapsed, secure_list, max_sock, conns>>

\* assert(cache_obj != NULL)
AssertFails(fd, k) ==
  /\ Reads(fd, k) /\ IsServer(fd) /\ Framed(Buffer(fd, k))
  /\ ~Found(ServerUrl(fd))
  /\ Die

------------------------------------------------------------------------------
HasRequest(buf) == \E i \in 1..Len(buf) : buf[i].kind = "req"

ClientSends == UNION {ClientChunks[n] : n \in DOMAIN ClientChunks}
Requests == ClientSends \cap Request

\* parse_http_req: the first request of the buffer is r.
Parses(buf, r) ==
  \E i \in 1..Len(buf) :
    /\ buf[i] = r /\ r.kind = "req"
    /\ \A j \in 1..(i - 1) : buf[j].kind # "req"

\* handleClient gets to look the request r of fd up in the cache.
Asks(fd, k, r) ==
  /\ Reads(fd, k) /\ ~IsServer(fd) /\ Parses(Buffer(fd, k), r)

Counted(fd, u) ==
  asks' = [asks EXCEPT ![fd][u] = IF @ < MaxSends THEN @ + 1 ELSE @]

\* setupServerSocket succeeds with the descriptor new; r goes on from there.
OpensOrigin(fd, k, r, new) ==
  /\ Asks(fd, k, r) /\ ~Found(r.url)
  /\ NextFd(new)
  /\ Watch(new)
  /\ PushNode(new, r.url)
  /\ InsertBuffer(new, Cleared(fd))
  /\ sock' = [Drained(fd, k) EXCEPT ![new] = Connection("origin", r.url)]
  /\ Visited(fd)
  /\ Counted(fd, r.url)
  /\ UNCHANGED <<conns, answers>>

ForwardGet(fd, k, r, new) ==
  /\ r.method = "GET" /\ OpensOrigin(fd, k, r, new)
  /\ \E key \in KeysRead[r.url] : InsertIntoCache(NewCacheObject(r.url, key, fd))
  /\ UNCHANGED <<secure_list, partner>>

OpenTunnel(fd, k, r, new) ==
  /\ r.method = "CONNECT" /\ OpensOrigin(fd, k, r, new)
  /\ InsertSecureNode(fd, new)
  /\ partner' = [partner EXCEPT ![fd] = new, ![new] = fd]
  /\ UNCHANGED cacheVars

\* Any other method: the origin is connected to and sent nothing.
ConnectOnly(fd, k, r, new) ==
  /\ r.method = "OTHER" /\ OpensOrigin(fd, k, r, new)
  /\ UNCHANGED <<cacheVars, secure_list, partner>>

\* gethostbyname, socket or connect fails.
OriginFails(fd, k, r) == Asks(fd, k, r) /\ ~Found(r.url) /\ Die

\* The request of fd is consumed; nothing changes but what is left to say.
Consumed(fd, k, u) ==
  /\ Hold(Cleared(fd))
  /\ sock' = Drained(fd, k)
  /\ Visited(fd)
  /\ Counted(fd, u)
  /\ UNCHANGED <<secure_list, max_sock, master, server_list, conns, partner>>

Usable(obj) == HasResponse(obj) /\ ~IsExpired(obj)

\* The answer bypasses use_tokens.
ServeFromCache(fd, k, r) ==
  /\ Asks(fd, k, r)
  /\ \E i \in Slots :
       /\ FindByUrl(r.url, i) /\ Usable(arr[i])
       /\ TouchObject(i, fd)
       /\ answers' = Answered({fd}, arr[i].source)
  /\ Consumed(fd, k, r.url)

\* Mutant of DropRequest: the client is added to client_fds.
QueueRequest(fd, k, r) ==
  /\ Asks(fd, k, r)
  /\ \E i \in Slots :
       /\ FindByUrl(r.url, i) /\ ~Usable(arr[i])
       /\ arr' = [arr EXCEPT ![i].client_fds = @ \cup {fd}]
  /\ Consumed(fd, k, r.url)
  /\ UNCHANGED <<num_obj, capacity, answers>>

\* "Invalid response in cache": still being fetched, or expired.
DropRequest(fd, k, r) ==
  /\ Asks(fd, k, r)
  /\ \E i \in Slots : FindByUrl(r.url, i) /\ ~Usable(arr[i])
  /\ Consumed(fd, k, r.url)
  /\ UNCHANGED <<cacheVars, answers>>

------------------------------------------------------------------------------
\* Neither handler finds a message of its own in the buffer.
NoMessage(fd, k) ==
  /\ Reads(fd, k)
  /\ IF IsServer(fd) THEN ~Framed(Buffer(fd, k)) ELSE ~HasRequest(Buffer(fd, k))

\* The whole buffer goes to the other end of the tunnel.
Relay(fd, k) ==
  /\ NoMessage(fd, k)
  /\ \E dest \in Fds : FindNode(fd, dest) /\ Open(dest)
  /\ Hold(Cleared(fd))
  /\ sock' = Drained(fd, k)
  /\ Visited(fd)
  /\ UNCHANGED <<cacheVars, secure_list, max_sock, master, server_list, conns,
                 ghosts>>

KeepPartial(fd, k) ==
  /\ NoMessage(fd, k) /\ FindNode(fd, 0)
  /\ Hold(Appended(fd, SubSeq(sock[fd].inq, 1, k)))
  /\ sock' = Drained(fd, k)
  /\ Visited(fd)
  /\ UNCHANGED <<cacheVars, secure_list, max_sock, master, server_list, conns,
                 ghosts>>

(***************************************************************************)
(* The descriptors the next step writes to: a client retried, one served   *)
(* with a response just stored, one answered from the cache, one told its  *)
(* tunnel stands, the other end of a tunnel.                               *)
(***************************************************************************)
WritesTo(fd, k, g) ==
  \/ \E i \in Slots :
       /\ Reads(fd, k) /\ IsServer(fd) /\ Framed(Buffer(fd, k))
       /\ FindByUrl(ServerUrl(fd), i) /\ g \in Served(i)
  \/ \E r \in Requests, i \in Slots :
       Asks(fd, k, r) /\ FindByUrl(r.url, i) /\ Usable(arr[i]) /\ g = fd
  \/ \E r \in Requests :
       Asks(fd, k, r) /\ ~Found(r.url) /\ r.method = "CONNECT" /\ g = fd
  \/ NoMessage(fd, k) /\ FindNode(fd, g)

\* A write fails when the peer has closed, or the descriptor was closed here.
Unwritable(g) == sock[g].fin \/ ~Open(g)

WriteFails(fd, k) == (\E g \in Fds : WritesTo(fd, k, g) /\ Unwritable(g)) /\ Die

RetryFails ==
  /\ pc = "check" /\ idx < num_obj
  /\ \E g \in Retried : Unwritable(g)
  /\ Die

------------------------------------------------------------------------------
(***************************************************************************)
(* The peers, the network and the clock.                                   *)
(***************************************************************************)
Alive == pc # "dead"

Sends(fd, role, chunks) ==
  /\ Alive /\ sock[fd].role = role /\ ~sock[fd].fin
  /\ sock[fd].sends < Len(chunks)
  /\ \E c \in chunks[sock[fd].sends + 1] :
       sock' = [sock EXCEPT ![fd].inq = Append(@, c), ![fd].sends = @ + 1]
  /\ UNCHANGED <<cacheVars, bufferVars, secure_list, loopVars, server_list,
                 conns, ghosts>>

ClientSend(fd) == Sends(fd, "client", ClientChunks)
OriginSend(fd) == Sends(fd, "origin", OriginChunks)

PeerClose(fd) ==
  /\ Alive /\ Open(fd) /\ ~sock[fd].fin
  /\ sock' = [sock EXCEPT ![fd].fin = TRUE]
  /\ UNCHANGED <<cacheVars, bufferVars, secure_list, loopVars, server_list,
                 conns, ghosts>>

Tick ==
  /\ Alive /\ CacheTick /\ BufferTick
  /\ UNCHANGED <<secure_list, loopVars, server_list, sock, conns, ghosts>>

\* Nothing restarts the process.
Terminated == ~Alive /\ UNCHANGED vars

------------------------------------------------------------------------------
HandleServer(fd, k) == StoreAndForward(fd, k) \/ AssertFails(fd, k)

HandleClient(fd, k) ==
  \E r \in Requests :
    \/ \E new \in Fds : \/ ForwardGet(fd, k, r, new)
                        \/ OpenTunnel(fd, k, r, new)
                        \/ ConnectOnly(fd, k, r, new)
    \/ OriginFails(fd, k, r)
    \/ ServeFromCache(fd, k, r)
    \/ DropRequest(fd, k, r)

HandleExistingConnection(fd) ==
  /\ Turn(fd)
  /\ \/ HandleDisconnect(fd)
     \/ ReadError(fd)
     \/ \E k \in 1..MaxSends :
          \/ HandleServer(fd, k)
          \/ HandleClient(fd, k)
          \/ Relay(fd, k)
          \/ KeepPartial(fd, k)
          \/ WriteFails(fd, k)

Loop ==
  \/ AddTokensStep
  \/ CheckCachedMessages
  \/ RetryFails
  \/ Select
  \/ HandleNewConnection
  \/ AcceptFails
  \/ \E fd \in Fds : HandleExistingConnection(fd)
  \/ EndOfPass

Environment ==
  \/ \E fd \in Fds : ClientSend(fd) \/ OriginSend(fd) \/ PeerClose(fd)
  \/ Tick

Next == Loop \/ Environment \/ Terminated

Spec == Init /\ [][Next]_vars

\* The loop never waits for anything but select, which times out, and each of its steps
\* gets it on; time passes.
FairSpec == Spec /\ WF_loopVars(Loop) /\ WF_vars(Tick)

------------------------------------------------------------------------------
(***************************************************************************)
(* Safety.                                                                 *)
(***************************************************************************)

\* Every variable of the proxy has the shape the code gives it.
LoopTypeOK ==
  /\ pc \in {"add_tokens", "check", "dispatch", "dead"}
  /\ max_sock \in ListenFd..MaxFd
  /\ master \subseteq Fds \cup {ListenFd}
  /\ ready \subseteq Fds \cup {ListenFd}
  /\ idx \in Nat
  /\ server_list \in [Fds -> Seq(Urls)]
  /\ sock \in [Fds -> Socket]
  /\ conns \in 0..MaxConns

HistoryTypeOK ==
  /\ asks \in [Fds -> [Urls -> 0..MaxSends]]
  /\ answers \in [Fds -> [Sources -> 0..AnswerCap]]
  /\ partner \in [Fds -> Fds \cup {0}]

TypeOK ==
  CacheTypeOK /\ BufferTypeOK /\ SecureTypeOK /\ LoopTypeOK /\ HistoryTypeOK

(***************************************************************************)
(* The loop forgets no connection: the descriptors in master_fd_set are    *)
(* the open ones, select is told to look at all of them (max_sock is an    *)
(* upper bound although handleDisconnect only ever decrements it by one),  *)
(* and each of them has a buffer to receive into.                          *)
(***************************************************************************)
WatchedSockets ==
  /\ master = {ListenFd} \cup {fd \in Fds : Open(fd)}
  /\ \A fd \in Fds : Open(fd) => fd <= max_sock /\ fd \in live

(***************************************************************************)
(* copy_fd_set was taken before the handlers ran, and they close and open  *)
(* descriptors: one that is still to be visited is never a descriptor that *)
(* was closed or handed out again meanwhile, so read does not block and    *)
(* handleExistingConnection does not dereference a NULL buffer.            *)
(***************************************************************************)
NoStaleVisit ==
  pc = "dispatch" => \A fd \in ready \ {ListenFd} : Open(fd) /\ Readable(fd)

(***************************************************************************)
(* A descriptor in client_fds is an open client connection that asked for  *)
(* this object's URL, with a bucket for use_tokens: closing a connection   *)
(* takes it out of every object before the number is used again, and a     *)
(* descriptor that handleServer takes for an origin never waits.           *)
(***************************************************************************)
WaitersAreAskers ==
  \A i \in Slots : arr[i] # NULL =>
    \A fd \in arr[i].client_fds :
      /\ sock[fd].role = "client" /\ fd \in live
      /\ ~IsServer(fd)
      /\ asks[fd][arr[i].url] > 0

(***************************************************************************)
(* An open connection to an origin is always taken for that origin's:      *)
(* whatever nodes of earlier connections were left behind in server_list   *)
(* under the same descriptor, the node of this one is found first.         *)
(***************************************************************************)
OriginsRecognised ==
  \A fd \in Fds : sock[fd].role = "origin" =>
    IsServer(fd) /\ ServerUrl(fd) = sock[fd].url

(***************************************************************************)
(* What was written to a connection was fetched for a URL it asked for.    *)
(***************************************************************************)
AnswersWereAsked ==
  \A fd \in Fds, src \in Sources :
    answers[fd][src] > 0 => src \in Urls /\ asks[fd][src] > 0

(***************************************************************************)
(* While an origin is being read for a URL there is exactly one connection *)
(* to it, and its cache object is there, without a response: nothing is    *)
(* fetched twice, and handleServer's assertion holds.                      *)
(***************************************************************************)
OneFetchPerUrl ==
  \A fd \in Fds : sock[fd].role = "origin" =>
    /\ \E i \in Slots : FindByUrl(ServerUrl(fd), i) /\ ~HasResponse(arr[i])
    /\ \A g \in Fds : (sock[g].role = "origin" /\ sock[g].url = sock[fd].url)
                         => g = fd

(***************************************************************************)
(* findNodeBySockfd leads each end of a standing tunnel to the other one,  *)
(* and nobody else anywhere.                                               *)
(***************************************************************************)
TunnelTruth == \A fd \in Fds : FindNode(fd, partner[fd])

(***************************************************************************)
(* Steps.                                                                  *)
(***************************************************************************)

\* A response is stored once: until delete_expired removes the object, its age
\* only grows and the limit of its age stays, however often it is asked for.
StoredOnce ==
  [][\A i \in Slots :
       (arr[i] # NULL /\ HasResponse(arr[i]) /\ arr'[i] # NULL)
          => arr'[i].age >= arr[i].age /\ arr'[i].max_age = arr[i].max_age]_vars

(***************************************************************************)
(* Liveness, with the loop running and time passing.                       *)
(***************************************************************************)

\* Nobody starves: whatever a peer sent or its closing is eventually read,
\* however busy the other descriptors are.
EverythingRead ==
  \A fd \in Fds : (Open(fd) /\ Readable(fd)) ~> (~Readable(fd) \/ ~Alive)

\* No response stays in the cache for ever: delete_expired gets to it, wherever the
\* holes of the array are and whatever the handlers do in between.
ResponsesExpire ==
  \A u \in Urls :
    LET inCache == \E i \in Slots : /\ arr[i] # NULL /\ arr[i].url = u
                                   /\ HasResponse(arr[i])
    IN  inCache ~> (~inCache \/ ~Alive)

=============================================================================
