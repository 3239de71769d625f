--------------------------- MODULE ProxyFetchProofs ---------------------------
(***************************************************************************)
(* What the proxy is to clients that send nothing but GET, when keys are   *)
(* read as they were written: nothing is fetched twice at a time, the      *)
(* assertion of handleServer holds, nobody is sent what he did not ask     *)
(* for, and the proxy is a UrlStore.                                       *)
(***************************************************************************)
EXTENDS ProxySafetyProofs, ProxyClaims, ProxyStore, SequenceLemmas

OnlyGets == \A r \in Requests : r.method = "GET"
ExactKeys == \A u \in Urls : KeysRead[u] = {u}

------------------------------------------------------------------------------
(***************************************************************************)
(* The cache under the steps that neither insert nor store: an object is   *)
(* what it was but older, or goes if it has a response.                    *)
(***************************************************************************)
Keeps(o, p) ==
  /\ p.url = o.url /\ p.key = o.key /\ p.source = o.source
  /\ p.max_age = o.max_age /\ p.age >= o.age
  /\ HasResponse(p) <=> HasResponse(o)

Retained ==
  /\ Slots' = Slots
  /\ \A i \in Slots : arr'[i] # NULL => arr[i] # NULL /\ Keeps(arr[i], arr'[i])
  /\ \A i \in Slots : arr[i] # NULL /\ arr'[i] = NULL => HasResponse(arr[i])

NoneDeleted == \A i \in Slots : arr[i] # NULL => arr'[i] # NULL

LEMMA AgeIsInt ==
  ASSUME NEW o \in CacheObj
  PROVE  o.age \in (0..TimeCap) \cup {-1} /\ o.age \in Int /\ TimeCap \in Nat
<1>1. o.age \in (0..TimeCap) \cup {-1}
  BY DEF CacheObj
<1> QED
  BY <1>1, BaseAssumption

LEMMA KeepsItself == ASSUME NEW o \in CacheObj PROVE Keeps(o, o)
BY AgeIsInt DEF Keeps

LEMMA KeepsStruck ==
  ASSUME NEW o \in CacheObj, NEW fds
  PROVE  LET p == DeleteFromClientfds(o, fds) IN p \in CacheObj /\ Keeps(o, p)
<1> DEFINE p == DeleteFromClientfds(o, fds)
<1>1. /\ p.url = o.url /\ p.key = o.key /\ p.source = o.source
      /\ p.max_age = o.max_age /\ p.age = o.age
  BY DEF DeleteFromClientfds, CacheObj
<1> HIDE DEF p
<1>2. Keeps(o, p)
  BY <1>1, AgeIsInt DEF Keeps, HasResponse
<1> QED
  BY <1>2, DeleteFromKeepsObject DEF p

LEMMA KeepsTouched ==
  ASSUME NEW o \in CacheObj, NEW fds
  PROVE  LET p == DeleteFromClientfds([o EXCEPT !.idle = 0], fds)
         IN  p \in CacheObj /\ Keeps(o, p)
<1> DEFINE q == [o EXCEPT !.idle = 0]
           p == DeleteFromClientfds(q, fds)
<1>1. q \in CacheObj
  BY BaseAssumption DEF CacheObj
<1>2. /\ q.url = o.url /\ q.key = o.key /\ q.source = o.source
      /\ q.max_age = o.max_age /\ q.age = o.age
  BY DEF CacheObj
<1> HIDE DEF q
<1>3. p \in CacheObj /\ Keeps(q, p)
  BY <1>1, KeepsStruck
<1>4. Keeps(o, p)
  BY <1>2, <1>3 DEF Keeps, HasResponse
<1> QED
  BY <1>3, <1>4 DEF q

LEMMA KeepsAged ==
  ASSUME NEW o \in CacheObj
  PROVE  LET p == [o EXCEPT !.age = IF @ = -1 THEN -1 ELSE Older(@), !.idle = Older(@)]
         IN  p \in CacheObj /\ Keeps(o, p)
<1> DEFINE age == IF o.age = -1 THEN -1 ELSE Older(o.age)
           p == [o EXCEPT !.age = age, !.idle = Older(o.idle)]
<1>1. /\ o.age \in (0..TimeCap) \cup {-1} /\ TimeCap \in Nat
      /\ o.idle \in 0..TimeCap
  BY AgeIsInt DEF CacheObj
<1>2. /\ Older(o.idle) \in 0..TimeCap /\ age \in (0..TimeCap) \cup {-1}
      /\ age >= o.age /\ (age = -1 <=> o.age = -1)
  BY <1>1 DEF Older
<1> HIDE DEF age
<1>3. /\ p.url = o.url /\ p.key = o.key /\ p.source = o.source
      /\ p.max_age = o.max_age /\ p.age = age
  BY DEF CacheObj
<1>4. p \in CacheObj
  BY <1>2 DEF CacheObj
<1>5. Keeps(o, p)
  BY <1>2, <1>3 DEF Keeps, HasResponse
<1> QED
  BY <1>4, <1>5 DEF age

LEMMA SameCacheRetained ==
  ASSUME CacheTypeOK, UNCHANGED cacheVars PROVE Retained /\ NoneDeleted
<1>1. \A i \in Slots : arr[i] # NULL => arr[i] \in CacheObj
  BY DEF CacheTypeOK
<1> QED
  BY <1>1, KeepsItself DEF Retained, NoneDeleted, Slots, cacheVars

LEMMA DeleteExpiredRetained ==
  ASSUME CacheTypeOK, DeleteExpired PROVE Retained
<1>1. \A i \in Slots : arr[i] # NULL => arr[i] \in CacheObj
  BY DEF CacheTypeOK
<1>2. Slots' = Slots
  BY DEF Slots, DeleteExpired
<1>3. \A i \in Slots : arr'[i] = IF arr[i] # NULL /\ HasResponse(arr[i]) /\ IsExpired(arr[i])
                                 THEN NULL ELSE arr[i]
  BY DEF DeleteExpired
<1> QED
  BY <1>1, <1>2, <1>3, KeepsItself DEF Retained

\* Steps that rewrite every object.
LEMMA RewriteRetained ==
  ASSUME Slots' = Slots,
         \A i \in Slots : arr[i] = NULL => arr'[i] = NULL,
         \A i \in Slots : arr[i] # NULL => arr'[i] \in CacheObj /\ Keeps(arr[i], arr'[i])
  PROVE  Retained /\ NoneDeleted
BY CacheAssumption DEF Retained, NoneDeleted

LEMMA DeleteBySockfdRetained ==
  ASSUME CacheTypeOK, NEW fd, DeleteBySockfd(fd) PROVE Retained /\ NoneDeleted
<1>1. Slots' = Slots
  BY DEF Slots, DeleteBySockfd
<1>2. \A i \in Slots : arr'[i] = IF arr[i] = NULL THEN NULL
                                 ELSE DeleteFromClientfds(arr[i], {fd})
  BY DEF DeleteBySockfd
<1>3. \A i \in Slots : arr[i] # NULL => arr[i] \in CacheObj
  BY DEF CacheTypeOK
<1> QED
  BY <1>1, <1>2, <1>3, KeepsStruck, RewriteRetained

LEMMA CacheTickRetained ==
  ASSUME CacheTypeOK, CacheTick PROVE Retained /\ NoneDeleted
<1> DEFINE Aged(o) == [o EXCEPT !.age = IF @ = -1 THEN -1 ELSE Older(@), !.idle = Older(@)]
<1>1. Slots' = Slots
  BY DEF Slots, CacheTick
<1>2. \A i \in Slots : arr'[i] = IF arr[i] = NULL THEN NULL ELSE Aged(arr[i])
  BY DEF CacheTick
<1>3. \A o \in CacheObj : Aged(o) \in CacheObj /\ Keeps(o, Aged(o))
  BY KeepsAged
<1>4. \A i \in Slots : arr[i] # NULL => arr[i] \in CacheObj
  BY DEF CacheTypeOK
<1> HIDE DEF Aged
<1> QED
  BY <1>1, <1>2, <1>3, <1>4, RewriteRetained

LEMMA TouchRetained ==
  ASSUME CacheTypeOK, NEW i \in Slots, arr[i] # NULL, NEW fd, TouchObject(i, fd)
  PROVE  Retained /\ NoneDeleted
<1> DEFINE p == DeleteFromClientfds([arr[i] EXCEPT !.idle = 0], {fd})
<1>1. Slots' = Slots
  BY DEF Slots, TouchObject
<1>2. arr' = [arr EXCEPT ![i] = p]
  BY DEF TouchObject
<1>3. \A j \in Slots : arr[j] # NULL => arr[j] \in CacheObj
  BY DEF CacheTypeOK
<1>4. p \in CacheObj /\ Keeps(arr[i], p)
  BY <1>3, KeepsTouched
<1> HIDE DEF p
<1>5. \A j \in Slots : arr'[j] = IF j = i THEN p ELSE arr[j]
  BY <1>2 DEF CacheTypeOK
<1> QED
  BY <1>1, <1>3, <1>4, <1>5, KeepsItself, RewriteRetained

------------------------------------------------------------------------------
(***************************************************************************)
(* What clients send is never taken for a response, so handleServer acts   *)
(* on connections to origins only, even if a client's descriptor has a     *)
(* node that an earlier connection left behind.                            *)
(***************************************************************************)
Asking == {c \in Chunk : ~Whole(c)}

ClientsOnlyAsk ==
  \A fd \in Fds : sock[fd].role = "client" =>
    content[fd] \in Seq(Asking) /\ sock[fd].inq \in Seq(Asking)

LEMMA DrainedAsks ==
  ASSUME ClientsOnlyAsk, LoopTypeOK, NEW fd \in Fds, sock[fd].role = "client",
         NEW k \in 1..Len(sock[fd].inq)
  PROVE  Drained(fd, k)[fd].inq \in Seq(Asking) /\ Buffer(fd, k) \in Seq(Asking)
<1>1. sock[fd].inq \in Seq(Asking) /\ content[fd] \in Seq(Asking)
  BY DEF ClientsOnlyAsk
<1>2. SubSeq(sock[fd].inq, 1, k) \in Seq(Asking)
  BY <1>1
<1>3. SubSeq(sock[fd].inq, k + 1, Len(sock[fd].inq)) \in Seq(Asking)
  BY <1>1
<1>4. Drained(fd, k)[fd].inq = SubSeq(sock[fd].inq, k + 1, Len(sock[fd].inq))
  BY DEF Drained, LoopTypeOK, Socket
<1> QED
  BY <1>1, <1>2, <1>3, <1>4 DEF Buffer

LEMMA FramedAreOrigins ==
  ASSUME SafeInv, ClientsOnlyAsk, NEW fd \in Fds, NEW k,
         Reads(fd, k), IsServer(fd), Framed(Buffer(fd, k))
  PROVE  sock[fd].role = "origin" /\ ServerUrl(fd) = sock[fd].url
<1> LoopTypeOK /\ BufferTypeOK
  BY DEF SafeInv, TypeInv
<1>1. sock[fd].role \in {"client", "origin"}
  <2>1. Open(fd)
    BY FdsRange DEF Reads, Turn, SafeInv, NoStaleVisit
  <2> QED
    BY <2>1 DEF Open, LoopTypeOK, Socket
<1>2. ASSUME sock[fd].role = "client" PROVE FALSE
  <2>1. Buffer(fd, k) \in Seq(Asking) /\ k \in 1..Len(sock[fd].inq)
    BY <1>2, DrainedAsks DEF Reads
  <2>2. Len(Buffer(fd, k)) >= 1
    BY <2>1 DEF Buffer, BufferTypeOK, LoopTypeOK, Socket
  <2>3. Buffer(fd, k)[Len(Buffer(fd, k))] \in Asking
    BY <2>1, <2>2
  <2> QED
    BY <2>3 DEF Framed, Asking
<1> QED
  BY <1>1, <1>2 DEF SafeInv, OriginsRecognised

\* What a client sends is a GET or part of something.
LEMMA GetsAreAsking ==
  ASSUME OnlyGets, NEW n \in DOMAIN ClientChunks, NEW c \in ClientChunks[n]
  PROVE  c \in Asking
<1>1. c \in Request \cup Data
  BY ProxyAssumption
<1>2. c \in Request => c.method = "GET"
  BY DEF OnlyGets, Requests, ClientSends
<1>3. c.kind # "end" /\ (c.kind = "req" => c.method = "GET")
  BY <1>1, <1>2 DEF Request, Data
<1> QED
  BY <1>1, <1>3 DEF Asking, Whole, Chunk

\* Steps after which every client but fd has and sent what it did.
LEMMA OthersAsk ==
  ASSUME ClientsOnlyAsk, NEW fd \in Fds,
         \A g \in Fds \ {fd} : sock'[g].role = "client" =>
             /\ sock[g].role = "client" /\ sock'[g].inq = sock[g].inq
             /\ content'[g] = content[g],
         sock'[fd].role = "client" =>
             content'[fd] \in Seq(Asking) /\ sock'[fd].inq \in Seq(Asking)
  PROVE  ClientsOnlyAsk'
BY DEF ClientsOnlyAsk, Asking, Whole

LEMMA SameAsking ==
  ASSUME ClientsOnlyAsk, UNCHANGED <<sock, content>> PROVE ClientsOnlyAsk'
BY DEF ClientsOnlyAsk, Asking, Whole

LEMMA ReadingAsks ==
  ASSUME SafeInv, ClientsOnlyAsk, NEW fd \in Fds, NEW k, Reads(fd, k),
         sock' = Drained(fd, k),
         content' = Cleared(fd) \/ content' = Appended(fd, SubSeq(sock[fd].inq, 1, k))
  PROVE  ClientsOnlyAsk'
<1> LoopTypeOK /\ BufferTypeOK
  BY DEF SafeInv, TypeInv
<1>1. \A g \in Fds \ {fd} : sock'[g] = sock[g] /\ content'[g] = content[g]
  BY DrainedEffect DEF Cleared, Appended, BufferTypeOK
<1>2. content'[fd] = <<>> \/ content'[fd] = Buffer(fd, k)
  BY DEF Cleared, Appended, BufferTypeOK, Buffer
<1>3. ASSUME sock'[fd].role = "client"
      PROVE  content'[fd] \in Seq(Asking) /\ sock'[fd].inq \in Seq(Asking)
  <2>1. sock[fd].role = "client"
    BY <1>3, DrainedEffect
  <2>2. Drained(fd, k)[fd].inq \in Seq(Asking) /\ Buffer(fd, k) \in Seq(Asking)
    BY <2>1, DrainedAsks DEF Reads
  <2>3. <<>> \in Seq(Asking)
    OBVIOUS
  <2>4. sock'[fd].inq \in Seq(Asking)
    BY <2>2
  <2> QED
    BY <1>2, <2>2, <2>3, <2>4
<1> QED
  BY <1>1, <1>3, OthersAsk

LEMMA OpensOriginAsks ==
  ASSUME SafeInv, ClientsOnlyAsk, NEW fd \in Fds, NEW k \in 1..MaxSends,
         NEW r \in Requests, NEW new \in Fds, OpensOrigin(fd, k, r, new)
  PROVE  ClientsOnlyAsk'
<1> LoopTypeOK /\ BufferTypeOK
  BY DEF SafeInv, TypeInv
<1>1. /\ Reads(fd, k) /\ NextFd(new)
      /\ content' = [Cleared(fd) EXCEPT ![new] = <<>>]
      /\ sock' = [Drained(fd, k) EXCEPT ![new] = Connection("origin", r.url)]
  BY DEF OpensOrigin, Asks, InsertBuffer, NewPartialBuffer
<1>2. DOMAIN Drained(fd, k) = Fds
  BY DEF Drained, LoopTypeOK
<1>3. sock'[new].role = "origin"
      /\ \A g \in Fds \ {new} : sock'[g] = Drained(fd, k)[g]
  BY <1>1, <1>2 DEF Connection
<1>4. content'[fd] = <<>> /\ \A g \in Fds \ {fd, new} : content'[g] = content[g]
  BY <1>1 DEF Cleared, BufferTypeOK
<1>5. \A g \in Fds \ {fd} : sock'[g].role = "client" =>
          /\ sock[g].role = "client" /\ sock'[g].inq = sock[g].inq
          /\ content'[g] = content[g]
  BY <1>3, <1>4, DrainedEffect
<1>6. ASSUME sock'[fd].role = "client"
      PROVE  content'[fd] \in Seq(Asking) /\ sock'[fd].inq \in Seq(Asking)
  <2>1. fd # new /\ sock[fd].role = "client"
    BY <1>3, <1>6, DrainedEffect
  <2>2. Drained(fd, k)[fd].inq \in Seq(Asking)
    BY <1>1, <2>1, DrainedAsks DEF Reads
  <2> QED
    BY <1>3, <1>4, <2>1, <2>2
<1> QED
  BY <1>5, <1>6, OthersAsk

\* Closing a connection, accepting one, losing what was sent.
LEMMA ConnectionAsks ==
  ASSUME SafeInv, ClientsOnlyAsk, NEW fd \in Fds,
         \/ HandleDisconnect(fd) \/ ReadError(fd)
         \/ \E k \in 1..MaxSends : StoreAndForward(fd, k)
         \/ \E u \in Sources : /\ InsertBuffer(fd, content)
                               /\ sock' = [sock EXCEPT ![fd] = Connection("client", u)]
  PROVE  ClientsOnlyAsk'
<1> LoopTypeOK /\ BufferTypeOK
  BY DEF SafeInv, TypeInv
<1>1. \A g \in Fds \ {fd} : sock'[g] = sock[g] /\ content'[g] = content[g]
  BY DEF HandleDisconnect, DeleteBuffer, NewPartialBuffer, ReadError, bufferVars,
         StoreAndForward, CloseOrigin, Appended, InsertBuffer, LoopTypeOK, BufferTypeOK
<1>2. ASSUME sock'[fd].role = "client"
      PROVE  content'[fd] \in Seq(Asking) /\ sock'[fd].inq \in Seq(Asking)
  <2>1. CASE ReadError(fd)
    <3>1. sock'[fd].role = sock[fd].role /\ sock'[fd].inq = <<>>
          /\ content' = content
      BY <2>1 DEF ReadError, bufferVars, LoopTypeOK, Socket
    <3> QED
      BY <1>2, <3>1 DEF ClientsOnlyAsk
  <2>2. CASE HandleDisconnect(fd) \/ \E k \in 1..MaxSends : StoreAndForward(fd, k)
    BY <1>2, <2>2 DEF HandleDisconnect, StoreAndForward, CloseOrigin, NoSocket,
                      Connection, LoopTypeOK
  <2>3. CASE \E u \in Sources : /\ InsertBuffer(fd, content)
                                /\ sock' = [sock EXCEPT ![fd] = Connection("client", u)]
    <3>1. sock'[fd].inq = <<>> /\ content'[fd] = <<>>
      BY <2>3 DEF InsertBuffer, NewPartialBuffer, Connection, LoopTypeOK, BufferTypeOK
    <3> QED
      BY <3>1
  <2> QED
    BY <2>1, <2>2, <2>3
<1> QED
  BY <1>1, <1>2, OthersAsk

LEMMA SendsAsks ==
  ASSUME OnlyGets, SafeInv, ClientsOnlyAsk, NEW fd \in Fds,
         ClientSend(fd) \/ OriginSend(fd) \/ PeerClose(fd)
  PROVE  ClientsOnlyAsk'
<1> LoopTypeOK /\ BufferTypeOK
  BY DEF SafeInv, TypeInv
<1>0. content' = content
  BY DEF ClientSend, OriginSend, Sends, PeerClose, bufferVars
<1>1. \A g \in Fds \ {fd} : sock'[g] = sock[g]
  BY DEF ClientSend, OriginSend, Sends, PeerClose, LoopTypeOK
<1>2. ASSUME sock'[fd].role = "client"
      PROVE  sock[fd].role = "client" /\ sock'[fd].inq \in Seq(Asking)
  <2>1. CASE ClientSend(fd)
    <3>1. PICK c \in ClientChunks[sock[fd].sends + 1] :
            sock' = [sock EXCEPT ![fd].inq = Append(@, c), ![fd].sends = @ + 1]
      BY <2>1 DEF ClientSend, Sends
    <3>2. sock[fd].role = "client" /\ sock[fd].sends + 1 \in DOMAIN ClientChunks
      <4>1. /\ sock[fd].role = "client" /\ sock[fd].sends < Len(ClientChunks)
            /\ sock[fd] \in Socket
        BY <2>1 DEF ClientSend, Sends, LoopTypeOK
      <4>2. sock[fd].sends \in Nat
        BY <4>1, ProxyAssumption DEF Socket
      <4>3. DOMAIN ClientChunks = 1..Len(ClientChunks) /\ Len(ClientChunks) \in Nat
        BY ProxyAssumption
      <4> QED
        BY <4>1, <4>2, <4>3
    <3>3. c \in Asking
      BY <3>2, GetsAreAsking
    <3>4. Append(sock[fd].inq, c) \in Seq(Asking)
      BY <3>2, <3>3 DEF ClientsOnlyAsk
    <3>5. sock'[fd].inq = Append(sock[fd].inq, c)
      BY <3>1 DEF LoopTypeOK, Socket
    <3> QED
      BY <3>2, <3>4, <3>5
  <2>2. CASE OriginSend(fd)
    <3>1. PICK c : sock' = [sock EXCEPT ![fd].inq = Append(@, c), ![fd].sends = @ + 1]
      BY <2>2 DEF OriginSend, Sends
    <3>2. sock[fd].role = "origin" /\ sock[fd] \in Socket
      BY <2>2 DEF OriginSend, Sends, LoopTypeOK
    <3>3. sock'[fd].role = sock[fd].role
      BY <3>1, <3>2 DEF LoopTypeOK, Socket
    <3> QED
      BY <1>2, <3>2, <3>3
  <2>3. CASE PeerClose(fd)
    <3>1. sock'[fd].role = sock[fd].role /\ sock'[fd].inq = sock[fd].inq
      BY <2>3 DEF PeerClose, LoopTypeOK, Socket
    <3> QED
      BY <1>2, <3>1 DEF ClientsOnlyAsk
  <2> QED
    BY <2>1, <2>2, <2>3
<1> QED
  BY <1>0, <1>1, <1>2, OthersAsk DEF ClientsOnlyAsk

LEMMA NextAsks ==
  ASSUME OnlyGets, SafeInv, ClientsOnlyAsk, [Next]_vars PROVE ClientsOnlyAsk'
<1>1. CASE UNCHANGED <<sock, content>>
  BY <1>1, SameAsking
<1>2. CASE AddTokensStep \/ CheckCachedMessages \/ Select \/ EndOfPass \/ Tick
           \/ Die \/ UNCHANGED vars
  BY <1>1, <1>2 DEF AddTokensStep, AddTokens, CheckCachedMessages, Select,
     EndOfPass, Tick, BufferTick, Die, vars, bufferVars
<1>3. CASE HandleNewConnection
  <2>1. PICK fd \in Fds :
          /\ InsertBuffer(fd, content)
          /\ sock' = [sock EXCEPT ![fd] = Connection("client", NoUrl)]
    BY <1>3 DEF HandleNewConnection
  <2> QED
    BY <2>1, ConnectionAsks DEF Sources
<1>4. ASSUME NEW fd \in Fds, HandleExistingConnection(fd)
      PROVE  ClientsOnlyAsk'
  <2>1. CASE HandleDisconnect(fd) \/ ReadError(fd)
    BY <2>1, ConnectionAsks
  <2>2. ASSUME NEW k \in 1..MaxSends, HandleServer(fd, k)
        PROVE  ClientsOnlyAsk'
    BY <1>2, <2>2, ConnectionAsks DEF HandleServer, AssertFails
  <2>3. ASSUME NEW k \in 1..MaxSends, HandleClient(fd, k)
        PROVE  ClientsOnlyAsk'
    <3>1. ASSUME NEW r \in Requests, NEW new \in Fds,
                 \/ ForwardGet(fd, k, r, new)
                 \/ OpenTunnel(fd, k, r, new)
                 \/ ConnectOnly(fd, k, r, new)
          PROVE  ClientsOnlyAsk'
      BY <3>1, OpensOriginAsks DEF ForwardGet, OpenTunnel, ConnectOnly
    <3>2. ASSUME NEW r \in Requests, ServeFromCache(fd, k, r) \/ DropRequest(fd, k, r)
          PROVE  ClientsOnlyAsk'
      BY <3>2, ReadingAsks DEF ServeFromCache, DropRequest, Asks, Consumed, Hold
    <3>3. ASSUME NEW r \in Requests, OriginFails(fd, k, r)
          PROVE  ClientsOnlyAsk'
      BY <1>2, <3>3 DEF OriginFails
    <3> QED
      BY <2>3, <3>1, <3>2, <3>3 DEF HandleClient
  <2>4. ASSUME NEW k \in 1..MaxSends, Relay(fd, k) \/ KeepPartial(fd, k)
        PROVE  ClientsOnlyAsk'
    BY <2>4, ReadingAsks DEF Relay, KeepPartial, NoMessage, Hold
  <2>5. ASSUME NEW k \in 1..MaxSends, WriteFails(fd, k)
        PROVE  ClientsOnlyAsk'
    BY <1>2, <2>5 DEF WriteFails
  <2> QED
    BY <1>4, <2>1, <2>2, <2>3, <2>4, <2>5 DEF HandleExistingConnection
<1>5. CASE RetryFails \/ AcceptFails \/ Terminated
  BY <1>2, <1>5 DEF RetryFails, AcceptFails, Terminated
<1> QED
  BY <1>2, <1>3, <1>4, <1>5, SendsAsks DEF Next, Loop, Environment

------------------------------------------------------------------------------
(***************************************************************************)
(* Every step is one of four: the four things that happen to a URL.        *)
(***************************************************************************)
SameOrigins ==
  \A g \in Fds :
    /\ sock'[g].role = "origin" <=> sock[g].role = "origin"
    /\ sock[g].role = "origin" => sock'[g].url = sock[g].url

Quiet == SameOrigins /\ Retained

\* The connection fd is closed; nothing is stored or deleted.
Loses(fd) ==
  /\ sock' = [sock EXCEPT ![fd] = NoSocket]
  /\ Retained /\ NoneDeleted

\* The response of the origin fd is stored in slot i.
Stores(fd, i) ==
  /\ sock[fd].role = "origin" /\ sock' = [sock EXCEPT ![fd] = NoSocket]
  /\ i \in Slots /\ arr[i] # NULL /\ arr[i].key = sock[fd].url
  /\ Slots' = Slots /\ \A j \in Slots \ {i} : arr'[j] = arr[j]
  /\ arr'[i] # NULL /\ HasResponse(arr'[i])
  /\ arr'[i].url = arr[i].url /\ arr'[i].key = arr[i].key
  /\ arr'[i].source = sock[fd].url

\* An object is put into slot s.
Puts(s, obj) ==
  /\ s \in Slots' /\ arr'[s] = obj /\ Slots \subseteq Slots'
  /\ s \in Slots => arr[s] = NULL
  /\ \A j \in Slots' \ {s} : arr'[j] = IF j \in Slots THEN arr[j] ELSE NULL

\* A connection to the origin of u is opened, and an object for u put into s.
Opens(new, u, s) ==
  /\ u \in Urls /\ ~Found(u)
  /\ sock'[new].role = "origin" /\ sock'[new].url = u /\ sock[new].role = "free"
  /\ \A g \in Fds \ {new} : sock'[g].role = sock[g].role /\ sock'[g].url = sock[g].url
  /\ \E fd \in Fds : Puts(s, NewCacheObject(u, u, fd))

\* insert_into_cache finds room, in a grown array if need be.
LEMMA InsertPuts ==
  ASSUME CacheInv, NEW obj \in CacheObj, InsertIntoCache(obj)
  PROVE  \E s \in Slots' : Puts(s, obj)
<1> DEFINE cap == IF num_obj >= capacity THEN 2 * capacity ELSE capacity
           old == [i \in 0..(cap - 1) |-> IF i < capacity THEN arr[i] ELSE NULL]
           empty == {i \in 0..(cap - 1) : old[i] = NULL}
           First(i) == i \in empty /\ \A j \in empty : i <= j
<1>1. /\ capacity \in Nat \ {0} /\ num_obj \in Nat /\ num_obj <= capacity
      /\ \A i \in Slots : arr[i] # NULL => i < num_obj
  BY DEF CacheInv, CacheTypeOK, ScanCoversObjects
<1>2. cap \in Nat /\ num_obj < cap /\ capacity <= cap
  BY <1>1
<1>3. num_obj \in empty
  <2>1. num_obj \in 0..(cap - 1) /\ (num_obj < capacity => num_obj \in Slots)
    BY <1>1, <1>2 DEF Slots
  <2>2. num_obj < capacity => arr[num_obj] = NULL
    BY <1>1, <2>1
  <2> HIDE DEF cap
  <2> QED
    BY <2>1, <2>2
<1>4. PICK s \in empty : \A j \in empty : s <= j
  <2>1. empty \subseteq Nat
    BY <1>2
  <2> HIDE DEF empty
  <2> QED
    BY <1>3, <2>1, SmallestOf
<1>5. /\ capacity' = cap
      /\ arr' = [i \in 0..(cap - 1) |-> IF First(i) THEN obj ELSE old[i]]
  BY DEF InsertIntoCache
<1>6. Slots' = 0..(cap - 1) /\ Slots = 0..(capacity - 1) /\ Slots \subseteq Slots'
  BY <1>1, <1>2, <1>5 DEF Slots
<1>7. \A j \in Slots' : old[j] = IF j \in Slots THEN arr[j] ELSE NULL
  <2> HIDE DEF cap
  <2> QED
    BY <1>1, <1>2, <1>6
<1>8. First(s) /\ s \in Slots' /\ old[s] = NULL
  BY <1>4, <1>6
<1>9. \A j \in Slots' : First(j) => j = s
  <2>1. empty \subseteq Nat
    BY <1>2
  <2> HIDE DEF empty
  <2>2. \A j \in empty : j \in Nat /\ s \in Nat /\ s <= j
    BY <1>4, <2>1
  <2>3. \A j : First(j) => j \in empty /\ j <= s
    BY <1>4
  <2> QED
    BY <2>2, <2>3
<1>10. \A j \in Slots' : arr'[j] = IF j = s THEN obj ELSE old[j]
  <2> HIDE DEF cap, old, First
  <2> QED
    BY <1>5, <1>6, <1>8, <1>9
<1> HIDE DEF cap, old, empty, First
<1>11. Puts(s, obj)
  BY <1>6, <1>7, <1>8, <1>10 DEF Puts
<1> QED
  BY <1>8, <1>11

LEMMA StoreAndForwardStores ==
  ASSUME SafeInv, ClientsOnlyAsk, NEW fd \in Fds, NEW k, StoreAndForward(fd, k)
  PROVE  \E i \in Slots :
           /\ Stores(fd, i)
           /\ answers' = [Answered(Served(i), sock[fd].url) EXCEPT ![fd] = NoAnswers]
<1> CacheTypeOK
  BY DEF SafeInv, TypeInv, CacheInv
<1>1. sock[fd].role = "origin" /\ ServerUrl(fd) = sock[fd].url
  BY FramedAreOrigins DEF StoreAndForward
<1>2. PICK i \in Slots :
        /\ FindByUrl(ServerUrl(fd), i)
        /\ StoreResponse(i, AgeLimit(Buffer(fd, k)[Len(Buffer(fd, k))]),
                         sock[fd].url, Served(i))
        /\ answers' = [Answered(Served(i), sock[fd].url) EXCEPT ![fd] = NoAnswers]
        /\ CloseOrigin(fd, i)
  BY DEF StoreAndForward
<1>3. arr[i] # NULL /\ arr[i].key = sock[fd].url /\ arr[i] \in CacheObj
  BY <1>1, <1>2 DEF FindByUrl, Matches, CacheTypeOK
<1> DEFINE limit == AgeLimit(Buffer(fd, k)[Len(Buffer(fd, k))])
           p == DeleteFromClientfds([arr[i] EXCEPT !.max_age = limit, !.age = 0,
                                                  !.source = sock[fd].url], Served(i))
<1>4. arr' = [arr EXCEPT ![i] = p] /\ capacity' = capacity
  BY <1>2 DEF StoreResponse
<1>5. limit \in MaxAges
  <2>1. /\ Reads(fd, k) /\ Framed(Buffer(fd, k))
        /\ k \in 1..Len(sock[fd].inq)
    BY DEF StoreAndForward, Reads
  <2>2. Buffer(fd, k) \in Seq(Chunk)
    BY <2>1, ReadsType DEF SafeInv, TypeInv
  <2>3. Len(Buffer(fd, k)) >= 1
    BY <2>1, <2>2 DEF Buffer, SafeInv, TypeInv, BufferTypeOK, LoopTypeOK, Socket
  <2>4. Buffer(fd, k)[Len(Buffer(fd, k))] \in Chunk
    BY <2>2, <2>3
  <2> QED
    BY <2>1, <2>4, AgeLimitType DEF Framed
<1>6. /\ p.url = arr[i].url /\ p.key = arr[i].key /\ p.source = sock[fd].url
      /\ HasResponse(p) /\ p \in CacheObj /\ p # NULL
  <2> DEFINE q == [arr[i] EXCEPT !.max_age = limit, !.age = 0, !.source = sock[fd].url]
  <2> HIDE DEF limit
  <2>1. sock[fd].url \in Urls \cup {NoUrl} /\ 0 \in 0..TimeCap
    BY BaseAssumption DEF SafeInv, TypeInv, LoopTypeOK, Socket, Sources
  <2>2. q \in CacheObj
    BY <1>3, <1>5, <2>1 DEF CacheObj
  <2>3. /\ q.url = arr[i].url /\ q.key = arr[i].key /\ q.source = sock[fd].url
        /\ q.age = 0
    BY <1>3 DEF CacheObj
  <2>4. p = DeleteFromClientfds(q, Served(i))
    OBVIOUS
  <2> HIDE DEF q, p
  <2> QED
    BY <2>2, <2>3, <2>4, KeepsStruck, CacheAssumption DEF Keeps, HasResponse
<1> HIDE DEF p
<1>7. arr'[i] = p /\ \A j \in Slots \ {i} : arr'[j] = arr[j]
  BY <1>4 DEF CacheTypeOK
<1>8. Stores(fd, i)
  BY <1>1, <1>2, <1>3, <1>4, <1>6, <1>7 DEF Stores, CloseOrigin, Slots
<1> QED
  BY <1>2, <1>8

LEMMA ForwardGetOpens ==
  ASSUME ExactKeys, SafeInv, NEW fd \in Fds, NEW k \in 1..MaxSends,
         NEW r \in Requests, NEW new \in Fds, ForwardGet(fd, k, r, new)
  PROVE  \E s \in Slots' : Opens(new, r.url, s)
<1> CacheInv /\ LoopTypeOK
  BY DEF SafeInv, TypeInv
<1>1. OpensOrigin(fd, k, r, new) /\ ~Found(r.url) /\ r.url \in Urls
      /\ sock' = [Drained(fd, k) EXCEPT ![new] = Connection("origin", r.url)]
  BY RequestType DEF ForwardGet, OpensOrigin
<1>2. DOMAIN Drained(fd, k) = Fds
  BY DEF Drained, LoopTypeOK
<1>3. /\ sock'[new].role = "origin" /\ sock'[new].url = r.url
      /\ \A g \in Fds \ {new} : sock'[g].role = sock[g].role /\ sock'[g].url = sock[g].url
  BY <1>1, <1>2, DrainedEffect DEF Connection
<1>4. sock[new].role = "free"
  BY <1>1, OpensOriginEffect DEF Hands, Open
<1>5. InsertIntoCache(NewCacheObject(r.url, r.url, fd)) /\ r.url \in KeysRead[r.url]
  BY <1>1 DEF ForwardGet, ExactKeys
<1>6. \E s \in Slots' : Puts(s, NewCacheObject(r.url, r.url, fd))
  BY <1>1, <1>5, NewObject, InsertPuts
<1> QED
  BY <1>1, <1>3, <1>4, <1>6 DEF Opens

LEMMA ReadingKeepsOrigins ==
  ASSUME LoopTypeOK, NEW fd \in Fds, NEW k, sock' = Drained(fd, k) PROVE SameOrigins
BY DrainedEffect DEF SameOrigins

LEMMA QuietLoop ==
  ASSUME SafeInv, UNCHANGED sock, UNCHANGED cacheVars \/ DeleteExpired \/ CacheTick
  PROVE  Quiet
<1> CacheTypeOK
  BY DEF SafeInv, TypeInv, CacheInv
<1>1. Retained
  BY SameCacheRetained, DeleteExpiredRetained, CacheTickRetained
<1> QED
  BY <1>1 DEF Quiet, SameOrigins

\* Steps that read on, answer or drop a request, or let the peers go on.
LEMMA QuietSteps ==
  ASSUME SafeInv, NEW fd \in Fds,
         \/ ReadError(fd) \/ ClientSend(fd) \/ OriginSend(fd) \/ PeerClose(fd)
         \/ \E k \in 1..MaxSends : Relay(fd, k) \/ KeepPartial(fd, k)
         \/ \E k \in 1..MaxSends, r \in Requests :
              ServeFromCache(fd, k, r) \/ DropRequest(fd, k, r)
  PROVE  Quiet
<1> CacheTypeOK /\ LoopTypeOK
  BY DEF SafeInv, TypeInv, CacheInv
<1>1. CASE ReadError(fd)
  BY <1>1, SameCacheRetained DEF Quiet, ReadError, SameOrigins, LoopTypeOK, Socket
<1>2. ASSUME NEW role, NEW chunks, Sends(fd, role, chunks)
      PROVE  Quiet
  <2>1. PICK c : sock' = [sock EXCEPT ![fd].inq = Append(@, c), ![fd].sends = @ + 1]
    BY <1>2 DEF Sends
  <2>2. sock[fd] \in Socket
    BY DEF LoopTypeOK
  <2>3. \A g \in Fds : sock'[g].role = sock[g].role /\ sock'[g].url = sock[g].url
    BY <2>1, <2>2 DEF LoopTypeOK, Socket
  <2> QED
    BY <1>2, <2>3, SameCacheRetained DEF Quiet, Sends, SameOrigins
<1>3. CASE PeerClose(fd)
  BY <1>3, SameCacheRetained DEF Quiet, PeerClose, SameOrigins, LoopTypeOK, Socket
<1>4. ASSUME NEW k \in 1..MaxSends, Relay(fd, k) \/ KeepPartial(fd, k)
      PROVE  Quiet
  BY <1>4, SameCacheRetained, ReadingKeepsOrigins DEF Quiet, Relay, KeepPartial
<1>5. ASSUME NEW k \in 1..MaxSends, NEW r \in Requests, ServeFromCache(fd, k, r)
      PROVE  Quiet
  <2>1. PICK i \in Slots : FindByUrl(r.url, i) /\ TouchObject(i, fd)
    BY <1>5 DEF ServeFromCache
  <2>2. Retained
    BY <2>1, TouchRetained DEF FindByUrl, Matches
  <2> QED
    BY <1>5, <2>2, ReadingKeepsOrigins DEF Quiet, ServeFromCache, Consumed
<1>6. ASSUME NEW k \in 1..MaxSends, NEW r \in Requests, DropRequest(fd, k, r)
      PROVE  Quiet
  BY <1>6, SameCacheRetained, ReadingKeepsOrigins DEF Quiet, DropRequest, Consumed
<1> QED
  BY <1>1, <1>2, <1>3, <1>4, <1>5, <1>6 DEF ClientSend, OriginSend

Happens ==
  \/ Quiet
  \/ \E fd \in Fds : Loses(fd)
  \/ \E fd \in Fds, i \in Slots : Stores(fd, i)
  \/ \E new \in Fds, u \in Urls : \E s \in Slots' : Opens(new, u, s)

LEMMA StepKinds ==
  ASSUME OnlyGets, ExactKeys, SafeInv, ClientsOnlyAsk, [Next]_vars PROVE Happens
<1> USE DEF Happens
<1> CacheTypeOK
  BY DEF SafeInv, TypeInv, CacheInv
<1>1. CASE Die \/ AddTokensStep \/ CheckCachedMessages \/ Select \/ EndOfPass \/ Tick
           \/ UNCHANGED vars
  BY <1>1, QuietLoop DEF AddTokensStep, CheckCachedMessages, Select, EndOfPass,
     Tick, Die, vars, cacheVars
<1>2. CASE HandleNewConnection
  <2>1. PICK fd \in Fds : /\ NextFd(fd)
                          /\ sock' = [sock EXCEPT ![fd] = Connection("client", NoUrl)]
    BY <1>2 DEF HandleNewConnection
  <2>2. SameOrigins
    BY <2>1 DEF SameOrigins, NextFd, Open, Connection, SafeInv, TypeInv, LoopTypeOK
  <2> QED
    BY <1>2, <2>2, SameCacheRetained DEF HandleNewConnection, Quiet
<1>3. ASSUME NEW fd \in Fds, HandleExistingConnection(fd)
      PROVE  Happens
  <2>1. CASE HandleDisconnect(fd)
    BY <2>1, DeleteBySockfdRetained DEF HandleDisconnect, Loses
  <2>2. CASE ReadError(fd)
    BY <2>2, QuietSteps
  <2>3. ASSUME NEW k \in 1..MaxSends, HandleServer(fd, k)
        PROVE  Happens
    BY <1>1, <2>3, StoreAndForwardStores DEF HandleServer, AssertFails
  <2>4. ASSUME NEW k \in 1..MaxSends, HandleClient(fd, k)
        PROVE  Happens
    <3>1. ASSUME NEW r \in Requests, NEW new \in Fds, ForwardGet(fd, k, r, new)
          PROVE  Happens
      BY <3>1, ForwardGetOpens, RequestType
    <3>2. ASSUME NEW r \in Requests, NEW new \in Fds,
                 OpenTunnel(fd, k, r, new) \/ ConnectOnly(fd, k, r, new)
          PROVE  FALSE
      BY <3>2 DEF OpenTunnel, ConnectOnly, OnlyGets
    <3>3. ASSUME NEW r \in Requests, ServeFromCache(fd, k, r) \/ DropRequest(fd, k, r)
          PROVE  Happens
      BY <3>3, QuietSteps
    <3>4. ASSUME NEW r \in Requests, OriginFails(fd, k, r)
          PROVE  Happens
      BY <1>1, <3>4 DEF OriginFails
    <3> QED
      BY <2>4, <3>1, <3>2, <3>3, <3>4 DEF HandleClient
  <2>5. ASSUME NEW k \in 1..MaxSends, Relay(fd, k) \/ KeepPartial(fd, k)
        PROVE  Happens
    BY <2>5, QuietSteps
  <2>6. ASSUME NEW k \in 1..MaxSends, WriteFails(fd, k)
        PROVE  Happens
    BY <1>1, <2>6 DEF WriteFails
  <2> QED
    BY <1>3, <2>1, <2>2, <2>3, <2>4, <2>5, <2>6 DEF HandleExistingConnection
<1>4. ASSUME NEW fd \in Fds, ClientSend(fd) \/ OriginSend(fd) \/ PeerClose(fd)
      PROVE  Happens
  BY <1>4, QuietSteps
<1>5. CASE RetryFails \/ AcceptFails \/ Terminated
  BY <1>1, <1>5 DEF RetryFails, AcceptFails, Terminated
<1> HIDE DEF Happens
<1> QED
  BY <1>1, <1>2, <1>3, <1>4, <1>5 DEF Next, Loop, Environment

(***************************************************************************)
(* The invariant: an object is of the URL it is found by, and an origin    *)
(* being read has an object of its own to store its response in.           *)
(***************************************************************************)
HoldsItsUrl ==
  \A i \in Slots : arr[i] # NULL =>
    /\ arr[i].key = arr[i].url
    /\ HasResponse(arr[i]) => arr[i].source = arr[i].url

Awaits(u, i) == arr[i] # NULL /\ arr[i].key = u /\ ~HasResponse(arr[i])

OneFetch ==
  \A fd \in Fds : sock[fd].role = "origin" =>
    /\ \E i \in Slots : Awaits(sock[fd].url, i)
    /\ \A g \in Fds : (sock[g].role = "origin" /\ sock[g].url = sock[fd].url)
                         => g = fd

FetchInv ==
  SafeInv /\ UniqueKeys /\ ClientsOnlyAsk /\ HoldsItsUrl /\ OneFetch

LEMMA InitFetch == Init => FetchInv
<1> SUFFICES ASSUME Init PROVE FetchInv
  OBVIOUS
<1>1. \A fd \in Fds : sock[fd].role = "free"
  BY DEF Init, NoSocket, Connection
<1>2. \A i \in Slots : arr[i] = NULL
  BY DEF Init, CacheInit, Slots
<1> QED
  BY <1>1, <1>2, InitSafe DEF FetchInv, UniqueKeys, ClientsOnlyAsk, HoldsItsUrl, OneFetch

LEMMA RetainedKeeps ==
  ASSUME HoldsItsUrl, Retained
  PROVE  /\ HoldsItsUrl'
         /\ \A i \in Slots : \A u : Awaits(u, i) => i \in Slots' /\ Awaits(u, i)'
BY DEF HoldsItsUrl, Retained, Keeps, Awaits, HasResponse

\* Fewer origins, and no pending object goes.
LEMMA FewerOriginsFetch ==
  ASSUME HoldsItsUrl, OneFetch, Retained,
         \A g \in Fds : sock'[g].role = "origin" =>
           sock[g].role = "origin" /\ sock'[g].url = sock[g].url
  PROVE  HoldsItsUrl' /\ OneFetch'
<1>1. HoldsItsUrl' /\ \A i \in Slots : \A u : Awaits(u, i) => i \in Slots' /\ Awaits(u, i)'
  BY RetainedKeeps
<1>2. ASSUME NEW fd \in Fds, sock'[fd].role = "origin"
      PROVE  /\ \E i \in Slots' : Awaits(sock[fd].url, i)'
             /\ \A g \in Fds : (sock'[g].role = "origin" /\ sock'[g].url = sock'[fd].url)
                                  => g = fd
  <2>1. PICK i \in Slots : Awaits(sock[fd].url, i)
    BY <1>2 DEF OneFetch
  <2> DEFINE u == sock[fd].url
  <2>2. u' = u
    BY <1>2
  <2>3. i \in Slots' /\ Awaits(u, i)'
    BY <1>1, <2>1, <2>2 DEF Awaits
  <2> QED
    BY <1>2, <2>2, <2>3 DEF OneFetch
<1> QED
  BY <1>1, <1>2 DEF OneFetch, Awaits

LEMMA ClosedOrigin ==
  ASSUME LoopTypeOK, NEW fd \in Fds, sock' = [sock EXCEPT ![fd] = NoSocket]
  PROVE  /\ sock'[fd].role = "free"
         /\ \A g \in Fds \ {fd} : sock'[g] = sock[g]
BY DEF LoopTypeOK, NoSocket, Connection

LEMMA StoresFetch ==
  ASSUME FetchInv, NEW fd \in Fds, NEW i \in Slots, Stores(fd, i)
  PROVE  HoldsItsUrl' /\ OneFetch' /\ ~HasResponse(arr[i])
<1> HoldsItsUrl /\ OneFetch /\ UniqueKeys /\ LoopTypeOK /\ CacheTypeOK
  BY DEF FetchInv, SafeInv, TypeInv, CacheInv
<1>1. /\ sock[fd].role = "origin" /\ sock'[fd].role = "free"
      /\ \A g \in Fds \ {fd} : sock'[g] = sock[g]
  BY ClosedOrigin DEF Stores
<1>2. arr[i] # NULL /\ arr[i].key = sock[fd].url /\ Slots' = Slots
      /\ \A j \in Slots \ {i} : arr'[j] = arr[j]
  BY DEF Stores
<1>3. arr[i].url \in Urls /\ arr[i].key = arr[i].url
  BY <1>2 DEF CacheTypeOK, CacheObj, HoldsItsUrl
<1>4. \A j \in Slots : arr[j] # NULL /\ arr[j].key = sock[fd].url => j = i
  BY <1>2, <1>3 DEF UniqueKeys
<1>5. ~HasResponse(arr[i])
  BY <1>1, <1>4 DEF OneFetch, Awaits
<1>6. HoldsItsUrl'
  BY <1>2, <1>3 DEF Stores, HoldsItsUrl, HasResponse
<1>7. ASSUME NEW g \in Fds, sock'[g].role = "origin"
      PROVE  /\ \E j \in Slots' : Awaits(sock[g].url, j)'
             /\ \A h \in Fds : (sock'[h].role = "origin" /\ sock'[h].url = sock'[g].url)
                                  => h = g
  <2>1. g # fd /\ sock'[g] = sock[g] /\ sock[g].role = "origin"
    BY <1>1, <1>7
  <2>2. sock[g].url # sock[fd].url
    BY <1>1, <2>1 DEF OneFetch
  <2>3. PICK j \in Slots : Awaits(sock[g].url, j)
    BY <2>1 DEF OneFetch
  <2>4. j # i /\ j \in Slots' /\ arr'[j] = arr[j]
    BY <1>2, <2>2, <2>3 DEF Awaits
  <2>5. Awaits(sock[g].url, j)'
    BY <2>1, <2>3, <2>4 DEF Awaits, HasResponse
  <2> QED
    BY <1>1, <2>1, <2>4, <2>5 DEF OneFetch
<1>8. OneFetch'
  BY <1>7 DEF OneFetch, Awaits
<1> QED
  BY <1>5, <1>6, <1>8

LEMMA NewObjectPends ==
  ASSUME NEW u, NEW fd
  PROVE  LET p == NewCacheObject(u, u, fd) IN p.key = u /\ p.url = u /\ ~HasResponse(p)
BY DEF NewCacheObject, HasResponse

LEMMA OpensFetch ==
  ASSUME FetchInv, NEW new \in Fds, NEW u \in Urls, NEW s \in Slots', Opens(new, u, s)
  PROVE  HoldsItsUrl' /\ OneFetch'
<1> HoldsItsUrl /\ OneFetch /\ LoopTypeOK /\ CacheTypeOK
  BY DEF FetchInv, SafeInv, TypeInv, CacheInv
<1>1. PICK fd \in Fds : Puts(s, NewCacheObject(u, u, fd))
  BY DEF Opens
<1> DEFINE obj == NewCacheObject(u, u, fd)
<1>2. obj.key = u /\ obj.url = u /\ ~HasResponse(obj) /\ obj # NULL
  <2>1. obj \in CacheObj
    BY BaseAssumption DEF NewCacheObject, CacheObj
  <2> QED
    BY <2>1, NewObjectPends, CacheAssumption
<1> HIDE DEF obj
<1>3. /\ arr'[s] = obj /\ Slots \subseteq Slots'
      /\ s \in Slots => arr[s] = NULL
      /\ \A j \in Slots' \ {s} : arr'[j] = IF j \in Slots THEN arr[j] ELSE NULL
  BY <1>1 DEF Puts, obj
<1>4. HoldsItsUrl'
  BY <1>2, <1>3 DEF HoldsItsUrl, HasResponse
<1>5. Awaits(u, s)'
  BY <1>2, <1>3 DEF Awaits, HasResponse
<1>6. ASSUME NEW g \in Fds \ {new}, sock'[g].role = "origin"
      PROVE  /\ sock'[g].url # u
             /\ \E j \in Slots' : Awaits(sock[g].url, j)'
             /\ \A h \in Fds \ {new} : (sock'[h].role = "origin" /\ sock'[h].url = sock'[g].url)
                                  => h = g
  <2>1. sock[g].role = "origin" /\ sock'[g].url = sock[g].url
    BY <1>6 DEF Opens
  <2>2. PICK j \in Slots : Awaits(sock[g].url, j)
    BY <2>1 DEF OneFetch
  <2>3. sock[g].url # u
    BY <2>2 DEF Awaits, Opens, Found, Matches
  <2>4. j \in Slots' /\ arr'[j] = arr[j]
    BY <1>3, <2>2 DEF Awaits
  <2>5. Awaits(sock[g].url, j)'
    BY <2>1, <2>2, <2>4 DEF Awaits, HasResponse
  <2>6. ASSUME NEW h \in Fds \ {new}, sock'[h].role = "origin", sock'[h].url = sock'[g].url
        PROVE  h = g
    BY <2>1, <2>6 DEF Opens, OneFetch
  <2> QED
    BY <2>1, <2>3, <2>4, <2>5, <2>6
<1>7. sock'[new].role = "origin" /\ sock'[new].url = u
  BY DEF Opens
<1>8. OneFetch'
  <2> SUFFICES ASSUME NEW g \in Fds, sock'[g].role = "origin"
               PROVE  /\ \E j \in Slots' : Awaits(sock[g].url, j)'
                      /\ \A h \in Fds : (sock'[h].role = "origin"
                                           /\ sock'[h].url = sock'[g].url) => h = g
    BY DEF OneFetch, Awaits
  <2>1. CASE g = new
    <3>1. Awaits(sock[g].url, s)'
      BY <1>5, <1>7, <2>1 DEF Awaits
    <3> QED
      BY <1>6, <1>7, <2>1, <3>1
  <2>2. CASE g # new
    BY <1>6, <1>7, <2>2
  <2> QED
    BY <2>1, <2>2
<1> QED
  BY <1>4, <1>8

LEMMA NextFetch ==
  ASSUME OnlyGets, ExactKeys, FetchInv, [Next]_vars PROVE FetchInv'
<1> HoldsItsUrl /\ OneFetch /\ SafeInv /\ LoopTypeOK /\ ClientsOnlyAsk
  BY DEF FetchInv, SafeInv, TypeInv
<1>1. SafeInv' /\ UniqueKeys' /\ ClientsOnlyAsk'
  BY NextSafe, NextUniqueKeys, NextAsks DEF FetchInv, SafeInv, FaithfulKeys, ExactKeys
<1>2. ASSUME Quiet PROVE HoldsItsUrl' /\ OneFetch'
  <2>1. \A g \in Fds : sock'[g].role = "origin" =>
          sock[g].role = "origin" /\ sock'[g].url = sock[g].url
    BY <1>2 DEF Quiet, SameOrigins
  <2> QED
    BY <1>2, <2>1, FewerOriginsFetch DEF Quiet
<1>3. ASSUME NEW fd \in Fds, Loses(fd)
      PROVE  HoldsItsUrl' /\ OneFetch'
  BY <1>3, ClosedOrigin, FewerOriginsFetch DEF Loses
<1>4. ASSUME NEW fd \in Fds, NEW i \in Slots, Stores(fd, i)
      PROVE  HoldsItsUrl' /\ OneFetch'
  BY <1>4, StoresFetch
<1>5. ASSUME NEW new \in Fds, NEW u \in Urls, NEW s \in Slots', Opens(new, u, s)
      PROVE  HoldsItsUrl' /\ OneFetch'
  BY <1>5, OpensFetch
<1>6. HoldsItsUrl' /\ OneFetch'
  <2>1. Happens
    BY StepKinds
  <2> QED
    BY <1>2, <1>3, <1>4, <1>5, <2>1 DEF Happens
<1> QED
  BY <1>1, <1>6 DEF FetchInv

LEMMA FetchInvariant == OnlyGets /\ ExactKeys => (Spec => []FetchInv)
<1> SUFFICES ASSUME OnlyGets, ExactKeys PROVE Spec => []FetchInv
  OBVIOUS
<1>1. Init => FetchInv
  BY InitFetch
<1>2. FetchInv /\ [Next]_vars => FetchInv'
  BY NextFetch
<1> QED
  BY <1>1, <1>2, PTL DEF Spec

------------------------------------------------------------------------------
\* While an origin is being read for a URL there is one connection to it, and
\* its cache object is there, without a response: nothing is fetched twice.
THEOREM FetchedOnce == OnlyGets /\ ExactKeys => (Spec => []OneFetchPerUrl)
<1> SUFFICES ASSUME OnlyGets, ExactKeys PROVE Spec => []OneFetchPerUrl
  OBVIOUS
<1>1. FetchInv => OneFetchPerUrl
  <2> SUFFICES ASSUME FetchInv, NEW fd \in Fds, sock[fd].role = "origin"
               PROVE  \E i \in Slots : FindByUrl(ServerUrl(fd), i) /\ ~HasResponse(arr[i])
    BY DEF OneFetchPerUrl, FetchInv, OneFetch
  <2>1. PICK i \in Slots : Awaits(sock[fd].url, i)
    BY DEF FetchInv, OneFetch
  <2>2. arr[i] \in CacheObj /\ arr[i].key \in Urls /\ i <= i
    BY <2>1 DEF Awaits, FetchInv, SafeInv, TypeInv, CacheInv, CacheTypeOK, CacheObj,
                HoldsItsUrl, Slots
  <2>3. ServerUrl(fd) = sock[fd].url
    BY DEF FetchInv, SafeInv, OriginsRecognised
  <2>4. \A j \in Matches(ServerUrl(fd)) : j = i
    BY <2>1, <2>2, <2>3 DEF Awaits, FetchInv, UniqueKeys, Matches
  <2> QED
    BY <2>1, <2>2, <2>3, <2>4 DEF Awaits, FindByUrl, Matches
<1> QED
  BY <1>1, FetchInvariant, PTL

\* handleServer's assertion: the object of a complete response is in the cache.
THEOREM AssertionHolds == OnlyGets /\ ExactKeys => (Spec => []AssertHolds)
<1> SUFFICES ASSUME OnlyGets, ExactKeys PROVE Spec => []AssertHolds
  OBVIOUS
<1>1. FetchInv => AssertHolds
  <2> SUFFICES ASSUME FetchInv, NEW fd \in Fds, NEW k \in 1..MaxSends,
                      Reads(fd, k), IsServer(fd), Framed(Buffer(fd, k))
               PROVE  Found(ServerUrl(fd))
    BY DEF AssertHolds
  <2>1. sock[fd].role = "origin" /\ ServerUrl(fd) = sock[fd].url
    BY FramedAreOrigins DEF FetchInv
  <2>2. PICK i \in Slots : Awaits(sock[fd].url, i)
    BY <2>1 DEF FetchInv, OneFetch
  <2> QED
    BY <2>1, <2>2 DEF Awaits, Found, Matches
<1> QED
  BY <1>1, FetchInvariant, PTL

(***************************************************************************)
(* A stored response stays what it is.                                     *)
(***************************************************************************)
LEMMA NextKeepsResponses ==
  ASSUME OnlyGets, ExactKeys, FetchInv, [Next]_vars,
         NEW i \in Slots, arr[i] # NULL, HasResponse(arr[i]), arr'[i] # NULL
  PROVE  arr'[i].age >= arr[i].age /\ arr'[i].max_age = arr[i].max_age
<1>1. arr[i] \in CacheObj
  BY DEF FetchInv, SafeInv, TypeInv, CacheInv, CacheTypeOK
<1>2. arr'[i] = arr[i] \/ Retained
  <2>1. ASSUME NEW fd \in Fds, NEW j \in Slots, Stores(fd, j)
        PROVE  arr'[i] = arr[i]
    BY <2>1, StoresFetch DEF Stores
  <2>2. ASSUME NEW new \in Fds, NEW u \in Urls, NEW s \in Slots', Opens(new, u, s)
        PROVE  arr'[i] = arr[i]
    BY <2>2 DEF Opens, Puts
  <2>3. Happens
    BY StepKinds DEF FetchInv
  <2> QED
    BY <2>1, <2>2, <2>3 DEF Happens, Quiet, Loses
<1>3. CASE arr'[i] = arr[i]
  BY <1>1, <1>3, AgeIsInt
<1>4. CASE Retained
  BY <1>4 DEF Retained, Keeps
<1> QED
  BY <1>2, <1>3, <1>4

\* A response is stored once: until it is deleted its age only grows and its
\* limit stays.
THEOREM StoresOnce == OnlyGets /\ ExactKeys => (Spec => StoredOnce)
<1> SUFFICES ASSUME OnlyGets, ExactKeys PROVE Spec => StoredOnce
  OBVIOUS
<1> DEFINE Ages == \A i \in Slots :
             (arr[i] # NULL /\ HasResponse(arr[i]) /\ arr'[i] # NULL)
                => arr'[i].age >= arr[i].age /\ arr'[i].max_age = arr[i].max_age
<1>1. FetchInv /\ [Next]_vars => Ages
  BY NextKeepsResponses
<1> HIDE DEF Ages
<1>2. Spec => [][Ages]_vars
  BY <1>1, FetchInvariant, PTL DEF Spec
<1> QED
  BY <1>2 DEF StoredOnce, Ages

------------------------------------------------------------------------------
(***************************************************************************)
(* What was written to a connection, and what was asked on it.             *)
(***************************************************************************)
LEMMA AnsweredEffect ==
  ASSUME HistoryTypeOK, NEW fds, NEW src \in Sources,
         NEW g \in Fds, NEW v \in Sources, Answered(fds, src)[g][v] > 0
  PROVE  answers[g][v] > 0 \/ (g \in fds /\ v = src)
<1>1. answers[g] \in [Sources -> 0..AnswerCap]
  BY DEF HistoryTypeOK
<1>2. CASE v # src \/ g \notin fds
  <2>1. Answered(fds, src)[g][v] = answers[g][v]
    BY <1>1, <1>2 DEF Answered
  <2> QED
    BY <2>1
<1> QED
  BY <1>2

\* Who waits for an object, and so is sent what is stored in it, asked for it.
LEMMA WaitersAsk ==
  ASSUME SafeInv, NEW i \in Slots, arr[i] # NULL, NEW g \in arr[i].client_fds
  PROVE  g \in Fds /\ arr[i].url \in Urls /\ asks[g][arr[i].url] > 0
BY DEF SafeInv, WaitersAreAskers, TypeInv, CacheInv, CacheTypeOK, CacheObj

\* Steps that write nothing and forget no request.
LEMMA NothingWritten ==
  ASSUME AnswersWereAsked, NothingForgotten, UNCHANGED answers
  PROVE  AnswersWereAsked'
BY DEF AnswersWereAsked, NothingForgotten

LEMMA RetryAnswers ==
  ASSUME FetchInv, AnswersWereAsked, CheckCachedMessages PROVE AnswersWereAsked'
<1> SafeInv /\ CacheInv /\ LoopTypeOK /\ HistoryTypeOK
  BY DEF FetchInv, SafeInv, TypeInv
<1>1. asks' = asks
  BY DEF CheckCachedMessages
<1>2. CASE Retried = {}
  BY <1>1, <1>2, SameAsks, NothingWritten DEF CheckCachedMessages
<1>3. CASE Retried # {}
  <2>1. idx \in Slots /\ arr[idx] # NULL /\ HasResponse(arr[idx])
    BY <1>3 DEF CheckCachedMessages, Retried, LoopTypeOK, CacheInv, CacheTypeOK,
                ScanCoversObjects, Slots
  <2>2. arr[idx].source = arr[idx].url /\ arr[idx].url \in Urls
    BY <2>1 DEF FetchInv, HoldsItsUrl, CacheInv, CacheTypeOK, CacheObj
  <2>3. \A g \in Retried : asks[g][arr[idx].url] > 0
    BY <2>1, WaitersAsk DEF Retried
  <2>4. answers' = Answered(Retried, arr[idx].source)
    BY <1>3 DEF CheckCachedMessages
  <2> SUFFICES ASSUME NEW g \in Fds, NEW v \in Sources, answers'[g][v] > 0
               PROVE  v \in Urls /\ asks[g][v] > 0
    BY <1>1 DEF AnswersWereAsked
  <2>5. answers[g][v] > 0 \/ (g \in Retried /\ v = arr[idx].source)
    BY <2>2, <2>4, AnsweredEffect DEF Sources
  <2> QED
    BY <2>2, <2>3, <2>5 DEF AnswersWereAsked
<1> QED
  BY <1>2, <1>3

LEMMA DisconnectAnswers ==
  ASSUME FetchInv, AnswersWereAsked, NEW fd \in Fds, HandleDisconnect(fd)
  PROVE  AnswersWereAsked'
<1> HistoryTypeOK
  BY DEF FetchInv, SafeInv, TypeInv
<1>1. answers'[fd] = NoAnswers
      /\ \A g \in Fds \ {fd} : answers'[g] = answers[g] /\ asks'[g] = asks[g]
  BY DEF HandleDisconnect, HistoryTypeOK
<1> QED
  BY <1>1 DEF AnswersWereAsked, NoAnswers

LEMMA StoreAnswers ==
  ASSUME FetchInv, AnswersWereAsked, NEW fd \in Fds, NEW k, StoreAndForward(fd, k)
  PROVE  AnswersWereAsked'
<1> SafeInv /\ HistoryTypeOK
  BY DEF FetchInv, SafeInv, TypeInv
<1>1. PICK i \in Slots :
        /\ Stores(fd, i)
        /\ answers' = [Answered(Served(i), sock[fd].url) EXCEPT ![fd] = NoAnswers]
  BY StoreAndForwardStores DEF FetchInv
<1>2. sock[fd].url = arr[i].url /\ arr[i] # NULL /\ sock[fd].url \in Urls
  BY <1>1 DEF Stores, FetchInv, HoldsItsUrl, SafeInv, TypeInv, CacheInv, CacheTypeOK,
              CacheObj
<1>3. \A g \in Served(i) : asks[g][sock[fd].url] > 0
  BY <1>2, WaitersAsk DEF Served
<1>4. /\ answers'[fd] = NoAnswers
      /\ \A g \in Fds \ {fd} : /\ answers'[g] = Answered(Served(i), sock[fd].url)[g]
                               /\ asks'[g] = asks[g]
  BY <1>1 DEF StoreAndForward, HistoryTypeOK, Answered
<1> SUFFICES ASSUME NEW g \in Fds, NEW v \in Sources, answers'[g][v] > 0
             PROVE  v \in Urls /\ asks'[g][v] > 0
  BY DEF AnswersWereAsked
<1>5. g # fd
  BY <1>4 DEF NoAnswers
<1>6. answers[g][v] > 0 \/ (g \in Served(i) /\ v = sock[fd].url)
  BY <1>2, <1>4, <1>5, AnsweredEffect DEF Sources
<1> QED
  BY <1>2, <1>3, <1>4, <1>5, <1>6 DEF AnswersWereAsked

LEMMA CacheAnswers ==
  ASSUME FetchInv, AnswersWereAsked, NEW fd \in Fds, NEW k \in 1..MaxSends,
         NEW r \in Requests, ServeFromCache(fd, k, r)
  PROVE  AnswersWereAsked'
<1> HistoryTypeOK /\ MaxSends > 0
  BY ProxyAssumption DEF FetchInv, SafeInv, TypeInv
<1>1. PICK i \in Slots :
        /\ FindByUrl(r.url, i) /\ Usable(arr[i])
        /\ answers' = Answered({fd}, arr[i].source)
  BY DEF ServeFromCache
<1>2. r.url \in Urls /\ arr[i].source = r.url
  BY <1>1, RequestType DEF FindByUrl, Matches, Usable, FetchInv, HoldsItsUrl
<1>3. NothingForgotten /\ asks'[fd][r.url] > 0
  BY <1>2, CountedEffect DEF ServeFromCache, Consumed
<1> SUFFICES ASSUME NEW g \in Fds, NEW v \in Sources, answers'[g][v] > 0
             PROVE  v \in Urls /\ asks'[g][v] > 0
  BY DEF AnswersWereAsked
<1>4. answers[g][v] > 0 \/ (g = fd /\ v = r.url)
  BY <1>1, <1>2, AnsweredEffect DEF Sources
<1> QED
  BY <1>2, <1>3, <1>4 DEF AnswersWereAsked, NothingForgotten

LEMMA NextAnswers ==
  ASSUME FetchInv, AnswersWereAsked, [Next]_vars PROVE AnswersWereAsked'
<1> HistoryTypeOK /\ SafeInv /\ MaxSends \in Nat
  BY ProxyAssumption DEF FetchInv, SafeInv, TypeInv
<1>1. CASE UNCHANGED <<asks, answers>>
  BY <1>1, SameAsks, NothingWritten
<1>2. CASE Die \/ AddTokensStep \/ Select \/ HandleNewConnection \/ EndOfPass \/ Tick
           \/ UNCHANGED vars
  BY <1>1, <1>2 DEF Die, AddTokensStep, Select, HandleNewConnection, EndOfPass, Tick,
     vars, ghosts
<1>3. ASSUME NEW fd \in Fds, HandleExistingConnection(fd)
      PROVE  AnswersWereAsked'
  <2>1. CASE HandleDisconnect(fd)
    BY <2>1, DisconnectAnswers
  <2>2. CASE ReadError(fd)
    BY <1>1, <2>2 DEF ReadError, ghosts
  <2>3. ASSUME NEW k \in 1..MaxSends, HandleServer(fd, k)
        PROVE  AnswersWereAsked'
    BY <1>2, <2>3, StoreAnswers DEF HandleServer, AssertFails
  <2>4. ASSUME NEW k \in 1..MaxSends, HandleClient(fd, k)
        PROVE  AnswersWereAsked'
    <3>1. ASSUME NEW r \in Requests, Counted(fd, r.url), UNCHANGED answers
          PROVE  AnswersWereAsked'
      <4>1. MaxSends > 0 /\ r.url \in Urls
        BY RequestType
      <4> QED
        BY <3>1, <4>1, CountedEffect, NothingWritten
    <3>2. ASSUME NEW r \in Requests, NEW new \in Fds,
                 \/ ForwardGet(fd, k, r, new)
                 \/ OpenTunnel(fd, k, r, new)
                 \/ ConnectOnly(fd, k, r, new)
          PROVE  AnswersWereAsked'
      BY <3>1, <3>2 DEF ForwardGet, OpenTunnel, ConnectOnly, OpensOrigin
    <3>3. ASSUME NEW r \in Requests, DropRequest(fd, k, r)
          PROVE  AnswersWereAsked'
      BY <3>1, <3>3 DEF DropRequest, Consumed
    <3>4. ASSUME NEW r \in Requests, ServeFromCache(fd, k, r) \/ OriginFails(fd, k, r)
          PROVE  AnswersWereAsked'
      BY <1>2, <3>4, CacheAnswers DEF OriginFails
    <3> QED
      BY <2>4, <3>2, <3>3, <3>4 DEF HandleClient
  <2>5. ASSUME NEW k \in 1..MaxSends,
               Relay(fd, k) \/ KeepPartial(fd, k) \/ WriteFails(fd, k)
        PROVE  AnswersWereAsked'
    BY <1>1, <1>2, <2>5 DEF Relay, KeepPartial, WriteFails, ghosts
  <2> QED
    BY <1>3, <2>1, <2>2, <2>3, <2>4, <2>5 DEF HandleExistingConnection
<1>4. CASE RetryFails \/ AcceptFails \/ Terminated
  BY <1>2, <1>4 DEF RetryFails, AcceptFails, Terminated
<1>5. ASSUME NEW fd \in Fds, ClientSend(fd) \/ OriginSend(fd) \/ PeerClose(fd)
      PROVE  AnswersWereAsked'
  BY <1>1, <1>5 DEF ClientSend, OriginSend, Sends, PeerClose, ghosts
<1> QED
  BY <1>2, <1>3, <1>4, <1>5, RetryAnswers DEF Next, Loop, Environment

\* Nobody is sent what he did not ask for, however descriptors are reused while
\* responses wait for tokens.
THEOREM AnswersAsked == OnlyGets /\ ExactKeys => (Spec => []AnswersWereAsked)
<1> SUFFICES ASSUME OnlyGets, ExactKeys PROVE Spec => []AnswersWereAsked
  OBVIOUS
<1>1. Init => AnswersWereAsked
  BY DEF Init, AnswersWereAsked, NoAnswers
<1>2. FetchInv /\ AnswersWereAsked /\ [Next]_vars => AnswersWereAsked'
  BY NextAnswers
<1> QED
  BY <1>1, <1>2, FetchInvariant, PTL DEF Spec

(***************************************************************************)
(* The refinement: each of the four kinds of step is one of UrlStore's.    *)
(***************************************************************************)
Status(stored, pending, fetching) ==
  IF stored THEN "stored"
  ELSE IF ~pending THEN "absent" ELSE IF fetching THEN "fetching" ELSE "lost"

LEMMA UrlStateIs ==
  /\ \A u \in Urls : UrlState[u] = Status(Stored(u), Pending(u), Fetching(u))
  /\ \A u \in Urls : UrlState'[u] = Status(Stored(u)', Pending(u)', Fetching(u)')
  /\ UrlState' = [u \in Urls |-> UrlState'[u]]
BY DEF UrlState, Status

LEMMA UrlsTurn ==
  ASSUME NEW U \in SUBSET Urls, NEW from, NEW to,
         \A u \in U : UrlState[u] = from /\ UrlState'[u] = to,
         \A u \in Urls \ U : UrlState'[u] = UrlState[u]
  PROVE  Store!Turns(U, from, to)
BY UrlStateIs DEF Store!Turns

\* An object with this key either has a response or it has not, and there is
\* one while the URL is being fetched.
LEMMA OneStatus ==
  ASSUME FetchInv, NEW u \in Urls
  PROVE  ~(Stored(u) /\ Pending(u)) /\ (Fetching(u) => Pending(u))
BY DEF FetchInv, UniqueKeys, OneFetch, Awaits, Stored, Pending, Fetching

LEMMA OriginUrl ==
  ASSUME FetchInv, NEW fd \in Fds, sock[fd].role = "origin"
  PROVE  sock[fd].url \in Urls
<1>1. PICK i \in Slots : Awaits(sock[fd].url, i)
  BY DEF FetchInv, OneFetch
<1> QED
  BY <1>1 DEF Awaits, FetchInv, HoldsItsUrl, SafeInv, TypeInv, CacheInv, CacheTypeOK,
              CacheObj

LEMMA RetainedStatus ==
  ASSUME Retained, NEW u
  PROVE  /\ Pending(u)' <=> Pending(u)
         /\ Stored(u)' => Stored(u)
         /\ NoneDeleted /\ Stored(u) => Stored(u)'
BY DEF Retained, Keeps, NoneDeleted, Pending, Stored, HasResponse

LEMMA QuietExpires ==
  ASSUME FetchInv, Quiet PROVE \E U \in SUBSET Urls : Store!Expire(U)
<1> DEFINE U == {u \in Urls : Stored(u) /\ ~(Stored(u)')}
<1>1. \A u : /\ Pending(u)' <=> Pending(u)
             /\ Stored(u)' => Stored(u)
             /\ Fetching(u)' <=> Fetching(u)
  BY RetainedStatus DEF Quiet, SameOrigins, Fetching
<1>2. \A u \in U : UrlState[u] = "stored" /\ UrlState'[u] = "absent"
  BY <1>1, UrlStateIs, OneStatus DEF Status
<1>3. \A u \in Urls \ U : UrlState'[u] = UrlState[u]
  BY <1>1, UrlStateIs DEF Status
<1>4. U \in SUBSET Urls
  OBVIOUS
<1> HIDE DEF U
<1>5. Store!Turns(U, "stored", "absent")
  BY <1>2, <1>3, <1>4, UrlsTurn
<1> QED
  BY <1>4, <1>5 DEF Store!Expire

LEMMA LosesOne ==
  ASSUME FetchInv, NEW fd \in Fds, Loses(fd)
  PROVE  UNCHANGED UrlState \/ \E u \in Urls : Store!Lose(u)
<1> LoopTypeOK
  BY DEF FetchInv, SafeInv, TypeInv
<1>1. \A u : (Pending(u)' <=> Pending(u)) /\ (Stored(u)' <=> Stored(u))
  BY RetainedStatus DEF Loses
<1>2. sock'[fd].role = "free" /\ \A g \in Fds \ {fd} : sock'[g] = sock[g]
  BY ClosedOrigin DEF Loses
<1>3. CASE sock[fd].role # "origin"
  <2>1. \A u : Fetching(u)' <=> Fetching(u)
    BY <1>2, <1>3 DEF Fetching
  <2>2. \A u \in Urls : UrlState'[u] = UrlState[u]
    BY <1>1, <2>1, UrlStateIs DEF Status
  <2> QED
    BY <2>2, UrlStateIs DEF UrlState
<1>4. CASE sock[fd].role = "origin"
  <2>1. PICK u \in Urls : u = sock[fd].url
    BY <1>4, OriginUrl
  <2>2. Fetching(u) /\ ~(Fetching(u)')
    BY <1>2, <1>4, <2>1 DEF Fetching, FetchInv, OneFetch
  <2>3. \A v \in Urls \ {u} : Fetching(v)' <=> Fetching(v)
    BY <1>2, <2>1 DEF Fetching
  <2>4. UrlState[u] = "fetching" /\ UrlState'[u] = "lost"
    BY <1>1, <2>1, <2>2, UrlStateIs, OneStatus DEF Status
  <2>5. \A v \in Urls \ {u} : UrlState'[v] = UrlState[v]
    BY <1>1, <2>3, UrlStateIs DEF Status
  <2>6. Store!Turns({u}, "fetching", "lost")
    BY <2>1, <2>4, <2>5, UrlsTurn
  <2> QED
    BY <2>1, <2>6 DEF Store!Lose
<1> QED
  BY <1>3, <1>4

LEMMA StoresOne ==
  ASSUME FetchInv, NEW fd \in Fds, NEW i \in Slots, Stores(fd, i)
  PROVE  \E u \in Urls : Store!Store(u)
<1> LoopTypeOK
  BY DEF FetchInv, SafeInv, TypeInv
<1>1. PICK u \in Urls : u = sock[fd].url
  BY OriginUrl DEF Stores
<1>2. /\ sock[fd].role = "origin" /\ sock'[fd].role = "free"
      /\ \A g \in Fds \ {fd} : sock'[g] = sock[g]
  BY ClosedOrigin DEF Stores
<1>3. /\ arr[i] # NULL /\ arr[i].key = u /\ Slots' = Slots
      /\ \A j \in Slots \ {i} : arr'[j] = arr[j]
      /\ arr'[i] # NULL /\ HasResponse(arr'[i]) /\ arr'[i].key = u
  BY <1>1 DEF Stores
<1>4. ~HasResponse(arr[i])
  BY StoresFetch
<1>5. \A j \in Slots \ {i} : arr[j] # NULL => arr[j].key # u
  BY <1>1, <1>3 DEF FetchInv, UniqueKeys
<1>6. Fetching(u) /\ Pending(u)
  BY <1>1, <1>2, <1>3, <1>4 DEF Fetching, Pending
<1>7. Stored(u)'
  BY <1>3 DEF Stored, HasResponse
<1>8. \A v \in Urls \ {u} : /\ Fetching(v)' <=> Fetching(v)
                            /\ Pending(v)' <=> Pending(v)
                            /\ Stored(v)' <=> Stored(v)
  <2>1. ASSUME NEW v \in Urls \ {u} PROVE Fetching(v)' <=> Fetching(v)
    BY <1>1, <1>2 DEF Fetching
  <2>2. ASSUME NEW v \in Urls \ {u}
        PROVE  (Pending(v)' <=> Pending(v)) /\ (Stored(v)' <=> Stored(v))
    BY <1>3 DEF Pending, Stored, HasResponse
  <2> QED
    BY <2>1, <2>2
<1>9. UrlState[u] = "fetching" /\ UrlState'[u] = "stored"
  BY <1>1, <1>6, <1>7, UrlStateIs, OneStatus DEF Status
<1>10. \A v \in Urls \ {u} : UrlState'[v] = UrlState[v]
  BY <1>8, UrlStateIs DEF Status
<1>11. Store!Turns({u}, "fetching", "stored")
  BY <1>1, <1>9, <1>10, UrlsTurn
<1> QED
  BY <1>1, <1>11 DEF Store!Store

LEMMA OpensOne ==
  ASSUME FetchInv, NEW new \in Fds, NEW u \in Urls, NEW s \in Slots', Opens(new, u, s)
  PROVE  Store!Fetch(u)
<1>1. PICK fd \in Fds : Puts(s, NewCacheObject(u, u, fd))
  BY DEF Opens
<1> DEFINE obj == NewCacheObject(u, u, fd)
<1>2. obj.key = u /\ ~HasResponse(obj) /\ obj # NULL
  <2>1. obj \in CacheObj
    BY BaseAssumption DEF NewCacheObject, CacheObj
  <2> QED
    BY <2>1, NewObjectPends, CacheAssumption
<1> HIDE DEF obj
<1>3. /\ arr'[s] = obj /\ Slots \subseteq Slots'
      /\ s \in Slots => arr[s] = NULL
      /\ \A j \in Slots' \ {s} : arr'[j] = IF j \in Slots THEN arr[j] ELSE NULL
  BY <1>1 DEF Puts, obj
<1>4. ~Stored(u) /\ ~Pending(u)
  BY DEF Opens, Found, Matches, Stored, Pending
<1>5. Pending(u)' /\ Fetching(u)'
  BY <1>2, <1>3 DEF Opens, Pending, Fetching, HasResponse
<1>6. ~(Stored(u)')
  BY <1>2, <1>3, <1>4 DEF Stored, HasResponse
<1>7. ASSUME NEW v \in Urls \ {u}
      PROVE  /\ Fetching(v)' <=> Fetching(v)
             /\ Pending(v)' <=> Pending(v)
             /\ Stored(v)' <=> Stored(v)
  <2>1. Fetching(v)' <=> Fetching(v)
    BY DEF Opens, Fetching
  <2>2. (Pending(v)' <=> Pending(v)) /\ (Stored(v)' <=> Stored(v))
    BY <1>2, <1>3 DEF Pending, Stored, HasResponse
  <2> QED
    BY <2>1, <2>2
<1>8. UrlState[u] = "absent" /\ UrlState'[u] = "fetching"
  BY <1>4, <1>5, <1>6, UrlStateIs DEF Status
<1>9. \A v \in Urls \ {u} : UrlState'[v] = UrlState[v]
  BY <1>7, UrlStateIs DEF Status
<1>10. Store!Turns({u}, "absent", "fetching")
  BY <1>8, <1>9, UrlsTurn
<1> QED
  BY <1>10 DEF Store!Fetch

\* The proxy implements UrlStore: a URL is fetched only when nothing is known of
\* it, over one connection whose complete response is stored, and only an
\* expired response is forgotten.
THEOREM ProxyIsUrlStore == OnlyGets /\ ExactKeys => (Spec => ImplementsUrlStore)
<1> SUFFICES ASSUME OnlyGets, ExactKeys PROVE Spec => ImplementsUrlStore
  OBVIOUS
<1>1. Init => Store!Init
  <2> SUFFICES ASSUME Init PROVE Store!Init
    OBVIOUS
  <2>1. \A i \in Slots : arr[i] = NULL
    BY DEF Init, CacheInit, Slots
  <2>2. \A u : ~Stored(u) /\ ~Pending(u)
    BY <2>1 DEF Stored, Pending
  <2> QED
    BY <2>2 DEF Store!Init, UrlState
<1>2. FetchInv /\ [Next]_vars => [Store!Next]_UrlState
  <2> SUFFICES ASSUME FetchInv, [Next]_vars PROVE [Store!Next]_UrlState
    OBVIOUS
  <2>1. CASE Quiet
    BY <2>1, QuietExpires DEF Store!Next
  <2>2. ASSUME NEW fd \in Fds, Loses(fd) PROVE [Store!Next]_UrlState
    BY <2>2, LosesOne DEF Store!Next
  <2>3. ASSUME NEW fd \in Fds, NEW i \in Slots, Stores(fd, i)
        PROVE  [Store!Next]_UrlState
    BY <2>3, StoresOne DEF Store!Next
  <2>4. ASSUME NEW new \in Fds, NEW u \in Urls, NEW s \in Slots', Opens(new, u, s)
        PROVE  [Store!Next]_UrlState
    BY <2>4, OpensOne DEF Store!Next
  <2>5. Happens
    BY StepKinds DEF FetchInv
  <2> QED
    BY <2>1, <2>2, <2>3, <2>4, <2>5 DEF Happens
<1>3. Spec => Store!Init /\ [][Store!Next]_UrlState
  BY <1>1, <1>2, FetchInvariant, PTL DEF Spec
<1> QED
  BY <1>3 DEF ImplementsUrlStore, Store!Spec

==============================================================================
